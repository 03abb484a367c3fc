---------------------------- MODULE MCDispatcher ----------------------------
(***************************************************************************)
(* Instances of Dispatcher for TLC.                                        *)
(***************************************************************************)
EXTENDS Dispatcher

CONSTANT MaxFacts    \* how many facts the refinement mapping looks at

ASSUME FactsAssumption == MaxFacts \in Nat

Catalog == INSTANCE EventCatalog

AllHandlers == Catalog!DefaultHandlers
NoFollowUp  == Catalog!NoFollowUp
OrderEvents == {"OrderCreated"}

\* Only the inventory handler is registered: its follow-ups find no handler.
InventoryTypes == {"OrderCreated", "InventoryReserved"}
InventoryHandlers == [t \in {"OrderCreated"} |-> AllHandlers[t]]
InventoryOutcomes == [t \in {"OrderCreated"} |-> {"InventoryReserved"}]

\* The payment handler too: an order and its follow-up can stand in one batch.
PaymentTypes == InventoryTypes \cup {"PaymentAuthorized"}
PaymentHandlers == [t \in InventoryTypes |-> AllHandlers[t]]
PaymentOutcomes ==
  [t \in InventoryTypes |->
     {IF t = "OrderCreated" THEN "InventoryReserved" ELSE "PaymentAuthorized"}]

Lifecycle ==
  INSTANCE EventLifecycle
    WITH Facts <- 1 .. MaxFacts, stage <- [o \in 1 .. MaxFacts |-> Stage(o)]

\* One dispatcher whose handlers get their connections, and one operator, implement
\* the life of a fact: retries, batches cut off and replayed copies never apply it
\* twice or bury what was applied (dispatch_pending_batch, process_once, replay).
ImplementsLifecycle == Lifecycle!Spec

\* Every recorded fact ends published or dead-lettered, if the dispatcher is run
\* again and again (the retry policy of dispatch_pending_batch).
FactsSettle == Lifecycle!Settles

=============================================================================
