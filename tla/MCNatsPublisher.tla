--------------------------- MODULE MCNatsPublisher ---------------------------
(***************************************************************************)
(* Instances of NatsPublisher for TLC: the inventory handler is registered *)
(* with the dispatcher, its follow-up finds no handler.                    *)
(***************************************************************************)
EXTENDS NatsPublisher

Catalog == INSTANCE EventCatalog

NoFollowUp  == Catalog!NoFollowUp
OrderEvents == {"OrderCreated"}

InventoryTypes    == {"OrderCreated", "InventoryReserved"}
InventoryHandlers == [t \in OrderEvents |-> Catalog!DefaultHandlers[t]]
InventoryOutcomes == [t \in OrderEvents |-> {"InventoryReserved"}]

=============================================================================
