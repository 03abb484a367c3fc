--------------------------- MODULE EventLifecycle ---------------------------
(***************************************************************************)
(* What EventCart promises about one business fact (an order was created,  *)
(* a payment was authorised, ...), whatever outbox rows, retries, crashes  *)
(* and dead letters carry it: the fact is recorded, waits, and is applied  *)
(* by its consumer at most once; applying it may record one follow-up      *)
(* fact; an applied fact ends published; a fact that was not applied may   *)
(* be buried in the dead-letter store and resubmitted from there.          *)
(*                                                                         *)
(* The brokerless dispatcher with the dead-letter replay command           *)
(* (Dispatcher.tla) is shown to implement this specification.              *)
(***************************************************************************)

CONSTANT Facts      \* identities of business facts

VARIABLE stage      \* stage[f]: where the fact f is in its life

Stages == {"absent", "waiting", "applied", "published", "dead"}

TypeOK == stage \in [Facts -> Stages]

Init == stage = [f \in Facts |-> "absent"]

-----------------------------------------------------------------------------

Move(f, from, to) == stage[f] = from /\ stage' = [stage EXCEPT ![f] = to]

\* A transaction outside the dispatcher records a fact nobody knew.
Record(f) == Move(f, "absent", "waiting")

\* The consumer's effects commit; no later step applies f again.
Apply(f) == Move(f, "waiting", "applied")

\* The same, and the transaction also records the follow-up fact g.
ApplyAndRecord(f, g) ==
  /\ stage[f] = "waiting"
  /\ stage[g] = "absent"
  /\ stage' = [stage EXCEPT ![f] = "applied", ![g] = "waiting"]

Publish(f) == Move(f, "applied", "published")

Bury(f) == Move(f, "waiting", "dead")

Resubmit(f) == Move(f, "dead", "waiting")

Next ==
  \E f \in Facts :
    \/ Record(f)
    \/ Apply(f)
    \/ \E g \in Facts : ApplyAndRecord(f, g)
    \/ Publish(f)
    \/ Bury(f)
    \/ Resubmit(f)

Spec == Init /\ [][Next]_stage

-----------------------------------------------------------------------------

\* Every recorded fact is in the end out of the delivery machinery: published
\* after its effects, or in the dead-letter store.
Settles ==
  \A f \in Facts : stage[f] # "absent" ~> stage[f] \in {"published", "dead"}

=============================================================================
