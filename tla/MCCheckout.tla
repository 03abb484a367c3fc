----------------------------- MODULE MCCheckout -----------------------------
(***************************************************************************)
(* Instances of Checkout for TLC.                                          *)
(***************************************************************************)
EXTENDS Checkout

Catalog == INSTANCE EventCatalog

AllTypes    == Catalog!EventNames
AllHandlers == Catalog!DefaultHandlers
AllOutcomes == Catalog!DefaultOutcomes
NoFollowUp  == Catalog!NoFollowUp
OrderEvents == {"OrderCreated"}

OneSku == {"ticket"}
OneLeft == [sku \in OneSku |-> 1]
Ticket == {<<[sku |-> "ticket", quantity |-> 1]>>}

=============================================================================
