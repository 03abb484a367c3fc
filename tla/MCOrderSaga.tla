---------------------------- MODULE MCOrderSaga ----------------------------
(***************************************************************************)
(* Instances of OrderSaga for TLC.                                         *)
(***************************************************************************)
EXTENDS OrderSaga

Catalog == INSTANCE EventCatalog

AllTypes    == Catalog!EventNames
AllHandlers == Catalog!DefaultHandlers
AllOutcomes == Catalog!DefaultOutcomes
NoFollowUp  == Catalog!NoFollowUp
OrderEvents == {"OrderCreated"}

Line(sku, quantity) == [sku |-> sku, quantity |-> quantity]

\* Two tickets and two mugs.
TwoSkus == {"ticket", "mug"}
Shelf   == [sku \in TwoSkus |-> 2]

\* The second of two such orders could take its mug and then lacks the tickets.
RivalBasket == {<<Line("mug", 1), Line("ticket", 2)>>}

\* One order that names the SKU twice and asks for more than there is.
TwoLines == {<<Line("ticket", 2), Line("ticket", 1)>>}

=============================================================================
