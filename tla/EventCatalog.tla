---------------------------- MODULE EventCatalog ----------------------------
(***************************************************************************)
(* The event types of EventCart, the handlers default_event_handlers       *)
(* registers for them and the follow-up events those handlers build.       *)
(***************************************************************************)

NoFollowUp == "none"

EventNames ==
  {"OrderCreated", "InventoryReserved", "InventoryReservationFailed",
   "PaymentAuthorized", "PaymentFailed", "InventoryReleased",
   "InvoiceCreated", "NotificationSent"}

\* default_event_handlers: nothing is registered for InventoryReservationFailed.
DefaultHandlers ==
  [t \in EventNames \ {"InventoryReservationFailed"} |->
     CASE t = "OrderCreated"      -> "inventory-worker"
       [] t = "InventoryReserved" -> "payment-worker"
       [] t = "PaymentAuthorized" -> "invoice-worker"
       [] t = "InvoiceCreated"    -> "notification-worker"
       [] t = "PaymentFailed"     -> "inventory-compensation-worker"
       [] t \in {"NotificationSent", "InventoryReleased"} -> "order-projection-worker"]

\* What each handler emits; the projections of the order status emit nothing.
DefaultOutcomes ==
  [t \in DOMAIN DefaultHandlers |->
     CASE t = "OrderCreated"      -> {"InventoryReserved", "InventoryReservationFailed"}
       [] t = "InventoryReserved" -> {"PaymentAuthorized", "PaymentFailed"}
       [] t = "PaymentAuthorized" -> {"InvoiceCreated"}
       [] t = "InvoiceCreated"    -> {"NotificationSent"}
       [] t = "PaymentFailed"     -> {"InventoryReleased"}
       [] t \in {"NotificationSent", "InventoryReleased"} -> {NoFollowUp}]

=============================================================================
