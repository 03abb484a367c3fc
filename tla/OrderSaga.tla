----------------------------- MODULE OrderSaga -----------------------------
(***************************************************************************)
(* The order workflow: the API transactions that put an item on the shelf  *)
(* and create an order, and the workers that reserve stock, authorise the  *)
(* payment, write the invoice, send the notification, compensate and       *)
(* project the order status.                                               *)
(*                                                                         *)
(*   src/src/eventcart/modules/inventory/{models,schemas,service}.py       *)
(*   src/src/eventcart/modules/orders/{models,service}.py                  *)
(*   src/src/eventcart/workers/{inventory,payment,invoice,notification,    *)
(*                              order_projection}_worker.py                *)
(*                                                                         *)
(* The module composes with Dispatcher: a worker is a handler the          *)
(* dispatcher calls, so every action below is a Dispatcher action together *)
(* with what it does to the business tables.  Stock is read in StartHandler *)
(* and written as an absolute value at the handler's commit; another       *)
(* dispatcher can commit in between.                                       *)
(*                                                                         *)
(* Payloads pass on the order id and the items of the order unchanged, so  *)
(* an event carries the order it is about and the items are looked up.     *)
(***************************************************************************)
EXTENDS Dispatcher, FiniteSetsExt

CONSTANTS
  Skus,             \* inventory items an administrator may create
  InitialStock,     \* the quantity_available each is created with
  Baskets,          \* what customers order: sequences of lines
  PaymentMayFail    \* whether payloads carry payment_should_fail, as in the tests

ASSUME SagaAssumption ==
  /\ "OrderCreated" \in SeedTypes
  /\ InitialStock \in [Skus -> Nat]
  /\ Baskets \subseteq Seq([sku : Skus, quantity : Nat \ {0}])
  /\ PaymentMayFail \in BOOLEAN

VARIABLES
  stock,      \* inventory_items: SKU -> quantity_available, for the items created
  orders,     \* orders with their order_items: a sequence of rows
  ledger,     \* ledger[o]: the payments, invoices and notifications of order o
  subject,    \* subject[e]: the order_id in the payload of event e
  loaded      \* loaded[d]: the quantities the handler d runs has read

businessVars == <<stock, orders, ledger, subject, loaded>>
sagaVars == <<vars, businessVars>>

OrderStatus == {"PENDING", "COMPLETED", "CANCELLED"}

PaymentStatus == {"AUTHORIZED", "FAILED"}

NoRows == [payments |-> <<>>, invoices |-> 0, notifications |-> 0]

SagaInit ==
  /\ Init
  /\ stock = <<>>
  /\ orders = <<>>
  /\ ledger = <<>>
  /\ subject = <<>>
  /\ loaded = [d \in Dispatchers |-> <<>>]

-----------------------------------------------------------------------------
(* The API                                                                 *)

\* create_inventory_item.  A second item with the same SKU is refused by the unique
\* key (IntegrityError, nothing changes).
CreateInventoryItem(sku) ==
  /\ sku \notin DOMAIN stock
  /\ stock' = [s \in DOMAIN stock \cup {sku} |->
                IF s = sku THEN InitialStock[sku] ELSE stock[s]]
  /\ UNCHANGED <<vars, orders, ledger, subject, loaded>>

\* Every line names an item that exists in the given quantities.
Listed(quantities, items) == \A i \in 1 .. Len(items) : items[i].sku \in DOMAIN quantities

\* Mutant: the event is recorded by a transaction of its own, which is never made.
SubmitSilently(basket) ==
  /\ Len(orders) < MaxSeeds
  /\ Listed(stock, basket)
  /\ orders' = Append(orders, [status |-> "PENDING", items |-> basket])
  /\ ledger' = Append(ledger, NoRows)
  /\ UNCHANGED <<vars, stock, subject, loaded>>

\* create_order: the order, its items and OrderCreated in one transaction.  An
\* order for an item that does not exist is refused (404, nothing changes).
SubmitOrder(basket) ==
  /\ Listed(stock, basket)
  /\ Submit("OrderCreated")
  /\ orders' = Append(orders, [status |-> "PENDING", items |-> basket])
  /\ ledger' = Append(ledger, NoRows)
  /\ subject' = Append(subject, Len(orders) + 1)
  /\ UNCHANGED <<stock, loaded>>

-----------------------------------------------------------------------------
(* The workers                                                             *)

\* The handler's reads.  Only the inventory worker decides on what it has read.
BeginHandler(d) ==
  /\ StartHandler(d)
  /\ loaded' = [loaded EXCEPT ![d] = stock]
  /\ UNCHANGED <<stock, orders, ledger, subject>>

\* d's handler commits the effects of event e, which has the given type.
Handles(d, e, type) ==
  /\ Current(d, e)
  /\ outbox[e].type = type
  /\ HandlerCommits(d)
  /\ UNCHANGED loaded

\* Mutant: the payload gets the id of the event in place of that of the order.
EmitsAboutEvent(e, type) ==
  /\ Len(outbox') = Len(outbox) + 1
  /\ outbox'[Len(outbox')].type = type
  /\ subject' = Append(subject, e)

\* _build_result_event: the follow-up is about the same order.
Emits(e, type) ==
  /\ Len(outbox') = Len(outbox) + 1
  /\ outbox'[Len(outbox')].type = type
  /\ subject' = Append(subject, subject[e])

Items(e) == orders[subject[e]].items

\* The quantity of sku over all lines of an order.
Ordered(items, sku) ==
  LET lines == {i \in 1 .. Len(items) : items[i].sku = sku}
  IN  MapThenSumSet(LAMBDA i : items[i].quantity, lines)

\* Mutant: only the first line of an order is checked.
FirstLineAvailable(quantities, items) ==
  Listed(quantities, items) /\ quantities[items[1].sku] >= items[1].quantity

\* _load_inventory_items raises if an item is missing; _ensure_inventory_available
\* looks at one line at a time.
Available(quantities, items) ==
  /\ Listed(quantities, items)
  /\ \A i \in 1 .. Len(items) : quantities[items[i].sku] >= items[i].quantity

\* quantity_available -= quantity for each line, from the quantities loaded; only
\* the rows of the SKUs in the order are written.
Take(d, items) ==
  stock' = [sku \in DOMAIN stock |->
    IF Ordered(items, sku) = 0 THEN stock[sku] ELSE loaded[d][sku] - Ordered(items, sku)]

\* Mutant: the compensation takes the quantities once more.
TakeAgain(d, items) ==
  stock' = [sku \in DOMAIN stock |->
    IF Ordered(items, sku) = 0 THEN stock[sku] ELSE loaded[d][sku] - Ordered(items, sku)]

\* quantity_available += quantity for each line
GiveBack(d, items) ==
  stock' = [sku \in DOMAIN stock |->
    IF Ordered(items, sku) = 0 THEN stock[sku] ELSE loaded[d][sku] + Ordered(items, sku)]

\* _reserve_inventory, enough stock.
ReserveInventory(d) ==
  \E e \in Events :
    /\ Handles(d, e, "OrderCreated")
    /\ Emits(e, "InventoryReserved")
    /\ Available(loaded[d], Items(e))
    /\ Take(d, Items(e))
    /\ UNCHANGED <<orders, ledger>>

\* _reserve_inventory, InventoryReservationError: the event is handled, not failed.
RefuseReservation(d) ==
  \E e \in Events :
    /\ Handles(d, e, "OrderCreated")
    /\ Emits(e, "InventoryReservationFailed")
    /\ ~Available(loaded[d], Items(e))
    /\ UNCHANGED <<stock, orders, ledger>>

AddPayment(o, status) ==
  ledger' = [ledger EXCEPT ![o].payments = Append(@, status)]

AuthorizePayment(d) ==
  \E e \in Events :
    /\ Handles(d, e, "InventoryReserved")
    /\ Emits(e, "PaymentAuthorized")
    /\ AddPayment(subject[e], "AUTHORIZED")
    /\ UNCHANGED <<stock, orders>>

\* payment_should_fail
DeclinePayment(d) ==
  \E e \in Events :
    /\ PaymentMayFail
    /\ Handles(d, e, "InventoryReserved")
    /\ Emits(e, "PaymentFailed")
    /\ AddPayment(subject[e], "FAILED")
    /\ UNCHANGED <<stock, orders>>

\* _release_inventory
ReleaseInventory(d) ==
  \E e \in Events :
    /\ Handles(d, e, "PaymentFailed")
    /\ Emits(e, "InventoryReleased")
    /\ GiveBack(d, Items(e))
    /\ UNCHANGED <<orders, ledger>>

CreateInvoice(d) ==
  \E e \in Events :
    /\ Handles(d, e, "PaymentAuthorized")
    /\ Emits(e, "InvoiceCreated")
    /\ ledger' = [ledger EXCEPT ![subject[e]].invoices = @ + 1]
    /\ UNCHANGED <<stock, orders>>

SendNotification(d) ==
  \E e \in Events :
    /\ Handles(d, e, "InvoiceCreated")
    /\ Emits(e, "NotificationSent")
    /\ ledger' = [ledger EXCEPT ![subject[e]].notifications = @ + 1]
    /\ UNCHANGED <<stock, orders>>

SetStatus(d, type, status) ==
  \E e \in Events :
    /\ Handles(d, e, type)
    /\ UNCHANGED <<outbox, subject>>
    /\ orders' = [orders EXCEPT ![subject[e]].status = status]
    /\ UNCHANGED <<stock, ledger>>

\* Mutant: the two projections of the order status are mixed up.
CompleteAsCancelled(d) == SetStatus(d, "NotificationSent", "CANCELLED")

CompleteOrder(d) == SetStatus(d, "NotificationSent", "COMPLETED")

CancelOrder(d) == SetStatus(d, "InventoryReleased", "CANCELLED")

-----------------------------------------------------------------------------
(* Steps of the machinery that leave the business tables alone             *)

DeliveryStep(d) ==
  /\ \/ Fetch(d)
     \/ RejectUnsupported(d) \/ ConnectionFails(d)
     \/ SkipProcessed(d)
     \/ HandlerRaises(d) \/ FlushRefused(d)
     \/ PublishEvent(d)
     \/ RecordFailure(d) \/ ScheduleRetry(d) \/ MoveToDeadLetter(d)
  /\ UNCHANGED businessVars

\* A replayed copy has the payload of its dead letter.
ReplayEvent(o) ==
  /\ ReplayCommit(o)
  /\ subject' = Append(subject, subject[deadLetters[replaying[o]].event])
  /\ UNCHANGED <<stock, orders, ledger, loaded>>

WorkerStep(d) ==
  \/ BeginHandler(d)
  \/ ReserveInventory(d) \/ RefuseReservation(d)
  \/ AuthorizePayment(d) \/ DeclinePayment(d)
  \/ ReleaseInventory(d)
  \/ CreateInvoice(d) \/ SendNotification(d)
  \/ CompleteOrder(d) \/ CancelOrder(d)

OutsideStep ==
  /\ \/ \E e \in Events : BackoffElapses(e)
     \/ \E d \in Dispatchers : Interrupt(d)
     \/ \E o \in Operators : ReplayRead(o) \/ ReplayAbandoned(o)
  /\ UNCHANGED businessVars

SagaNext ==
  \/ \E sku \in Skus : CreateInventoryItem(sku)
  \/ \E basket \in Baskets : SubmitOrder(basket)
  \/ \E d \in Dispatchers : DeliveryStep(d) \/ WorkerStep(d)
  \/ \E o \in Operators : ReplayEvent(o)
  \/ OutsideStep

SagaSpec == SagaInit /\ [][SagaNext]_sagaVars

\* As in Dispatcher: the command is run again and again and time passes.
SagaFairness ==
  /\ \A d \in Dispatchers : WF_sagaVars(DeliveryStep(d) \/ WorkerStep(d))
  /\ WF_sagaVars((\E e \in Events : BackoffElapses(e)) /\ UNCHANGED businessVars)

FairSagaSpec == SagaSpec /\ SagaFairness

-----------------------------------------------------------------------------
(* Properties.  "One reliable dispatcher" means one dispatcher process whose *)
(* handlers get their connections: an event applied in a batch that was cut  *)
(* off could otherwise be dead-lettered, and its replay repeats the effects. *)

Orders == 1 .. Len(orders)

Happened(o, type) == \E e \in Events : subject[e] = o /\ outbox[e].type = type

\* Quantities of some of the items.
Quantities(q) == DOMAIN q \subseteq Skus /\ \A sku \in DOMAIN q : q[sku] \in Int

\* Type invariant of the business tables; every event is about an order that
\* exists, and every line of an order names an item that exists.
SagaTypeOK ==
  /\ TypeOK
  /\ Quantities(stock)
  /\ orders \in Seq([status : OrderStatus, items : Baskets])
  /\ ledger \in Seq([payments : Seq(PaymentStatus), invoices : Nat, notifications : Nat])
  /\ Len(ledger) = Len(orders)
  /\ subject \in Seq(Orders) /\ Len(subject) = Len(outbox)
  /\ \A o \in Orders : Listed(stock, orders[o].items)
  /\ DOMAIN loaded = Dispatchers /\ \A d \in Dispatchers : Quantities(loaded[d])

\* "Each worker keeps the same order aggregate" (docs/architecture/saga-workflow.md):
\* whatever is retried or replayed, an event is about the order of the event that
\* caused it and of the event it is a copy of; chains of two orders never mix.
SameOrder ==
  \A e \in Events :
    /\ outbox[e].cause # 0 => subject[e] = subject[outbox[e].cause]
    /\ subject[e] = subject[outbox[e].origin]

\* One reliable dispatcher: no unit of stock is lost or invented; what is missing
\* from the shelf is held by orders whose reservation was made and not released,
\* through retries, interruptions and replays (_reserve_inventory, _release_inventory).
StockConserved ==
  LET holding == {o \in Orders : Happened(o, "InventoryReserved")
                                 /\ ~Happened(o, "InventoryReleased")}
  IN  \A sku \in DOMAIN stock :
        stock[sku] + MapThenSumSet(LAMBDA o : Ordered(orders[o].items, sku), holding)
        = InitialStock[sku]

\* One reliable dispatcher: a decided order has the paper trail of its decision,
\* and nothing twice: COMPLETED means reserved, paid once, invoiced once and the
\* customer notified once; CANCELLED means one declined payment, no invoice and
\* the stock released (docs/domain/order-lifecycle.md, the workers).
DecisionJustified ==
  \A o \in Orders :
    /\ orders[o].status = "COMPLETED" =>
         /\ ledger[o] = [payments |-> <<"AUTHORIZED">>, invoices |-> 1, notifications |-> 1]
         /\ Happened(o, "InventoryReserved") /\ ~Happened(o, "InventoryReleased")
    /\ orders[o].status = "CANCELLED" =>
         /\ ledger[o] = [payments |-> <<"FAILED">>, invoices |-> 0, notifications |-> 0]
         /\ Happened(o, "InventoryReleased")

\* One reliable dispatcher: an order is charged, invoiced and notified at most
\* once, whatever is replayed or redelivered, and in that order.
ChargedOnce ==
  \A o \in Orders :
    /\ Len(ledger[o].payments) <= 1
    /\ ledger[o].invoices <= Len(ledger[o].payments)
    /\ ledger[o].notifications <= ledger[o].invoices

\* Stock is never oversold: an order that asks for more than there is gets
\* InventoryReservationFailed (test_inventory_worker.py), and nothing is taken for it.
NeverOversold == \A sku \in DOMAIN stock : stock[sku] >= 0

\* One reliable dispatcher: a decided order stays as it was decided, whatever is
\* replayed or redelivered (README.md, Order Lifecycle: final status values).
DecisionFinal ==
  [][\A o \in Orders : orders[o].status # "PENDING" => orders'[o] = orders[o]]_sagaVars

HasStatus(o, statuses) == o \in Orders /\ orders[o].status \in statuses

DeadLettered(o) == \E k \in 1 .. Len(deadLetters) : subject[deadLetters[k].event] = o

\* Every order comes to its decision, unless one of its events ends in the
\* dead-letter table.
OrdersDecided ==
  \A o \in 1 .. MaxSeeds :
    o \in Orders ~> HasStatus(o, {"COMPLETED", "CANCELLED"}) \/ DeadLettered(o)

\* README.md, Order Lifecycle: "PENDING --> CANCELLED: InventoryReservationFailed".
RefusedOrdersCancelled ==
  \A o \in 1 .. MaxSeeds :
    Happened(o, "InventoryReservationFailed") ~> HasStatus(o, {"CANCELLED"})

=============================================================================
