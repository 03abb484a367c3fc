------------------------------ MODULE Checkout ------------------------------
(***************************************************************************)
(* From the client's request to the decision on the order: the idempotent  *)
(* endpoint POST /api/v1/orders composed with the order workflow.          *)
(*                                                                         *)
(*   src/src/eventcart/modules/orders/{routes,service}.py                  *)
(*   src/src/eventcart/modules/idempotency/service.py                      *)
(*                                                                         *)
(* The two components meet in one transaction: the commit of create_order  *)
(* writes the key row of ApiIdempotency and the order and the OrderCreated *)
(* event of OrderSaga.  Every other step belongs to one of them and leaves *)
(* the other's tables alone.  Every request carries an Idempotency-Key, so *)
(* the orders are numbered alike in both.                                  *)
(***************************************************************************)
EXTENDS OrderSaga

CONSTANTS
  Requests,         \* HTTP requests
  Keys,             \* values of the Idempotency-Key header
  NoBody,           \* the body of no request
  MaxApiCrashes,    \* bound: requests whose server process dies
  MaxExpiries       \* bound: key rows that reach expires_at

VARIABLES
  keys,          \* idempotency_keys
  keyedOrders,   \* what each order was made with: key and body (history)
  requests,      \* the requests, as in ApiIdempotency
  epoch,         \* how often the row of each key has expired (history)
  apiCrashes     \* crashes of server processes so far

apiVars == <<keys, keyedOrders, requests, epoch, apiCrashes>>
checkoutVars == <<sagaVars, apiVars>>

Api ==
  INSTANCE ApiIdempotency
    WITH Bodies <- Baskets, MaxCrashes <- MaxApiCrashes,
         orders <- keyedOrders, crashes <- apiCrashes

ASSUME CheckoutAssumption == Api!ApiAssumption

CheckoutInit == SagaInit /\ Api!Init

-----------------------------------------------------------------------------

Basket(r) == requests[r].body

\* Mutant: the endpoint commits the key first and create_order commits later.
KeyBeforeOrder(r) ==
  /\ Api!CommitOrder(r)
  /\ Listed(stock, Basket(r))
  /\ UNCHANGED sagaVars

\* The commit of create_order, inside the endpoint.
PlaceOrder(r) ==
  /\ Api!CommitOrder(r)
  /\ SubmitOrder(Basket(r))

\* create_order finds an item missing: 404, and the key row is rolled back.
RefuseOrder(r) ==
  /\ Api!RejectOrder(r)
  /\ ~Listed(stock, Basket(r))
  /\ UNCHANGED sagaVars

\* The steps of the endpoint that concern idempotency_keys only.
KeyStep(r) ==
  /\ \/ Api!FindFree(r) \/ Api!FindRow(r)
     \/ Api!InsertKey(r) \/ Api!InsertFails(r)
     \/ Api!StoreResponse(r) \/ Api!StoreFails(r)
  /\ UNCHANGED sagaVars

ServeStep(r) == KeyStep(r) \/ PlaceOrder(r) \/ RefuseOrder(r)

\* What clients, the clock and failures do to the endpoint.
ClientStep ==
  /\ \/ \E r \in Requests : Api!Send(r) \/ Api!Crash(r)
     \/ \E k \in Keys : Api!Expire(k)
  /\ UNCHANGED sagaVars

\* The workflow without the API's order transaction.
WorkflowStep ==
  /\ \/ \E sku \in Skus : CreateInventoryItem(sku)
     \/ \E d \in Dispatchers : DeliveryStep(d) \/ WorkerStep(d)
     \/ \E o \in Operators : ReplayEvent(o)
     \/ OutsideStep
  /\ UNCHANGED apiVars

CheckoutNext ==
  \/ \E r \in Requests : ServeStep(r)
  \/ ClientStep
  \/ WorkflowStep

CheckoutSpec == CheckoutInit /\ [][CheckoutNext]_checkoutVars

\* The server works on what it has received, the dispatcher command is run again
\* and again, and time passes.
CheckoutFairness ==
  /\ \A r \in Requests : WF_checkoutVars(ServeStep(r))
  /\ \A d \in Dispatchers :
       WF_checkoutVars((DeliveryStep(d) \/ WorkerStep(d)) /\ UNCHANGED apiVars)
  /\ WF_checkoutVars((\E e \in Events : BackoffElapses(e))
                     /\ UNCHANGED <<businessVars, apiVars>>)

FairCheckoutSpec == CheckoutSpec /\ CheckoutFairness

-----------------------------------------------------------------------------
(* Properties                                                              *)

\* Both components know the same orders with the same items.
SameOrders ==
  /\ Len(keyedOrders) = Len(orders)
  /\ \A o \in Orders : orders[o].items = keyedOrders[o].body

\* Type invariant of the composition.
CheckoutTypeOK == SagaTypeOK /\ Api!TypeOK /\ SameOrders

\* What one key has been used to buy between two of its expiries.
Bought(k, n) == {o \in Orders : keyedOrders[o].key = k /\ keyedOrders[o].epoch = n}

\* A client that sends its command again and again with one new key is charged at
\* most once and notified at most once, whatever crashes on the way from the
\* endpoint to the workers (start_request, create_order, process_once): the two
\* layers of idempotency leave no gap between them.
PurchasedOnce ==
  \A k \in Keys :
    LET bought == Bought(k, 0)
    IN  /\ MapThenSumSet(LAMBDA o : Len(ledger[o].payments), bought) <= 1
        /\ MapThenSumSet(LAMBDA o : ledger[o].notifications, bought) <= 1

\* A client that was told 201, now or from the stored response, sees its order
\* decided, or one of its events can be found in the dead-letter table.
ToldIsDecided ==
  \A r \in Requests :
    requests[r].reply \in {"created", "stored"} ~>
      \/ HasStatus(requests[r].order, {"COMPLETED", "CANCELLED"})
      \/ DeadLettered(requests[r].order)

=============================================================================
