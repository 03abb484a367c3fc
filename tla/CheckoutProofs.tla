--------------------------- MODULE CheckoutProofs ---------------------------
(***************************************************************************)
(* The composition implements both of its components, so it inherits what  *)
(* is proved of them; and the two number the same orders alike.  For any   *)
(* requests, keys, dispatchers, operators, handlers and orders.            *)
(***************************************************************************)
EXTENDS Checkout, WorkflowProofs

ApiP ==
  INSTANCE ApiProofs
    WITH Bodies <- Baskets, MaxCrashes <- MaxApiCrashes,
         orders <- keyedOrders, crashes <- apiCrashes

\* A step of the composition is a step of the endpoint or leaves its tables alone.
LEMMA EndpointStep == [CheckoutNext]_checkoutVars => [Api!Next]_(Api!vars)
<1>1. ASSUME NEW r \in Requests, ServeStep(r) PROVE Api!Next
  BY <1>1 DEF ServeStep, KeyStep, PlaceOrder, RefuseOrder, Api!Next, Api!Serve
<1>2. ASSUME ClientStep PROVE Api!Next
  BY <1>2 DEF ClientStep, Api!Next
<1>3. ASSUME UNCHANGED apiVars PROVE UNCHANGED Api!vars
  BY <1>3 DEF apiVars, Api!vars
<1> QED
  BY <1>1, <1>2, <1>3 DEF CheckoutNext, WorkflowStep, checkoutVars

\* The composition implements the idempotent endpoint: the workflow only restricts
\* when an order can be committed.
THEOREM CheckoutImplementsApi == CheckoutSpec => Api!Spec
<1>1. CheckoutInit => Api!Init
  BY DEF CheckoutInit
<1> QED
  BY <1>1, EndpointStep, PTL DEF CheckoutSpec, Api!Spec

\* The two instances are one: the module with the proofs adds no action.
LEMMA SameEndpoint == [Api!Next]_(Api!vars) => [ApiP!Next]_(ApiP!vars)
  BY DEF Api!Next, ApiP!Next, Api!vars, ApiP!vars,
      Api!Send, ApiP!Send, Api!FindFree, ApiP!FindFree, Api!FindRow, ApiP!FindRow,
      Api!InsertKey, ApiP!InsertKey, Api!InsertFails, ApiP!InsertFails, Api!RejectOrder,
      ApiP!RejectOrder, Api!CommitOrder, ApiP!CommitOrder, Api!StoreResponse,
      ApiP!StoreResponse, Api!StoreFails, ApiP!StoreFails, Api!Crash, ApiP!Crash,
      Api!Expire, ApiP!Expire, Api!Serve, ApiP!Serve, Api!Key, ApiP!Key, Api!IsAt,
      ApiP!IsAt, Api!Goto, ApiP!Goto, Api!Answer, ApiP!Answer, Api!InFlight,
      ApiP!InFlight, Api!Holders, ApiP!Holders, Api!Reserve, ApiP!Reserve,
      Api!KeyIsFree, ApiP!KeyIsFree, Api!Absent, ApiP!Absent, Api!Running, ApiP!Running

\* What is proved of the endpoint holds of the composition: no retry makes a second
\* order outside an overlap on an expired key, and the clients' replies agree.
THEOREM CheckoutKeysHold ==
  CheckoutSpec => [](Api!TypeOK /\ Api!DuplicatesOverlap /\ Api!RepliesAgree)
<1>1. ApiP!Spec => [](ApiP!TypeOK /\ ApiP!DuplicatesOverlap /\ ApiP!RepliesAgree)
  <2>1. ApiP!ApiAssumption
    BY CheckoutAssumption DEF Api!ApiAssumption, ApiP!ApiAssumption
  <2> QED
    BY <2>1, ApiP!ApiTypeCorrect, ApiP!OnlyOverlapsDuplicate, ApiP!ClientsAgree, PTL
<1>2. Api!Init => ApiP!Init
  BY DEF Api!Init, ApiP!Init, Api!Absent, ApiP!Absent
<1>3. ApiP!TypeOK => Api!TypeOK
  BY DEF Api!TypeOK, ApiP!TypeOK, Api!Orders, ApiP!Orders, Api!KeyRow, ApiP!KeyRow, Api!Absent,
         ApiP!Absent, Api!Replies, ApiP!Replies, Api!Running, ApiP!Running
<1>4. ApiP!DuplicatesOverlap => Api!DuplicatesOverlap
  BY DEF Api!DuplicatesOverlap, ApiP!DuplicatesOverlap, Api!Orders, ApiP!Orders, Api!Rivals,
         ApiP!Rivals
<1>5. ApiP!RepliesAgree => Api!RepliesAgree
  BY DEF Api!RepliesAgree, ApiP!RepliesAgree, Api!Key, ApiP!Key, Api!Contested, ApiP!Contested,
         Api!Orders, ApiP!Orders, Api!Rivals, ApiP!Rivals
<1> QED
  BY <1>1, <1>2, <1>3, <1>4, <1>5, SameEndpoint, CheckoutImplementsApi, PTL
     DEF Api!Spec, ApiP!Spec

-----------------------------------------------------------------------------

\* A step of the composition is a step of the workflow or leaves its tables alone.
LEMMA WorkflowRefined ==
  ASSUME Api!TypeOK, [CheckoutNext]_checkoutVars
  PROVE  [SagaNext]_sagaVars
<1>1. ASSUME NEW r \in Requests, PlaceOrder(r) PROVE SagaNext
  <2>1. Basket(r) \in Baskets
    BY DEF Api!TypeOK, Basket
  <2> QED
    BY <1>1, <2>1 DEF PlaceOrder, SagaNext
<1>2. ASSUME NEW r \in Requests, KeyStep(r) \/ RefuseOrder(r) PROVE UNCHANGED sagaVars
  BY <1>2 DEF KeyStep, RefuseOrder
<1>3. ASSUME ClientStep PROVE UNCHANGED sagaVars
  BY <1>3 DEF ClientStep
<1>4. ASSUME WorkflowStep PROVE SagaNext
  BY <1>4 DEF WorkflowStep, SagaNext
<1>5. UNCHANGED checkoutVars => UNCHANGED sagaVars
  BY DEF checkoutVars
<1> QED
  BY <1>1, <1>2, <1>3, <1>4, <1>5 DEF CheckoutNext, ServeStep

\* The composition implements the order workflow: a request's order transaction is
\* one of those the workflow allows.
THEOREM CheckoutImplementsSaga == CheckoutSpec => SagaSpec
<1>1. CheckoutInit => SagaInit
  BY DEF CheckoutInit
<1> QED
  BY <1>1, WorkflowRefined, CheckoutKeysHold, PTL DEF CheckoutSpec, SagaSpec

\* What is proved of delivery and of the workflow holds of the composition.
THEOREM CheckoutDelivers ==
  CheckoutSpec => [](EffectsExactlyOnce /\ NothingLost /\ OneFollowUp /\ SameOrder)
  BY CheckoutImplementsSaga, SagaDelivers, ChainsStaySeparate, PTL

-----------------------------------------------------------------------------

\* A step that makes no order.
OrdersAsMade ==
  /\ Len(orders') = Len(orders)
  /\ \A o \in Orders : orders'[o].items = orders[o].items

\* The workers decide orders and do not make or alter them.
LEMMA WorkflowKeepsItems ==
  ASSUME SagaInv, WorkflowStep
  PROVE  OrdersAsMade
<1>1. orders \in Seq(OrderRow)
  BY DEF SagaInv, ChainsTyped
<1>2. ASSUME NEW d \in Dispatchers, NEW type, NEW status \in OrderStatus,
             SetStatus(d, type, status)
      PROVE  OrdersAsMade
  <2>1. PICK e \in Events : orders' = [orders EXCEPT ![subject[e]].status = status]
    BY <1>2 DEF SetStatus
  <2>2. subject[e] \in 1 .. Len(orders)
    BY DEF SagaInv, ChainsTyped, Orders, Events
  <2>3. \A o \in Orders : orders[o] \in OrderRow
    BY <1>1 DEF Orders
  <2> QED
    BY <1>1, <2>1, <2>2, <2>3 DEF OrdersAsMade, Orders, OrderRow
<1>3. CASE orders' = orders
  BY <1>3 DEF OrdersAsMade
<1> QED
  BY <1>2, <1>3
  DEF WorkflowStep, CreateInventoryItem, DeliveryStep, WorkerStep, ReplayEvent, OutsideStep,
      businessVars, BeginHandler, ReserveInventory, RefuseReservation, AuthorizePayment,
      DeclinePayment, ReleaseInventory, CreateInvoice, SendNotification, CompleteOrder,
      CancelOrder, OrderStatus

\* Both tables of orders grow in one transaction.
LEMMA SameOrdersStep ==
  ASSUME SagaInv, Api!TypeOK, SameOrders, [CheckoutNext]_checkoutVars
  PROVE  SameOrders'
<1>1. orders \in Seq(OrderRow)
  BY DEF SagaInv, ChainsTyped
<1>2. ASSUME NEW r \in Requests, PlaceOrder(r) PROVE SameOrders'
  <2> DEFINE made == [key |-> Api!Key(r), body |-> requests[r].body,
                      epoch |-> epoch[Api!Key(r)], seen |-> requests[r].seen]
             row == [status |-> "PENDING", items |-> Basket(r)]
  <2>1. keyedOrders' = Append(keyedOrders, made) /\ orders' = Append(orders, row)
    BY <1>2 DEF PlaceOrder, Api!CommitOrder, SubmitOrder
  <2>2. row.items = made.body
    BY DEF Basket
  <2> HIDE DEF made, row
  <2>3. PICK S : keyedOrders \in Seq(S)
    BY DEF Api!TypeOK
  <2>4. /\ Len(orders) \in Nat /\ Len(keyedOrders) = Len(orders)
        /\ \A o \in 1 .. Len(orders) : orders[o].items = keyedOrders[o].body
    BY <1>1 DEF SameOrders, Orders
  <2>5. /\ Len(orders') = Len(orders) + 1
        /\ \A o \in 1 .. Len(orders) : orders'[o] = orders[o]
        /\ orders'[Len(orders) + 1] = row
    BY <1>1, <2>1
  <2>6. /\ Len(keyedOrders') = Len(orders) + 1
        /\ \A o \in 1 .. Len(orders) : keyedOrders'[o] = keyedOrders[o]
        /\ keyedOrders'[Len(orders) + 1] = made
    BY <2>1, <2>3, <2>4
  <2> QED
    BY <2>2, <2>4, <2>5, <2>6 DEF SameOrders, Orders
<1>3. CASE UNCHANGED <<orders, keyedOrders>>
  BY <1>3 DEF SameOrders, Orders
<1>4. CASE WorkflowStep
  <2>1. OrdersAsMade /\ keyedOrders' = keyedOrders
    BY <1>4, WorkflowKeepsItems DEF WorkflowStep, apiVars
  <2> QED
    BY <2>1 DEF OrdersAsMade, SameOrders, Orders
<1>5. ASSUME NEW r \in Requests, KeyStep(r) \/ RefuseOrder(r)
      PROVE  UNCHANGED <<orders, keyedOrders>>
  BY <1>5 DEF KeyStep, RefuseOrder, sagaVars, businessVars, Api!FindFree, Api!FindRow,
              Api!InsertKey, Api!InsertFails, Api!StoreResponse, Api!StoreFails,
              Api!RejectOrder
<1>6. ClientStep \/ UNCHANGED checkoutVars => UNCHANGED <<orders, keyedOrders>>
  BY DEF ClientStep, checkoutVars, apiVars, sagaVars, businessVars, Api!Send, Api!Crash,
         Api!Expire
<1> QED
  BY <1>2, <1>3, <1>4, <1>5, <1>6 DEF CheckoutNext, ServeStep

\* The two components never disagree about the orders there are and what was ordered:
\* the key row and the order are committed in one transaction.
THEOREM OneTableOfOrders == CheckoutSpec => []SameOrders
<1>1. CheckoutInit => SameOrders
  BY DEF CheckoutInit, SagaInit, Api!Init, SameOrders, Orders
<1>2. SagaSpec => []SagaInv
  BY SagaInductive, PTL DEF SagaSpec
<1> QED
  BY <1>1, <1>2, SameOrdersStep, CheckoutKeysHold, CheckoutImplementsSaga, PTL
     DEF CheckoutSpec

\* However often a client repeats its command with a key that has not expired, one
\* order, and so one payment chain, comes of it: any number of concurrent requests,
\* dispatchers, interruptions on either side and replays.
NewKeyBuysOnce == \A k \in Keys : \A o, p \in Bought(k, 0) : o = p

\* The end-to-end consequence of start_request and of the single transaction of
\* create_order.
THEOREM NewKeysBuyOnce == CheckoutSpec => []NewKeyBuysOnce
<1>1. ASSUME Api!DuplicatesOverlap, SameOrders PROVE NewKeyBuysOnce
  <2> SUFFICES ASSUME NEW k \in Keys, NEW o \in Bought(k, 0), NEW p \in Bought(k, 0)
               PROVE  o = p
    BY DEF NewKeyBuysOnce
  <2>1. /\ o \in Api!Orders /\ p \in Api!Orders /\ o \in Int /\ p \in Int
        /\ Api!Rivals(o, p) /\ Api!Rivals(p, o)
        /\ keyedOrders[o].epoch = 0 /\ keyedOrders[p].epoch = 0
    BY <1>1 DEF SameOrders, Bought, Orders, Api!Orders, Api!Rivals
  <2> QED
    BY <1>1, <2>1 DEF Api!DuplicatesOverlap
<1> QED
  BY <1>1, CheckoutKeysHold, OneTableOfOrders, PTL

-----------------------------------------------------------------------------
(* The client is charged once                                              *)

\* The composition stays well-typed, and its components agree about the orders.
THEOREM CheckoutTypeCorrect == CheckoutSpec => []CheckoutTypeOK
<1>1. SagaTypeOK /\ Api!TypeOK /\ SameOrders => CheckoutTypeOK
  BY DEF CheckoutTypeOK
<1> QED
  BY <1>1, CheckoutImplementsSaga, SagaTypeCorrect, CheckoutKeysHold, OneTableOfOrders, PTL

\* A sum of at most one element, of at most one.
LEMMA TotalOfOne ==
  ASSUME NEW S, IsFiniteSet(S), \A x, y \in S : x = y, NEW g, \A x \in S : g[x] \in 0 .. 1
  PROVE  Total(g, S) <= 1
<1>1. CASE S = {}
  BY <1>1, TotalEmpty
<1>2. CASE S # {}
  <2>1. PICK x \in S : TRUE
    BY <1>2
  <2>2. S \ {x} = {} /\ \A y \in S : g[y] \in Nat
    BY <2>1
  <2>3. Total(g, S) = g[x] + Total(g, S \ {x})
    BY <2>1, <2>2, TotalMember
  <2>4. Total(g, S \ {x}) = 0
    BY <2>2, TotalEmpty
  <2> QED
    BY <2>1, <2>3, <2>4
<1> QED
  BY <1>1, <1>2

\* What the library's sum over the payments of some orders is computed by.
IteratesPayments(f, S) ==
  f = [s \in SUBSET S |->
         IF s = {} THEN 0
         ELSE Len(ledger[CHOOSE x \in s : TRUE].payments) + f[s \ {CHOOSE x \in s : TRUE}]]

\* The library's sum is the total of the payments.
LEMMA PaymentsTotal ==
  ASSUME NEW S, IsFiniteSet(S), NEW g, \A x \in S : g[x] = Len(ledger[x].payments)
  PROVE  MapThenSumSet(LAMBDA o : Len(ledger[o].payments), S) = Total(g, S)
<1> DEFINE iter == CHOOSE f : IteratesPayments(f, S)
<1>1. MapThenSumSet(LAMBDA o : Len(ledger[o].payments), S) = iter[S]
  BY DEF MapThenSumSet, MapThenFoldSet, IteratesPayments
<1>2. \A s \in SUBSET S : s # {} => g[Pick(s)] = Len(ledger[Pick(s)].payments)
  BY Picked
<1>3. PICK f : AddsUp(f, g, S)
  BY AddsUpExists
<1>4. IteratesPayments(f, S)
  <2>1. f = [s \in SUBSET S |-> IF s = {} THEN 0 ELSE g[Pick(s)] + f[s \ {Pick(s)}]]
    BY <1>3 DEF AddsUp
  <2>2. [s \in SUBSET S |-> IF s = {} THEN 0 ELSE g[Pick(s)] + f[s \ {Pick(s)}]]
        = [s \in SUBSET S |->
             IF s = {} THEN 0 ELSE Len(ledger[Pick(s)].payments) + f[s \ {Pick(s)}]]
    BY <1>2
  <2> QED
    BY <2>1, <2>2, Zenon DEF IteratesPayments, Pick
<1>5. IteratesPayments(iter, S)
  BY <1>4, Zenon
<1> HIDE DEF iter
<1>6. AddsUp(iter, g, S)
  <2>1. iter = [s \in SUBSET S |->
                  IF s = {} THEN 0 ELSE Len(ledger[Pick(s)].payments) + iter[s \ {Pick(s)}]]
    BY <1>5, Zenon DEF IteratesPayments, Pick
  <2>2. [s \in SUBSET S |-> IF s = {} THEN 0 ELSE g[Pick(s)] + iter[s \ {Pick(s)}]]
        = [s \in SUBSET S |->
             IF s = {} THEN 0 ELSE Len(ledger[Pick(s)].payments) + iter[s \ {Pick(s)}]]
    BY <1>2
  <2> QED
    BY <2>1, <2>2, Zenon DEF AddsUp
<1> DEFINE T == S
<1>7. T = S /\ T \subseteq S /\ Agree(g, g, T)
  BY DEF Agree
<1> HIDE DEF T
<1>8. iter[T] = Total(g, T)
  BY <1>6, <1>7, TotalIs
<1> QED
  BY <1>1, <1>7, <1>8

\* The same of the notifications.
IteratesNotifications(f, S) ==
  f = [s \in SUBSET S |->
         IF s = {} THEN 0
         ELSE ledger[CHOOSE x \in s : TRUE].notifications + f[s \ {CHOOSE x \in s : TRUE}]]

\* The library's sum is the total of the notifications.
LEMMA NotificationsTotal ==
  ASSUME NEW S, IsFiniteSet(S), NEW g, \A x \in S : g[x] = ledger[x].notifications
  PROVE  MapThenSumSet(LAMBDA o : ledger[o].notifications, S) = Total(g, S)
<1> DEFINE iter == CHOOSE f : IteratesNotifications(f, S)
<1>1. MapThenSumSet(LAMBDA o : ledger[o].notifications, S) = iter[S]
  BY DEF MapThenSumSet, MapThenFoldSet, IteratesNotifications
<1>2. \A s \in SUBSET S : s # {} => g[Pick(s)] = ledger[Pick(s)].notifications
  BY Picked
<1>3. PICK f : AddsUp(f, g, S)
  BY AddsUpExists
<1>4. IteratesNotifications(f, S)
  <2>1. f = [s \in SUBSET S |-> IF s = {} THEN 0 ELSE g[Pick(s)] + f[s \ {Pick(s)}]]
    BY <1>3 DEF AddsUp
  <2>2. [s \in SUBSET S |-> IF s = {} THEN 0 ELSE g[Pick(s)] + f[s \ {Pick(s)}]]
        = [s \in SUBSET S |->
             IF s = {} THEN 0 ELSE ledger[Pick(s)].notifications + f[s \ {Pick(s)}]]
    BY <1>2
  <2> QED
    BY <2>1, <2>2, Zenon DEF IteratesNotifications, Pick
<1>5. IteratesNotifications(iter, S)
  BY <1>4, Zenon
<1> HIDE DEF iter
<1>6. AddsUp(iter, g, S)
  <2>1. iter = [s \in SUBSET S |->
                  IF s = {} THEN 0 ELSE ledger[Pick(s)].notifications + iter[s \ {Pick(s)}]]
    BY <1>5, Zenon DEF IteratesNotifications, Pick
  <2>2. [s \in SUBSET S |-> IF s = {} THEN 0 ELSE g[Pick(s)] + iter[s \ {Pick(s)}]]
        = [s \in SUBSET S |->
             IF s = {} THEN 0 ELSE ledger[Pick(s)].notifications + iter[s \ {Pick(s)}]]
    BY <1>2
  <2> QED
    BY <2>1, <2>2, Zenon DEF AddsUp
<1> DEFINE T == S
<1>7. T = S /\ T \subseteq S /\ Agree(g, g, T)
  BY DEF Agree
<1> HIDE DEF T
<1>8. iter[T] = Total(g, T)
  BY <1>6, <1>7, TotalIs
<1> QED
  BY <1>1, <1>7, <1>8

\* Any dispatchers if nobody replays, else one reliable dispatcher and one operator:
\* a client that sends its command again and again with one new key is charged and
\* notified at most once, whatever crashes between the endpoint and the workers and
\* whatever is replayed: the key buys one order, and an order is charged once.
THEOREM ClientsChargedOnce == SafeReplays => (CheckoutSpec => []PurchasedOnce)
<1> SUFFICES ASSUME SafeReplays PROVE CheckoutSpec => []PurchasedOnce
  OBVIOUS
<1>1. SafeReplays
  OBVIOUS
<1>2. ASSUME NewKeyBuysOnce, ChargedOnce, SagaTypeOK PROVE PurchasedOnce
  <2>1. orders \in Seq([status : OrderStatus, items : Baskets]) /\ Len(orders) \in Nat
        /\ ledger \in Seq(LedgerRow) /\ Len(ledger) = Len(orders)
    BY <1>2 DEF SagaTypeOK, LedgerRow
  <2>2. \A o \in Orders : Len(ledger[o].payments) \in 0 .. 1 /\ ledger[o].notifications \in 0 .. 1
    <3> SUFFICES ASSUME NEW o \in Orders
                 PROVE  Len(ledger[o].payments) \in 0 .. 1 /\ ledger[o].notifications \in 0 .. 1
      OBVIOUS
    <3>1. ledger[o] \in LedgerRow
      BY <2>1 DEF Orders
    <3>2. ledger[o].payments \in Seq(PaymentStatus) /\ ledger[o].invoices \in Nat
          /\ ledger[o].notifications \in Nat
      BY <3>1 DEF LedgerRow
    <3>3. Len(ledger[o].payments) \in Nat
      BY <3>2
    <3>4. /\ Len(ledger[o].payments) <= 1
          /\ ledger[o].invoices <= Len(ledger[o].payments)
          /\ ledger[o].notifications <= ledger[o].invoices
      BY <1>2 DEF ChargedOnce
    <3>5. \A p, i, n \in Nat : p <= 1 /\ i <= p /\ n <= i => p \in 0 .. 1 /\ n \in 0 .. 1
      OBVIOUS
    <3> QED
      BY <3>2, <3>3, <3>4, <3>5
  <2>3. ASSUME NEW k \in Keys
        PROVE  /\ MapThenSumSet(LAMBDA o : Len(ledger[o].payments), Bought(k, 0)) <= 1
               /\ MapThenSumSet(LAMBDA o : ledger[o].notifications, Bought(k, 0)) <= 1
    <3> DEFINE S == Bought(k, 0)
               g == [o \in S |-> Len(ledger[o].payments)]
               h == [o \in S |-> ledger[o].notifications]
    <3>1. S \subseteq Orders /\ \A o, p \in S : o = p
      BY <1>2 DEF NewKeyBuysOnce, Bought
    <3>2. IsFiniteSet(S)
      <4>1. IsFiniteSet(Orders)
        BY <2>1, FS_Interval DEF Orders
      <4> HIDE DEF S
      <4> QED
        BY <3>1, <4>1, FS_Subset
    <3>3. \A o \in S : /\ g[o] = Len(ledger[o].payments) /\ h[o] = ledger[o].notifications
                       /\ g[o] \in 0 .. 1 /\ h[o] \in 0 .. 1
      BY <2>2, <3>1
    <3> HIDE DEF S, g, h
    <3>4. Total(g, S) <= 1 /\ Total(h, S) <= 1
      BY <3>1, <3>2, <3>3, TotalOfOne
    <3>5. MapThenSumSet(LAMBDA o : Len(ledger[o].payments), S) = Total(g, S)
      BY <3>2, <3>3, PaymentsTotal
    <3>6. MapThenSumSet(LAMBDA o : ledger[o].notifications, S) = Total(h, S)
      BY <3>2, <3>3, NotificationsTotal
    <3> QED
      BY <3>4, <3>5, <3>6 DEF S
  <2> QED
    BY <2>3, Zenon DEF PurchasedOnce
<1>3. SagaSpec => []ChargedOnce
  BY <1>1, ChargesOnce
<1> QED
  BY <1>2, <1>3, NewKeysBuyOnce, CheckoutImplementsSaga, SagaTypeCorrect, PTL

=============================================================================
