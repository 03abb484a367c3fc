----------------------------- MODULE SagaProofs -----------------------------
(***************************************************************************)
(* The order workflow implements the dispatcher it is composed with, so it *)
(* inherits the delivery theorems; and the events of one chain are all     *)
(* about one order.  For any dispatchers, operators, handlers and orders.  *)
(***************************************************************************)
EXTENDS OrderSaga, DeliveryProofs

\* A step of the saga is a step of the dispatcher, of an outside transaction or
\* of the replay command, or leaves all their variables alone.
LEMMA SagaStep == [SagaNext]_sagaVars => [Next]_vars
<1>1. ASSUME NEW basket \in Baskets, SubmitOrder(basket) PROVE Next
  BY <1>1, SagaAssumption DEF SubmitOrder, Next
<1>2. ASSUME NEW d \in Dispatchers, DeliveryStep(d) PROVE DispatcherStep(d)
  BY <1>2 DEF DeliveryStep, DispatcherStep
<1>3. ASSUME NEW d \in Dispatchers, WorkerStep(d) PROVE DispatcherStep(d)
  BY <1>3 DEF WorkerStep, DispatcherStep, BeginHandler, ReserveInventory, RefuseReservation,
       AuthorizePayment, DeclinePayment, ReleaseInventory, CreateInvoice, SendNotification,
       CompleteOrder, CancelOrder, SetStatus, Handles
<1>4. ASSUME NEW o \in Operators, ReplayEvent(o) PROVE ReplayStep(o)
  BY <1>4 DEF ReplayEvent, ReplayStep
<1>5. ASSUME OutsideStep PROVE Next
  BY <1>5 DEF OutsideStep, Next, ReplayStep
<1>6. UNCHANGED sagaVars => UNCHANGED vars
  BY DEF sagaVars, vars
<1>7. ASSUME NEW sku \in Skus, CreateInventoryItem(sku) PROVE UNCHANGED vars
  BY <1>7 DEF CreateInventoryItem
<1> QED
  BY <1>1, <1>2, <1>3, <1>4, <1>5, <1>6, <1>7 DEF SagaNext, Next

\* The composition is a refinement: the business tables only restrict and
\* accompany what the dispatcher does.
THEOREM SagaImplementsDispatcher == SagaSpec => Spec
<1>1. SagaInit => Init
  BY DEF SagaInit
<1> QED
  BY <1>1, SagaStep, PTL DEF SagaSpec, Spec

\* The workers' effects are committed exactly once, no event is lost and no chain
\* forks, in the order workflow as in any other use of the dispatcher.
THEOREM SagaDelivers ==
  SagaSpec => [](EffectsExactlyOnce /\ NothingLost /\ OneFollowUp)
  BY SagaImplementsDispatcher, ExactlyOnceEffects, NoEventLost, SingleFollowUp, PTL

-----------------------------------------------------------------------------

OrderRow == [status : OrderStatus, items : Baskets]

\* The part of SagaTypeOK that SameOrder rests on.
ChainsTyped ==
  /\ orders \in Seq(OrderRow)
  /\ subject \in Seq(Orders) /\ Len(subject) = Len(outbox)
  /\ \A e \in Events : outbox[e].cause \in Events \cup {0} /\ outbox[e].origin \in Events

\* The inductive invariant for SameOrder.
SagaInv == TypeOK /\ ChainsTyped /\ SameOrder

\* A step that records no event.
ChainsKept ==
  /\ Len(outbox') = Len(outbox)
  /\ subject' = subject

\* What a step records: a new order's first event, the follow-up of an event, or a
\* copy of one.
Recorded(row, o) ==
  \/ row.cause = 0 /\ row.origin = Len(outbox) + 1 /\ o = Len(orders) + 1
  \/ \E e \in Events :
       row.cause = e /\ row.origin = Len(outbox) + 1 /\ o = subject[e]
  \/ \E e \in Events :
       row.cause = outbox[e].cause /\ row.origin = outbox[e].origin /\ o = subject[e]

ChainsGrow ==
  \E row \in Row : \E o \in Nat :
    /\ Recorded(row, o)
    /\ outbox' = Append(outbox, row)
    /\ subject' = Append(subject, o)
    /\ o \in 1 .. Len(orders')

\* Orders are only added, and only their status changes.
OrdersKept == orders' \in Seq(OrderRow) /\ Len(orders) <= Len(orders')

-----------------------------------------------------------------------------

\* d does one event at a time.
LEMMA OneCurrent ==
  ASSUME TypeOK, NEW d \in Dispatchers, NEW e \in Events, NEW f \in Events,
         Current(d, e), Current(d, f)
  PROVE  e = f
<1>1. e \in Int /\ f \in Int
  BY DEF Events, TypeOK, TablesTyped
<1> QED
  BY <1>1 DEF Current

\* The follow-up a worker emits is caused by its event and about its order.
LEMMA EmitStep ==
  ASSUME SagaInv, NEW d \in Dispatchers, NEW e \in Events, NEW type, NEW out,
         Handles(d, e, type), Emits(e, out), orders' \in Seq(OrderRow),
         Len(orders') = Len(orders)
  PROVE  ChainsGrow
<1>1. /\ outbox \in Seq(Row) /\ Len(outbox) \in Nat
      /\ subject[e] \in Orders
  BY DEF SagaInv, TypeOK, TablesTyped, ChainsTyped, Events
<1>2. PICK f \in Events : Current(d, f) /\ HandlerEffect(f)
  <2>1. PICK f \in Events :
          /\ pc[d] = "handling" /\ Current(d, f)
          /\ ~HasProcessed(f)
          /\ inbox' = inbox \cup {InboxKey(f)}
          /\ \/ /\ effects' = [effects EXCEPT ![f] = @ + 1]
                /\ UNCHANGED <<outbox, attempts>>
             \/ \E o \in Outcomes[outbox[f].type] \ {NoEvent} :
                  /\ effects' = Append([effects EXCEPT ![f] = @ + 1], 0)
                  /\ InsertRow(NewRow(o, f, Len(outbox) + 1))
          /\ deadLetters' = deadLetters
    BY DEF Handles, HandlerCommits, InboxKeyFree
  <2>2. Registered(f)
    BY <2>1 DEF SagaInv, TypeOK, HandlersRegistered, Current
  <2>3. Outcomes[outbox[f].type] \ {NoEvent} \subseteq EventTypes
    BY <2>2, TypesAssumption DEF Registered
  <2> QED
    BY <2>1, <2>2, <2>3 DEF HandlerEffect, Applied, InsertRow
<1>3. e = f
  BY <1>2, OneCurrent DEF Handles, SagaInv
<1>4. outbox' # outbox
  BY <1>1 DEF Emits
<1>5. PICK t \in EventTypes : outbox' = Append(outbox, NewRow(t, e, Len(outbox) + 1))
  BY <1>2, <1>3, <1>4 DEF HandlerEffect
<1> DEFINE row == NewRow(t, e, Len(outbox) + 1)
<1>6. row \in Row
  BY <1>1, NewRowType DEF Events
<1>7. row.cause = e /\ row.origin = Len(outbox) + 1
  BY DEF NewRow
<1>8. Recorded(row, subject[e])
  BY <1>7 DEF Recorded
<1> HIDE DEF row
<1>9. outbox' = Append(outbox, row)
  BY <1>5 DEF row
<1>10. subject' = Append(subject, subject[e])
  BY DEF Emits
<1>11. subject[e] \in Nat /\ subject[e] \in 1 .. Len(orders')
  BY <1>1 DEF Orders
<1> QED
  BY <1>6, <1>8, <1>9, <1>10, <1>11 DEF ChainsGrow

\* A step that leaves the orders alone keeps them.
LEMMA OrdersUnchanged ==
  ASSUME SagaInv, orders' = orders
  PROVE  OrdersKept /\ orders' \in Seq(OrderRow) /\ Len(orders') = Len(orders)
  BY DEF SagaInv, ChainsTyped, OrdersKept

\* The two projections change the status of one order.
LEMMA StatusStep ==
  ASSUME SagaInv, NEW d \in Dispatchers, NEW type, NEW status \in OrderStatus,
         SetStatus(d, type, status)
  PROVE  OrdersKept /\ ChainsKept
<1>1. PICK e \in Events : orders' = [orders EXCEPT ![subject[e]].status = status]
  BY DEF SetStatus
<1>2. orders \in Seq(OrderRow) /\ subject[e] \in 1 .. Len(orders)
  BY DEF SagaInv, ChainsTyped, Orders, Events
<1>3. [orders[subject[e]] EXCEPT !.status = status] \in OrderRow
  <2>1. orders[subject[e]] \in OrderRow
    BY <1>2
  <2> QED
    BY <2>1 DEF OrderRow
<1>4. orders' \in Seq(OrderRow) /\ Len(orders') = Len(orders)
  BY <1>1, <1>2, <1>3
<1> QED
  BY <1>2, <1>4 DEF OrdersKept, ChainsKept, SetStatus

\* The API transaction starts a chain about a new order.
LEMMA SubmitStep ==
  ASSUME SagaInv, NEW basket \in Baskets, SubmitOrder(basket)
  PROVE  OrdersKept /\ ChainsGrow
<1>1. orders \in Seq(OrderRow) /\ Len(outbox) \in Nat
  BY DEF SagaInv, ChainsTyped, TypeOK, TablesTyped
<1>2. [status |-> "PENDING", items |-> basket] \in OrderRow
  BY DEF OrderRow, OrderStatus
<1>3. orders' = Append(orders, [status |-> "PENDING", items |-> basket])
  BY DEF SubmitOrder
<1>4. orders' \in Seq(OrderRow) /\ Len(orders') = Len(orders) + 1
  BY <1>1, <1>2, <1>3, AppendRow
<1> DEFINE row == NewRow("OrderCreated", 0, Len(outbox) + 1)
<1>5. row \in Row
  <2>1. "OrderCreated" \in EventTypes
    BY TypesAssumption, SagaAssumption
  <2> QED
    BY <1>1, <2>1, NewRowType
<1>6. row.cause = 0 /\ row.origin = Len(outbox) + 1
  BY DEF NewRow
<1>7. Recorded(row, Len(orders) + 1)
  BY <1>6 DEF Recorded
<1> HIDE DEF row
<1>8. outbox' = Append(outbox, row) /\ subject' = Append(subject, Len(orders) + 1)
  BY DEF SubmitOrder, Submit, InsertRow, row
<1>9. Len(orders) + 1 \in Nat /\ Len(orders) + 1 \in 1 .. Len(orders')
  BY <1>1, <1>4
<1> QED
  BY <1>1, <1>4, <1>5, <1>7, <1>8, <1>9 DEF OrdersKept, ChainsGrow

\* A replayed copy is about the order of its dead letter.
LEMMA ReplayEventStep ==
  ASSUME SagaInv, NEW o \in Operators, ReplayEvent(o)
  PROVE  OrdersKept /\ ChainsGrow
<1>1. OrdersKept /\ Len(orders') = Len(orders)
  BY OrdersUnchanged DEF ReplayEvent
<1> DEFINE f == deadLetters[replaying[o]].event
           row == NewRow(outbox[f].type, outbox[f].cause, outbox[f].origin)
<1>2. outbox' = Append(outbox, row) /\ replaying[o] \in 1 .. Len(deadLetters)
  BY DEF ReplayEvent, ReplayCommit, InsertRow, SagaInv, TypeOK, ProcessesTyped, TablesTyped
<1>3. f \in Events
  BY <1>2 DEF SagaInv, TypeOK, TablesTyped
<1>4. subject' = Append(subject, subject[f])
  BY DEF ReplayEvent
<1> HIDE DEF f
<1>5. outbox[f] \in Row
  BY <1>3 DEF Events, SagaInv, TypeOK, TablesTyped
<1>6. row \in Row
  BY <1>5, NewRowType DEF Row
<1>7. row.cause = outbox[f].cause /\ row.origin = outbox[f].origin
  BY DEF NewRow
<1>8. Recorded(row, subject[f])
  BY <1>3, <1>7 DEF Recorded
<1> HIDE DEF row
<1>9. subject[f] \in Orders
  BY <1>3 DEF SagaInv, ChainsTyped, Events
<1>10. subject[f] \in Nat /\ subject[f] \in 1 .. Len(orders')
  BY <1>1, <1>9 DEF Orders
<1> QED
  BY <1>1, <1>2, <1>4, <1>6, <1>8, <1>10 DEF ChainsGrow

\* A step of the machinery records no event.
LEMMA DeliveryKeeps ==
  ASSUME SagaInv, NEW d \in Dispatchers, DeliveryStep(d)
  PROVE  OrdersKept /\ ChainsKept
<1>1. OrdersKept /\ subject' = subject
  BY OrdersUnchanged DEF DeliveryStep, businessVars
<1>2. CASE PublishEvent(d) \/ ScheduleRetry(d) \/ MoveToDeadLetter(d)
  <2>1. PICK f \in Events, row \in Row : outbox' = [outbox EXCEPT ![f] = row]
    BY <1>2, CommitUpdates DEF SagaInv
  <2> QED
    BY <1>1, <2>1, UpdateRow DEF ChainsKept, SagaInv, TypeOK, TablesTyped, Events
<1>3. CASE outbox' = outbox
  BY <1>1, <1>3 DEF ChainsKept
<1> QED
  BY <1>2, <1>3
  DEF DeliveryStep, Fetch, RejectUnsupported, ConnectionFails, SkipProcessed, HandlerRaises,
      FlushRefused, Abandon, RecordFailure

\* Nor does a new item on the shelf.
LEMMA ItemKeeps ==
  ASSUME SagaInv, NEW sku \in Skus, CreateInventoryItem(sku)
  PROVE  OrdersKept /\ ChainsKept
  BY OrdersUnchanged DEF CreateInventoryItem, ChainsKept, vars

\* Nor does the clock, an interruption or a command that has not committed.
LEMMA OutsideKeeps ==
  ASSUME SagaInv, OutsideStep \/ UNCHANGED sagaVars
  PROVE  OrdersKept /\ ChainsKept
<1>1. OrdersKept /\ subject' = subject
  BY OrdersUnchanged DEF OutsideStep, businessVars, sagaVars
<1>2. ASSUME NEW e \in Events, BackoffElapses(e) PROVE Len(outbox') = Len(outbox)
  BY <1>2 DEF BackoffElapses, SagaInv, TypeOK, TablesTyped
<1>3. CASE outbox' = outbox
  BY <1>1, <1>3 DEF ChainsKept
<1> QED
  BY <1>1, <1>2, <1>3
  DEF OutsideStep, Interrupt, Abandon, ReplayRead, ReplayAbandoned, sagaVars, vars, ChainsKept

\* A worker's step records a follow-up of its event, or nothing.
LEMMA WorkerChains ==
  ASSUME SagaInv, NEW d \in Dispatchers, WorkerStep(d)
  PROVE  OrdersKept /\ (ChainsKept \/ ChainsGrow)
<1>1. CASE BeginHandler(d)
  BY <1>1, OrdersUnchanged DEF BeginHandler, StartHandler, ChainsKept
<1>2. CASE CompleteOrder(d) \/ CancelOrder(d)
  BY <1>2, StatusStep DEF CompleteOrder, CancelOrder, OrderStatus
<1>3. CASE ReserveInventory(d) \/ RefuseReservation(d) \/ AuthorizePayment(d)
           \/ DeclinePayment(d) \/ ReleaseInventory(d) \/ CreateInvoice(d) \/ SendNotification(d)
  <2>1. PICK e \in Events : \E type, out : Handles(d, e, type) /\ Emits(e, out)
    BY <1>3 DEF ReserveInventory, RefuseReservation, AuthorizePayment, DeclinePayment,
                ReleaseInventory, CreateInvoice, SendNotification
  <2>2. orders' = orders
    BY <1>3 DEF ReserveInventory, RefuseReservation, AuthorizePayment, DeclinePayment,
                ReleaseInventory, CreateInvoice, SendNotification
  <2> QED
    BY <2>1, <2>2, OrdersUnchanged, EmitStep
<1> QED
  BY <1>1, <1>2, <1>3 DEF WorkerStep

\* Every step extends the chains or keeps them.
LEMMA ChainStep ==
  ASSUME SagaInv, [SagaNext]_sagaVars
  PROVE  OrdersKept /\ (ChainsKept \/ ChainsGrow)
  BY ItemKeeps, SubmitStep, DeliveryKeeps, WorkerChains, ReplayEventStep, OutsideKeeps DEF SagaNext

\* A sequence over a set is one over a larger set.
LEMMA WiderSeq ==
  ASSUME NEW S, NEW T, S \subseteq T, NEW s \in Seq(S)
  PROVE  s \in Seq(T)
  OBVIOUS

\* A step that records no event keeps the invariant.
LEMMA KeptChains ==
  ASSUME SagaInv, RowsKept, OrdersKept, ChainsKept
  PROVE  (ChainsTyped /\ SameOrder)'
<1>1. Events' = Events /\ subject' = subject /\ Len(subject) = Len(outbox)
  BY DEF ChainsKept, Events, SagaInv, ChainsTyped
<1>2. /\ Len(orders) \in Nat /\ Len(orders') \in Nat /\ orders' \in Seq(OrderRow)
      /\ Len(orders) <= Len(orders') /\ subject \in Seq(Orders)
  BY DEF SagaInv, ChainsTyped, OrdersKept
<1>3. Orders \subseteq Orders'
  BY <1>2 DEF Orders
<1>4. subject' \in Seq(Orders')
  BY <1>1, <1>2, <1>3, WiderSeq
<1>5. \A e \in Events : outbox'[e].cause = outbox[e].cause /\ outbox'[e].origin = outbox[e].origin
  BY DEF RowsKept
<1>6. ChainsTyped'
  BY <1>1, <1>2, <1>4, <1>5 DEF ChainsTyped, ChainsKept, SagaInv
<1>7. SameOrder'
  BY <1>1, <1>5 DEF SameOrder, SagaInv
<1> QED
  BY <1>6, <1>7

\* A recorded event is about the order of its cause and of its origin.
LEMMA GrownChains ==
  ASSUME SagaInv, RowsKept, OrdersKept, ChainsGrow
  PROVE  (ChainsTyped /\ SameOrder)'
<1>1. PICK row \in Row, o \in Nat :
        /\ Recorded(row, o)
        /\ outbox' = Append(outbox, row)
        /\ subject' = Append(subject, o)
        /\ o \in 1 .. Len(orders')
  BY DEF ChainsGrow
<1> DEFINE new == Len(outbox) + 1
<1>2. /\ outbox \in Seq(Row) /\ subject \in Seq(Orders) /\ Len(subject) = Len(outbox)
      /\ Len(outbox) \in Nat /\ new \in Nat
  BY DEF SagaInv, TypeOK, TablesTyped, ChainsTyped
<1>3. /\ Len(orders) \in Nat /\ Len(orders') \in Nat /\ orders' \in Seq(OrderRow)
      /\ Len(orders) <= Len(orders')
  BY DEF SagaInv, ChainsTyped, OrdersKept
<1>4. Orders \subseteq Orders' /\ o \in Orders'
  BY <1>1, <1>3 DEF Orders
<1>5. subject \in Seq(Orders')
  BY <1>2, <1>4, WiderSeq
<1>6. /\ subject' \in Seq(Orders') /\ Len(subject') = new
      /\ subject'[new] = o /\ \A e \in 1 .. Len(outbox) : subject'[e] = subject[e]
  BY <1>1, <1>2, <1>4, <1>5, AppendRow
<1>7. Len(outbox') = new /\ outbox'[new] = row
  BY <1>1, <1>2, AppendRow
<1>8. Events' = Events \cup {new} /\ new \in Events' /\ new \notin Events
  BY <1>2, <1>7 DEF Events
<1>9. \A e \in Events :
        /\ outbox'[e].cause = outbox[e].cause /\ outbox'[e].origin = outbox[e].origin
        /\ subject'[e] = subject[e]
        /\ outbox[e].cause \in Events \cup {0} /\ outbox[e].origin \in Events
        /\ outbox[e].cause # 0 => subject[e] = subject[outbox[e].cause]
        /\ subject[e] = subject[outbox[e].origin]
  BY <1>6 DEF RowsKept, Events, SagaInv, ChainsTyped, SameOrder
<1> HIDE DEF new
<1> DEFINE Linked ==
             /\ row.cause \in Events \cup {0} /\ row.origin \in Events \cup {new}
             /\ row.cause # 0 => o = subject[row.cause]
             /\ row.origin # new => o = subject[row.origin]
<1>10. Linked
  <2>1. CASE row.cause = 0 /\ row.origin = new
    BY <2>1
  <2>2. ASSUME NEW e \in Events, row.cause = e, row.origin = new, o = subject[e]
        PROVE  Linked
    BY <2>2
  <2>3. ASSUME NEW e \in Events, row.cause = outbox[e].cause, row.origin = outbox[e].origin,
               o = subject[e]
        PROVE  Linked
    BY <2>3, <1>9
  <2> QED
    BY <1>1, <2>1, <2>2, <2>3 DEF Recorded, new
<1>11. ChainsTyped'
  BY <1>3, <1>6, <1>7, <1>8, <1>9, <1>10 DEF ChainsTyped
<1>12. SameOrder'
  <2>1. ASSUME NEW e \in Events
        PROVE  /\ outbox'[e].cause # 0 => subject'[e] = subject'[outbox'[e].cause]
               /\ subject'[e] = subject'[outbox'[e].origin]
    <3>1. outbox[e].cause # 0 => outbox[e].cause \in Events
      BY <1>9
    <3> QED
      BY <1>9, <3>1
  <2>2. /\ row.cause # 0 => subject'[new] = subject'[row.cause]
        /\ subject'[new] = subject'[row.origin]
    <3>1. row.cause # 0 => row.cause \in Events
      BY <1>10
    <3> QED
      BY <1>6, <1>9, <1>10, <3>1
  <2> QED
    BY <1>7, <1>8, <2>1, <2>2 DEF SameOrder
<1> QED
  BY <1>11, <1>12

\* The invariant holds at the start and every step keeps it.
LEMMA SagaInductive ==
  /\ SagaInit => SagaInv
  /\ SagaInv /\ [SagaNext]_sagaVars => SagaInv'
<1>1. SagaInit => SagaInv
  BY InitTyped DEF SagaInit, Init, SagaInv, ChainsTyped, SameOrder, Events, Orders
<1>2. ASSUME SagaInv, [SagaNext]_sagaVars PROVE SagaInv'
  <2>1. TypeOK' /\ RowsKept
    BY <1>2, SagaStep, NextTyped DEF SagaInv
  <2>2. OrdersKept /\ (ChainsKept \/ ChainsGrow)
    BY <1>2, ChainStep
  <2> QED
    BY <1>2, <2>1, <2>2, KeptChains, GrownChains DEF SagaInv
<1> QED
  BY <1>1, <1>2

\* The events of one chain, retried, replayed or not, are about one order.
THEOREM ChainsStaySeparate == SagaSpec => []SameOrder
<1>1. SagaInv => SameOrder
  BY DEF SagaInv
<1> QED
  BY <1>1, SagaInductive, PTL DEF SagaSpec

=============================================================================
