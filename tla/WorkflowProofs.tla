---------------------------- MODULE WorkflowProofs ----------------------------
(***************************************************************************)
(* What the order workflow does to the business tables.  For any           *)
(* dispatchers the tables stay well-typed.  If nobody replays, or one      *)
(* operator does beside one reliable dispatcher, the ledger of an order is *)
(* the trail of its events, so an order is charged once and its decision   *)
(* is justified and final; with one dispatcher the stock is conserved too. *)
(***************************************************************************)
EXTENDS SagaProofs, ReliableProofs

-----------------------------------------------------------------------------
(* Sums over finite sets.  MapThenSumSet adds the elements in the order    *)
(* CHOOSE gives; the lemmas show that the order does not matter.           *)

Pick(s) == CHOOSE x \in s : TRUE

\* f adds up g over every subset of S.
AddsUp(f, g, S) ==
  f = [s \in SUBSET S |-> IF s = {} THEN 0 ELSE g[Pick(s)] + f[s \ {Pick(s)}]]

Total(g, S) == (CHOOSE f : AddsUp(f, g, S))[S]

Agree(g, h, S) == \A x \in S : g[x] = h[x]

\* A set of subsets of a finite set has a smallest member: what fails, fails first
\* at a set all of whose parts are fine.
LEMMA SmallestSubset ==
  ASSUME NEW S, IsFiniteSet(S), NEW X, X \subseteq SUBSET S, X # {}
  PROVE  \E T \in X : \A U \in X : U \subseteq T => U = T
<1>1. FiniteSubsetsOf(S) = SUBSET S
  BY FS_FiniteSubsetsOfFinite
<1>2. PICK T \in X : \A U \in X : ~ <<U, T>> \in StrictSubsetOrdering(S)
  BY <1>1, FS_StrictSubsetOrderingWellFounded, WFMin
<1>3. ASSUME NEW U \in X, U \subseteq T PROVE U = T
  <2>1. <<U, T>> \in (SUBSET S) \X (SUBSET S)
    OBVIOUS
  <2>2. U # T => <<U, T>> \in StrictSubsetOrdering(S)
    BY <1>3, <2>1 DEF StrictSubsetOrdering
  <2> QED
    BY <1>2, <2>2
<1> QED
  BY <1>2, <1>3

\* What Pick picks is there.
LEMMA Picked ==
  ASSUME NEW s, s # {}
  PROVE  Pick(s) \in s
  BY DEF Pick

\* Functions that add up the same values agree on the parts they share.
LEMMA AddsUpUnique ==
  ASSUME NEW S, NEW T, IsFiniteSet(S), NEW g, NEW h, NEW f, NEW k,
         AddsUp(f, g, S), AddsUp(k, h, T), T \subseteq S, Agree(g, h, T)
  PROVE  f[T] = k[T]
<1> DEFINE X == {V \in SUBSET T : f[V] # k[V]}
<1>1. IsFiniteSet(T)
  BY FS_Subset
<1>2. SUFFICES ASSUME X # {} PROVE FALSE
  OBVIOUS
<1>3. PICK V \in X : \A W \in X : W \subseteq V => W = V
  <2>1. X \subseteq SUBSET T
    OBVIOUS
  <2> HIDE DEF X
  <2> QED
    BY <1>1, <1>2, <2>1, SmallestSubset
<1>4. V \in SUBSET S /\ V \in SUBSET T
  OBVIOUS
<1>5. /\ f[V] = IF V = {} THEN 0 ELSE g[Pick(V)] + f[V \ {Pick(V)}]
      /\ k[V] = IF V = {} THEN 0 ELSE h[Pick(V)] + k[V \ {Pick(V)}]
  BY <1>4, Zenon DEF AddsUp
<1>6. V # {}
  BY <1>3, <1>5
<1>7. Pick(V) \in V
  BY <1>6, Picked
<1>8. V \ {Pick(V)} \notin X
  BY <1>3, <1>7
<1>9. f[V \ {Pick(V)}] = k[V \ {Pick(V)}]
  BY <1>8
<1>10. g[Pick(V)] = h[Pick(V)]
  BY <1>7 DEF Agree
<1>11. f[V] = k[V]
  BY <1>5, <1>6, <1>9, <1>10
<1> QED
  BY <1>3, <1>11

\* There is such a function for every finite set.
LEMMA AddsUpExists ==
  ASSUME NEW S, IsFiniteSet(S), NEW g
  PROVE  \E f : AddsUp(f, g, S)
<1> DEFINE Fine(T) == \E f : AddsUp(f, g, T)
           X == {T \in SUBSET S : ~Fine(T)}
<1>1. SUFFICES ASSUME X # {} PROVE FALSE
  OBVIOUS
<1>2. PICK T \in X : \A U \in X : U \subseteq T => U = T
  <2>1. X \subseteq SUBSET S
    OBVIOUS
  <2> HIDE DEF X
  <2> QED
    BY <1>1, <2>1, SmallestSubset
<1>3. ASSUME NEW U \in SUBSET T, U # T PROVE Fine(U)
  BY <1>2, <1>3
<1> DEFINE h(U) == CHOOSE f : AddsUp(f, g, U)
           rest(s) == s \ {Pick(s)}
           total == [s \in SUBSET T |->
                      IF s = {} THEN 0 ELSE g[Pick(s)] + h(rest(s))[rest(s)]]
<1>4. ASSUME NEW U \in SUBSET T, U # T PROVE AddsUp(h(U), g, U)
  BY <1>3, <1>4
<1>5. ASSUME NEW s \in SUBSET T, s # {} PROVE total[rest(s)] = h(rest(s))[rest(s)]
  <2> DEFINE r == rest(s)
  <2>1. r \in SUBSET T /\ r # T
    BY <1>5, Picked
  <2>2. AddsUp(h(r), g, r)
    BY <1>4, <2>1
  <2>3. h(r)[r] = IF r = {} THEN 0 ELSE g[Pick(r)] + h(r)[rest(r)]
    BY <2>2, Zenon DEF AddsUp
  <2>4. CASE r = {}
    BY <2>1, <2>3, <2>4
  <2>5. CASE r # {}
    <3>1. rest(r) \in SUBSET r /\ rest(r) \in SUBSET T /\ rest(r) # T
      BY <2>1, <2>5, Picked
    <3>2. AddsUp(h(rest(r)), g, rest(r))
      BY <1>4, <3>1
    <3>3. IsFiniteSet(r) /\ IsFiniteSet(rest(r))
      BY <2>1, <3>1, FS_Subset
    <3> Agree(g, g, rest(r))
      BY DEF Agree
    <3>4. h(r)[rest(r)] = h(rest(r))[rest(r)]
      BY <2>2, <3>1, <3>2, <3>3, AddsUpUnique
    <3>5. total[r] = g[Pick(r)] + h(rest(r))[rest(r)]
      BY <2>1, <2>5
    <3> QED
      BY <2>3, <2>5, <3>4, <3>5
  <2> QED
    BY <2>4, <2>5
<1>6. AddsUp(total, g, T)
  <2>1. total = [s \in SUBSET T |-> total[s]]
    OBVIOUS
  <2>2. ASSUME NEW s \in SUBSET T
        PROVE  total[s] = IF s = {} THEN 0 ELSE g[Pick(s)] + total[rest(s)]
    <3>1. total[s] = IF s = {} THEN 0 ELSE g[Pick(s)] + h(rest(s))[rest(s)]
      OBVIOUS
    <3>2. s # {} => total[rest(s)] = h(rest(s))[rest(s)]
      BY <1>5
    <3> HIDE DEF total, h, rest
    <3> QED
      BY <3>1, <3>2
  <2> HIDE DEF total
  <2> QED
    BY <2>1, <2>2 DEF AddsUp
<1> QED
  BY <1>2, <1>6

\* The total of a finite set is what a function that adds up gives for it.
LEMMA TotalAddsUp ==
  ASSUME NEW S, IsFiniteSet(S), NEW g
  PROVE  AddsUp(CHOOSE f : AddsUp(f, g, S), g, S)
  BY AddsUpExists

\* The empty sum.
LEMMA TotalEmpty ==
  ASSUME NEW g
  PROVE  Total(g, {}) = 0
<1>1. AddsUp(CHOOSE f : AddsUp(f, g, {}), g, {})
  BY TotalAddsUp, FS_EmptySet
<1> QED
  BY <1>1, Zenon DEF AddsUp, Total

\* Whatever adds up g gives the total.
LEMMA TotalIs ==
  ASSUME NEW S, NEW T, IsFiniteSet(S), NEW g, NEW h, NEW f, AddsUp(f, g, S),
         T \subseteq S, Agree(g, h, T)
  PROVE  f[T] = Total(h, T)
<1> DEFINE k == CHOOSE m : AddsUp(m, h, T)
<1>1. IsFiniteSet(T)
  BY FS_Subset
<1>2. AddsUp(k, h, T)
  BY <1>1, TotalAddsUp
<1>3. Total(h, T) = k[T]
  BY DEF Total
<1> HIDE DEF k
<1> QED
  BY <1>2, <1>3, AddsUpUnique

\* A sum depends on the values of its elements only.
LEMMA TotalSame ==
  ASSUME NEW S, IsFiniteSet(S), NEW g, NEW h, \A x \in S : g[x] = h[x]
  PROVE  Total(g, S) = Total(h, S)
<1> DEFINE sum == CHOOSE m : AddsUp(m, g, S)
<1>1. AddsUp(sum, g, S)
  BY TotalAddsUp
<1>2. Total(g, S) = sum[S]
  BY DEF Total
<1> HIDE DEF sum
<1> DEFINE T == S
<1>3. T \subseteq S /\ Agree(g, h, T)
  BY DEF Agree
<1>4. T = S
  OBVIOUS
<1> HIDE DEF T
<1>5. sum[T] = Total(h, T)
  BY <1>1, <1>3, TotalIs
<1> QED
  BY <1>2, <1>4, <1>5

\* A sum is the element picked and the rest.
LEMMA TotalPick ==
  ASSUME NEW S, IsFiniteSet(S), NEW g, S # {}
  PROVE  Total(g, S) = g[Pick(S)] + Total(g, S \ {Pick(S)})
<1> DEFINE sum == CHOOSE m : AddsUp(m, g, S)
           R == S \ {Pick(S)}
<1>1. AddsUp(sum, g, S)
  BY TotalAddsUp
<1>2. Total(g, S) = sum[S]
  BY DEF Total
<1> HIDE DEF sum
<1>3. sum[S] = g[Pick(S)] + sum[R]
  BY <1>1, Zenon DEF AddsUp
<1>4. R \subseteq S /\ Agree(g, g, R)
  BY DEF Agree
<1> HIDE DEF R
<1>5. sum[R] = Total(g, R)
  BY <1>1, <1>4, TotalIs
<1> QED
  BY <1>2, <1>3, <1>5 DEF R

\* A sum of natural numbers is one, and its elements can be added in any order.
LEMMA TotalMember ==
  ASSUME NEW S, IsFiniteSet(S), NEW g, \A x \in S : g[x] \in Nat
  PROVE  /\ Total(g, S) \in Nat
         /\ \A x \in S : Total(g, S) = g[x] + Total(g, S \ {x})
<1> DEFINE Fine(T) == /\ Total(g, T) \in Nat
                      /\ \A x \in T : Total(g, T) = g[x] + Total(g, T \ {x})
           X == {T \in SUBSET S : ~Fine(T)}
<1>1. SUFFICES ASSUME X # {} PROVE FALSE
  OBVIOUS
<1>2. PICK T \in X : \A U \in X : U \subseteq T => U = T
  <2>1. X \subseteq SUBSET S
    OBVIOUS
  <2> HIDE DEF X
  <2> QED
    BY <1>1, <2>1, SmallestSubset
<1>3. /\ T \subseteq S /\ ~Fine(T)
      /\ \A U \in SUBSET S : U \subseteq T /\ U # T => Fine(U)
  BY <1>2
<1>4. T # {}
  <2>1. Fine({})
    BY TotalEmpty
  <2> QED
    BY <1>3, <2>1
<1> DEFINE p == Pick(T)
           R == T \ {p}
<1>5. p \in T
  BY <1>4, Picked
<1>6. IsFiniteSet(T)
  BY <1>3, FS_Subset
<1>7. Total(g, T) = g[p] + Total(g, R)
  BY <1>4, <1>6, TotalPick
<1>8. Fine(R)
  BY <1>3, <1>5
<1> HIDE DEF p, X
<1>9. ASSUME NEW x \in T PROVE Total(g, T) = g[x] + Total(g, T \ {x})
  <2>1. CASE x = p
    BY <1>7, <2>1
  <2>2. CASE x # p
    <3> DEFINE Q == R \ {x}
    <3>1. Total(g, R) = g[x] + Total(g, Q)
      BY <1>8, <2>2
    <3>2. Fine(T \ {x})
      BY <1>3
    <3>3. (T \ {x}) \ {p} = Q
      OBVIOUS
    <3>4. Total(g, T \ {x}) = g[p] + Total(g, (T \ {x}) \ {p})
      BY <1>5, <2>2, <3>2
    <3>5. Fine(Q)
      BY <1>3, <2>2
    <3>6. /\ g[p] \in Nat /\ g[x] \in Nat /\ Total(g, Q) \in Nat
          /\ Total(g, T) = g[p] + (g[x] + Total(g, Q))
          /\ Total(g, T \ {x}) = g[p] + Total(g, Q)
      BY <1>3, <1>5, <1>7, <3>1, <3>3, <3>4, <3>5
    <3> QED
      BY <3>6
  <2> QED
    BY <2>1, <2>2
<1>10. Total(g, T) \in Nat
  BY <1>3, <1>5, <1>7, <1>8
<1> QED
  BY <1>3, <1>9, <1>10

\* A sum of zeros.
LEMMA TotalZero ==
  ASSUME NEW S, IsFiniteSet(S), NEW g, \A x \in S : g[x] = 0
  PROVE  Total(g, S) = 0
<1> DEFINE X == {T \in SUBSET S : Total(g, T) # 0}
<1>1. SUFFICES ASSUME X # {} PROVE FALSE
  OBVIOUS
<1>2. PICK T \in X : \A U \in X : U \subseteq T => U = T
  <2>1. X \subseteq SUBSET S
    OBVIOUS
  <2> HIDE DEF X
  <2> QED
    BY <1>1, <2>1, SmallestSubset
<1>3. T # {} /\ IsFiniteSet(T)
  BY TotalEmpty, FS_Subset
<1>4. Pick(T) \in T
  BY <1>3, Picked
<1>5. Total(g, T) = 0 + Total(g, T \ {Pick(T)})
  BY <1>3, <1>4, TotalPick
<1>6. Total(g, T \ {Pick(T)}) = 0
  BY <1>2, <1>4
<1> QED
  BY <1>2, <1>5, <1>6

-----------------------------------------------------------------------------
(* The quantity of an item in an order                                     *)

\* What the library's sum over the lines of an order is computed by.
Iterates(f, items, lines) ==
  f = [s \in SUBSET lines |->
         IF s = {} THEN 0
         ELSE items[CHOOSE x \in s : TRUE].quantity + f[s \ {CHOOSE x \in s : TRUE}]]

\* The quantity ordered is a sum over the lines with the SKU.
LEMMA OrderedTotal ==
  ASSUME NEW items, NEW sku
  PROVE  LET lines == {i \in 1 .. Len(items) : items[i].sku = sku}
         IN  IsFiniteSet(lines) =>
               Ordered(items, sku) = Total([i \in lines |-> items[i].quantity], lines)
<1> DEFINE lines == {i \in 1 .. Len(items) : items[i].sku = sku}
           g == [i \in lines |-> items[i].quantity]
<1> SUFFICES ASSUME IsFiniteSet(lines) PROVE Ordered(items, sku) = Total(g, lines)
  OBVIOUS
<1> DEFINE iter == CHOOSE f : Iterates(f, items, lines)
<1>1. Ordered(items, sku) = iter[lines]
  BY DEF Ordered, MapThenSumSet, MapThenFoldSet, Iterates
<1>2. g = [i \in lines |-> items[i].quantity]
  OBVIOUS
<1> HIDE DEF lines, g
<1>3. \A s \in SUBSET lines : s # {} => g[Pick(s)] = items[Pick(s)].quantity
  BY <1>2, Picked
<1>4. PICK f : AddsUp(f, g, lines)
  BY AddsUpExists
<1>5. Iterates(f, items, lines)
  <2>1. f = [s \in SUBSET lines |-> IF s = {} THEN 0 ELSE g[Pick(s)] + f[s \ {Pick(s)}]]
    BY <1>4 DEF AddsUp
  <2>2. [s \in SUBSET lines |-> IF s = {} THEN 0 ELSE g[Pick(s)] + f[s \ {Pick(s)}]]
        = [s \in SUBSET lines |->
             IF s = {} THEN 0 ELSE items[Pick(s)].quantity + f[s \ {Pick(s)}]]
    BY <1>3
  <2> QED
    BY <2>1, <2>2, Zenon DEF Iterates, Pick
<1>6. Iterates(iter, items, lines)
  BY <1>5, Zenon
<1> HIDE DEF iter
<1>7. AddsUp(iter, g, lines)
  <2>1. iter = [s \in SUBSET lines |->
                  IF s = {} THEN 0 ELSE items[Pick(s)].quantity + iter[s \ {Pick(s)}]]
    BY <1>6, Zenon DEF Iterates, Pick
  <2>2. [s \in SUBSET lines |-> IF s = {} THEN 0 ELSE g[Pick(s)] + iter[s \ {Pick(s)}]]
        = [s \in SUBSET lines |->
             IF s = {} THEN 0 ELSE items[Pick(s)].quantity + iter[s \ {Pick(s)}]]
    BY <1>3
  <2> QED
    BY <2>1, <2>2 DEF AddsUp
<1> DEFINE T == lines
<1>8. T = lines /\ T \subseteq lines /\ Agree(g, g, T)
  BY DEF Agree
<1> HIDE DEF T
<1>9. iter[T] = Total(g, T)
  BY <1>7, <1>8, TotalIs
<1> QED
  BY <1>1, <1>8, <1>9

Line == [sku : Skus, quantity : Nat \ {0}]

\* What is ordered of an item is a number, and more than nothing only if a line asks
\* for it.
LEMMA OrderedNat ==
  ASSUME NEW items \in Baskets, NEW sku
  PROVE  /\ Ordered(items, sku) \in Nat
         /\ Ordered(items, sku) # 0 => \E i \in 1 .. Len(items) : items[i].sku = sku
<1> DEFINE lines == {i \in 1 .. Len(items) : items[i].sku = sku}
           g == [i \in lines |-> items[i].quantity]
<1>1. items \in Seq(Line) /\ Len(items) \in Nat
  <2>1. Baskets \subseteq Seq(Line)
    BY SagaAssumption, Zenon DEF Line
  <2> QED
    BY <2>1
<1>2. IsFiniteSet(lines)
  <2>1. IsFiniteSet(1 .. Len(items))
    BY <1>1, FS_Interval
  <2> QED
    BY <2>1, FS_Subset
<1>3. Ordered(items, sku) = Total(g, lines)
  BY <1>2, OrderedTotal
<1>4. \A i \in lines : g[i] \in Nat
  <2>1. \A i \in 1 .. Len(items) : items[i] \in Line
    BY <1>1
  <2> QED
    BY <2>1 DEF Line
<1> HIDE DEF g
<1>5. Total(g, lines) \in Nat /\ (lines = {} => Total(g, lines) = 0)
  <2> HIDE DEF lines
  <2> QED
    BY <1>2, <1>4, TotalMember, TotalEmpty
<1> QED
  BY <1>3, <1>5

-----------------------------------------------------------------------------
(* The business tables stay typed, for any dispatchers                     *)

\* A handler that has begun has read every item its order asks for.
LoadedListed ==
  \A d \in Dispatchers : \A e \in DOMAIN batch[d] :
    pc[d] = "handling" /\ Current(d, e) => Listed(loaded[d], Items(e))

LedgerRow == [payments : Seq(PaymentStatus), invoices : Nat, notifications : Nat]

\* The inductive invariant of the tables.
WorkflowInv == SagaInv /\ SagaTypeOK /\ LoadedListed

\* The handler that commits runs on the event it is about, which was not applied.
LEMMA Handling ==
  ASSUME SagaInv, NEW d \in Dispatchers, NEW e \in Events, NEW type, Handles(d, e, type)
  PROVE  /\ pc[d] = "handling" /\ Current(d, e) /\ e \in DOMAIN batch[d]
         /\ Registered(e) /\ ~Applied(e) /\ outbox[e].type = type
         /\ inbox' = inbox \cup {InboxKey(e)} /\ loaded' = loaded
         /\ Goto(d, "marking") /\ batch' = batch
         /\ \/ UNCHANGED <<outbox, attempts>>
            \/ \E out \in EventTypes : InsertRow(NewRow(out, e, Len(outbox) + 1))
<1>1. PICK f \in Events :
        /\ pc[d] = "handling" /\ Current(d, f) /\ Registered(f) /\ ~Applied(f)
        /\ inbox' = inbox \cup {InboxKey(f)}
        /\ Goto(d, "marking") /\ batch' = batch
        /\ \/ UNCHANGED <<outbox, attempts>>
           \/ \E out \in EventTypes : InsertRow(NewRow(out, f, Len(outbox) + 1))
  BY Committing DEF Handles, SagaInv
<1>2. Current(d, e) /\ outbox[e].type = type /\ loaded' = loaded
  BY DEF Handles
<1>3. e = f
  BY <1>1, <1>2, OneCurrent DEF SagaInv
<1> QED
  BY <1>1, <1>2, <1>3 DEF Current

\* A handler that emits adds one event, its follow-up about the same order.
LEMMA FollowingUp ==
  ASSUME SagaInv, NEW d \in Dispatchers, NEW e \in Events, NEW type, NEW out,
         Handles(d, e, type), Emits(e, out), NEW n \in Nat, n = Len(outbox) + 1
  PROVE  /\ Events' = Events \cup {n} /\ n \notin Events
         /\ outbox'[n].type = out /\ outbox'[n].cause = e /\ outbox'[n].origin = n
         /\ \A f \in Events : outbox'[f] = outbox[f] /\ subject'[f] = subject[f]
         /\ subject'[n] = subject[e]
<1>1. /\ TypeOK /\ outbox \in Seq(Row) /\ Len(outbox) \in Nat
      /\ subject \in Seq(Orders) /\ Len(subject) = Len(outbox) /\ subject[e] \in Orders
  <2>1. TypeOK /\ outbox \in Seq(Row) /\ subject \in Seq(Orders) /\ Len(subject) = Len(outbox)
    BY DEF SagaInv, TypeOK, TablesTyped, ChainsTyped
  <2>2. Len(outbox) \in Nat /\ e \in 1 .. Len(subject)
    BY <2>1 DEF Events
  <2> QED
    BY <2>1, <2>2
<1>2. PICK t \in EventTypes : InsertRow(NewRow(t, e, Len(outbox) + 1))
  BY <1>1, Handling DEF Emits
<1> DEFINE row == NewRow(t, e, n)
<1>3. row \in Row /\ row.cause = e /\ row.origin = n
  BY <1>1, Inserting DEF NewRow
<1> HIDE DEF row
<1>4. InsertRow(row)
  BY <1>2 DEF row
<1>5. /\ Events' = Events \cup {n} /\ n \notin Events
      /\ outbox'[n] = row /\ \A f \in Events : outbox'[f] = outbox[f]
  BY <1>1, <1>3, <1>4, Inserted
<1>6. Len(outbox') = n
  BY <1>1, <1>3, <1>4, AppendRow DEF InsertRow
<1>7. outbox'[n].type = out /\ subject' = Append(subject, subject[e])
  BY <1>6 DEF Emits
<1>8. subject'[n] = subject[e] /\ \A f \in Events : subject'[f] = subject[f]
  BY <1>1, <1>7, AppendRow DEF Events
<1> QED
  BY <1>3, <1>5, <1>7, <1>8

\* Which actions write which table.
LEMMA Writers ==
  ASSUME [SagaNext]_sagaVars
  PROVE  /\ \/ stock' = stock
            \/ \E sku \in Skus : CreateInventoryItem(sku)
            \/ \E d \in Dispatchers : ReserveInventory(d) \/ ReleaseInventory(d)
         /\ \/ orders' = orders
            \/ \E basket \in Baskets : SubmitOrder(basket)
            \/ \E d \in Dispatchers : CompleteOrder(d) \/ CancelOrder(d)
         /\ \/ ledger' = ledger
            \/ \E basket \in Baskets : SubmitOrder(basket)
            \/ \E d \in Dispatchers : \/ AuthorizePayment(d) \/ DeclinePayment(d)
                                     \/ CreateInvoice(d) \/ SendNotification(d)
         /\ \/ loaded' = loaded
            \/ \E d \in Dispatchers : BeginHandler(d)
<1>1. CASE UNCHANGED businessVars
  BY <1>1 DEF businessVars
<1>2. ASSUME NEW sku \in Skus, CreateInventoryItem(sku)
      PROVE  orders' = orders /\ ledger' = ledger /\ loaded' = loaded
  BY <1>2 DEF CreateInventoryItem
<1>3. ASSUME NEW basket \in Baskets, SubmitOrder(basket) PROVE stock' = stock /\ loaded' = loaded
  BY <1>3 DEF SubmitOrder
<1>4. ASSUME NEW o \in Operators, ReplayEvent(o)
      PROVE  stock' = stock /\ orders' = orders /\ ledger' = ledger /\ loaded' = loaded
  BY <1>4 DEF ReplayEvent
<1>5. ASSUME NEW d \in Dispatchers, WorkerStep(d)
      PROVE  /\ stock' = stock \/ ReserveInventory(d) \/ ReleaseInventory(d)
             /\ orders' = orders \/ CompleteOrder(d) \/ CancelOrder(d)
             /\ \/ ledger' = ledger \/ AuthorizePayment(d) \/ DeclinePayment(d)
                \/ CreateInvoice(d) \/ SendNotification(d)
             /\ loaded' = loaded \/ BeginHandler(d)
  <2>1. CASE BeginHandler(d)
    BY <2>1 DEF BeginHandler
  <2>2. CASE ReserveInventory(d) \/ RefuseReservation(d) \/ ReleaseInventory(d)
    BY <2>2 DEF ReserveInventory, RefuseReservation, ReleaseInventory, Handles
  <2>3. CASE \/ AuthorizePayment(d) \/ DeclinePayment(d) \/ CreateInvoice(d)
             \/ SendNotification(d)
    BY <2>3 DEF AuthorizePayment, DeclinePayment, CreateInvoice, SendNotification, Handles
  <2>4. CASE CompleteOrder(d) \/ CancelOrder(d)
    BY <2>4 DEF CompleteOrder, CancelOrder, SetStatus, Handles
  <2> QED
    BY <1>5, <2>1, <2>2, <2>3, <2>4 DEF WorkerStep
<1>6. UNCHANGED sagaVars => UNCHANGED businessVars
  BY DEF sagaVars, businessVars
<1> QED
  BY <1>1, <1>2, <1>3, <1>4, <1>5, <1>6 DEF SagaNext, DeliveryStep, OutsideStep

\* The two projections of the order status write the row of one order.
Decided(row, status) == [row EXCEPT !.status = status]

Decides(d, e, type, status) ==
  /\ Handles(d, e, type) /\ UNCHANGED <<outbox, subject, stock, ledger>>
  /\ orders' = [orders EXCEPT ![subject[e]] = Decided(@, status)]

\* They follow the end of the chain and the end of the compensation.
LEMMA Projecting ==
  ASSUME NEW d \in Dispatchers, CompleteOrder(d) \/ CancelOrder(d)
  PROVE  \E e \in Events : \/ Decides(d, e, "NotificationSent", "COMPLETED")
                          \/ Decides(d, e, "InventoryReleased", "CANCELLED")
<1>1. CASE CompleteOrder(d)
  BY <1>1 DEF CompleteOrder, SetStatus, Decides, Decided
<1>2. CASE CancelOrder(d)
  BY <1>2 DEF CancelOrder, SetStatus, Decides, Decided
<1> QED
  BY <1>1, <1>2

\* A decided row is a row about the same items.
LEMMA DecidedRow ==
  ASSUME NEW row \in OrderRow, NEW status \in OrderStatus
  PROVE  /\ Decided(row, status) \in OrderRow
         /\ Decided(row, status).items = row.items /\ Decided(row, status).status = status
         /\ row.status = status => Decided(row, status) = row
  BY DEF Decided, OrderRow

\* Nobody changes what an order asks for, and a new order asks for what there is.
LEMMA ItemsKept ==
  ASSUME SagaInv, [SagaNext]_sagaVars
  PROVE  /\ Len(orders) \in Nat /\ Len(orders') \in Nat /\ Orders \subseteq Orders'
         /\ \A o \in Orders : orders[o] \in OrderRow /\ orders'[o].items = orders[o].items
         /\ \A o \in Orders' \ Orders :
              Listed(stock, orders'[o].items) /\ stock' = stock /\ orders'[o].status = "PENDING"
<1>1. /\ orders \in Seq(OrderRow) /\ Len(orders) \in Nat /\ Orders = 1 .. Len(orders)
      /\ \A o \in Orders : orders[o] \in OrderRow
  BY DEF SagaInv, ChainsTyped, Orders
<1>2. CASE orders' = orders
  BY <1>1, <1>2 DEF Orders
<1>3. ASSUME NEW basket \in Baskets, SubmitOrder(basket)
      PROVE  /\ Len(orders') \in Nat /\ Orders \subseteq Orders'
             /\ \A o \in Orders : orders'[o].items = orders[o].items
             /\ \A o \in Orders' \ Orders :
                  Listed(stock, orders'[o].items) /\ stock' = stock
                  /\ orders'[o].status = "PENDING"
  <2> DEFINE row == [status |-> "PENDING", items |-> basket]
  <2>1. row \in OrderRow /\ row.items = basket /\ row.status = "PENDING"
    BY DEF OrderRow, OrderStatus
  <2>2. orders' = Append(orders, row) /\ Listed(stock, basket) /\ stock' = stock
    BY <1>3 DEF SubmitOrder
  <2> HIDE DEF row
  <2>3. /\ Len(orders') = Len(orders) + 1 /\ orders'[Len(orders) + 1] = row
        /\ \A o \in Orders : orders'[o] = orders[o]
    BY <1>1, <2>1, <2>2, AppendRow
  <2>4. Orders' = Orders \cup {Len(orders) + 1}
    BY <1>1, <2>3 DEF Orders
  <2> QED
    BY <1>1, <2>1, <2>2, <2>3, <2>4
<1>4. ASSUME NEW d \in Dispatchers, CompleteOrder(d) \/ CancelOrder(d)
      PROVE  Orders' = Orders /\ Len(orders') = Len(orders)
             /\ \A o \in Orders : orders'[o].items = orders[o].items
  <2>1. PICK e \in Events, status \in OrderStatus :
          orders' = [orders EXCEPT ![subject[e]] = Decided(@, status)]
    BY <1>4, Projecting DEF Decides, OrderStatus
  <2>2. Len(orders') = Len(orders)
    BY <1>1, <2>1
  <2>3. ASSUME NEW o \in Orders PROVE orders'[o].items = orders[o].items
    <3>1. orders'[o] = orders[o] \/ orders'[o] = Decided(orders[o], status)
      BY <1>1, <2>1
    <3> QED
      BY <1>1, <3>1, DecidedRow
  <2> QED
    BY <1>1, <2>2, <2>3 DEF Orders
<1> QED
  BY <1>1, <1>2, <1>3, <1>4, Writers

\* A sequence with one row replaced by a row of the type.
LEMMA ReplaceRow ==
  ASSUME NEW S, NEW s \in Seq(S), NEW i \in 1 .. Len(s), NEW r \in S, NEW t,
         t = [s EXCEPT ![i] = r]
  PROVE  t \in Seq(S) /\ Len(t) = Len(s) /\ t[i] = r
         /\ \A j \in 1 .. Len(s) : j # i => t[j] = s[j]
  BY UpdateRow

\* What the four writers of the ledger do to the row of one order.
Paid(row, status) == [row EXCEPT !.payments = Append(@, status)]

Invoiced(row) == [row EXCEPT !.invoices = @ + 1]

Notified(row) == [row EXCEPT !.notifications = @ + 1]

\* A ledger row with an entry more is a ledger row.
LEMMA LedgerRows ==
  ASSUME NEW row \in LedgerRow
  PROVE  /\ \A status \in PaymentStatus :
              /\ Paid(row, status) \in LedgerRow
              /\ Paid(row, status) = [payments |-> Append(row.payments, status),
                                      invoices |-> row.invoices,
                                      notifications |-> row.notifications]
         /\ Invoiced(row) \in LedgerRow
         /\ Invoiced(row) = [payments |-> row.payments, invoices |-> row.invoices + 1,
                             notifications |-> row.notifications]
         /\ Notified(row) \in LedgerRow
         /\ Notified(row) = [payments |-> row.payments, invoices |-> row.invoices,
                             notifications |-> row.notifications + 1]
<1>1. row = [payments |-> row.payments, invoices |-> row.invoices,
             notifications |-> row.notifications]
      /\ row.payments \in Seq(PaymentStatus) /\ row.invoices \in Nat /\ row.notifications \in Nat
  BY DEF LedgerRow
<1>2. \A status \in PaymentStatus : Append(row.payments, status) \in Seq(PaymentStatus)
  BY <1>1, AppendRow
<1>3. ASSUME NEW payments \in Seq(PaymentStatus), NEW invoices \in Nat, NEW notifications \in Nat
      PROVE  [payments |-> payments, invoices |-> invoices, notifications |-> notifications]
             \in LedgerRow
  BY DEF LedgerRow
<1>4. ASSUME NEW status \in PaymentStatus
      PROVE  Paid(row, status) = [payments |-> Append(row.payments, status),
                                  invoices |-> row.invoices,
                                  notifications |-> row.notifications]
  <2> DEFINE p == Append(row.payments, status)
  <2>1. Paid(row, status) = [row EXCEPT !.payments = p]
    BY DEF Paid
  <2> HIDE DEF p
  <2>2. [row EXCEPT !.payments = p] = [payments |-> p, invoices |-> row.invoices,
                                       notifications |-> row.notifications]
    BY DEF LedgerRow
  <2> QED
    BY <2>1, <2>2 DEF p
<1>5. Invoiced(row) = [payments |-> row.payments, invoices |-> row.invoices + 1,
                       notifications |-> row.notifications]
  BY DEF Invoiced, LedgerRow
<1>6. Notified(row) = [payments |-> row.payments, invoices |-> row.invoices,
                       notifications |-> row.notifications + 1]
  BY DEF Notified, LedgerRow
<1>7. \A status \in PaymentStatus : Paid(row, status) \in LedgerRow
  BY <1>1, <1>2, <1>3, <1>4
<1>8. Invoiced(row) \in LedgerRow
  <2>1. row.invoices + 1 \in Nat
    BY <1>1
  <2> QED
    BY <1>1, <1>3, <1>5, <2>1, Zenon
<1>9. Notified(row) \in LedgerRow
  <2>1. row.notifications + 1 \in Nat
    BY <1>1
  <2> QED
    BY <1>1, <1>3, <1>6, <2>1, Zenon
<1> QED
  BY <1>4, <1>5, <1>6, <1>7, <1>8, <1>9, Zenon

\* Which row of the ledger a step writes, and how.
LEMMA LedgerChange ==
  ASSUME SagaInv, SagaTypeOK, [SagaNext]_sagaVars
  PROVE  \/ ledger' = ledger /\ Len(orders') = Len(orders)
         \/ ledger' = Append(ledger, NoRows) /\ Len(orders') = Len(orders) + 1
            /\ \E basket \in Baskets : SubmitOrder(basket)
         \/ /\ Len(orders') = Len(orders)
            /\ \E d \in Dispatchers, e \in Events :
                 \/ /\ Handles(d, e, "InventoryReserved") /\ Emits(e, "PaymentAuthorized")
                    /\ ledger' = [ledger EXCEPT ![subject[e]] = Paid(@, "AUTHORIZED")]
                 \/ /\ Handles(d, e, "InventoryReserved") /\ Emits(e, "PaymentFailed")
                    /\ ledger' = [ledger EXCEPT ![subject[e]] = Paid(@, "FAILED")]
                 \/ /\ Handles(d, e, "PaymentAuthorized") /\ Emits(e, "InvoiceCreated")
                    /\ ledger' = [ledger EXCEPT ![subject[e]] = Invoiced(@)]
                 \/ /\ Handles(d, e, "InvoiceCreated") /\ Emits(e, "NotificationSent")
                    /\ ledger' = [ledger EXCEPT ![subject[e]] = Notified(@)]
<1>1. orders \in Seq(OrderRow) /\ Len(orders) \in Nat
  BY DEF SagaInv, ChainsTyped
<1>2. ASSUME NEW basket \in Baskets, SubmitOrder(basket)
      PROVE  ledger' = Append(ledger, NoRows) /\ Len(orders') = Len(orders) + 1
  <2>1. [status |-> "PENDING", items |-> basket] \in OrderRow
    BY DEF OrderRow, OrderStatus
  <2> QED
    BY <1>1, <1>2, <2>1, AppendRow DEF SubmitOrder
<1>3. ASSUME NEW d \in Dispatchers, CompleteOrder(d) \/ CancelOrder(d)
      PROVE  Len(orders') = Len(orders)
  <2>1. PICK e \in Events, status \in OrderStatus :
          orders' = [orders EXCEPT ![subject[e]] = Decided(@, status)]
    BY <1>3, Projecting DEF Decides, OrderStatus
  <2> QED
    BY <1>1, <2>1
<1>4. ASSUME NEW d \in Dispatchers, CompleteOrder(d) \/ CancelOrder(d) PROVE ledger' = ledger
  BY <1>4 DEF CompleteOrder, CancelOrder, SetStatus
<1>5. ASSUME NEW d \in Dispatchers, AuthorizePayment(d) \/ DeclinePayment(d)
      PROVE  orders' = orders /\
             \E e \in Events :
               \/ /\ Handles(d, e, "InventoryReserved") /\ Emits(e, "PaymentAuthorized")
                  /\ ledger' = [ledger EXCEPT ![subject[e]] = Paid(@, "AUTHORIZED")]
               \/ /\ Handles(d, e, "InventoryReserved") /\ Emits(e, "PaymentFailed")
                  /\ ledger' = [ledger EXCEPT ![subject[e]] = Paid(@, "FAILED")]
  BY <1>5 DEF AuthorizePayment, DeclinePayment, AddPayment, Paid
<1>6. ASSUME NEW d \in Dispatchers, CreateInvoice(d) \/ SendNotification(d)
      PROVE  orders' = orders /\
             \E e \in Events :
               \/ /\ Handles(d, e, "PaymentAuthorized") /\ Emits(e, "InvoiceCreated")
                  /\ ledger' = [ledger EXCEPT ![subject[e]] = Invoiced(@)]
               \/ /\ Handles(d, e, "InvoiceCreated") /\ Emits(e, "NotificationSent")
                  /\ ledger' = [ledger EXCEPT ![subject[e]] = Notified(@)]
  BY <1>6 DEF CreateInvoice, SendNotification, Invoiced, Notified
<1>7. orders' = orders \/ (\E basket \in Baskets : SubmitOrder(basket))
      \/ Len(orders') = Len(orders)
  BY <1>3, Writers
<1> QED
  BY <1>2, <1>5, <1>6, <1>7, Writers

\* The order of an event.
LEMMA SubjectOf ==
  ASSUME SagaInv, NEW e \in Events
  PROVE  subject[e] \in Orders
<1>1. subject \in Seq(Orders) /\ Events = 1 .. Len(subject)
  BY DEF SagaInv, ChainsTyped, Events
<1> QED
  BY <1>1

\* An event stays about its order, and the order asks for what it asked for.
LEMMA ItemsOf ==
  ASSUME SagaInv, [SagaNext]_sagaVars, NEW e \in Events
  PROVE  e \in Events' /\ subject'[e] = subject[e] /\ Items(e)' = Items(e)
<1>1. subject \in Seq(Orders) /\ Len(subject) = Len(outbox) /\ Len(outbox) \in Nat
  BY DEF SagaInv, ChainsTyped
<1>2. e \in Events' /\ subject'[e] = subject[e]
  <2>1. CASE ChainsKept
    BY <2>1 DEF ChainsKept, Events
  <2>2. CASE ChainsGrow
    <3>1. PICK row \in Row, o \in Nat :
            outbox' = Append(outbox, row) /\ subject' = Append(subject, o)
      BY <2>2 DEF ChainsGrow
    <3>2. outbox \in Seq(Row)
      BY DEF SagaInv, TypeOK, TablesTyped
    <3>3. Len(outbox') = Len(outbox) + 1
      BY <3>1, <3>2, AppendRow
    <3>4. subject'[e] = subject[e]
      BY <1>1, <3>1 DEF Events
    <3> QED
      BY <1>1, <3>3, <3>4 DEF Events
  <2> QED
    BY <2>1, <2>2, ChainStep
<1>3. orders'[subject[e]].items = orders[subject[e]].items
  BY SubjectOf, ItemsKept
<1> QED
  BY <1>2, <1>3 DEF Items

\* A dispatcher is in a handler because it was before, or because it begins it now.
LEMMA HandlerBegins ==
  ASSUME SagaInv, DOMAIN loaded = Dispatchers, [SagaNext]_sagaVars,
         NEW d \in Dispatchers, pc'[d] = "handling"
  PROVE  \/ pc'[d] = pc[d] /\ batch'[d] = batch[d] /\ loaded'[d] = loaded[d]
         \/ BeginHandler(d)
<1>1. TypeOK
  BY DEF SagaInv
<1> DEFINE Same == pc'[d] = pc[d] /\ batch'[d] = batch[d] /\ loaded'[d] = loaded[d]
<1>2. ASSUME UNCHANGED <<pc, batch, loaded>> PROVE Same
  BY <1>2
<1>3. ASSUME NEW c \in Dispatchers, DeliveryStep(c) \/ WorkerStep(c) \/ Interrupt(c), c # d,
             loaded'[d] = loaded[d]
      PROVE  Same
  <2>1. DispatcherStep(c) \/ Interrupt(c)
    BY <1>3 DEF DeliveryStep, WorkerStep, DispatcherStep, BeginHandler, ReserveInventory,
         RefuseReservation, AuthorizePayment, DeclinePayment, ReleaseInventory, CreateInvoice,
         SendNotification, CompleteOrder, CancelOrder, SetStatus, Handles
  <2> QED
    BY <1>1, <1>3, <2>1, OthersKept
<1>4. ASSUME NEW c \in Dispatchers, BeginHandler(c), c # d PROVE loaded'[d] = loaded[d]
  BY <1>4 DEF BeginHandler
<1>5. loaded' = loaded \/ \E c \in Dispatchers : BeginHandler(c)
  BY Writers
<1>6. ASSUME WorkerStep(d) PROVE BeginHandler(d)
  <2>1. ASSUME NEW e \in Events, NEW type, Handles(d, e, type) PROVE FALSE
    BY <1>1, <2>1, Handling DEF Goto, TypeOK, ProcessesTyped
  <2> QED
    BY <1>6, <2>1 DEF WorkerStep, ReserveInventory, RefuseReservation, AuthorizePayment,
         DeclinePayment, ReleaseInventory, CreateInvoice, SendNotification, CompleteOrder,
         CancelOrder, SetStatus
<1>7. ~DeliveryStep(d)
  <2>1. ~(PublishEvent(d) \/ ScheduleRetry(d) \/ MoveToDeadLetter(d))
    BY <1>1, AdvanceEnds DEF PublishEvent, ScheduleRetry, MoveToDeadLetter, EndsTurn
  <2>2. ~(Fetch(d) \/ RejectUnsupported(d) \/ ConnectionFails(d) \/ SkipProcessed(d)
          \/ HandlerRaises(d) \/ FlushRefused(d) \/ RecordFailure(d))
    BY <1>1 DEF Fetch, RejectUnsupported, ConnectionFails, SkipProcessed, HandlerRaises,
         FlushRefused, Abandon, RecordFailure, Goto, TypeOK, ProcessesTyped
  <2> QED
    BY <2>1, <2>2 DEF DeliveryStep
<1>8. ~Interrupt(d)
  BY <1>1 DEF Interrupt, Abandon, Goto, TypeOK, ProcessesTyped
<1>9. \/ \E sku \in Skus : CreateInventoryItem(sku)
      \/ \E basket \in Baskets : SubmitOrder(basket)
      \/ \E c \in Dispatchers : DeliveryStep(c) \/ WorkerStep(c) \/ Interrupt(c)
      \/ \E o \in Operators : ReplayEvent(o)
      \/ UNCHANGED <<pc, batch, loaded>>
  BY DEF SagaNext, OutsideStep, BackoffElapses, ReplayRead, ReplayAbandoned, businessVars,
         sagaVars, vars
<1>10. ASSUME \/ \E sku \in Skus : CreateInventoryItem(sku)
              \/ \E basket \in Baskets : SubmitOrder(basket)
              \/ \E o \in Operators : ReplayEvent(o)
       PROVE  UNCHANGED <<pc, batch, loaded>>
  BY <1>10 DEF CreateInventoryItem, SubmitOrder, Submit, ReplayEvent, ReplayCommit, vars
<1>11. ASSUME NEW c \in Dispatchers, DeliveryStep(c) \/ Interrupt(c) PROVE loaded'[d] = loaded[d]
  <2>1. CASE DeliveryStep(c)
    BY <2>1 DEF DeliveryStep, businessVars
  <2>2. CASE Interrupt(c)
    BY <1>5, <2>2 DEF BeginHandler, StartHandler, Interrupt
  <2> QED
    BY <1>11, <2>1, <2>2
<1>12. ASSUME NEW c \in Dispatchers, WorkerStep(c), c # d PROVE loaded'[d] = loaded[d]
  <2>1. CASE BeginHandler(c)
    BY <1>4, <1>12, <2>1
  <2>2. ASSUME NEW e \in Events, NEW type, Handles(c, e, type) PROVE loaded' = loaded
    BY <2>2 DEF Handles
  <2> QED
    BY <1>12, <2>1, <2>2 DEF WorkerStep, ReserveInventory, RefuseReservation, AuthorizePayment,
         DeclinePayment, ReleaseInventory, CreateInvoice, SendNotification, CompleteOrder,
         CancelOrder, SetStatus
<1> HIDE DEF Same
<1> QED
  BY <1>2, <1>3, <1>6, <1>7, <1>8, <1>9, <1>10, <1>11, <1>12 DEF Same

\* The ledger has a row for every order.
LEMMA LedgerTyped ==
  ASSUME SagaInv, SagaTypeOK, [SagaNext]_sagaVars
  PROVE  ledger' \in Seq(LedgerRow) /\ Len(ledger') = Len(orders')
<1>1. /\ ledger \in Seq(LedgerRow) /\ Len(ledger) = Len(orders) /\ Len(orders) \in Nat
      /\ Orders = 1 .. Len(ledger)
  BY DEF SagaTypeOK, LedgerRow, Orders
<1>2. \A e \in Events : subject[e] \in 1 .. Len(ledger)
  <2>1. subject \in Seq(Orders) /\ Events = 1 .. Len(subject)
    BY DEF SagaInv, ChainsTyped, Events
  <2> QED
    BY <1>1, <2>1
<1>3. NoRows \in LedgerRow
  <2>1. <<>> \in Seq(PaymentStatus)
    OBVIOUS
  <2> QED
    BY <2>1 DEF NoRows, LedgerRow
<1>4. \A o \in 1 .. Len(ledger) :
        /\ Paid(ledger[o], "AUTHORIZED") \in LedgerRow /\ Paid(ledger[o], "FAILED") \in LedgerRow
        /\ Invoiced(ledger[o]) \in LedgerRow /\ Notified(ledger[o]) \in LedgerRow
  <2>1. \A o \in 1 .. Len(ledger) : ledger[o] \in LedgerRow
    BY <1>1
  <2>2. "AUTHORIZED" \in PaymentStatus /\ "FAILED" \in PaymentStatus
    BY DEF PaymentStatus
  <2> QED
    BY <2>1, <2>2, LedgerRows
<1>5. ASSUME ledger' = Append(ledger, NoRows), Len(orders') = Len(orders) + 1
      PROVE  ledger' \in Seq(LedgerRow) /\ Len(ledger') = Len(orders')
  BY <1>1, <1>3, <1>5, AppendRow
<1>6. ASSUME NEW e \in Events, NEW row \in LedgerRow, Len(orders') = Len(orders),
             ledger' = [ledger EXCEPT ![subject[e]] = row]
      PROVE  ledger' \in Seq(LedgerRow) /\ Len(ledger') = Len(orders')
  <2>1. subject[e] \in 1 .. Len(ledger)
    BY <1>2
  <2> QED
    BY <1>1, <1>6, <2>1, ReplaceRow
<1> QED
  BY <1>1, <1>2, <1>4, <1>5, <1>6, LedgerChange

\* What a handler that moves stock writes: of the items its order asks for it has read
\* the quantities.
MovesStock(d, e, type) ==
  /\ Handles(d, e, type) /\ Listed(loaded[d], Items(e))
  /\ DOMAIN stock' = DOMAIN stock
  /\ \A sku \in DOMAIN stock :
       LET n == Ordered(Items(e), sku)
       IN  /\ n \in Nat
           /\ n = 0 => stock'[sku] = stock[sku]
           /\ n # 0 => /\ sku \in DOMAIN loaded[d]
                       /\ type = "OrderCreated" => stock'[sku] = loaded[d][sku] - n
                       /\ type = "PaymentFailed" => stock'[sku] = loaded[d][sku] + n

\* The reservation and its release move the stock of one order.
LEMMA MovingStock ==
  ASSUME WorkflowInv, NEW d \in Dispatchers, ReserveInventory(d) \/ ReleaseInventory(d)
  PROVE  \E e \in Events :
           \/ /\ MovesStock(d, e, "OrderCreated") /\ Emits(e, "InventoryReserved")
              /\ ReserveInventory(d)
           \/ /\ MovesStock(d, e, "PaymentFailed") /\ Emits(e, "InventoryReleased")
              /\ ReleaseInventory(d)
<1>1. PICK e \in Events :
        \/ /\ Handles(d, e, "OrderCreated") /\ Take(d, Items(e))
           /\ Emits(e, "InventoryReserved") /\ ReserveInventory(d)
        \/ /\ Handles(d, e, "PaymentFailed") /\ GiveBack(d, Items(e))
           /\ Emits(e, "InventoryReleased") /\ ReleaseInventory(d)
  BY DEF ReserveInventory, ReleaseInventory
<1>2. SagaInv /\ LoadedListed
  BY DEF WorkflowInv
<1>3. pc[d] = "handling" /\ Current(d, e) /\ e \in DOMAIN batch[d]
  BY <1>1, <1>2, Handling
<1>4. Listed(loaded[d], Items(e))
  BY <1>2, <1>3 DEF LoadedListed
<1>5. Items(e) \in Baskets
  <2>1. subject \in Seq(Orders) /\ Events = 1 .. Len(subject) /\ orders \in Seq(OrderRow)
    BY <1>2 DEF SagaInv, ChainsTyped, Events
  <2>2. subject[e] \in 1 .. Len(orders)
    BY <2>1 DEF Orders
  <2>3. orders[subject[e]] \in OrderRow
    BY <2>1, <2>2
  <2> QED
    BY <2>3 DEF OrderRow, Items
<1>6. ASSUME NEW sku, Ordered(Items(e), sku) # 0 PROVE sku \in DOMAIN loaded[d]
  <2>1. PICK i \in 1 .. Len(Items(e)) : Items(e)[i].sku = sku
    BY <1>5, <1>6, OrderedNat
  <2> QED
    BY <1>4, <2>1 DEF Listed
<1>7. \A sku : Ordered(Items(e), sku) \in Nat
  BY <1>5, OrderedNat
<1>8. CASE Handles(d, e, "OrderCreated") /\ Take(d, Items(e)) /\ Emits(e, "InventoryReserved")
           /\ ReserveInventory(d)
  <2>1. MovesStock(d, e, "OrderCreated")
    BY <1>4, <1>6, <1>7, <1>8 DEF MovesStock, Take
  <2> QED
    BY <1>8, <2>1
<1>9. CASE Handles(d, e, "PaymentFailed") /\ GiveBack(d, Items(e)) /\ Emits(e, "InventoryReleased")
           /\ ReleaseInventory(d)
  <2>1. MovesStock(d, e, "PaymentFailed")
    BY <1>4, <1>6, <1>7, <1>9 DEF MovesStock, GiveBack
  <2> QED
    BY <1>9, <2>1
<1> QED
  BY <1>1, <1>8, <1>9

\* Quantities stay numbers, and an item stays once it is there.
LEMMA StockTyped ==
  ASSUME WorkflowInv, [SagaNext]_sagaVars
  PROVE  Quantities(stock') /\ DOMAIN stock \subseteq DOMAIN stock'
<1>1. Quantities(stock) /\ \A d \in Dispatchers : Quantities(loaded[d])
  BY DEF WorkflowInv, SagaTypeOK
<1>2. ASSUME NEW sku \in Skus, CreateInventoryItem(sku)
      PROVE  Quantities(stock') /\ DOMAIN stock \subseteq DOMAIN stock'
  <2>1. InitialStock[sku] \in Int
    BY SagaAssumption
  <2> QED
    BY <1>1, <1>2, <2>1 DEF CreateInventoryItem, Quantities
<1>3. ASSUME NEW d \in Dispatchers, ReserveInventory(d) \/ ReleaseInventory(d)
      PROVE  Quantities(stock') /\ DOMAIN stock \subseteq DOMAIN stock'
  <2>1. PICK e \in Events :
          MovesStock(d, e, "OrderCreated") \/ MovesStock(d, e, "PaymentFailed")
    BY <1>3, MovingStock
  <2>2. DOMAIN stock' = DOMAIN stock
    BY <2>1 DEF MovesStock
  <2>3. ASSUME NEW sku \in DOMAIN stock PROVE stock'[sku] \in Int
    <3> DEFINE n == Ordered(Items(e), sku)
    <3>1. /\ n \in Nat
          /\ n = 0 => stock'[sku] = stock[sku]
          /\ n # 0 => /\ sku \in DOMAIN loaded[d]
                      /\ stock'[sku] = loaded[d][sku] - n \/ stock'[sku] = loaded[d][sku] + n
      BY <2>1 DEF MovesStock
    <3> HIDE DEF n
    <3>2. stock[sku] \in Int /\ (sku \in DOMAIN loaded[d] => loaded[d][sku] \in Int)
      BY <1>1 DEF Quantities
    <3> QED
      BY <3>1, <3>2
  <2> QED
    BY <1>1, <2>2, <2>3 DEF Quantities
<1> QED
  BY <1>1, <1>2, <1>3, Writers

\* What the handlers have read stays typed, and a handler that begins has read every
\* item of its order.
LEMMA LoadedTyped ==
  ASSUME WorkflowInv, [SagaNext]_sagaVars
  PROVE  /\ DOMAIN loaded' = Dispatchers /\ \A d \in Dispatchers : Quantities(loaded'[d])
         /\ LoadedListed'
<1>1. /\ SagaInv /\ TypeOK /\ LoadedListed /\ Quantities(stock)
      /\ DOMAIN loaded = Dispatchers /\ \A d \in Dispatchers : Quantities(loaded[d])
      /\ \A o \in Orders : Listed(stock, orders[o].items)
  BY DEF WorkflowInv, SagaTypeOK, SagaInv
<1>2. [Next]_vars /\ TypeOK' /\ RowsKept
  BY <1>1, SagaStep, NextTyped
<1>3. DOMAIN loaded' = Dispatchers /\ \A d \in Dispatchers : Quantities(loaded'[d])
  BY <1>1, Writers DEF BeginHandler
<1>4. ASSUME NEW d \in Dispatchers, NEW e \in DOMAIN batch'[d],
             pc'[d] = "handling", Current(d, e)'
      PROVE  Listed(loaded'[d], Items(e)')
  <2>1. e \in Events'
    BY <1>2 DEF TypeOK, ProcessesTyped, BatchTyped
  <2>2. CASE pc'[d] = pc[d] /\ batch'[d] = batch[d] /\ loaded'[d] = loaded[d]
    <3>1. e \in DOMAIN batch[d] /\ Current(d, e) /\ pc[d] = "handling" /\ e \in Events
      BY <1>1, <1>4, <2>2 DEF Current, TypeOK, ProcessesTyped, BatchTyped
    <3>2. Listed(loaded[d], Items(e))
      BY <1>1, <3>1 DEF LoadedListed
    <3>3. Items(e)' = Items(e)
      BY <1>1, <3>1, ItemsOf
    <3> QED
      BY <2>2, <3>2, <3>3
  <2>3. CASE BeginHandler(d)
    <3>1. loaded'[d] = stock /\ outbox' = outbox /\ orders' = orders /\ subject' = subject
      BY <1>1, <2>3 DEF BeginHandler, StartHandler
    <3>2. subject[e] \in Orders
      BY <1>1, <2>1, <3>1, SubjectOf DEF Events
    <3>3. Items(e)' = orders[subject[e]].items
      BY <3>1 DEF Items
    <3> QED
      BY <1>1, <3>1, <3>2, <3>3
  <2> QED
    BY <1>1, <1>4, <2>2, <2>3, HandlerBegins
<1>5. LoadedListed'
  BY <1>4 DEF LoadedListed
<1> QED
  BY <1>3, <1>5

\* Every order, the new one too, asks for items that are on the shelf.
LEMMA ItemsListed ==
  ASSUME WorkflowInv, [SagaNext]_sagaVars
  PROVE  \A o \in Orders' : Listed(stock', orders'[o].items)
<1>1. SagaInv /\ \A o \in Orders : Listed(stock, orders[o].items)
  BY DEF WorkflowInv, SagaTypeOK
<1>2. DOMAIN stock \subseteq DOMAIN stock'
  BY StockTyped
<1>3. ASSUME NEW o \in Orders' PROVE Listed(stock, orders'[o].items)
  <2>1. CASE o \in Orders
    <3>1. orders'[o].items = orders[o].items
      BY <1>1, <2>1, ItemsKept
    <3> QED
      BY <1>1, <2>1, <3>1
  <2>2. CASE o \notin Orders
    BY <1>1, <1>3, <2>2, ItemsKept
  <2> QED
    BY <2>1, <2>2
<1> QED
  BY <1>2, <1>3 DEF Listed

\* The invariant of the tables holds at the start and every step keeps it.
LEMMA WorkflowInductive ==
  /\ SagaInit => WorkflowInv
  /\ WorkflowInv /\ [SagaNext]_sagaVars => WorkflowInv'
<1>1. ASSUME SagaInit PROVE WorkflowInv
  <2>1. SagaInv /\ TypeOK
    BY <1>1, SagaInductive DEF SagaInv
  <2>2. /\ stock = <<>> /\ orders = <<>> /\ ledger = <<>> /\ subject = <<>> /\ outbox = <<>>
        /\ loaded = [d \in Dispatchers |-> <<>>] /\ pc = [d \in Dispatchers |-> "idle"]
    BY <1>1 DEF SagaInit, Init
  <2>3. Quantities(stock) /\ \A d \in Dispatchers : Quantities(loaded[d])
    BY <2>2 DEF Quantities
  <2>4. ledger \in Seq(LedgerRow) /\ Len(ledger) = Len(orders)
    BY <2>2
  <2>5. \A o \in Orders : Listed(stock, orders[o].items)
    BY <2>2 DEF Orders
  <2>6. DOMAIN loaded = Dispatchers /\ LoadedListed
    BY <2>2 DEF LoadedListed
  <2> QED
    BY <2>1, <2>3, <2>4, <2>5, <2>6
    DEF WorkflowInv, SagaTypeOK, SagaInv, ChainsTyped, LedgerRow, OrderRow
<1>2. ASSUME WorkflowInv, [SagaNext]_sagaVars PROVE WorkflowInv'
  <2>1. SagaInv /\ SagaTypeOK
    BY <1>2 DEF WorkflowInv
  <2>2. SagaInv'
    BY <1>2, <2>1, SagaInductive
  <2>3. ledger' \in Seq(LedgerRow) /\ Len(ledger') = Len(orders')
    BY <1>2, <2>1, LedgerTyped
  <2>4. Quantities(stock')
    BY <1>2, StockTyped
  <2>5. /\ DOMAIN loaded' = Dispatchers /\ \A d \in Dispatchers : Quantities(loaded'[d])
        /\ LoadedListed'
    BY <1>2, LoadedTyped
  <2>6. \A o \in Orders' : Listed(stock', orders'[o].items)
    BY <1>2, ItemsListed
  <2>7. SagaTypeOK'
    BY <2>2, <2>3, <2>4, <2>5, <2>6 DEF SagaTypeOK, SagaInv, ChainsTyped, LedgerRow, OrderRow
  <2> QED
    BY <2>2, <2>5, <2>7 DEF WorkflowInv
<1> QED
  BY <1>1, <1>2

\* The invariant of the tables.
THEOREM WorkflowInvariant == SagaSpec => []WorkflowInv
  BY WorkflowInductive, PTL DEF SagaSpec

\* Any number of dispatchers: the tables of the order workflow stay well-typed, every
\* event is about an order that exists, and every line about an item that exists.
THEOREM SagaTypeCorrect == SagaSpec => []SagaTypeOK
<1>1. WorkflowInv => SagaTypeOK
  BY DEF WorkflowInv
<1> QED
  BY <1>1, WorkflowInvariant, PTL

-----------------------------------------------------------------------------
(* The events of one order                                                 *)

\* Which event follows which.
LeadsTo(s, t) ==
  \/ s = "OrderCreated" /\ t \in {"InventoryReserved", "InventoryReservationFailed"}
  \/ s = "InventoryReserved" /\ t \in {"PaymentAuthorized", "PaymentFailed"}
  \/ s = "PaymentFailed" /\ t = "InventoryReleased"
  \/ s = "PaymentAuthorized" /\ t = "InvoiceCreated"
  \/ s = "InvoiceCreated" /\ t = "NotificationSent"

\* A chain begins with OrderCreated and goes on in this way.
TypesLead ==
  \A e \in Events :
    /\ outbox[e].cause = 0 => outbox[e].type = "OrderCreated"
    /\ outbox[e].cause # 0 =>
         outbox[e].cause \in Events /\ LeadsTo(outbox[outbox[e].cause].type, outbox[e].type)

\* Two events of one type about one order tell the same fact.
OneFactPerType ==
  \A e, f \in Events :
    subject[e] = subject[f] /\ outbox[e].type = outbox[f].type
      => outbox[e].origin = outbox[f].origin

\* The payment of an order is authorised or declined.
OneBranch ==
  \A o \in Orders : ~(Happened(o, "PaymentAuthorized") /\ Happened(o, "PaymentFailed"))

\* How the new event n came to be: with a new order, as a copy of f, or as the follow-up
\* of e.
Starts(n) ==
  /\ outbox'[n].type = "OrderCreated" /\ outbox'[n].cause = 0
  /\ subject'[n] \notin Orders

CopiesEvent(n, f) ==
  /\ outbox'[n].type = outbox[f].type /\ outbox'[n].cause = outbox[f].cause
  /\ outbox'[n].origin = outbox[f].origin /\ subject'[n] = subject[f]

\* What the handler of e that emits out does to the ledger and to the stock.
Effect(e, out) ==
  /\ orders' = orders
  /\ \/ /\ out \in {"InventoryReserved", "InventoryReleased", "InventoryReservationFailed"}
        /\ ledger' = ledger
     \/ /\ out = "PaymentAuthorized"
        /\ ledger' = [ledger EXCEPT ![subject[e]] = Paid(@, "AUTHORIZED")]
     \/ /\ out = "PaymentFailed"
        /\ ledger' = [ledger EXCEPT ![subject[e]] = Paid(@, "FAILED")]
     \/ /\ out = "InvoiceCreated"
        /\ ledger' = [ledger EXCEPT ![subject[e]] = Invoiced(@)]
     \/ /\ out = "NotificationSent"
        /\ ledger' = [ledger EXCEPT ![subject[e]] = Notified(@)]
  /\ \/ out = "InventoryReserved" /\ \E d \in Dispatchers : ReserveInventory(d)
     \/ out = "InventoryReleased" /\ \E d \in Dispatchers : ReleaseInventory(d)
     \/ out \notin {"InventoryReserved", "InventoryReleased"} /\ stock' = stock

Follows(n, e) ==
  /\ \E d \in Dispatchers : Handles(d, e, outbox[e].type)
  /\ Effect(e, outbox'[n].type)
  /\ LeadsTo(outbox[e].type, outbox'[n].type)
  /\ outbox'[n].cause = e /\ subject'[n] = subject[e]

\* What is said of an event stays so.
LEMMA OldEvents ==
  ASSUME SagaInv, [SagaNext]_sagaVars, NEW e \in Events
  PROVE  /\ e \in Events' /\ subject'[e] = subject[e] /\ outbox'[e].type = outbox[e].type
         /\ outbox'[e].cause = outbox[e].cause /\ outbox'[e].origin = outbox[e].origin
<1>1. RowsKept
  BY SagaStep, NextTyped DEF SagaInv
<1> QED
  BY <1>1, ItemsOf DEF RowsKept

\* A worker's step emits the follow-up of its event or no event.
LEMMA Emitting ==
  ASSUME SagaInv, NEW d \in Dispatchers, WorkerStep(d)
  PROVE  \/ Len(outbox') = Len(outbox)
         \/ \E e \in Events : \E out :
              /\ Handles(d, e, outbox[e].type) /\ Emits(e, out)
              /\ LeadsTo(outbox[e].type, out) /\ Effect(e, out)
<1>1. CASE BeginHandler(d)
  BY <1>1 DEF BeginHandler, StartHandler
<1>2. CASE CompleteOrder(d) \/ CancelOrder(d)
  BY <1>2 DEF CompleteOrder, CancelOrder, SetStatus
<1>3. CASE ReserveInventory(d) \/ RefuseReservation(d)
  BY <1>3 DEF ReserveInventory, RefuseReservation, LeadsTo, Handles, Effect
<1>4. CASE AuthorizePayment(d)
  <2>1. PICK e \in Events :
          /\ Handles(d, e, "InventoryReserved") /\ Emits(e, "PaymentAuthorized")
          /\ ledger' = [ledger EXCEPT ![subject[e]] = Paid(@, "AUTHORIZED")]
          /\ UNCHANGED <<stock, orders>>
    BY <1>4 DEF AuthorizePayment, AddPayment, Paid
  <2>2. outbox[e].type = "InventoryReserved" /\ orders' = orders /\ stock' = stock
    BY <2>1 DEF Handles
  <2>3. LeadsTo("InventoryReserved", "PaymentAuthorized")
    BY DEF LeadsTo
  <2>4. Effect(e, "PaymentAuthorized")
    BY <2>1, <2>2 DEF Effect
  <2> QED
    BY <2>1, <2>2, <2>3, <2>4
<1>5. CASE DeclinePayment(d)
  <2>1. PICK e \in Events :
          /\ Handles(d, e, "InventoryReserved") /\ Emits(e, "PaymentFailed")
          /\ ledger' = [ledger EXCEPT ![subject[e]] = Paid(@, "FAILED")]
          /\ UNCHANGED <<stock, orders>>
    BY <1>5 DEF DeclinePayment, AddPayment, Paid
  <2>2. outbox[e].type = "InventoryReserved" /\ orders' = orders /\ stock' = stock
    BY <2>1 DEF Handles
  <2>3. LeadsTo("InventoryReserved", "PaymentFailed")
    BY DEF LeadsTo
  <2>4. Effect(e, "PaymentFailed")
    BY <2>1, <2>2 DEF Effect
  <2> QED
    BY <2>1, <2>2, <2>3, <2>4
<1>6. CASE ReleaseInventory(d)
  BY <1>6 DEF ReleaseInventory, LeadsTo, Handles, Effect
<1>7. CASE CreateInvoice(d)
  <2>1. PICK e \in Events :
          /\ Handles(d, e, "PaymentAuthorized") /\ Emits(e, "InvoiceCreated")
          /\ ledger' = [ledger EXCEPT ![subject[e]] = Invoiced(@)]
          /\ UNCHANGED <<stock, orders>>
    BY <1>7 DEF CreateInvoice, Invoiced
  <2>2. outbox[e].type = "PaymentAuthorized" /\ orders' = orders /\ stock' = stock
    BY <2>1 DEF Handles
  <2>3. LeadsTo("PaymentAuthorized", "InvoiceCreated")
    BY DEF LeadsTo
  <2>4. Effect(e, "InvoiceCreated")
    BY <2>1, <2>2 DEF Effect
  <2> QED
    BY <2>1, <2>2, <2>3, <2>4
<1>8. CASE SendNotification(d)
  <2>1. PICK e \in Events :
          /\ Handles(d, e, "InvoiceCreated") /\ Emits(e, "NotificationSent")
          /\ ledger' = [ledger EXCEPT ![subject[e]] = Notified(@)]
          /\ UNCHANGED <<stock, orders>>
    BY <1>8 DEF SendNotification, Notified
  <2>2. outbox[e].type = "InvoiceCreated" /\ orders' = orders /\ stock' = stock
    BY <2>1 DEF Handles
  <2>3. LeadsTo("InvoiceCreated", "NotificationSent")
    BY DEF LeadsTo
  <2>4. Effect(e, "NotificationSent")
    BY <2>1, <2>2 DEF Effect
  <2> QED
    BY <2>1, <2>2, <2>3, <2>4
<1> QED
  BY <1>1, <1>2, <1>3, <1>4, <1>5, <1>6, <1>7, <1>8 DEF WorkerStep

\* Where a new event comes from.
LEMMA NewEvent ==
  ASSUME SagaInv, [SagaNext]_sagaVars, NEW n \in Events' \ Events
  PROVE  \/ Starts(n)
         \/ \E f \in Events : CopiesEvent(n, f)
         \/ \E e \in Events : Follows(n, e)
<1>1. /\ TypeOK /\ outbox \in Seq(Row) /\ Len(outbox) \in Nat
      /\ subject \in Seq(Orders) /\ Len(subject) = Len(outbox)
      /\ Events = 1 .. Len(outbox)
  <2>1. TypeOK /\ outbox \in Seq(Row) /\ subject \in Seq(Orders) /\ Len(subject) = Len(outbox)
    BY DEF SagaInv, TypeOK, TablesTyped, ChainsTyped
  <2> QED
    BY <2>1 DEF Events
<1>2. Len(outbox') # Len(outbox)
  BY DEF Events
<1> DEFINE m == Len(outbox) + 1
<1>3. ASSUME NEW row \in Row, InsertRow(row), NEW o, subject' = Append(subject, o)
      PROVE  n = m /\ outbox'[n] = row /\ subject'[n] = o
  <2>1. Events' = Events \cup {m} /\ outbox'[m] = row
    BY <1>1, <1>3, Inserted
  <2>2. subject'[m] = o
    BY <1>1, <1>3
  <2> QED
    BY <2>1, <2>2
<1>4. ASSUME NEW basket \in Baskets, SubmitOrder(basket) PROVE Starts(n)
  <2> DEFINE row == NewRow("OrderCreated", 0, m)
  <2>1. row \in Row
    <3>1. "OrderCreated" \in SeedTypes
      BY SagaAssumption
    <3> QED
      BY <1>1, <3>1, Inserting
  <2>2. row.type = "OrderCreated" /\ row.cause = 0
    BY DEF NewRow
  <2>3. InsertRow(row) /\ subject' = Append(subject, Len(orders) + 1)
    BY <1>4 DEF SubmitOrder, Submit
  <2> HIDE DEF row
  <2>4. outbox'[n] = row /\ subject'[n] = Len(orders) + 1
    BY <1>3, <2>1, <2>3
  <2>5. Len(orders) + 1 \notin Orders
    BY DEF SagaInv, ChainsTyped, Orders
  <2> QED
    BY <2>2, <2>4, <2>5 DEF Starts
<1>5. ASSUME NEW o \in Operators, ReplayEvent(o) PROVE \E f \in Events : CopiesEvent(n, f)
  <2> DEFINE f == deadLetters[replaying[o]].event
             row == NewRow(outbox[f].type, outbox[f].cause, outbox[f].origin)
  <2>1. ReplayCommit(o) /\ subject' = Append(subject, subject[f])
    BY <1>5 DEF ReplayEvent
  <2>2. f \in Events /\ InsertRow(row) /\ row \in Row
    BY <1>1, <2>1, Inserting
  <2>3. row.type = outbox[f].type /\ row.cause = outbox[f].cause /\ row.origin = outbox[f].origin
    BY DEF NewRow
  <2> HIDE DEF row, f
  <2>4. outbox'[n] = row /\ subject'[n] = subject[f]
    BY <1>3, <2>1, <2>2
  <2> QED
    BY <2>2, <2>3, <2>4 DEF CopiesEvent
<1>6. ASSUME NEW d \in Dispatchers, WorkerStep(d) PROVE \E e \in Events : Follows(n, e)
  <2>1. PICK e \in Events : \E out :
          /\ Handles(d, e, outbox[e].type) /\ Emits(e, out)
          /\ LeadsTo(outbox[e].type, out) /\ Effect(e, out)
    BY <1>2, <1>6, Emitting
  <2>2. PICK out :
          /\ Handles(d, e, outbox[e].type) /\ Emits(e, out)
          /\ LeadsTo(outbox[e].type, out) /\ Effect(e, out)
    BY <2>1
  <2>3. m \in Nat
    BY <1>1
  <2> HIDE DEF m
  <2>4. /\ Events' = Events \cup {m} /\ outbox'[m].type = out /\ outbox'[m].cause = e
        /\ subject'[m] = subject[e]
    BY <2>2, <2>3, FollowingUp DEF m
  <2>5. n = m
    BY <2>4
  <2> QED
    BY <2>2, <2>4, <2>5 DEF Follows
<1>7. ASSUME ChainsKept PROVE FALSE
  BY <1>2, <1>7 DEF ChainsKept
<1> QED
  BY <1>4, <1>5, <1>6, <1>7, ItemKeeps, DeliveryKeeps, OutsideKeeps DEF SagaNext

\* Where a type comes from: the chain has one way to each.
LEMMA LeadsBack ==
  ASSUME NEW r, NEW s, NEW t, LeadsTo(r, t), LeadsTo(s, t)
  PROVE  r = s /\ t # "OrderCreated" /\ r # t
  BY DEF LeadsTo

\* What the proofs about the events of an order rest on.
ChainInv == TypesLead /\ OneFactPerType /\ OneBranch

\* The facts behind it: those of the tables, and that a fact is applied once.
ChainFacts == WorkflowInv /\ OneFollowUp /\ FactAppliedOnce

\* An event is handled before anything has followed it: another follow-up would be
\* due to an event of the same type about the same order, which tells the same fact,
\* and that would be applied twice.
LEMMA FirstFollowUp ==
  ASSUME ChainFacts, ChainFacts', ChainInv, [SagaNext]_sagaVars,
         NEW d \in Dispatchers, NEW e \in Events, NEW type, Handles(d, e, type)
  PROVE  \A g \in Events : subject[g] = subject[e] => ~LeadsTo(type, outbox[g].type)
<1> SUFFICES ASSUME NEW g \in Events, subject[g] = subject[e], LeadsTo(type, outbox[g].type)
             PROVE  FALSE
  OBVIOUS
<1>1. /\ SagaInv /\ TypeOK /\ OneFollowUp /\ FactAppliedOnce' /\ SameOrder
      /\ TypesLead /\ OneFactPerType
  BY DEF ChainFacts, ChainInv, WorkflowInv, SagaInv
<1>2. /\ outbox[e].type = type /\ ~Applied(e) /\ Registered(e)
      /\ inbox' = inbox \cup {InboxKey(e)}
  BY <1>1, Handling
<1>3. outbox[g].cause # 0
  BY <1>1, LeadsBack DEF TypesLead, LeadsTo
<1>4. PICK c \in Events : c = outbox[g].cause
  BY <1>1, <1>3 DEF TypesLead
<1>5. outbox[c].type = outbox[e].type
  <2>1. LeadsTo(outbox[c].type, outbox[g].type)
    BY <1>1, <1>3, <1>4 DEF TypesLead
  <2> QED
    BY <1>2, <2>1, LeadsBack
<1>6. subject[c] = subject[e]
  BY <1>1, <1>3, <1>4 DEF SameOrder
<1>7. outbox[c].origin = outbox[e].origin
  BY <1>1, <1>4, <1>5, <1>6 DEF OneFactPerType
<1>8. Applied(c)
  BY <1>1, <1>3, <1>4 DEF OneFollowUp
<1>9. c # e
  BY <1>2, <1>8
<1>10. /\ c \in Events' /\ e \in Events' /\ outbox'[c].origin = outbox'[e].origin
       /\ outbox'[c].type = outbox[c].type /\ outbox'[e].type = outbox[e].type
  BY <1>1, <1>4, <1>7, OldEvents
<1>11. Applied(c)' /\ Applied(e)'
  BY <1>2, <1>8, <1>10 DEF Applied, Registered, HasProcessed, InboxKey
<1> QED
  BY <1>1, <1>9, <1>10, <1>11 DEF FactAppliedOnce

\* Something happened to an order in a step: before, or a new event says so.
LEMMA Happening ==
  ASSUME SagaInv, [SagaNext]_sagaVars, NEW o, NEW type
  PROVE  /\ Happened(o, type) => Happened(o, type)'
         /\ Happened(o, type)' =>
              \/ Happened(o, type)
              \/ \E n \in Events' \ Events : subject'[n] = o /\ outbox'[n].type = type
<1>1. ASSUME Happened(o, type) PROVE Happened(o, type)'
  <2>1. PICK e \in Events : subject[e] = o /\ outbox[e].type = type
    BY <1>1 DEF Happened
  <2>2. e \in Events' /\ subject'[e] = o /\ outbox'[e].type = type
    BY <2>1, OldEvents
  <2> QED
    BY <2>2 DEF Happened
<1>2. ASSUME Happened(o, type)', ~Happened(o, type)
      PROVE  \E n \in Events' \ Events : subject'[n] = o /\ outbox'[n].type = type
  <2>1. PICK e \in Events' : subject'[e] = o /\ outbox'[e].type = type
    BY <1>2 DEF Happened
  <2>2. e \notin Events
    BY <1>2, <2>1, OldEvents DEF Happened
  <2> QED
    BY <2>1, <2>2
<1> QED
  BY <1>1, <1>2

\* What happens in a step that was not so before: an order is created, or a handler's
\* follow-up is recorded.
LEMMA Happens ==
  ASSUME SagaInv, [SagaNext]_sagaVars, NEW o, NEW type,
         ~Happened(o, type), Happened(o, type)'
  PROVE  \/ type = "OrderCreated" /\ o \notin Orders
         \/ \E d \in Dispatchers, e \in Events :
              /\ Handles(d, e, outbox[e].type) /\ LeadsTo(outbox[e].type, type)
              /\ subject[e] = o
<1>1. PICK n \in Events' \ Events : subject'[n] = o /\ outbox'[n].type = type
  BY Happening
<1>2. CASE Starts(n)
  BY <1>1, <1>2 DEF Starts
<1>3. ASSUME NEW f \in Events, CopiesEvent(n, f) PROVE FALSE
  BY <1>1, <1>3 DEF CopiesEvent, Happened
<1>4. ASSUME NEW e \in Events, Follows(n, e)
      PROVE  \E d \in Dispatchers :
               /\ Handles(d, e, outbox[e].type) /\ LeadsTo(outbox[e].type, type)
               /\ subject[e] = o
  BY <1>1, <1>4 DEF Follows
<1> QED
  BY <1>2, <1>3, <1>4, NewEvent

\* The chain leads on, event by event.
LEMMA TypesLeadStep ==
  ASSUME SagaInv, TypesLead, [SagaNext]_sagaVars
  PROVE  TypesLead'
<1>1. ASSUME NEW e \in Events
      PROVE  /\ outbox'[e].cause = 0 => outbox'[e].type = "OrderCreated"
             /\ outbox'[e].cause # 0 =>
                  outbox'[e].cause \in Events'
                  /\ LeadsTo(outbox'[outbox'[e].cause].type, outbox'[e].type)
  <2>1. outbox'[e].type = outbox[e].type /\ outbox'[e].cause = outbox[e].cause
    BY OldEvents
  <2>2. CASE outbox[e].cause = 0
    BY <2>1, <2>2 DEF TypesLead
  <2>3. CASE outbox[e].cause # 0
    <3>1. outbox[e].cause \in Events /\ LeadsTo(outbox[outbox[e].cause].type, outbox[e].type)
      BY <2>3 DEF TypesLead
    <3>2. /\ outbox[e].cause \in Events'
          /\ outbox'[outbox[e].cause].type = outbox[outbox[e].cause].type
      BY <3>1, OldEvents
    <3> QED
      BY <2>1, <2>3, <3>1, <3>2
  <2> QED
    BY <2>2, <2>3
<1>2. ASSUME NEW n \in Events' \ Events
      PROVE  /\ outbox'[n].cause = 0 => outbox'[n].type = "OrderCreated"
             /\ outbox'[n].cause # 0 =>
                  outbox'[n].cause \in Events'
                  /\ LeadsTo(outbox'[outbox'[n].cause].type, outbox'[n].type)
  <2>1. CASE Starts(n)
    BY <2>1 DEF Starts
  <2>2. ASSUME NEW f \in Events, CopiesEvent(n, f)
        PROVE  /\ outbox'[n].cause = outbox'[f].cause /\ outbox'[n].type = outbox'[f].type
    BY <2>2, OldEvents DEF CopiesEvent
  <2>3. ASSUME NEW e \in Events, Follows(n, e)
        PROVE  /\ outbox'[n].cause # 0 /\ outbox'[n].cause \in Events'
               /\ LeadsTo(outbox'[outbox'[n].cause].type, outbox'[n].type)
    <3>1. e \in Events' /\ outbox'[e].type = outbox[e].type
      BY OldEvents
    <3>2. e # 0
      BY DEF Events
    <3> QED
      BY <2>3, <3>1, <3>2 DEF Follows
  <2> QED
    BY <1>1, <2>1, <2>2, <2>3, NewEvent
<1> QED
  BY <1>1, <1>2 DEF TypesLead

\* A new event tells a fact that is new or its own.
LEMMA OneFactStep ==
  ASSUME ChainFacts, ChainFacts', ChainInv, [SagaNext]_sagaVars
  PROVE  OneFactPerType'
<1>1. SagaInv /\ TypeOK /\ OneFactPerType
  BY DEF ChainFacts, ChainInv, WorkflowInv, SagaInv
<1>2. ASSUME NEW e \in Events, NEW f \in Events,
             subject'[e] = subject'[f], outbox'[e].type = outbox'[f].type
      PROVE  outbox'[e].origin = outbox'[f].origin
  <2>1. /\ subject[e] = subject[f] /\ outbox[e].type = outbox[f].type
        /\ outbox'[e].origin = outbox[e].origin /\ outbox'[f].origin = outbox[f].origin
    BY <1>1, <1>2, OldEvents
  <2> QED
    BY <1>1, <2>1 DEF OneFactPerType
<1>3. ASSUME NEW n \in Events' \ Events, NEW f \in Events,
             subject'[n] = subject'[f], outbox'[n].type = outbox'[f].type
      PROVE  outbox'[n].origin = outbox'[f].origin
  <2>1. subject'[n] = subject[f] /\ outbox'[n].type = outbox[f].type
    BY <1>1, <1>3, OldEvents
  <2>2. ~Starts(n)
    BY <1>1, <2>1, SubjectOf DEF Starts
  <2>3. ASSUME NEW g \in Events, CopiesEvent(n, g) PROVE outbox'[n].origin = outbox'[f].origin
    <3>1. subject'[g] = subject'[f] /\ outbox'[g].type = outbox'[f].type
          /\ outbox'[n].origin = outbox'[g].origin
      BY <1>1, <1>3, <2>3, OldEvents DEF CopiesEvent
    <3> QED
      BY <1>2, <3>1
  <2>4. ASSUME NEW e \in Events, Follows(n, e) PROVE FALSE
    BY <2>1, <2>4, FirstFollowUp DEF Follows
  <2> QED
    BY <1>1, <2>2, <2>3, <2>4, NewEvent
<1>4. ASSUME NEW e \in Events' \ Events, NEW f \in Events' \ Events PROVE e = f
  <2>1. [Next]_vars
    BY SagaStep
  <2> QED
    BY <1>1, <2>1, OneNewRow
<1> QED
  BY <1>2, <1>3, <1>4 DEF OneFactPerType

\* One payment branch only.
LEMMA OneBranchStep ==
  ASSUME ChainFacts, ChainFacts', ChainInv, [SagaNext]_sagaVars
  PROVE  OneBranch'
<1>1. SagaInv /\ TypeOK /\ OneBranch
  BY DEF ChainFacts, ChainInv, WorkflowInv, SagaInv
<1>2. ASSUME NEW o, NEW s, NEW t,
             {s, t} = {"PaymentAuthorized", "PaymentFailed"},
             ~Happened(o, s), Happened(o, s)'
      PROVE  ~Happened(o, t)
  <2>1. PICK d \in Dispatchers, e \in Events :
          /\ Handles(d, e, outbox[e].type) /\ LeadsTo(outbox[e].type, s)
          /\ subject[e] = o
    BY <1>1, <1>2, Happens
  <2>2. LeadsTo(outbox[e].type, t)
    BY <1>2, <2>1 DEF LeadsTo
  <2> QED
    BY <2>1, <2>2, FirstFollowUp DEF Happened
<1>3. ASSUME NEW o, ~Happened(o, "PaymentAuthorized"), Happened(o, "PaymentAuthorized")',
             ~Happened(o, "PaymentFailed"), Happened(o, "PaymentFailed")'
      PROVE  FALSE
  <2>1. PICK m \in Events' \ Events : outbox'[m].type = "PaymentAuthorized"
    BY <1>1, <1>3, Happening
  <2>2. PICK n \in Events' \ Events : outbox'[n].type = "PaymentFailed"
    BY <1>1, <1>3, Happening
  <2>3. m = n
    BY <1>1, SagaStep, OneNewRow
  <2> QED
    BY <2>1, <2>2, <2>3
<1>4. ASSUME NEW o \in Orders', Happened(o, "PaymentAuthorized"), Happened(o, "PaymentFailed")
      PROVE  FALSE
  <2>1. o \in Orders
    BY <1>1, <1>4, SubjectOf DEF Happened
  <2> QED
    BY <1>1, <1>4, <2>1 DEF OneBranch
<1>5. ASSUME NEW o \in Orders', Happened(o, "PaymentAuthorized")', Happened(o, "PaymentFailed")'
      PROVE  FALSE
  BY <1>2, <1>3, <1>4, <1>5
<1> QED
  BY <1>5 DEF OneBranch

\* The facts about the events of an order hold in every state.
LEMMA ChainInductive ==
  /\ SagaInit => ChainInv
  /\ ChainInv /\ ChainFacts /\ ChainFacts' /\ [SagaNext]_sagaVars => ChainInv'
<1>1. SagaInit => ChainInv
  BY DEF SagaInit, Init, ChainInv, TypesLead, OneFactPerType, OneBranch, Events, Orders
<1>2. ASSUME ChainInv, ChainFacts, ChainFacts', [SagaNext]_sagaVars PROVE ChainInv'
  <2>1. TypesLead'
    BY <1>2, TypesLeadStep DEF ChainInv, ChainFacts, WorkflowInv
  <2> QED
    BY <1>2, <2>1, OneFactStep, OneBranchStep DEF ChainInv
<1> QED
  BY <1>1, <1>2

\* They rest on what is proved of the dispatcher and of the tables.
LEMMA ChainFactsHold == SafeReplays => (SagaSpec => []ChainFacts)
<1> SUFFICES ASSUME SafeReplays PROVE SagaSpec => []ChainFacts
  OBVIOUS
<1>1. SafeReplays
  OBVIOUS
<1>2. SagaSpec => []FactAppliedOnce
  BY <1>1, SagaImplementsDispatcher, SafeReplaysApplyOnce, PTL
<1> QED
  BY <1>2, SagaImplementsDispatcher, SingleFollowUp, WorkflowInvariant, PTL DEF ChainFacts

\* Any dispatchers if nobody replays, else one reliable dispatcher and one operator:
\* one payment branch, one fact per type, one way to it, in every state.
THEOREM ChainInvariant == SafeReplays => (SagaSpec => []ChainInv)
<1> SUFFICES ASSUME SafeReplays PROVE SagaSpec => []ChainInv
  OBVIOUS
<1>1. SagaSpec => []ChainFacts
  BY ChainFactsHold
<1> QED
  BY <1>1, ChainInductive, PTL DEF SagaSpec

\* What has happened to an order, something led to.
LEMMA LedTo ==
  ASSUME SagaInv, TypesLead, NEW o, NEW t, Happened(o, t), t # "OrderCreated"
  PROVE  \E s : LeadsTo(s, t) /\ Happened(o, s)
<1>1. PICK e \in Events : subject[e] = o /\ outbox[e].type = t
  BY DEF Happened
<1>2. outbox[e].cause # 0
  BY <1>1 DEF TypesLead
<1>3. outbox[e].cause \in Events /\ LeadsTo(outbox[outbox[e].cause].type, t)
  BY <1>1, <1>2 DEF TypesLead
<1>4. subject[outbox[e].cause] = o
  BY <1>1, <1>2 DEF SagaInv, SameOrder
<1> QED
  BY <1>3, <1>4 DEF Happened

\* The way to each end of an order.
LEMMA WayTo ==
  ASSUME SagaInv, TypesLead, NEW o
  PROVE  /\ Happened(o, "NotificationSent") => Happened(o, "InvoiceCreated")
         /\ Happened(o, "InvoiceCreated") => Happened(o, "PaymentAuthorized")
         /\ Happened(o, "PaymentAuthorized") => Happened(o, "InventoryReserved")
         /\ Happened(o, "InventoryReleased") => Happened(o, "PaymentFailed")
         /\ Happened(o, "PaymentFailed") => Happened(o, "InventoryReserved")
<1>1. ASSUME NEW t, Happened(o, t), t # "OrderCreated"
      PROVE  \E s : LeadsTo(s, t) /\ Happened(o, s)
  BY <1>1, LedTo
<1>2. Happened(o, "NotificationSent") => Happened(o, "InvoiceCreated")
  BY <1>1 DEF LeadsTo
<1>3. Happened(o, "InvoiceCreated") => Happened(o, "PaymentAuthorized")
  BY <1>1 DEF LeadsTo
<1>4. Happened(o, "PaymentAuthorized") => Happened(o, "InventoryReserved")
  BY <1>1 DEF LeadsTo
<1>5. Happened(o, "InventoryReleased") => Happened(o, "PaymentFailed")
  BY <1>1 DEF LeadsTo
<1>6. Happened(o, "PaymentFailed") => Happened(o, "InventoryReserved")
  BY <1>1 DEF LeadsTo
<1> QED
  BY <1>2, <1>3, <1>4, <1>5, <1>6

\* After a handler has emitted, one thing more has happened.
LEMMA AfterFollowUp ==
  ASSUME SagaInv, [SagaNext]_sagaVars, NEW n \in Events' \ Events, NEW e \in Events,
         Follows(n, e), NEW o, NEW t
  PROVE  Happened(o, t)' <=> Happened(o, t) \/ (o = subject[e] /\ t = outbox'[n].type)
<1>1. ASSUME NEW m \in Events' \ Events PROVE m = n
  BY SagaStep, OneNewRow DEF SagaInv
<1>2. subject'[n] = subject[e]
  BY DEF Follows
<1>3. Happened(o, t)' => Happened(o, t) \/ (o = subject[e] /\ t = outbox'[n].type)
  BY <1>1, <1>2, Happening
<1>4. o = subject[e] /\ t = outbox'[n].type => Happened(o, t)'
  BY <1>2 DEF Happened
<1> QED
  BY <1>3, <1>4, Happening

\* Otherwise nothing has happened but that orders were created.
LEMMA NothingFollows ==
  ASSUME SagaInv, [SagaNext]_sagaVars, NEW o, NEW t,
         ~\E n \in Events' \ Events : \E e \in Events : Follows(n, e)
  PROVE  /\ o \in Orders => (Happened(o, t)' <=> Happened(o, t))
         /\ o \notin Orders /\ t # "OrderCreated" => ~Happened(o, t)'
<1>1. o \notin Orders => ~Happened(o, t)
  BY SubjectOf DEF Happened
<1>2. ASSUME Happened(o, t)', ~Happened(o, t) PROVE t = "OrderCreated" /\ o \notin Orders
  <2>1. PICK n \in Events' \ Events : subject'[n] = o /\ outbox'[n].type = t
    BY <1>2, Happening
  <2>2. CASE Starts(n)
    BY <2>1, <2>2 DEF Starts
  <2>3. ASSUME NEW f \in Events, CopiesEvent(n, f) PROVE FALSE
    BY <1>2, <2>1, <2>3 DEF CopiesEvent, Happened
  <2> QED
    BY <2>2, <2>3, NewEvent
<1> QED
  BY <1>1, <1>2, Happening

\* A handler that emits is followed by an event.
LEMMA EmissionFollows ==
  ASSUME SagaInv, [SagaNext]_sagaVars, NEW d \in Dispatchers, NEW e \in Events,
         NEW type, NEW out, Handles(d, e, type), Emits(e, out)
  PROVE  \E n \in Events' \ Events : \E f \in Events : Follows(n, f)
<1> DEFINE n == Len(outbox) + 1
<1>1. n \in Nat
  BY DEF SagaInv, TypeOK, TablesTyped
<1> HIDE DEF n
<1>2. /\ n \in Events' /\ n \notin Events /\ outbox'[n].cause = e /\ outbox'[n].origin = n
  BY <1>1, FollowingUp DEF n
<1>3. ~Starts(n)
  BY <1>2 DEF Starts, Events
<1>4. ASSUME NEW f \in Events, CopiesEvent(n, f) PROVE FALSE
  BY <1>2, <1>4 DEF CopiesEvent, SagaInv, ChainsTyped
<1> QED
  BY <1>2, <1>3, <1>4, NewEvent

-----------------------------------------------------------------------------
(* The ledger and the status of an order                                   *)

\* The payments, invoices and notifications of an order, by what has happened to it.
TrailRow(authorized, declined, invoiced, notified) ==
  [payments |-> IF authorized THEN <<"AUTHORIZED">>
                ELSE IF declined THEN <<"FAILED">> ELSE <<>>,
   invoices |-> IF invoiced THEN 1 ELSE 0,
   notifications |-> IF notified THEN 1 ELSE 0]

Trail(o) ==
  TrailRow(Happened(o, "PaymentAuthorized"), Happened(o, "PaymentFailed"),
           Happened(o, "InvoiceCreated"), Happened(o, "NotificationSent"))

LedgerTells == \A o \in Orders : ledger[o] = Trail(o)

StatusTells ==
  \A o \in Orders :
    /\ orders[o].status = "COMPLETED" => Happened(o, "NotificationSent")
    /\ orders[o].status = "CANCELLED" => Happened(o, "InventoryReleased")

\* If no more has happened, the trail is the same.
LEMMA SameTrail ==
  ASSUME NEW o,
         Happened(o, "PaymentAuthorized")' <=> Happened(o, "PaymentAuthorized"),
         Happened(o, "PaymentFailed")' <=> Happened(o, "PaymentFailed"),
         Happened(o, "InvoiceCreated")' <=> Happened(o, "InvoiceCreated"),
         Happened(o, "NotificationSent")' <=> Happened(o, "NotificationSent")
  PROVE  Trail(o)' = Trail(o)
<1>1. \A t : Happened(o, t) \in BOOLEAN /\ Happened(o, t)' \in BOOLEAN
  BY DEF Happened
<1>2. /\ Happened(o, "PaymentAuthorized")' = Happened(o, "PaymentAuthorized")
      /\ Happened(o, "PaymentFailed")' = Happened(o, "PaymentFailed")
      /\ Happened(o, "InvoiceCreated")' = Happened(o, "InvoiceCreated")
      /\ Happened(o, "NotificationSent")' = Happened(o, "NotificationSent")
  BY <1>1
<1> QED
  BY <1>2 DEF Trail

\* Each payment, invoice and notification is one entry more.
LEMMA TrailRows ==
  ASSUME NEW a \in BOOLEAN, NEW f \in BOOLEAN, NEW i \in BOOLEAN, NEW n \in BOOLEAN
  PROVE  /\ TrailRow(a, f, i, n) \in LedgerRow
         /\ TrailRow(TRUE, f, i, n) = Paid(TrailRow(FALSE, FALSE, i, n), "AUTHORIZED")
         /\ TrailRow(FALSE, TRUE, i, n) = Paid(TrailRow(FALSE, FALSE, i, n), "FAILED")
         /\ TrailRow(a, f, TRUE, n) = Invoiced(TrailRow(a, f, FALSE, n))
         /\ TrailRow(a, f, i, TRUE) = Notified(TrailRow(a, f, i, FALSE))
<1>1. /\ <<>> \in Seq(PaymentStatus) /\ <<"AUTHORIZED">> \in Seq(PaymentStatus)
      /\ <<"FAILED">> \in Seq(PaymentStatus)
  BY DEF PaymentStatus
<1>2. ASSUME NEW b \in BOOLEAN, NEW g \in BOOLEAN, NEW j \in BOOLEAN, NEW m \in BOOLEAN
      PROVE  TrailRow(b, g, j, m) \in LedgerRow
  <2> DEFINE p == IF b THEN <<"AUTHORIZED">> ELSE IF g THEN <<"FAILED">> ELSE <<>>
             v == IF j THEN 1 ELSE 0
             w == IF m THEN 1 ELSE 0
  <2>1. p \in Seq(PaymentStatus)
    BY <1>1
  <2>2. v \in Nat /\ w \in Nat
    OBVIOUS
  <2>3. TrailRow(b, g, j, m) = [payments |-> p, invoices |-> v, notifications |-> w]
    BY DEF TrailRow
  <2> HIDE DEF p, v, w
  <2> QED
    BY <2>1, <2>2, <2>3 DEF LedgerRow
<1>3. /\ Append(<<>>, "AUTHORIZED") = <<"AUTHORIZED">>
      /\ Append(<<>>, "FAILED") = <<"FAILED">>
  OBVIOUS
<1>4. /\ TrailRow(TRUE, f, i, n) = Paid(TrailRow(FALSE, FALSE, i, n), "AUTHORIZED")
      /\ TrailRow(FALSE, TRUE, i, n) = Paid(TrailRow(FALSE, FALSE, i, n), "FAILED")
  <2> DEFINE r == TrailRow(FALSE, FALSE, i, n)
  <2>1. /\ r.payments = <<>> /\ r.invoices = (IF i THEN 1 ELSE 0)
        /\ r.notifications = (IF n THEN 1 ELSE 0)
    BY DEF TrailRow
  <2>2. r \in LedgerRow
    BY <1>2
  <2>3. /\ TrailRow(TRUE, f, i, n) = [payments |-> <<"AUTHORIZED">>, invoices |-> r.invoices,
                                      notifications |-> r.notifications]
        /\ TrailRow(FALSE, TRUE, i, n) = [payments |-> <<"FAILED">>, invoices |-> r.invoices,
                                          notifications |-> r.notifications]
    BY <2>1 DEF TrailRow
  <2> HIDE DEF r
  <2>4. /\ Paid(r, "AUTHORIZED") = [payments |-> Append(r.payments, "AUTHORIZED"),
                                    invoices |-> r.invoices, notifications |-> r.notifications]
        /\ Paid(r, "FAILED") = [payments |-> Append(r.payments, "FAILED"),
                                invoices |-> r.invoices, notifications |-> r.notifications]
    BY <2>2, LedgerRows DEF PaymentStatus
  <2> QED
    BY <1>3, <2>1, <2>3, <2>4, Zenon DEF r
<1>5. TrailRow(a, f, TRUE, n) = Invoiced(TrailRow(a, f, FALSE, n))
  <2> DEFINE r == TrailRow(a, f, FALSE, n)
  <2>1. r.invoices + 1 = 1
    BY DEF TrailRow
  <2>2. r \in LedgerRow
    BY <1>2
  <2>3. TrailRow(a, f, TRUE, n) = [payments |-> r.payments, invoices |-> 1,
                                   notifications |-> r.notifications]
    BY DEF TrailRow
  <2> HIDE DEF r
  <2>4. Invoiced(r) = [payments |-> r.payments, invoices |-> r.invoices + 1,
                       notifications |-> r.notifications]
    BY <2>2, LedgerRows
  <2> QED
    BY <2>1, <2>3, <2>4, Zenon DEF r
<1>6. TrailRow(a, f, i, TRUE) = Notified(TrailRow(a, f, i, FALSE))
  <2> DEFINE r == TrailRow(a, f, i, FALSE)
  <2>1. r.notifications + 1 = 1
    BY DEF TrailRow
  <2>2. r \in LedgerRow
    BY <1>2
  <2>3. TrailRow(a, f, i, TRUE) = [payments |-> r.payments, invoices |-> r.invoices,
                                   notifications |-> 1]
    BY DEF TrailRow
  <2> HIDE DEF r
  <2>4. Notified(r) = [payments |-> r.payments, invoices |-> r.invoices,
                       notifications |-> r.notifications + 1]
    BY <2>2, LedgerRows
  <2> QED
    BY <2>1, <2>3, <2>4, Zenon DEF r
<1> QED
  BY <1>2, <1>4, <1>5, <1>6

\* The four steps of a ledger row, from the trail to the trail.
LEMMA TrailStep ==
  ASSUME NEW o, NEW out, ~Happened(o, out),
         \A t : Happened(o, t)' <=> Happened(o, t) \/ t = out
  PROVE  /\ out = "PaymentAuthorized" /\ ~Happened(o, "PaymentFailed")
              => Trail(o)' = Paid(Trail(o), "AUTHORIZED")
         /\ out = "PaymentFailed" /\ ~Happened(o, "PaymentAuthorized")
              => Trail(o)' = Paid(Trail(o), "FAILED")
         /\ out = "InvoiceCreated" => Trail(o)' = Invoiced(Trail(o))
         /\ out = "NotificationSent" => Trail(o)' = Notified(Trail(o))
<1>1. /\ Happened(o, "PaymentAuthorized") \in BOOLEAN /\ Happened(o, "PaymentFailed") \in BOOLEAN
      /\ Happened(o, "InvoiceCreated") \in BOOLEAN /\ Happened(o, "NotificationSent") \in BOOLEAN
      /\ FALSE \in BOOLEAN
  BY DEF Happened
<1>2. CASE out = "PaymentAuthorized" /\ ~Happened(o, "PaymentFailed")
  <2>1. /\ Happened(o, "InvoiceCreated")' <=> Happened(o, "InvoiceCreated")
        /\ Happened(o, "NotificationSent")' <=> Happened(o, "NotificationSent")
        /\ ~Happened(o, "PaymentAuthorized") /\ Happened(o, "PaymentAuthorized")'
        /\ ~Happened(o, "PaymentFailed") /\ ~Happened(o, "PaymentFailed")'
    BY <1>2
  <2>2. /\ Trail(o)' = TrailRow(TRUE, FALSE,
                 Happened(o, "InvoiceCreated"), Happened(o, "NotificationSent"))
        /\ Trail(o) = TrailRow(FALSE, FALSE,
                 Happened(o, "InvoiceCreated"), Happened(o, "NotificationSent"))
    BY <2>1 DEF Trail, TrailRow
  <2>3. TrailRow(TRUE, FALSE,
                 Happened(o, "InvoiceCreated"), Happened(o, "NotificationSent"))
        = Paid(TrailRow(FALSE, FALSE,
                 Happened(o, "InvoiceCreated"), Happened(o, "NotificationSent")), "AUTHORIZED")
    BY <1>1, TrailRows, Zenon
  <2>4. Trail(o)' = Paid(Trail(o), "AUTHORIZED")
    BY <2>2, <2>3, Zenon
  <2> QED
    BY <1>2, <2>4
<1>3. CASE out = "PaymentFailed" /\ ~Happened(o, "PaymentAuthorized")
  <2>1. /\ Happened(o, "InvoiceCreated")' <=> Happened(o, "InvoiceCreated")
        /\ Happened(o, "NotificationSent")' <=> Happened(o, "NotificationSent")
        /\ ~Happened(o, "PaymentFailed") /\ Happened(o, "PaymentFailed")'
        /\ ~Happened(o, "PaymentAuthorized") /\ ~Happened(o, "PaymentAuthorized")'
    BY <1>3
  <2>2. /\ Trail(o)' = TrailRow(FALSE, TRUE,
                 Happened(o, "InvoiceCreated"), Happened(o, "NotificationSent"))
        /\ Trail(o) = TrailRow(FALSE, FALSE,
                 Happened(o, "InvoiceCreated"), Happened(o, "NotificationSent"))
    BY <2>1 DEF Trail, TrailRow
  <2>3. TrailRow(FALSE, TRUE,
                 Happened(o, "InvoiceCreated"), Happened(o, "NotificationSent"))
        = Paid(TrailRow(FALSE, FALSE,
                 Happened(o, "InvoiceCreated"), Happened(o, "NotificationSent")), "FAILED")
    BY <1>1, TrailRows, Zenon
  <2>4. Trail(o)' = Paid(Trail(o), "FAILED")
    BY <2>2, <2>3, Zenon
  <2> QED
    BY <1>3, <2>4
<1>4. CASE out = "InvoiceCreated"
  <2>1. /\ Happened(o, "PaymentAuthorized")' <=> Happened(o, "PaymentAuthorized")
        /\ Happened(o, "PaymentFailed")' <=> Happened(o, "PaymentFailed")
        /\ Happened(o, "NotificationSent")' <=> Happened(o, "NotificationSent")
        /\ ~Happened(o, "InvoiceCreated") /\ Happened(o, "InvoiceCreated")'
    BY <1>4
  <2>2. /\ Trail(o)' = TrailRow(Happened(o, "PaymentAuthorized"), Happened(o, "PaymentFailed"),
                 TRUE, Happened(o, "NotificationSent"))
        /\ Trail(o) = TrailRow(Happened(o, "PaymentAuthorized"), Happened(o, "PaymentFailed"),
                 FALSE, Happened(o, "NotificationSent"))
    BY <2>1 DEF Trail, TrailRow
  <2>3. TrailRow(Happened(o, "PaymentAuthorized"), Happened(o, "PaymentFailed"),
                 TRUE, Happened(o, "NotificationSent"))
        = Invoiced(TrailRow(Happened(o, "PaymentAuthorized"), Happened(o, "PaymentFailed"),
                 FALSE, Happened(o, "NotificationSent")))
    BY <1>1, TrailRows, Zenon
  <2>4. Trail(o)' = Invoiced(Trail(o))
    BY <2>2, <2>3, Zenon
  <2> QED
    BY <1>4, <2>4
<1>5. CASE out = "NotificationSent"
  <2>1. /\ Happened(o, "PaymentAuthorized")' <=> Happened(o, "PaymentAuthorized")
        /\ Happened(o, "PaymentFailed")' <=> Happened(o, "PaymentFailed")
        /\ Happened(o, "InvoiceCreated")' <=> Happened(o, "InvoiceCreated")
        /\ ~Happened(o, "NotificationSent") /\ Happened(o, "NotificationSent")'
    BY <1>5
  <2>2. /\ Trail(o)' = TrailRow(Happened(o, "PaymentAuthorized"), Happened(o, "PaymentFailed"),
                 Happened(o, "InvoiceCreated"), TRUE)
        /\ Trail(o) = TrailRow(Happened(o, "PaymentAuthorized"), Happened(o, "PaymentFailed"),
                 Happened(o, "InvoiceCreated"), FALSE)
    BY <2>1 DEF Trail, TrailRow
  <2>3. TrailRow(Happened(o, "PaymentAuthorized"), Happened(o, "PaymentFailed"),
                 Happened(o, "InvoiceCreated"), TRUE)
        = Notified(TrailRow(Happened(o, "PaymentAuthorized"), Happened(o, "PaymentFailed"),
                 Happened(o, "InvoiceCreated"), FALSE))
    BY <1>1, TrailRows, Zenon
  <2>4. Trail(o)' = Notified(Trail(o))
    BY <2>2, <2>3, Zenon
  <2> QED
    BY <1>5, <2>4
<1> QED
  BY <1>2, <1>3, <1>4, <1>5

\* Nothing that a handled event leads to has happened to its order.
LEMMA NotYet ==
  ASSUME ChainFacts, ChainFacts', ChainInv, [SagaNext]_sagaVars,
         NEW d \in Dispatchers, NEW e \in Events, NEW type, Handles(d, e, type),
         NEW t, LeadsTo(type, t)
  PROVE  ~Happened(subject[e], t)
  BY FirstFollowUp DEF Happened

\* The row of the ledger that a handler writes follows the trail.
LEMMA LedgerFollows ==
  ASSUME ChainFacts, ChainFacts', ChainInv, LedgerTells, [SagaNext]_sagaVars,
         NEW n \in Events' \ Events, NEW e \in Events, Follows(n, e), NEW o \in Orders
  PROVE  ledger'[o] = Trail(o)'
<1>1. /\ SagaInv /\ SagaTypeOK /\ ledger[o] = Trail(o)
      /\ ledger \in Seq(LedgerRow) /\ o \in 1 .. Len(ledger)
  BY DEF ChainFacts, WorkflowInv, LedgerTells, SagaTypeOK, LedgerRow, Orders
<1>2. Trail(o) \in LedgerRow
  BY <1>1
<1>3. PICK out : out = outbox'[n].type
  OBVIOUS
<1>4. PICK d \in Dispatchers : Handles(d, e, outbox[e].type)
  BY DEF Follows
<1>5. LeadsTo(outbox[e].type, out) /\ Effect(e, out)
  BY <1>3 DEF Follows
<1>6. \A t : LeadsTo(outbox[e].type, t) => ~Happened(subject[e], t)
  BY <1>4, NotYet
<1>7. \A t : Happened(o, t)' <=> Happened(o, t) \/ (o = subject[e] /\ t = out)
  BY <1>1, <1>3, AfterFollowUp
<1>8. CASE o # subject[e]
  <2>1. ledger'[o] = ledger[o]
    BY <1>1, <1>5, <1>8 DEF Effect
  <2>2. Trail(o)' = Trail(o)
    BY <1>7, <1>8, SameTrail
  <2> QED
    BY <1>1, <2>1, <2>2
<1>9. CASE o = subject[e]
  <2>1. ~Happened(o, out) /\ \A t : Happened(o, t)' <=> Happened(o, t) \/ t = out
    BY <1>5, <1>6, <1>7, <1>9
  <2>2. CASE out \in {"InventoryReserved", "InventoryReleased", "InventoryReservationFailed"}
    <3>1. ledger' = ledger
      BY <1>5, <2>2 DEF Effect
    <3>2. /\ Happened(o, "PaymentAuthorized")' <=> Happened(o, "PaymentAuthorized")
          /\ Happened(o, "PaymentFailed")' <=> Happened(o, "PaymentFailed")
          /\ Happened(o, "InvoiceCreated")' <=> Happened(o, "InvoiceCreated")
          /\ Happened(o, "NotificationSent")' <=> Happened(o, "NotificationSent")
      BY <2>1, <2>2
    <3>3. Trail(o)' = Trail(o)
      BY <3>2, SameTrail
    <3> QED
      BY <1>1, <3>1, <3>3
  <2>3. CASE out = "PaymentAuthorized"
    <3>1. ledger'[o] = Paid(Trail(o), "AUTHORIZED")
      BY <1>1, <1>5, <1>9, <2>3 DEF Effect
    <3>2. ~Happened(o, "PaymentFailed")
      BY <1>5, <1>6, <1>9, <2>3 DEF LeadsTo
    <3> QED
      BY <1>2, <2>1, <2>3, <3>1, <3>2, TrailStep
  <2>4. CASE out = "PaymentFailed"
    <3>1. ledger'[o] = Paid(Trail(o), "FAILED")
      BY <1>1, <1>5, <1>9, <2>4 DEF Effect
    <3>2. ~Happened(o, "PaymentAuthorized")
      BY <1>5, <1>6, <1>9, <2>4 DEF LeadsTo
    <3> QED
      BY <1>2, <2>1, <2>4, <3>1, <3>2, TrailStep
  <2>5. CASE out = "InvoiceCreated"
    <3>1. ledger'[o] = Invoiced(Trail(o))
      BY <1>1, <1>5, <1>9, <2>5 DEF Effect
    <3> QED
      BY <1>2, <2>1, <2>5, <3>1, TrailStep
  <2>6. CASE out = "NotificationSent"
    <3>1. ledger'[o] = Notified(Trail(o))
      BY <1>1, <1>5, <1>9, <2>6 DEF Effect
    <3> QED
      BY <1>2, <2>1, <2>6, <3>1, TrailStep
  <2> QED
    BY <1>5, <2>2, <2>3, <2>4, <2>5, <2>6 DEF Effect
<1> QED
  BY <1>8, <1>9

\* The ledger of every order follows its trail.
LEMMA LedgerTellsStep ==
  ASSUME ChainFacts, ChainFacts', ChainInv, LedgerTells, [SagaNext]_sagaVars
  PROVE  LedgerTells'
<1>1. /\ SagaInv /\ SagaTypeOK /\ ledger \in Seq(LedgerRow) /\ Len(ledger) = Len(orders)
      /\ Len(orders) \in Nat
  BY DEF ChainFacts, WorkflowInv, SagaTypeOK, LedgerRow
<1>2. ASSUME NEW n \in Events' \ Events, NEW e \in Events, Follows(n, e) PROVE LedgerTells'
  <2>1. Orders' = Orders
    BY <1>2 DEF Follows, Effect, Orders
  <2> QED
    BY <1>2, <2>1, LedgerFollows DEF LedgerTells
<1>3. ASSUME ~\E n \in Events' \ Events : \E e \in Events : Follows(n, e) PROVE LedgerTells'
  <2>1. ~\E d \in Dispatchers, e \in Events : \E type, out : Handles(d, e, type) /\ Emits(e, out)
    BY <1>1, <1>3, EmissionFollows
  <2>2. \/ ledger' = ledger /\ Len(orders') = Len(orders)
        \/ ledger' = Append(ledger, NoRows) /\ Len(orders') = Len(orders) + 1
    BY <1>1, <2>1, LedgerChange
  <2>3. ASSUME NEW o \in Orders PROVE ledger'[o] = Trail(o)'
    <3>1. Trail(o)' = Trail(o)
      BY <1>1, <1>3, NothingFollows, SameTrail
    <3>2. ledger'[o] = ledger[o]
      BY <1>1, <2>2 DEF Orders
    <3> QED
      BY <3>1, <3>2 DEF LedgerTells
  <2>4. ASSUME NEW o \in Orders' \ Orders PROVE ledger'[o] = Trail(o)'
    <3>1. ledger'[o] = NoRows
      BY <1>1, <2>2, <2>4 DEF Orders
    <3>2. \A t : t # "OrderCreated" => ~Happened(o, t)'
      BY <1>1, <1>3, <2>4, NothingFollows
    <3>3. /\ ~Happened(o, "PaymentAuthorized")' /\ ~Happened(o, "PaymentFailed")'
          /\ ~Happened(o, "InvoiceCreated")' /\ ~Happened(o, "NotificationSent")'
      BY <3>2
    <3> QED
      BY <3>1, <3>3 DEF Trail, TrailRow, NoRows
  <2> QED
    BY <2>3, <2>4 DEF LedgerTells
<1> QED
  BY <1>2, <1>3

\* An order is decided when the end of its chain is projected.
LEMMA StatusTellsStep ==
  ASSUME SagaInv, StatusTells, [SagaNext]_sagaVars
  PROVE  StatusTells'
<1>1. orders \in Seq(OrderRow) /\ Orders = 1 .. Len(orders)
  BY DEF SagaInv, ChainsTyped, Orders
<1>2. ASSUME NEW o \in Orders', o \notin Orders PROVE orders'[o].status = "PENDING"
  BY <1>2, ItemsKept
<1>3. ASSUME NEW o \in Orders, orders'[o] = orders[o]
      PROVE  /\ orders'[o].status = "COMPLETED" => Happened(o, "NotificationSent")'
             /\ orders'[o].status = "CANCELLED" => Happened(o, "InventoryReleased")'
  BY <1>3, Happening DEF StatusTells
<1>4. ASSUME NEW d \in Dispatchers, CompleteOrder(d) \/ CancelOrder(d),
             NEW o \in Orders, orders'[o] # orders[o]
      PROVE  /\ orders'[o].status = "COMPLETED" => Happened(o, "NotificationSent")'
             /\ orders'[o].status = "CANCELLED" => Happened(o, "InventoryReleased")'
  <2>1. PICK e \in Events : \/ Decides(d, e, "NotificationSent", "COMPLETED")
                            \/ Decides(d, e, "InventoryReleased", "CANCELLED")
    BY <1>4, Projecting
  <2>2. ASSUME NEW type, NEW status \in OrderStatus, Decides(d, e, type, status)
        PROVE  orders'[o].status = status /\ Happened(o, type)'
    <3>1. o = subject[e] /\ orders'[o] = Decided(orders[o], status)
      BY <1>1, <1>4, <2>2 DEF Decides
    <3>2. orders'[o].status = status
      BY <1>1, <3>1, DecidedRow
    <3>3. Happened(o, type)
      BY <2>2, <3>1 DEF Decides, Handles, Happened
    <3> QED
      BY <3>2, <3>3, Happening
  <2>3. "COMPLETED" \in OrderStatus /\ "CANCELLED" \in OrderStatus
    BY DEF OrderStatus
  <2>4. CASE Decides(d, e, "NotificationSent", "COMPLETED")
    BY <2>2, <2>3, <2>4
  <2>5. CASE Decides(d, e, "InventoryReleased", "CANCELLED")
    BY <2>2, <2>3, <2>5
  <2> QED
    BY <2>1, <2>4, <2>5
<1>5. ASSUME NEW basket \in Baskets, SubmitOrder(basket), NEW o \in Orders
      PROVE  orders'[o] = orders[o]
  <2>1. orders' = Append(orders, [status |-> "PENDING", items |-> basket])
    BY <1>5 DEF SubmitOrder
  <2> QED
    BY <1>1, <2>1
<1>6. ASSUME NEW o \in Orders'
      PROVE  /\ orders'[o].status = "COMPLETED" => Happened(o, "NotificationSent")'
             /\ orders'[o].status = "CANCELLED" => Happened(o, "InventoryReleased")'
  <2>1. CASE o \notin Orders
    BY <1>2, <2>1
  <2>2. CASE o \in Orders
    BY <1>3, <1>4, <1>5, <2>2, Writers
  <2> QED
    BY <2>1, <2>2
<1> QED
  BY <1>6 DEF StatusTells

-----------------------------------------------------------------------------
(* The stock                                                               *)

\* With one dispatcher nobody writes the stock between a handler's reads and its
\* commit.
ShelfFresh ==
  \A d \in Dispatchers :
    pc[d] = "handling" =>
      \A sku \in DOMAIN loaded[d] : sku \in DOMAIN stock /\ loaded[d][sku] = stock[sku]

\* The orders that hold stock, and what each asks for of an item.
Holding ==
  {o \in Orders : Happened(o, "InventoryReserved") /\ ~Happened(o, "InventoryReleased")}

Asked(sku) == [o \in Orders |-> Ordered(orders[o].items, sku)]

Balance ==
  \A sku \in DOMAIN stock : stock[sku] + Total(Asked(sku), Holding) = InitialStock[sku]

\* The reads of the handler that runs are up to date.
LEMMA ShelfFreshStep ==
  ASSUME OneDispatcher, WorkflowInv, ShelfFresh, [SagaNext]_sagaVars
  PROVE  ShelfFresh'
<1>1. SagaInv /\ TypeOK /\ DOMAIN loaded = Dispatchers
  BY DEF WorkflowInv, SagaInv, SagaTypeOK
<1>2. ASSUME NEW d \in Dispatchers, pc'[d] = "handling", NEW sku \in DOMAIN loaded'[d]
      PROVE  sku \in DOMAIN stock' /\ loaded'[d][sku] = stock'[sku]
  <2>1. CASE BeginHandler(d)
    <3>1. loaded' = [loaded EXCEPT ![d] = stock] /\ stock' = stock
      BY <2>1 DEF BeginHandler
    <3> QED
      BY <1>1, <1>2, <3>1
  <2>2. CASE pc'[d] = pc[d] /\ loaded'[d] = loaded[d]
    <3>1. sku \in DOMAIN stock /\ loaded'[d][sku] = stock[sku]
      BY <1>2, <2>2 DEF ShelfFresh
    <3>2. ASSUME NEW s \in Skus, CreateInventoryItem(s)
          PROVE  sku \in DOMAIN stock' /\ stock'[sku] = stock[sku]
      BY <3>1, <3>2 DEF CreateInventoryItem
    <3>3. ASSUME NEW c \in Dispatchers, ReserveInventory(c) \/ ReleaseInventory(c) PROVE FALSE
      <4>1. PICK e \in Events : \E type : Handles(c, e, type)
        BY <3>3 DEF ReserveInventory, ReleaseInventory
      <4>2. Goto(c, "marking")
        BY <1>1, <4>1, Handling
      <4>3. pc'[d] = "marking"
        BY <1>1, <4>2 DEF Goto, OneDispatcher, TypeOK, ProcessesTyped
      <4> QED
        BY <1>2, <4>3
    <3> QED
      BY <3>1, <3>2, <3>3, Writers
  <2> QED
    BY <1>1, <1>2, <2>1, <2>2, HandlerBegins
<1> QED
  BY <1>2 DEF ShelfFresh

\* There are finitely many orders, and each asks for a number of every item, of those
\* that are on the shelf only.
LEMMA AskedNat ==
  ASSUME WorkflowInv
  PROVE  /\ IsFiniteSet(Orders) /\ \A S \in SUBSET Orders : IsFiniteSet(S)
         /\ \A sku : \A o \in Orders :
              Asked(sku)[o] \in Nat /\ (sku \notin DOMAIN stock => Asked(sku)[o] = 0)
<1>1. /\ orders \in Seq(OrderRow) /\ Len(orders) \in Nat
      /\ \A o \in Orders : Listed(stock, orders[o].items)
  BY DEF WorkflowInv, SagaInv, ChainsTyped, SagaTypeOK
<1>2. IsFiniteSet(Orders)
  BY <1>1, FS_Interval DEF Orders
<1>3. ASSUME NEW sku, NEW o \in Orders
      PROVE  Asked(sku)[o] \in Nat /\ (sku \notin DOMAIN stock => Asked(sku)[o] = 0)
  <2>1. orders[o] \in OrderRow
    BY <1>1 DEF Orders
  <2>2. orders[o].items \in Baskets
    BY <2>1 DEF OrderRow
  <2>3. /\ Ordered(orders[o].items, sku) \in Nat
        /\ Ordered(orders[o].items, sku) # 0 =>
             \E i \in 1 .. Len(orders[o].items) : orders[o].items[i].sku = sku
    BY <2>2, OrderedNat
  <2>4. Asked(sku)[o] = Ordered(orders[o].items, sku)
    BY DEF Asked
  <2> QED
    BY <1>1, <2>3, <2>4 DEF Listed
<1> QED
  BY <1>2, <1>3, FS_Subset

\* What an order asks for stays.
LEMMA AskedKept ==
  ASSUME SagaInv, [SagaNext]_sagaVars
  PROVE  Orders \subseteq Orders' /\ \A sku : \A o \in Orders : Asked(sku)'[o] = Asked(sku)[o]
<1>1. Orders \subseteq Orders' /\ \A o \in Orders : orders'[o].items = orders[o].items
  BY ItemsKept
<1>2. ASSUME NEW sku, NEW o \in Orders PROVE Asked(sku)'[o] = Asked(sku)[o]
  BY <1>1 DEF Asked
<1> QED
  BY <1>1, <1>2

\* While the same orders hold stock, the shelf stays as it is, but for new items.
LEMMA SameHolding ==
  ASSUME WorkflowInv, Balance, [SagaNext]_sagaVars, Holding' = Holding,
         \A sku \in DOMAIN stock' :
           \/ sku \in DOMAIN stock /\ stock'[sku] = stock[sku]
           \/ sku \notin DOMAIN stock /\ stock'[sku] = InitialStock[sku]
              /\ InitialStock[sku] \in Nat
  PROVE  Balance'
<1>1. SagaInv /\ Holding \in SUBSET Orders
  BY DEF WorkflowInv, Holding
<1>2. IsFiniteSet(Holding)
  BY <1>1, AskedNat
<1>3. ASSUME NEW sku \in DOMAIN stock'
      PROVE  stock'[sku] + Total(Asked(sku)', Holding) = InitialStock[sku]
  <2>1. PICK g : g = Asked(sku)
    OBVIOUS
  <2>2. PICK h : h = Asked(sku)'
    OBVIOUS
  <2>3. \A o \in Holding : h[o] = g[o]
    BY <1>1, <2>1, <2>2, AskedKept
  <2>4. Total(h, Holding) = Total(g, Holding)
    BY <1>2, <2>3, TotalSame
  <2>5. CASE sku \in DOMAIN stock /\ stock'[sku] = stock[sku]
    BY <2>1, <2>2, <2>4, <2>5 DEF Balance
  <2>6. CASE sku \notin DOMAIN stock /\ stock'[sku] = InitialStock[sku]
             /\ InitialStock[sku] \in Nat
    <3>1. \A o \in Holding : g[o] = 0
      BY <1>1, <2>1, <2>6, AskedNat
    <3>2. Total(g, Holding) = 0
      BY <1>2, <3>1, TotalZero
    <3> QED
      BY <2>2, <2>4, <2>6, <3>2
  <2> QED
    BY <2>5, <2>6
<1> QED
  BY <1>3 DEF Balance

\* The handler of e that moves stock, seen from its follow-up.
LEMMA FollowsMoving ==
  ASSUME WorkflowInv, [SagaNext]_sagaVars, NEW n \in Events' \ Events, NEW e \in Events,
         Follows(n, e), NEW d \in Dispatchers, ReserveInventory(d) \/ ReleaseInventory(d)
  PROVE  \/ outbox'[n].type = "InventoryReserved" /\ MovesStock(d, e, "OrderCreated")
         \/ outbox'[n].type = "InventoryReleased" /\ MovesStock(d, e, "PaymentFailed")
<1>1. SagaInv
  BY DEF WorkflowInv
<1>2. PICK f \in Events :
        \/ MovesStock(d, f, "OrderCreated") /\ Emits(f, "InventoryReserved")
        \/ MovesStock(d, f, "PaymentFailed") /\ Emits(f, "InventoryReleased")
  BY MovingStock
<1>3. ASSUME NEW type, NEW out, MovesStock(d, f, type), Emits(f, out)
      PROVE  f = e /\ outbox'[n].type = out
  <2> DEFINE m == Len(outbox) + 1
  <2>1. m \in Nat
    BY <1>1 DEF SagaInv, TypeOK, TablesTyped
  <2>2. Handles(d, f, type)
    BY <1>3 DEF MovesStock
  <2> HIDE DEF m
  <2>3. m \in Events' \ Events /\ outbox'[m].type = out /\ outbox'[m].cause = f
    BY <1>1, <1>3, <2>1, <2>2, FollowingUp DEF m
  <2>4. m = n
    BY <1>1, <2>3, SagaStep, OneNewRow DEF SagaInv
  <2> QED
    BY <2>3, <2>4 DEF Follows
<1> QED
  BY <1>2, <1>3

\* A reservation takes from the shelf what its order comes to hold.
LEMMA ReserveBalances ==
  ASSUME OneDispatcher, ChainFacts, ChainFacts', ChainInv, ShelfFresh, Balance,
         [SagaNext]_sagaVars, NEW n \in Events' \ Events, NEW e \in Events, Follows(n, e),
         outbox'[n].type = "InventoryReserved", NEW d \in Dispatchers,
         MovesStock(d, e, "OrderCreated")
  PROVE  Balance'
<1>1. /\ WorkflowInv /\ SagaInv /\ TypesLead
      /\ Handles(d, e, "OrderCreated") /\ orders' = orders /\ Orders' = Orders
  BY DEF ChainFacts, WorkflowInv, ChainInv, MovesStock, Follows, Effect, Orders
<1>2. PICK s \in Orders : s = subject[e]
  BY <1>1, SubjectOf
<1>3. ~Happened(s, "InventoryReserved")
  BY <1>1, <1>2, NotYet DEF LeadsTo
<1>4. ~Happened(s, "InventoryReleased")
  BY <1>1, <1>3, WayTo
<1>5. \A o \in Orders :
        /\ Happened(o, "InventoryReserved")' <=> Happened(o, "InventoryReserved") \/ o = s
        /\ Happened(o, "InventoryReleased")' <=> Happened(o, "InventoryReleased")
  BY <1>1, <1>2, AfterFollowUp
<1>6. Holding' = Holding \cup {s} /\ s \notin Holding /\ Holding \subseteq Orders
  BY <1>1, <1>3, <1>4, <1>5 DEF Holding
<1>7. PICK H : H = Holding'
  OBVIOUS
<1>8. H \in SUBSET Orders /\ s \in H /\ H \ {s} = Holding
  BY <1>6, <1>7
<1>9. IsFiniteSet(H)
  BY <1>1, <1>8, AskedNat
<1>10. ASSUME NEW sku \in DOMAIN stock
       PROVE  stock'[sku] + Total(Asked(sku)', H) = InitialStock[sku]
  <2>1. PICK g : g = Asked(sku)
    OBVIOUS
  <2>2. Asked(sku)' = g
    BY <1>1, <2>1 DEF Asked
  <2>3. \A o \in H : g[o] \in Nat
    BY <1>1, <1>8, <2>1, AskedNat
  <2>4. Total(g, H) = g[s] + Total(g, H \ {s}) /\ Total(g, H) \in Nat
    BY <1>8, <1>9, <2>3, TotalMember
  <2>5. Total(g, Holding) \in Nat
    <3>1. IsFiniteSet(Holding) /\ \A o \in Holding : g[o] \in Nat
      BY <1>8, <1>9, <2>3, FS_Subset
    <3> QED
      BY <3>1, TotalMember
  <2>6. stock[sku] + Total(g, Holding) = InitialStock[sku] /\ stock[sku] \in Int
    BY <1>1, <2>1 DEF Balance, WorkflowInv, SagaTypeOK, Quantities
  <2>7. stock'[sku] = stock[sku] - g[s] /\ g[s] \in Nat
    <3>1. pc[d] = "handling"
      BY <1>1, Handling
    <3>2. sku \in DOMAIN loaded[d] => loaded[d][sku] = stock[sku]
      BY <3>1 DEF ShelfFresh
    <3>3. g[s] = Ordered(Items(e), sku)
      BY <1>2, <2>1 DEF Asked, Items
    <3>4. /\ g[s] \in Nat
          /\ g[s] = 0 => stock'[sku] = stock[sku]
          /\ g[s] # 0 => sku \in DOMAIN loaded[d] /\ stock'[sku] = loaded[d][sku] - g[s]
      BY <3>3 DEF MovesStock
    <3> QED
      BY <2>6, <3>2, <3>4
  <2> QED
    BY <1>8, <2>2, <2>4, <2>5, <2>6, <2>7
<1>11. DOMAIN stock' = DOMAIN stock
  BY DEF MovesStock
<1> QED
  BY <1>7, <1>10, <1>11 DEF Balance

\* A release gives back to the shelf what its order held.
LEMMA ReleaseBalances ==
  ASSUME OneDispatcher, ChainFacts, ChainFacts', ChainInv, ShelfFresh, Balance,
         [SagaNext]_sagaVars, NEW n \in Events' \ Events, NEW e \in Events, Follows(n, e),
         outbox'[n].type = "InventoryReleased", NEW d \in Dispatchers,
         MovesStock(d, e, "PaymentFailed")
  PROVE  Balance'
<1>1. /\ WorkflowInv /\ SagaInv /\ TypesLead
      /\ Handles(d, e, "PaymentFailed") /\ orders' = orders /\ Orders' = Orders
  BY DEF ChainFacts, WorkflowInv, ChainInv, MovesStock, Follows, Effect, Orders
<1>2. PICK s \in Orders : s = subject[e]
  BY <1>1, SubjectOf
<1>3. ~Happened(s, "InventoryReleased")
  BY <1>1, <1>2, NotYet DEF LeadsTo
<1>4. Happened(s, "InventoryReserved")
  <2>1. Happened(s, "PaymentFailed")
    BY <1>1, <1>2, Handling DEF Happened
  <2> QED
    BY <1>1, <2>1, WayTo
<1>5. \A o \in Orders :
        /\ Happened(o, "InventoryReserved")' <=> Happened(o, "InventoryReserved")
        /\ Happened(o, "InventoryReleased")' <=> Happened(o, "InventoryReleased") \/ o = s
  BY <1>1, <1>2, AfterFollowUp
<1>6. Holding' = Holding \ {s} /\ s \in Holding /\ Holding \in SUBSET Orders
  BY <1>1, <1>3, <1>4, <1>5 DEF Holding
<1>7. IsFiniteSet(Holding) /\ IsFiniteSet(Holding \ {s})
  BY <1>1, <1>6, AskedNat, FS_Subset
<1>8. ASSUME NEW sku \in DOMAIN stock
      PROVE  stock'[sku] + Total(Asked(sku)', Holding \ {s}) = InitialStock[sku]
  <2>1. PICK g : g = Asked(sku)
    OBVIOUS
  <2>2. Asked(sku)' = g
    BY <1>1, <2>1 DEF Asked
  <2>3. \A o \in Holding : g[o] \in Nat
    BY <1>1, <1>6, <2>1, AskedNat
  <2>4. Total(g, Holding) = g[s] + Total(g, Holding \ {s})
    BY <1>6, <1>7, <2>3, TotalMember
  <2>5. Total(g, Holding \ {s}) \in Nat
    BY <1>7, <2>3, TotalMember
  <2>6. stock[sku] + Total(g, Holding) = InitialStock[sku] /\ stock[sku] \in Int
    BY <1>1, <2>1 DEF Balance, WorkflowInv, SagaTypeOK, Quantities
  <2>7. stock'[sku] = stock[sku] + g[s] /\ g[s] \in Nat
    <3>1. pc[d] = "handling"
      BY <1>1, Handling
    <3>2. sku \in DOMAIN loaded[d] => loaded[d][sku] = stock[sku]
      BY <3>1 DEF ShelfFresh
    <3>3. g[s] = Ordered(Items(e), sku)
      BY <1>2, <2>1 DEF Asked, Items
    <3>4. /\ g[s] \in Nat
          /\ g[s] = 0 => stock'[sku] = stock[sku]
          /\ g[s] # 0 => sku \in DOMAIN loaded[d] /\ stock'[sku] = loaded[d][sku] + g[s]
      BY <3>3 DEF MovesStock
    <3> QED
      BY <2>6, <3>2, <3>4
  <2> QED
    BY <2>2, <2>4, <2>5, <2>6, <2>7
<1>9. DOMAIN stock' = DOMAIN stock
  BY DEF MovesStock
<1> QED
  BY <1>6, <1>8, <1>9 DEF Balance

\* What is missing from the shelf is what the orders hold.
LEMMA BalanceStep ==
  ASSUME OneDispatcher, ChainFacts, ChainFacts', ChainInv, ShelfFresh, Balance,
         [SagaNext]_sagaVars
  PROVE  Balance'
<1>1. WorkflowInv /\ SagaInv
  BY DEF ChainFacts, WorkflowInv
<1>2. ASSUME NEW n \in Events' \ Events, NEW e \in Events, Follows(n, e) PROVE Balance'
  <2>1. ASSUME NEW d \in Dispatchers, ReserveInventory(d) \/ ReleaseInventory(d) PROVE Balance'
    BY <1>1, <1>2, <2>1, FollowsMoving, ReserveBalances, ReleaseBalances
  <2>2. CASE stock' = stock /\ outbox'[n].type \notin {"InventoryReserved", "InventoryReleased"}
    <3>1. Orders' = Orders
      BY <1>2 DEF Follows, Effect, Orders
    <3>2. \A o \in Orders :
            /\ Happened(o, "InventoryReserved")' <=> Happened(o, "InventoryReserved")
            /\ Happened(o, "InventoryReleased")' <=> Happened(o, "InventoryReleased")
      BY <1>1, <1>2, <2>2, AfterFollowUp
    <3>3. Holding' = Holding
      BY <3>1, <3>2 DEF Holding
    <3> QED
      BY <1>1, <2>2, <3>3, SameHolding
  <2> QED
    BY <1>2, <2>1, <2>2 DEF Follows, Effect
<1>3. ASSUME ~\E n \in Events' \ Events : \E e \in Events : Follows(n, e) PROVE Balance'
  <2>1. \A o : /\ o \in Orders =>
                    /\ Happened(o, "InventoryReserved")' <=> Happened(o, "InventoryReserved")
                    /\ Happened(o, "InventoryReleased")' <=> Happened(o, "InventoryReleased")
               /\ o \notin Orders => ~Happened(o, "InventoryReserved")'
    BY <1>1, <1>3, NothingFollows
  <2>2. Orders \subseteq Orders'
    BY <1>1, AskedKept
  <2>3. Holding' = Holding
    BY <2>1, <2>2 DEF Holding
  <2>4. ASSUME NEW d \in Dispatchers, ReserveInventory(d) \/ ReleaseInventory(d) PROVE FALSE
    <3>1. PICK e \in Events :
            \/ MovesStock(d, e, "OrderCreated") /\ Emits(e, "InventoryReserved")
            \/ MovesStock(d, e, "PaymentFailed") /\ Emits(e, "InventoryReleased")
      BY <1>1, <2>4, MovingStock
    <3> QED
      BY <1>1, <1>3, <3>1, EmissionFollows DEF MovesStock
  <2>5. ASSUME NEW sku \in Skus, CreateInventoryItem(sku), NEW s \in DOMAIN stock'
        PROVE  \/ s \in DOMAIN stock /\ stock'[s] = stock[s]
               \/ s \notin DOMAIN stock /\ stock'[s] = InitialStock[s] /\ InitialStock[s] \in Nat
    BY <2>5, SagaAssumption DEF CreateInventoryItem
  <2> QED
    BY <1>1, <2>3, <2>4, <2>5, SameHolding, Writers
<1> QED
  BY <1>2, <1>3

\* What the library's sum over the orders that hold stock is computed by.
IteratesOrders(f, sku, S) ==
  f = [s \in SUBSET S |->
         IF s = {} THEN 0
         ELSE Ordered(orders[CHOOSE x \in s : TRUE].items, sku)
              + f[s \ {CHOOSE x \in s : TRUE}]]

\* The library's sum is the total of what the orders ask for.
LEMMA HeldTotal ==
  ASSUME NEW sku, NEW S, S \subseteq Orders, IsFiniteSet(S)
  PROVE  MapThenSumSet(LAMBDA o : Ordered(orders[o].items, sku), S) = Total(Asked(sku), S)
<1> DEFINE iter == CHOOSE f : IteratesOrders(f, sku, S)
<1>1. MapThenSumSet(LAMBDA o : Ordered(orders[o].items, sku), S) = iter[S]
  BY DEF MapThenSumSet, MapThenFoldSet, IteratesOrders
<1>2. PICK g : g = Asked(sku)
  OBVIOUS
<1>3. \A s \in SUBSET S : s # {} => g[Pick(s)] = Ordered(orders[Pick(s)].items, sku)
  BY <1>2, Picked DEF Asked
<1>4. PICK f : AddsUp(f, g, S)
  BY AddsUpExists
<1>5. ASSUME NEW k
      PROVE  [s \in SUBSET S |-> IF s = {} THEN 0 ELSE g[Pick(s)] + k[s \ {Pick(s)}]]
             = [s \in SUBSET S |->
                  IF s = {} THEN 0
                  ELSE Ordered(orders[Pick(s)].items, sku) + k[s \ {Pick(s)}]]
  BY <1>3
<1>6. IteratesOrders(f, sku, S)
  <2>1. f = [s \in SUBSET S |-> IF s = {} THEN 0 ELSE g[Pick(s)] + f[s \ {Pick(s)}]]
    BY <1>4 DEF AddsUp
  <2>2. [s \in SUBSET S |-> IF s = {} THEN 0 ELSE g[Pick(s)] + f[s \ {Pick(s)}]]
        = [s \in SUBSET S |->
             IF s = {} THEN 0 ELSE Ordered(orders[Pick(s)].items, sku) + f[s \ {Pick(s)}]]
    BY <1>5
  <2> QED
    BY <2>1, <2>2, Zenon DEF IteratesOrders, Pick
<1>7. IteratesOrders(iter, sku, S)
  BY <1>6, Zenon
<1> HIDE DEF iter
<1>8. AddsUp(iter, g, S)
  <2>1. iter = [s \in SUBSET S |->
                  IF s = {} THEN 0
                  ELSE Ordered(orders[Pick(s)].items, sku) + iter[s \ {Pick(s)}]]
    BY <1>7, Zenon DEF IteratesOrders, Pick
  <2> QED
    BY <1>5, <2>1, Zenon DEF AddsUp
<1> DEFINE T == S
<1>9. T = S /\ T \subseteq S /\ Agree(g, g, T)
  BY DEF Agree
<1> HIDE DEF T
<1>10. iter[T] = Total(g, T)
  BY <1>8, <1>9, TotalIs
<1> QED
  BY <1>1, <1>2, <1>9, <1>10

\* The balance, in the words of the property.
LEMMA BalanceMeans == WorkflowInv /\ Balance => StockConserved
<1> SUFFICES ASSUME WorkflowInv, Balance PROVE StockConserved
  OBVIOUS
<1>1. Holding \subseteq Orders /\ IsFiniteSet(Holding)
  BY AskedNat DEF Holding
<1>2. ASSUME NEW sku \in DOMAIN stock
      PROVE  stock[sku] + MapThenSumSet(LAMBDA o : Ordered(orders[o].items, sku), Holding)
             = InitialStock[sku]
  BY <1>1, HeldTotal DEF Balance
<1> QED
  BY <1>2, Zenon DEF StockConserved, Holding

-----------------------------------------------------------------------------
(* The promises about orders                                               *)

\* The tables tell what has happened; with one dispatcher the shelf does too.
TellsInv == LedgerTells /\ StatusTells

ShelfInv == ShelfFresh /\ Balance

\* Every step keeps the two.
LEMMA TellsInductive ==
  /\ SagaInit => TellsInv /\ ShelfInv
  /\ ChainFacts /\ ChainFacts' /\ ChainInv /\ TellsInv /\ [SagaNext]_sagaVars => TellsInv'
  /\ OneDispatcher /\ ChainFacts /\ ChainFacts' /\ ChainInv /\ ShelfInv /\ [SagaNext]_sagaVars
       => ShelfInv'
<1>1. ASSUME SagaInit PROVE TellsInv /\ ShelfInv
  <2>1. Orders = {} /\ DOMAIN stock = {} /\ \A d \in Dispatchers : DOMAIN loaded[d] = {}
    BY <1>1 DEF SagaInit, Orders
  <2> QED
    BY <2>1 DEF TellsInv, ShelfInv, LedgerTells, StatusTells, ShelfFresh, Balance
<1>2. ChainFacts => SagaInv /\ WorkflowInv
  BY DEF ChainFacts, WorkflowInv
<1>3. ASSUME ChainFacts, ChainFacts', ChainInv, TellsInv, [SagaNext]_sagaVars PROVE TellsInv'
  BY <1>2, <1>3, LedgerTellsStep, StatusTellsStep DEF TellsInv
<1>4. ASSUME OneDispatcher, ChainFacts, ChainFacts', ChainInv, ShelfInv, [SagaNext]_sagaVars
      PROVE  ShelfInv'
  BY <1>2, <1>4, ShelfFreshStep, BalanceStep DEF ShelfInv
<1> QED
  BY <1>1, <1>3, <1>4

\* All that is known of the orders.
LEMMA EverythingTold == SafeReplays => (SagaSpec => [](ChainFacts /\ ChainInv /\ TellsInv))
<1> SUFFICES ASSUME SafeReplays PROVE SagaSpec => [](ChainFacts /\ ChainInv /\ TellsInv)
  OBVIOUS
<1>1. SagaSpec => []ChainFacts
  BY ChainFactsHold
<1>2. SagaSpec => []ChainInv
  BY ChainInvariant
<1> QED
  BY <1>1, <1>2, TellsInductive, PTL DEF SagaSpec

\* The ledger of an order, by the end of its trail.
LEMMA TrailEnds ==
  ASSUME SagaInv, ChainInv, NEW o \in Orders
  PROVE  /\ Len(Trail(o).payments) <= 1
         /\ Trail(o).invoices <= Len(Trail(o).payments)
         /\ Trail(o).notifications <= Trail(o).invoices
         /\ Happened(o, "NotificationSent") =>
              /\ Trail(o) = [payments |-> <<"AUTHORIZED">>, invoices |-> 1, notifications |-> 1]
              /\ Happened(o, "InventoryReserved") /\ ~Happened(o, "InventoryReleased")
         /\ Happened(o, "InventoryReleased") =>
              Trail(o) = [payments |-> <<"FAILED">>, invoices |-> 0, notifications |-> 0]
<1>1. /\ Happened(o, "NotificationSent") => Happened(o, "InvoiceCreated")
      /\ Happened(o, "InvoiceCreated") => Happened(o, "PaymentAuthorized")
      /\ Happened(o, "PaymentAuthorized") => Happened(o, "InventoryReserved")
      /\ Happened(o, "InventoryReleased") => Happened(o, "PaymentFailed")
  BY WayTo DEF ChainInv
<1>2. ~(Happened(o, "PaymentAuthorized") /\ Happened(o, "PaymentFailed"))
  BY DEF ChainInv, OneBranch
<1>3. Trail(o) = [payments |-> IF Happened(o, "PaymentAuthorized") THEN <<"AUTHORIZED">>
                               ELSE IF Happened(o, "PaymentFailed") THEN <<"FAILED">> ELSE <<>>,
                  invoices |-> IF Happened(o, "InvoiceCreated") THEN 1 ELSE 0,
                  notifications |-> IF Happened(o, "NotificationSent") THEN 1 ELSE 0]
  BY DEF Trail, TrailRow
<1>4. Len(<<"AUTHORIZED">>) = 1 /\ Len(<<"FAILED">>) = 1 /\ Len(<<>>) = 0
  OBVIOUS
<1> QED
  BY <1>1, <1>2, <1>3, <1>4

\* Any dispatchers if nobody replays, else one reliable dispatcher and one operator:
\* an order is charged, invoiced and notified at most once, in that order, through
\* every retry, interruption, redelivery and replay.
THEOREM ChargesOnce == SafeReplays => (SagaSpec => []ChargedOnce)
<1> SUFFICES ASSUME SafeReplays PROVE SagaSpec => []ChargedOnce
  OBVIOUS
<1>1. ChainFacts /\ ChainInv /\ TellsInv => ChargedOnce
  BY TrailEnds DEF ChainFacts, WorkflowInv, TellsInv, LedgerTells, ChargedOnce
<1> QED
  BY <1>1, EverythingTold, PTL

\* Any dispatchers if nobody replays, else one reliable dispatcher and one operator:
\* what an order's status says is what its ledger and its events say.
THEOREM DecisionsJustified == SafeReplays => (SagaSpec => []DecisionJustified)
<1> SUFFICES ASSUME SafeReplays PROVE SagaSpec => []DecisionJustified
  OBVIOUS
<1>1. ChainFacts /\ ChainInv /\ TellsInv => DecisionJustified
  BY TrailEnds DEF ChainFacts, WorkflowInv, TellsInv, LedgerTells, StatusTells, DecisionJustified
<1> QED
  BY <1>1, EverythingTold, PTL

\* A decided order is projected to the decision it has.
LEMMA DecidedStays ==
  ASSUME ChainFacts, ChainInv, TellsInv, [SagaNext]_sagaVars,
         NEW o \in Orders, orders[o].status # "PENDING"
  PROVE  orders'[o] = orders[o]
<1>1. SagaInv /\ orders \in Seq(OrderRow) /\ Orders = 1 .. Len(orders)
  BY DEF ChainFacts, WorkflowInv, SagaInv, ChainsTyped, Orders
<1>2. orders[o] \in OrderRow
  BY <1>1
<1>3. orders[o].status \in {"COMPLETED", "CANCELLED"}
  BY <1>2 DEF OrderRow, OrderStatus
<1>4. /\ orders[o].status = "COMPLETED" =>
           Happened(o, "NotificationSent") /\ ~Happened(o, "InventoryReleased")
      /\ orders[o].status = "CANCELLED" => Happened(o, "InventoryReleased")
  BY <1>1, TrailEnds DEF TellsInv, StatusTells
<1>5. Happened(o, "NotificationSent") => ~Happened(o, "InventoryReleased")
  BY <1>1, TrailEnds
<1>6. ASSUME NEW d \in Dispatchers, NEW e \in Events, NEW type, NEW status \in OrderStatus,
             Decides(d, e, type, status),
             Happened(o, type) => orders[o].status = status
      PROVE  orders'[o] = orders[o]
  <2>1. orders' = [orders EXCEPT ![subject[e]] = Decided(@, status)]
    BY <1>6 DEF Decides
  <2>2. CASE o # subject[e]
    BY <1>1, <2>1, <2>2
  <2>3. CASE o = subject[e]
    <3>1. Happened(o, type)
      BY <1>6, <2>3 DEF Decides, Handles, Happened
    <3>2. Decided(orders[o], status) = orders[o]
      BY <1>2, <1>6, <3>1, DecidedRow
    <3> QED
      BY <1>1, <2>1, <2>3, <3>2
  <2> QED
    BY <2>2, <2>3
<1>7. "COMPLETED" \in OrderStatus /\ "CANCELLED" \in OrderStatus
  BY DEF OrderStatus
<1>8. ASSUME NEW d \in Dispatchers, CompleteOrder(d) \/ CancelOrder(d)
      PROVE  orders'[o] = orders[o]
  <2>1. PICK e \in Events : \/ Decides(d, e, "NotificationSent", "COMPLETED")
                            \/ Decides(d, e, "InventoryReleased", "CANCELLED")
    BY <1>8, Projecting
  <2>2. Happened(o, "NotificationSent") => orders[o].status = "COMPLETED"
    BY <1>3, <1>4, <1>5
  <2>3. Happened(o, "InventoryReleased") => orders[o].status = "CANCELLED"
    BY <1>3, <1>4
  <2> QED
    BY <1>6, <1>7, <2>1, <2>2, <2>3
<1>9. ASSUME NEW basket \in Baskets, SubmitOrder(basket) PROVE orders'[o] = orders[o]
  <2>1. orders' = Append(orders, [status |-> "PENDING", items |-> basket])
    BY <1>9 DEF SubmitOrder
  <2> QED
    BY <1>1, <2>1
<1> QED
  BY <1>8, <1>9, Writers

\* Any dispatchers if nobody replays, else one reliable dispatcher and one operator:
\* a decided order stays as it was decided, whatever is replayed or redelivered.
THEOREM DecisionsFinal == SafeReplays => (SagaSpec => DecisionFinal)
<1> SUFFICES ASSUME SafeReplays PROVE SagaSpec => DecisionFinal
  OBVIOUS
<1>1. ChainFacts /\ ChainInv /\ TellsInv /\ [SagaNext]_sagaVars
        => [\A o \in Orders : orders[o].status # "PENDING" => orders'[o] = orders[o]]_sagaVars
  BY DecidedStays
<1> QED
  BY <1>1, EverythingTold, PTL DEF SagaSpec, DecisionFinal

\* One dispatcher, and replays if any by one operator while its connections do not
\* fail: no unit of stock is lost or invented.
THEOREM StockIsConserved == OneDispatcher /\ SafeReplays => (SagaSpec => []StockConserved)
<1> SUFFICES ASSUME OneDispatcher, SafeReplays PROVE SagaSpec => []StockConserved
  OBVIOUS
<1>1. SagaSpec => [](ChainFacts /\ ChainInv)
  BY EverythingTold, PTL
<1>2. ShelfInv /\ ChainFacts /\ ChainFacts' /\ ChainInv /\ [SagaNext]_sagaVars => ShelfInv'
  BY TellsInductive
<1>3. SagaInit => ShelfInv
  BY TellsInductive
<1>4. ChainFacts /\ ShelfInv => StockConserved
  BY BalanceMeans DEF ChainFacts, ShelfInv
<1> QED
  BY <1>1, <1>2, <1>3, <1>4, PTL DEF SagaSpec

-----------------------------------------------------------------------------
(* The shelf never goes below zero, for any dispatchers, as long as no order *)
(* names an item twice: the check of the quantities looks at one line at a   *)
(* time.                                                                     *)

OneLinePerItem ==
  \A basket \in Baskets : \A i, j \in 1 .. Len(basket) : basket[i].sku = basket[j].sku => i = j

\* Nothing on the shelf, or read from it, is below zero.
NothingNegative ==
  /\ \A sku \in DOMAIN stock : stock[sku] >= 0
  /\ \A d \in Dispatchers : \A sku \in DOMAIN loaded[d] : loaded[d][sku] >= 0

\* What an order asks for of an item is what its only line for it asks for.
LEMMA OrderedOnce ==
  ASSUME OneLinePerItem, NEW items \in Baskets, NEW i \in 1 .. Len(items)
  PROVE  Ordered(items, items[i].sku) = items[i].quantity
<1> DEFINE sku == items[i].sku
           lines == {j \in 1 .. Len(items) : items[j].sku = sku}
           g == [j \in lines |-> items[j].quantity]
<1>1. lines = {i}
  BY DEF OneLinePerItem
<1>2. IsFiniteSet(lines)
  BY <1>1, FS_Singleton
<1>3. Ordered(items, sku) = Total(g, lines)
  BY <1>2, OrderedTotal
<1>4. items[i].quantity \in Nat
  <2>1. Baskets \subseteq Seq(Line)
    BY SagaAssumption, Zenon DEF Line
  <2>2. items \in Seq(Line)
    BY <2>1
  <2>3. items[i] \in Line
    BY <2>2
  <2> QED
    BY <2>3 DEF Line
<1>5. g[i] = items[i].quantity /\ i \in lines /\ \A j \in lines : g[j] \in Nat
  BY <1>1, <1>4
<1>6. lines \ {i} = {}
  BY <1>1
<1> HIDE DEF g
<1>7. Total(g, lines) = g[i] + Total(g, lines \ {i})
  <2> HIDE DEF lines
  <2> QED
    BY <1>2, <1>5, TotalMember
<1>8. Total(g, lines \ {i}) = 0
  BY <1>6, TotalEmpty
<1> HIDE DEF lines
<1>9. Total(g, lines) = items[i].quantity
  BY <1>4, <1>5, <1>7, <1>8
<1> QED
  BY <1>3, <1>9

\* A reservation takes no more than the handler has read.
LEMMA TakesNoMore ==
  ASSUME OneLinePerItem, WorkflowInv, NEW d \in Dispatchers, NEW e \in Events,
         MovesStock(d, e, "OrderCreated"), Available(loaded[d], Items(e)),
         NothingNegative
  PROVE  \A sku \in DOMAIN stock' : stock'[sku] >= 0
<1>1. Items(e) \in Baskets
  <2>1. subject[e] \in Orders /\ orders \in Seq(OrderRow)
    BY SubjectOf DEF WorkflowInv, SagaInv, ChainsTyped
  <2>2. orders[subject[e]] \in OrderRow
    BY <2>1 DEF Orders
  <2> QED
    BY <2>2 DEF OrderRow, Items
<1>2. ASSUME NEW sku \in DOMAIN stock, Ordered(Items(e), sku) # 0
      PROVE  loaded[d][sku] >= Ordered(Items(e), sku)
  <2>1. PICK i \in 1 .. Len(Items(e)) : Items(e)[i].sku = sku
    BY <1>1, <1>2, OrderedNat
  <2>2. Ordered(Items(e), sku) = Items(e)[i].quantity
    BY <1>1, <2>1, OrderedOnce
  <2> QED
    BY <2>1, <2>2 DEF Available
<1>3. Quantities(stock) /\ Quantities(loaded[d])
  BY DEF WorkflowInv, SagaTypeOK
<1>4. ASSUME NEW sku \in DOMAIN stock PROVE stock'[sku] >= 0
  <2>1. PICK n : n = Ordered(Items(e), sku)
    OBVIOUS
  <2>2. /\ n \in Nat
        /\ n = 0 => stock'[sku] = stock[sku]
        /\ n # 0 => sku \in DOMAIN loaded[d] /\ stock'[sku] = loaded[d][sku] - n
    BY <2>1 DEF MovesStock
  <2>3. stock[sku] >= 0 /\ (sku \in DOMAIN loaded[d] => loaded[d][sku] \in Int)
    BY <1>3 DEF NothingNegative, Quantities
  <2>4. n # 0 => loaded[d][sku] >= n
    BY <1>2, <2>1
  <2> QED
    BY <2>2, <2>3, <2>4
<1> QED
  BY <1>4 DEF MovesStock

\* What a release gives back is more than nothing.
LEMMA GivesBack ==
  ASSUME WorkflowInv, NEW d \in Dispatchers, NEW e \in Events,
         MovesStock(d, e, "PaymentFailed"), NothingNegative
  PROVE  \A sku \in DOMAIN stock' : stock'[sku] >= 0
<1>1. Quantities(stock) /\ Quantities(loaded[d])
  BY DEF WorkflowInv, SagaTypeOK
<1>2. ASSUME NEW sku \in DOMAIN stock PROVE stock'[sku] >= 0
  <2>1. PICK n : n = Ordered(Items(e), sku)
    OBVIOUS
  <2>2. /\ n \in Nat
        /\ n = 0 => stock'[sku] = stock[sku]
        /\ n # 0 => sku \in DOMAIN loaded[d] /\ stock'[sku] = loaded[d][sku] + n
    BY <2>1 DEF MovesStock
  <2>3. /\ stock[sku] >= 0
        /\ sku \in DOMAIN loaded[d] => loaded[d][sku] \in Int /\ loaded[d][sku] >= 0
    BY <1>1 DEF NothingNegative, Quantities
  <2> QED
    BY <2>2, <2>3
<1> QED
  BY <1>2 DEF MovesStock

\* No step takes the shelf, or what a handler has read of it, below zero.
LEMMA NothingNegativeStep ==
  ASSUME OneLinePerItem, WorkflowInv, NothingNegative, [SagaNext]_sagaVars
  PROVE  NothingNegative'
<1>1. SagaInv /\ DOMAIN loaded = Dispatchers
  BY DEF WorkflowInv, SagaTypeOK
<1>2. ASSUME NEW sku \in Skus, CreateInventoryItem(sku), NEW s \in DOMAIN stock'
      PROVE  stock'[s] >= 0
  BY <1>2, SagaAssumption DEF CreateInventoryItem, NothingNegative
<1>3. ASSUME NEW d \in Dispatchers, ReserveInventory(d) \/ ReleaseInventory(d)
      PROVE  \A s \in DOMAIN stock' : stock'[s] >= 0
  <2>1. PICK e \in Events :
          \/ MovesStock(d, e, "OrderCreated") /\ ReserveInventory(d)
          \/ MovesStock(d, e, "PaymentFailed")
    BY <1>3, MovingStock
  <2>2. CASE MovesStock(d, e, "OrderCreated") /\ ReserveInventory(d)
    <3>1. PICK f \in Events : Handles(d, f, "OrderCreated") /\ Available(loaded[d], Items(f))
      BY <2>2 DEF ReserveInventory
    <3>2. Current(d, e) /\ Current(d, f)
      BY <2>2, <3>1 DEF MovesStock, Handles
    <3>3. e = f
      BY <1>1, <3>2, OneCurrent DEF SagaInv
    <3> QED
      BY <2>2, <3>1, <3>3, TakesNoMore
  <2> QED
    BY <2>1, <2>2, GivesBack
<1>4. \A s \in DOMAIN stock' : stock'[s] >= 0
  BY <1>2, <1>3, Writers DEF NothingNegative
<1>5. ASSUME NEW c \in Dispatchers, BeginHandler(c), NEW d \in Dispatchers,
             NEW s \in DOMAIN loaded'[d]
      PROVE  loaded'[d][s] >= 0
  BY <1>1, <1>5 DEF BeginHandler, NothingNegative
<1>6. \A d \in Dispatchers : \A s \in DOMAIN loaded'[d] : loaded'[d][s] >= 0
  BY <1>5, Writers DEF NothingNegative
<1> QED
  BY <1>4, <1>6 DEF NothingNegative

\* Any number of dispatchers: the shelf never goes below zero if no order names an item
\* twice.  Orders that do are what the run that refutes the promise is about
\* (_ensure_inventory_available).
THEOREM ShelfNeverNegative == OneLinePerItem => (SagaSpec => []NeverOversold)
<1> SUFFICES ASSUME OneLinePerItem PROVE SagaSpec => []NeverOversold
  OBVIOUS
<1>1. OneLinePerItem
  OBVIOUS
<1>2. SagaInit => NothingNegative
  BY DEF SagaInit, NothingNegative
<1>3. WorkflowInv /\ NothingNegative /\ [SagaNext]_sagaVars => NothingNegative'
  BY <1>1, NothingNegativeStep
<1>4. NothingNegative => NeverOversold
  BY DEF NothingNegative, NeverOversold
<1> QED
  BY <1>2, <1>3, <1>4, WorkflowInvariant, PTL DEF SagaSpec

=============================================================================
