------------------------------ MODULE ApiProofs ------------------------------
(***************************************************************************)
(* Theorems about ApiIdempotency, for every number of requests, keys,      *)
(* bodies, crashes and expiries.                                           *)
(***************************************************************************)
EXTENDS ApiIdempotency, FiniteSetTheorems, TLAPS

Order == [key : Keys, body : Bodies, epoch : Nat, seen : Nat]

Request ==
  [pc : Running \cup {"idle", "done"}, key : Keys, body : Bodies, replaces : BOOLEAN,
   seen : Nat, order : Orders \cup {0}, reply : Replies]

-----------------------------------------------------------------------------
(* The inductive invariant                                                 *)

\* A request that holds the key, or is about to take it from an expired row, looked
\* at that row before any order of the current epoch.
Taking(r) ==
  (IsAt(r, "inserting") \/ IsAt(r, "ordering")) /\ requests[r].replaces =>
    /\ epoch[Key(r)] > 0
    /\ \A i \in Orders : orders[i].key = Key(r) /\ orders[i].epoch = epoch[Key(r)]
                           => requests[r].seen < i

\* A request that holds a key it found free keeps everybody else from committing it.
Holding(r) == IsAt(r, "ordering") => requests[r].replaces \/ keys[Key(r)] = Absent

\* A request between its two commits has made an order of the current epoch.
Storing(r) ==
  IsAt(r, "storing") =>
    /\ keys[Key(r)] # Absent /\ ~keys[Key(r)].expired
    /\ requests[r].order \in Orders
    /\ orders[requests[r].order].key = Key(r)
    /\ orders[requests[r].order].body = requests[r].body
    /\ orders[requests[r].order].epoch = epoch[Key(r)]

\* What a client was told of exists and agrees with its request.
Told(r) ==
  requests[r].reply \in {"created", "stored"} =>
    /\ requests[r].order \in Orders
    /\ orders[requests[r].order].key = Key(r)
    /\ orders[requests[r].order].body = requests[r].body \/ Contested(requests[r].order)

\* Nothing is told before the end.
Silent(r) == requests[r].pc # "done" => requests[r].reply = "none"

RequestOK(r) ==
  /\ requests[r].seen <= Len(orders)
  /\ Taking(r) /\ Holding(r) /\ Storing(r) /\ Told(r) /\ Silent(r)

\* A row describes an order; a live row one of the current epoch, and an expired row
\* belongs to an earlier epoch, as all orders made with its key do.
KeyOK(k) ==
  keys[k] # Absent =>
    /\ keys[k].version \in Orders
    /\ orders[keys[k].version].key = k
    /\ orders[keys[k].version].body = keys[k].body
    /\ keys[k].response # 0 => Rivals(keys[k].response, keys[k].version)
    /\ ~keys[k].expired => orders[keys[k].version].epoch = epoch[k]
    /\ keys[k].expired =>
         epoch[k] > 0 /\ \A i \in Orders : orders[i].key = k => orders[i].epoch < epoch[k]

OrderOK(i) == keys[orders[i].key] # Absent /\ orders[i].epoch <= epoch[orders[i].key]

\* The primary key: two transactions never hold uncommitted rows of one key.
Exclusive ==
  \A r, s \in Requests :
    IsAt(r, "ordering") /\ IsAt(s, "ordering") /\ Key(r) = Key(s) => r = s

ApiInv ==
  /\ TypeOK
  /\ \A r \in Requests : RequestOK(r)
  /\ \A k \in Keys : KeyOK(k)
  /\ \A i \in Orders : OrderOK(i)
  /\ Exclusive
  /\ DuplicatesOverlap

-----------------------------------------------------------------------------

\* Appending an order keeps the orders there are.
LEMMA AppendOrder ==
  ASSUME NEW S, NEW s \in Seq(S), NEW r \in S
  PROVE  /\ Append(s, r) \in Seq(S)
         /\ Len(Append(s, r)) = Len(s) + 1
         /\ \A i \in 1 .. Len(s) : Append(s, r)[i] = s[i]
         /\ Append(s, r)[Len(s) + 1] = r
  OBVIOUS

\* The absent row is no row, and describes no order.
LEMMA AbsentFacts ==
  /\ Absent \notin KeyRow
  /\ Absent.expired = FALSE /\ Absent.response = 0 /\ Absent.version = 0
  BY ApiAssumption DEF Absent, KeyRow

\* Orders are what their definition says.
LEMMA OrderTypes ==
  ASSUME TypeOK, NEW i \in Orders
  PROVE  orders[i] \in Order /\ orders[i].key \in Keys /\ orders[i].epoch \in Nat
<1>1. orders \in Seq(Order)
  BY DEF TypeOK, Order
<1>2. orders[i] \in Order
  BY <1>1 DEF Orders
<1> QED
  BY <1>2 DEF Order

\* The type invariant in terms of the sets above.
LEMMA Types ==
  TypeOK <=>
    /\ keys \in [Keys -> KeyRow \cup {Absent}]
    /\ \A k \in Keys : {keys[k].response, keys[k].version} \subseteq Orders \cup {0}
    /\ orders \in Seq(Order)
    /\ requests \in [Requests -> Request]
    /\ epoch \in [Keys -> 0 .. MaxExpiries]
    /\ crashes \in 0 .. MaxCrashes
  BY DEF TypeOK, Order, Request

\* Initially nothing is committed and nobody runs.
LEMMA ApiInitially == Init => ApiInv
<1> SUFFICES ASSUME Init PROVE ApiInv
  OBVIOUS
<1> USE ApiAssumption
<1>1. Orders = {} /\ Len(orders) = 0
  BY DEF Init, Orders
<1>2. TypeOK
  <2>1. keys \in [Keys -> KeyRow \cup {Absent}] /\ epoch \in [Keys -> 0 .. MaxExpiries]
    BY DEF Init
  <2>2. \A k \in Keys : keys[k] = Absent
    BY DEF Init
  <2>3. \A k \in Keys : {keys[k].response, keys[k].version} \subseteq Orders \cup {0}
    BY <2>2, AbsentFacts
  <2>4. orders \in Seq(Order) /\ crashes \in 0 .. MaxCrashes
    BY DEF Init
  <2>5. requests \in [Requests -> Request]
    <3> DEFINE fresh == [pc : {"idle"}, key : Keys, body : Bodies, replaces : {FALSE},
                         seen : {0}, order : {0}, reply : {"none"}]
    <3>1. ASSUME NEW q \in fresh PROVE q \in Request
      <4>1. q.pc \in Running \cup {"idle", "done"} /\ q.reply \in Replies
        BY DEF Running, Replies
      <4>2. q.replaces \in BOOLEAN
        OBVIOUS
      <4>3. q.key \in Keys /\ q.body \in Bodies
        OBVIOUS
      <4>4. q.seen \in Nat /\ q.order \in Orders \cup {0}
        OBVIOUS
      <4>5. q = [pc |-> q.pc, key |-> q.key, body |-> q.body, replaces |-> q.replaces,
                 seen |-> q.seen, order |-> q.order, reply |-> q.reply]
        OBVIOUS
      <4> HIDE DEF fresh
      <4> QED
        BY <4>1, <4>2, <4>3, <4>4, <4>5 DEF Request
    <3>2. requests \in [Requests -> fresh]
      BY DEF Init
    <3> QED
      BY <3>1, <3>2
  <2> QED
    BY <2>1, <2>3, <2>4, <2>5, Types
<1>3. ASSUME NEW r \in Requests PROVE RequestOK(r)
  <2>1. /\ requests[r].pc = "idle" /\ requests[r].seen = 0
        /\ requests[r].reply = "none"
    BY DEF Init
  <2> QED
    BY <1>1, <2>1 DEF RequestOK, Taking, Holding, Storing, Told, Silent, IsAt
<1>4. \A k \in Keys : KeyOK(k)
  BY DEF Init, KeyOK
<1>5. Exclusive
  BY DEF Init, Exclusive, IsAt
<1> QED
  BY <1>1, <1>2, <1>3, <1>4, <1>5 DEF ApiInv, DuplicatesOverlap

-----------------------------------------------------------------------------

\* A step of one request that commits nothing keeps the invariant, if what it says
\* of the request itself holds afterwards.
LEMMA OwnStep ==
  ASSUME ApiInv, NEW r \in Requests,
         UNCHANGED <<keys, orders, epoch>>,
         crashes' \in 0 .. MaxCrashes,
         requests' \in [Requests -> Request],
         \A s \in Requests \ {r} : requests'[s] = requests[s],
         requests'[r].key = requests[r].key,
         RequestOK(r)',
         IsAt(r, "ordering")' => Holders(Key(r)) \subseteq {r}
  PROVE  ApiInv'
<1>1. Orders' = Orders /\ Request' = Request
  BY DEF Orders, Request
<1>2. TypeOK'
  BY <1>1 DEF ApiInv, TypeOK, Request, Orders
<1>3. ASSUME NEW s \in Requests PROVE RequestOK(s)'
  <2>1. CASE s = r
    BY <2>1
  <2>2. CASE s # r
    <3>1. requests'[s] = requests[s]
      BY <2>2
    <3> QED
      BY <1>1, <3>1 DEF ApiInv, RequestOK, Taking, Holding, Storing, Told, Silent, IsAt, Key,
                        Contested, Rivals
  <2> QED
    BY <2>1, <2>2
<1>4. ASSUME NEW k \in Keys PROVE KeyOK(k)'
  BY <1>1 DEF ApiInv, KeyOK, Rivals
<1>5. ASSUME NEW i \in Orders PROVE OrderOK(i)'
  BY DEF ApiInv, OrderOK
<1>6. Exclusive'
  BY DEF ApiInv, Exclusive, IsAt, Key, Holders, InFlight, Running
<1>7. DuplicatesOverlap'
  BY <1>1 DEF ApiInv, DuplicatesOverlap, Rivals
<1> QED
  BY <1>1, <1>2, <1>3, <1>4, <1>5, <1>6, <1>7 DEF ApiInv

-----------------------------------------------------------------------------

\* Another record of a request in its place.
LEMMA Rewritten ==
  ASSUME ApiInv, NEW r \in Requests, NEW q \in Request, UNCHANGED orders,
         requests' = [requests EXCEPT ![r] = q]
  PROVE  /\ requests' \in [Requests -> Request]
         /\ \A s \in Requests \ {r} : requests'[s] = requests[s]
         /\ requests'[r] = q
  BY DEF ApiInv, TypeOK, Request

\* An answer to r that tells of no order, or of one that agrees with r.
LEMMA AnswerStep ==
  ASSUME ApiInv, NEW r \in Requests, NEW reply \in Replies, NEW order \in Orders \cup {0},
         Answer(r, reply, order), UNCHANGED <<keys, orders, epoch, crashes>>,
         reply \in {"created", "stored"} =>
           /\ order \in Orders
           /\ orders[order].key = Key(r)
           /\ orders[order].body = requests[r].body \/ Contested(order)
  PROVE  ApiInv'
<1> DEFINE q == [requests[r] EXCEPT !.pc = "done", !.reply = reply, !.order = order]
<1>1. requests[r] \in Request
  BY DEF ApiInv, TypeOK, Request
<1>2. q \in Request
  BY <1>1 DEF Request
<1>3. requests' = [requests EXCEPT ![r] = q]
  BY DEF Answer
<1>4. /\ requests' \in [Requests -> Request]
      /\ \A s \in Requests \ {r} : requests'[s] = requests[s]
      /\ requests'[r] = q
  BY <1>2, <1>3, Rewritten
<1>5. /\ q.pc = "done" /\ q.reply = reply /\ q.order = order
      /\ q.key = requests[r].key /\ q.body = requests[r].body /\ q.seen = requests[r].seen
  BY <1>1 DEF Request
<1> HIDE DEF q
<1>6. RequestOK(r)'
  <2>1. Told(r)'
    BY <1>4, <1>5 DEF Told, Key, Contested, Rivals, Orders
  <2> QED
    BY <1>4, <1>5, <2>1 DEF ApiInv, RequestOK, Taking, Holding, Storing, Silent, IsAt
<1>7. crashes' \in 0 .. MaxCrashes
  BY DEF ApiInv, TypeOK
<1> QED
  BY <1>4, <1>5, <1>6, <1>7, OwnStep DEF IsAt

\* A request goes to a step in which it holds nothing and has told nothing.
LEMMA GotoStep ==
  ASSUME ApiInv, NEW r \in Requests, NEW step \in {"looking", "done"},
         requests[r].pc # "done", Goto(r, step),
         UNCHANGED <<keys, orders, epoch>>, crashes' \in 0 .. MaxCrashes
  PROVE  ApiInv'
<1> DEFINE q == [requests[r] EXCEPT !.pc = step]
<1>1. requests[r] \in Request
  BY DEF ApiInv, TypeOK, Request
<1>2. q \in Request
  BY <1>1 DEF Request, Running
<1>3. requests' = [requests EXCEPT ![r] = q]
  BY DEF Goto
<1>4. /\ requests' \in [Requests -> Request]
      /\ \A s \in Requests \ {r} : requests'[s] = requests[s]
      /\ requests'[r] = q
  BY <1>2, <1>3, Rewritten
<1>5. /\ q.pc = step /\ q.reply = requests[r].reply /\ q.order = requests[r].order
      /\ q.key = requests[r].key /\ q.body = requests[r].body /\ q.seen = requests[r].seen
  BY <1>1 DEF Request
<1> HIDE DEF q
<1>6. RequestOK(r)'
  BY <1>4, <1>5 DEF ApiInv, RequestOK, Taking, Holding, Storing, Told, Silent, IsAt, Key,
                    Contested, Rivals, Orders
<1> QED
  BY <1>4, <1>5, <1>6, OwnStep DEF IsAt

\* The client's request has committed nothing yet.
LEMMA SendKeeps ==
  ASSUME ApiInv, NEW r \in Requests, Send(r)
  PROVE  ApiInv'
  BY GotoStep DEF Send, IsAt, ApiInv, TypeOK

\* What a request has committed survives it.
LEMMA CrashKeeps ==
  ASSUME ApiInv, NEW r \in Requests, Crash(r)
  PROVE  ApiInv'
<1>1. crashes' \in 0 .. MaxCrashes
  BY ApiAssumption DEF Crash, ApiInv, TypeOK
<1> QED
  BY <1>1, GotoStep DEF Crash, Running

\* Nobody but the finder of an expired row, in an epoch without orders, takes a key.
LEMMA FindFreeKeeps ==
  ASSUME ApiInv, NEW r \in Requests, FindFree(r)
  PROVE  ApiInv'
<1> DEFINE k == Key(r)
           q == [requests[r] EXCEPT !.pc = "inserting", !.seen = Len(orders),
                                    !.replaces = (keys[k] # Absent)]
<1>1. requests[r] \in Request /\ Len(orders) \in Nat /\ k \in Keys
  BY DEF ApiInv, TypeOK, Request, Key
<1>2. q \in Request
  <2>1. (keys[k] # Absent) \in BOOLEAN
    OBVIOUS
  <2> QED
    BY <1>1, <2>1 DEF Request, Running
<1>3. requests' = [requests EXCEPT ![r] = q]
  BY DEF FindFree, Reserve
<1>4. UNCHANGED <<keys, orders, epoch, crashes>>
  BY DEF FindFree
<1>5. /\ requests' \in [Requests -> Request]
      /\ \A s \in Requests \ {r} : requests'[s] = requests[s]
      /\ requests'[r] = q
  BY <1>2, <1>3, <1>4, Rewritten
<1>6. /\ q.pc = "inserting" /\ q.seen = Len(orders) /\ q.reply = requests[r].reply
      /\ q.order = requests[r].order /\ q.key = k /\ q.body = requests[r].body
      /\ q.replaces <=> keys[k] # Absent
  BY <1>1 DEF Request, Key
<1>7. keys[k] # Absent => keys[k].expired
  BY DEF FindFree
<1> HIDE DEF q
<1>11. requests[r].reply = "none"
  BY DEF FindFree, ApiInv, RequestOK, Silent, IsAt
<1>8. Taking(r)'
  <2>1. ASSUME keys[k] # Absent
        PROVE  epoch[k] > 0 /\ \A i \in Orders : orders[i].key = k => orders[i].epoch < epoch[k]
    BY <1>1, <1>7, <2>1 DEF ApiInv, KeyOK
  <2>2. epoch[k] \in Int
    BY <1>1 DEF ApiInv, TypeOK
  <2> QED
    BY <1>4, <1>5, <1>6, <2>1, <2>2 DEF Taking, IsAt, Key, Orders
<1>9. RequestOK(r)'
  BY <1>1, <1>4, <1>5, <1>6, <1>8, <1>11 DEF RequestOK, Holding, Storing, Told, Silent, IsAt
<1>10. crashes' \in 0 .. MaxCrashes
  BY <1>4 DEF ApiInv, TypeOK
<1> QED
  BY <1>4, <1>5, <1>6, <1>9, <1>10, OwnStep DEF IsAt, Key

\* A stored response tells of the order of the row, or of its rival.
LEMMA FindRowKeeps ==
  ASSUME ApiInv, NEW r \in Requests, FindRow(r)
  PROVE  ApiInv'
<1> DEFINE k == Key(r)
<1>1. k \in Keys /\ keys[k] # Absent /\ keys[k].response \in Orders \cup {0}
  BY DEF ApiInv, TypeOK, Key, FindRow
<1>2. CASE Answer(r, "conflict", 0) \/ Answer(r, "in progress", 0)
  BY <1>2, AnswerStep DEF FindRow, Replies
<1>3. CASE /\ keys[k].body = requests[r].body
           /\ keys[k].response # 0
           /\ Answer(r, "stored", keys[k].response)
  <2> DEFINE i == keys[k].response
             v == keys[k].version
  <2>1. i \in Orders /\ v \in Orders
    BY <1>1, <1>3 DEF ApiInv, KeyOK
  <2>2. Rivals(i, v) /\ orders[v].key = k /\ orders[v].body = requests[r].body
    BY <1>1, <1>3 DEF ApiInv, KeyOK
  <2>3. orders[i].key = k
    BY <2>2 DEF Rivals
  <2>4. orders[i].body = requests[r].body \/ Contested(i)
    BY <2>1, <2>2 DEF Contested, Rivals
  <2> QED
    BY <1>3, <2>1, <2>3, <2>4, AnswerStep DEF FindRow, Replies
<1> QED
  BY <1>2, <1>3 DEF FindRow

\* A request that ends without a commit leaves the tables alone.
LEMMA RefusalsKeep ==
  ASSUME ApiInv, NEW r \in Requests, InsertFails(r) \/ RejectOrder(r) \/ StoreFails(r)
  PROVE  ApiInv'
  BY AnswerStep DEF InsertFails, RejectOrder, StoreFails, Replies

-----------------------------------------------------------------------------

\* The primary key: whoever flushes a row is alone, and met no row or an expired one.
LEMMA InsertKeyKeeps ==
  ASSUME ApiInv, NEW r \in Requests, InsertKey(r)
  PROVE  ApiInv'
<1> DEFINE q == [requests[r] EXCEPT !.pc = "ordering"]
<1>1. requests[r] \in Request
  BY DEF ApiInv, TypeOK, Request
<1>2. q \in Request
  BY <1>1 DEF Request, Running
<1>3. requests' = [requests EXCEPT ![r] = q]
  BY DEF InsertKey, Goto
<1>4. UNCHANGED <<keys, orders, epoch, crashes>>
  BY DEF InsertKey
<1>5. /\ requests' \in [Requests -> Request]
      /\ \A s \in Requests \ {r} : requests'[s] = requests[s]
      /\ requests'[r] = q
  BY <1>2, <1>3, <1>4, Rewritten
<1>6. /\ q.pc = "ordering" /\ q.seen = requests[r].seen /\ q.reply = requests[r].reply
      /\ q.order = requests[r].order /\ q.key = requests[r].key
      /\ q.body = requests[r].body /\ q.replaces = requests[r].replaces
  BY <1>1 DEF Request
<1> HIDE DEF q
<1>7. Taking(r)'
  BY <1>4, <1>5, <1>6 DEF ApiInv, RequestOK, Taking, InsertKey, IsAt, Key, Orders
<1>8. Holding(r)'
  BY <1>4, <1>5, <1>6 DEF Holding, InsertKey, KeyIsFree, IsAt, Key
<1>12. requests[r].reply = "none" /\ requests[r].seen <= Len(orders)
  BY DEF InsertKey, ApiInv, RequestOK, Silent, IsAt
<1>9. RequestOK(r)'
  BY <1>4, <1>5, <1>6, <1>7, <1>8, <1>12 DEF RequestOK, Storing, Told, Silent, IsAt
<1>10. crashes' \in 0 .. MaxCrashes
  BY <1>4 DEF ApiInv, TypeOK
<1>11. Holders(Key(r)) \subseteq {r}
  BY DEF InsertKey
<1> QED
  BY <1>4, <1>5, <1>6, <1>9, <1>10, <1>11, OwnStep DEF IsAt

\* The commit of an order: a rival exists only if the key has expired, and then was
\* committed after this request had looked.
LEMMA CommitKeeps ==
  ASSUME ApiInv, NEW r \in Requests, CommitOrder(r)
  PROVE  ApiInv'
<1> DEFINE k == Key(r)
           n == Len(orders) + 1
           row == [body |-> requests[r].body, response |-> 0, version |-> n,
                   expired |-> FALSE]
           order == [key |-> k, body |-> requests[r].body, epoch |-> epoch[k],
                     seen |-> requests[r].seen]
           q == [requests[r] EXCEPT !.pc = "storing", !.order = n]
<1>1. /\ requests \in [Requests -> Request] /\ requests[r] \in Request
      /\ k \in Keys /\ n \in Nat /\ epoch \in [Keys -> 0 .. MaxExpiries]
      /\ keys \in [Keys -> KeyRow \cup {Absent}] /\ orders \in Seq(Order)
  BY DEF ApiInv, TypeOK, Request, Key, Order
<1>2. /\ order \in Order
      /\ order.key = k /\ order.body = requests[r].body /\ order.epoch = epoch[k]
      /\ order.seen = requests[r].seen
  BY <1>1, ApiAssumption DEF Order, Request
<1>3. /\ orders' = Append(orders, order)
      /\ keys' = [keys EXCEPT ![k] = row]
      /\ requests' = [requests EXCEPT ![r] = q]
      /\ UNCHANGED <<epoch, crashes>>
      /\ IsAt(r, "ordering")
  BY DEF CommitOrder
<1>4. /\ orders' \in Seq(Order) /\ Len(orders') = n
      /\ \A i \in Orders : orders'[i] = orders[i]
      /\ orders'[n] = order
  BY <1>1, <1>2, <1>3, AppendOrder DEF Orders
<1>5. Orders' = Orders \cup {n} /\ n \notin Orders /\ Orders \subseteq Nat
  BY <1>1, <1>4 DEF Orders
<1>6. row \in KeyRow /\ row # Absent /\ row.response = 0 /\ row.version = n
      /\ row.body = requests[r].body /\ row.expired = FALSE
  <2>1. row \in KeyRow
    BY <1>1 DEF KeyRow, Request
  <2> QED
    BY <2>1, AbsentFacts
<1>7. /\ keys' \in [Keys -> KeyRow \cup {Absent}]
      /\ keys'[k] = row
      /\ \A l \in Keys \ {k} : keys'[l] = keys[l]
  BY <1>1, <1>3, <1>6
<1>8. /\ q.pc = "storing" /\ q.order = n /\ q.reply = requests[r].reply
      /\ q.key = k /\ q.body = requests[r].body /\ q.seen = requests[r].seen
      /\ q.replaces = requests[r].replaces
  BY <1>1 DEF Request, Key
<1>9. q \in Request' /\ \A s \in Requests : requests[s] \in Request'
  BY <1>1, <1>5 DEF Request, Running
<1> HIDE DEF k, n, row, order, q
<1>10. /\ requests' \in [Requests -> Request']
       /\ \A s \in Requests \ {r} : requests'[s] = requests[s]
       /\ requests'[r] = q
  BY <1>1, <1>3, <1>9
<1>11. TypeOK'
  <2>1. \A l \in Keys : {keys'[l].response, keys'[l].version} \subseteq Orders' \cup {0}
    <3>1. {row.response, row.version} \subseteq Orders' \cup {0}
      BY <1>5, <1>6
    <3>2. \A l \in Keys \ {k} : {keys[l].response, keys[l].version} \subseteq Orders \cup {0}
      BY DEF ApiInv, TypeOK
    <3> QED
      BY <1>5, <1>7, <3>1, <3>2
  <2>2. crashes' \in 0 .. MaxCrashes /\ epoch' \in [Keys -> 0 .. MaxExpiries]
    BY <1>3 DEF ApiInv, TypeOK
  <2> QED
    BY <1>4, <1>7, <1>10, <2>1, <2>2 DEF TypeOK, Order, Request
<1>12. keys[k] # Absent => requests[r].replaces
  BY <1>3 DEF ApiInv, RequestOK, Holding, k
<1>13. DuplicatesOverlap'
  <2>1. \A i \in Orders : orders[i].key = k => keys[k] # Absent
    BY DEF ApiInv, OrderOK
  <2>2. \A i \in Orders : orders[i].key = k /\ orders[i].epoch = epoch[k]
                            => epoch[k] > 0 /\ requests[r].seen < i
    BY <1>3, <1>12, <2>1 DEF ApiInv, RequestOK, Taking, k
  <2>3. ASSUME NEW i \in Orders', NEW j \in Orders', Rivals(i, j)', i < j
        PROVE  orders'[i].epoch > 0 /\ orders'[j].seen < i
    <3>1. CASE j \in Orders /\ i \in Orders
      BY <1>4, <2>3, <3>1 DEF ApiInv, DuplicatesOverlap, Rivals
    <3>2. CASE j = n /\ i \in Orders
      BY <1>2, <1>4, <2>2, <2>3, <3>2 DEF Rivals
    <3>3. \A m \in Orders : m < n
      BY <1>1 DEF Orders, n
    <3> QED
      BY <1>5, <2>3, <3>1, <3>2, <3>3
  <2> QED
    BY <2>3 DEF DuplicatesOverlap
<1>14. ASSUME NEW l \in Keys PROVE KeyOK(l)'
  <2>1. CASE l = k
    BY <1>2, <1>3, <1>4, <1>5, <1>6, <1>7, <2>1 DEF KeyOK
  <2>2. CASE l # k
    <3>1. keys'[l] = keys[l] /\ KeyOK(l)
      BY <1>7, <2>2 DEF ApiInv
    <3>2. keys[l].response \in Orders \cup {0}
      BY DEF ApiInv, TypeOK
    <3>3. \A i \in Orders' : orders'[i].key = l => i \in Orders
      BY <1>2, <1>4, <1>5, <2>2
    <3>4. CASE keys[l] = Absent
      BY <3>1, <3>4 DEF KeyOK
    <3>5. CASE keys[l] # Absent
      <4>1. /\ keys[l].version \in Orders
            /\ orders[keys[l].version].key = l
            /\ orders[keys[l].version].body = keys[l].body
            /\ keys[l].response # 0 => Rivals(keys[l].response, keys[l].version)
            /\ ~keys[l].expired => orders[keys[l].version].epoch = epoch[l]
            /\ keys[l].expired =>
                 /\ epoch[l] > 0
                 /\ \A i \in Orders : orders[i].key = l => orders[i].epoch < epoch[l]
        BY <3>1, <3>5 DEF KeyOK
      <4>2. keys'[l].response # 0 => Rivals(keys[l].response, keys[l].version)'
        BY <1>4, <3>1, <3>2, <4>1 DEF Rivals
      <4>3. keys[l].expired =>
              \A i \in Orders' : orders'[i].key = l => orders'[i].epoch < epoch'[l]
        BY <1>3, <1>4, <3>3, <4>1
      <4>4. UNCHANGED <<keys[l], epoch>> /\ orders'[keys[l].version] = orders[keys[l].version]
        BY <1>3, <1>4, <3>1, <4>1
      <4> QED
        BY <1>5, <4>1, <4>2, <4>3, <4>4 DEF KeyOK
    <3> QED
      BY <3>4, <3>5
  <2> QED
    BY <2>1, <2>2
<1>15. ASSUME NEW i \in Orders' PROVE OrderOK(i)'
  <2>1. CASE i \in Orders
    <3>1. OrderOK(i) /\ orders'[i] = orders[i] /\ orders[i].key \in Keys
      BY <1>4, <2>1, OrderTypes DEF ApiInv
    <3> QED
      BY <1>3, <1>6, <1>7, <3>1 DEF OrderOK
  <2>2. CASE i = n
    <3>1. epoch[k] <= epoch[k]
      BY <1>1 DEF k
    <3> QED
      BY <1>2, <1>3, <1>4, <1>6, <1>7, <2>2, <3>1 DEF OrderOK
  <2> QED
    BY <1>5, <2>1, <2>2
<1>18. requests[r].reply = "none"
  BY <1>3 DEF ApiInv, RequestOK, Silent, IsAt
<1>19. \A s \in Requests : requests[s].seen \in Nat /\ requests[s].seen < n
  BY <1>1 DEF ApiInv, RequestOK, Request, n
<1>16. ASSUME NEW s \in Requests PROVE RequestOK(s)'
  <2>1. CASE s = r
    <3>1. IsAt(r, "storing")' /\ ~IsAt(r, "ordering")' /\ ~IsAt(r, "inserting")'
      BY <1>8, <1>10 DEF IsAt
    <3>2. Storing(r)'
      BY <1>2, <1>3, <1>4, <1>5, <1>6, <1>7, <1>8, <1>10 DEF Storing, Key
    <3>3. Told(r)'
      BY <1>8, <1>10, <1>18 DEF Told
    <3>4. requests'[r].seen <= Len(orders') /\ Silent(r)'
      BY <1>4, <1>8, <1>10, <1>18, <1>19 DEF Silent, Request
    <3> QED
      BY <2>1, <3>1, <3>2, <3>3, <3>4 DEF RequestOK, Taking, Holding
  <2>2. CASE s # r
    <3>1. requests'[s] = requests[s] /\ RequestOK(s) /\ requests[s] \in Request
      BY <1>1, <1>10, <2>2 DEF ApiInv
    <3>2. requests[s].seen < n /\ n \in Nat /\ requests[s].seen \in Nat
      BY <1>1, <1>19 DEF n
    <3>3. Taking(s)'
      <4> SUFFICES ASSUME IsAt(s, "inserting") \/ IsAt(s, "ordering"), requests[s].replaces
                   PROVE  /\ epoch[Key(s)] > 0
                          /\ \A i \in Orders' :
                               orders'[i].key = Key(s) /\ orders'[i].epoch = epoch[Key(s)]
                                 => requests[s].seen < i
        BY <1>3, <3>1 DEF Taking, IsAt, Key
      <4> QED
        BY <1>4, <1>5, <3>1, <3>2 DEF RequestOK, Taking
    <3>4. Holding(s)'
      <4>1. IsAt(s, "ordering") => Key(s) # k
        BY <1>3, <2>2 DEF ApiInv, Exclusive, k
      <4>2. Key(s) \in Keys
        BY <3>1 DEF Key, Request
      <4> QED
        BY <1>7, <3>1, <4>1, <4>2 DEF RequestOK, Holding, IsAt, Key
    <3>5. Storing(s)'
      <4>1. Key(s) \in Keys
        BY <3>1 DEF Key, Request
      <4>2. keys[Key(s)] # Absent /\ ~keys[Key(s)].expired
              => keys'[Key(s)] # Absent /\ ~keys'[Key(s)].expired
        BY <1>6, <1>7, <4>1
      <4> SUFFICES ASSUME IsAt(s, "storing") PROVE Storing(s)'
        BY <1>3, <3>1 DEF Storing, IsAt
      <4>3. /\ keys[Key(s)] # Absent /\ ~keys[Key(s)].expired
            /\ requests[s].order \in Orders
            /\ orders[requests[s].order].key = Key(s)
            /\ orders[requests[s].order].body = requests[s].body
            /\ orders[requests[s].order].epoch = epoch[Key(s)]
        BY <3>1 DEF RequestOK, Storing
      <4>4. /\ requests[s].order \in Orders'
            /\ orders'[requests[s].order] = orders[requests[s].order]
        BY <1>4, <1>5, <4>3
      <4> QED
        BY <1>3, <3>1, <4>2, <4>3, <4>4 DEF Storing, Key
    <3>6. Told(s)'
      <4>1. ASSUME NEW i \in Orders, Contested(i) PROVE Contested(i)'
        BY <1>4, <1>5, <4>1 DEF Contested, Rivals
      <4> QED
        BY <1>4, <1>5, <3>1, <4>1 DEF RequestOK, Told, Key
    <3>7. requests'[s].seen <= Len(orders') /\ Silent(s)'
      BY <1>4, <3>1, <3>2 DEF RequestOK, Silent, Request
    <3> QED
      BY <3>3, <3>4, <3>5, <3>6, <3>7 DEF RequestOK
  <2> QED
    BY <2>1, <2>2
<1>17. Exclusive'
  BY <1>8, <1>10 DEF ApiInv, Exclusive, IsAt, Key
<1> QED
  BY <1>11, <1>13, <1>14, <1>15, <1>16, <1>17 DEF ApiInv


\* The second commit: whatever row it finds, it is of the current epoch, and so is
\* the order the response describes.
LEMMA StoreKeeps ==
  ASSUME ApiInv, NEW r \in Requests, StoreResponse(r)
  PROVE  ApiInv'
<1> DEFINE k == Key(r)
           i == requests[r].order
           row == [keys[k] EXCEPT !.response = i]
           q == [requests[r] EXCEPT !.pc = "done", !.reply = "created", !.order = i]
<1>1. /\ requests \in [Requests -> Request] /\ requests[r] \in Request
      /\ k \in Keys /\ keys \in [Keys -> KeyRow \cup {Absent}]
  BY DEF ApiInv, TypeOK, Request, Key
<1>2. /\ keys' = [keys EXCEPT ![k] = row]
      /\ requests' = [requests EXCEPT ![r] = q]
      /\ UNCHANGED <<orders, epoch, crashes>>
      /\ IsAt(r, "storing")
  BY DEF StoreResponse, Answer
<1>3. /\ keys[k] \in KeyRow /\ keys[k] # Absent /\ keys[k].expired = FALSE
      /\ i \in Orders /\ orders[i].key = k /\ orders[i].body = requests[r].body
      /\ orders[i].epoch = epoch[k]
  <2>1. Storing(r)
    BY DEF ApiInv, RequestOK
  <2>2. keys[k].expired \in BOOLEAN
    BY <1>1, <1>2, <2>1 DEF Storing, KeyRow
  <2> QED
    BY <1>1, <1>2, <2>1, <2>2 DEF Storing
<1>4. Orders \subseteq Nat \ {0} /\ Orders' = Orders /\ Request' = Request
  BY <1>2 DEF Orders, Request
<1>5. /\ row \in KeyRow /\ row.response = i /\ row.version = keys[k].version
      /\ row.body = keys[k].body /\ row.expired = FALSE
  BY <1>3, <1>4 DEF KeyRow
<1>6. row # Absent
  BY <1>5, AbsentFacts
<1>7. /\ keys' \in [Keys -> KeyRow \cup {Absent}]
      /\ keys'[k] = row
      /\ \A l \in Keys \ {k} : keys'[l] = keys[l]
  BY <1>1, <1>2, <1>5
<1>8. /\ q \in Request /\ q.pc = "done" /\ q.order = i /\ q.reply = "created"
      /\ q.key = k /\ q.body = requests[r].body /\ q.seen = requests[r].seen
  BY <1>1, <1>3 DEF Request, Key, Replies
<1> HIDE DEF k, i, row, q
<1>9. /\ requests' \in [Requests -> Request]
      /\ \A s \in Requests \ {r} : requests'[s] = requests[s]
      /\ requests'[r] = q
  BY <1>2, <1>8, Rewritten
<1>10. KeyOK(k)
  BY <1>1 DEF ApiInv
<1>11. TypeOK'
  <2>1. \A l \in Keys : {keys[l].response, keys[l].version} \subseteq Orders \cup {0}
    BY DEF ApiInv, TypeOK
  <2>2. {row.response, row.version} \subseteq Orders \cup {0}
    BY <1>1, <1>3, <1>5, <2>1
  <2>3. \A l \in Keys : {keys'[l].response, keys'[l].version} \subseteq Orders' \cup {0}
    BY <1>4, <1>7, <2>1, <2>2
  <2>4. /\ crashes' \in 0 .. MaxCrashes /\ epoch' \in [Keys -> 0 .. MaxExpiries]
        /\ orders' \in Seq(Order)
    BY <1>2 DEF ApiInv, TypeOK, Order
  <2> QED
    BY <1>4, <1>7, <1>9, <2>3, <2>4 DEF TypeOK, Order, Request
<1>12. ASSUME NEW l \in Keys PROVE KeyOK(l)'
  <2>1. CASE l = k
    <3>1. /\ keys[l].version \in Orders
          /\ orders[keys[l].version].key = l
          /\ orders[keys[l].version].body = keys[l].body
          /\ orders[keys[l].version].epoch = epoch[l]
      BY <1>3, <1>10, <2>1 DEF KeyOK
    <3>2. /\ keys'[l].version = keys[l].version /\ keys'[l].response = i
          /\ keys'[l].body = keys[l].body /\ keys'[l].expired = FALSE
      BY <1>5, <1>7, <2>1
    <3>3. Rivals(keys[l].response, keys[l].version)'
      BY <1>2, <1>3, <2>1, <3>1, <3>2 DEF Rivals
    <3> QED
      BY <1>2, <1>4, <3>1, <3>2, <3>3 DEF KeyOK, Rivals
  <2>2. CASE l # k
    <3>1. keys'[l] = keys[l] /\ KeyOK(l)
      BY <1>7, <2>2 DEF ApiInv
    <3> QED
      BY <1>2, <1>4, <3>1 DEF KeyOK, Rivals
  <2> QED
    BY <2>1, <2>2
<1>13. ASSUME NEW j \in Orders' PROVE OrderOK(j)'
  <2>1. OrderOK(j) /\ orders[j].key \in Keys
    BY <1>4, OrderTypes DEF ApiInv
  <2> QED
    BY <1>2, <1>6, <1>7, <2>1 DEF OrderOK
<1>14. ASSUME NEW s \in Requests PROVE RequestOK(s)'
  <2>1. CASE s = r
    <3>1. Told(r)'
      BY <1>2, <1>3, <1>4, <1>8, <1>9 DEF Told, Key
    <3>2. ~IsAt(r, "inserting")' /\ ~IsAt(r, "ordering")' /\ ~IsAt(r, "storing")'
      BY <1>8, <1>9 DEF IsAt
    <3>3. requests'[r].seen <= Len(orders') /\ Silent(r)'
      BY <1>2, <1>8, <1>9 DEF ApiInv, RequestOK, Silent
    <3> QED
      BY <2>1, <3>1, <3>2, <3>3 DEF RequestOK, Taking, Holding, Storing
  <2>2. CASE s # r
    <3>1. requests'[s] = requests[s] /\ RequestOK(s) /\ Key(s) \in Keys
      BY <1>1, <1>9, <2>2 DEF ApiInv, Key, Request
    <3>2. Holding(s)'
      <4>1. IsAt(s, "ordering") => Key(s) # k
        <5>1. Holders(k) = {}
          BY DEF StoreResponse, k
        <5> QED
          BY <5>1 DEF Holders, InFlight, IsAt, Running
      <4> QED
        BY <1>7, <3>1, <4>1 DEF RequestOK, Holding, IsAt, Key
    <3>3. Storing(s)'
      BY <1>2, <1>4, <1>5, <1>6, <1>7, <3>1 DEF RequestOK, Storing, IsAt, Key
    <3>4. Taking(s)' /\ Told(s)' /\ Silent(s)' /\ requests'[s].seen <= Len(orders')
      BY <1>2, <1>4, <3>1 DEF RequestOK, Taking, Told, Silent, IsAt, Key, Contested, Rivals
    <3> QED
      BY <3>1, <3>2, <3>3, <3>4 DEF RequestOK
  <2> QED
    BY <2>1, <2>2
<1>15. Exclusive'
  BY <1>8, <1>9 DEF ApiInv, Exclusive, IsAt, Key
<1>16. DuplicatesOverlap'
  BY <1>2, <1>4 DEF ApiInv, DuplicatesOverlap, Rivals
<1> QED
  BY <1>4, <1>11, <1>12, <1>13, <1>14, <1>15, <1>16 DEF ApiInv

\* The row of a key expires: all orders made with the key belong to the past.
LEMMA ExpireKeeps ==
  ASSUME ApiInv, NEW k \in Keys, Expire(k)
  PROVE  ApiInv'
<1> DEFINE row == [keys[k] EXCEPT !.expired = TRUE]
<1>1. /\ keys \in [Keys -> KeyRow \cup {Absent}]
      /\ epoch \in [Keys -> 0 .. MaxExpiries] /\ epoch[k] \in 0 .. MaxExpiries
  BY DEF ApiInv, TypeOK
<1>2. /\ keys' = [keys EXCEPT ![k] = row]
      /\ epoch' = [epoch EXCEPT ![k] = epoch[k] + 1]
      /\ UNCHANGED <<orders, requests, crashes>>
      /\ keys[k] # Absent /\ epoch[k] < MaxExpiries
  BY DEF Expire
<1>3. Orders' = Orders /\ Request' = Request
  BY <1>2 DEF Orders, Request
<1>4. /\ row \in KeyRow /\ row.response = keys[k].response /\ row.version = keys[k].version
      /\ row.body = keys[k].body /\ row.expired = TRUE
  BY <1>1, <1>2 DEF KeyRow
<1>5. row # Absent
  BY <1>4, AbsentFacts
<1>6. /\ keys' \in [Keys -> KeyRow \cup {Absent}]
      /\ keys'[k] = row
      /\ \A l \in Keys \ {k} : keys'[l] = keys[l]
  BY <1>1, <1>2, <1>4
<1>7. /\ epoch' \in [Keys -> 0 .. MaxExpiries]
      /\ epoch'[k] = epoch[k] + 1
      /\ \A l \in Keys \ {k} : epoch'[l] = epoch[l]
  <2>1. epoch[k] + 1 \in 0 .. MaxExpiries
    BY <1>1, <1>2, ApiAssumption
  <2> QED
    BY <1>1, <1>2, <2>1
<1> HIDE DEF row
<1>8. \A i \in Orders : orders[i].key \in Keys /\ orders[i].epoch \in Nat
  BY OrderTypes DEF ApiInv
<1>9. \A i \in Orders : orders[i].key = k => orders[i].epoch < epoch'[k]
  BY <1>1, <1>7, <1>8 DEF ApiInv, OrderOK
<1>10. TypeOK'
  <2>1. \A l \in Keys : {keys[l].response, keys[l].version} \subseteq Orders \cup {0}
    BY DEF ApiInv, TypeOK
  <2>2. \A l \in Keys : {keys'[l].response, keys'[l].version} \subseteq Orders' \cup {0}
    BY <1>3, <1>4, <1>6, <2>1
  <2>3. /\ crashes' \in 0 .. MaxCrashes /\ orders' \in Seq(Order)
        /\ requests' \in [Requests -> Request']
    BY <1>2, <1>3 DEF ApiInv, TypeOK, Order, Request
  <2> QED
    BY <1>6, <1>7, <2>2, <2>3 DEF TypeOK, Order, Request
<1>11. ASSUME NEW l \in Keys PROVE KeyOK(l)'
  <2>1. KeyOK(l)
    BY DEF ApiInv
  <2>2. CASE l = k
    BY <1>1, <1>2, <1>3, <1>4, <1>6, <1>7, <1>9, <2>1, <2>2 DEF KeyOK, Rivals
  <2>3. CASE l # k
    BY <1>2, <1>3, <1>6, <1>7, <2>1, <2>3 DEF KeyOK, Rivals
  <2> QED
    BY <2>2, <2>3
<1>12. ASSUME NEW i \in Orders' PROVE OrderOK(i)'
  <2>1. OrderOK(i) /\ orders[i].key \in Keys /\ orders[i].epoch \in Nat
    BY <1>3, <1>8 DEF ApiInv
  <2> QED
    BY <1>1, <1>2, <1>5, <1>6, <1>7, <2>1 DEF OrderOK
<1>13. ASSUME NEW s \in Requests PROVE RequestOK(s)'
  <2>1. requests'[s] = requests[s] /\ RequestOK(s) /\ Key(s) \in Keys
    BY <1>2 DEF ApiInv, TypeOK, Key
  <2>2. Taking(s)'
    <3>1. CASE Key(s) = k
      BY <1>1, <1>2, <1>3, <1>7, <1>8, <1>9, <2>1, <3>1 DEF Taking, IsAt, Key
    <3>2. CASE Key(s) # k
      BY <1>2, <1>3, <1>7, <2>1, <3>2 DEF RequestOK, Taking, IsAt, Key
    <3> QED
      BY <3>1, <3>2
  <2>3. Holding(s)'
    BY <1>2, <1>6, <2>1 DEF RequestOK, Holding, IsAt, Key
  <2>4. Storing(s)'
    <3>1. IsAt(s, "storing") => Key(s) # k
      BY DEF Expire, InFlight, IsAt, Running
    <3> QED
      BY <1>2, <1>3, <1>6, <1>7, <2>1, <3>1 DEF RequestOK, Storing, IsAt, Key
  <2>5. Told(s)' /\ Silent(s)' /\ requests'[s].seen <= Len(orders')
    BY <1>2, <1>3, <2>1 DEF RequestOK, Told, Silent, Key, Contested, Rivals
  <2> QED
    BY <2>2, <2>3, <2>4, <2>5 DEF RequestOK
<1>14. Exclusive'
  BY <1>2 DEF ApiInv, Exclusive, IsAt, Key
<1>15. DuplicatesOverlap'
  BY <1>2, <1>3 DEF ApiInv, DuplicatesOverlap, Rivals
<1> QED
  BY <1>3, <1>10, <1>11, <1>12, <1>13, <1>14, <1>15 DEF ApiInv

-----------------------------------------------------------------------------

\* Nothing happens.
LEMMA ApiStutter ==
  ASSUME ApiInv, UNCHANGED vars
  PROVE  ApiInv'
<1>1. Orders' = Orders /\ UNCHANGED <<keys, orders, requests, epoch, crashes>>
  BY DEF vars, Orders
<1>2. TypeOK'
  BY <1>1 DEF ApiInv, TypeOK
<1>3. ASSUME NEW r \in Requests PROVE RequestOK(r)'
  BY <1>1 DEF ApiInv, RequestOK, Taking, Holding, Storing, Told, Silent, IsAt, Key,
              Contested, Rivals
<1>4. ASSUME NEW k \in Keys PROVE KeyOK(k)'
  BY <1>1 DEF ApiInv, KeyOK, Rivals
<1>5. ASSUME NEW i \in Orders' PROVE OrderOK(i)'
  BY <1>1 DEF ApiInv, OrderOK
<1>6. Exclusive' /\ DuplicatesOverlap'
  BY <1>1 DEF ApiInv, Exclusive, DuplicatesOverlap, Rivals, IsAt, Key
<1> QED
  BY <1>2, <1>3, <1>4, <1>5, <1>6 DEF ApiInv

\* Every step keeps the inductive invariant.
LEMMA ApiStep == ApiInv /\ [Next]_vars => ApiInv'
<1> SUFFICES ASSUME ApiInv, [Next]_vars PROVE ApiInv'
  OBVIOUS
<1>1. ASSUME NEW r \in Requests, Send(r) PROVE ApiInv'
  BY <1>1, SendKeeps
<1>2. ASSUME NEW r \in Requests, FindFree(r) PROVE ApiInv'
  BY <1>2, FindFreeKeeps
<1>3. ASSUME NEW r \in Requests, FindRow(r) PROVE ApiInv'
  BY <1>3, FindRowKeeps
<1>4. ASSUME NEW r \in Requests, InsertKey(r) PROVE ApiInv'
  BY <1>4, InsertKeyKeeps
<1>5. ASSUME NEW r \in Requests, InsertFails(r) \/ RejectOrder(r) \/ StoreFails(r)
      PROVE  ApiInv'
  BY <1>5, RefusalsKeep
<1>6. ASSUME NEW r \in Requests, CommitOrder(r) PROVE ApiInv'
  BY <1>6, CommitKeeps
<1>7. ASSUME NEW r \in Requests, StoreResponse(r) PROVE ApiInv'
  BY <1>7, StoreKeeps
<1>8. ASSUME NEW r \in Requests, Crash(r) PROVE ApiInv'
  BY <1>8, CrashKeeps
<1>9. ASSUME NEW k \in Keys, Expire(k) PROVE ApiInv'
  BY <1>9, ExpireKeeps
<1>10. CASE UNCHANGED vars
  BY <1>10, ApiStutter
<1> QED
  BY <1>1, <1>2, <1>3, <1>4, <1>5, <1>6, <1>7, <1>8, <1>9, <1>10 DEF Next, Serve

\* The inductive invariant of the idempotent endpoint (create_order_endpoint,
\* start_request, store_response).
THEOREM ApiInvariant == Spec => []ApiInv
  BY ApiInitially, ApiStep, PTL DEF Spec

\* Every order a row or a request refers to exists; rows, requests and orders are
\* what their definitions say.
THEOREM ApiTypeCorrect == Spec => []TypeOK
<1>1. ApiInv => TypeOK
  BY DEF ApiInv
<1> QED
  BY <1>1, ApiInvariant, PTL

\* Two orders of one key between two of its expiries are the work of requests that
\* overlapped on its expired row: any number of requests, crashes and expiries.
THEOREM OnlyOverlapsDuplicate == Spec => []DuplicatesOverlap
<1>1. ApiInv => DuplicatesOverlap
  BY DEF ApiInv
<1> QED
  BY <1>1, ApiInvariant, PTL

\* A client that is told of an order is told of one made with its key and, unless
\* the order was made in such a race, with its body.
THEOREM ClientsAgree == Spec => []RepliesAgree
<1>1. ApiInv => RepliesAgree
  BY DEF ApiInv, RequestOK, Told, RepliesAgree
<1> QED
  BY <1>1, ApiInvariant, PTL

\* The row of a key describes an order made with the key and the body of its hash.
THEOREM RowsAgree == Spec => []RowMatchesOrder
<1>1. ApiInv => RowMatchesOrder
  BY DEF ApiInv, KeyOK, RowMatchesOrder
<1> QED
  BY <1>1, ApiInvariant, PTL

-----------------------------------------------------------------------------
(* What leaves a key "already processing" without anybody processing it    *)

\* A request has no order before its first commit.
Unordered ==
  \A r \in Requests :
    requests[r].pc \in {"idle", "looking", "inserting", "ordering"} => requests[r].order = 0

StuckInv ==
  Unordered /\ IsFiniteSet(Stuck) /\ Cardinality(Stuck) <= crashes

\* k is answered "already processing", although its order is committed.
Unanswered(k) == keys[k] # Absent /\ ~keys[k].expired /\ keys[k].response = 0

\* r is working on the answer to the row of k.
Answering(r, k) ==
  /\ Key(r) = k /\ requests[r].pc \in Running
  /\ requests[r].order = keys[k].version

\* Stuck in these terms.
LEMMA StuckMeans ==
  Stuck = {k \in Keys : Unanswered(k) /\ \A r \in Requests : ~Answering(r, k)}
  BY DEF Stuck, Unanswered, Answering, InFlight

\* If no row changes and whoever was answering one still is, no key becomes stuck.
LEMMA NoneStuck ==
  ASSUME \A k \in Keys : Unanswered(k)' => Unanswered(k),
         \A k \in Keys, r \in Requests : Unanswered(k)' /\ Answering(r, k) => Answering(r, k)'
  PROVE  Stuck' \subseteq Stuck
<1>1. Stuck' = {k \in Keys : Unanswered(k)' /\ \A r \in Requests : ~Answering(r, k)'}
  BY DEF Stuck, Unanswered, Answering, InFlight
<1> QED
  BY <1>1, StuckMeans

\* A request that commits nothing makes no key stuck, unless it stops answering one.
LEMMA OwnRequest ==
  ASSUME NEW r \in Requests, UNCHANGED keys,
         \A s \in Requests \ {r} : requests'[s] = requests[s],
         \A k \in Keys : Answering(r, k) /\ Unanswered(k) => Answering(r, k)'
  PROVE  Stuck' \subseteq Stuck
<1>1. \A k \in Keys : Unanswered(k)' <=> Unanswered(k)
  BY DEF Unanswered
<1>2. ASSUME NEW k \in Keys, NEW s \in Requests, Unanswered(k), Answering(s, k)
      PROVE  Answering(s, k)'
  BY <1>2 DEF Answering, Key
<1> QED
  BY <1>1, <1>2, NoneStuck

\* Before its first commit a request answers for no row.
LEMMA EarlyRequest ==
  ASSUME ApiInv, Unordered, NEW r \in Requests,
         requests[r].pc \in {"idle", "looking", "inserting", "ordering"}, NEW k \in Keys
  PROVE  ~(Answering(r, k) /\ Unanswered(k))
<1>1. keys[k] # Absent => keys[k].version \in Orders
  BY DEF ApiInv, KeyOK
<1>2. 0 \notin Orders
  BY DEF Orders
<1> QED
  BY <1>1, <1>2 DEF Unordered, Answering, Unanswered

\* Refusals, look-ups and inserts leave no key stuck; a failed UPDATE was not for
\* the row that is there.
LEMMA QuietRequest ==
  ASSUME ApiInv, Unordered, NEW r \in Requests,
         \/ Send(r) \/ FindFree(r) \/ FindRow(r) \/ InsertKey(r) \/ InsertFails(r)
         \/ RejectOrder(r) \/ StoreFails(r)
  PROVE  Stuck' \subseteq Stuck /\ crashes' = crashes /\ Unordered'
<1>1. UNCHANGED <<keys, orders, crashes>>
  BY DEF Send, FindFree, FindRow, InsertKey, InsertFails, RejectOrder, StoreFails
<1>2. requests \in [Requests -> Request] /\ requests[r] \in Request
  BY DEF ApiInv, TypeOK, Request
<1>3. \A s \in Requests \ {r} : requests'[s] = requests[s]
  BY <1>2 DEF Send, FindFree, FindRow, InsertKey, InsertFails, RejectOrder, StoreFails, Goto,
              Answer, Reserve
<1>4. ASSUME NEW k \in Keys PROVE ~(Answering(r, k) /\ Unanswered(k))
  <2>1. CASE StoreFails(r)
    BY <2>1 DEF StoreFails, Answering
  <2>2. CASE ~StoreFails(r)
    <3>1. requests[r].pc \in {"idle", "looking", "inserting", "ordering"}
      BY <2>2 DEF Send, FindFree, FindRow, InsertKey, InsertFails, RejectOrder, IsAt
    <3> QED
      BY <3>1, EarlyRequest
  <2> QED
    BY <2>1, <2>2
<1>5. ASSUME Send(r) \/ FindFree(r) \/ InsertKey(r)
      PROVE  requests'[r].order = 0
  <2>1. requests[r].pc \in {"idle", "looking", "inserting"}
    BY <1>5 DEF Send, FindFree, InsertKey, IsAt
  <2>2. requests'[r].order = requests[r].order
    BY <1>2, <1>5 DEF Send, FindFree, InsertKey, Goto, Reserve, Request
  <2>3. requests'[r].order = 0
    BY <2>1, <2>2 DEF Unordered
  <2> QED
    BY <2>3
<1>6. ASSUME FindRow(r) \/ InsertFails(r) \/ RejectOrder(r) \/ StoreFails(r)
      PROVE  requests'[r].pc = "done"
  <2>1. \E reply, order : Answer(r, reply, order)
    BY <1>6 DEF FindRow, InsertFails, RejectOrder, StoreFails
  <2>2. requests'[r].pc = "done"
    BY <1>2, <2>1 DEF Answer, Request
  <2> QED
    BY <2>2
<1>7. Unordered'
  <2> SUFFICES ASSUME NEW s \in Requests,
                      requests'[s].pc \in {"idle", "looking", "inserting", "ordering"}
               PROVE  requests'[s].order = 0
    BY DEF Unordered
  <2> QED
    BY <1>3, <1>5, <1>6 DEF Unordered
<1> QED
  BY <1>1, <1>3, <1>4, <1>7, OwnRequest

\* The first commit: the request that made the order goes on to answer for it.
LEMMA CommittedNotStuck ==
  ASSUME ApiInv, Unordered, NEW r \in Requests, CommitOrder(r)
  PROVE  Stuck' \subseteq Stuck /\ crashes' = crashes /\ Unordered'
<1> DEFINE n == Len(orders) + 1
<1>1. /\ requests \in [Requests -> Request] /\ requests[r] \in Request
      /\ keys \in [Keys -> KeyRow \cup {Absent}] /\ Key(r) \in Keys
  BY DEF ApiInv, TypeOK, Request, Key
<1>2. /\ requests' = [requests EXCEPT ![r].pc = "storing", ![r].order = n]
      /\ crashes' = crashes
      /\ keys' = [keys EXCEPT ![Key(r)] = [body |-> requests[r].body, response |-> 0,
                                           version |-> n, expired |-> FALSE]]
  BY DEF CommitOrder
<1>3. /\ requests'[r].pc = "storing" /\ requests'[r].order = n
      /\ requests'[r].key = requests[r].key
      /\ \A s \in Requests \ {r} : requests'[s] = requests[s]
  BY <1>1, <1>2 DEF Request
<1>4. keys'[Key(r)].version = n /\ \A k \in Keys \ {Key(r)} : keys'[k] = keys[k]
  BY <1>1, <1>2
<1>5. Answering(r, Key(r))'
  BY <1>3, <1>4 DEF Answering, Key, Running
<1>6. ASSUME NEW k \in Keys, k \in Stuck' PROVE k \in Stuck
  <2>1. k # Key(r)
    <3>1. ~Answering(r, k)'
      BY <1>6 DEF Stuck, Answering, InFlight
    <3> QED
      BY <1>3, <1>4, <3>1 DEF Answering, Key, Running
  <2>2. \A s \in Requests : Key(s) = k => requests'[s] = requests[s]
    BY <1>3, <2>1 DEF Key
  <2>3. keys'[k] = keys[k]
    BY <1>4, <2>1
  <2> QED
    BY <1>6, <2>2, <2>3 DEF Stuck, InFlight, Key
<1>7. Unordered'
  BY <1>3 DEF Unordered
<1> QED
  BY <1>2, <1>6, <1>7 DEF Stuck

\* The second commit and the end of the day make a row answer otherwise.
LEMMA AnsweredNotStuck ==
  ASSUME ApiInv, Unordered, \/ \E r \in Requests : StoreResponse(r)
                           \/ \E k \in Keys : Expire(k)
  PROVE  Stuck' \subseteq Stuck /\ crashes' = crashes /\ Unordered'
<1>1. /\ requests \in [Requests -> Request]
      /\ keys \in [Keys -> KeyRow \cup {Absent}]
  BY DEF ApiInv, TypeOK, Request
<1>2. ASSUME NEW r \in Requests, StoreResponse(r)
      PROVE  Stuck' \subseteq Stuck /\ crashes' = crashes /\ Unordered'
  <2>1. /\ keys' = [keys EXCEPT ![Key(r)].response = requests[r].order]
        /\ requests' = [requests EXCEPT ![r].pc = "done", ![r].reply = "created",
                                        ![r].order = requests[r].order]
        /\ crashes' = crashes
        /\ IsAt(r, "storing")
    BY <1>2 DEF StoreResponse, Answer
  <2>2. Key(r) \in Keys /\ keys[Key(r)] \in KeyRow /\ requests[r].order \in Orders
    <3>1. Storing(r)
      BY DEF ApiInv, RequestOK
    <3>2. Key(r) \in Keys
      BY <1>1 DEF Key, Request
    <3> QED
      BY <1>1, <2>1, <3>1, <3>2 DEF Storing
  <2>3. keys'[Key(r)].response # 0 /\ \A k \in Keys \ {Key(r)} : keys'[k] = keys[k]
    BY <1>1, <2>1, <2>2 DEF KeyRow, Orders
  <2>4. /\ requests'[r].pc = "done"
        /\ \A s \in Requests \ {r} : requests'[s] = requests[s]
    BY <1>1, <2>1 DEF Request
  <2>5. ASSUME NEW k \in Keys, k \in Stuck' PROVE k \in Stuck
    <3>1. k # Key(r)
      BY <2>3, <2>5 DEF Stuck
    <3>2. \A s \in Requests : Key(s) = k => requests'[s] = requests[s]
      BY <2>4, <3>1
    <3>3. keys'[k] = keys[k]
      BY <2>3, <3>1
    <3> QED
      BY <2>5, <3>2, <3>3 DEF Stuck, InFlight, Key
  <2>6. Unordered'
    BY <2>4 DEF Unordered
  <2> QED
    BY <2>1, <2>5, <2>6 DEF Stuck
<1>3. ASSUME NEW k \in Keys, Expire(k)
      PROVE  Stuck' \subseteq Stuck /\ crashes' = crashes /\ Unordered'
  <2>1. /\ keys' = [keys EXCEPT ![k].expired = TRUE]
        /\ UNCHANGED <<requests, crashes>>
        /\ keys[k] # Absent
    BY <1>3 DEF Expire
  <2>2. keys'[k].expired = TRUE /\ \A l \in Keys \ {k} : keys'[l] = keys[l]
    BY <1>1, <2>1 DEF KeyRow
  <2>3. ASSUME NEW l \in Keys, l \in Stuck' PROVE l \in Stuck
    <3>1. keys'[l] = keys[l]
      BY <2>2, <2>3 DEF Stuck
    <3> QED
      BY <2>1, <2>3, <3>1 DEF Stuck, InFlight, Key
  <2> QED
    BY <2>1, <2>3 DEF Stuck, Unordered
<1> QED
  BY <1>2, <1>3

\* A crash leaves at most the key of the request that dies stuck.
LEMMA CrashSticks ==
  ASSUME ApiInv, Unordered, NEW r \in Requests, Crash(r)
  PROVE  Stuck' \subseteq Stuck \cup {Key(r)} /\ crashes' = crashes + 1 /\ Unordered'
<1>1. requests \in [Requests -> Request]
  BY DEF ApiInv, TypeOK, Request
<1>2. /\ requests' = [requests EXCEPT ![r].pc = "done"]
      /\ UNCHANGED keys /\ crashes' = crashes + 1
  BY DEF Crash, Goto
<1>3. /\ requests'[r].pc = "done"
      /\ \A s \in Requests \ {r} : requests'[s] = requests[s]
  BY <1>1, <1>2 DEF Request
<1>4. ASSUME NEW k \in Keys, k \in Stuck', k # Key(r) PROVE k \in Stuck
  <2>1. \A s \in Requests : Key(s) = k => requests'[s] = requests[s]
    BY <1>3, <1>4
  <2> QED
    BY <1>2, <1>4, <2>1 DEF Stuck, InFlight, Key
<1> QED
  BY <1>2, <1>3, <1>4 DEF Stuck, Unordered

\* Every step keeps the number of stuck keys below the number of crashes.
LEMMA StuckStep ==
  ASSUME ApiInv, StuckInv, [Next]_vars
  PROVE  StuckInv'
<1>1. crashes \in Nat
  BY ApiAssumption DEF ApiInv, TypeOK
<1>2. CASE Stuck' \subseteq Stuck /\ crashes' = crashes /\ Unordered'
  <2>1. IsFiniteSet(Stuck') /\ Cardinality(Stuck') <= Cardinality(Stuck)
    BY <1>2, FS_Subset DEF StuckInv
  <2>2. Cardinality(Stuck) \in Nat /\ Cardinality(Stuck') \in Nat
    BY <2>1, FS_CardinalityType DEF StuckInv
  <2> QED
    BY <1>1, <1>2, <2>1, <2>2 DEF StuckInv
<1>3. ASSUME NEW r \in Requests, Crash(r) PROVE StuckInv'
  <2>1. Stuck' \subseteq Stuck \cup {Key(r)} /\ crashes' = crashes + 1 /\ Unordered'
    BY <1>3, CrashSticks DEF StuckInv
  <2>2. /\ IsFiniteSet(Stuck \cup {Key(r)})
        /\ Cardinality(Stuck \cup {Key(r)}) <= Cardinality(Stuck) + 1
    <3>1. IsFiniteSet(Stuck) /\ Cardinality(Stuck) \in Nat
      BY FS_CardinalityType DEF StuckInv
    <3> HIDE DEF Stuck
    <3> QED
      BY <3>1, FS_AddElement
  <2>3. IsFiniteSet(Stuck') /\ Cardinality(Stuck') <= Cardinality(Stuck \cup {Key(r)})
    BY <2>1, <2>2, FS_Subset
  <2>4. /\ Cardinality(Stuck) \in Nat /\ Cardinality(Stuck') \in Nat
        /\ Cardinality(Stuck \cup {Key(r)}) \in Nat
    BY <2>2, <2>3, FS_CardinalityType DEF StuckInv
  <2> QED
    BY <1>1, <2>1, <2>2, <2>3, <2>4 DEF StuckInv
<1>4. CASE \E r \in Requests : Send(r) \/ Serve(r)
  BY <1>2, <1>4, QuietRequest, CommittedNotStuck, AnsweredNotStuck DEF Serve, StuckInv
<1>5. CASE \E k \in Keys : Expire(k)
  BY <1>2, <1>5, AnsweredNotStuck DEF StuckInv
<1>6. CASE UNCHANGED vars
  BY <1>2, <1>6 DEF vars, Stuck, InFlight, Key, Unordered, StuckInv
<1> QED
  BY <1>3, <1>4, <1>5, <1>6 DEF Next

\* A key that is told "already processing" while nobody processes it has cost a
\* crash, for any number of requests, keys and races: the two commits of the
\* endpoint are the only gap.
THEOREM StuckKeysCostCrashes == Spec => []StuckOnlyByCrash
<1>1. Init => StuckInv
  <2> SUFFICES ASSUME Init PROVE StuckInv
    OBVIOUS
  <2>1. Stuck = {} /\ crashes = 0 /\ Unordered
    BY DEF Init, Stuck, Unordered
  <2> QED
    BY <2>1, FS_EmptySet DEF StuckInv
<1>2. ApiInv /\ StuckInv /\ [Next]_vars => StuckInv'
  BY StuckStep
<1>3. StuckInv => StuckOnlyByCrash
  BY DEF StuckInv, StuckOnlyByCrash
<1> QED
  BY <1>1, <1>2, <1>3, ApiInvariant, PTL DEF Spec

=============================================================================
