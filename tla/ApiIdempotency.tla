--------------------------- MODULE ApiIdempotency ---------------------------
(***************************************************************************)
(* POST /api/v1/orders with an Idempotency-Key header.                     *)
(*                                                                         *)
(*   src/src/eventcart/modules/orders/routes.py                            *)
(*   src/src/eventcart/modules/idempotency/{models,service}.py             *)
(*                                                                         *)
(* A request runs in a session of its own and commits twice: create_order  *)
(* commits the key row together with the order, and the endpoint commits   *)
(* the stored response afterwards.  The steps are the statements another   *)
(* request can get in between: the look-up of the key, the insert, the     *)
(* first and the second commit.                                            *)
(*                                                                         *)
(* PostgreSQL at READ COMMITTED: a statement sees what is committed when it *)
(* begins, and waits for a transaction that holds an uncommitted row with  *)
(* the same primary key.  Request hashes stand for bodies (SHA-256 is taken *)
(* as injective).                                                          *)
(***************************************************************************)
EXTENDS Integers, Sequences, FiniteSets

CONSTANTS
  Requests,      \* HTTP requests
  Keys,          \* values of the Idempotency-Key header
  Bodies,        \* request bodies
  NoBody,        \* the body of no request
  MaxCrashes,    \* bound: requests whose server process dies
  MaxExpiries    \* bound: key rows that reach expires_at

ASSUME ApiAssumption ==
  /\ NoBody \notin Bodies
  /\ MaxCrashes \in Nat /\ MaxExpiries \in Nat

VARIABLES
  keys,      \* idempotency_keys: at most one committed row per key
  orders,    \* orders created with a key, oldest first
  requests,  \* what each request is, where it is and what it has seen
  epoch,     \* epoch[k]: how often a row of k has expired (history)
  crashes    \* crashes so far

vars == <<keys, orders, requests, epoch, crashes>>

Orders == 1 .. Len(orders)

\* response_body and status_code: the order the response describes, 0 if null.
\* version distinguishes the rows a key has had: it is the order committed with
\* the row.
KeyRow == [body : Bodies, response : Nat, version : Nat, expired : BOOLEAN]

Absent == [body |-> NoBody, response |-> 0, version |-> 0, expired |-> FALSE]

Replies == {"none", "created", "stored", "conflict", "in progress", "not found", "error"}

Running == {"looking", "inserting", "ordering", "storing"}

Init ==
  /\ keys = [k \in Keys |-> Absent]
  /\ orders = <<>>
  /\ requests \in [Requests ->
       [pc : {"idle"}, key : Keys, body : Bodies, replaces : {FALSE}, seen : {0},
        order : {0}, reply : {"none"}]]
  /\ epoch = [k \in Keys |-> 0]
  /\ crashes = 0

-----------------------------------------------------------------------------

Key(r) == requests[r].key

IsAt(r, step) == requests[r].pc = step

Goto(r, step) == requests' = [requests EXCEPT ![r].pc = step]

\* The response is sent and the session closed; what is not committed is lost.
Answer(r, reply, order) ==
  requests' = [requests EXCEPT ![r].pc = "done", ![r].reply = reply, ![r].order = order]

InFlight(k) == {r \in Requests : Key(r) = k /\ requests[r].pc \in Running}

\* The requests that have flushed a row for k and not committed it.
Holders(k) == {r \in InFlight(k) : IsAt(r, "ordering")}

\* The client sends a request, or sends it again as another member of Requests.
Send(r) ==
  /\ IsAt(r, "idle")
  /\ Goto(r, "looking")
  /\ UNCHANGED <<keys, orders, epoch, crashes>>

\* The request goes on to write a row; seen (history) is the number of orders that
\* were committed when it looked.
Reserve(r) ==
  requests' = [requests EXCEPT ![r].pc = "inserting", ![r].seen = Len(orders),
                               ![r].replaces = keys[Key(r)] # Absent]

\* Mutant: a row without a response is taken over.
FindUnanswered(r) ==
  LET row == keys[Key(r)]
  IN  /\ IsAt(r, "looking")
      /\ row = Absent \/ row.expired \/ row.response = 0
      /\ Reserve(r)
      /\ UNCHANGED <<keys, orders, epoch, crashes>>

\* start_request: session.get finds no row, or an expired one.
FindFree(r) ==
  LET row == keys[Key(r)]
  IN  /\ IsAt(r, "looking")
      /\ row = Absent \/ row.expired
      /\ Reserve(r)
      /\ UNCHANGED <<keys, orders, epoch, crashes>>

\* Mutant: the request hash is not compared.
FindAnyBody(r) ==
  LET row == keys[Key(r)]
  IN  /\ IsAt(r, "looking")
      /\ row # Absent /\ ~row.expired
      /\ IF row.response = 0
           THEN Answer(r, "in progress", 0)
           ELSE Answer(r, "stored", row.response)
      /\ UNCHANGED <<keys, orders, epoch, crashes>>

\* start_request: a live row answers the request.
FindRow(r) ==
  LET row == keys[Key(r)]
  IN  /\ IsAt(r, "looking")
      /\ row # Absent /\ ~row.expired
      /\ CASE row.body # requests[r].body -> Answer(r, "conflict", 0)
           [] row.body = requests[r].body /\ row.response = 0 -> Answer(r, "in progress", 0)
           [] row.body = requests[r].body /\ row.response # 0 -> Answer(r, "stored", row.response)
      /\ UNCHANGED <<keys, orders, epoch, crashes>>

\* The insert meets no committed row.  A request that saw an expired row deletes
\* by key first, and so removes whatever row is committed by now.
KeyIsFree(r) == keys[Key(r)] = Absent \/ requests[r].replaces

\* The flush of DELETE and INSERT, once no other transaction holds the key.
InsertKey(r) ==
  /\ IsAt(r, "inserting")
  /\ Holders(Key(r)) = {}
  /\ KeyIsFree(r)
  /\ Goto(r, "ordering")
  /\ UNCHANGED <<keys, orders, epoch, crashes>>

\* Mutant: the insert is tried again after an IntegrityError.
InsertAgain(r) ==
  /\ IsAt(r, "inserting")
  /\ Holders(Key(r)) = {}
  /\ keys[Key(r)] # Absent
  /\ UNCHANGED vars

\* IntegrityError: a row has been committed since the look-up.  It also hits a
\* request whose DELETE began early enough to wait for the row to be replaced.
InsertFails(r) ==
  /\ IsAt(r, "inserting")
  /\ Holders(Key(r)) = {}
  /\ keys[Key(r)] # Absent
  /\ requests[r].replaces => ~keys[Key(r)].expired
  /\ Answer(r, "error", 0)
  /\ UNCHANGED <<keys, orders, epoch, crashes>>

\* create_order raises InventoryItemNotFoundError: 404 and no commit.
RejectOrder(r) ==
  /\ IsAt(r, "ordering")
  /\ Answer(r, "not found", 0)
  /\ UNCHANGED <<keys, orders, epoch, crashes>>

\* Mutant: the key row is committed and the order is not.
CommitKeyAlone(r) ==
  LET k == Key(r)
      row == [body |-> requests[r].body, response |-> 0, version |-> Len(orders) + 1,
              expired |-> FALSE]
  IN  /\ IsAt(r, "ordering")
      /\ keys' = [keys EXCEPT ![k] = row]
      /\ requests' = [requests EXCEPT ![r].pc = "storing", ![r].order = Len(orders) + 1]
      /\ UNCHANGED <<orders, epoch, crashes>>

\* Mutant: an expired row is renewed in place and keeps its request hash.
RenewRow(r) ==
  LET k == Key(r)
      hash == IF requests[r].replaces THEN keys[k].body ELSE requests[r].body
  IN  /\ IsAt(r, "ordering")
      /\ orders' = Append(orders, [key |-> k, body |-> requests[r].body, epoch |-> epoch[k],
                                  seen |-> requests[r].seen])
      /\ keys' = [keys EXCEPT ![k] = [body |-> hash, response |-> 0,
                                      version |-> Len(orders) + 1, expired |-> FALSE]]
      /\ requests' = [requests EXCEPT ![r].pc = "storing", ![r].order = Len(orders) + 1]
      /\ UNCHANGED <<epoch, crashes>>

\* The commit in create_order: the order, its event and the key row.
CommitOrder(r) ==
  LET k == Key(r)
      row == [body |-> requests[r].body, response |-> 0, version |-> Len(orders) + 1,
              expired |-> FALSE]
  IN  /\ IsAt(r, "ordering")
      /\ orders' = Append(orders, [key |-> k, body |-> requests[r].body, epoch |-> epoch[k],
                                  seen |-> requests[r].seen])
      /\ keys' = [keys EXCEPT ![k] = row]
      /\ requests' = [requests EXCEPT ![r].pc = "storing", ![r].order = Len(orders) + 1]
      /\ UNCHANGED <<epoch, crashes>>

\* Mutant: the second commit is missing.
AnswerUnstored(r) ==
  /\ IsAt(r, "storing")
  /\ Holders(Key(r)) = {}
  /\ Answer(r, "created", requests[r].order)
  /\ UNCHANGED <<keys, orders, epoch, crashes>>

\* store_response and the second commit: the UPDATE finds the row by its key, even
\* if it is the row of another request by now.
StoreResponse(r) ==
  /\ IsAt(r, "storing")
  /\ Holders(Key(r)) = {}
  /\ keys' = [keys EXCEPT ![Key(r)].response = requests[r].order]
  /\ Answer(r, "created", requests[r].order)
  /\ UNCHANGED <<orders, epoch, crashes>>

\* The row store_response has loaded is replaced before its UPDATE: StaleDataError.
StoreFails(r) ==
  /\ IsAt(r, "storing")
  /\ Holders(Key(r)) = {}
  /\ keys[Key(r)].version # requests[r].order
  /\ Answer(r, "error", 0)
  /\ UNCHANGED <<keys, orders, epoch, crashes>>

\* The process dies or the connection breaks: the client gets no response.
Crash(r) ==
  /\ requests[r].pc \in Running
  /\ crashes < MaxCrashes
  /\ crashes' = crashes + 1
  /\ Goto(r, "done")
  /\ UNCHANGED <<keys, orders, epoch>>

\* A day has passed.  Requests are shorter than that: those that have committed an
\* order with the key are not running any more.
Expire(k) ==
  /\ keys[k] # Absent /\ ~keys[k].expired
  /\ epoch[k] < MaxExpiries
  /\ \A r \in InFlight(k) : ~IsAt(r, "storing")
  /\ keys' = [keys EXCEPT ![k].expired = TRUE]
  /\ epoch' = [epoch EXCEPT ![k] = @ + 1]
  /\ UNCHANGED <<orders, requests, crashes>>

\* What the server does about a request it has received.
Serve(r) ==
  \/ FindFree(r) \/ FindRow(r)
  \/ InsertKey(r) \/ InsertFails(r)
  \/ RejectOrder(r) \/ CommitOrder(r)
  \/ StoreResponse(r) \/ StoreFails(r)

Next ==
  \/ \E r \in Requests : Send(r) \/ Serve(r) \/ Crash(r)
  \/ \E k \in Keys : Expire(k)

Spec == Init /\ [][Next]_vars

\* The server keeps working on the requests it has received.
FairSpec == Spec /\ \A r \in Requests : WF_vars(Serve(r))

-----------------------------------------------------------------------------
(* Properties                                                              *)

\* Type invariant.
TypeOK ==
  /\ keys \in [Keys -> KeyRow \cup {Absent}]
  /\ \A k \in Keys : {keys[k].response, keys[k].version} \subseteq Orders \cup {0}
  /\ orders \in Seq([key : Keys, body : Bodies, epoch : Nat, seen : Nat])
  /\ requests \in [Requests ->
       [pc : Running \cup {"idle", "done"}, key : Keys, body : Bodies, replaces : BOOLEAN,
        seen : Nat, order : Orders \cup {0}, reply : Replies]]
  /\ epoch \in [Keys -> 0 .. MaxExpiries]
  /\ crashes \in 0 .. MaxCrashes

\* Orders made with one key between two of its expiries.
Rivals(i, j) == orders[i].key = orders[j].key /\ orders[i].epoch = orders[j].epoch

\* "API idempotency prevents duplicate commands from creating duplicate orders"
\* (docs/architecture/idempotency.md): between two expiries of a key at most one
\* order is created with it, by any number of retries.
OneOrderPerKey == \A i, j \in Orders : Rivals(i, j) => i = j

\* What holds of it without exception: a second order needs a request that looked
\* at the expired row of the key before the first order was committed.  A new key
\* never makes two orders, and neither does a retry that begins after the commit.
DuplicatesOverlap ==
  \A i, j \in Orders :
    Rivals(i, j) /\ i < j => orders[i].epoch > 0 /\ orders[j].seen < i

Contested(i) == \E j \in Orders : j # i /\ Rivals(i, j)

\* A client that is told of an order, created now or stored before, is told of one
\* made with its own key; and from its own body, unless that order was made in a
\* race for an expired key.
RepliesAgree ==
  \A r \in Requests :
    requests[r].reply \in {"created", "stored"} =>
      LET order == orders[requests[r].order]
      IN  /\ order.key = Key(r)
          /\ order.body = requests[r].body \/ Contested(requests[r].order)

\* A key row describes the order committed with it: the stored hash is that of its
\* body, and the stored response is that order's or a rival's.
RowMatchesOrder ==
  \A k \in Keys : keys[k] # Absent =>
    LET row == keys[k]
    IN  /\ orders[row.version].key = k /\ orders[row.version].body = row.body
        /\ row.response # 0 => Rivals(row.response, row.version)

\* The keys whose retries are told 409 "already processing" although no request is
\* working on them.
Stuck ==
  {k \in Keys :
     /\ keys[k] # Absent /\ ~keys[k].expired /\ keys[k].response = 0
     /\ \A r \in InFlight(k) : requests[r].order # keys[k].version}

\* Each of them has cost a crash between the two commits of the endpoint
\* (orders/routes.py): no refused insert, rejected order, failed UPDATE or race
\* leaves a key in that state, where it remains until it expires.
StuckOnlyByCrash == Cardinality(Stuck) <= crashes

\* Every request the server has received is answered or dies: nobody waits
\* forever for the row another transaction holds.
EveryRequestEnds == \A r \in Requests : IsAt(r, "looking") ~> IsAt(r, "done")

=============================================================================
