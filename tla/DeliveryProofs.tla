--------------------------- MODULE DeliveryProofs ---------------------------
(***************************************************************************)
(* Dispatcher: type correctness, exactly-once effects, no lost event and   *)
(* one follow-up per event, proved for any number of dispatchers,          *)
(* operators and events and for every table of handlers, with batches cut  *)
(* off by crashes or missing connections, failed look-ups and replays.     *)
(***************************************************************************)
EXTENDS Dispatcher, TLAPS

-----------------------------------------------------------------------------
(* Type correctness                                                        *)

\* What an outbox row says of the event itself never changes, and rows are only
\* added: the facts every later step preserves about earlier events.
RowsKept ==
  /\ Len(outbox) <= Len(outbox')
  /\ \A e \in Events :
       /\ outbox'[e].type = outbox[e].type
       /\ outbox'[e].cause = outbox[e].cause
       /\ outbox'[e].origin = outbox[e].origin

\* Appending a row to a table keeps the rows in it.
LEMMA AppendRow ==
  ASSUME NEW S, NEW s \in Seq(S), NEW r \in S
  PROVE  /\ Append(s, r) \in Seq(S)
         /\ Len(Append(s, r)) = Len(s) + 1
         /\ \A i \in 1 .. Len(s) : Append(s, r)[i] = s[i]
         /\ Append(s, r)[Len(s) + 1] = r
  OBVIOUS

\* Updating a row of a table keeps the others.
LEMMA UpdateRow ==
  ASSUME NEW S, NEW s \in Seq(S), NEW i \in 1 .. Len(s), NEW r \in S
  PROVE  /\ [s EXCEPT ![i] = r] \in Seq(S)
         /\ Len([s EXCEPT ![i] = r]) = Len(s)
         /\ [s EXCEPT ![i] = r][i] = r
         /\ \A j \in 1 .. Len(s) : j # i => [s EXCEPT ![i] = r][j] = s[j]
  OBVIOUS

\* The three UPDATE statements and the clock keep a row a row.
LEMMA RowTypes ==
  ASSUME NEW row \in Row, NEW cached \in CachedRow
  PROVE  /\ MarkPublished(row, cached) \in Row
         /\ MarkRetryableFailure(row, cached) \in Row
         /\ MarkFailed(row, cached) \in Row
         /\ [row EXCEPT !.next = "due"] \in Row
<1>1. ClearDelay(row, cached) \in Delays
  BY DEF ClearDelay, Row, Delays
<1>2. cached.failures + 1 \in Nat
  BY DEF CachedRow
<1>3. {"PUBLISHED", "FAILED"} \subseteq Statuses /\ {"later", "due"} \subseteq Delays
  BY DEF Statuses, Delays
<1> QED
  BY <1>1, <1>2, <1>3 DEF MarkPublished, MarkRetryableFailure, MarkFailed, Row

\* A new row is a row.
LEMMA NewRowType ==
  ASSUME NEW type \in EventTypes, NEW cause \in Nat, NEW origin \in Nat
  PROVE  NewRow(type, cause, origin) \in Row
  BY DEF NewRow, Row, Statuses, Delays

-----------------------------------------------------------------------------

\* The commit that ends the work on an event keeps the process state typed.
LEMMA AdvanceTyped ==
  ASSUME ProcessesTyped, NEW d \in Dispatchers, NEW e, Advance(d, e),
         Len(outbox') >= Len(outbox), Len(outbox) \in Nat, Len(outbox') \in Nat
  PROVE  /\ pc' \in [Dispatchers -> Steps]
         /\ pc'[d] # "handling"
         /\ \A c \in Dispatchers : c # d => pc'[c] = pc[c] /\ batch'[c] = batch[c]
         /\ DOMAIN batch' = Dispatchers
         /\ \A c \in Dispatchers : BatchTyped(c)'
<1> DEFINE left == DOMAIN batch[d] \ {e}
<1>1. batch' = [batch EXCEPT ![d] = Restrict(@, left)]
  BY DEF Advance
<1>2. pc' = [pc EXCEPT ![d] = IF left = {} THEN "idle" ELSE "next"]
  BY DEF Advance, Goto
<1>3. pc' \in [Dispatchers -> Steps] /\ pc'[d] # "handling"
  BY <1>2 DEF ProcessesTyped, Steps
<1>4. /\ DOMAIN batch' = Dispatchers
      /\ \A c \in Dispatchers : c # d => pc'[c] = pc[c] /\ batch'[c] = batch[c]
      /\ batch'[d] = [f \in left |-> batch[d][f]]
  BY <1>1, <1>2 DEF ProcessesTyped, Restrict
<1>5. ASSUME NEW c \in Dispatchers PROVE BatchTyped(c)'
  BY <1>4 DEF ProcessesTyped, BatchTyped, Events
<1> QED
  BY <1>3, <1>4, <1>5

\* A batch that is given up keeps the process state typed.
LEMMA AbandonTyped ==
  ASSUME ProcessesTyped, NEW d \in Dispatchers, Abandon(d)
  PROVE  /\ pc' \in [Dispatchers -> Steps]
         /\ pc'[d] = "idle"
         /\ \A c \in Dispatchers : c # d => pc'[c] = pc[c] /\ batch'[c] = batch[c]
         /\ DOMAIN batch' = Dispatchers
         /\ \A c \in Dispatchers : BatchTyped(c)'
         /\ attempt' \in [Dispatchers -> Nat]
<1>1. /\ pc' = [pc EXCEPT ![d] = "idle"]
      /\ batch' = [batch EXCEPT ![d] = <<>>]
      /\ attempt' = [attempt EXCEPT ![d] = 0]
      /\ outbox' = outbox
  BY DEF Abandon, Goto
<1>2. /\ pc' \in [Dispatchers -> Steps]
      /\ pc'[d] = "idle"
      /\ attempt' \in [Dispatchers -> Nat]
  BY <1>1 DEF ProcessesTyped, Steps
<1>3. /\ DOMAIN batch' = Dispatchers
      /\ \A c \in Dispatchers : c # d => pc'[c] = pc[c] /\ batch'[c] = batch[c]
      /\ batch'[d] = <<>>
  BY <1>1 DEF ProcessesTyped
<1>4. DOMAIN <<>> = {}
  OBVIOUS
<1>5. ASSUME NEW c \in Dispatchers PROVE BatchTyped(c)'
  BY <1>1, <1>3, <1>4 DEF ProcessesTyped, BatchTyped, Events
<1> QED
  BY <1>2, <1>3, <1>5

-----------------------------------------------------------------------------

\* A step that leaves the tables alone keeps them typed.
LEMMA TablesUnchanged ==
  ASSUME TablesTyped, UNCHANGED <<outbox, attempts, inbox, deadLetters, effects>>
  PROVE  TablesTyped'
  BY DEF TablesTyped, Events

\* An inserted event keeps the tables typed; effects may count one event more.
LEMMA InsertTyped ==
  ASSUME TablesTyped, NEW row \in Row, InsertRow(row),
         NEW counted \in Seq(Nat), Len(counted) = Len(effects),
         effects' = Append(counted, 0),
         inbox' \subseteq {<<ConsumerOf[t], e>> : t \in DOMAIN ConsumerOf, e \in Events},
         deadLetters' \in Seq(DeadLetterRow), Len(deadLetters') = Len(deadLetters),
         \A k \in 1 .. Len(deadLetters) : deadLetters'[k].event = deadLetters[k].event
  PROVE  TablesTyped' /\ Len(outbox') = Len(outbox) + 1
<1>1. /\ outbox' \in Seq(Row)
      /\ Len(outbox') = Len(outbox) + 1
      /\ attempts' \in Seq(Seq(Nat))
      /\ Len(attempts') = Len(outbox')
  <2>1. <<>> \in Seq(Nat)
    OBVIOUS
  <2> QED
    BY <2>1, AppendRow DEF TablesTyped, InsertRow
<1>2. effects' \in Seq(Nat) /\ Len(effects') = Len(outbox')
  BY <1>1, AppendRow DEF TablesTyped
<1>3. Events \subseteq Events'
  BY <1>1 DEF TablesTyped, Events
<1>4. inbox' \subseteq {<<ConsumerOf[t], e>> : t \in DOMAIN ConsumerOf, e \in Events'}
  BY <1>3
<1>5. ASSUME NEW k \in 1 .. Len(deadLetters') PROVE deadLetters'[k].event \in Events'
  <2>1. k \in 1 .. Len(deadLetters)
    OBVIOUS
  <2>2. deadLetters[k].event \in Events
    BY <2>1 DEF TablesTyped
  <2>3. deadLetters'[k].event = deadLetters[k].event
    BY <2>1
  <2> QED
    BY <1>3, <2>2, <2>3
<1> QED
  BY <1>1, <1>2, <1>4, <1>5 DEF TablesTyped

\* An updated event keeps the tables typed.
LEMMA UpdateTyped ==
  ASSUME TablesTyped, NEW e \in Events, NEW row \in Row,
         outbox' = [outbox EXCEPT ![e] = row],
         attempts' \in Seq(Seq(Nat)), Len(attempts') = Len(attempts),
         UNCHANGED <<inbox, effects>>,
         deadLetters' \in Seq(DeadLetterRow),
         \A k \in 1 .. Len(deadLetters') : deadLetters'[k].event \in Events
  PROVE  TablesTyped' /\ Events' = Events /\ Len(outbox') = Len(outbox)
<1>1. outbox' \in Seq(Row) /\ Len(outbox') = Len(outbox)
  BY UpdateRow DEF TablesTyped, Events
<1>2. Events' = Events
  BY <1>1 DEF Events
<1> QED
  BY <1>1, <1>2 DEF TablesTyped

-----------------------------------------------------------------------------

\* What a dispatcher is handling stays registered, whatever others do, and d
\* itself handles nothing after the step.
LEMMA RegisteredKept ==
  ASSUME TypeOK, RowsKept, NEW d \in Dispatchers,
         pc'[d] # "handling",
         \A c \in Dispatchers : c # d => pc'[c] = pc[c] /\ batch'[c] = batch[c]
  PROVE  HandlersRegistered'
<1> SUFFICES ASSUME NEW c \in Dispatchers, NEW e \in DOMAIN batch'[c],
                    pc'[c] = "handling", Current(c, e)'
             PROVE  Registered(e)'
  BY DEF HandlersRegistered
<1>1. c # d /\ pc[c] = "handling" /\ batch'[c] = batch[c]
  OBVIOUS
<1>2. e \in DOMAIN batch[c] /\ Current(c, e)
  BY <1>1 DEF Current
<1>3. Registered(e) /\ e \in Events
  BY <1>1, <1>2 DEF TypeOK, HandlersRegistered, ProcessesTyped, BatchTyped
<1> QED
  BY <1>3 DEF Registered, RowsKept

\* The same for a step that no dispatcher takes.
LEMMA RegisteredStutter ==
  ASSUME TypeOK, RowsKept, UNCHANGED <<pc, batch>>
  PROVE  HandlersRegistered' /\ \A c \in Dispatchers : BatchTyped(c)'
<1>1. ASSUME NEW c \in Dispatchers PROVE BatchTyped(c)'
  BY DEF TypeOK, ProcessesTyped, TablesTyped, BatchTyped, RowsKept, Events
<1>2. ASSUME NEW c \in Dispatchers, NEW e \in DOMAIN batch'[c],
             pc'[c] = "handling", Current(c, e)'
      PROVE  Registered(e)'
  <2>1. pc[c] = "handling" /\ e \in DOMAIN batch[c] /\ Current(c, e)
    BY <1>2 DEF Current
  <2>2. Registered(e) /\ e \in Events
    BY <2>1 DEF TypeOK, HandlersRegistered, ProcessesTyped, BatchTyped
  <2> QED
    BY <2>2 DEF Registered, RowsKept
<1> QED
  BY <1>1, <1>2 DEF HandlersRegistered

\* The actions that only move a dispatcher along.
LEMMA GotoTyped ==
  ASSUME TypeOK, NEW d \in Dispatchers, NEW step \in Steps, Goto(d, step),
         UNCHANGED <<outbox, attempts, inbox, deadLetters, effects, batch, replaying,
                     interruptions>>,
         attempt' \in [Dispatchers -> Nat],
         step = "handling" => \A e \in Events : Current(d, e) => Registered(e)
  PROVE  TypeOK' /\ RowsKept
<1>1. TablesTyped' /\ RowsKept
  BY TablesUnchanged DEF TypeOK, RowsKept, TablesTyped
<1>2. pc' = [pc EXCEPT ![d] = step]
  BY DEF Goto
<1>3. ProcessesTyped'
  BY <1>2 DEF TypeOK, ProcessesTyped, BatchTyped, Events
<1>4. ASSUME NEW c \in Dispatchers, NEW e \in DOMAIN batch'[c],
             pc'[c] = "handling", Current(c, e)'
      PROVE  Registered(e)'
  <2>1. e \in Events /\ e \in DOMAIN batch[c] /\ Current(c, e)
    BY <1>4 DEF TypeOK, ProcessesTyped, BatchTyped, Current
  <2>2. CASE c = d
    BY <1>2, <1>4, <2>1, <2>2 DEF TypeOK, ProcessesTyped, Registered
  <2>3. CASE c # d
    BY <1>2, <1>4, <2>1, <2>3 DEF TypeOK, ProcessesTyped, HandlersRegistered, Registered
  <2> QED
    BY <2>2, <2>3
<1> QED
  BY <1>1, <1>3, <1>4 DEF TypeOK, HandlersRegistered

\* Updates that leave the description of the event alone keep the rows.
LEMMA UpdateKeepsRows ==
  ASSUME TablesTyped, NEW e \in Events, NEW row \in Row,
         outbox' = [outbox EXCEPT ![e] = row],
         row.type = outbox[e].type, row.cause = outbox[e].cause,
         row.origin = outbox[e].origin
  PROVE  RowsKept
<1>1. outbox \in Seq(Row) /\ e \in 1 .. Len(outbox)
  BY DEF TablesTyped, Events
<1>2. /\ Len(outbox') = Len(outbox) /\ Len(outbox) \in Nat
      /\ outbox'[e] = row
      /\ \A f \in 1 .. Len(outbox) : f # e => outbox'[f] = outbox[f]
  BY <1>1, UpdateRow
<1>3. ASSUME NEW f \in Events
      PROVE  /\ outbox'[f].type = outbox[f].type
             /\ outbox'[f].cause = outbox[f].cause
             /\ outbox'[f].origin = outbox[f].origin
  <2>1. CASE f = e
    BY <1>2, <2>1
  <2>2. CASE f # e
    BY <1>2, <2>2 DEF Events
  <2> QED
    BY <2>1, <2>2
<1> QED
  BY <1>2, <1>3 DEF RowsKept

-----------------------------------------------------------------------------
(* Every action keeps the types and the rows.                              *)

\* An order recorded outside the dispatcher is a well-typed event.
LEMMA SubmitTyped ==
  ASSUME TypeOK, NEW type \in SeedTypes, Submit(type)
  PROVE  TypeOK' /\ RowsKept
<1> DEFINE row == NewRow(type, 0, Len(outbox) + 1)
<1>1. row \in Row
  <2>1. type \in EventTypes
    BY TypesAssumption
  <2>2. Len(outbox) + 1 \in Nat /\ 0 \in Nat
    BY DEF TypeOK, TablesTyped
  <2> QED
    BY <2>1, <2>2, NewRowType
<1>2. TablesTyped' /\ Len(outbox') = Len(outbox) + 1
  <2>1. /\ InsertRow(row) /\ effects' = Append(effects, 0)
        /\ inbox' = inbox /\ deadLetters' = deadLetters
    BY DEF Submit
  <2>2. /\ TablesTyped /\ effects \in Seq(Nat) /\ deadLetters \in Seq(DeadLetterRow)
        /\ inbox \subseteq {<<ConsumerOf[t], e>> : t \in DOMAIN ConsumerOf, e \in Events}
    BY DEF TypeOK, TablesTyped
  <2> HIDE DEF row
  <2> QED
    BY <1>1, <2>1, <2>2, InsertTyped
<1>3. RowsKept
  BY <1>1, <1>2, AppendRow DEF TypeOK, TablesTyped, Submit, InsertRow, RowsKept, Events
<1>4. ProcessesTyped'
  BY <1>3, RegisteredStutter DEF TypeOK, ProcessesTyped, Submit
<1> QED
  BY <1>2, <1>3, <1>4, RegisteredStutter DEF TypeOK, Submit

\* The clock changes next_attempt_at within its type.
LEMMA BackoffElapsesTyped ==
  ASSUME TypeOK, NEW e \in Events, BackoffElapses(e)
  PROVE  TypeOK' /\ RowsKept
<1> DEFINE row == [outbox[e] EXCEPT !.next = "due"]
<1>1. outbox[e] \in Row
  BY DEF TypeOK, TablesTyped, Events
<1>2. row \in Row /\ row.type = outbox[e].type /\ row.cause = outbox[e].cause
      /\ row.origin = outbox[e].origin
  BY <1>1, RowTypes DEF CachedRow, Row, Delays
<1>3. outbox' = [outbox EXCEPT ![e] = row]
  BY DEF BackoffElapses
<1>4. TablesTyped' /\ Len(outbox') = Len(outbox)
  <2>1. UNCHANGED <<attempts, inbox, effects, deadLetters>>
    BY DEF BackoffElapses
  <2>2. /\ TablesTyped /\ attempts \in Seq(Seq(Nat)) /\ deadLetters \in Seq(DeadLetterRow)
        /\ \A k \in 1 .. Len(deadLetters) : deadLetters[k].event \in Events
    BY DEF TypeOK, TablesTyped
  <2> HIDE DEF row
  <2> QED
    BY <1>2, <1>3, <2>1, <2>2, UpdateTyped
<1>5. RowsKept
  BY <1>2, <1>3, <1>4, UpdateKeepsRows DEF TypeOK
<1>6. ProcessesTyped'
  BY <1>5, RegisteredStutter DEF TypeOK, ProcessesTyped, BackoffElapses
<1> QED
  BY <1>4, <1>5, <1>6, RegisteredStutter DEF TypeOK, BackoffElapses

\* A fetched batch holds rows of the outbox.
LEMMA FetchTyped ==
  ASSUME TypeOK, NEW d \in Dispatchers, Fetch(d)
  PROVE  TypeOK' /\ RowsKept
<1> DEFINE rows == [e \in FetchPending |->
                     [failures |-> outbox[e].failures, next |-> outbox[e].next]]
<1>1. TablesTyped' /\ RowsKept
  BY TablesUnchanged DEF Fetch, TypeOK, RowsKept, TablesTyped
<1>2. /\ pc' = [pc EXCEPT ![d] = "first"]
      /\ batch' = [batch EXCEPT ![d] = rows]
  BY DEF Fetch, Goto
<1>3. FetchPending \subseteq Events
  BY DEF FetchPending, Eligible
<1>4. ASSUME NEW e \in FetchPending PROVE rows[e] \in CachedRow
  <2>1. outbox[e] \in Row
    <3>1. outbox \in Seq(Row) /\ e \in 1 .. Len(outbox)
      BY <1>3, <1>4 DEF TypeOK, TablesTyped, Events
    <3> QED
      BY <3>1
  <2> QED
    BY <2>1 DEF Row, CachedRow
<1>5. /\ pc' \in [Dispatchers -> Steps]
      /\ DOMAIN batch' = Dispatchers
      /\ batch'[d] = rows /\ pc'[d] # "handling"
      /\ \A c \in Dispatchers : c # d => pc'[c] = pc[c] /\ batch'[c] = batch[c]
  BY <1>2 DEF TypeOK, ProcessesTyped, Steps
<1>6. ASSUME NEW c \in Dispatchers PROVE BatchTyped(c)'
  <2>1. CASE c = d
    BY <1>3, <1>4, <1>5, <2>1 DEF BatchTyped, Fetch, Events
  <2>2. CASE c # d
    BY <1>5, <2>2 DEF BatchTyped, Fetch, Events, TypeOK, ProcessesTyped
  <2> QED
    BY <2>1, <2>2
<1>7. ProcessesTyped'
  BY <1>5, <1>6 DEF ProcessesTyped, TypeOK, Fetch
<1>8. HandlersRegistered'
  BY <1>1, <1>5, RegisteredKept
<1> QED
  BY <1>1, <1>7, <1>8 DEF TypeOK

\* The moves between two commits.
LEMMA MovesTyped ==
  ASSUME TypeOK, NEW d \in Dispatchers,
         \/ RejectUnsupported(d) \/ ConnectionFails(d) \/ SkipProcessed(d)
         \/ StartHandler(d) \/ HandlerRaises(d) \/ RecordFailure(d)
  PROVE  TypeOK' /\ RowsKept
<1>1. CASE RejectUnsupported(d)
  BY <1>1, GotoTyped DEF RejectUnsupported, Steps, TypeOK, ProcessesTyped
<1>2. CASE ConnectionFails(d)
  BY <1>2, GotoTyped DEF ConnectionFails, Steps, TypeOK, ProcessesTyped
<1>3. CASE SkipProcessed(d)
  BY <1>3, GotoTyped DEF SkipProcessed, Steps, TypeOK, ProcessesTyped
<1>4. CASE StartHandler(d)
  <2>1. PICK e \in Events : /\ Current(d, e) /\ Registered(e) /\ Goto(d, "handling")
                           /\ UNCHANGED <<outbox, attempts, inbox, deadLetters, effects,
                                          batch, attempt, replaying, interruptions>>
    BY <1>4 DEF StartHandler
  <2>2. ASSUME NEW f \in Events, Current(d, f) PROVE f = e
    BY <2>1, <2>2 DEF Current, Events
  <2> QED
    BY <2>1, <2>2, GotoTyped DEF Steps, TypeOK, ProcessesTyped
<1>5. CASE HandlerRaises(d)
  BY <1>5, GotoTyped DEF HandlerRaises, Steps, TypeOK, ProcessesTyped
<1>6. CASE RecordFailure(d)
  <2>1. PICK n : /\ n \in Nat /\ attempt' = [attempt EXCEPT ![d] = n]
                 /\ Goto(d, "settling")
                 /\ UNCHANGED <<outbox, attempts, inbox, deadLetters, effects, batch,
                                replaying, interruptions>>
    <3>1. PICK e \in Events : \E n \in 1 .. Len(attempts[e]) + 1 :
            /\ attempt' = [attempt EXCEPT ![d] = n]
            /\ Goto(d, "settling")
            /\ UNCHANGED <<outbox, attempts, inbox, deadLetters, effects, batch,
                           replaying, interruptions>>
      BY <1>6 DEF RecordFailure
    <3>2. attempts[e] \in Seq(Nat)
      <4>1. attempts \in Seq(Seq(Nat)) /\ e \in 1 .. Len(attempts)
        BY DEF TypeOK, TablesTyped, Events
      <4> QED
        BY <4>1
    <3>3. \A n \in 1 .. Len(attempts[e]) + 1 : n \in Nat
      BY <3>2
    <3> QED
      BY <3>1, <3>3, Zenon
  <2>2. attempt' \in [Dispatchers -> Nat]
    BY <2>1 DEF TypeOK, ProcessesTyped
  <2> QED
    BY <2>1, <2>2, GotoTyped DEF Steps
<1> QED
  BY <1>1, <1>2, <1>3, <1>4, <1>5, <1>6

\* A dispatcher whose work on e ends by a commit that updates the row of e.
LEMMA CommitTyped ==
  ASSUME TypeOK, NEW d \in Dispatchers, NEW e \in Events, NEW row \in Row,
         outbox' = [outbox EXCEPT ![e] = row],
         row.type = outbox[e].type, row.cause = outbox[e].cause,
         row.origin = outbox[e].origin,
         Advance(d, e),
         attempts' \in Seq(Seq(Nat)), Len(attempts') = Len(attempts),
         deadLetters' \in Seq(DeadLetterRow), Len(deadLetters') >= Len(deadLetters),
         \A k \in 1 .. Len(deadLetters') : deadLetters'[k].event \in Events,
         attempt' \in [Dispatchers -> Nat],
         UNCHANGED <<inbox, effects, replaying, interruptions>>
  PROVE  TypeOK' /\ RowsKept
<1>1. TablesTyped
  BY DEF TypeOK
<1>2. TablesTyped' /\ Len(outbox') = Len(outbox)
  BY <1>1, UpdateTyped
<1>3. RowsKept
  BY <1>1, UpdateKeepsRows
<1>4. /\ pc' \in [Dispatchers -> Steps]
      /\ pc'[d] # "handling"
      /\ \A c \in Dispatchers : c # d => pc'[c] = pc[c] /\ batch'[c] = batch[c]
      /\ DOMAIN batch' = Dispatchers
      /\ \A c \in Dispatchers : BatchTyped(c)'
  <2>1. ProcessesTyped /\ Len(outbox) \in Nat
    BY DEF TypeOK, TablesTyped
  <2> QED
    BY <1>2, <2>1, AdvanceTyped
<1>5. replaying' \in [Operators -> 0 .. Len(deadLetters')]
  BY DEF TypeOK, ProcessesTyped, TablesTyped
<1>6. ProcessesTyped'
  BY <1>4, <1>5 DEF TypeOK, ProcessesTyped
<1>7. HandlersRegistered'
  BY <1>3, <1>4, RegisteredKept
<1> QED
  BY <1>2, <1>3, <1>6, <1>7 DEF TypeOK

\* What d has fetched and what the table says now are both typed.
LEMMA FetchedRow ==
  ASSUME TypeOK, NEW d \in Dispatchers, NEW e \in Events, Current(d, e)
  PROVE  outbox[e] \in Row /\ batch[d][e] \in CachedRow
<1>1. outbox \in Seq(Row) /\ e \in 1 .. Len(outbox)
  BY DEF TypeOK, TablesTyped, Events
<1>2. BatchTyped(d) /\ e \in DOMAIN batch[d]
  BY DEF TypeOK, ProcessesTyped, Current
<1> QED
  BY <1>1, <1>2 DEF BatchTyped

\* A dead-letter row more.
LEMMA BuriedTyped ==
  ASSUME TypeOK, NEW e \in Events,
         deadLetters' = Append(deadLetters, [event |-> e, replayed |-> FALSE])
  PROVE  /\ deadLetters' \in Seq(DeadLetterRow)
         /\ Len(deadLetters') = Len(deadLetters) + 1
         /\ Len(deadLetters) \in Nat
         /\ deadLetters'[Len(deadLetters) + 1] = [event |-> e, replayed |-> FALSE]
         /\ \A k \in 1 .. Len(deadLetters) : deadLetters'[k] = deadLetters[k]
         /\ \A k \in 1 .. Len(deadLetters') : deadLetters'[k].event \in Events
<1> DEFINE row == [event |-> e, replayed |-> FALSE]
<1>1. row \in DeadLetterRow /\ row.event = e
  BY DEF DeadLetterRow, TypeOK, TablesTyped, Events
<1>2. deadLetters \in Seq(DeadLetterRow)
  BY DEF TypeOK, TablesTyped
<1>3. /\ deadLetters' \in Seq(DeadLetterRow)
      /\ Len(deadLetters') = Len(deadLetters) + 1
      /\ Len(deadLetters) \in Nat
      /\ deadLetters'[Len(deadLetters) + 1] = row
      /\ \A k \in 1 .. Len(deadLetters) : deadLetters'[k] = deadLetters[k]
  <2> HIDE DEF row
  <2> QED
    BY <1>1, <1>2, AppendRow DEF row
<1>4. ASSUME NEW k \in 1 .. Len(deadLetters') PROVE deadLetters'[k].event \in Events
  <2>1. CASE k = Len(deadLetters) + 1
    BY <1>1, <1>3, <2>1
  <2>2. CASE k # Len(deadLetters) + 1
    <3>1. k \in 1 .. Len(deadLetters)
      BY <1>3, <2>2
    <3> QED
      BY <1>3, <3>1 DEF TypeOK, TablesTyped
  <2> QED
    BY <2>1, <2>2
<1> QED
  BY <1>3, <1>4

\* mark_published and its commit keep the types.
LEMMA PublishEventTyped ==
  ASSUME TypeOK, NEW d \in Dispatchers, PublishEvent(d)
  PROVE  TypeOK' /\ RowsKept
<1>1. PICK e \in Events :
        /\ Current(d, e)
        /\ outbox' = [outbox EXCEPT ![e] = MarkPublished(@, batch[d][e])]
        /\ Advance(d, e)
        /\ UNCHANGED <<attempts, inbox, deadLetters, effects, attempt, replaying, interruptions>>
  BY DEF PublishEvent
<1> DEFINE row == MarkPublished(outbox[e], batch[d][e])
<1>2. outbox[e] \in Row /\ batch[d][e] \in CachedRow
  BY <1>1, FetchedRow
<1>3. row \in Row
  BY <1>2, RowTypes
<1>4. row.type = outbox[e].type /\ row.cause = outbox[e].cause /\ row.origin = outbox[e].origin
  BY <1>2 DEF MarkPublished, Row
<1>5. outbox' = [outbox EXCEPT ![e] = row]
  BY <1>1
<1>6. /\ attempts' \in Seq(Seq(Nat)) /\ Len(attempts') = Len(attempts)
      /\ deadLetters' \in Seq(DeadLetterRow) /\ Len(deadLetters') >= Len(deadLetters)
      /\ \A k \in 1 .. Len(deadLetters') : deadLetters'[k].event \in Events
      /\ attempt' \in [Dispatchers -> Nat]
  BY <1>1 DEF TypeOK, TablesTyped, ProcessesTyped
<1> HIDE DEF row
<1> QED
  BY <1>1, <1>3, <1>4, <1>5, <1>6, CommitTyped

\* The two commits of a failure add an attempt row.
LEMMA AttemptTyped ==
  ASSUME TypeOK, NEW d \in Dispatchers, NEW e \in Events,
         attempts' = [attempts EXCEPT ![e] = Append(@, attempt[d])],
         attempt' = [attempt EXCEPT ![d] = 0]
  PROVE  /\ attempts' \in Seq(Seq(Nat)) /\ Len(attempts') = Len(attempts)
         /\ attempt' \in [Dispatchers -> Nat]
<1>1. attempts \in Seq(Seq(Nat)) /\ e \in 1 .. Len(attempts)
  BY DEF TypeOK, TablesTyped, Events
<1>2. attempt \in [Dispatchers -> Nat]
  BY DEF TypeOK, ProcessesTyped
<1>3. attempts[e] \in Seq(Nat)
  BY <1>1
<1>4. Append(attempts[e], attempt[d]) \in Seq(Nat)
  BY <1>2, <1>3, AppendRow
<1>5. attempts' \in Seq(Seq(Nat)) /\ Len(attempts') = Len(attempts)
  BY <1>1, <1>4, UpdateRow
<1> QED
  BY <1>2, <1>5

\* The commit of a retryable failure keeps the types.
LEMMA ScheduleRetryTyped ==
  ASSUME TypeOK, NEW d \in Dispatchers, ScheduleRetry(d)
  PROVE  TypeOK' /\ RowsKept
<1>1. PICK e \in Events :
        /\ Current(d, e)
        /\ attempts' = [attempts EXCEPT ![e] = Append(@, attempt[d])]
        /\ outbox' = [outbox EXCEPT ![e] = MarkRetryableFailure(@, batch[d][e])]
        /\ attempt' = [attempt EXCEPT ![d] = 0]
        /\ Advance(d, e)
        /\ UNCHANGED <<inbox, deadLetters, effects, replaying, interruptions>>
  BY DEF ScheduleRetry
<1> DEFINE row == MarkRetryableFailure(outbox[e], batch[d][e])
<1>2. outbox[e] \in Row /\ batch[d][e] \in CachedRow
  BY <1>1, FetchedRow
<1>3. row \in Row
  BY <1>2, RowTypes
<1>4. row.type = outbox[e].type /\ row.cause = outbox[e].cause /\ row.origin = outbox[e].origin
  BY <1>2 DEF MarkRetryableFailure, Row
<1>5. outbox' = [outbox EXCEPT ![e] = row]
  BY <1>1
<1>6. /\ deadLetters' \in Seq(DeadLetterRow) /\ Len(deadLetters') >= Len(deadLetters)
      /\ \A k \in 1 .. Len(deadLetters') : deadLetters'[k].event \in Events
  BY <1>1 DEF TypeOK, TablesTyped
<1>7. /\ attempts' \in Seq(Seq(Nat)) /\ Len(attempts') = Len(attempts)
      /\ attempt' \in [Dispatchers -> Nat]
  BY <1>1, AttemptTyped
<1> HIDE DEF row
<1> QED
  BY <1>1, <1>3, <1>4, <1>5, <1>6, <1>7, CommitTyped

\* The commit of a last failure keeps the types; its dead letter is a row.
LEMMA MoveToDeadLetterTyped ==
  ASSUME TypeOK, NEW d \in Dispatchers, MoveToDeadLetter(d)
  PROVE  TypeOK' /\ RowsKept
<1>1. PICK e \in Events :
        /\ Current(d, e)
        /\ attempts' = [attempts EXCEPT ![e] = Append(@, attempt[d])]
        /\ deadLetters' = Append(deadLetters, [event |-> e, replayed |-> FALSE])
        /\ outbox' = [outbox EXCEPT ![e] = MarkFailed(@, batch[d][e])]
        /\ attempt' = [attempt EXCEPT ![d] = 0]
        /\ Advance(d, e)
        /\ UNCHANGED <<inbox, effects, replaying, interruptions>>
  BY DEF MoveToDeadLetter
<1> DEFINE row == MarkFailed(outbox[e], batch[d][e])
<1>2. outbox[e] \in Row /\ batch[d][e] \in CachedRow
  BY <1>1, FetchedRow
<1>3. row \in Row
  BY <1>2, RowTypes
<1>4. row.type = outbox[e].type /\ row.cause = outbox[e].cause /\ row.origin = outbox[e].origin
  BY <1>2 DEF MarkFailed, Row
<1>5. outbox' = [outbox EXCEPT ![e] = row]
  BY <1>1
<1>6. /\ deadLetters' \in Seq(DeadLetterRow) /\ Len(deadLetters') >= Len(deadLetters)
      /\ \A k \in 1 .. Len(deadLetters') : deadLetters'[k].event \in Events
  <2>1. deadLetters' = Append(deadLetters, [event |-> e, replayed |-> FALSE])
    BY <1>1
  <2>2. /\ deadLetters' \in Seq(DeadLetterRow)
        /\ Len(deadLetters') = Len(deadLetters) + 1 /\ Len(deadLetters) \in Nat
        /\ \A k \in 1 .. Len(deadLetters') : deadLetters'[k].event \in Events
    BY <2>1, BuriedTyped
  <2> QED
    BY <2>2
<1>7. /\ attempts' \in Seq(Seq(Nat)) /\ Len(attempts') = Len(attempts)
      /\ attempt' \in [Dispatchers -> Nat]
  BY <1>1, AttemptTyped
<1> HIDE DEF row
<1> QED
  BY <1>1, <1>3, <1>4, <1>5, <1>6, <1>7, CommitTyped

\* Giving a batch up keeps all types, the tables being left alone.
LEMMA AbandonKeepsTypes ==
  ASSUME TypeOK, NEW d \in Dispatchers, Abandon(d), interruptions' \in 0 .. MaxInterruptions
  PROVE  TypeOK' /\ RowsKept
<1>1. UNCHANGED <<outbox, attempts, inbox, deadLetters, effects, replaying>>
  BY DEF Abandon
<1>2. TablesTyped' /\ RowsKept
  BY <1>1, TablesUnchanged DEF TypeOK, TablesTyped, RowsKept
<1>3. /\ pc' \in [Dispatchers -> Steps]
      /\ pc'[d] = "idle"
      /\ \A c \in Dispatchers : c # d => pc'[c] = pc[c] /\ batch'[c] = batch[c]
      /\ DOMAIN batch' = Dispatchers
      /\ \A c \in Dispatchers : BatchTyped(c)'
      /\ attempt' \in [Dispatchers -> Nat]
  BY AbandonTyped DEF TypeOK
<1>4. ProcessesTyped'
  BY <1>1, <1>3 DEF TypeOK, ProcessesTyped
<1>5. HandlersRegistered'
  BY <1>2, <1>3, RegisteredKept
<1> QED
  BY <1>2, <1>4, <1>5 DEF TypeOK

\* A refused flush gives the batch up.
LEMMA FlushRefusedTyped ==
  ASSUME TypeOK, NEW d \in Dispatchers, FlushRefused(d)
  PROVE  TypeOK' /\ RowsKept
  BY AbandonKeepsTypes DEF FlushRefused, TypeOK, ProcessesTyped

\* An interruption gives the batch up and is counted.
LEMMA InterruptTyped ==
  ASSUME TypeOK, NEW d \in Dispatchers, Interrupt(d)
  PROVE  TypeOK' /\ RowsKept
<1>1. interruptions' \in 0 .. MaxInterruptions
  BY BoundsAssumption DEF Interrupt, TypeOK, ProcessesTyped
<1> QED
  BY <1>1, AbandonKeepsTypes DEF Interrupt

\* The operator loads an existing dead letter.
LEMMA ReplayReadTyped ==
  ASSUME TypeOK, NEW o \in Operators, ReplayRead(o) \/ ReplayAbandoned(o)
  PROVE  TypeOK' /\ RowsKept
<1>1. UNCHANGED <<outbox, attempts, inbox, deadLetters, effects, pc, batch, attempt, interruptions>>
  BY DEF ReplayRead, ReplayAbandoned
<1>2. replaying' \in [Operators -> 0 .. Len(deadLetters)]
  <2>1. Len(deadLetters) \in Nat
    BY DEF TypeOK, TablesTyped
  <2>2. PICK k \in 0 .. Len(deadLetters) : replaying' = [replaying EXCEPT ![o] = k]
    BY <2>1 DEF ReplayRead, ReplayAbandoned
  <2> QED
    BY <2>2 DEF TypeOK, ProcessesTyped
<1>3. TablesTyped' /\ RowsKept
  BY <1>1, TablesUnchanged DEF TypeOK, TablesTyped, RowsKept
<1>4. ProcessesTyped' /\ HandlersRegistered'
  BY <1>1, <1>2, <1>3, RegisteredStutter DEF TypeOK, ProcessesTyped
<1> QED
  BY <1>3, <1>4 DEF TypeOK

\* The replayed copy is a well-typed event.
LEMMA ReplayCommitTyped ==
  ASSUME TypeOK, NEW o \in Operators, ReplayCommit(o)
  PROVE  TypeOK' /\ RowsKept
<1> DEFINE k == replaying[o]
           dead == outbox[deadLetters[k].event]
           row == NewRow(dead.type, dead.cause, dead.origin)
           marked == MarkReplayed(deadLetters[k])
<1>1. /\ k \in 1 .. Len(deadLetters)
      /\ InsertRow(row) /\ effects' = Append(effects, 0)
      /\ deadLetters' = [deadLetters EXCEPT ![k] = marked]
      /\ replaying' = [replaying EXCEPT ![o] = 0]
      /\ UNCHANGED <<inbox, pc, batch, attempt, interruptions>>
  BY DEF ReplayCommit, TypeOK, ProcessesTyped, TablesTyped
<1>2. outbox \in Seq(Row) /\ deadLetters[k].event \in 1 .. Len(outbox)
  BY <1>1 DEF TypeOK, TablesTyped, Events
<1>3. dead \in Row
  BY <1>2
<1>4. row \in Row
  BY <1>3, NewRowType DEF Row
<1>5. deadLetters \in Seq(DeadLetterRow) /\ deadLetters[k] \in DeadLetterRow
  BY <1>1 DEF TypeOK, TablesTyped
<1>6. marked \in DeadLetterRow /\ marked.event = deadLetters[k].event
  BY <1>5 DEF DeadLetterRow, MarkReplayed
<1> HIDE DEF row, marked, dead, k
<1>7. /\ deadLetters' \in Seq(DeadLetterRow) /\ Len(deadLetters') = Len(deadLetters)
      /\ \A j \in 1 .. Len(deadLetters) : deadLetters'[j].event = deadLetters[j].event
  BY <1>1, <1>5, <1>6, UpdateRow
<1>8. TablesTyped' /\ Len(outbox') = Len(outbox) + 1
  <2>1. /\ TablesTyped /\ effects \in Seq(Nat)
        /\ inbox' \subseteq {<<ConsumerOf[t], e>> : t \in DOMAIN ConsumerOf, e \in Events}
    BY <1>1 DEF TypeOK, TablesTyped
  <2> QED
    BY <1>1, <1>4, <1>7, <2>1, InsertTyped
<1>9. RowsKept
  BY <1>1, <1>2, <1>4, <1>8, AppendRow DEF InsertRow, RowsKept, Events
<1>10. replaying' \in [Operators -> 0 .. Len(deadLetters')]
  BY <1>1, <1>7 DEF TypeOK, ProcessesTyped, TablesTyped
<1>11. ProcessesTyped' /\ HandlersRegistered'
  BY <1>1, <1>9, <1>10, RegisteredStutter DEF TypeOK, ProcessesTyped
<1> QED
  BY <1>8, <1>9, <1>11 DEF TypeOK

\* A handler's commit keeps the types, with or without a follow-up.
LEMMA HandlerCommitsTyped ==
  ASSUME TypeOK, NEW d \in Dispatchers, HandlerCommits(d)
  PROVE  TypeOK' /\ RowsKept
<1> DEFINE counted(e) == [effects EXCEPT ![e] = @ + 1]
<1>1. PICK e \in Events :
        /\ pc[d] = "handling" /\ Current(d, e)
        /\ inbox' = inbox \cup {InboxKey(e)}
        /\ \/ /\ effects' = counted(e)
              /\ UNCHANGED <<outbox, attempts>>
           \/ \E out \in Outcomes[outbox[e].type] \ {NoEvent} :
                /\ effects' = Append(counted(e), 0)
                /\ InsertRow(NewRow(out, e, Len(outbox) + 1))
        /\ Goto(d, "marking")
        /\ UNCHANGED <<deadLetters, batch, attempt, replaying, interruptions>>
  BY DEF HandlerCommits
<1>2. Registered(e)
  BY <1>1 DEF TypeOK, HandlersRegistered, ProcessesTyped, Current
<1>3. inbox' \subseteq {<<ConsumerOf[t], f>> : t \in DOMAIN ConsumerOf, f \in Events}
  BY <1>1, <1>2 DEF InboxKey, Registered, TypeOK, TablesTyped
<1>4. counted(e) \in Seq(Nat) /\ Len(counted(e)) = Len(effects)
  <2>1. effects \in Seq(Nat) /\ e \in 1 .. Len(effects)
    BY DEF TypeOK, TablesTyped, Events
  <2>2. effects[e] + 1 \in Nat
    BY <2>1
  <2> QED
    BY <2>1, <2>2, UpdateRow
<1>5. TablesTyped' /\ RowsKept
  <2>1. CASE effects' = counted(e) /\ UNCHANGED <<outbox, attempts>>
    BY <1>1, <1>3, <1>4, <2>1 DEF TypeOK, TablesTyped, RowsKept, Events
  <2>2. ASSUME NEW out \in Outcomes[outbox[e].type] \ {NoEvent},
               effects' = Append(counted(e), 0),
               InsertRow(NewRow(out, e, Len(outbox) + 1))
        PROVE  TablesTyped' /\ RowsKept
    <3> DEFINE row == NewRow(out, e, Len(outbox) + 1)
               c == counted(e)
    <3>1. out \in EventTypes
      BY <1>2, TypesAssumption DEF Registered
    <3>2. row \in Row
      BY <3>1, NewRowType DEF TypeOK, TablesTyped, Events
    <3>3. /\ TablesTyped /\ deadLetters' = deadLetters /\ deadLetters \in Seq(DeadLetterRow)
          /\ outbox \in Seq(Row)
      BY <1>1 DEF TypeOK, TablesTyped
    <3>4. InsertRow(row) /\ effects' = Append(c, 0)
          /\ c \in Seq(Nat) /\ Len(c) = Len(effects)
      BY <1>4, <2>2
    <3> HIDE DEF row, c
    <3>5. TablesTyped' /\ Len(outbox') = Len(outbox) + 1
      BY <1>3, <3>2, <3>3, <3>4, InsertTyped
    <3>6. RowsKept
      BY <3>2, <3>3, <3>4, <3>5, AppendRow DEF InsertRow, RowsKept, Events
    <3> QED
      BY <3>5, <3>6
  <2> QED
    BY <1>1, <2>1, <2>2
<1>6. /\ pc' = [pc EXCEPT ![d] = "marking"]
      /\ pc'[d] # "handling"
      /\ \A c \in Dispatchers : c # d => pc'[c] = pc[c] /\ batch'[c] = batch[c]
  BY <1>1 DEF Goto, TypeOK, ProcessesTyped
<1>7. ASSUME NEW c \in Dispatchers PROVE BatchTyped(c)'
  <2>1. Events \subseteq Events'
    BY <1>5 DEF TypeOK, RowsKept, Events, TablesTyped
  <2>2. BatchTyped(c) /\ batch' = batch
    BY <1>1 DEF TypeOK, ProcessesTyped
  <2> QED
    BY <2>1, <2>2 DEF BatchTyped
<1>8. ProcessesTyped'
  BY <1>1, <1>6, <1>7 DEF TypeOK, ProcessesTyped, Steps
<1>9. HandlersRegistered'
  BY <1>5, <1>6, RegisteredKept
<1> QED
  BY <1>5, <1>8, <1>9 DEF TypeOK

-----------------------------------------------------------------------------

\* Every step keeps the types, and keeps what the rows say of their events.
LEMMA NextTyped ==
  ASSUME TypeOK, [Next]_vars
  PROVE  TypeOK' /\ RowsKept
<1>1. CASE \E type \in SeedTypes : Submit(type)
  BY <1>1, SubmitTyped
<1>2. CASE \E e \in Events : BackoffElapses(e)
  BY <1>2, BackoffElapsesTyped
<1>3. ASSUME NEW d \in Dispatchers, DispatcherStep(d) PROVE TypeOK' /\ RowsKept
  <2>1. CASE Fetch(d)
    BY <2>1, FetchTyped
  <2>2. CASE \/ RejectUnsupported(d) \/ ConnectionFails(d) \/ SkipProcessed(d)
             \/ StartHandler(d) \/ HandlerRaises(d) \/ RecordFailure(d)
    BY <2>2, MovesTyped
  <2>3. CASE HandlerCommits(d)
    BY <2>3, HandlerCommitsTyped
  <2>4. CASE FlushRefused(d)
    BY <2>4, FlushRefusedTyped
  <2>5. CASE PublishEvent(d)
    BY <2>5, PublishEventTyped
  <2>6. CASE ScheduleRetry(d)
    BY <2>6, ScheduleRetryTyped
  <2>7. CASE MoveToDeadLetter(d)
    BY <2>7, MoveToDeadLetterTyped
  <2> QED
    BY <1>3, <2>1, <2>2, <2>3, <2>4, <2>5, <2>6, <2>7 DEF DispatcherStep
<1>4. CASE \E d \in Dispatchers : Interrupt(d)
  BY <1>4, InterruptTyped
<1>5. CASE \E o \in Operators : ReplayStep(o)
  BY <1>5, ReplayReadTyped, ReplayCommitTyped DEF ReplayStep
<1>6. CASE UNCHANGED vars
  BY <1>6 DEF vars, TypeOK, TablesTyped, ProcessesTyped, HandlersRegistered, BatchTyped,
              Current, Registered, Events, RowsKept
<1> QED
  BY <1>1, <1>2, <1>3, <1>4, <1>5, <1>6 DEF Next

\* The empty tables are typed.
LEMMA InitTyped == Init => TypeOK
  BY BoundsAssumption
  DEF Init, TypeOK, TablesTyped, ProcessesTyped, BatchTyped, HandlersRegistered, Events, Steps

\* Whatever dispatchers, operators, handlers and bounds there are: the tables
\* and the processes stay typed.
THEOREM TypeCorrect == Spec => []TypeOK
<1>1. TypeOK /\ [Next]_vars => TypeOK'
  BY NextTyped
<1> QED
  BY <1>1, InitTyped, PTL DEF Spec

-----------------------------------------------------------------------------
(* Delivery                                                                *)

\* A dispatcher that is about to mark an event published has seen or written
\* its inbox row.
MarkingApplied ==
  \A d \in Dispatchers : \A e \in DOMAIN batch[d] :
    pc[d] = "marking" /\ Current(d, e) => Applied(e)

\* The inductive invariant.
DeliveryInv ==
  TypeOK /\ MarkingApplied /\ EffectsExactlyOnce /\ NothingLost /\ OneFollowUp

-----------------------------------------------------------------------------

\* The inbox only grows, so an applied event stays applied; without a new inbox
\* row nothing becomes applied.
LEMMA AppliedKept ==
  ASSUME TypeOK, RowsKept, inbox \subseteq inbox', NEW e \in Events
  PROVE  /\ Applied(e) => Applied(e)'
         /\ inbox' = inbox => (Applied(e)' <=> Applied(e))
  BY DEF RowsKept, Applied, Registered, HasProcessed, InboxKey

\* An event that is inserted now has no inbox row.
LEMMA NewNotApplied ==
  ASSUME TypeOK, NEW e, e \notin Events, inbox' = inbox
  PROVE  ~Applied(e)'
<1>1. \A key \in inbox : key[2] \in Events
  BY DEF TypeOK, TablesTyped
<1>2. InboxKey(e)'[2] = e
  BY DEF InboxKey
<1> QED
  BY <1>1, <1>2 DEF Applied, HasProcessed

\* A step of d leaves the other dispatchers where they are.
LEMMA OthersKept ==
  ASSUME TypeOK, NEW d \in Dispatchers, DispatcherStep(d) \/ Interrupt(d),
         NEW c \in Dispatchers, c # d
  PROVE  pc'[c] = pc[c] /\ batch'[c] = batch[c]
<1>1. CASE Fetch(d)
  BY <1>1 DEF Fetch, Goto, TypeOK, ProcessesTyped
<1>2. CASE \/ RejectUnsupported(d) \/ ConnectionFails(d) \/ SkipProcessed(d)
           \/ StartHandler(d) \/ HandlerRaises(d)
  BY <1>2 DEF RejectUnsupported, ConnectionFails, SkipProcessed, StartHandler,
              HandlerRaises, Goto, TypeOK, ProcessesTyped
<1>3. CASE HandlerCommits(d) \/ RecordFailure(d)
  BY <1>3 DEF HandlerCommits, RecordFailure, Goto, TypeOK, ProcessesTyped
<1>4. CASE FlushRefused(d) \/ Interrupt(d)
  BY <1>4 DEF FlushRefused, Interrupt, Abandon, Goto, TypeOK, ProcessesTyped
<1>5. CASE PublishEvent(d) \/ ScheduleRetry(d) \/ MoveToDeadLetter(d)
  BY <1>5 DEF PublishEvent, ScheduleRetry, MoveToDeadLetter, Advance, Goto, TypeOK,
              ProcessesTyped
<1> QED
  BY <1>1, <1>2, <1>3, <1>4, <1>5 DEF DispatcherStep

\* Only a handler's commit writes to the inbox.
LEMMA InboxGrows ==
  ASSUME [Next]_vars
  PROVE  inbox \subseteq inbox'
<1>1. CASE \E d \in Dispatchers : HandlerCommits(d)
  BY <1>1 DEF HandlerCommits
<1>2. CASE \E d \in Dispatchers : DispatcherStep(d) /\ ~HandlerCommits(d)
  BY <1>2 DEF DispatcherStep, Fetch, RejectUnsupported, ConnectionFails, SkipProcessed,
              StartHandler, HandlerRaises, RecordFailure, FlushRefused, Abandon,
              PublishEvent, ScheduleRetry, MoveToDeadLetter
<1>3. CASE \/ \E type \in SeedTypes : Submit(type)
           \/ \E e \in Events : BackoffElapses(e)
           \/ \E d \in Dispatchers : Interrupt(d)
           \/ \E o \in Operators : ReplayStep(o)
           \/ UNCHANGED vars
  BY <1>3 DEF Submit, BackoffElapses, Interrupt, Abandon, ReplayStep, ReplayRead,
              ReplayCommit, ReplayAbandoned, vars
<1> QED
  BY <1>1, <1>2, <1>3 DEF Next

\* d comes to mark an event by skipping or by committing it.
LEMMA MarkingStep ==
  ASSUME TypeOK, MarkingApplied, [Next]_vars
  PROVE  MarkingApplied'
<1> SUFFICES ASSUME NEW c \in Dispatchers, NEW e \in DOMAIN batch'[c],
                    pc'[c] = "marking", Current(c, e)'
             PROVE  Applied(e)'
  BY DEF MarkingApplied
<1>1. TypeOK' /\ RowsKept /\ inbox \subseteq inbox'
  BY NextTyped, InboxGrows
<1>2. ASSUME pc[c] = "marking", batch'[c] = batch[c] PROVE Applied(e)'
  <2>1. e \in DOMAIN batch[c] /\ Current(c, e) /\ e \in Events
    BY <1>2 DEF Current, TypeOK, ProcessesTyped, BatchTyped
  <2> QED
    BY <1>1, <1>2, <2>1, AppliedKept DEF MarkingApplied
<1>3. CASE \E d \in Dispatchers : d # c /\ (DispatcherStep(d) \/ Interrupt(d))
  BY <1>2, <1>3, OthersKept
<1>4. CASE \/ \E type \in SeedTypes : Submit(type)
           \/ \E f \in Events : BackoffElapses(f)
           \/ \E o \in Operators : ReplayStep(o)
           \/ UNCHANGED vars
  BY <1>2, <1>4 DEF Submit, BackoffElapses, ReplayStep, ReplayRead, ReplayCommit,
                    ReplayAbandoned, vars
<1>5. CASE SkipProcessed(c)
  <2>1. PICK f \in Events : Current(c, f) /\ Registered(f) /\ HasProcessed(f)
                            /\ UNCHANGED <<outbox, inbox, batch>>
    BY <1>5 DEF SkipProcessed
  <2>2. e = f
    BY <2>1 DEF Current, Events, TypeOK, ProcessesTyped, BatchTyped
  <2> QED
    BY <2>1, <2>2 DEF Applied, Registered, HasProcessed, InboxKey
<1>6. CASE HandlerCommits(c)
  <2>1. PICK f \in Events : /\ Current(c, f) /\ pc[c] = "handling"
                            /\ inbox' = inbox \cup {InboxKey(f)}
                            /\ UNCHANGED batch
    BY <1>6 DEF HandlerCommits
  <2>2. e = f
    BY <2>1 DEF Current, Events, TypeOK, ProcessesTyped, BatchTyped
  <2>3. Registered(f)
    BY <2>1 DEF TypeOK, HandlersRegistered, Current
  <2> QED
    BY <1>1, <2>1, <2>2, <2>3 DEF Applied, Registered, HasProcessed, InboxKey, RowsKept
<1>7. CASE \/ Fetch(c) \/ RejectUnsupported(c) \/ ConnectionFails(c) \/ StartHandler(c)
           \/ HandlerRaises(c) \/ FlushRefused(c) \/ RecordFailure(c) \/ Interrupt(c)
  BY <1>7 DEF Fetch, RejectUnsupported, ConnectionFails, StartHandler, HandlerRaises,
              FlushRefused, RecordFailure, Interrupt, Abandon, Goto, TypeOK, ProcessesTyped
<1>8. CASE PublishEvent(c) \/ ScheduleRetry(c) \/ MoveToDeadLetter(c)
  BY <1>8 DEF PublishEvent, ScheduleRetry, MoveToDeadLetter, Advance, Goto, TypeOK,
              ProcessesTyped
<1> QED
  BY <1>3, <1>4, <1>5, <1>6, <1>7, <1>8 DEF Next, DispatcherStep

-----------------------------------------------------------------------------

\* The steps that neither insert an event nor commit a handler.
QuietStep ==
  /\ UNCHANGED <<inbox, effects>>
  /\ Len(outbox') = Len(outbox)

\* The steps that insert one event, from outside or as a replayed copy.
InsertStep ==
  /\ UNCHANGED inbox
  /\ effects' = Append(effects, 0)
  /\ \E row \in Row : outbox' = Append(outbox, row) /\ row.status = "PENDING"
  /\ Len(deadLetters') = Len(deadLetters)
  /\ \A k \in 1 .. Len(deadLetters) : deadLetters'[k].event = deadLetters[k].event

\* The commits at the end of an event's turn update the row of that event.
LEMMA CommitUpdates ==
  ASSUME TypeOK, NEW d \in Dispatchers,
         PublishEvent(d) \/ ScheduleRetry(d) \/ MoveToDeadLetter(d)
  PROVE  \E e \in Events, row \in Row : outbox' = [outbox EXCEPT ![e] = row]
<1>1. CASE PublishEvent(d)
  <2>1. PICK e \in Events : /\ Current(d, e)
                           /\ outbox' = [outbox EXCEPT ![e] = MarkPublished(@, batch[d][e])]
    BY <1>1 DEF PublishEvent
  <2>2. MarkPublished(outbox[e], batch[d][e]) \in Row
    BY <2>1, FetchedRow, RowTypes
  <2> QED
    BY <2>1, <2>2
<1>2. CASE ScheduleRetry(d)
  <2>1. PICK e \in Events : /\ Current(d, e)
                           /\ outbox' = [outbox EXCEPT ![e] = MarkRetryableFailure(@, batch[d][e])]
    BY <1>2 DEF ScheduleRetry
  <2>2. MarkRetryableFailure(outbox[e], batch[d][e]) \in Row
    BY <2>1, FetchedRow, RowTypes
  <2> QED
    BY <2>1, <2>2
<1>3. CASE MoveToDeadLetter(d)
  <2>1. PICK e \in Events : /\ Current(d, e)
                           /\ outbox' = [outbox EXCEPT ![e] = MarkFailed(@, batch[d][e])]
    BY <1>3 DEF MoveToDeadLetter
  <2>2. MarkFailed(outbox[e], batch[d][e]) \in Row
    BY <2>1, FetchedRow, RowTypes
  <2> QED
    BY <2>1, <2>2
<1> QED
  BY <1>1, <1>2, <1>3

\* Every step is quiet, inserts one event or commits a handler.
LEMMA StepKinds ==
  ASSUME TypeOK, [Next]_vars
  PROVE  \/ QuietStep
         \/ InsertStep
         \/ \E d \in Dispatchers : HandlerCommits(d)
<1>1. Len(outbox) \in Nat /\ outbox \in Seq(Row)
  BY DEF TypeOK, TablesTyped
<1>2. ASSUME NEW type \in SeedTypes, Submit(type) PROVE InsertStep
  <2>1. NewRow(type, 0, Len(outbox) + 1) \in Row
    <3>1. type \in EventTypes
      BY TypesAssumption
    <3>2. Len(outbox) + 1 \in Nat /\ 0 \in Nat
      BY <1>1
    <3> QED
      BY <3>1, <3>2, NewRowType
  <2>2. NewRow(type, 0, Len(outbox) + 1).status = "PENDING"
    BY DEF NewRow
  <2> QED
    BY <1>2, <2>1, <2>2 DEF Submit, InsertRow, InsertStep
<1>3. ASSUME NEW o \in Operators, ReplayCommit(o) PROVE InsertStep
  <2> DEFINE k == replaying[o]
             dead == outbox[deadLetters[k].event]
             row == NewRow(dead.type, dead.cause, dead.origin)
  <2>1. /\ k \in 1 .. Len(deadLetters) /\ deadLetters \in Seq(DeadLetterRow)
        /\ outbox' = Append(outbox, row) /\ effects' = Append(effects, 0)
        /\ deadLetters' = [deadLetters EXCEPT ![k] = MarkReplayed(deadLetters[k])]
        /\ inbox' = inbox
    BY <1>3 DEF ReplayCommit, InsertRow, TypeOK, ProcessesTyped, TablesTyped
  <2>2. deadLetters[k].event \in 1 .. Len(outbox)
    BY <2>1 DEF TypeOK, TablesTyped, Events
  <2>3. dead \in Row
    BY <1>1, <2>2
  <2>4. row \in Row /\ row.status = "PENDING"
    <3>1. dead.type \in EventTypes /\ dead.cause \in Nat /\ dead.origin \in Nat
      BY <2>3 DEF Row
    <3> HIDE DEF dead
    <3>2. row \in Row
      BY <3>1, NewRowType
    <3> QED
      BY <3>2 DEF NewRow
  <2>5. /\ Len(deadLetters') = Len(deadLetters)
        /\ \A j \in 1 .. Len(deadLetters) : deadLetters'[j].event = deadLetters[j].event
    <3>1. deadLetters[k] \in DeadLetterRow
      BY <2>1
    <3>2. /\ MarkReplayed(deadLetters[k]) \in DeadLetterRow
          /\ MarkReplayed(deadLetters[k]).event = deadLetters[k].event
      BY <3>1 DEF DeadLetterRow, MarkReplayed
    <3> QED
      BY <2>1, <3>2, UpdateRow
  <2> HIDE DEF row
  <2> QED
    BY <2>1, <2>4, <2>5 DEF InsertStep
<1>4. ASSUME NEW d \in Dispatchers, DispatcherStep(d), ~HandlerCommits(d) PROVE QuietStep
  <2>1. CASE \/ Fetch(d) \/ RejectUnsupported(d) \/ ConnectionFails(d) \/ SkipProcessed(d)
             \/ StartHandler(d) \/ HandlerRaises(d) \/ RecordFailure(d) \/ FlushRefused(d)
    BY <2>1 DEF Fetch, RejectUnsupported, ConnectionFails, SkipProcessed, StartHandler,
                HandlerRaises, RecordFailure, FlushRefused, Abandon, QuietStep
  <2>2. CASE PublishEvent(d) \/ ScheduleRetry(d) \/ MoveToDeadLetter(d)
    <3>1. PICK e \in Events, row \in Row : outbox' = [outbox EXCEPT ![e] = row]
      BY <2>2, CommitUpdates
    <3>2. Len(outbox') = Len(outbox)
      BY <1>1, <3>1, UpdateRow DEF Events
    <3> QED
      BY <2>2, <3>2 DEF PublishEvent, ScheduleRetry, MoveToDeadLetter, QuietStep
  <2> QED
    BY <1>4, <2>1, <2>2 DEF DispatcherStep
<1>5. ASSUME \/ \E e \in Events : BackoffElapses(e)
             \/ \E d \in Dispatchers : Interrupt(d)
             \/ \E o \in Operators : ReplayRead(o) \/ ReplayAbandoned(o)
             \/ UNCHANGED vars
      PROVE  QuietStep
  BY <1>1, <1>5 DEF BackoffElapses, Interrupt, Abandon, ReplayRead, ReplayAbandoned, vars,
                    QuietStep
<1> QED
  BY <1>2, <1>3, <1>4, <1>5 DEF Next, ReplayStep

\* A handler's commit: one event becomes applied that was not, and it may insert
\* one follow-up event that it causes.
HandlerEffect(e) ==
  /\ e \in Events /\ Registered(e) /\ ~Applied(e)
  /\ inbox' = inbox \cup {InboxKey(e)}
  /\ deadLetters' = deadLetters
  /\ \/ /\ effects' = [effects EXCEPT ![e] = @ + 1]
        /\ outbox' = outbox
     \/ /\ effects' = Append([effects EXCEPT ![e] = @ + 1], 0)
        /\ \E out \in EventTypes : outbox' = Append(outbox, NewRow(out, e, Len(outbox) + 1))

\* What a handler's commit writes: the inbox row of its event and one effect more.
LEMMA HandlerEffects ==
  ASSUME TypeOK, NEW d \in Dispatchers, HandlerCommits(d)
  PROVE  \E e \in Events : HandlerEffect(e)
<1>1. PICK e \in Events :
        /\ pc[d] = "handling" /\ Current(d, e)
        /\ ~HasProcessed(e)
        /\ inbox' = inbox \cup {InboxKey(e)}
        /\ \/ /\ effects' = [effects EXCEPT ![e] = @ + 1]
              /\ UNCHANGED <<outbox, attempts>>
           \/ \E out \in Outcomes[outbox[e].type] \ {NoEvent} :
                /\ effects' = Append([effects EXCEPT ![e] = @ + 1], 0)
                /\ InsertRow(NewRow(out, e, Len(outbox) + 1))
        /\ deadLetters' = deadLetters
  BY DEF HandlerCommits, InboxKeyFree
<1>2. Registered(e)
  BY <1>1 DEF TypeOK, HandlersRegistered, Current
<1>3. Outcomes[outbox[e].type] \ {NoEvent} \subseteq EventTypes
  BY <1>2, TypesAssumption DEF Registered
<1>4. HandlerEffect(e)
  BY <1>1, <1>2, <1>3 DEF HandlerEffect, Applied, InsertRow
<1> QED
  BY <1>4

-----------------------------------------------------------------------------

\* Effects and inbox rows stay in step, whatever step is taken.
LEMMA EffectsStep ==
  ASSUME TypeOK, EffectsExactlyOnce, [Next]_vars
  PROVE  EffectsExactlyOnce'
<1>1. TypeOK' /\ RowsKept /\ inbox \subseteq inbox'
  BY NextTyped, InboxGrows
<1>2. /\ outbox \in Seq(Row) /\ effects \in Seq(Nat) /\ Len(effects) = Len(outbox)
      /\ Len(outbox) \in Nat /\ Events = 1 .. Len(outbox)
  BY DEF TypeOK, TablesTyped, Events
<1>3. CASE QuietStep
  <2>1. Events' = Events
    BY <1>3 DEF QuietStep, Events
  <2>2. ASSUME NEW e \in Events PROVE Applied(e)' <=> Applied(e)
    BY <1>1, <1>3, AppliedKept DEF QuietStep
  <2> QED
    BY <1>3, <2>1, <2>2 DEF QuietStep, EffectsExactlyOnce
<1>. PICK n \in Nat : n = Len(outbox) + 1
  BY <1>2
<1>4. CASE InsertStep
  <2>1. Events' = 1 .. n /\ inbox' = inbox
    BY <1>2, <1>4, AppendRow DEF InsertStep, Events
  <2>2. /\ effects'[n] = 0
        /\ \A e \in Events : effects'[e] = effects[e]
    BY <1>2, <1>4, AppendRow DEF InsertStep
  <2>3. ~Applied(n)'
    BY <1>2, <2>1, NewNotApplied
  <2>4. ASSUME NEW e \in Events PROVE Applied(e)' <=> Applied(e)
    BY <1>1, <2>1, AppliedKept
  <2>5. ASSUME NEW e \in Events' PROVE effects'[e] = IF Applied(e)' THEN 1 ELSE 0
    <3>1. CASE e = n
      BY <2>2, <2>3, <3>1
    <3>2. CASE e # n
      <4>1. e \in Events
        BY <1>2, <2>1, <3>2
      <4> QED
        BY <2>2, <2>4, <4>1 DEF EffectsExactlyOnce
    <3> QED
      BY <3>1, <3>2
  <2> QED
    BY <2>5 DEF EffectsExactlyOnce
<1>5. CASE \E d \in Dispatchers : HandlerCommits(d)
  <2>1. PICK e \in Events : HandlerEffect(e)
    BY <1>5, HandlerEffects
  <2> DEFINE counted == [effects EXCEPT ![e] = @ + 1]
  <2>2. effects[e] = 0
    BY <2>1 DEF HandlerEffect, EffectsExactlyOnce
  <2>3. /\ counted \in Seq(Nat) /\ Len(counted) = Len(outbox)
        /\ counted[e] = 1
        /\ \A f \in Events : f # e => counted[f] = effects[f]
    <3>1. effects[e] + 1 = 1 /\ 1 \in Nat
      BY <2>2
    <3> QED
      BY <1>2, <3>1, UpdateRow
  <2>4. Applied(e)'
    BY <1>1, <2>1 DEF HandlerEffect, Applied, HasProcessed, InboxKey, Registered, RowsKept
  <2>5. ASSUME NEW f \in Events, f # e PROVE Applied(f)' <=> Applied(f)
    BY <1>1, <2>1, <2>5 DEF HandlerEffect, Applied, HasProcessed, InboxKey, Registered, RowsKept
  <2> HIDE DEF counted
  <2>6. CASE effects' = counted /\ outbox' = outbox
    BY <2>3, <2>4, <2>5, <2>6 DEF EffectsExactlyOnce, Events
  <2>7. CASE /\ effects' = Append(counted, 0)
             /\ \E row \in Row : outbox' = Append(outbox, row)
    <3>1. Events' = 1 .. n
      BY <1>2, <2>7, AppendRow DEF Events
    <3>2. /\ effects'[n] = 0
          /\ \A f \in Events : effects'[f] = counted[f]
      <4>1. counted \in Seq(Nat) /\ 0 \in Nat /\ Len(counted) + 1 = n
        BY <1>2, <2>3
      <4>2. /\ Append(counted, 0)[n] = 0
            /\ \A f \in 1 .. Len(counted) : Append(counted, 0)[f] = counted[f]
        BY <4>1, AppendRow
      <4> QED
        BY <1>2, <2>3, <2>7, <4>2
    <3>3. ~Applied(n)'
      <4>1. \A key \in inbox : key[2] \in Events
        BY DEF TypeOK, TablesTyped
      <4>2. InboxKey(e)[2] = e /\ InboxKey(n)'[2] = n
        BY DEF InboxKey
      <4>3. n \notin Events
        BY <1>2
      <4> QED
        BY <2>1, <4>1, <4>2, <4>3 DEF HandlerEffect, Applied, HasProcessed
    <3>4. ASSUME NEW f \in Events' PROVE effects'[f] = IF Applied(f)' THEN 1 ELSE 0
      <4>1. CASE f = n
        BY <3>2, <3>3, <4>1
      <4>2. CASE f # n
        <5>1. f \in Events
          BY <1>2, <3>1, <4>2
        <5> QED
          BY <2>3, <2>4, <2>5, <3>2, <5>1 DEF EffectsExactlyOnce
      <4> QED
        BY <4>1, <4>2
    <3> QED
      BY <3>4 DEF EffectsExactlyOnce
  <2>8. \A out \in EventTypes : NewRow(out, e, Len(outbox) + 1) \in Row
    BY <1>2, NewRowType
  <2> QED
    BY <2>1, <2>6, <2>7, <2>8 DEF HandlerEffect, counted
<1> QED
  BY <1>3, <1>4, <1>5, StepKinds

-----------------------------------------------------------------------------

\* A table that gets a row is not the same table.
LEMMA AppendLonger ==
  ASSUME NEW S, NEW s \in Seq(S), NEW r
  PROVE  Len(Append(s, r)) # Len(s)
  OBVIOUS

\* Dead-letter rows stay, for the event they were written for.
LEMMA DeadLettersKept ==
  ASSUME TypeOK, [Next]_vars, NEW e \in Events
  PROVE  DeadLettersOf(e) \subseteq DeadLettersOf(e)'
<1>1. CASE \E d \in Dispatchers : MoveToDeadLetter(d)
  <2>1. PICK f \in Events : deadLetters' = Append(deadLetters, [event |-> f, replayed |-> FALSE])
    BY <1>1 DEF MoveToDeadLetter
  <2>2. /\ Len(deadLetters') = Len(deadLetters) + 1 /\ Len(deadLetters) \in Nat
        /\ \A k \in 1 .. Len(deadLetters) : deadLetters'[k] = deadLetters[k]
    BY <2>1, BuriedTyped
  <2> QED
    BY <2>2 DEF DeadLettersOf
<1>2. CASE InsertStep
  BY <1>2 DEF InsertStep, DeadLettersOf
<1>3. CASE deadLetters' = deadLetters
  BY <1>3 DEF DeadLettersOf
<1>4. ASSUME NEW d \in Dispatchers, DispatcherStep(d), ~MoveToDeadLetter(d)
      PROVE  deadLetters' = deadLetters
  BY <1>4 DEF DispatcherStep, Fetch, RejectUnsupported, ConnectionFails, SkipProcessed,
              StartHandler, HandlerRaises, HandlerCommits, RecordFailure, FlushRefused,
              Abandon, PublishEvent, ScheduleRetry
<1>5. ASSUME NEW o \in Operators, ReplayCommit(o) PROVE InsertStep
  <2>1. Len(outbox') # Len(outbox)
    BY <1>5, AppendLonger DEF ReplayCommit, InsertRow, TypeOK, TablesTyped
  <2>2. ~\E d \in Dispatchers : HandlerCommits(d)
    BY <1>5 DEF ReplayCommit, HandlerCommits, Goto, TypeOK, ProcessesTyped
  <2> QED
    BY <2>1, <2>2, StepKinds DEF QuietStep
<1>6. ASSUME \/ \E type \in SeedTypes : Submit(type)
             \/ \E f \in Events : BackoffElapses(f)
             \/ \E d \in Dispatchers : Interrupt(d)
             \/ \E o \in Operators : ReplayRead(o) \/ ReplayAbandoned(o)
             \/ UNCHANGED vars
      PROVE  deadLetters' = deadLetters
  BY <1>6 DEF Submit, BackoffElapses, Interrupt, Abandon, ReplayRead, ReplayAbandoned, vars
<1> QED
  BY <1>1, <1>2, <1>3, <1>4, <1>5, <1>6 DEF Next, ReplayStep

\* Only two commits change the status of an event.
LEMMA StatusChanges ==
  ASSUME TypeOK, [Next]_vars, NEW e \in Events, outbox'[e].status # outbox[e].status
  PROVE  \E d \in Dispatchers :
           /\ Current(d, e)
           /\ \/ PublishEvent(d) /\ outbox'[e].status = "PUBLISHED"
              \/ /\ MoveToDeadLetter(d) /\ outbox'[e].status = "FAILED"
                 /\ deadLetters' = Append(deadLetters, [event |-> e, replayed |-> FALSE])
<1>1. outbox \in Seq(Row) /\ e \in 1 .. Len(outbox) /\ Len(outbox) \in Nat
  BY DEF TypeOK, TablesTyped, Events
<1>2. ASSUME NEW f \in Events, NEW row \in Row, outbox' = [outbox EXCEPT ![f] = row],
             f # e \/ row.status = outbox[f].status
      PROVE  FALSE
  BY <1>1, <1>2
<1>3. ASSUME NEW row, outbox' = Append(outbox, row) PROVE FALSE
  BY <1>1, <1>3
<1>4. ASSUME NEW d \in Dispatchers, PublishEvent(d)
      PROVE  Current(d, e) /\ outbox'[e].status = "PUBLISHED"
  <2>1. PICK f \in Events : /\ Current(d, f)
                           /\ outbox' = [outbox EXCEPT ![f] = MarkPublished(@, batch[d][f])]
    BY <1>4 DEF PublishEvent
  <2>2. outbox[f] \in Row /\ MarkPublished(outbox[f], batch[d][f]) \in Row
    BY <2>1, FetchedRow, RowTypes
  <2>3. f = e
    BY <1>2, <2>1, <2>2
  <2> QED
    BY <1>1, <2>1, <2>2, <2>3 DEF MarkPublished, Row
<1>5. ASSUME NEW d \in Dispatchers, MoveToDeadLetter(d)
      PROVE  /\ Current(d, e) /\ outbox'[e].status = "FAILED"
             /\ deadLetters' = Append(deadLetters, [event |-> e, replayed |-> FALSE])
  <2>1. PICK f \in Events : /\ Current(d, f)
                           /\ outbox' = [outbox EXCEPT ![f] = MarkFailed(@, batch[d][f])]
                           /\ deadLetters' = Append(deadLetters, [event |-> f, replayed |-> FALSE])
    BY <1>5 DEF MoveToDeadLetter
  <2>2. outbox[f] \in Row /\ MarkFailed(outbox[f], batch[d][f]) \in Row
    BY <2>1, FetchedRow, RowTypes
  <2>3. f = e
    BY <1>2, <2>1, <2>2
  <2> QED
    BY <1>1, <2>1, <2>2, <2>3 DEF MarkFailed, Row
<1>6. ASSUME NEW d \in Dispatchers, ScheduleRetry(d) PROVE FALSE
  <2>1. PICK f \in Events :
          /\ Current(d, f)
          /\ outbox' = [outbox EXCEPT ![f] = MarkRetryableFailure(@, batch[d][f])]
    BY <1>6 DEF ScheduleRetry
  <2>2. outbox[f] \in Row /\ MarkRetryableFailure(outbox[f], batch[d][f]) \in Row
    BY <2>1, FetchedRow, RowTypes
  <2>3. MarkRetryableFailure(outbox[f], batch[d][f]).status = outbox[f].status
    BY <2>2 DEF MarkRetryableFailure, Row
  <2> QED
    BY <1>2, <2>1, <2>2, <2>3
<1>7. ASSUME NEW f \in Events, BackoffElapses(f) PROVE FALSE
  <2>1. outbox' = [outbox EXCEPT ![f] = [outbox[f] EXCEPT !.next = "due"]]
    BY <1>7 DEF BackoffElapses
  <2>2. outbox[f] \in Row
    BY <1>1 DEF Events
  <2>3. /\ [outbox[f] EXCEPT !.next = "due"] \in Row
        /\ [outbox[f] EXCEPT !.next = "due"].status = outbox[f].status
    BY <2>2 DEF Row, Delays
  <2> QED
    BY <1>2, <2>1, <2>3
<1>8. outbox' # outbox
  OBVIOUS
<1>9. ~\E row : outbox' = Append(outbox, row)
  BY <1>3
<1>10. ASSUME NEW d \in Dispatchers, DispatcherStep(d) \/ Interrupt(d)
       PROVE  PublishEvent(d) \/ MoveToDeadLetter(d)
  BY <1>6, <1>8, <1>9, <1>10
  DEF DispatcherStep, Fetch, RejectUnsupported, ConnectionFails, SkipProcessed, StartHandler,
      HandlerRaises, HandlerCommits, InsertRow, RecordFailure, FlushRefused, Interrupt, Abandon
<1>11. \E d \in Dispatchers : DispatcherStep(d) \/ Interrupt(d)
  BY <1>7, <1>8, <1>9 DEF Next, Submit, InsertRow, ReplayStep, ReplayRead, ReplayCommit,
                          ReplayAbandoned, vars
<1> QED
  BY <1>4, <1>5, <1>10, <1>11

\* A row that appears in a step is PENDING.
LEMMA NewRowsPending ==
  ASSUME TypeOK, [Next]_vars, NEW e \in Events' \ Events
  PROVE  outbox'[e].status = "PENDING"
<1>1. outbox \in Seq(Row) /\ Len(outbox) \in Nat
  BY DEF TypeOK, TablesTyped
<1>2. ASSUME NEW row \in Row, row.status = "PENDING", outbox' = Append(outbox, row)
      PROVE  outbox'[e].status = "PENDING"
  <2>1. e = Len(outbox) + 1
    BY <1>1, <1>2, AppendRow DEF Events
  <2> QED
    BY <1>1, <1>2, <2>1, AppendRow
<1>3. CASE QuietStep
  BY <1>3 DEF QuietStep, Events
<1>4. CASE InsertStep
  BY <1>2, <1>4 DEF InsertStep
<1>5. CASE \E d \in Dispatchers : HandlerCommits(d)
  <2>1. PICK f \in Events : HandlerEffect(f)
    BY <1>5, HandlerEffects
  <2>2. outbox' # outbox
    BY DEF Events
  <2>3. PICK out \in EventTypes : outbox' = Append(outbox, NewRow(out, f, Len(outbox) + 1))
    BY <2>1, <2>2 DEF HandlerEffect
  <2>4. NewRow(out, f, Len(outbox) + 1) \in Row
    BY <1>1, NewRowType DEF Events
  <2>5. NewRow(out, f, Len(outbox) + 1).status = "PENDING"
    BY DEF NewRow
  <2> QED
    BY <1>2, <2>3, <2>4, <2>5
<1> QED
  BY <1>3, <1>4, <1>5, StepKinds

\* A step that settles an event leaves its effects or its dead letter.
LEMMA NothingLostStep ==
  ASSUME TypeOK, MarkingApplied, NothingLost, [Next]_vars
  PROVE  NothingLost'
<1>1. TypeOK' /\ RowsKept /\ inbox \subseteq inbox'
  BY NextTyped, InboxGrows
<1>2. ASSUME NEW e \in Events', e \notin Events
      PROVE  outbox'[e].status = "PENDING"
  BY <1>2, NewRowsPending
<1>3. ASSUME NEW e \in Events, outbox'[e].status = "PUBLISHED" PROVE Applied(e)'
  <2>1. CASE outbox[e].status = "PUBLISHED"
    BY <1>1, <2>1, AppliedKept DEF NothingLost
  <2>2. CASE outbox[e].status # "PUBLISHED"
    <3>1. PICK d \in Dispatchers : Current(d, e) /\ PublishEvent(d)
      BY <1>3, <2>2, StatusChanges
    <3>2. Applied(e)
      BY <3>1 DEF PublishEvent, MarkingApplied, Current
    <3> QED
      BY <1>1, <3>2, AppliedKept
  <2> QED
    BY <2>1, <2>2
<1>4. ASSUME NEW e \in Events, outbox'[e].status = "FAILED" PROVE DeadLettersOf(e)' # {}
  <2>1. CASE outbox[e].status = "FAILED"
    BY <2>1, DeadLettersKept DEF NothingLost
  <2>2. CASE outbox[e].status # "FAILED"
    <3>1. deadLetters' = Append(deadLetters, [event |-> e, replayed |-> FALSE])
      BY <1>4, <2>2, StatusChanges
    <3>2. /\ Len(deadLetters') = Len(deadLetters) + 1 /\ Len(deadLetters) \in Nat
          /\ deadLetters'[Len(deadLetters) + 1].event = e
      BY <3>1, BuriedTyped
    <3> QED
      BY <3>2 DEF DeadLettersOf
  <2> QED
    BY <2>1, <2>2
<1> QED
  BY <1>2, <1>3, <1>4 DEF NothingLost

\* A row that appears in a step was caused by an event that becomes applied in
\* that step, or copies the cause and the origin of an earlier row, or has no
\* cause.
LEMMA NewRowsCause ==
  ASSUME TypeOK, [Next]_vars, NEW e \in Events' \ Events
  PROVE  \/ outbox'[e].cause = 0
         \/ \E f \in Events : /\ outbox'[e].cause = outbox[f].cause
                             /\ outbox'[e].origin = outbox[f].origin
         \/ \E f \in Events : HandlerEffect(f) /\ outbox'[e].cause = f
<1>1. outbox \in Seq(Row) /\ Len(outbox) \in Nat
  BY DEF TypeOK, TablesTyped
<1>2. ASSUME NEW row \in Row, outbox' = Append(outbox, row)
      PROVE  outbox'[e] = row
  <2>1. e = Len(outbox) + 1
    BY <1>1, <1>2, AppendRow DEF Events
  <2> QED
    BY <1>1, <1>2, <2>1, AppendRow
<1>3. ASSUME NEW type \in SeedTypes, Submit(type) PROVE outbox'[e].cause = 0
  <2> DEFINE row == NewRow(type, 0, Len(outbox) + 1)
  <2>1. row \in Row
    <3>1. type \in EventTypes
      BY TypesAssumption
    <3>2. Len(outbox) + 1 \in Nat /\ 0 \in Nat
      BY <1>1
    <3> QED
      BY <3>1, <3>2, NewRowType
  <2>2. outbox' = Append(outbox, row) /\ row.cause = 0
    BY <1>3 DEF Submit, InsertRow, NewRow
  <2> HIDE DEF row
  <2> QED
    BY <1>2, <2>1, <2>2
<1>4. ASSUME NEW o \in Operators, ReplayCommit(o)
      PROVE  \E f \in Events : /\ outbox'[e].cause = outbox[f].cause
                              /\ outbox'[e].origin = outbox[f].origin
  <2> DEFINE f == deadLetters[replaying[o]].event
             row == NewRow(outbox[f].type, outbox[f].cause, outbox[f].origin)
  <2>1. outbox' = Append(outbox, row) /\ replaying[o] \in 1 .. Len(deadLetters)
    BY <1>4 DEF ReplayCommit, InsertRow, TypeOK, ProcessesTyped, TablesTyped
  <2>2. f \in Events
    BY <2>1 DEF TypeOK, TablesTyped
  <2> HIDE DEF f
  <2>3. outbox[f] \in Row
    BY <1>1, <2>2 DEF Events
  <2>4. row \in Row
    BY <2>3, NewRowType DEF Row
  <2>5. row.cause = outbox[f].cause /\ row.origin = outbox[f].origin
    BY DEF NewRow
  <2> HIDE DEF row
  <2> QED
    BY <1>2, <2>1, <2>2, <2>4, <2>5
<1>5. ASSUME NEW d \in Dispatchers, HandlerCommits(d)
      PROVE  \E f \in Events : HandlerEffect(f) /\ outbox'[e].cause = f
  <2>1. PICK f \in Events : HandlerEffect(f)
    BY <1>5, HandlerEffects
  <2>2. outbox' # outbox
    BY DEF Events
  <2>3. PICK out \in EventTypes : outbox' = Append(outbox, NewRow(out, f, Len(outbox) + 1))
    BY <2>1, <2>2 DEF HandlerEffect
  <2>4. NewRow(out, f, Len(outbox) + 1) \in Row
    BY <1>1, NewRowType DEF Events
  <2>5. NewRow(out, f, Len(outbox) + 1).cause = f
    BY DEF NewRow
  <2> QED
    BY <1>2, <2>1, <2>3, <2>4, <2>5
<1>6. ~QuietStep
  BY DEF QuietStep, Events
<1>7. ASSUME NEW d \in Dispatchers, DispatcherStep(d) \/ Interrupt(d), ~HandlerCommits(d)
      PROVE  FALSE
  <2>1. ~\E row : outbox' = Append(outbox, row)
    <3>1. CASE PublishEvent(d) \/ ScheduleRetry(d) \/ MoveToDeadLetter(d)
      <4>1. PICK f \in Events, row \in Row : outbox' = [outbox EXCEPT ![f] = row]
        BY <3>1, CommitUpdates
      <4>2. Len(outbox') = Len(outbox)
        BY <1>1, <4>1, UpdateRow DEF Events
      <4> QED
        BY <1>1, <4>2, AppendLonger
    <3>2. CASE outbox' = outbox
      BY <1>1, <3>2, AppendLonger
    <3> QED
      BY <1>7, <3>1, <3>2
      DEF DispatcherStep, Fetch, RejectUnsupported, ConnectionFails, SkipProcessed, StartHandler,
          HandlerRaises, RecordFailure, FlushRefused, Interrupt, Abandon
  <2>2. ~InsertStep
    BY <2>1 DEF InsertStep
  <2>3. PICK c \in Dispatchers : HandlerCommits(c)
    BY <1>6, <2>2, StepKinds
  <2>4. PICK f \in Events : HandlerEffect(f)
    BY <2>3, HandlerEffects
  <2>5. outbox' = outbox
    BY <2>1, <2>4 DEF HandlerEffect
  <2> QED
    BY <2>5 DEF Events
<1>8. ASSUME \/ \E f \in Events : BackoffElapses(f)
             \/ \E o \in Operators : ReplayRead(o) \/ ReplayAbandoned(o)
             \/ UNCHANGED vars
      PROVE  FALSE
  BY <1>1, <1>6, <1>8 DEF BackoffElapses, ReplayRead, ReplayAbandoned, vars, QuietStep
<1> QED
  BY <1>3, <1>4, <1>5, <1>7, <1>8 DEF Next, DispatcherStep, ReplayStep

\* A step inserts at most one row.
LEMMA OneNewRow ==
  ASSUME TypeOK, [Next]_vars, NEW e \in Events' \ Events, NEW f \in Events' \ Events
  PROVE  e = f
<1>1. outbox \in Seq(Row) /\ Len(outbox) \in Nat
  BY DEF TypeOK, TablesTyped
<1>2. ASSUME NEW row, outbox' = Append(outbox, row) PROVE e = f
  BY <1>1, <1>2 DEF Events
<1>3. outbox' # outbox
  BY DEF Events
<1>4. ASSUME NEW g \in Events, HandlerEffect(g) PROVE e = f
  BY <1>2, <1>3, <1>4 DEF HandlerEffect
<1> QED
  BY <1>2, <1>4, StepKinds, HandlerEffects DEF QuietStep, InsertStep, Events

\* A step gives an event a follow-up only while it has none.
LEMMA FollowUpStep ==
  ASSUME TypeOK, OneFollowUp, [Next]_vars
  PROVE  OneFollowUp'
<1>1. TypeOK' /\ RowsKept /\ inbox \subseteq inbox'
  BY NextTyped, InboxGrows
<1>2. ASSUME NEW c, Applied(c) PROVE c \in Events /\ Applied(c)'
  <2>1. \A key \in inbox : key[2] \in Events
    BY DEF TypeOK, TablesTyped
  <2>2. c \in Events
    BY <1>2, <2>1 DEF Applied, HasProcessed, InboxKey
  <2> QED
    BY <1>1, <1>2, <2>2, AppliedKept
<1>3. ASSUME NEW g \in Events, HandlerEffect(g) PROVE Applied(g)' /\ ~Applied(g)
  BY <1>1, <1>3 DEF HandlerEffect, Applied, HasProcessed, InboxKey, Registered, RowsKept
<1>4. ASSUME NEW e \in Events', NEW c, c # 0, outbox'[e].cause = c PROVE Applied(c)'
  <2>1. CASE e \in Events
    <3>1. outbox[e].cause = c
      BY <1>1, <1>4, <2>1 DEF RowsKept
    <3>2. Applied(c)
      BY <1>4, <2>1, <3>1 DEF OneFollowUp
    <3> QED
      BY <1>2, <3>2
  <2>2. CASE e \notin Events
    <3>1. \/ \E f \in Events : outbox[f].cause = c
          \/ \E f \in Events : HandlerEffect(f) /\ f = c
      BY <1>4, <2>2, NewRowsCause
    <3>2. ASSUME NEW f \in Events, outbox[f].cause = c PROVE Applied(c)
      BY <1>4, <3>2 DEF OneFollowUp
    <3> QED
      BY <1>2, <1>3, <3>1, <3>2
  <2> QED
    BY <2>1, <2>2
<1>5. ASSUME NEW e \in Events', NEW f \in Events,
             outbox'[e].cause # 0, outbox'[e].cause = outbox[f].cause
      PROVE  outbox'[e].origin = outbox[f].origin
  <2>1. CASE e \in Events
    BY <1>1, <1>5, <2>1 DEF OneFollowUp, RowsKept
  <2>2. CASE e \notin Events
    BY <1>3, <1>5, <2>2, NewRowsCause DEF OneFollowUp
  <2> QED
    BY <2>1, <2>2
<1>6. ASSUME NEW e \in Events', NEW f \in Events',
             outbox'[e].cause # 0, outbox'[e].cause = outbox'[f].cause
      PROVE  outbox'[e].origin = outbox'[f].origin
  <2>1. CASE f \in Events
    BY <1>1, <1>5, <1>6, <2>1 DEF RowsKept
  <2>2. CASE e \in Events
    BY <1>1, <1>5, <1>6, <2>2 DEF RowsKept
  <2>3. CASE e \notin Events /\ f \notin Events
    BY <2>3, OneNewRow
  <2> QED
    BY <2>1, <2>2, <2>3
<1> QED
  BY <1>4, <1>6 DEF OneFollowUp, Applied, Registered, HasProcessed, InboxKey

-----------------------------------------------------------------------------

\* The delivery invariant is kept by every step.
LEMMA DeliveryInductive ==
  /\ Init => DeliveryInv
  /\ DeliveryInv /\ [Next]_vars => DeliveryInv'
<1>1. Init => DeliveryInv
  <2> SUFFICES ASSUME Init PROVE DeliveryInv
    OBVIOUS
  <2>1. TypeOK
    BY InitTyped
  <2>2. Events = {} /\ \A d \in Dispatchers : pc[d] = "idle"
    BY DEF Init, Events
  <2> QED
    BY <2>1, <2>2 DEF DeliveryInv, MarkingApplied, EffectsExactlyOnce, NothingLost, OneFollowUp
<1>2. DeliveryInv /\ [Next]_vars => DeliveryInv'
  BY NextTyped, MarkingStep, EffectsStep, NothingLostStep, FollowUpStep DEF DeliveryInv
<1> QED
  BY <1>1, <1>2

\* The inductive invariant holds.
THEOREM DeliveryInvariant == Spec => []DeliveryInv
  BY DeliveryInductive, PTL DEF Spec

\* The effects of every event are committed exactly as often as its inbox row is
\* there, at most once, with any number of dispatchers, interruptions and
\* replays.
THEOREM ExactlyOnceEffects == Spec => []EffectsExactlyOnce
<1>1. DeliveryInv => EffectsExactlyOnce
  BY DEF DeliveryInv
<1> QED
  BY <1>1, DeliveryInvariant, PTL

\* An event never leaves the queue without its effects or a dead-letter row.
THEOREM NoEventLost == Spec => []NothingLost
<1>1. DeliveryInv => NothingLost
  BY DEF DeliveryInv
<1> QED
  BY <1>1, DeliveryInvariant, PTL

\* An applied event has at most one follow-up, and only an applied one has any.
THEOREM SingleFollowUp == Spec => []OneFollowUp
<1>1. DeliveryInv => OneFollowUp
  BY DEF DeliveryInv
<1> QED
  BY <1>1, DeliveryInvariant, PTL

\* What the next step of a settled event can be: a dispatcher that is about to mark
\* it has seen its inbox row, and one that buries it finds it published before.
LEMMA SettledStep ==
  ASSUME DeliveryInv, [Next]_vars, NEW e \in Events, outbox[e].status # "PENDING"
  PROVE  /\ outbox'[e].status # "PENDING"
         /\ outbox'[e].status # outbox[e].status => Applied(e)
<1>1. outbox[e].status \in {"PUBLISHED", "FAILED"}
  <2>1. outbox \in Seq(Row) /\ e \in 1 .. Len(outbox)
    BY DEF DeliveryInv, TypeOK, TablesTyped, Events
  <2>2. outbox[e] \in Row
    BY <2>1
  <2> QED
    BY <2>2 DEF Row, Statuses
<1>2. CASE outbox'[e].status = outbox[e].status
  BY <1>2
<1>3. CASE outbox'[e].status # outbox[e].status
  <2>1. PICK d \in Dispatchers :
          /\ Current(d, e)
          /\ \/ PublishEvent(d) /\ outbox'[e].status = "PUBLISHED"
             \/ MoveToDeadLetter(d) /\ outbox'[e].status = "FAILED"
    BY <1>3, StatusChanges DEF DeliveryInv
  <2>2. CASE PublishEvent(d) /\ outbox'[e].status = "PUBLISHED"
    BY <2>1, <2>2 DEF PublishEvent, DeliveryInv, MarkingApplied, Current
  <2>3. CASE outbox'[e].status = "FAILED"
    BY <1>1, <1>3, <2>3 DEF DeliveryInv, NothingLost
  <2> QED
    BY <2>1, <2>2, <2>3
<1> QED
  BY <1>2, <1>3

\* However many dispatchers work on stale rows: no event comes back to the queue, and
\* a verdict that is overwritten was given to an event that has been applied.
THEOREM VerdictsStay == Spec => SettledStaysSettled
<1>1. DeliveryInv /\ [Next]_vars =>
        [\A e \in Events :
           LET verdict == outbox[e].status
           IN  verdict # "PENDING" =>
                 /\ outbox'[e].status # "PENDING"
                 /\ outbox'[e].status # verdict => Applied(e)]_vars
  BY SettledStep
<1> QED
  BY <1>1, DeliveryInvariant, PTL DEF Spec, SettledStaysSettled

=============================================================================
