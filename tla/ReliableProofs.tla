---------------------------- MODULE ReliableProofs ----------------------------
(***************************************************************************)
(* What needs one dispatcher: retries are counted, settled rows are final. *)
(* If its handlers get their connections, dead letters have had no effect; *)
(* and, with one operator, a fact is applied once through all its replayed *)
(* copies: Dispatcher implements EventLifecycle.  If they do not, every    *)
(* batch cut off costs one event at most.  The last part says what is left *)
(* of the accounting with any number of dispatchers.                       *)
(***************************************************************************)
EXTENDS MCDispatcher, DeliveryProofs, FiniteSetTheorems

OneDispatcher == \A c, d \in Dispatchers : c = d

\* The look-up of the inbox always gets its connection, so that the redelivery of an
\* applied event is skipped and not counted as a failure.
Reliable == OneDispatcher /\ ~ConnectionsFail

OneOperator == \A o, p \in Operators : o = p

\* Nobody replays, or one operator does beside one reliable dispatcher.
SafeReplays == Operators = {} \/ (Reliable /\ OneOperator)

-----------------------------------------------------------------------------
(* The inductive invariants of one dispatcher                              *)

\* What the session still believes of a fetched row is what the table says.
CacheFresh ==
  \A d \in Dispatchers : \A e \in DOMAIN batch[d] :
    /\ outbox[e].status = "PENDING" /\ outbox[e].next # "later"
    /\ batch[d][e] = [failures |-> outbox[e].failures, next |-> outbox[e].next]

\* The number a failing attempt has read is still the next one.
AttemptFresh ==
  \A d \in Dispatchers : \A e \in DOMAIN batch[d] :
    pc[d] = "settling" /\ Current(d, e) => attempt[d] = Len(attempts[e]) + 1

\* An event that is being handled, or whose handling has failed, is not applied.
FailingNotApplied ==
  \A d \in Dispatchers : \A e \in DOMAIN batch[d] :
    pc[d] \in {"handling", "failing", "settling"} /\ Current(d, e) => ~Applied(e)

\* A settled row waits for nothing.
SettledNotDelayed ==
  \A e \in Events : outbox[e].status # "PENDING" => outbox[e].next = "none"

\* A buried event is FAILED, and it is buried once.
BuriedFailed ==
  \A k \in 1 .. Len(deadLetters) : outbox[deadLetters[k].event].status = "FAILED"

BuriedOnce ==
  \A j, k \in 1 .. Len(deadLetters) : deadLetters[j].event = deadLetters[k].event => j = k

Marking(e) == \E d \in Dispatchers : pc[d] = "marking" /\ Current(d, e)

\* The batch was cut off between the two commits and left them applied and not
\* PUBLISHED, by a crash or because the second commit, which flushes the UPDATE of
\* mark_published, got no connection.  If the look-ups of their redeliveries get none
\* either, they are buried although they have had effects.
Stranded ==
  {e \in Events : Applied(e) /\ outbox[e].status # "PUBLISHED" /\ ~Marking(e)}

InterruptionsCounted == Cardinality(Stranded) <= interruptions

\* One dispatcher, whatever happens to it; and a reliable one.
SessionInv ==
  /\ DeliveryInv /\ CacheFresh /\ AttemptFresh /\ SettledNotDelayed /\ RetryAccounting
  /\ BuriedFailed /\ BuriedOnce

ReliableInv == SessionInv /\ FailingNotApplied /\ DeadLettersNotApplied

-----------------------------------------------------------------------------
(* The inductive invariants of one operator                                *)

\* The dead letter the operator has loaded has not been replayed.
LoadedFresh ==
  \A o \in Operators : replaying[o] # 0 => ~deadLetters[replaying[o]].replayed

\* A copy was made of an earlier event.
OriginsEarlier == \A e \in Events : outbox[e].origin \in 1 .. e

CopiesOf(o) == {e \in Copies : outbox[e].origin = o}

ReplayedOf(o) ==
  {k \in 1 .. Len(deadLetters) :
     deadLetters[k].replayed /\ outbox[deadLetters[k].event].origin = o}

ReplayInv == TypeOK /\ OriginsEarlier /\ LoadedFresh /\ ReplayedOnce

\* Nothing more comes of e: its dead letter was replayed.
Spent(e) == \E k \in DeadLettersOf(e) : deadLetters[k].replayed

\* Of an event and its copies exactly one can still be, or was, applied.
OneUnspent ==
  /\ \A e, f \in Events :
       outbox[e].origin = outbox[f].origin /\ ~Spent(e) /\ ~Spent(f) => e = f
  /\ \A e \in Events : \E f \in Events : outbox[f].origin = outbox[e].origin /\ ~Spent(f)

CopyInv == SessionInv /\ OriginsEarlier /\ LoadedFresh /\ OneUnspent

FactInv == ReliableInv /\ CopyInv

-----------------------------------------------------------------------------
(* What a step does to one row and to one fetched event                    *)

\* An inserted row is the last one and comes without attempts.
LEMMA Inserted ==
  ASSUME TypeOK, NEW row \in Row, InsertRow(row), NEW n \in Nat, n = Len(outbox) + 1
  PROVE  /\ Events' = Events \cup {n} /\ n \notin Events
         /\ outbox'[n] = row /\ attempts'[n] = <<>>
         /\ \A e \in Events : outbox'[e] = outbox[e] /\ attempts'[e] = attempts[e]
<1>1. /\ outbox \in Seq(Row) /\ attempts \in Seq(Seq(Nat)) /\ Len(attempts) = Len(outbox)
      /\ Len(outbox) \in Nat /\ <<>> \in Seq(Nat)
  BY DEF TypeOK, TablesTyped
<1>2. /\ Len(outbox') = n /\ outbox'[n] = row
      /\ \A e \in 1 .. Len(outbox) : outbox'[e] = outbox[e]
  BY <1>1, AppendRow DEF InsertRow
<1>3. /\ attempts'[n] = <<>>
      /\ \A e \in 1 .. Len(outbox) : attempts'[e] = attempts[e]
  BY <1>1, AppendRow DEF InsertRow
<1> QED
  BY <1>1, <1>2, <1>3 DEF Events

Untouched(e) == outbox'[e] = outbox[e] /\ attempts'[e] = attempts[e]

Elapses(e) ==
  /\ outbox[e].next = "later"
  /\ outbox'[e] = [outbox[e] EXCEPT !.next = "due"]
  /\ attempts'[e] = attempts[e]

\* d ends its work on e with the row it cached.
Publishes(d, e) ==
  /\ pc[d] = "marking" /\ Current(d, e)
  /\ outbox'[e] = MarkPublished(outbox[e], batch[d][e])
  /\ attempts'[e] = attempts[e] /\ deadLetters' = deadLetters

Retries(d, e) ==
  /\ pc[d] = "settling" /\ Current(d, e) /\ attempt[d] < MaxAttempts
  /\ outbox'[e] = MarkRetryableFailure(outbox[e], batch[d][e])
  /\ attempts'[e] = Append(attempts[e], attempt[d]) /\ deadLetters' = deadLetters

Buries(d, e) ==
  /\ pc[d] = "settling" /\ Current(d, e) /\ attempt[d] >= MaxAttempts
  /\ outbox'[e] = MarkFailed(outbox[e], batch[d][e])
  /\ attempts'[e] = Append(attempts[e], attempt[d])
  /\ deadLetters' = Append(deadLetters, [event |-> e, replayed |-> FALSE])

\* The commit of e's turn takes e out of the batch and leaves the rest of it.
EndsTurn(d, e) ==
  /\ DOMAIN batch'[d] = DOMAIN batch[d] \ {e}
  /\ \A f \in DOMAIN batch'[d] : batch'[d][f] = batch[d][f]
  /\ pc'[d] \in {"idle", "next"}

\* The step after a commit takes the event out of the dispatcher's batch.
LEMMA AdvanceEnds ==
  ASSUME TypeOK, NEW d \in Dispatchers, NEW e, Advance(d, e)
  PROVE  EndsTurn(d, e)
<1> DEFINE left == DOMAIN batch[d] \ {e}
<1>1. batch'[d] = [f \in left |-> batch[d][f]]
  BY DEF Advance, Restrict, TypeOK, ProcessesTyped
<1>2. pc'[d] \in {"idle", "next"}
  BY DEF Advance, Goto, TypeOK, ProcessesTyped
<1> QED
  BY <1>1, <1>2 DEF EndsTurn

\* One commit, seen from any row e.
LEMMA CommitOf ==
  ASSUME TypeOK, NEW d \in Dispatchers, NEW e \in Events,
         PublishEvent(d) \/ ScheduleRetry(d) \/ MoveToDeadLetter(d)
  PROVE  \/ Untouched(e)
         \/ /\ EndsTurn(d, e)
            /\ Publishes(d, e) \/ Retries(d, e) \/ Buries(d, e)
<1>1. /\ outbox \in Seq(Row) /\ attempts \in Seq(Seq(Nat)) /\ Len(attempts) = Len(outbox)
      /\ Events = 1 .. Len(outbox) /\ Len(outbox) \in Nat
  BY DEF TypeOK, TablesTyped, Events
<1>2. CASE PublishEvent(d)
  <2>1. PICK f \in Events :
          /\ pc[d] = "marking" /\ Current(d, f)
          /\ outbox' = [outbox EXCEPT ![f] = MarkPublished(@, batch[d][f])]
          /\ Advance(d, f) /\ attempts' = attempts /\ deadLetters' = deadLetters
    BY <1>2 DEF PublishEvent
  <2>2. EndsTurn(d, f)
    BY <2>1, AdvanceEnds
  <2>3. CASE e = f
    BY <1>1, <2>1, <2>2, <2>3 DEF Publishes
  <2>4. CASE e # f
    BY <1>1, <2>1, <2>4 DEF Untouched
  <2> QED
    BY <2>3, <2>4
<1>3. CASE ScheduleRetry(d)
  <2>1. PICK f \in Events :
          /\ pc[d] = "settling" /\ Current(d, f) /\ attempt[d] < MaxAttempts
          /\ outbox' = [outbox EXCEPT ![f] = MarkRetryableFailure(@, batch[d][f])]
          /\ attempts' = [attempts EXCEPT ![f] = Append(@, attempt[d])]
          /\ Advance(d, f) /\ deadLetters' = deadLetters
    BY <1>3 DEF ScheduleRetry
  <2>2. EndsTurn(d, f)
    BY <2>1, AdvanceEnds
  <2>3. CASE e = f
    BY <1>1, <2>1, <2>2, <2>3 DEF Retries
  <2>4. CASE e # f
    BY <1>1, <2>1, <2>4 DEF Untouched
  <2> QED
    BY <2>3, <2>4
<1>4. CASE MoveToDeadLetter(d)
  <2>1. PICK f \in Events :
          /\ pc[d] = "settling" /\ Current(d, f) /\ attempt[d] >= MaxAttempts
          /\ outbox' = [outbox EXCEPT ![f] = MarkFailed(@, batch[d][f])]
          /\ attempts' = [attempts EXCEPT ![f] = Append(@, attempt[d])]
          /\ deadLetters' = Append(deadLetters, [event |-> f, replayed |-> FALSE])
          /\ Advance(d, f)
    BY <1>4 DEF MoveToDeadLetter
  <2>2. EndsTurn(d, f)
    BY <2>1, AdvanceEnds
  <2>3. CASE e = f
    BY <1>1, <2>1, <2>2, <2>3 DEF Buries
  <2>4. CASE e # f
    BY <1>1, <2>1, <2>4 DEF Untouched
  <2> QED
    BY <2>3, <2>4
<1> QED
  BY <1>2, <1>3, <1>4

\* The inserting steps, with the row each inserts.
LEMMA Inserting ==
  ASSUME TypeOK
  PROVE  /\ \A type \in SeedTypes :
              /\ NewRow(type, 0, Len(outbox) + 1) \in Row
              /\ Submit(type) => InsertRow(NewRow(type, 0, Len(outbox) + 1))
         /\ \A e \in Events : \A out \in EventTypes : NewRow(out, e, Len(outbox) + 1) \in Row
         /\ \A f \in Events : NewRow(outbox[f].type, outbox[f].cause, outbox[f].origin) \in Row
         /\ \A o \in Operators : ReplayCommit(o) =>
              /\ replaying[o] \in 1 .. Len(deadLetters)
              /\ deadLetters[replaying[o]].event \in Events
              /\ LET f == deadLetters[replaying[o]].event
                 IN  InsertRow(NewRow(outbox[f].type, outbox[f].cause, outbox[f].origin))
<1>1. outbox \in Seq(Row) /\ Len(outbox) \in Nat /\ Events = 1 .. Len(outbox)
  BY DEF TypeOK, TablesTyped, Events
<1>2. ASSUME NEW type \in SeedTypes
      PROVE  /\ NewRow(type, 0, Len(outbox) + 1) \in Row
             /\ Submit(type) => InsertRow(NewRow(type, 0, Len(outbox) + 1))
  <2>1. type \in EventTypes /\ 0 \in Nat /\ Len(outbox) + 1 \in Nat
    BY <1>1, TypesAssumption
  <2> QED
    BY <2>1, NewRowType DEF Submit
<1>3. ASSUME NEW e \in Events, NEW out \in EventTypes
      PROVE  NewRow(out, e, Len(outbox) + 1) \in Row
  BY <1>1, NewRowType
<1>4. ASSUME NEW f \in Events
      PROVE  NewRow(outbox[f].type, outbox[f].cause, outbox[f].origin) \in Row
  <2>1. outbox[f] \in Row
    BY <1>1
  <2> QED
    BY <2>1, NewRowType DEF Row
<1>5. ASSUME NEW o \in Operators, ReplayCommit(o)
      PROVE  /\ replaying[o] \in 1 .. Len(deadLetters)
             /\ deadLetters[replaying[o]].event \in Events
  BY <1>5 DEF ReplayCommit, TypeOK, ProcessesTyped, TablesTyped
<1>6. ASSUME NEW o \in Operators, ReplayCommit(o)
      PROVE  LET f == deadLetters[replaying[o]].event
             IN  InsertRow(NewRow(outbox[f].type, outbox[f].cause, outbox[f].origin))
  BY <1>6 DEF ReplayCommit
<1> QED
  BY <1>2, <1>3, <1>4, <1>5, <1>6

\* A handler's commit, with the row it may insert.
LEMMA Committing ==
  ASSUME TypeOK, NEW d \in Dispatchers, HandlerCommits(d)
  PROVE  \E e \in Events :
           /\ pc[d] = "handling" /\ Current(d, e) /\ Registered(e) /\ ~Applied(e)
           /\ inbox' = inbox \cup {InboxKey(e)} /\ deadLetters' = deadLetters
           /\ Goto(d, "marking") /\ UNCHANGED <<batch, attempt, replaying>>
           /\ \/ UNCHANGED <<outbox, attempts>>
              \/ \E out \in EventTypes : InsertRow(NewRow(out, e, Len(outbox) + 1))
<1>1. PICK e \in Events :
        /\ pc[d] = "handling" /\ Current(d, e) /\ ~HasProcessed(e)
        /\ inbox' = inbox \cup {InboxKey(e)}
        /\ \/ UNCHANGED <<outbox, attempts>>
           \/ \E out \in Outcomes[outbox[e].type] \ {NoEvent} :
                InsertRow(NewRow(out, e, Len(outbox) + 1))
        /\ Goto(d, "marking") /\ UNCHANGED <<deadLetters, batch, attempt, replaying>>
  BY DEF HandlerCommits, InboxKeyFree
<1>2. Registered(e)
  BY <1>1 DEF TypeOK, HandlersRegistered, Current
<1>3. Outcomes[outbox[e].type] \ {NoEvent} \subseteq EventTypes
  BY <1>2, TypesAssumption DEF Registered
<1> QED
  BY <1>1, <1>2, <1>3 DEF Applied

\* What a step can do to the row and the attempts of an event.
LEMMA RowChange ==
  ASSUME TypeOK, [Next]_vars, NEW e \in Events
  PROVE  \/ Untouched(e)
         \/ Elapses(e)
         \/ \E d \in Dispatchers :
              /\ EndsTurn(d, e)
              /\ Publishes(d, e) \/ Retries(d, e) \/ Buries(d, e)
<1>1. outbox \in Seq(Row) /\ Len(outbox) \in Nat /\ Events = 1 .. Len(outbox)
  BY DEF TypeOK, TablesTyped, Events
<1>2. ASSUME NEW row \in Row, InsertRow(row) PROVE Untouched(e)
  <2>1. Len(outbox) + 1 \in Nat
    BY <1>1
  <2> QED
    BY <1>2, <2>1, Inserted DEF Untouched
<1>3. ASSUME NEW type \in SeedTypes, Submit(type) PROVE Untouched(e)
  BY <1>2, <1>3, Inserting
<1>4. ASSUME NEW o \in Operators, ReplayCommit(o) PROVE Untouched(e)
  <2>1. PICK f \in Events : InsertRow(NewRow(outbox[f].type, outbox[f].cause, outbox[f].origin))
    BY <1>4, Inserting
  <2> QED
    BY <1>2, <2>1, Inserting
<1>5. ASSUME NEW d \in Dispatchers, HandlerCommits(d) PROVE Untouched(e)
  <2>1. PICK f \in Events : \/ UNCHANGED <<outbox, attempts>>
                            \/ \E out \in EventTypes : InsertRow(NewRow(out, f, Len(outbox) + 1))
    BY <1>5, Committing
  <2>2. CASE UNCHANGED <<outbox, attempts>>
    BY <2>2 DEF Untouched
  <2>3. ASSUME NEW out \in EventTypes, InsertRow(NewRow(out, f, Len(outbox) + 1))
        PROVE  Untouched(e)
    BY <1>2, <2>3, Inserting
  <2> QED
    BY <2>1, <2>2, <2>3
<1>6. ASSUME NEW f \in Events, BackoffElapses(f) PROVE Untouched(e) \/ Elapses(e)
  BY <1>1, <1>6 DEF BackoffElapses, Untouched, Elapses
<1>7. ASSUME NEW d \in Dispatchers, DispatcherStep(d) \/ Interrupt(d), ~HandlerCommits(d),
             ~PublishEvent(d), ~ScheduleRetry(d), ~MoveToDeadLetter(d)
      PROVE  Untouched(e)
  BY <1>7
  DEF DispatcherStep, Fetch, RejectUnsupported, ConnectionFails, SkipProcessed, StartHandler,
      HandlerRaises, RecordFailure, FlushRefused, Interrupt, Abandon, Untouched
<1>8. ASSUME \/ \E o \in Operators : ReplayRead(o) \/ ReplayAbandoned(o)
             \/ UNCHANGED vars
      PROVE  Untouched(e)
  BY <1>8 DEF ReplayRead, ReplayAbandoned, vars, Untouched
<1> QED
  BY <1>3, <1>4, <1>5, <1>6, <1>7, <1>8, CommitOf DEF Next, ReplayStep

-----------------------------------------------------------------------------
(* What a step does to the batches and to the inbox                        *)

\* What d still has to do it had before, or it has just fetched it.
LEMMA BatchChange ==
  ASSUME TypeOK, [Next]_vars, NEW d \in Dispatchers, NEW e \in DOMAIN batch'[d]
  PROVE  \/ e \in DOMAIN batch[d] /\ batch'[d][e] = batch[d][e]
         \/ Fetch(d)
<1>1. CASE batch'[d] = batch[d]
  BY <1>1
<1>2. CASE \E c \in Dispatchers : c # d /\ (DispatcherStep(c) \/ Interrupt(c))
  BY <1>1, <1>2, OthersKept
<1>3. CASE \/ \E type \in SeedTypes : Submit(type)
           \/ \E f \in Events : BackoffElapses(f)
           \/ \E o \in Operators : ReplayStep(o)
           \/ UNCHANGED vars
  BY <1>1, <1>3 DEF Submit, BackoffElapses, ReplayStep, ReplayRead, ReplayCommit,
                    ReplayAbandoned, vars
<1>4. CASE FlushRefused(d) \/ Interrupt(d)
  BY <1>4 DEF FlushRefused, Interrupt, Abandon, TypeOK, ProcessesTyped
<1>5. CASE PublishEvent(d) \/ ScheduleRetry(d) \/ MoveToDeadLetter(d)
  <2>1. PICK f \in Events : Advance(d, f)
    BY <1>5 DEF PublishEvent, ScheduleRetry, MoveToDeadLetter
  <2> QED
    BY <2>1, AdvanceEnds DEF EndsTurn
<1>6. CASE \/ RejectUnsupported(d) \/ ConnectionFails(d) \/ SkipProcessed(d)
           \/ StartHandler(d) \/ HandlerRaises(d) \/ HandlerCommits(d) \/ RecordFailure(d)
  BY <1>1, <1>6 DEF RejectUnsupported, ConnectionFails, SkipProcessed, StartHandler,
                    HandlerRaises, HandlerCommits, RecordFailure
<1> QED
  BY <1>2, <1>3, <1>4, <1>5, <1>6 DEF Next, DispatcherStep

\* An event becomes applied by a handler's commit only, on behalf of the dispatcher
\* that handles it, and not in the step that inserts it.
LEMMA BecomesApplied ==
  ASSUME TypeOK, [Next]_vars, NEW e \in Events', Applied(e)'
  PROVE  /\ e \in Events
         /\ \/ Applied(e)
            \/ \E d \in Dispatchers : pc[d] = "handling" /\ Current(d, e) /\ HandlerCommits(d)
<1>1. RowsKept /\ inbox \subseteq inbox'
  BY NextTyped, InboxGrows
<1>2. \A key \in inbox : key[2] \in Events
  BY DEF TypeOK, TablesTyped
<1>3. InboxKey(e)' \in inbox' /\ InboxKey(e)'[2] = e
  BY DEF Applied, HasProcessed, InboxKey
<1>4. CASE inbox' = inbox
  <2>1. e \in Events
    BY <1>2, <1>3, <1>4
  <2> QED
    BY <1>1, <1>4, <2>1, AppliedKept
<1>5. ASSUME NEW d \in Dispatchers, HandlerCommits(d)
      PROVE  /\ e \in Events
             /\ Applied(e) \/ (pc[d] = "handling" /\ Current(d, e))
  <2>1. PICK f \in Events : /\ pc[d] = "handling" /\ Current(d, f)
                           /\ inbox' = inbox \cup {InboxKey(f)}
    BY <1>5 DEF HandlerCommits
  <2>2. InboxKey(f)[2] = f
    BY DEF InboxKey
  <2>3. e \in Events
    BY <1>2, <1>3, <2>1, <2>2
  <2>4. e # f => InboxKey(e)' \in inbox
    BY <1>3, <2>1, <2>2
  <2>5. InboxKey(e)' \in inbox => Applied(e)
    BY <1>1, <2>3 DEF Applied, HasProcessed, InboxKey, Registered, RowsKept
  <2> QED
    BY <2>1, <2>3, <2>4, <2>5
<1>6. CASE ~\E d \in Dispatchers : HandlerCommits(d)
  BY <1>4, <1>6, StepKinds DEF QuietStep, InsertStep
<1> QED
  BY <1>5, <1>6

-----------------------------------------------------------------------------
(* One dispatcher: attempts, dead letters, settled rows                    *)

\* The fields of the rows the three UPDATE statements and the clock write.
LEMMA WrittenRows ==
  ASSUME NEW row \in Row, NEW cached \in CachedRow
  PROVE  /\ LET r == MarkPublished(row, cached)
            IN  /\ r.status = "PUBLISHED" /\ r.failures = row.failures
                /\ r.next = ClearDelay(row, cached)
         /\ LET r == MarkRetryableFailure(row, cached)
            IN  /\ r.status = row.status /\ r.failures = cached.failures + 1
                /\ r.next = "later"
         /\ LET r == MarkFailed(row, cached)
            IN  /\ r.status = "FAILED" /\ r.failures = cached.failures + 1
                /\ r.next = ClearDelay(row, cached)
         /\ LET r == [row EXCEPT !.next = "due"]
            IN  r.status = row.status /\ r.failures = row.failures /\ r.next = "due"
  BY DEF MarkPublished, MarkRetryableFailure, MarkFailed, Row, CachedRow

\* The dispatcher works on a row that is PENDING and that it knows.
LEMMA WorkedOn ==
  ASSUME TypeOK, CacheFresh, NEW d \in Dispatchers, NEW e \in Events, Current(d, e)
  PROVE  /\ outbox[e] \in Row /\ batch[d][e] \in CachedRow
         /\ outbox[e].status = "PENDING" /\ outbox[e].next # "later"
         /\ batch[d][e].failures = outbox[e].failures
         /\ ClearDelay(outbox[e], batch[d][e]) = "none"
<1>1. outbox[e] \in Row /\ batch[d][e] \in CachedRow
  BY FetchedRow
<1>2. /\ outbox[e].status = "PENDING" /\ outbox[e].next # "later"
      /\ batch[d][e] = [failures |-> outbox[e].failures, next |-> outbox[e].next]
  BY DEF CacheFresh, Current
<1>3. batch[d][e].failures = outbox[e].failures /\ batch[d][e].next = outbox[e].next
  BY <1>2
<1> QED
  BY <1>1, <1>2, <1>3 DEF ClearDelay

\* A settled row is not written any more.
LEMMA SettledRow ==
  ASSUME TypeOK, CacheFresh, SettledNotDelayed, [Next]_vars,
         NEW e \in Events, outbox[e].status # "PENDING"
  PROVE  Untouched(e)
<1>1. ~Elapses(e)
  BY DEF Elapses, SettledNotDelayed
<1>2. ASSUME NEW d \in Dispatchers, Publishes(d, e) \/ Retries(d, e) \/ Buries(d, e)
      PROVE  FALSE
  BY <1>2, WorkedOn DEF Publishes, Retries, Buries
<1> QED
  BY <1>1, <1>2, RowChange

\* A new event is PENDING, has failed never and waits for nothing.
ArrivesFresh(e) ==
  /\ outbox'[e].status = "PENDING" /\ outbox'[e].failures = 0
  /\ outbox'[e].next = "none" /\ attempts'[e] = <<>>

\* Only the replay command gives it the origin of an earlier one, and the step that
\* inserts it writes no other row.
LEMMA NewRowFresh ==
  ASSUME TypeOK, [Next]_vars, NEW e \in Events' \ Events
  PROVE  /\ ArrivesFresh(e)
         /\ outbox'[e].origin = e \/ \E o \in Operators : ReplayCommit(o)
         /\ \A f \in Events : Untouched(f)
<1>1. outbox \in Seq(Row) /\ Len(outbox) \in Nat /\ Events = 1 .. Len(outbox)
  BY DEF TypeOK, TablesTyped, Events
<1>2. ASSUME NEW type, NEW cause, NEW origin,
             NewRow(type, cause, origin) \in Row, InsertRow(NewRow(type, cause, origin))
      PROVE  /\ ArrivesFresh(e)
             /\ e = Len(outbox) + 1 /\ outbox'[e].origin = origin
             /\ \A f \in Events : Untouched(f)
  <2> DEFINE row == NewRow(type, cause, origin)
  <2>1. /\ row.status = "PENDING" /\ row.failures = 0 /\ row.next = "none"
        /\ row.origin = origin
    BY DEF NewRow
  <2>2. row \in Row /\ InsertRow(row)
    BY <1>2
  <2> HIDE DEF row
  <2>3. PICK n \in Nat : n = Len(outbox) + 1
    BY <1>1
  <2>4. /\ Events' = Events \cup {n} /\ outbox'[n] = row /\ attempts'[n] = <<>>
        /\ \A f \in Events : Untouched(f)
    BY <2>2, <2>3, Inserted DEF Untouched
  <2> QED
    BY <2>1, <2>3, <2>4 DEF ArrivesFresh
<1>3. ASSUME NEW type \in SeedTypes, Submit(type)
      PROVE  /\ ArrivesFresh(e) /\ outbox'[e].origin = e
             /\ \A f \in Events : Untouched(f)
  BY <1>2, <1>3, Inserting
<1>4. ASSUME NEW o \in Operators, ReplayCommit(o)
      PROVE  ArrivesFresh(e) /\ \A f \in Events : Untouched(f)
  <2>1. PICK f \in Events : InsertRow(NewRow(outbox[f].type, outbox[f].cause, outbox[f].origin))
    BY <1>4, Inserting
  <2> QED
    BY <1>2, <2>1, Inserting
<1>5. ASSUME NEW d \in Dispatchers, HandlerCommits(d)
      PROVE  /\ ArrivesFresh(e) /\ outbox'[e].origin = e
             /\ \A f \in Events : Untouched(f)
  <2>1. PICK f \in Events : \/ UNCHANGED <<outbox, attempts>>
                            \/ \E out \in EventTypes : InsertRow(NewRow(out, f, Len(outbox) + 1))
    BY <1>5, Committing
  <2>2. outbox' # outbox
    BY DEF Events
  <2> QED
    BY <1>2, <2>1, <2>2, Inserting
<1>6. Len(outbox') # Len(outbox)
  BY DEF Events
<1>7. ASSUME NEW d \in Dispatchers, DispatcherStep(d) \/ Interrupt(d) PROVE HandlerCommits(d)
  <2>1. ASSUME PublishEvent(d) \/ ScheduleRetry(d) \/ MoveToDeadLetter(d) PROVE FALSE
    <3>1. PICK f \in Events, row \in Row : outbox' = [outbox EXCEPT ![f] = row]
      BY <2>1, CommitUpdates
    <3> QED
      BY <1>1, <1>6, <3>1, UpdateRow
  <2> QED
    BY <1>6, <1>7, <2>1
    DEF DispatcherStep, Fetch, RejectUnsupported, ConnectionFails, SkipProcessed, StartHandler,
        HandlerRaises, RecordFailure, FlushRefused, Interrupt, Abandon
<1>8. ASSUME NEW f \in Events, BackoffElapses(f) PROVE FALSE
  BY <1>1, <1>6, <1>8 DEF BackoffElapses
<1> QED
  BY <1>3, <1>4, <1>5, <1>6, <1>7, <1>8
  DEF Next, ReplayStep, ReplayRead, ReplayAbandoned, vars

\* Nobody else writes a row the dispatcher has fetched.
LEMMA CacheStep ==
  ASSUME TypeOK, CacheFresh, OneDispatcher, [Next]_vars
  PROVE  CacheFresh'
<1> SUFFICES ASSUME NEW d \in Dispatchers, NEW e \in DOMAIN batch'[d]
             PROVE  /\ outbox'[e].status = "PENDING" /\ outbox'[e].next # "later"
                    /\ batch'[d][e] = [failures |-> outbox'[e].failures,
                                       next |-> outbox'[e].next]
  BY DEF CacheFresh
<1>1. CASE Fetch(d)
  <2>1. /\ outbox' = outbox /\ e \in FetchPending
        /\ batch'[d] = [f \in FetchPending |->
                          [failures |-> outbox[f].failures, next |-> outbox[f].next]]
    BY <1>1 DEF Fetch, TypeOK, ProcessesTyped
  <2> QED
    BY <2>1 DEF FetchPending, Eligible
<1>2. CASE e \in DOMAIN batch[d] /\ batch'[d][e] = batch[d][e]
  <2>1. /\ outbox[e].status = "PENDING" /\ outbox[e].next # "later"
        /\ batch[d][e] = [failures |-> outbox[e].failures, next |-> outbox[e].next]
    BY <1>2 DEF CacheFresh
  <2>2. e \in Events
    BY <1>2 DEF TypeOK, ProcessesTyped, BatchTyped
  <2>3. ~Elapses(e)
    BY <2>1 DEF Elapses
  <2>4. ASSUME NEW c \in Dispatchers, EndsTurn(c, e) PROVE FALSE
    BY <2>4 DEF OneDispatcher, EndsTurn
  <2> QED
    BY <1>2, <2>1, <2>2, <2>3, <2>4, RowChange DEF Untouched
<1> QED
  BY <1>1, <1>2, BatchChange

\* Retries are counted.
LEMMA AccountingStep ==
  ASSUME TypeOK, CacheFresh, AttemptFresh, SettledNotDelayed, RetryAccounting, [Next]_vars
  PROVE  RetryAccounting' /\ SettledNotDelayed'
<1> DEFINE Counted(row, list) ==
      LET n == Len(list)
      IN  /\ \A i \in 1 .. n : list[i] = i
          /\ row.failures = n
          /\ n <= MaxAttempts
          /\ row.status = "FAILED" <=> n = MaxAttempts
          /\ row.status = "PENDING" => (row.next = "none" <=> n = 0)
          /\ row.status # "PENDING" => row.next = "none"
<1>1. \A e \in Events : Counted(outbox[e], attempts[e])
  BY DEF RetryAccounting, SettledNotDelayed
<1>2. ASSUME NEW e \in Events PROVE Counted(outbox'[e], attempts'[e])
  <2>1. /\ outbox[e] \in Row /\ attempts[e] \in Seq(Nat)
        /\ MaxAttempts \in Nat \ {0}
    <3>1. /\ outbox \in Seq(Row) /\ attempts \in Seq(Seq(Nat))
          /\ e \in 1 .. Len(outbox) /\ e \in 1 .. Len(attempts)
      BY DEF TypeOK, TablesTyped, Events
    <3> QED
      BY <3>1, BoundsAssumption
  <2>2. CASE Untouched(e)
    BY <1>1, <2>2 DEF Untouched
  <2>3. CASE Elapses(e)
    <3>1. /\ outbox'[e].status = outbox[e].status /\ outbox'[e].failures = outbox[e].failures
          /\ outbox'[e].next = "due" /\ attempts'[e] = attempts[e]
      BY <2>1, <2>3 DEF Elapses, Row
    <3> QED
      BY <1>1, <2>3, <3>1 DEF Elapses
  <2>4. ASSUME NEW d \in Dispatchers, Publishes(d, e)
        PROVE  Counted(outbox'[e], attempts'[e])
    <3>1. /\ outbox[e].status = "PENDING"
          /\ outbox'[e].status = "PUBLISHED" /\ outbox'[e].failures = outbox[e].failures
          /\ outbox'[e].next = "none" /\ attempts'[e] = attempts[e]
      BY <2>4, WorkedOn, WrittenRows DEF Publishes
    <3> QED
      BY <1>1, <3>1
  <2>5. ASSUME NEW d \in Dispatchers, Retries(d, e) \/ Buries(d, e)
        PROVE  Counted(outbox'[e], attempts'[e])
    <3> DEFINE n == Len(attempts[e])
    <3>1. /\ outbox[e].status = "PENDING" /\ outbox[e].failures = n
          /\ n < MaxAttempts /\ n \in Nat
      BY <1>1, <2>1, <2>5, WorkedOn DEF Retries, Buries
    <3>2. attempt[d] = n + 1
      BY <2>5 DEF Retries, Buries, AttemptFresh, Current
    <3>3. /\ Len(attempts'[e]) = n + 1
          /\ \A i \in 1 .. n + 1 : attempts'[e][i] = i
      <4>1. attempts'[e] = Append(attempts[e], n + 1)
        BY <2>5, <3>2 DEF Retries, Buries
      <4>2. \A i \in 1 .. n : attempts[e][i] = i
        BY <1>1
      <4> QED
        BY <2>1, <4>1, <4>2
    <3>4. CASE Retries(d, e)
      <4>1. /\ outbox'[e].status = "PENDING" /\ outbox'[e].failures = n + 1
            /\ outbox'[e].next = "later" /\ n + 1 < MaxAttempts
        BY <3>1, <3>2, <3>4, WorkedOn, WrittenRows DEF Retries
      <4> QED
        BY <2>1, <3>1, <3>3, <4>1
    <3>5. CASE Buries(d, e)
      <4>1. /\ outbox'[e].status = "FAILED" /\ outbox'[e].failures = n + 1
            /\ outbox'[e].next = "none" /\ n + 1 >= MaxAttempts
        BY <3>1, <3>2, <3>5, WorkedOn, WrittenRows DEF Buries
      <4> QED
        BY <2>1, <3>1, <3>3, <4>1
    <3> QED
      BY <2>5, <3>4, <3>5
  <2> HIDE DEF Counted
  <2> QED
    BY <2>2, <2>3, <2>4, <2>5, RowChange
<1>3. ASSUME NEW e \in Events' \ Events PROVE Counted(outbox'[e], attempts'[e])
  BY <1>3, NewRowFresh, BoundsAssumption DEF ArrivesFresh
<1>4. \A e \in Events' : Counted(outbox'[e], attempts'[e])
  BY <1>2, <1>3
<1> QED
  BY <1>4 DEF RetryAccounting, SettledNotDelayed

\* Until its handler commits or its turn ends, a fetched event stays in its place.
LEMMA StillWorking ==
  ASSUME TypeOK, OneDispatcher, [Next]_vars, NEW d \in Dispatchers,
         pc'[d] \in {"handling", "failing", "settling"}
  PROVE  /\ batch'[d] = batch[d] /\ inbox' = inbox
         /\ \/ pc'[d] = pc[d] /\ attempt'[d] = attempt[d]
            \/ RejectUnsupported(d) \/ ConnectionFails(d) \/ StartHandler(d)
            \/ HandlerRaises(d) \/ RecordFailure(d)
<1>1. CASE \/ \E type \in SeedTypes : Submit(type)
           \/ \E f \in Events : BackoffElapses(f)
           \/ \E o \in Operators : ReplayStep(o)
           \/ UNCHANGED vars
  BY <1>1 DEF Submit, BackoffElapses, ReplayStep, ReplayRead, ReplayCommit,
              ReplayAbandoned, vars
<1>2. CASE DispatcherStep(d) \/ Interrupt(d)
  <2>1. ASSUME PublishEvent(d) \/ ScheduleRetry(d) \/ MoveToDeadLetter(d) PROVE FALSE
    <3>1. PICK f \in Events : Advance(d, f)
      BY <2>1 DEF PublishEvent, ScheduleRetry, MoveToDeadLetter
    <3> QED
      BY <3>1, AdvanceEnds DEF EndsTurn
  <2>2. ASSUME \/ Fetch(d) \/ SkipProcessed(d) \/ HandlerCommits(d) \/ FlushRefused(d)
               \/ Interrupt(d)
        PROVE  FALSE
    BY <2>2 DEF Fetch, SkipProcessed, HandlerCommits, FlushRefused, Interrupt, Abandon, Goto,
                TypeOK, ProcessesTyped
  <2> QED
    BY <1>2, <2>1, <2>2
    DEF DispatcherStep, RejectUnsupported, ConnectionFails, StartHandler, HandlerRaises,
        RecordFailure
<1> QED
  BY <1>1, <1>2 DEF Next, OneDispatcher

\* The next attempt of an event whose attempts are numbered in order is the next
\* number.
LEMMA NextNumber ==
  ASSUME NEW e \in Events, attempts[e] \in Seq(Nat),
         \A i \in 1 .. Len(attempts[e]) : attempts[e][i] = i,
         NEW n \in Nat, IsNextAttempt(e, n)
  PROVE  n = Len(attempts[e]) + 1
<1> DEFINE k == Len(attempts[e])
           recorded == Range(attempts[e]) \cup {0}
<1>1. k \in Nat /\ DOMAIN attempts[e] = 1 .. k
  OBVIOUS
<1>2. recorded = 0 .. k
  BY <1>1 DEF Range
<1>3. n - 1 \in recorded /\ \A m \in recorded : m < n
  BY DEF IsNextAttempt
<1>4. k < n /\ n - 1 <= k
  BY <1>1, <1>2, <1>3
<1> QED
  BY <1>1, <1>4

\* The number that has been read is still the next one.
LEMMA AttemptStep ==
  ASSUME TypeOK, RetryAccounting, AttemptFresh, OneDispatcher, [Next]_vars
  PROVE  AttemptFresh'
<1> SUFFICES ASSUME NEW d \in Dispatchers, NEW e \in DOMAIN batch'[d],
                    pc'[d] = "settling", Current(d, e)'
             PROVE  attempt'[d] = Len(attempts'[e]) + 1
  BY DEF AttemptFresh
<1>1. batch'[d] = batch[d]
  BY StillWorking
<1>2. e \in DOMAIN batch[d] /\ e \in Events /\ Current(d, e)
  BY <1>1 DEF TypeOK, ProcessesTyped, BatchTyped, Current
<1>3. attempts'[e] = attempts[e]
  <2>1. ~\E c \in Dispatchers : EndsTurn(c, e)
    BY DEF OneDispatcher, EndsTurn
  <2> QED
    BY <1>2, <2>1, RowChange DEF Untouched, Elapses
<1>4. CASE pc'[d] = pc[d] /\ attempt'[d] = attempt[d]
  BY <1>2, <1>3, <1>4 DEF AttemptFresh
<1>5. CASE RecordFailure(d)
  <2>1. PICK f \in Events : \E n \in 1 .. Len(attempts[f]) + 1 :
          /\ Current(d, f) /\ IsNextAttempt(f, n)
          /\ attempt' = [attempt EXCEPT ![d] = n]
    BY <1>5 DEF RecordFailure
  <2>2. e = f
    BY <1>2, <2>1 DEF Current, Events, TypeOK, ProcessesTyped, BatchTyped
  <2>3. PICK n \in 1 .. Len(attempts[e]) + 1 :
          IsNextAttempt(e, n) /\ attempt' = [attempt EXCEPT ![d] = n]
    BY <2>1, <2>2
  <2>4. attempts[e] \in Seq(Nat)
    <3>1. attempts \in Seq(Seq(Nat)) /\ e \in 1 .. Len(attempts)
      BY <1>2 DEF TypeOK, TablesTyped, Events
    <3> QED
      BY <3>1
  <2>5. n \in Nat /\ attempt'[d] = n
    BY <2>3, <2>4 DEF TypeOK, ProcessesTyped
  <2>6. n = Len(attempts[e]) + 1
    BY <1>2, <2>3, <2>4, <2>5, NextNumber DEF RetryAccounting
  <2> QED
    BY <1>3, <2>5, <2>6
<1>6. CASE RejectUnsupported(d) \/ ConnectionFails(d) \/ StartHandler(d) \/ HandlerRaises(d)
  BY <1>6 DEF RejectUnsupported, ConnectionFails, StartHandler, HandlerRaises, Goto,
              TypeOK, ProcessesTyped
<1> QED
  BY <1>4, <1>5, <1>6, StillWorking

\* The dead letters of a step are those there were, perhaps marked as replayed, and
\* perhaps one for an event that fails for the last time.
LEMMA DeadLetterChange ==
  ASSUME TypeOK, [Next]_vars
  PROVE  /\ Len(deadLetters) \in Nat /\ Len(deadLetters') \in Nat
         /\ \A k \in 1 .. Len(deadLetters) :
              k \in 1 .. Len(deadLetters') /\ deadLetters'[k].event = deadLetters[k].event
         /\ \A k \in 1 .. Len(deadLetters') :
              \/ k \in 1 .. Len(deadLetters)
              \/ /\ k = Len(deadLetters) + 1 /\ ~deadLetters'[k].replayed
                 /\ deadLetters'[k].event \in Events
                 /\ \E d \in Dispatchers : Buries(d, deadLetters'[k].event)
<1>1. deadLetters \in Seq(DeadLetterRow) /\ Len(deadLetters) \in Nat
  BY DEF TypeOK, TablesTyped
<1>2. ASSUME NEW d \in Dispatchers, MoveToDeadLetter(d)
      PROVE  \E e \in Events : Buries(d, e)
  <2>1. PICK f \in Events :
          /\ pc[d] = "settling" /\ Current(d, f) /\ attempt[d] >= MaxAttempts
          /\ outbox' = [outbox EXCEPT ![f] = MarkFailed(@, batch[d][f])]
          /\ attempts' = [attempts EXCEPT ![f] = Append(@, attempt[d])]
          /\ deadLetters' = Append(deadLetters, [event |-> f, replayed |-> FALSE])
    BY <1>2 DEF MoveToDeadLetter
  <2>2. /\ outbox \in Seq(Row) /\ attempts \in Seq(Seq(Nat)) /\ Len(attempts) = Len(outbox)
        /\ Events = 1 .. Len(outbox) /\ Len(outbox) \in Nat
    BY DEF TypeOK, TablesTyped, Events
  <2>3. Buries(d, f)
    BY <2>1, <2>2 DEF Buries
  <2> QED
    BY <2>3
<1>3. ASSUME NEW d \in Dispatchers, NEW e \in Events, Buries(d, e)
      PROVE  /\ Len(deadLetters') = Len(deadLetters) + 1
             /\ deadLetters'[Len(deadLetters) + 1] = [event |-> e, replayed |-> FALSE]
             /\ \A k \in 1 .. Len(deadLetters) : deadLetters'[k] = deadLetters[k]
  BY <1>3, BuriedTyped DEF Buries
<1>4. ASSUME NEW d \in Dispatchers, DispatcherStep(d) \/ Interrupt(d), ~MoveToDeadLetter(d)
      PROVE  deadLetters' = deadLetters
  BY <1>4 DEF DispatcherStep, Fetch, RejectUnsupported, ConnectionFails, SkipProcessed,
              StartHandler, HandlerRaises, HandlerCommits, RecordFailure, FlushRefused,
              Interrupt, Abandon, PublishEvent, ScheduleRetry
<1>5. ASSUME NEW o \in Operators, ReplayCommit(o)
      PROVE  /\ Len(deadLetters') = Len(deadLetters)
             /\ \A k \in 1 .. Len(deadLetters) : deadLetters'[k].event = deadLetters[k].event
  <2> DEFINE k == replaying[o]
             marked == MarkReplayed(deadLetters[k])
  <2>1. k \in 1 .. Len(deadLetters)
    BY <1>5, Inserting
  <2>2. deadLetters' = [deadLetters EXCEPT ![k] = marked]
    BY <1>5 DEF ReplayCommit
  <2>3. deadLetters[k] \in DeadLetterRow
    BY <1>1, <2>1
  <2>4. marked \in DeadLetterRow /\ marked.event = deadLetters[k].event
    BY <2>3 DEF DeadLetterRow, MarkReplayed
  <2> HIDE DEF marked, k
  <2> QED
    BY <1>1, <2>1, <2>2, <2>4, UpdateRow
<1>6. ASSUME \/ \E type \in SeedTypes : Submit(type)
             \/ \E f \in Events : BackoffElapses(f)
             \/ \E o \in Operators : ReplayRead(o) \/ ReplayAbandoned(o)
             \/ UNCHANGED vars
      PROVE  deadLetters' = deadLetters
  BY <1>6 DEF Submit, BackoffElapses, ReplayRead, ReplayAbandoned, vars
<1>7. CASE /\ Len(deadLetters') = Len(deadLetters)
           /\ \A k \in 1 .. Len(deadLetters) : deadLetters'[k].event = deadLetters[k].event
  BY <1>1, <1>7
<1>8. ASSUME NEW d \in Dispatchers, NEW e \in Events, Buries(d, e)
      PROVE  /\ Len(deadLetters') \in Nat
             /\ \A k \in 1 .. Len(deadLetters) :
                  k \in 1 .. Len(deadLetters') /\ deadLetters'[k].event = deadLetters[k].event
             /\ \A k \in 1 .. Len(deadLetters') :
                  \/ k \in 1 .. Len(deadLetters)
                  \/ /\ k = Len(deadLetters) + 1 /\ ~deadLetters'[k].replayed
                     /\ deadLetters'[k].event = e
  <2> DEFINE row == [event |-> e, replayed |-> FALSE]
  <2>1. row.event = e /\ ~row.replayed
    OBVIOUS
  <2>2. /\ Len(deadLetters') = Len(deadLetters) + 1 /\ deadLetters'[Len(deadLetters) + 1] = row
        /\ \A k \in 1 .. Len(deadLetters) : deadLetters'[k] = deadLetters[k]
    BY <1>3, <1>8
  <2> HIDE DEF row
  <2> QED
    BY <1>1, <2>1, <2>2
<1> QED
  BY <1>1, <1>2, <1>4, <1>5, <1>6, <1>7, <1>8 DEF Next, ReplayStep

\* A buried event stays FAILED and is not buried again.
LEMMA BurialStep ==
  ASSUME TypeOK, CacheFresh, SettledNotDelayed, BuriedFailed, BuriedOnce, [Next]_vars
  PROVE  BuriedFailed' /\ BuriedOnce'
<1>1. \A k \in 1 .. Len(deadLetters) :
        deadLetters[k].event \in Events /\ outbox[deadLetters[k].event].status = "FAILED"
  BY DEF BuriedFailed, TypeOK, TablesTyped
<1>2. ASSUME NEW d \in Dispatchers, NEW e \in Events, Buries(d, e)
      PROVE  outbox'[e].status = "FAILED" /\ outbox[e].status = "PENDING"
  <2>1. Current(d, e) /\ outbox'[e] = MarkFailed(outbox[e], batch[d][e])
    BY <1>2 DEF Buries
  <2> QED
    BY <2>1, WorkedOn, WrittenRows
<1>3. ASSUME NEW k \in 1 .. Len(deadLetters'), NEW e, e = deadLetters'[k].event
      PROVE  outbox'[e].status = "FAILED"
  <2>1. CASE k \in 1 .. Len(deadLetters)
    <3>1. e \in Events /\ outbox[e].status = "FAILED"
      BY <1>1, <1>3, <2>1, DeadLetterChange
    <3> QED
      BY <3>1, SettledRow DEF Untouched
  <2>2. CASE k \notin 1 .. Len(deadLetters)
    <3>1. e \in Events /\ \E d \in Dispatchers : Buries(d, e)
      BY <1>3, <2>2, DeadLetterChange
    <3> QED
      BY <1>2, <3>1
  <2> QED
    BY <2>1, <2>2
<1>4. BuriedFailed'
  BY <1>3 DEF BuriedFailed
<1>5. ASSUME NEW j \in 1 .. Len(deadLetters'), NEW k \in 1 .. Len(deadLetters'),
             deadLetters'[j].event = deadLetters'[k].event,
             j \in 1 .. Len(deadLetters), k \notin 1 .. Len(deadLetters)
      PROVE  FALSE
  <2>1. PICK e \in Events : e = deadLetters'[k].event /\ \E d \in Dispatchers : Buries(d, e)
    BY <1>5, DeadLetterChange
  <2>2. outbox[e].status = "PENDING"
    BY <1>2, <2>1
  <2>3. deadLetters[j].event = e
    BY <1>5, <2>1, DeadLetterChange
  <2> QED
    BY <1>1, <1>5, <2>2, <2>3
<1>6. ASSUME NEW j \in 1 .. Len(deadLetters'), NEW k \in 1 .. Len(deadLetters'),
             deadLetters'[j].event = deadLetters'[k].event
      PROVE  j = k
  <2>1. CASE j \in 1 .. Len(deadLetters) /\ k \in 1 .. Len(deadLetters)
    BY <1>6, <2>1, DeadLetterChange DEF BuriedOnce
  <2>2. CASE j \notin 1 .. Len(deadLetters) /\ k \notin 1 .. Len(deadLetters)
    BY <2>2, DeadLetterChange
  <2> QED
    BY <1>5, <1>6, <2>1, <2>2
<1>7. BuriedOnce'
  BY <1>6 DEF BuriedOnce
<1> QED
  BY <1>4, <1>7

\* The invariant of one dispatcher is kept by every step.
LEMMA SessionInductive ==
  ASSUME OneDispatcher
  PROVE  /\ Init => SessionInv
         /\ SessionInv /\ [Next]_vars => SessionInv'
<1>1. ASSUME Init PROVE SessionInv
  <2>1. Events = {} /\ \A d \in Dispatchers : DOMAIN batch[d] = {}
    BY <1>1 DEF Init, Events
  <2>2. CacheFresh /\ AttemptFresh /\ SettledNotDelayed /\ RetryAccounting
    BY <2>1 DEF CacheFresh, AttemptFresh, SettledNotDelayed, RetryAccounting
  <2>3. Len(deadLetters) = 0
    BY <1>1 DEF Init
  <2>4. BuriedFailed /\ BuriedOnce
    BY <2>3 DEF BuriedFailed, BuriedOnce
  <2> QED
    BY <1>1, <2>2, <2>4, DeliveryInductive DEF SessionInv
<1>2. ASSUME SessionInv, [Next]_vars PROVE SessionInv'
  <2>1. DeliveryInv'
    BY <1>2, DeliveryInductive DEF SessionInv
  <2>2. /\ TypeOK /\ CacheFresh /\ AttemptFresh /\ SettledNotDelayed /\ RetryAccounting
        /\ BuriedFailed /\ BuriedOnce
    BY <1>2 DEF SessionInv, DeliveryInv
  <2> QED
    BY <1>2, <2>1, <2>2, CacheStep, AccountingStep, AttemptStep, BurialStep DEF SessionInv
<1> QED
  BY <1>1, <1>2

\* With one dispatcher, the first invariant holds.
THEOREM SessionInvariant == OneDispatcher => (Spec => []SessionInv)
<1> SUFFICES ASSUME OneDispatcher PROVE Spec => []SessionInv
  OBVIOUS
<1>1. Init => SessionInv
  BY SessionInductive
<1>2. SessionInv /\ [Next]_vars => SessionInv'
  BY SessionInductive
<1> QED
  BY <1>1, <1>2, PTL DEF Spec

\* One dispatcher counts the attempts of every event right, whatever interruptions,
\* connections and replays do: numbers without gaps, failure_count, the verdict after max_attempts,
\* the backoff after a failure.
THEOREM RetriesCounted == OneDispatcher => (Spec => []RetryAccounting)
<1> SUFFICES ASSUME OneDispatcher PROVE Spec => []RetryAccounting
  OBVIOUS
<1>1. SessionInv => RetryAccounting
  BY DEF SessionInv
<1> QED
  BY <1>1, SessionInvariant, PTL

\* One dispatcher writes a settled row never again.
THEOREM SettledRowsFinal == OneDispatcher => (Spec => SettledForever)
<1> SUFFICES ASSUME OneDispatcher PROVE Spec => SettledForever
  OBVIOUS
<1>1. SessionInv /\ [Next]_vars =>
        [\A e \in Events : outbox[e].status # "PENDING" => outbox'[e] = outbox[e]]_vars
  BY SettledRow DEF SessionInv, DeliveryInv, Untouched
<1> QED
  BY <1>1, SessionInvariant, PTL DEF Spec, SettledForever

-----------------------------------------------------------------------------
(* What an interruption can cost one dispatcher                            *)

\* Only an interruption strands an event: the one the dispatcher was about to mark.
LEMMA StrandedChange ==
  ASSUME OneDispatcher, SessionInv, [Next]_vars, NEW e \in Stranded', e \notin Stranded
  PROVE  \E d \in Dispatchers : Interrupt(d) /\ Current(d, e)
<1>1. TypeOK /\ CacheFresh /\ SettledNotDelayed
  BY DEF SessionInv, DeliveryInv
<1>2. e \in Events' /\ Applied(e)' /\ outbox'[e].status # "PUBLISHED" /\ ~Marking(e)'
  BY DEF Stranded
<1>3. e \in Events
  BY <1>1, <1>2, BecomesApplied
<1>4. outbox[e].status # "PUBLISHED"
  <2>1. ASSUME outbox[e].status = "PUBLISHED" PROVE outbox'[e] = outbox[e]
    BY <1>1, <1>3, <2>1, SettledRow DEF Untouched
  <2> QED
    BY <1>2, <2>1
<1>5. CASE ~Applied(e)
  <2>1. PICK d \in Dispatchers : pc[d] = "handling" /\ Current(d, e) /\ HandlerCommits(d)
    BY <1>1, <1>2, <1>5, BecomesApplied
  <2>2. pc'[d] = "marking" /\ batch' = batch
    BY <1>1, <2>1 DEF HandlerCommits, Goto, TypeOK, ProcessesTyped
  <2> QED
    BY <1>2, <2>1, <2>2 DEF Marking, Current
<1>6. CASE Applied(e)
  <2>1. PICK d \in Dispatchers : pc[d] = "marking" /\ Current(d, e)
    BY <1>3, <1>4, <1>6 DEF Stranded, Marking
  <2>2. ~(pc'[d] = "marking" /\ batch'[d] = batch[d])
    BY <1>2, <2>1 DEF Marking, Current
  <2>3. ~PublishEvent(d)
    <3>1. ASSUME PublishEvent(d) PROVE FALSE
      <4>1. PICK f \in Events :
              /\ Current(d, f)
              /\ outbox' = [outbox EXCEPT ![f] = MarkPublished(@, batch[d][f])]
        BY <3>1 DEF PublishEvent
      <4>2. e = f
        BY <1>3, <2>1, <4>1 DEF Current, Events
      <4>3. outbox \in Seq(Row) /\ outbox[e] \in Row /\ batch[d][e] \in CachedRow
        BY <1>1, <1>3, <2>1, WorkedOn DEF TypeOK, TablesTyped
      <4>4. outbox'[e] = MarkPublished(outbox[e], batch[d][e])
        BY <1>3, <4>1, <4>2, <4>3 DEF Events
      <4> QED
        BY <1>2, <4>3, <4>4, WrittenRows
    <3> QED
      BY <3>1
  <2>4. ~\E c \in Dispatchers : c # d
    BY DEF OneDispatcher
  <2>5. CASE \/ \E type \in SeedTypes : Submit(type)
             \/ \E f \in Events : BackoffElapses(f)
             \/ \E o \in Operators : ReplayStep(o)
             \/ UNCHANGED vars
    BY <2>1, <2>2, <2>5 DEF Submit, BackoffElapses, ReplayStep, ReplayRead, ReplayCommit,
                            ReplayAbandoned, vars
  <2>6. CASE DispatcherStep(d)
    BY <2>1, <2>3, <2>6
    DEF DispatcherStep, Fetch, RejectUnsupported, ConnectionFails, SkipProcessed, StartHandler,
        HandlerRaises, HandlerCommits, FlushRefused, RecordFailure, ScheduleRetry, MoveToDeadLetter
  <2> QED
    BY <2>1, <2>4, <2>5, <2>6 DEF Next
<1> QED
  BY <1>5, <1>6

\* interruptions counts the batches that are cut off.
LEMMA InterruptCounted ==
  ASSUME TypeOK, [Next]_vars
  PROVE  /\ interruptions \in Nat /\ interruptions' \in Nat /\ interruptions' >= interruptions
         /\ \A d \in Dispatchers : Interrupt(d) => interruptions' = interruptions + 1
<1>1. interruptions \in Nat
  BY BoundsAssumption DEF TypeOK, ProcessesTyped
<1>2. \A d \in Dispatchers : Interrupt(d) => interruptions' = interruptions + 1
  BY DEF Interrupt
<1>3. interruptions' = interruptions \/ \E d \in Dispatchers : Interrupt(d)
  BY DEF Next, Submit, BackoffElapses, ReplayStep, ReplayRead, ReplayCommit, ReplayAbandoned,
         DispatcherStep, Fetch, RejectUnsupported, ConnectionFails, SkipProcessed, StartHandler,
         HandlerRaises, HandlerCommits, FlushRefused, PublishEvent, RecordFailure,
         ScheduleRetry, MoveToDeadLetter, vars
<1> QED
  BY <1>1, <1>2, <1>3

\* Sets of events are finite.
LEMMA EventSets ==
  ASSUME TypeOK, NEW S, S \subseteq Events
  PROVE  IsFiniteSet(S) /\ Cardinality(S) \in Nat
<1>1. Len(outbox) \in Nat
  BY DEF TypeOK, TablesTyped
<1>2. IsFiniteSet(Events)
  BY <1>1, FS_Interval DEF Events
<1> QED
  BY <1>2, FS_Subset, FS_CardinalityType

\* So there are no more stranded events than interruptions.
LEMMA StrandedStep ==
  ASSUME OneDispatcher, SessionInv, InterruptionsCounted, [Next]_vars
  PROVE  InterruptionsCounted'
<1>1. TypeOK /\ TypeOK'
  BY NextTyped DEF SessionInv, DeliveryInv
<1>2. /\ Stranded \subseteq Events /\ IsFiniteSet(Stranded) /\ Cardinality(Stranded) \in Nat
      /\ Cardinality(Stranded) <= interruptions
  BY <1>1, EventSets DEF Stranded, InterruptionsCounted
<1>3. /\ interruptions \in Nat /\ interruptions' \in Nat /\ interruptions' >= interruptions
      /\ \A d \in Dispatchers : Interrupt(d) => interruptions' = interruptions + 1
  BY <1>1, InterruptCounted
<1>4. CASE Stranded' \subseteq Stranded
  <2>1. Cardinality(Stranded') <= Cardinality(Stranded) /\ Cardinality(Stranded') \in Nat
    BY <1>2, <1>4, FS_Subset, FS_CardinalityType
  <2> QED
    BY <1>2, <1>3, <2>1 DEF InterruptionsCounted
<1>5. ASSUME NEW e \in Stranded', e \notin Stranded
      PROVE  Cardinality(Stranded') <= interruptions'
  <2>1. PICK d \in Dispatchers : Interrupt(d) /\ Current(d, e)
    BY <1>5, StrandedChange
  <2>2. ASSUME NEW f \in Stranded', f \notin Stranded PROVE f = e
    <3>1. Current(d, f)
      BY <2>2, StrandedChange DEF OneDispatcher
    <3> QED
      BY <1>1, <2>1, <3>1 DEF Current, Events, TypeOK, ProcessesTyped, BatchTyped
  <2>3. Stranded' \subseteq Stranded \cup {e}
    BY <2>2
  <2>4. /\ IsFiniteSet(Stranded \cup {e})
        /\ Cardinality(Stranded \cup {e}) = Cardinality(Stranded) + 1
    BY <1>2, <1>5, FS_AddElement
  <2>5. Cardinality(Stranded') <= Cardinality(Stranded) + 1 /\ Cardinality(Stranded') \in Nat
    BY <2>3, <2>4, FS_Subset, FS_CardinalityType
  <2> QED
    BY <1>2, <1>3, <2>1, <2>5
<1> QED
  BY <1>4, <1>5 DEF InterruptionsCounted

\* At first nothing is stranded.
LEMMA NothingStranded == Init => InterruptionsCounted
<1> SUFFICES ASSUME Init PROVE InterruptionsCounted
  OBVIOUS
<1>1. Stranded = {} /\ interruptions = 0
  BY DEF Init, Stranded, Events
<1> QED
  BY <1>1, FS_EmptySet DEF InterruptionsCounted

\* One dispatcher, whatever the look-ups of its handlers do: an applied event that is not
\* PUBLISHED, nor about to be, was stranded by an interruption of its own, a crash or a
\* missing connection after the commit of its handler.
THEOREM InterruptionsStrand == OneDispatcher => (Spec => []InterruptionsCounted)
<1> SUFFICES ASSUME OneDispatcher PROVE Spec => []InterruptionsCounted
  OBVIOUS
<1>1. Init => InterruptionsCounted
  BY NothingStranded
<1>2. SessionInv /\ InterruptionsCounted /\ [Next]_vars => InterruptionsCounted'
  BY StrandedStep
<1> QED
  BY <1>1, <1>2, SessionInvariant, PTL DEF Spec

-----------------------------------------------------------------------------
(* One reliable dispatcher                                                 *)

\* A handler starts, and a failure is recorded, for an event that is not applied.
LEMMA FailingStep ==
  ASSUME TypeOK, FailingNotApplied, Reliable, [Next]_vars
  PROVE  FailingNotApplied'
<1> SUFFICES ASSUME NEW d \in Dispatchers, NEW e \in DOMAIN batch'[d],
                    pc'[d] \in {"handling", "failing", "settling"}, Current(d, e)'
             PROVE  ~Applied(e)'
  BY DEF FailingNotApplied
<1>1. batch'[d] = batch[d] /\ inbox' = inbox
  BY StillWorking DEF Reliable
<1>2. e \in DOMAIN batch[d] /\ e \in Events /\ Current(d, e)
  BY <1>1 DEF TypeOK, ProcessesTyped, BatchTyped, Current
<1>3. Applied(e)' <=> Applied(e)
  BY <1>1, <1>2, NextTyped, AppliedKept
<1>4. \A f \in Events : Current(d, f) => f = e
  BY <1>2 DEF Current, Events, TypeOK, ProcessesTyped, BatchTyped
<1>5. CASE pc'[d] = pc[d]
  BY <1>2, <1>3, <1>5 DEF FailingNotApplied
<1>6. CASE RejectUnsupported(d)
  BY <1>3, <1>4, <1>6 DEF RejectUnsupported, Applied
<1>7. CASE StartHandler(d)
  BY <1>3, <1>4, <1>7 DEF StartHandler, Applied
<1>8. CASE HandlerRaises(d) \/ RecordFailure(d)
  <2>1. pc[d] \in {"handling", "failing"}
    BY <1>8 DEF HandlerRaises, RecordFailure
  <2> QED
    BY <1>2, <1>3, <2>1 DEF FailingNotApplied
<1>9. ~ConnectionFails(d)
  BY DEF Reliable, ConnectionFails
<1> QED
  BY <1>5, <1>6, <1>7, <1>8, <1>9, StillWorking DEF Reliable

\* What is buried has not been applied and is not applied later.
LEMMA CleanStep ==
  ASSUME ReliableInv, Reliable, BuriedFailed', [Next]_vars
  PROVE  DeadLettersNotApplied'
<1>1. /\ TypeOK /\ CacheFresh /\ FailingNotApplied /\ DeadLettersNotApplied
      /\ TypeOK' /\ Events \subseteq Events'
  <2>1. TypeOK /\ CacheFresh /\ FailingNotApplied /\ DeadLettersNotApplied
    BY DEF ReliableInv, SessionInv, DeliveryInv
  <2>2. TypeOK' /\ RowsKept
    BY <2>1, NextTyped
  <2>3. Len(outbox) \in Nat /\ Len(outbox') \in Nat
    BY <2>1, <2>2 DEF TypeOK, TablesTyped
  <2>4. Events \subseteq Events'
    BY <2>2, <2>3 DEF RowsKept, Events
  <2> QED
    BY <2>1, <2>2, <2>4
<1>2. ASSUME NEW e \in Events, outbox[e].status = "FAILED", ~Applied(e)
      PROVE  ~Applied(e)'
  <2>1. ~\E d \in Dispatchers : Current(d, e)
    BY <1>1, <1>2, WorkedOn
  <2>2. e \in Events'
    BY <1>1
  <2> QED
    BY <1>1, <1>2, <2>1, <2>2, BecomesApplied
<1>3. ASSUME NEW d \in Dispatchers, NEW e \in Events, Buries(d, e) PROVE ~Applied(e)'
  <2>1. pc[d] = "settling" /\ Current(d, e)
    BY <1>3 DEF Buries
  <2>2. ~\E c \in Dispatchers : pc[c] = "handling"
    BY <2>1 DEF Reliable, OneDispatcher
  <2>3. ~Applied(e) /\ e \in Events'
    BY <1>1, <2>1 DEF FailingNotApplied, Current
  <2> QED
    BY <1>1, <2>2, <2>3, BecomesApplied
<1>4. ASSUME NEW k \in 1 .. Len(deadLetters'), NEW e, e = deadLetters'[k].event
      PROVE  ~Applied(e)'
  <2>1. CASE k \in 1 .. Len(deadLetters)
    <3>1. e \in Events /\ outbox[e].status = "FAILED" /\ ~Applied(e)
      <4>1. deadLetters[k].event = e /\ deadLetters[k].event \in Events
        BY <1>1, <1>4, <2>1, DeadLetterChange DEF TypeOK, TablesTyped
      <4> QED
        BY <1>1, <2>1, <4>1 DEF DeadLettersNotApplied
    <3> QED
      BY <1>2, <3>1
  <2>2. CASE k \notin 1 .. Len(deadLetters)
    <3>1. e \in Events /\ \E d \in Dispatchers : Buries(d, e)
      BY <1>1, <1>4, <2>2, DeadLetterChange
    <3> QED
      BY <1>3, <3>1
  <2> QED
    BY <2>1, <2>2
<1> QED
  BY <1>4 DEF DeadLettersNotApplied, BuriedFailed, Applied, Registered, HasProcessed, InboxKey

\* So is that of one reliable dispatcher.
LEMMA ReliableInductive ==
  ASSUME Reliable
  PROVE  /\ Init => ReliableInv
         /\ ReliableInv /\ [Next]_vars => ReliableInv'
<1>1. OneDispatcher
  BY DEF Reliable
<1>2. ASSUME Init PROVE ReliableInv
  <2>1. Len(deadLetters) = 0 /\ \A d \in Dispatchers : DOMAIN batch[d] = {}
    BY <1>2 DEF Init
  <2>2. FailingNotApplied /\ DeadLettersNotApplied
    BY <2>1 DEF FailingNotApplied, DeadLettersNotApplied
  <2> QED
    BY <1>1, <1>2, <2>2, SessionInductive DEF ReliableInv
<1>3. ASSUME ReliableInv, [Next]_vars PROVE ReliableInv'
  <2>1. SessionInv'
    BY <1>1, <1>3, SessionInductive DEF ReliableInv
  <2>2. TypeOK /\ BuriedFailed'
    BY <1>3, <2>1 DEF ReliableInv, SessionInv, DeliveryInv
  <2> QED
    BY <1>3, <2>1, <2>2, FailingStep, CleanStep DEF ReliableInv
<1> QED
  BY <1>2, <1>3

\* With one dispatcher whose handlers get their connections, the second holds as well,
\* however many batches are cut off.
THEOREM ReliableInvariant == Reliable => (Spec => []ReliableInv)
<1> SUFFICES ASSUME Reliable PROVE Spec => []ReliableInv
  OBVIOUS
<1>1. Init => ReliableInv
  BY ReliableInductive
<1>2. ReliableInv /\ [Next]_vars => ReliableInv'
  BY ReliableInductive
<1> QED
  BY <1>1, <1>2, PTL DEF Spec

\* One dispatcher whose handlers get their connections buries only what has had no effect:
\* what it applied in a batch that was cut off is skipped when it is delivered again, and
\* a handler that fails has had no effect.
THEOREM DeadLettersClean == Reliable => (Spec => []DeadLettersNotApplied)
<1> SUFFICES ASSUME Reliable PROVE Spec => []DeadLettersNotApplied
  OBVIOUS
<1>1. ReliableInv => DeadLettersNotApplied
  BY DEF ReliableInv, SessionInv
<1> QED
  BY <1>1, ReliableInvariant, PTL

-----------------------------------------------------------------------------
(* One operator                                                            *)

\* What the commit of a replay does: one dead letter is marked, one event appears
\* that has the origin of the dead one.
ReplayEffect(o, k, f, n) ==
  /\ k = replaying[o] /\ k \in 1 .. Len(deadLetters) /\ f = deadLetters[k].event
  /\ Len(deadLetters') = Len(deadLetters)
  /\ deadLetters'[k].replayed /\ deadLetters'[k].event = f
  /\ \A j \in 1 .. Len(deadLetters) : j # k => deadLetters'[j] = deadLetters[j]
  /\ Events' = Events \cup {n} /\ \A e \in Events : e < n
  /\ \A e \in Events : outbox'[e] = outbox[e]
  /\ outbox'[n].origin = outbox[f].origin /\ outbox'[n].status = "PENDING"
  /\ replaying' = [replaying EXCEPT ![o] = 0] /\ inbox' = inbox

\* Replaying one dead letter marks it and adds one pending copy of its event.
LEMMA Replaying ==
  ASSUME TypeOK, NEW o \in Operators, ReplayCommit(o)
  PROVE  \E k \in Nat, f \in Events, n \in Nat : ReplayEffect(o, k, f, n)
<1> DEFINE k == replaying[o]
           f == deadLetters[k].event
           n == Len(outbox) + 1
           row == NewRow(outbox[f].type, outbox[f].cause, outbox[f].origin)
           marked == MarkReplayed(deadLetters[k])
<1>1. k \in 1 .. Len(deadLetters) /\ f \in Events /\ InsertRow(row) /\ row \in Row
  BY Inserting
<1>2. /\ deadLetters' = [deadLetters EXCEPT ![k] = marked]
      /\ replaying' = [replaying EXCEPT ![o] = 0] /\ inbox' = inbox
  BY DEF ReplayCommit
<1>3. deadLetters \in Seq(DeadLetterRow) /\ n \in Nat /\ Events = 1 .. Len(outbox)
  BY DEF TypeOK, TablesTyped, Events
<1>4. deadLetters[k] \in DeadLetterRow
  BY <1>1, <1>3
<1>5. marked \in DeadLetterRow /\ marked.event = f /\ marked.replayed
  BY <1>4 DEF MarkReplayed, DeadLetterRow
<1>6. row.origin = outbox[f].origin /\ row.status = "PENDING"
  BY DEF NewRow
<1>7. k \in Nat /\ \A e \in Events : e < n
  BY <1>1, <1>3 DEF TypeOK, TablesTyped
<1> HIDE DEF marked, row, f, k
<1>8. /\ Len(deadLetters') = Len(deadLetters) /\ deadLetters'[k] = marked
      /\ \A j \in 1 .. Len(deadLetters) : j # k => deadLetters'[j] = deadLetters[j]
  BY <1>1, <1>2, <1>3, <1>5, UpdateRow
<1>9. /\ Events' = Events \cup {n} /\ outbox'[n] = row
      /\ \A e \in Events : outbox'[e] = outbox[e]
  BY <1>1, <1>3, Inserted
<1>10. ReplayEffect(o, k, f, n)
  BY <1>1, <1>2, <1>5, <1>6, <1>7, <1>8, <1>9 DEF ReplayEffect, k, f
<1> QED
  BY <1>1, <1>3, <1>7, <1>10

\* No other step marks a dead letter.
LEMMA MarksKept ==
  ASSUME TypeOK, [Next]_vars, ~\E o \in Operators : ReplayCommit(o)
  PROVE  \A k \in 1 .. Len(deadLetters) : deadLetters'[k] = deadLetters[k]
<1>1. ASSUME NEW d \in Dispatchers, MoveToDeadLetter(d)
      PROVE  \A k \in 1 .. Len(deadLetters) : deadLetters'[k] = deadLetters[k]
  BY <1>1, BuriedTyped DEF MoveToDeadLetter
<1>2. ASSUME NEW d \in Dispatchers, DispatcherStep(d) \/ Interrupt(d), ~MoveToDeadLetter(d)
      PROVE  deadLetters' = deadLetters
  BY <1>2 DEF DispatcherStep, Fetch, RejectUnsupported, ConnectionFails, SkipProcessed,
              StartHandler, HandlerRaises, HandlerCommits, RecordFailure, FlushRefused,
              Interrupt, Abandon, PublishEvent, ScheduleRetry
<1> QED
  BY <1>1, <1>2 DEF Next, Submit, BackoffElapses, ReplayStep, ReplayRead, ReplayAbandoned, vars

\* The dead letter the operator has loaded is still to be replayed.
LEMMA LoadedStep ==
  ASSUME TypeOK, LoadedFresh, OneOperator, [Next]_vars
  PROVE  LoadedFresh'
<1> SUFFICES ASSUME NEW o \in Operators, replaying'[o] # 0
             PROVE  ~deadLetters'[replaying'[o]].replayed
  BY DEF LoadedFresh
<1>1. replaying \in [Operators -> 0 .. Len(deadLetters)] /\ Len(deadLetters) \in Nat
  BY DEF TypeOK, ProcessesTyped, TablesTyped
<1>2. ~\E p \in Operators : ReplayCommit(p)
  BY <1>1 DEF ReplayCommit, OneOperator
<1>3. \A k \in 1 .. Len(deadLetters) : deadLetters'[k] = deadLetters[k]
  BY <1>2, MarksKept
<1>4. CASE ReplayRead(o)
  <2>1. PICK k \in 1 .. Len(deadLetters) :
          ~deadLetters[k].replayed /\ replaying' = [replaying EXCEPT ![o] = k]
    BY <1>4 DEF ReplayRead
  <2> QED
    BY <1>1, <1>3, <2>1
<1>5. CASE replaying'[o] = replaying[o]
  BY <1>1, <1>3, <1>5 DEF LoadedFresh
<1>6. ~ReplayAbandoned(o)
  BY <1>1 DEF ReplayAbandoned
<1>7. ASSUME NEW d \in Dispatchers, DispatcherStep(d) \/ Interrupt(d)
      PROVE  replaying' = replaying
  BY <1>7 DEF DispatcherStep, Fetch, RejectUnsupported, ConnectionFails, SkipProcessed,
              StartHandler, HandlerRaises, HandlerCommits, RecordFailure, FlushRefused,
              Interrupt, Abandon, PublishEvent, ScheduleRetry, MoveToDeadLetter
<1> QED
  BY <1>2, <1>4, <1>5, <1>6, <1>7
  DEF Next, Submit, BackoffElapses, ReplayStep, vars, OneOperator

\* A copy is later than the event it copies.
LEMMA OriginsStep ==
  ASSUME TypeOK, OriginsEarlier, [Next]_vars
  PROVE  OriginsEarlier'
<1> SUFFICES ASSUME NEW e \in Events' PROVE outbox'[e].origin \in 1 .. e
  BY DEF OriginsEarlier
<1>1. Events = 1 .. Len(outbox) /\ Events' = 1 .. Len(outbox') /\ RowsKept
      /\ Len(outbox) \in Nat /\ Len(outbox') \in Nat
  BY NextTyped DEF Events, TypeOK, TablesTyped
<1>2. CASE e \in Events
  BY <1>1, <1>2 DEF RowsKept, OriginsEarlier
<1>3. CASE e \notin Events /\ outbox'[e].origin = e
  BY <1>1, <1>3
<1>4. ASSUME e \notin Events, NEW o \in Operators, ReplayCommit(o)
      PROVE  outbox'[e].origin \in 1 .. e
  <2>1. PICK k \in Nat, f \in Events, n \in Nat : ReplayEffect(o, k, f, n)
    BY <1>4, Replaying
  <2>2. e = n /\ f < n
    BY <1>4, <2>1 DEF ReplayEffect
  <2>3. outbox'[e].origin \in 1 .. f
    BY <2>1, <2>2 DEF ReplayEffect, OriginsEarlier
  <2> QED
    BY <1>1, <2>2, <2>3
<1> QED
  BY <1>2, <1>3, <1>4, NewRowFresh

\* The sets that are counted are finite, and empty for what is not an event.
LEMMA CountedSets ==
  ASSUME TypeOK, OriginsEarlier, NEW o
  PROVE  /\ IsFiniteSet(CopiesOf(o)) /\ IsFiniteSet(ReplayedOf(o))
         /\ o \notin Events => CopiesOf(o) = {} /\ ReplayedOf(o) = {}
<1>1. Len(outbox) \in Nat /\ Len(deadLetters) \in Nat /\ Events = 1 .. Len(outbox)
      /\ \A k \in 1 .. Len(deadLetters) : deadLetters[k].event \in Events
  BY DEF TypeOK, TablesTyped, Events
<1>2. IsFiniteSet(1 .. Len(outbox)) /\ IsFiniteSet(1 .. Len(deadLetters))
  BY <1>1, FS_Interval
<1>3. CopiesOf(o) \in SUBSET (1 .. Len(outbox)) /\ ReplayedOf(o) \in SUBSET (1 .. Len(deadLetters))
  BY <1>1 DEF CopiesOf, Copies, ReplayedOf
<1>4. \A e \in Events : outbox[e].origin \in Events
  BY <1>1 DEF OriginsEarlier
<1> QED
  BY <1>1, <1>2, <1>3, <1>4, FS_Subset DEF CopiesOf, Copies, ReplayedOf

\* Two sets of the same size are so with one more element each.
LEMMA BothGrow ==
  ASSUME NEW S, NEW T, IsFiniteSet(S), IsFiniteSet(T), Cardinality(S) = Cardinality(T),
         NEW x, x \notin S, NEW y, y \notin T
  PROVE  Cardinality(S \cup {x}) = Cardinality(T \cup {y})
  BY FS_AddElement

\* Each replay makes one copy and marks one dead letter, of the same origin.
LEMMA ReplayedStep ==
  ASSUME ReplayInv, [Next]_vars
  PROVE  ReplayedOnce'
<1>1. /\ TypeOK /\ OriginsEarlier /\ LoadedFresh /\ TypeOK' /\ RowsKept
      /\ Events = 1 .. Len(outbox) /\ Events' = 1 .. Len(outbox')
      /\ Len(outbox) \in Nat /\ Len(outbox') \in Nat
      /\ \A k \in 1 .. Len(deadLetters) : deadLetters[k].event \in Events
  <2>1. TypeOK /\ OriginsEarlier /\ LoadedFresh
    BY DEF ReplayInv
  <2>2. TypeOK' /\ RowsKept
    BY <2>1, NextTyped
  <2> QED
    BY <2>1, <2>2 DEF TypeOK, TablesTyped, Events
<1>2. \A o : IsFiniteSet(CopiesOf(o)) /\ IsFiniteSet(ReplayedOf(o))
  BY <1>1, CountedSets
<1>3. ASSUME NEW o PROVE Cardinality(CopiesOf(o)) = Cardinality(ReplayedOf(o))
  <2>1. CASE o \in Events
    BY <2>1 DEF ReplayInv, ReplayedOnce, CopiesOf, ReplayedOf
  <2>2. CASE o \notin Events
    BY <1>1, <2>2, CountedSets
  <2> QED
    BY <2>1, <2>2
<1>4. ASSUME NEW o \in Events' PROVE Cardinality(CopiesOf(o)') = Cardinality(ReplayedOf(o)')
  <2>1. CASE ~\E p \in Operators : ReplayCommit(p)
    <3>1. \A e \in Events' \ Events : outbox'[e].origin = e
      BY <1>1, <2>1, NewRowFresh
    <3>2. CopiesOf(o)' = CopiesOf(o)
      BY <1>1, <3>1 DEF CopiesOf, Copies, RowsKept
    <3>3. \A k \in 1 .. Len(deadLetters) : deadLetters'[k] = deadLetters[k]
      BY <1>1, <2>1, MarksKept
    <3>4. \A k \in 1 .. Len(deadLetters') :
            k \in 1 .. Len(deadLetters) \/ ~deadLetters'[k].replayed
      BY <1>1, DeadLetterChange
    <3>5. \A k \in 1 .. Len(deadLetters) : k \in 1 .. Len(deadLetters')
      BY <1>1, DeadLetterChange
    <3>6. ReplayedOf(o)' = ReplayedOf(o)
      BY <1>1, <3>3, <3>4, <3>5 DEF ReplayedOf, RowsKept
    <3> QED
      BY <1>3, <3>2, <3>6
  <2>2. ASSUME NEW p \in Operators, ReplayCommit(p)
        PROVE  Cardinality(CopiesOf(o)') = Cardinality(ReplayedOf(o)')
    <3>1. PICK k \in Nat, f \in Events, n \in Nat : ReplayEffect(p, k, f, n)
      BY <1>1, <2>2, Replaying
    <3>2. ~deadLetters[k].replayed
      <4>1. k # 0 /\ k = replaying[p]
        BY <1>1, <3>1 DEF ReplayEffect
      <4> QED
        BY <1>1, <4>1 DEF LoadedFresh
    <3>3. n \notin Events
      BY <3>1 DEF ReplayEffect
    <3>4. outbox'[n].origin = outbox[f].origin /\ outbox[f].origin # n
      <4>1. outbox[f].origin \in 1 .. f /\ f < n
        BY <1>1, <3>1 DEF OriginsEarlier, ReplayEffect
      <4> QED
        BY <1>1, <3>1, <4>1 DEF ReplayEffect
    <3>5. /\ Len(deadLetters') = Len(deadLetters) /\ k \in 1 .. Len(deadLetters)
          /\ deadLetters'[k].replayed /\ outbox[deadLetters[k].event].origin = outbox[f].origin
          /\ \A j \in 1 .. Len(deadLetters) :
               /\ outbox'[deadLetters'[j].event].origin = outbox[deadLetters[j].event].origin
               /\ j # k => deadLetters'[j].replayed = deadLetters[j].replayed
      <4>1. ASSUME NEW j \in 1 .. Len(deadLetters)
            PROVE  deadLetters'[j].event = deadLetters[j].event
        BY <3>1, <4>1 DEF ReplayEffect
      <4> QED
        BY <1>1, <3>1, <4>1 DEF ReplayEffect
    <3>6. CASE o = outbox[f].origin
      <4>1. CopiesOf(o)' = CopiesOf(o) \cup {n}
        BY <3>1, <3>4, <3>6 DEF CopiesOf, Copies, ReplayEffect
      <4>2. ReplayedOf(o)' = ReplayedOf(o) \cup {k}
        BY <3>6, <3>5 DEF ReplayedOf
      <4>3. n \notin CopiesOf(o) /\ k \notin ReplayedOf(o)
        BY <3>2, <3>3 DEF CopiesOf, Copies, ReplayedOf
      <4> QED
        BY <1>2, <1>3, <4>1, <4>2, <4>3, BothGrow
    <3>7. CASE o # outbox[f].origin
      <4>1. CopiesOf(o)' = CopiesOf(o)
        BY <3>1, <3>4, <3>7 DEF CopiesOf, Copies, ReplayEffect
      <4>2. ReplayedOf(o)' = ReplayedOf(o)
        BY <3>2, <3>7, <3>5 DEF ReplayedOf
      <4> QED
        BY <1>3, <4>1, <4>2
    <3> QED
      BY <3>6, <3>7
  <2> QED
    BY <2>1, <2>2
<1> QED
  BY <1>4 DEF ReplayedOnce, CopiesOf, ReplayedOf

\* One operator and any dispatchers: the invariant of the replay is inductive.
LEMMA ReplayInductive ==
  ASSUME OneOperator
  PROVE  /\ Init => ReplayInv
         /\ ReplayInv /\ [Next]_vars => ReplayInv'
<1>1. ASSUME Init PROVE ReplayInv
  <2>1. Events = {} /\ replaying = [o \in Operators |-> 0]
    BY <1>1 DEF Init, Events
  <2> QED
    BY <1>1, <2>1, InitTyped DEF ReplayInv, OriginsEarlier, LoadedFresh, ReplayedOnce
<1>2. ASSUME ReplayInv, [Next]_vars PROVE ReplayInv'
  <2>1. TypeOK /\ OriginsEarlier /\ LoadedFresh
    BY <1>2 DEF ReplayInv
  <2> QED
    BY <1>2, <2>1, NextTyped, OriginsStep, LoadedStep, ReplayedStep DEF ReplayInv
<1> QED
  BY <1>1, <1>2

\* With one operator, whatever the dispatchers do, there are as many copies of an
\* event as dead letters of it were marked: none is replayed twice.
THEOREM ReplaysCounted == OneOperator => (Spec => []ReplayedOnce)
<1> SUFFICES ASSUME OneOperator PROVE Spec => []ReplayedOnce
  OBVIOUS
<1>1. Init => ReplayInv
  BY ReplayInductive
<1>2. ReplayInv /\ [Next]_vars => ReplayInv'
  BY ReplayInductive
<1>3. ReplayInv => ReplayedOnce
  BY DEF ReplayInv
<1> QED
  BY <1>1, <1>2, <1>3, PTL DEF Spec

-----------------------------------------------------------------------------
(* One dispatcher and one operator                                         *)

\* What was replayed is done with; an event of which nothing was replayed is open.
LEMMA SpentDead ==
  ASSUME ReliableInv, NEW e \in Events, Spent(e)
  PROVE  ~Applied(e) /\ outbox[e].status = "FAILED"
  BY DEF ReliableInv, SessionInv, DeadLettersNotApplied, Spent, DeadLettersOf

\* No step but a replay spends an event.
LEMMA SpentKept ==
  ASSUME TypeOK, [Next]_vars, ~\E o \in Operators : ReplayCommit(o), NEW e
  PROVE  Spent(e)' <=> Spent(e)
<1>1. /\ Len(deadLetters) \in Nat /\ Len(deadLetters') \in Nat
      /\ \A k \in 1 .. Len(deadLetters) : k \in 1 .. Len(deadLetters')
      /\ \A k \in 1 .. Len(deadLetters') : k \in 1 .. Len(deadLetters) \/ ~deadLetters'[k].replayed
  BY DeadLetterChange
<1>2. \A k \in 1 .. Len(deadLetters) : deadLetters'[k] = deadLetters[k]
  BY MarksKept
<1> QED
  BY <1>1, <1>2 DEF Spent, DeadLettersOf

\* What has no row has no dead letter.
LEMMA SpentEvents ==
  ASSUME TypeOK, NEW e, Spent(e)
  PROVE  e \in Events
  BY DEF TypeOK, TablesTyped, Spent, DeadLettersOf

\* A replay spends the event it copies and no other; the copy is not spent.
LEMMA ReplaySpends ==
  ASSUME TypeOK, BuriedOnce, LoadedFresh, NEW o \in Operators, ReplayCommit(o)
  PROVE  \E f \in Events, n \in Nat :
           /\ ~Spent(f) /\ Spent(f)' /\ ~Spent(n)' /\ n \notin Events
           /\ \A e \in Events : e # f => (Spent(e)' <=> Spent(e))
           /\ \A e \in Events : e < n /\ outbox'[e] = outbox[e]
           /\ Events' = Events \cup {n}
           /\ outbox'[n].origin = outbox[f].origin /\ outbox'[n].status = "PENDING"
           /\ DeadLettersOf(f) # {} /\ inbox' = inbox
<1>1. PICK k \in Nat, f \in Events, n \in Nat : ReplayEffect(o, k, f, n)
  BY Replaying
<1>2. ~deadLetters[k].replayed
  <2>1. k # 0 /\ k = replaying[o]
    BY <1>1 DEF ReplayEffect
  <2> QED
    BY <2>1 DEF LoadedFresh
<1>3. /\ k \in 1 .. Len(deadLetters) /\ Len(deadLetters') = Len(deadLetters)
      /\ deadLetters[k].event = f /\ deadLetters'[k].event = f /\ deadLetters'[k].replayed
      /\ \A j \in 1 .. Len(deadLetters) : j # k => deadLetters'[j] = deadLetters[j]
  BY <1>1 DEF ReplayEffect
<1>4. \A j \in 1 .. Len(deadLetters) : deadLetters[j].event = f => j = k
  BY <1>3 DEF BuriedOnce
<1>5. n \notin Events
  BY <1>1 DEF ReplayEffect
<1>6. ~Spent(f) /\ Spent(f)'
  BY <1>2, <1>3, <1>4 DEF Spent, DeadLettersOf
<1>7. ASSUME NEW e, e # f PROVE Spent(e)' <=> Spent(e)
  BY <1>3, <1>7 DEF Spent, DeadLettersOf
<1>8. ~Spent(n)'
  BY <1>5, <1>7, SpentEvents
<1>9. DeadLettersOf(f) # {}
  BY <1>3 DEF DeadLettersOf
<1> QED
  BY <1>1, <1>5, <1>6, <1>7, <1>8, <1>9 DEF ReplayEffect

\* Of every event and its copies exactly one stays open.
LEMMA UnspentStep ==
  ASSUME TypeOK, BuriedOnce, OriginsEarlier, LoadedFresh, OneUnspent, [Next]_vars
  PROVE  OneUnspent'
<1>1. /\ TypeOK /\ RowsKept /\ Events = 1 .. Len(outbox) /\ Events' = 1 .. Len(outbox')
      /\ Len(outbox) \in Nat /\ Len(outbox') \in Nat /\ Events \subseteq Events'
  BY NextTyped DEF TypeOK, TablesTyped, Events, RowsKept
<1>2. /\ \A e, f \in Events :
           outbox[e].origin = outbox[f].origin /\ ~Spent(e) /\ ~Spent(f) => e = f
      /\ \A e \in Events : \E f \in Events : outbox[f].origin = outbox[e].origin /\ ~Spent(f)
      /\ \A e \in Events : outbox[e].origin \in 1 .. e
  BY DEF OneUnspent, OriginsEarlier
<1>3. ASSUME NEW e \in Events', NEW f \in Events',
             outbox'[e].origin = outbox'[f].origin, ~Spent(e)', ~Spent(f)'
      PROVE  e = f
  <2>1. CASE ~\E o \in Operators : ReplayCommit(o)
    <3>1. \A g \in Events' \ Events : outbox'[g].origin = g
      BY <1>1, <2>1, NewRowFresh
    <3>2. ASSUME NEW g \in Events, NEW h \in Events' \ Events
          PROVE  outbox'[g].origin # outbox'[h].origin
      BY <1>1, <1>2, <3>1, <3>2 DEF RowsKept
    <3>3. CASE e \in Events /\ f \in Events
      <4>1. ~Spent(e) /\ ~Spent(f)
        BY <1>1, <1>3, <2>1, SpentKept
      <4> QED
        BY <1>1, <1>2, <1>3, <3>3, <4>1 DEF RowsKept
    <3>4. CASE e \notin Events /\ f \notin Events
      BY <1>3, <3>1, <3>4
    <3> QED
      BY <1>3, <3>2, <3>3, <3>4
  <2>2. ASSUME NEW o \in Operators, ReplayCommit(o) PROVE e = f
    <3>1. PICK g \in Events, n \in Nat :
           /\ ~Spent(g) /\ Spent(g)' /\ n \notin Events
           /\ \A h \in Events : h # g => (Spent(h)' <=> Spent(h))
           /\ \A h \in Events : outbox'[h] = outbox[h]
           /\ Events' = Events \cup {n} /\ outbox'[n].origin = outbox[g].origin
      BY <2>2, ReplaySpends
    <3>2. ASSUME NEW h \in Events, ~Spent(h)' PROVE ~Spent(h) /\ outbox[h].origin # outbox[g].origin
      BY <1>2, <3>1, <3>2
    <3>3. CASE e \in Events /\ f \in Events
      BY <1>2, <1>3, <3>1, <3>2, <3>3
    <3>4. CASE e \in Events /\ f = n
      BY <1>3, <3>1, <3>2, <3>4
    <3>5. CASE e = n /\ f \in Events
      BY <1>3, <3>1, <3>2, <3>5
    <3> QED
      BY <3>1, <3>3, <3>4, <3>5
  <2> QED
    BY <2>1, <2>2
<1>4. ASSUME NEW e \in Events'
      PROVE  \E f \in Events' : outbox'[f].origin = outbox'[e].origin /\ ~Spent(f)'
  <2>1. CASE ~\E o \in Operators : ReplayCommit(o)
    <3>1. CASE e \in Events
      <4>1. PICK f \in Events : outbox[f].origin = outbox[e].origin /\ ~Spent(f)
        BY <1>2, <3>1
      <4>2. ~Spent(f)'
        BY <1>1, <2>1, <4>1, SpentKept
      <4> QED
        BY <1>1, <3>1, <4>1, <4>2 DEF RowsKept
    <3>2. CASE e \notin Events
      <4>1. ~Spent(e)
        BY <1>1, <3>2, SpentEvents
      <4> QED
        BY <1>1, <2>1, <4>1, SpentKept
    <3> QED
      BY <3>1, <3>2
  <2>2. ASSUME NEW o \in Operators, ReplayCommit(o)
        PROVE  \E f \in Events' : outbox'[f].origin = outbox'[e].origin /\ ~Spent(f)'
    <3>1. PICK g \in Events, n \in Nat :
           /\ ~Spent(n)'
           /\ \A h \in Events : h # g => (Spent(h)' <=> Spent(h))
           /\ \A h \in Events : outbox'[h] = outbox[h]
           /\ Events' = Events \cup {n} /\ outbox'[n].origin = outbox[g].origin
      BY <2>2, ReplaySpends
    <3>2. CASE outbox'[e].origin = outbox[g].origin
      BY <3>1, <3>2
    <3>3. CASE outbox'[e].origin # outbox[g].origin
      <4>1. e \in Events
        BY <3>1, <3>3
      <4>2. PICK f \in Events : outbox[f].origin = outbox[e].origin /\ ~Spent(f)
        BY <1>2, <4>1
      <4>3. f # g
        BY <3>1, <3>3, <4>1, <4>2
      <4> QED
        BY <3>1, <4>1, <4>2, <4>3
    <3> QED
      BY <3>2, <3>3
  <2> QED
    BY <2>1, <2>2
<1> QED
  BY <1>3, <1>4 DEF OneUnspent, Spent, DeadLettersOf

\* The invariants of one operator beside one dispatcher are inductive.
LEMMA CopyInductive ==
  ASSUME OneDispatcher, OneOperator
  PROVE  /\ Init => CopyInv
         /\ CopyInv /\ [Next]_vars => CopyInv'
<1>1. ASSUME Init PROVE CopyInv
  <2>1. Events = {} /\ replaying = [o \in Operators |-> 0]
    BY <1>1 DEF Init, Events
  <2> QED
    BY <1>1, <2>1, SessionInductive DEF CopyInv, OriginsEarlier, LoadedFresh, OneUnspent
<1>2. ASSUME CopyInv, [Next]_vars PROVE CopyInv'
  <2>1. SessionInv /\ OriginsEarlier /\ LoadedFresh /\ OneUnspent /\ TypeOK /\ BuriedOnce
    BY <1>2 DEF CopyInv, SessionInv, DeliveryInv
  <2> QED
    BY <1>2, <2>1, SessionInductive, OriginsStep, LoadedStep, UnspentStep DEF CopyInv
<1> QED
  BY <1>1, <1>2

LEMMA FactInductive ==
  ASSUME Reliable, OneOperator
  PROVE  /\ Init => FactInv
         /\ FactInv /\ [Next]_vars => FactInv'
  BY ReliableInductive, CopyInductive DEF FactInv, Reliable

\* With one reliable dispatcher and one operator, that invariant holds.
THEOREM FactInvariant == Reliable /\ OneOperator => (Spec => []FactInv)
<1> SUFFICES ASSUME Reliable, OneOperator PROVE Spec => []FactInv
  OBVIOUS
<1>1. Init => FactInv
  BY FactInductive
<1>2. FactInv /\ [Next]_vars => FactInv'
  BY FactInductive
<1> QED
  BY <1>1, <1>2, PTL DEF Spec

\* One reliable dispatcher and one operator: however often its dead letters are
\* replayed, a fact is applied through at most one of its events.
THEOREM FactsAppliedOnce == Reliable /\ OneOperator => (Spec => []FactAppliedOnce)
<1> SUFFICES ASSUME Reliable, OneOperator PROVE Spec => []FactAppliedOnce
  OBVIOUS
<1>1. FactInv => FactAppliedOnce
  <2>1. ASSUME FactInv, NEW e \in Events, Applied(e) PROVE ~Spent(e)
    BY <2>1, SpentDead DEF FactInv
  <2> QED
    BY <2>1 DEF FactInv, CopyInv, OneUnspent, FactAppliedOnce
<1> QED
  BY <1>1, FactInvariant, PTL

\* Without replays every event is a fact of its own.
LEMMA NoCopies == Operators = {} => (Spec => [](TypeOK /\ \A e \in Events : outbox[e].origin = e))
<1> SUFFICES ASSUME Operators = {}
             PROVE  Spec => [](TypeOK /\ \A e \in Events : outbox[e].origin = e)
  OBVIOUS
<1> DEFINE Own == \A e \in Events : outbox[e].origin = e
<1>1. Init => Own
  BY DEF Init, Events
<1>2. ASSUME TypeOK, Own, [Next]_vars PROVE Own'
  <2> SUFFICES ASSUME NEW e \in Events' PROVE outbox'[e].origin = e
    OBVIOUS
  <2>1. CASE e \in Events
    BY <1>2, <2>1, NextTyped DEF RowsKept
  <2>2. CASE e \notin Events
    BY <1>2, <2>2, NewRowFresh
  <2> QED
    BY <2>1, <2>2
<1> QED
  BY <1>1, <1>2, TypeCorrect, PTL DEF Spec

\* Nobody replays, or one operator does beside one reliable dispatcher: a fact is
\* applied once.  Without replays that needs nothing of the dispatchers: there may be
\* any number, and their connections may fail.
THEOREM SafeReplaysApplyOnce == SafeReplays => (Spec => []FactAppliedOnce)
<1>1. CASE Operators = {}
  <2>1. TypeOK /\ (\A e \in Events : outbox[e].origin = e) => FactAppliedOnce
    BY DEF FactAppliedOnce
  <2> QED
    BY <1>1, <2>1, NoCopies, PTL
<1>2. CASE Reliable /\ OneOperator
  BY <1>2, FactsAppliedOnce
<1> QED
  BY <1>1, <1>2 DEF SafeReplays

-----------------------------------------------------------------------------
(* The refinement of EventLifecycle                                        *)

\* Where an event stands.
LifeOf(e) ==
  IF Applied(e)
    THEN IF outbox[e].status = "PENDING" THEN "applied" ELSE "published"
    ELSE IF outbox[e].status = "PENDING" THEN "waiting" ELSE "dead"

\* A fact is where the open one of its events is, and absent if it has no event.
StageTable ==
  /\ \A e \in Events : ~Spent(e) => Stage(outbox[e].origin) = LifeOf(e)
  /\ \A o \in Nat : (\A e \in Events : outbox[e].origin # o) => Stage(o) = "absent"

\* The refinement mapping agrees with the table of stages.
LEMMA StageMeans == FactInv => StageTable
<1> SUFFICES ASSUME FactInv PROVE StageTable
  OBVIOUS
<1>1. ReliableInv /\ OneUnspent /\ NothingLost /\ DeadLettersNotApplied
  BY DEF FactInv, CopyInv, ReliableInv, SessionInv, DeliveryInv
<1>2. ASSUME NEW e \in Events, ~Spent(e) PROVE Stage(outbox[e].origin) = LifeOf(e)
  <2> DEFINE o == outbox[e].origin
             copies == {f \in Events : outbox[f].origin = o}
             applied == {f \in copies : Applied(f)}
  <2>1. \A f \in copies : ~Spent(f) => f = e
    BY <1>1, <1>2 DEF OneUnspent
  <2>2. e \in copies /\ applied = IF Applied(e) THEN {e} ELSE {}
    <3>1. \A f \in applied : ~Spent(f)
      BY <1>1, SpentDead
    <3> QED
      BY <2>1, <3>1
  <2>3. (\E f \in copies : outbox[f].status = "PENDING") <=> outbox[e].status = "PENDING"
    <3>1. \A f \in copies : outbox[f].status = "PENDING" => ~Spent(f)
      BY <1>1, SpentDead
    <3> QED
      BY <2>1, <2>2, <3>1
  <2>4. Applied(e) => outbox[e].status \in {"PENDING", "PUBLISHED"}
    <3>1. Applied(e) => outbox[e].status # "FAILED"
      BY <1>1 DEF NothingLost, DeadLettersNotApplied, DeadLettersOf
    <3>2. outbox[e] \in Row
      <4>1. outbox \in Seq(Row) /\ e \in 1 .. Len(outbox)
        BY <1>1 DEF ReliableInv, SessionInv, DeliveryInv, TypeOK, TablesTyped, Events
      <4> QED
        BY <4>1
    <3> QED
      BY <3>1, <3>2 DEF Row, Statuses
  <2>5. Cardinality({e}) = 1 /\ Cardinality({}) = 0
    BY FS_Singleton, FS_EmptySet
  <2>6. CASE Applied(e)
    <3>1. applied = {e} /\ copies # {} /\ Cardinality(applied) = 1 /\ applied # {}
      BY <2>2, <2>5, <2>6
    <3>2. /\ (\E f \in applied : outbox[f].status = "PENDING") <=> outbox[e].status = "PENDING"
          /\ (\E f \in applied : outbox[f].status = "PUBLISHED") <=> outbox[e].status = "PUBLISHED"
      BY <3>1
    <3> HIDE DEF applied, copies
    <3>3. Stage(o) = LifeOf(e)
      <4>1. CASE outbox[e].status = "PENDING"
        BY <2>6, <3>1, <3>2, <4>1 DEF Stage, LifeOf, applied, copies
      <4>2. CASE outbox[e].status = "PUBLISHED"
        BY <2>6, <3>1, <3>2, <4>2 DEF Stage, LifeOf, applied, copies
      <4> QED
        BY <2>4, <2>6, <4>1, <4>2
    <3> QED
      BY <3>3
  <2>7. CASE ~Applied(e)
    <3>1. applied = {} /\ copies # {} /\ Cardinality(applied) = 0
      BY <2>2, <2>5, <2>7
    <3> HIDE DEF applied, copies
    <3>2. Stage(o) = LifeOf(e)
      BY <2>3, <2>7, <3>1 DEF Stage, LifeOf, applied, copies
    <3> QED
      BY <3>2
  <2> QED
    BY <2>6, <2>7
<1>3. ASSUME NEW o \in Nat, \A e \in Events : outbox[e].origin # o PROVE Stage(o) = "absent"
  <2> DEFINE copies == {e \in Events : outbox[e].origin = o}
             applied == {e \in copies : Applied(e)}
  <2>1. copies = {} /\ applied = {} /\ Cardinality(applied) = 0
    BY <1>3, FS_EmptySet
  <2> HIDE DEF applied, copies
  <2> QED
    BY <2>1 DEF Stage, applied, copies
<1> QED
  BY <1>2, <1>3 DEF StageTable

\* An event moves on by the three commits of the dispatcher that works on it.
LEMMA LifeStep ==
  ASSUME ReliableInv, OneDispatcher, [Next]_vars, NEW e \in Events
  PROVE  \/ LifeOf(e)' = LifeOf(e)
         \/ \E d \in Dispatchers :
              /\ Current(d, e)
              /\ \/ LifeOf(e) = "waiting" /\ LifeOf(e)' = "applied"
                 \/ LifeOf(e) = "applied" /\ LifeOf(e)' = "published" /\ ~Untouched(e)
                 \/ LifeOf(e) = "waiting" /\ LifeOf(e)' = "dead" /\ ~Untouched(e)
<1>1. /\ TypeOK /\ CacheFresh /\ MarkingApplied /\ FailingNotApplied
      /\ Applied(e) => Applied(e)'
      /\ e \in Events' /\ outbox[e] \in Row
  <2>1. TypeOK /\ RowsKept /\ inbox \subseteq inbox'
    BY NextTyped, InboxGrows DEF ReliableInv, SessionInv, DeliveryInv
  <2>2. outbox \in Seq(Row) /\ e \in 1 .. Len(outbox) /\ e \in Events'
    BY <2>1, NextTyped DEF TypeOK, TablesTyped, Events, RowsKept
  <2> QED
    BY <2>1, <2>2, AppliedKept DEF ReliableInv, SessionInv, DeliveryInv
<1>2. CASE Applied(e)' /\ ~Applied(e)
  <2>1. PICK d \in Dispatchers : pc[d] = "handling" /\ Current(d, e) /\ HandlerCommits(d)
    BY <1>1, <1>2, BecomesApplied
  <2>2. outbox[e].status = "PENDING" /\ outbox[e].next # "later"
    BY <1>1, <2>1, WorkedOn
  <2>3. ~\E c \in Dispatchers : EndsTurn(c, e)
    BY <2>1 DEF HandlerCommits, Current, EndsTurn, OneDispatcher
  <2>4. outbox'[e] = outbox[e]
    BY <1>1, <2>2, <2>3, RowChange DEF Untouched, Elapses
  <2> QED
    BY <1>2, <2>1, <2>2, <2>4 DEF LifeOf
<1>3. CASE Applied(e)' <=> Applied(e)
  <2>1. CASE Untouched(e)
    BY <1>3, <2>1 DEF Untouched, LifeOf
  <2>2. CASE Elapses(e)
    <3>1. outbox'[e].status = outbox[e].status
      BY <1>1, <2>2 DEF Elapses, Row
    <3> QED
      BY <1>3, <3>1 DEF LifeOf
  <2>3. ASSUME NEW d \in Dispatchers, Publishes(d, e)
        PROVE  /\ Current(d, e)
               /\ LifeOf(e) = "applied" /\ LifeOf(e)' = "published" /\ ~Untouched(e)
    <3>1. Current(d, e) /\ pc[d] = "marking" /\ Applied(e)
      BY <1>1, <2>3 DEF Publishes, MarkingApplied, Current
    <3>2. outbox[e].status = "PENDING" /\ outbox'[e].status = "PUBLISHED"
      BY <1>1, <2>3, <3>1, WorkedOn, WrittenRows DEF Publishes
    <3> QED
      BY <1>3, <3>1, <3>2 DEF LifeOf, Untouched
  <2>4. ASSUME NEW d \in Dispatchers, Retries(d, e) PROVE LifeOf(e)' = LifeOf(e)
    <3>1. outbox'[e].status = outbox[e].status
      BY <1>1, <2>4, WorkedOn, WrittenRows DEF Retries
    <3> QED
      BY <1>3, <3>1 DEF LifeOf
  <2>5. ASSUME NEW d \in Dispatchers, Buries(d, e)
        PROVE  /\ Current(d, e)
               /\ LifeOf(e) = "waiting" /\ LifeOf(e)' = "dead" /\ ~Untouched(e)
    <3>1. Current(d, e) /\ pc[d] = "settling" /\ ~Applied(e)
      BY <1>1, <2>5 DEF Buries, FailingNotApplied, Current
    <3>2. outbox[e].status = "PENDING" /\ outbox'[e].status = "FAILED"
      BY <1>1, <2>5, <3>1, WorkedOn, WrittenRows DEF Buries
    <3> QED
      BY <1>3, <3>1, <3>2 DEF LifeOf, Untouched
  <2> QED
    BY <1>1, <2>1, <2>2, <2>3, <2>4, <2>5, RowChange
<1> QED
  BY <1>1, <1>2, <1>3

\* What a fact's stage is read from.
LEMMA StageOf ==
  ASSUME FactInv, StageTable, NEW o \in Nat
  PROVE  \/ \E e \in Events : outbox[e].origin = o /\ ~Spent(e) /\ Stage(o) = LifeOf(e)
         \/ Stage(o) = "absent" /\ \A e \in Events : outbox[e].origin # o
  BY DEF FactInv, CopyInv, OneUnspent, StageTable

\* What may happen to the facts in one step, whichever of them are looked at: nothing,
\* one fact moves on, or one is applied and records a later one.
Moves ==
  {<<"absent", "waiting">>, <<"waiting", "applied">>, <<"applied", "published">>,
   <<"waiting", "dead">>, <<"dead", "waiting">>}

OthersStay(changed) == \A p \in Nat \ changed : Stage(p)' = Stage(p)

FactStep ==
  \/ OthersStay({})
  \/ \E o \in Nat \ {0} : <<Stage(o), Stage(o)'>> \in Moves /\ OthersStay({o})
  \/ \E o, n \in Nat \ {0} :
       /\ o < n /\ OthersStay({o, n})
       /\ Stage(o) = "waiting" /\ Stage(o)' = "applied"
       /\ Stage(n) = "absent" /\ Stage(n)' = "waiting"

\* A replay resubmits one fact.
LEMMA ReplayMoves ==
  ASSUME FactInv, FactInv', StageTable, StageTable', [Next]_vars,
         NEW o \in Operators, ReplayCommit(o)
  PROVE  FactStep
<1>1. /\ ReliableInv /\ LoadedFresh /\ OriginsEarlier /\ TypeOK /\ BuriedOnce
      /\ DeadLettersNotApplied /\ Events = 1 .. Len(outbox)
  BY DEF FactInv, CopyInv, ReliableInv, SessionInv, DeliveryInv, Events
<1>2. PICK f \in Events, n \in Nat :
        /\ ~Spent(f) /\ Spent(f)' /\ ~Spent(n)' /\ n \notin Events
        /\ \A e \in Events : e # f => (Spent(e)' <=> Spent(e))
        /\ \A e \in Events : e < n /\ outbox'[e] = outbox[e]
        /\ Events' = Events \cup {n}
        /\ outbox'[n].origin = outbox[f].origin /\ outbox'[n].status = "PENDING"
        /\ DeadLettersOf(f) # {} /\ inbox' = inbox
  BY <1>1, ReplaySpends
<1>3. PICK q \in Nat \ {0} : q = outbox[f].origin
  BY <1>1 DEF OriginsEarlier
<1>4. Stage(q) = "dead"
  <2>1. ~Applied(f) /\ outbox[f].status = "FAILED"
    BY <1>1, <1>2 DEF DeadLettersNotApplied, DeadLettersOf
  <2> QED
    BY <1>2, <1>3, <2>1 DEF StageTable, LifeOf
<1>5. Stage(q)' = "waiting"
  <2>1. ~Applied(n)'
    BY <1>1, <1>2, BecomesApplied
  <2>2. Stage(q)' = LifeOf(n)'
    BY <1>2, <1>3 DEF StageTable
  <2> QED
    BY <1>2, <1>3, <2>1, <2>2 DEF LifeOf
<1>6. ASSUME NEW p \in Nat, p # q PROVE Stage(p)' = Stage(p)
  <2>1. CASE \A e \in Events : outbox[e].origin # p
    <3>1. \A e \in Events' : outbox'[e].origin # p
      BY <1>2, <1>3, <1>6, <2>1
    <3> QED
      BY <2>1, <3>1 DEF StageTable
  <2>2. ASSUME NEW e \in Events, outbox[e].origin = p, ~Spent(e), Stage(p) = LifeOf(e)
        PROVE  Stage(p)' = Stage(p)
    <3>1. e # f /\ e \in Events'
      BY <1>2, <1>3, <1>6, <2>2
    <3>2. ~Spent(e)' /\ outbox'[e] = outbox[e]
      BY <1>2, <2>2, <3>1
    <3>3. Stage(p)' = LifeOf(e)'
      BY <2>2, <3>1, <3>2 DEF StageTable
    <3>4. LifeOf(e)' = LifeOf(e)
      BY <1>2, <3>2 DEF LifeOf, Applied, Registered, HasProcessed, InboxKey
    <3> QED
      BY <2>2, <3>2, <3>3, <3>4
  <2> QED
    BY <2>1, <2>2, StageOf
<1>7. <<Stage(q), Stage(q)'>> \in Moves
  BY <1>4, <1>5 DEF Moves
<1> QED
  BY <1>3, <1>6, <1>7 DEF FactStep, OthersStay

\* Without a replay, a fact moves with the open one of its events, and a new fact
\* waits.
LEMMA FactMoves ==
  ASSUME FactInv, FactInv', StageTable, StageTable', [Next]_vars,
         ~\E o \in Operators : ReplayCommit(o), NEW p \in Nat
  PROVE  \/ Stage(p)' = Stage(p)
         \/ \E e \in Events : /\ outbox[e].origin = p /\ LifeOf(e)' # LifeOf(e)
                             /\ Stage(p) = LifeOf(e) /\ Stage(p)' = LifeOf(e)'
         \/ p \in Events' \ Events /\ Stage(p) = "absent" /\ Stage(p)' = "waiting"
<1>1. TypeOK /\ TypeOK' /\ RowsKept /\ Events \subseteq Events'
  BY NextTyped
  DEF FactInv, ReliableInv, SessionInv, DeliveryInv, TypeOK, TablesTyped, Events, RowsKept
<1>2. CASE \A e \in Events : outbox[e].origin # p
  <2>1. Stage(p) = "absent"
    BY <1>2 DEF StageTable
  <2>2. \A e \in Events' \ Events : outbox'[e].origin = e
    BY <1>1, NewRowFresh
  <2>3. CASE p \in Events' \ Events
    <3>1. ~Spent(p)' /\ ~Applied(p)' /\ outbox'[p].status = "PENDING"
      <4>1. ~Spent(p)
        BY <1>1, <2>3, SpentEvents
      <4> QED
        BY <1>1, <2>3, <4>1, SpentKept, BecomesApplied, NewRowFresh DEF ArrivesFresh
    <3>2. Stage(p)' = LifeOf(p)'
      BY <2>2, <2>3, <3>1 DEF StageTable
    <3> QED
      BY <2>1, <2>3, <3>1, <3>2 DEF LifeOf
  <2>4. CASE p \notin Events' \ Events
    <3>1. \A e \in Events' : outbox'[e].origin # p
      BY <1>1, <1>2, <2>2, <2>4 DEF RowsKept
    <3> QED
      BY <2>1, <3>1 DEF StageTable
  <2> QED
    BY <2>3, <2>4
<1>3. ASSUME NEW e \in Events, outbox[e].origin = p, ~Spent(e), Stage(p) = LifeOf(e)
      PROVE  Stage(p)' = LifeOf(e)'
  <2>1. ~Spent(e)' /\ outbox'[e].origin = p /\ e \in Events'
    BY <1>1, <1>3, SpentKept DEF RowsKept
  <2> QED
    BY <2>1 DEF StageTable
<1> QED
  BY <1>2, <1>3, StageOf

\* Every step is a step of the facts.
LEMMA EveryFactStep ==
  ASSUME Reliable, FactInv, FactInv', StageTable, StageTable', [Next]_vars
  PROVE  FactStep
<1>1. CASE \E o \in Operators : ReplayCommit(o)
  BY <1>1, ReplayMoves
<1>2. CASE ~\E o \in Operators : ReplayCommit(o)
  <2>1. /\ ReliableInv /\ OneDispatcher /\ TypeOK /\ OriginsEarlier
        /\ Events = 1 .. Len(outbox) /\ Events' = 1 .. Len(outbox')
        /\ Len(outbox) \in Nat /\ Len(outbox') \in Nat
        /\ \A e \in Events : outbox[e].origin \in 1 .. e
    <3>1. ReliableInv /\ OneDispatcher /\ TypeOK /\ OriginsEarlier /\ TypeOK'
      BY NextTyped DEF FactInv, CopyInv, ReliableInv, SessionInv, DeliveryInv, Reliable
    <3> QED
      BY <3>1 DEF TypeOK, TablesTyped, Events, OriginsEarlier
  <2>2. ASSUME NEW e \in Events, LifeOf(e)' # LifeOf(e),
               NEW f \in Events, LifeOf(f)' # LifeOf(f)
        PROVE  e = f
    <3>1. PICK d \in Dispatchers : Current(d, e)
      BY <2>1, <2>2, LifeStep
    <3>2. PICK c \in Dispatchers : Current(c, f)
      BY <2>1, <2>2, LifeStep
    <3>3. c = d
      BY <2>1 DEF OneDispatcher
    <3> QED
      BY <2>1, <3>1, <3>2, <3>3 DEF Current
  <2>3. \A e, f \in Events' \ Events : e = f
    BY <2>1, OneNewRow
  <2>4. CASE \A e \in Events : LifeOf(e)' = LifeOf(e)
    <3>1. \A p \in Nat : \/ Stage(p)' = Stage(p)
                         \/ /\ p \in Events' \ Events
                            /\ Stage(p) = "absent" /\ Stage(p)' = "waiting"
      BY <1>2, <2>4, FactMoves
    <3>2. CASE \E p \in Nat : Stage(p)' # Stage(p)
      <4>1. PICK p \in Nat : /\ p \in Events' \ Events
                            /\ Stage(p) = "absent" /\ Stage(p)' = "waiting"
        BY <3>1, <3>2
      <4>2. OthersStay({p})
        BY <2>3, <3>1, <4>1 DEF OthersStay
      <4>3. p \in Nat \ {0} /\ <<Stage(p), Stage(p)'>> \in Moves
        BY <2>1, <4>1 DEF Moves
      <4> QED
        BY <4>2, <4>3 DEF FactStep
    <3> QED
      BY <3>2 DEF FactStep, OthersStay
  <2>5. ASSUME NEW e \in Events, LifeOf(e)' # LifeOf(e) PROVE FactStep
    <3>1. PICK o \in Nat \ {0} : o = outbox[e].origin /\ o <= e
      BY <2>1
    <3>2. \A p \in Nat : \/ Stage(p)' = Stage(p)
                         \/ p = o /\ Stage(p) = LifeOf(e) /\ Stage(p)' = LifeOf(e)'
                         \/ /\ p \in Events' \ Events
                            /\ Stage(p) = "absent" /\ Stage(p)' = "waiting"
      BY <1>2, <2>2, <2>5, <3>1, FactMoves
    <3>3. \/ LifeOf(e) = "waiting" /\ LifeOf(e)' = "applied"
          \/ LifeOf(e) = "applied" /\ LifeOf(e)' = "published" /\ ~Untouched(e)
          \/ LifeOf(e) = "waiting" /\ LifeOf(e)' = "dead" /\ ~Untouched(e)
      BY <2>1, <2>5, LifeStep
    <3>4. <<LifeOf(e), LifeOf(e)'>> \in Moves
      BY <3>3 DEF Moves
    <3>5. CASE Events' \ Events = {}
      <4>1. OthersStay({o})
        BY <3>2, <3>5 DEF OthersStay
      <4>2. Stage(o)' = Stage(o) \/ <<Stage(o), Stage(o)'>> \in Moves
        BY <3>2, <3>4, <3>5
      <4>3. Stage(o)' = Stage(o) => OthersStay({})
        BY <4>1 DEF OthersStay
      <4> QED
        BY <4>1, <4>2, <4>3 DEF FactStep
    <3>6. ASSUME NEW n \in Events' \ Events PROVE FactStep
      <4>1. Untouched(e)
        BY <2>1, <3>6, NewRowFresh
      <4>2. LifeOf(e) = "waiting" /\ LifeOf(e)' = "applied"
        BY <3>3, <4>1
      <4>3. n \in Nat \ {0} /\ o < n
        BY <2>1, <3>1, <3>6
      <4>4. \A p \in Nat \ {o, n} : Stage(p)' = Stage(p)
        BY <2>3, <3>2, <3>6
      <4>5. \/ Stage(o)' = Stage(o)
            \/ Stage(o) = "waiting" /\ Stage(o)' = "applied"
        BY <2>1, <3>1, <3>2, <4>2
      <4>6. Stage(n)' = Stage(n) \/ (Stage(n) = "absent" /\ Stage(n)' = "waiting")
        BY <3>2, <4>3
      <4>7. /\ Stage(o)' = Stage(o) => OthersStay({n})
            /\ Stage(n)' = Stage(n) => OthersStay({o})
            /\ Stage(o)' = Stage(o) /\ Stage(n)' = Stage(n) => OthersStay({})
        BY <4>3, <4>4 DEF OthersStay
      <4>8. OthersStay({o, n})
        BY <4>4 DEF OthersStay
      <4> QED
        BY <4>2, <4>3, <4>5, <4>6, <4>7, <4>8 DEF FactStep, Moves
    <3> QED
      BY <3>5, <3>6
  <2> QED
    BY <2>4, <2>5
<1> QED
  BY <1>1, <1>2

\* One reliable dispatcher and one operator implement the life of a fact.
THEOREM DispatcherImplements == Reliable /\ OneOperator => (Spec => ImplementsLifecycle)
<1> SUFFICES ASSUME Reliable, OneOperator PROVE Spec => ImplementsLifecycle
  OBVIOUS
<1> DEFINE stages == [o \in 1 .. MaxFacts |-> Stage(o)]
<1>1. Init => Lifecycle!Init
  <2> SUFFICES ASSUME Init PROVE Lifecycle!Init
    OBVIOUS
  <2>1. FactInv /\ Events = {}
    BY FactInductive DEF Init, Events
  <2>2. StageTable
    BY <2>1, StageMeans
  <2>3. \A o \in 1 .. MaxFacts : Stage(o) = "absent"
    BY <2>1, <2>2, FactsAssumption DEF StageTable
  <2> QED
    BY <2>3 DEF Lifecycle!Init
<1>2. FactInv /\ FactInv' /\ StageTable /\ StageTable' /\ [Next]_vars
      => [Lifecycle!Next]_stages
  <2> SUFFICES ASSUME FactInv, FactInv', StageTable, StageTable', [Next]_vars
               PROVE  Lifecycle!Next \/ stages' = stages
    OBVIOUS
  <2>1. FactStep
    BY EveryFactStep
  <2>2. \A o \in 1 .. MaxFacts : o \in Nat
    BY FactsAssumption
  <2>3. CASE OthersStay({})
    BY <2>2, <2>3 DEF OthersStay
  <2>4. ASSUME NEW o \in Nat \ {0}, <<Stage(o), Stage(o)'>> \in Moves, OthersStay({o})
        PROVE  Lifecycle!Next \/ stages' = stages
    <3>1. CASE o \in 1 .. MaxFacts
      <4>1. stages' = [stages EXCEPT ![o] = Stage(o)'] /\ stages[o] = Stage(o)
        BY <2>2, <2>4, <3>1 DEF OthersStay
      <4>2. \/ stages[o] = "absent" /\ Stage(o)' = "waiting"
            \/ stages[o] = "waiting" /\ Stage(o)' = "applied"
            \/ stages[o] = "applied" /\ Stage(o)' = "published"
            \/ stages[o] = "waiting" /\ Stage(o)' = "dead"
            \/ stages[o] = "dead" /\ Stage(o)' = "waiting"
        BY <2>4, <4>1 DEF Moves
      <4>3. \/ Lifecycle!Record(o) \/ Lifecycle!Apply(o) \/ Lifecycle!Publish(o)
            \/ Lifecycle!Bury(o) \/ Lifecycle!Resubmit(o)
        BY <4>1, <4>2
        DEF Lifecycle!Record, Lifecycle!Apply, Lifecycle!Publish, Lifecycle!Bury,
            Lifecycle!Resubmit, Lifecycle!Move
      <4> QED
        BY <3>1, <4>3 DEF Lifecycle!Next
    <3>2. CASE o \notin 1 .. MaxFacts
      BY <2>2, <2>4, <3>2 DEF OthersStay
    <3> QED
      BY <3>1, <3>2
  <2>5. ASSUME NEW o \in Nat \ {0}, NEW n \in Nat \ {0}, o < n, OthersStay({o, n}),
               Stage(o) = "waiting", Stage(o)' = "applied",
               Stage(n) = "absent", Stage(n)' = "waiting"
        PROVE  Lifecycle!Next \/ stages' = stages
    <3>1. CASE o \in 1 .. MaxFacts /\ n \in 1 .. MaxFacts
      <4>1. /\ stages' = [stages EXCEPT ![o] = "applied", ![n] = "waiting"]
            /\ stages[o] = "waiting" /\ stages[n] = "absent"
        BY <2>2, <2>5, <3>1 DEF OthersStay
      <4>2. Lifecycle!ApplyAndRecord(o, n)
        BY <4>1 DEF Lifecycle!ApplyAndRecord
      <4> QED
        BY <3>1, <4>2 DEF Lifecycle!Next
    <3>2. CASE o \in 1 .. MaxFacts /\ n \notin 1 .. MaxFacts
      <4>1. stages' = [stages EXCEPT ![o] = "applied"] /\ stages[o] = "waiting"
        BY <2>2, <2>5, <3>2 DEF OthersStay
      <4>2. Lifecycle!Apply(o)
        BY <4>1 DEF Lifecycle!Apply, Lifecycle!Move
      <4> QED
        BY <3>2, <4>2 DEF Lifecycle!Next
    <3>3. CASE o \notin 1 .. MaxFacts
      <4>1. n \notin 1 .. MaxFacts
        BY <2>5, <3>3, FactsAssumption
      <4> QED
        BY <2>2, <2>5, <3>3, <4>1 DEF OthersStay
    <3> QED
      BY <3>1, <3>2, <3>3
  <2> QED
    BY <2>1, <2>3, <2>4, <2>5 DEF FactStep
<1>3. Spec => []FactInv
  BY FactInvariant
<1> QED
  BY <1>1, <1>2, <1>3, StageMeans, PTL DEF Spec, ImplementsLifecycle, Lifecycle!Spec

-----------------------------------------------------------------------------
(* One dispatcher whose connections may fail: dirty dead letters           *)

\* Buried although they have had effects.
AppliedAndBuried == {e \in Events : Applied(e) /\ DeadLettersOf(e) # {}}

\* How often a fact has had its effects.
AppliedEventsOf(o) == {e \in Events : outbox[e].origin = o /\ Applied(e)}

\* What is buried is not being marked.
LEMMA BuriedStranded ==
  ASSUME SessionInv
  PROVE  AppliedAndBuried \subseteq Stranded
<1> SUFFICES ASSUME NEW e \in AppliedAndBuried PROVE e \in Stranded
  OBVIOUS
<1>1. /\ TypeOK /\ CacheFresh /\ BuriedFailed
      /\ e \in Events /\ Applied(e) /\ DeadLettersOf(e) # {}
  BY DEF SessionInv, DeliveryInv, AppliedAndBuried
<1>2. outbox[e].status = "FAILED"
  BY <1>1 DEF BuriedFailed, DeadLettersOf
<1>3. ~Marking(e)
  BY <1>1, <1>2 DEF Marking, Current, CacheFresh
<1> QED
  BY <1>1, <1>2, <1>3 DEF Stranded

\* One dispatcher, whatever the look-ups of its handlers do: it takes a batch cut off, by
\* a crash or a missing connection, for each event that lies in the dead-letter table
\* although its effects are in the database.
THEOREM DirtyDeadLettersCostInterruptions ==
  OneDispatcher => (Spec => [](Cardinality(AppliedAndBuried) <= interruptions))
<1> SUFFICES ASSUME OneDispatcher
             PROVE  Spec => [](Cardinality(AppliedAndBuried) <= interruptions)
  OBVIOUS
<1>1. SessionInv /\ InterruptionsCounted => Cardinality(AppliedAndBuried) <= interruptions
  <2> SUFFICES ASSUME SessionInv, InterruptionsCounted
               PROVE  Cardinality(AppliedAndBuried) <= interruptions
    OBVIOUS
  <2>1. TypeOK /\ interruptions \in Nat
    BY BoundsAssumption DEF SessionInv, DeliveryInv, TypeOK, ProcessesTyped
  <2>2. Stranded \subseteq Events /\ AppliedAndBuried \subseteq Events
    BY DEF Stranded, AppliedAndBuried
  <2>3. IsFiniteSet(Stranded) /\ Cardinality(Stranded) \in Nat
    BY <2>1, <2>2, EventSets
  <2>4. /\ Cardinality(AppliedAndBuried) \in Nat
        /\ Cardinality(AppliedAndBuried) <= Cardinality(Stranded)
    BY <2>1, <2>2, <2>3, EventSets, BuriedStranded, FS_Subset
  <2> QED
    BY <2>1, <2>3, <2>4 DEF InterruptionsCounted
<1> QED
  BY <1>1, SessionInvariant, InterruptionsStrand, PTL

\* With one operator, all but one of the applied events of a fact were replayed, hence
\* buried.
LEMMA OneOpenEvent ==
  ASSUME CopyInv, NEW o
  PROVE  \E e : AppliedEventsOf(o) \subseteq AppliedAndBuried \cup {e}
<1>1. \A e \in AppliedEventsOf(o) : Spent(e) => e \in AppliedAndBuried
  BY DEF AppliedEventsOf, AppliedAndBuried, Spent
<1>2. \A e, f \in AppliedEventsOf(o) : ~Spent(e) /\ ~Spent(f) => e = f
  BY DEF CopyInv, OneUnspent, AppliedEventsOf
<1>3. CASE \E e \in AppliedEventsOf(o) : ~Spent(e)
  BY <1>1, <1>2, <1>3
<1>4. CASE \A e \in AppliedEventsOf(o) : Spent(e)
  BY <1>1, <1>4
<1> QED
  BY <1>3, <1>4

\* With one dispatcher and one operator, the invariant of the copies holds.
THEOREM CopyInvariant == OneDispatcher /\ OneOperator => (Spec => []CopyInv)
<1> SUFFICES ASSUME OneDispatcher, OneOperator PROVE Spec => []CopyInv
  OBVIOUS
<1>1. Init => CopyInv
  BY CopyInductive
<1>2. CopyInv /\ [Next]_vars => CopyInv'
  BY CopyInductive
<1> QED
  BY <1>1, <1>2, PTL DEF Spec

\* One dispatcher and one operator, whatever the look-ups of the handlers do: a fact has
\* its effects once, and once more at most for every batch that was cut off.
THEOREM EffectsPerInterruption ==
  OneDispatcher /\ OneOperator =>
    (Spec => [](\A o \in Events : Cardinality(AppliedEventsOf(o)) <= 1 + interruptions))
<1> SUFFICES ASSUME OneDispatcher, OneOperator
             PROVE  Spec => [](\A o \in Events :
                                 Cardinality(AppliedEventsOf(o)) <= 1 + interruptions)
  OBVIOUS
<1>1. CopyInv /\ Cardinality(AppliedAndBuried) <= interruptions
        => \A o \in Events : Cardinality(AppliedEventsOf(o)) <= 1 + interruptions
  <2> SUFFICES ASSUME CopyInv, Cardinality(AppliedAndBuried) <= interruptions, NEW o \in Events
               PROVE  Cardinality(AppliedEventsOf(o)) <= 1 + interruptions
    OBVIOUS
  <2>1. TypeOK /\ interruptions \in Nat
    BY BoundsAssumption DEF CopyInv, SessionInv, DeliveryInv, TypeOK, ProcessesTyped
  <2>2. AppliedAndBuried \subseteq Events /\ AppliedEventsOf(o) \subseteq Events
    BY DEF AppliedAndBuried, AppliedEventsOf
  <2>3. /\ IsFiniteSet(AppliedAndBuried) /\ Cardinality(AppliedAndBuried) \in Nat
        /\ Cardinality(AppliedEventsOf(o)) \in Nat
    BY <2>1, <2>2, EventSets
  <2>4. PICK e : AppliedEventsOf(o) \subseteq AppliedAndBuried \cup {e}
    BY OneOpenEvent
  <2>5. /\ IsFiniteSet(AppliedAndBuried \cup {e})
        /\ Cardinality(AppliedAndBuried \cup {e}) \in
             {Cardinality(AppliedAndBuried), Cardinality(AppliedAndBuried) + 1}
    BY <2>3, FS_AddElement
  <2>6. Cardinality(AppliedEventsOf(o)) <= Cardinality(AppliedAndBuried \cup {e})
    BY <2>4, <2>5, FS_Subset
  <2> QED
    BY <2>1, <2>3, <2>5, <2>6
<1> QED
  BY <1>1, CopyInvariant, DirtyDeadLettersCostInterruptions, PTL

\* So until a first batch is cut off, by a crash or by a connection missing where nothing
\* counts it as a failure, one dispatcher and one operator apply a fact once even if the
\* look-ups of handlers fail.
THEOREM OnceUntilInterrupted ==
  OneDispatcher /\ OneOperator => (Spec => [](interruptions = 0 => FactAppliedOnce))
<1> SUFFICES ASSUME OneDispatcher, OneOperator
             PROVE  Spec => [](interruptions = 0 => FactAppliedOnce)
  OBVIOUS
<1>1. CopyInv /\ Cardinality(AppliedAndBuried) <= interruptions
        => (interruptions = 0 => FactAppliedOnce)
  <2> SUFFICES ASSUME CopyInv, Cardinality(AppliedAndBuried) <= interruptions, interruptions = 0,
                      NEW e \in Events, NEW f \in Events, e # f,
                      outbox[e].origin = outbox[f].origin
               PROVE  ~(Applied(e) /\ Applied(f))
    BY DEF FactAppliedOnce
  <2>1. TypeOK
    BY DEF CopyInv, SessionInv, DeliveryInv
  <2>2. AppliedAndBuried \subseteq Events
    BY DEF AppliedAndBuried
  <2>3. IsFiniteSet(AppliedAndBuried) /\ Cardinality(AppliedAndBuried) \in Nat
    BY <2>1, <2>2, EventSets
  <2>4. AppliedAndBuried = {}
    BY <2>3, FS_EmptySet
  <2>5. \A g \in Events : Applied(g) => ~Spent(g)
    BY <2>4 DEF AppliedAndBuried, Spent
  <2> QED
    BY <2>5 DEF CopyInv, OneUnspent
<1> QED
  BY <1>1, CopyInvariant, DirtyDeadLettersCostInterruptions, PTL

-----------------------------------------------------------------------------
(* Any number of dispatchers: what is left of the accounting               *)

\* The greatest number recorded, when there are no gaps.
Tried(e) == Cardinality(Range(attempts[e]))

\* The dispatchers that have e in their batches, and those of them that are about to
\* record an attempt with number n.
Holders(e) == {d \in Dispatchers : e \in DOMAIN batch[d]}

Claims(e, n) ==
  {d \in Dispatchers : pc[d] = "settling" /\ Current(d, e) /\ attempt[d] = n}

Numbered(e, n) == {i \in 1 .. Len(attempts[e]) : attempts[e][i] = n}

\* The numbers have no gap, and what is about to be recorded makes none.
Gapless ==
  \A e \in Events :
    /\ Tried(e) \in Nat /\ Range(attempts[e]) = 1 .. Tried(e)
    /\ \A d \in Dispatchers :
         pc[d] = "settling" /\ Current(d, e) => attempt[d] \in 1 .. Tried(e) + 1

\* A number is recorded by dispatchers that read it before the first of them commits.
ClaimsLeft ==
  \A e \in Events : \A n \in Nat :
    Cardinality(Numbered(e, n)) + Cardinality(Claims(e, n)) <= Cardinality(Dispatchers)

\* An event that has left the queue is not fetched any more: those that hold it can
\* each add one attempt and one dead letter.
HoldersLeft ==
  \A e \in Events :
    /\ outbox[e].status = "PENDING" => Tried(e) < MaxAttempts /\ DeadLettersOf(e) = {}
    /\ outbox[e].status # "PENDING" =>
         /\ Tried(e) + Cardinality(Holders(e)) < MaxAttempts + Cardinality(Dispatchers)
         /\ Cardinality(DeadLettersOf(e)) + Cardinality(Holders(e)) <= Cardinality(Dispatchers)
    /\ DeadLettersOf(e) # {} => Tried(e) >= MaxAttempts

AttemptsInv == TypeOK /\ Gapless /\ ClaimsLeft /\ HoldersLeft

\* A number that is recorded again or next leaves no gap.
LEMMA OneMoreNumber ==
  ASSUME NEW s \in Seq(Nat), NEW k \in Nat, Range(s) = 1 .. k, NEW n \in 1 .. k + 1
  PROVE  LET m == IF n = k + 1 THEN k + 1 ELSE k
         IN  Range(Append(s, n)) = 1 .. m /\ Cardinality(Range(Append(s, n))) = m
<1> DEFINE m == IF n = k + 1 THEN k + 1 ELSE k
<1>1. Range(Append(s, n)) = Range(s) \cup {n}
  <2>1. /\ n \in Nat /\ Len(s) \in Nat /\ DOMAIN s = 1 .. Len(s)
        /\ DOMAIN Append(s, n) = 1 .. Len(s) + 1
        /\ Append(s, n)[Len(s) + 1] = n
        /\ \A i \in 1 .. Len(s) : Append(s, n)[i] = s[i]
    OBVIOUS
  <2>2. 1 .. Len(s) + 1 = (1 .. Len(s)) \cup {Len(s) + 1}
    BY <2>1
  <2> QED
    BY <2>1, <2>2 DEF Range
<1>2. Range(Append(s, n)) = 1 .. m
  BY <1>1
<1>3. Cardinality(1 .. m) = m
  BY FS_Interval
<1> QED
  BY <1>2, <1>3

\* What holds of the sizes in these invariants.
LEMMA Sizes ==
  ASSUME TypeOK, IsFiniteSet(Dispatchers), NEW e
  PROVE  /\ IsFiniteSet(Holders(e)) /\ Cardinality(Holders(e)) \in Nat
         /\ Cardinality(Dispatchers) \in Nat
         /\ Cardinality(Holders(e)) <= Cardinality(Dispatchers)
         /\ IsFiniteSet(DeadLettersOf(e)) /\ Cardinality(DeadLettersOf(e)) \in Nat
         /\ \A n : /\ IsFiniteSet(Claims(e, n)) /\ Cardinality(Claims(e, n)) \in Nat
                   /\ Cardinality(Claims(e, n)) <= Cardinality(Dispatchers)
<1>1. ASSUME NEW S, S \subseteq Dispatchers
      PROVE  IsFiniteSet(S) /\ Cardinality(S) \in Nat /\ Cardinality(S) <= Cardinality(Dispatchers)
  BY <1>1, FS_Subset, FS_CardinalityType
<1>2. Len(deadLetters) \in Nat
  BY DEF TypeOK, TablesTyped
<1>3. IsFiniteSet(1 .. Len(deadLetters)) /\ DeadLettersOf(e) \subseteq 1 .. Len(deadLetters)
  BY <1>2, FS_Interval DEF DeadLettersOf
<1>4. IsFiniteSet(DeadLettersOf(e)) /\ Cardinality(DeadLettersOf(e)) \in Nat
  BY <1>3, FS_Subset, FS_CardinalityType
<1>5. Holders(e) \subseteq Dispatchers /\ \A n : Claims(e, n) \subseteq Dispatchers
  BY DEF Holders, Claims
<1> QED
  BY <1>1, <1>4, <1>5, FS_CardinalityType

\* The attempts of e, one step later.
LEMMA AttemptsTyped ==
  ASSUME TypeOK, NEW e \in Events
  PROVE  attempts[e] \in Seq(Nat) /\ outbox[e] \in Row
<1>1. /\ outbox \in Seq(Row) /\ attempts \in Seq(Seq(Nat))
      /\ e \in 1 .. Len(outbox) /\ e \in 1 .. Len(attempts)
  BY DEF TypeOK, TablesTyped, Events
<1> QED
  BY <1>1

\* A dispatcher comes to record a number by reading it, and keeps what it has read.
LEMMA SettlingChange ==
  ASSUME TypeOK, [Next]_vars, NEW d \in Dispatchers, pc'[d] = "settling"
  PROVE  /\ batch'[d] = batch[d]
         /\ \/ pc[d] = "settling" /\ attempt'[d] = attempt[d]
            \/ RecordFailure(d)
<1>1. CASE \/ \E type \in SeedTypes : Submit(type)
           \/ \E f \in Events : BackoffElapses(f)
           \/ \E o \in Operators : ReplayStep(o)
           \/ UNCHANGED vars
  BY <1>1 DEF Submit, BackoffElapses, ReplayStep, ReplayRead, ReplayCommit,
              ReplayAbandoned, vars
<1>2. CASE DispatcherStep(d) \/ Interrupt(d)
  <2>1. ASSUME PublishEvent(d) \/ ScheduleRetry(d) \/ MoveToDeadLetter(d) PROVE FALSE
    <3>1. PICK f \in Events : Advance(d, f)
      BY <2>1 DEF PublishEvent, ScheduleRetry, MoveToDeadLetter
    <3> QED
      BY <3>1, AdvanceEnds DEF EndsTurn
  <2>2. ASSUME \/ Fetch(d) \/ RejectUnsupported(d) \/ ConnectionFails(d) \/ SkipProcessed(d)
               \/ StartHandler(d) \/ HandlerRaises(d) \/ HandlerCommits(d) \/ FlushRefused(d)
               \/ Interrupt(d)
        PROVE  FALSE
    BY <2>2 DEF Fetch, RejectUnsupported, ConnectionFails, SkipProcessed, StartHandler,
                HandlerRaises, HandlerCommits, FlushRefused, Interrupt, Abandon, Goto,
                TypeOK, ProcessesTyped
  <2> QED
    BY <1>2, <2>1, <2>2 DEF DispatcherStep, RecordFailure
<1>3. ASSUME NEW c \in Dispatchers, c # d, DispatcherStep(c) \/ Interrupt(c)
      PROVE  pc'[d] = pc[d] /\ batch'[d] = batch[d] /\ attempt'[d] = attempt[d]
  <2>1. attempt'[d] = attempt[d]
    BY <1>3 DEF DispatcherStep, Fetch, RejectUnsupported, ConnectionFails, SkipProcessed,
                StartHandler, HandlerRaises, HandlerCommits, RecordFailure, FlushRefused,
                Interrupt, Abandon, PublishEvent, ScheduleRetry, MoveToDeadLetter,
                TypeOK, ProcessesTyped
  <2> QED
    BY <1>3, <2>1, OthersKept
<1> QED
  BY <1>1, <1>2, <1>3 DEF Next

\* The number that is read is the next one.
LEMMA NumberRead ==
  ASSUME TypeOK, Gapless, NEW d \in Dispatchers, RecordFailure(d),
         NEW e \in Events, Current(d, e)
  PROVE  attempt'[d] = Tried(e) + 1 /\ attempts' = attempts /\ Tried(e) \in Nat
<1>1. PICK f \in Events : \E n \in 1 .. Len(attempts[f]) + 1 :
        /\ Current(d, f) /\ IsNextAttempt(f, n)
        /\ attempt' = [attempt EXCEPT ![d] = n] /\ attempts' = attempts
  BY DEF RecordFailure
<1>2. e = f
  BY <1>1 DEF Current, Events, TypeOK, ProcessesTyped, BatchTyped
<1>3. attempts[e] \in Seq(Nat)
  BY AttemptsTyped
<1>4. PICK n \in Nat :
        IsNextAttempt(e, n) /\ attempt' = [attempt EXCEPT ![d] = n] /\ attempts' = attempts
  <2>1. PICK n \in 1 .. Len(attempts[e]) + 1 :
          IsNextAttempt(e, n) /\ attempt' = [attempt EXCEPT ![d] = n] /\ attempts' = attempts
    BY <1>1, <1>2
  <2>2. n \in Nat
    BY <1>3
  <2> QED
    BY <2>1, <2>2
<1>5. attempt'[d] = n
  BY <1>4 DEF TypeOK, ProcessesTyped
<1>6. Range(attempts[e]) = 1 .. Tried(e)
  BY DEF Gapless
<1>7. Tried(e) \in Nat
  BY DEF Gapless
<1>8. n = Tried(e) + 1
  <2> DEFINE recorded == Range(attempts[e]) \cup {0}
  <2>1. n - 1 \in recorded /\ \A m \in recorded : m < n
    BY <1>4 DEF IsNextAttempt
  <2>2. recorded = 0 .. Tried(e)
    BY <1>6, <1>7
  <2> HIDE DEF recorded
  <2>3. n - 1 <= Tried(e) /\ Tried(e) < n
    BY <1>7, <2>1, <2>2
  <2> QED
    BY <1>7, <2>3
<1> QED
  BY <1>4, <1>5, <1>7, <1>8

\* A step does one of these things to the attempts of e: nothing, or the commit of a
\* failure adds the number that d has read.
LEMMA AttemptAdded ==
  ASSUME TypeOK, [Next]_vars, NEW e \in Events
  PROVE  \/ attempts'[e] = attempts[e]
         \/ \E d \in Dispatchers :
              /\ EndsTurn(d, e) /\ pc[d] = "settling" /\ Current(d, e)
              /\ attempts'[e] = Append(attempts[e], attempt[d])
  BY RowChange DEF Untouched, Elapses, Publishes, Retries, Buries

\* No gap opens.
LEMMA GaplessStep ==
  ASSUME TypeOK, Gapless, [Next]_vars
  PROVE  Gapless'
<1>1. ASSUME NEW e \in Events
      PROVE  /\ Tried(e)' \in Nat /\ Range(attempts'[e]) = 1 .. Tried(e)'
             /\ Tried(e)' >= Tried(e)
  <2>1. Tried(e) \in Nat /\ Range(attempts[e]) = 1 .. Tried(e)
    BY DEF Gapless
  <2>2. CASE attempts'[e] = attempts[e]
    BY <2>1, <2>2 DEF Tried
  <2>3. ASSUME NEW d \in Dispatchers, pc[d] = "settling", Current(d, e),
               attempts'[e] = Append(attempts[e], attempt[d])
        PROVE  /\ Tried(e)' \in Nat /\ Range(attempts'[e]) = 1 .. Tried(e)'
               /\ Tried(e)' >= Tried(e)
    <3>1. attempt[d] \in 1 .. Tried(e) + 1
      BY <2>3 DEF Gapless
    <3>2. attempts[e] \in Seq(Nat)
      BY AttemptsTyped
    <3>3. PICK m \in Nat : /\ m >= Tried(e) /\ Range(attempts'[e]) = 1 .. m
                           /\ Cardinality(Range(attempts'[e])) = m
      BY <2>1, <2>3, <3>1, <3>2, OneMoreNumber
    <3> QED
      BY <3>3 DEF Tried
  <2> QED
    BY <2>2, <2>3, AttemptAdded
<1>2. ASSUME NEW e \in Events' \ Events
      PROVE  Tried(e)' = 0 /\ Range(attempts'[e]) = 1 .. 0
  <2>1. attempts'[e] = <<>>
    BY <1>2, NewRowFresh DEF ArrivesFresh
  <2>2. Range(attempts'[e]) = {}
    BY <2>1 DEF Range
  <2> QED
    BY <2>2, FS_EmptySet DEF Tried
<1>3. ASSUME NEW e \in Events', NEW d \in Dispatchers, pc'[d] = "settling", Current(d, e)'
      PROVE  attempt'[d] \in 1 .. Tried(e)' + 1
  <2>1. Current(d, e) /\ e \in Events
    BY <1>3, SettlingChange DEF Current, TypeOK, ProcessesTyped, BatchTyped
  <2>2. /\ Tried(e) \in Nat /\ Tried(e)' \in Nat /\ Tried(e)' >= Tried(e)
    BY <1>1, <2>1 DEF Gapless
  <2>3. CASE pc[d] = "settling" /\ attempt'[d] = attempt[d]
    <3>1. attempt[d] \in 1 .. Tried(e) + 1
      BY <2>1, <2>3 DEF Gapless
    <3> QED
      BY <2>2, <2>3, <3>1
  <2>4. CASE RecordFailure(d)
    <3>1. attempt'[d] = Tried(e) + 1
      BY <2>1, <2>4, NumberRead
    <3> QED
      BY <2>2, <3>1
  <2> QED
    BY <1>3, <2>3, <2>4, SettlingChange
<1>4. \A e \in Events' : Tried(e)' \in Nat /\ Range(attempts'[e]) = 1 .. Tried(e)'
  BY <1>1, <1>2
<1> QED
  BY <1>3, <1>4 DEF Gapless

\* The dispatchers that have read a number before it was recorded record it once each.
LEMMA ClaimsStep ==
  ASSUME TypeOK, IsFiniteSet(Dispatchers), Gapless, ClaimsLeft, [Next]_vars
  PROVE  ClaimsLeft'
<1> SUFFICES ASSUME NEW e \in Events', NEW n \in Nat
             PROVE  Cardinality(Numbered(e, n)') + Cardinality(Claims(e, n)')
                      <= Cardinality(Dispatchers)
  BY DEF ClaimsLeft
<1>1. /\ Cardinality(Dispatchers) \in Nat /\ TypeOK'
      /\ IsFiniteSet(Claims(e, n)) /\ Cardinality(Claims(e, n)) \in Nat
      /\ IsFiniteSet(Claims(e, n)') /\ Cardinality(Claims(e, n)') \in Nat
      /\ Cardinality(Claims(e, n)') <= Cardinality(Dispatchers)
  <2>1. TypeOK'
    BY NextTyped
  <2>2. Claims(e, n)' \subseteq Dispatchers
    BY DEF Claims
  <2> QED
    BY <2>1, <2>2, Sizes, FS_Subset, FS_CardinalityType
<1>2. CASE Numbered(e, n)' = {}
  BY <1>1, <1>2, FS_EmptySet
<1>3. CASE e \notin Events
  <2>1. attempts'[e] = <<>>
    BY <1>3, NewRowFresh DEF ArrivesFresh
  <2>2. Numbered(e, n)' = {}
    BY <2>1 DEF Numbered
  <2> QED
    BY <1>2, <2>2
<1>4. ASSUME e \in Events, NEW d \in Claims(e, n)', d \notin Claims(e, n)
      PROVE  n = Tried(e) + 1 /\ attempts' = attempts /\ Tried(e) \in Nat
  <2>1. d \in Dispatchers /\ pc'[d] = "settling" /\ Current(d, e)' /\ attempt'[d] = n
    BY <1>4 DEF Claims
  <2>2. Current(d, e)
    BY <2>1, SettlingChange DEF Current
  <2>3. RecordFailure(d)
    BY <1>4, <2>1, <2>2, SettlingChange DEF Claims
  <2> QED
    BY <1>4, <2>1, <2>2, <2>3, NumberRead
<1>5. ASSUME e \in Events
      PROVE  /\ Cardinality(Numbered(e, n)) + Cardinality(Claims(e, n))
                  <= Cardinality(Dispatchers)
             /\ IsFiniteSet(Numbered(e, n)) /\ Cardinality(Numbered(e, n)) \in Nat
             /\ attempts[e] \in Seq(Nat)
  <2>1. attempts[e] \in Seq(Nat) /\ Len(attempts[e]) \in Nat
    BY <1>5, AttemptsTyped
  <2>2. IsFiniteSet(1 .. Len(attempts[e])) /\ Numbered(e, n) \subseteq 1 .. Len(attempts[e])
    BY <2>1, FS_Interval DEF Numbered
  <2> QED
    BY <1>5, <2>1, <2>2, FS_Subset, FS_CardinalityType DEF ClaimsLeft
<1>6. ASSUME e \in Events, attempts'[e] = attempts[e], Numbered(e, n)' # {}
      PROVE  Cardinality(Numbered(e, n)') + Cardinality(Claims(e, n)')
               <= Cardinality(Dispatchers)
  <2>1. Numbered(e, n)' = Numbered(e, n)
    BY <1>6 DEF Numbered
  <2>2. n # Tried(e) + 1
    <3>1. Range(attempts[e]) = 1 .. Tried(e) /\ Tried(e) \in Nat
      BY <1>6 DEF Gapless
    <3>2. n \in Range(attempts[e])
      BY <1>5, <1>6, <2>1 DEF Numbered, Range
    <3> QED
      BY <3>1, <3>2
  <2>3. Claims(e, n)' \subseteq Claims(e, n)
    BY <1>4, <1>6, <2>2
  <2>4. Cardinality(Claims(e, n)') <= Cardinality(Claims(e, n))
    BY <1>1, <2>3, FS_Subset
  <2> QED
    BY <1>1, <1>5, <1>6, <2>1, <2>4
<1>7. ASSUME e \in Events, NEW d \in Dispatchers, EndsTurn(d, e), pc[d] = "settling",
             Current(d, e), attempts'[e] = Append(attempts[e], attempt[d])
      PROVE  Cardinality(Numbered(e, n)') + Cardinality(Claims(e, n)')
               <= Cardinality(Dispatchers)
  <2>1. /\ Len(attempts[e]) \in Nat /\ Len(attempts'[e]) = Len(attempts[e]) + 1
        /\ attempts'[e][Len(attempts[e]) + 1] = attempt[d]
        /\ \A i \in 1 .. Len(attempts[e]) : attempts'[e][i] = attempts[e][i]
        /\ attempts'[e] # attempts[e]
    <3>1. attempt[d] \in Nat /\ attempts[e] \in Seq(Nat)
      BY <1>5, <1>7 DEF TypeOK, ProcessesTyped
    <3> QED
      BY <1>7, <3>1
  <2>2. Claims(e, n)' \subseteq Claims(e, n) /\ d \notin Claims(e, n)'
    BY <1>4, <1>7, <2>1 DEF Claims, EndsTurn
  <2>3. CASE attempt[d] = n
    <3>1. Numbered(e, n)' = Numbered(e, n) \cup {Len(attempts[e]) + 1}
          /\ Len(attempts[e]) + 1 \notin Numbered(e, n)
      BY <2>1, <2>3 DEF Numbered
    <3>2. Cardinality(Numbered(e, n)') = Cardinality(Numbered(e, n)) + 1
      BY <1>5, <1>7, <3>1, FS_AddElement
    <3>3. d \in Claims(e, n) /\ Claims(e, n)' \subseteq Claims(e, n) \ {d}
      BY <1>7, <2>2, <2>3 DEF Claims
    <3>4. /\ IsFiniteSet(Claims(e, n) \ {d})
          /\ Cardinality(Claims(e, n) \ {d}) = Cardinality(Claims(e, n)) - 1
      BY <1>1, <3>3, FS_RemoveElement
    <3>5. Cardinality(Claims(e, n)') <= Cardinality(Claims(e, n)) - 1
      BY <3>3, <3>4, FS_Subset
    <3> QED
      BY <1>1, <1>5, <1>7, <3>2, <3>5
  <2>4. CASE attempt[d] # n
    <3>1. Numbered(e, n)' = Numbered(e, n)
      BY <2>1, <2>4 DEF Numbered
    <3>2. Cardinality(Claims(e, n)') <= Cardinality(Claims(e, n))
      BY <1>1, <2>2, FS_Subset
    <3> QED
      BY <1>1, <1>5, <1>7, <3>1, <3>2
  <2> QED
    BY <2>3, <2>4
<1> QED
  BY <1>2, <1>3, <1>6, <1>7, AttemptAdded

\* A dispatcher gets hold of an event only while it is PENDING.
LEMMA HoldersChange ==
  ASSUME TypeOK, [Next]_vars, NEW e \in Events, outbox[e].status # "PENDING"
  PROVE  Holders(e)' \subseteq Holders(e)
<1> SUFFICES ASSUME NEW d \in Dispatchers, e \in DOMAIN batch'[d]
             PROVE  e \in DOMAIN batch[d]
  BY DEF Holders
<1>1. CASE Fetch(d)
  <2>1. e \in FetchPending
    BY <1>1 DEF Fetch, TypeOK, ProcessesTyped
  <2> QED
    BY <2>1 DEF FetchPending, Eligible
<1> QED
  BY <1>1, BatchChange

\* The dead letters of e stay as they are unless a step buries it.
LEMMA BurialsOf ==
  ASSUME TypeOK, [Next]_vars, NEW e \in Events
  PROVE  \/ DeadLettersOf(e)' = DeadLettersOf(e)
         \/ /\ \E d \in Dispatchers : Buries(d, e)
            /\ \E k \in Nat : DeadLettersOf(e)' \subseteq DeadLettersOf(e) \cup {k}
<1>1. CASE \A k \in 1 .. Len(deadLetters') :
             deadLetters'[k].event = e => k \in 1 .. Len(deadLetters)
  BY <1>1, DeadLetterChange DEF DeadLettersOf
<1>2. ASSUME NEW k \in 1 .. Len(deadLetters'), deadLetters'[k].event = e,
             k \notin 1 .. Len(deadLetters)
      PROVE  /\ \E d \in Dispatchers : Buries(d, e)
             /\ \E j \in Nat : DeadLettersOf(e)' \subseteq DeadLettersOf(e) \cup {j}
  <2>1. \E d \in Dispatchers : Buries(d, e)
    BY <1>2, DeadLetterChange
  <2>2. Len(deadLetters) + 1 \in Nat
    BY DeadLetterChange
  <2>3. DeadLettersOf(e)' \subseteq DeadLettersOf(e) \cup {Len(deadLetters) + 1}
    BY DeadLetterChange DEF DeadLettersOf
  <2> QED
    BY <2>1, <2>2, <2>3
<1> QED
  BY <1>1, <1>2

\* The commit of a failure, in numbers.
LEMMA FailureCounts ==
  ASSUME TypeOK, Gapless, NEW e \in Events, NEW d \in Dispatchers,
         Retries(d, e) \/ Buries(d, e)
  PROVE  /\ attempt[d] \in Nat /\ Tried(e) \in Nat /\ Tried(e)' \in Nat
         /\ Tried(e)' = Tried(e) \/ (Tried(e)' = Tried(e) + 1 /\ Tried(e)' = attempt[d])
         /\ attempt[d] <= Tried(e)'
<1>1. /\ Tried(e) \in Nat /\ Range(attempts[e]) = 1 .. Tried(e)
      /\ attempt[d] \in 1 .. Tried(e) + 1 /\ attempts'[e] = Append(attempts[e], attempt[d])
  BY DEF Gapless, Retries, Buries
<1>2. attempts[e] \in Seq(Nat)
  BY AttemptsTyped
<1>3. Tried(e)' = IF attempt[d] = Tried(e) + 1 THEN Tried(e) + 1 ELSE Tried(e)
  BY <1>1, <1>2, OneMoreNumber DEF Tried
<1> QED
  BY <1>1, <1>3

\* Whoever holds a settled event has one attempt and one dead letter left for it.
LEMMA HoldersStep ==
  ASSUME TypeOK, IsFiniteSet(Dispatchers), Gapless, HoldersLeft, [Next]_vars
  PROVE  HoldersLeft'
<1> DEFINE N == Cardinality(Dispatchers)
<1>1. /\ TypeOK' /\ N \in Nat /\ MaxAttempts \in Nat \ {0}
      /\ \A e : /\ IsFiniteSet(Holders(e)) /\ Cardinality(Holders(e)) \in Nat
               /\ Cardinality(Holders(e)) <= N
               /\ IsFiniteSet(DeadLettersOf(e)) /\ Cardinality(DeadLettersOf(e)) \in Nat
      /\ \A e : IsFiniteSet(Holders(e)') /\ Cardinality(Holders(e)') \in Nat
  <2>1. TypeOK'
    BY NextTyped
  <2>2. ASSUME NEW e PROVE IsFiniteSet(Holders(e)') /\ Cardinality(Holders(e)') \in Nat
    <3>1. Holders(e)' \subseteq Dispatchers
      BY DEF Holders
    <3> QED
      BY <3>1, FS_Subset, FS_CardinalityType
  <2> QED
    BY <2>1, <2>2, Sizes, BoundsAssumption
<1> SUFFICES ASSUME NEW e \in Events'
             PROVE  /\ outbox'[e].status = "PENDING" =>
                         Tried(e)' < MaxAttempts /\ DeadLettersOf(e)' = {}
                    /\ outbox'[e].status # "PENDING" =>
                         /\ Tried(e)' + Cardinality(Holders(e)') < MaxAttempts + N
                         /\ Cardinality(DeadLettersOf(e)') + Cardinality(Holders(e)') <= N
                    /\ DeadLettersOf(e)' # {} => Tried(e)' >= MaxAttempts
  BY DEF HoldersLeft
<1>2. CASE e \notin Events
  <2>1. outbox'[e].status = "PENDING" /\ attempts'[e] = <<>>
    BY <1>2, NewRowFresh DEF ArrivesFresh
  <2>2. Tried(e)' = 0
    <3>1. Range(attempts'[e]) = {}
      BY <2>1 DEF Range
    <3> QED
      BY <3>1, FS_EmptySet DEF Tried
  <2>3. DeadLettersOf(e)' = {}
    <3>1. \A k \in 1 .. Len(deadLetters) : deadLetters[k].event \in Events
      BY DEF TypeOK, TablesTyped
    <3> QED
      BY <1>2, <3>1, DeadLetterChange DEF DeadLettersOf
  <2> QED
    BY <1>1, <2>1, <2>2, <2>3
<1>3. CASE e \in Events
  <2>1. /\ Tried(e) \in Nat /\ outbox[e] \in Row
        /\ outbox[e].status = "PENDING" => Tried(e) < MaxAttempts /\ DeadLettersOf(e) = {}
        /\ outbox[e].status # "PENDING" =>
             /\ Tried(e) + Cardinality(Holders(e)) < MaxAttempts + N
             /\ Cardinality(DeadLettersOf(e)) + Cardinality(Holders(e)) <= N
        /\ DeadLettersOf(e) # {} => Tried(e) >= MaxAttempts
    BY <1>3, AttemptsTyped DEF Gapless, HoldersLeft
  <2>2. ASSUME outbox[e].status # "PENDING"
        PROVE  Cardinality(Holders(e)') <= Cardinality(Holders(e))
    BY <1>1, <1>3, <2>2, HoldersChange, FS_Subset
  <2>3. ASSUME NEW d \in Dispatchers, EndsTurn(d, e), Current(d, e)
        PROVE  /\ outbox[e].status # "PENDING" =>
                    Cardinality(Holders(e)') <= Cardinality(Holders(e)) - 1
               /\ Cardinality(Holders(e)') <= N - 1
    <3>1. d \in Holders(e) /\ d \notin Holders(e)'
      BY <2>3 DEF Holders, Current, EndsTurn
    <3>2. ASSUME NEW S, IsFiniteSet(S), d \in S, Holders(e)' \subseteq S
          PROVE  Cardinality(Holders(e)') <= Cardinality(S) - 1
      <4>1. Holders(e)' \subseteq S \ {d}
        BY <3>1, <3>2
      <4>2. IsFiniteSet(S \ {d}) /\ Cardinality(S \ {d}) = Cardinality(S) - 1
        BY <3>2, FS_RemoveElement
      <4> QED
        BY <4>1, <4>2, FS_Subset
    <3>3. Holders(e)' \subseteq Dispatchers
      BY DEF Holders
    <3> QED
      BY <1>1, <1>3, <3>1, <3>2, <3>3, HoldersChange
  <2>4. CASE Untouched(e) \/ Elapses(e)
    <3>1. outbox'[e].status = outbox[e].status /\ attempts'[e] = attempts[e]
      BY <2>1, <2>4 DEF Untouched, Elapses, Row
    <3>2. Tried(e)' = Tried(e)
      BY <3>1 DEF Tried
    <3>3. ~\E d \in Dispatchers : Buries(d, e)
      <4>1. ASSUME NEW d \in Dispatchers, Buries(d, e) PROVE FALSE
        <5>1. attempt[d] \in Nat /\ attempts[e] \in Seq(Nat)
          BY <1>3, AttemptsTyped DEF TypeOK, ProcessesTyped
        <5>2. Len(Append(attempts[e], attempt[d])) # Len(attempts[e])
          BY <5>1
        <5> QED
          BY <3>1, <4>1, <5>2 DEF Buries
      <4> QED
        BY <4>1
    <3>4. DeadLettersOf(e)' = DeadLettersOf(e)
      BY <1>3, <3>3, BurialsOf
    <3> QED
      BY <1>1, <2>1, <2>2, <3>1, <3>2, <3>4
  <2>5. ASSUME NEW d \in Dispatchers, EndsTurn(d, e), Publishes(d, e)
        PROVE  /\ outbox'[e].status = "PUBLISHED" /\ Tried(e)' = Tried(e)
               /\ DeadLettersOf(e)' = DeadLettersOf(e) /\ Current(d, e)
    <3>1. outbox[e] \in Row /\ batch[d][e] \in CachedRow /\ Current(d, e)
      BY <1>3, <2>5, FetchedRow DEF Publishes
    <3> QED
      BY <2>5, <3>1, WrittenRows DEF Publishes, Tried, DeadLettersOf
  <2>6. ASSUME NEW d \in Dispatchers, EndsTurn(d, e), Retries(d, e)
        PROVE  /\ outbox'[e].status = outbox[e].status /\ attempt[d] < MaxAttempts
               /\ DeadLettersOf(e)' = DeadLettersOf(e) /\ Current(d, e)
    <3>1. outbox[e] \in Row /\ batch[d][e] \in CachedRow /\ Current(d, e)
      BY <1>3, <2>6, FetchedRow DEF Retries
    <3> QED
      BY <2>6, <3>1, WrittenRows DEF Retries, DeadLettersOf
  <2>7. ASSUME NEW d \in Dispatchers, EndsTurn(d, e), Buries(d, e)
        PROVE  /\ outbox'[e].status = "FAILED" /\ attempt[d] >= MaxAttempts
               /\ Cardinality(DeadLettersOf(e)') \in Nat
               /\ Cardinality(DeadLettersOf(e)') <= Cardinality(DeadLettersOf(e)) + 1
               /\ Current(d, e)
    <3>1. outbox[e] \in Row /\ batch[d][e] \in CachedRow /\ Current(d, e)
      BY <1>3, <2>7, FetchedRow DEF Buries
    <3>2. PICK k \in Nat : DeadLettersOf(e)' \subseteq DeadLettersOf(e) \cup {k}
      BY <1>3, BurialsOf
    <3>3. /\ IsFiniteSet(DeadLettersOf(e) \cup {k})
          /\ Cardinality(DeadLettersOf(e) \cup {k}) <= Cardinality(DeadLettersOf(e)) + 1
          /\ Cardinality(DeadLettersOf(e) \cup {k}) \in Nat
      <4>1. IsFiniteSet(DeadLettersOf(e)) /\ Cardinality(DeadLettersOf(e)) \in Nat
        BY <1>1
      <4>2. /\ IsFiniteSet(DeadLettersOf(e) \cup {k})
            /\ Cardinality(DeadLettersOf(e) \cup {k}) \in
                 {Cardinality(DeadLettersOf(e)), Cardinality(DeadLettersOf(e)) + 1}
        <5> HIDE DEF N
        <5> QED
          BY <4>1, FS_AddElement
      <4> QED
        BY <4>1, <4>2
    <3>4. IsFiniteSet(DeadLettersOf(e)')
          /\ Cardinality(DeadLettersOf(e)') <= Cardinality(DeadLettersOf(e) \cup {k})
      BY <3>2, <3>3, FS_Subset
    <3>5. Cardinality(DeadLettersOf(e)') \in Nat
      BY <3>4, FS_CardinalityType
    <3> QED
      BY <1>1, <2>7, <3>1, <3>3, <3>4, <3>5, WrittenRows DEF Buries
  <2>8. ASSUME NEW d \in Dispatchers, EndsTurn(d, e), Publishes(d, e)
        PROVE  /\ Tried(e)' + Cardinality(Holders(e)') < MaxAttempts + N
               /\ Cardinality(DeadLettersOf(e)') + Cardinality(Holders(e)') <= N
               /\ DeadLettersOf(e)' # {} => Tried(e)' >= MaxAttempts
               /\ outbox'[e].status # "PENDING"
    <3>1. Cardinality(DeadLettersOf(e)) = 0 \/ outbox[e].status # "PENDING"
      BY <2>1, FS_EmptySet
    <3> QED
      BY <1>1, <2>1, <2>3, <2>5, <2>8, <3>1
  <2>9. ASSUME NEW d \in Dispatchers, EndsTurn(d, e), Retries(d, e)
        PROVE  /\ outbox'[e].status = outbox[e].status
               /\ outbox[e].status = "PENDING" =>
                    Tried(e)' < MaxAttempts /\ DeadLettersOf(e)' = {}
               /\ outbox[e].status # "PENDING" =>
                    /\ Tried(e)' + Cardinality(Holders(e)') < MaxAttempts + N
                    /\ Cardinality(DeadLettersOf(e)') + Cardinality(Holders(e)') <= N
               /\ DeadLettersOf(e)' # {} => Tried(e)' >= MaxAttempts
    <3>1. /\ attempt[d] \in Nat /\ Tried(e)' \in Nat
          /\ Tried(e)' = Tried(e) \/ (Tried(e)' = Tried(e) + 1 /\ Tried(e)' = attempt[d])
      BY <1>3, <2>9, FailureCounts
    <3> QED
      BY <1>1, <2>1, <2>3, <2>6, <2>9, <3>1
  <2>10. ASSUME NEW d \in Dispatchers, EndsTurn(d, e), Buries(d, e)
        PROVE  /\ Tried(e)' + Cardinality(Holders(e)') < MaxAttempts + N
               /\ Cardinality(DeadLettersOf(e)') + Cardinality(Holders(e)') <= N
               /\ Tried(e)' >= MaxAttempts /\ outbox'[e].status # "PENDING"
    <3>1. /\ attempt[d] \in Nat /\ Tried(e)' \in Nat /\ attempt[d] <= Tried(e)'
          /\ Tried(e)' = Tried(e) \/ (Tried(e)' = Tried(e) + 1 /\ Tried(e)' = attempt[d])
      BY <1>3, <2>10, FailureCounts
    <3>2. Cardinality(DeadLettersOf(e)) = 0 \/ outbox[e].status # "PENDING"
      BY <2>1, FS_EmptySet
    <3> QED
      BY <1>1, <2>1, <2>3, <2>7, <2>10, <3>1, <3>2
  <2> QED
    BY <1>3, <2>4, <2>8, <2>9, <2>10, RowChange
<1> QED
  BY <1>2, <1>3

\* Any finite number of dispatchers, with interruptions, failed look-ups and replays.
THEOREM AttemptsInvariant == IsFiniteSet(Dispatchers) => (Spec => []AttemptsInv)
<1> SUFFICES ASSUME IsFiniteSet(Dispatchers) PROVE Spec => []AttemptsInv
  OBVIOUS
<1>1. Init => AttemptsInv
  <2> SUFFICES ASSUME Init PROVE AttemptsInv
    OBVIOUS
  <2>1. TypeOK
    BY InitTyped
  <2>2. Events = {}
    BY DEF Init, Events
  <2> QED
    BY <2>1, <2>2 DEF AttemptsInv, Gapless, ClaimsLeft, HoldersLeft
<1>2. AttemptsInv /\ [Next]_vars => AttemptsInv'
  BY NextTyped, GaplessStep, ClaimsStep, HoldersStep DEF AttemptsInv
<1> QED
  BY <1>1, <1>2, PTL DEF Spec

\* Any finite number of dispatchers: no attempt number is skipped, no event is given
\* up before max_attempts, and after that each other dispatcher that still holds it
\* tries and buries it once more at most.
THEOREM RetriesAreBounded == IsFiniteSet(Dispatchers) => (Spec => []RetriesBounded)
<1> SUFFICES ASSUME IsFiniteSet(Dispatchers) PROVE Spec => []RetriesBounded
  OBVIOUS
<1>1. AttemptsInv => RetriesBounded
  <2> SUFFICES ASSUME AttemptsInv, NEW e \in Events
               PROVE  /\ Range(attempts[e]) = 1 .. Tried(e)
                      /\ \A n \in Range(attempts[e]) :
                           Cardinality(Numbered(e, n)) <= Cardinality(Dispatchers)
                      /\ Tried(e) < MaxAttempts + Cardinality(Dispatchers)
                      /\ outbox[e].status = "PENDING" => Tried(e) < MaxAttempts
                      /\ DeadLettersOf(e) # {} => Tried(e) >= MaxAttempts
                      /\ Cardinality(DeadLettersOf(e)) <= Cardinality(Dispatchers)
    BY DEF RetriesBounded, Tried, Numbered
  <2>1. /\ TypeOK /\ MaxAttempts \in Nat \ {0} /\ Tried(e) \in Nat
        /\ Range(attempts[e]) = 1 .. Tried(e) /\ attempts[e] \in Seq(Nat)
    BY BoundsAssumption, AttemptsTyped DEF AttemptsInv, Gapless
  <2>2. /\ outbox[e].status = "PENDING" => Tried(e) < MaxAttempts /\ DeadLettersOf(e) = {}
        /\ outbox[e].status # "PENDING" =>
             /\ Tried(e) + Cardinality(Holders(e)) < MaxAttempts + Cardinality(Dispatchers)
             /\ Cardinality(DeadLettersOf(e)) + Cardinality(Holders(e))
                  <= Cardinality(Dispatchers)
        /\ DeadLettersOf(e) # {} => Tried(e) >= MaxAttempts
    BY DEF AttemptsInv, HoldersLeft
  <2>3. ASSUME NEW n \in Range(attempts[e])
        PROVE  Cardinality(Numbered(e, n)) <= Cardinality(Dispatchers)
    <3>1. n \in Nat
      BY <2>1, <2>3
    <3>2. Cardinality(Numbered(e, n)) + Cardinality(Claims(e, n)) <= Cardinality(Dispatchers)
      BY <3>1 DEF AttemptsInv, ClaimsLeft
    <3>3. Cardinality(Numbered(e, n)) \in Nat
      <4>1. Len(attempts[e]) \in Nat
        BY <2>1
      <4>2. IsFiniteSet(1 .. Len(attempts[e])) /\ Numbered(e, n) \subseteq 1 .. Len(attempts[e])
        BY <4>1, FS_Interval DEF Numbered
      <4> QED
        BY <4>2, FS_Subset, FS_CardinalityType
    <3>4. Cardinality(Claims(e, n)) \in Nat /\ Cardinality(Dispatchers) \in Nat
      BY <2>1, Sizes
    <3> QED
      BY <3>2, <3>3, <3>4
  <2> QED
    BY <2>1, <2>2, <2>3, Sizes, FS_EmptySet
<1> QED
  BY <1>1, AttemptsInvariant, PTL

===============================================================================
