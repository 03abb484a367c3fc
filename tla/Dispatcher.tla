----------------------------- MODULE Dispatcher -----------------------------
(***************************************************************************)
(* The transactional outbox, the brokerless dispatcher that drains it, the *)
(* consumer inbox, retries, the dead-letter store and its replay command.  *)
(*                                                                         *)
(*   src/src/eventcart/workers/brokerless_dispatcher.py                    *)
(*   src/src/eventcart/workers/dead_letter_replay.py                       *)
(*   src/src/eventcart/modules/events/{models,repository}.py               *)
(*   src/src/eventcart/modules/idempotency/inbox.py                        *)
(*                                                                         *)
(* A dispatcher is one run of dispatch_pending_batch in a session of its   *)
(* own.  Its steps are the places where another process can get in         *)
(* between: every query whose answer is used later and every commit.  The  *)
(* database is PostgreSQL at READ COMMITTED, so a transaction's writes     *)
(* appear at its commit.  The session is created with                      *)
(* expire_on_commit=False, so the row a dispatcher fetched is never read   *)
(* again: "cached" below is what the session still believes of it.         *)
(*                                                                         *)
(* Which handlers are registered and what they emit are parameters, as     *)
(* they are of dispatch_pending_batch.  Clock values are abstracted to     *)
(* whether next_attempt_at is null, in the future or reached.              *)
(***************************************************************************)
EXTENDS Integers, Sequences, FiniteSets, Functions

CONSTANTS
  Dispatchers,       \* dispatcher processes
  Operators,         \* people running the dead_letter_replay command
  EventTypes,        \* the event_type values that occur
  SeedTypes,         \* types recorded by transactions outside the dispatcher
  ConsumerOf,        \* registered handlers: event type -> consumer name
  Outcomes,          \* event type -> the follow-up types its handler may emit
  Unstorable,        \* types whose effects the database may refuse to store
  NoEvent,           \* a handler's "no follow-up event"
  Limit,             \* batch size of fetch_pending
  MaxAttempts,       \* RetryPolicy.max_attempts
  ConnectionsFail,   \* whether a handler's look-up of the inbox may get no connection
  MaxSeeds,          \* bound: events recorded by outside transactions
  MaxReplays,        \* bound: replayed copies
  MaxInterruptions   \* bound: batches cut off by a crash or a missing connection

ASSUME TypesAssumption ==
  /\ SeedTypes \subseteq EventTypes
  /\ Unstorable \subseteq EventTypes
  /\ DOMAIN ConsumerOf \subseteq EventTypes
  /\ ConsumerOf = [t \in DOMAIN ConsumerOf |-> ConsumerOf[t]]
  /\ NoEvent \notin EventTypes
  /\ Outcomes \in [DOMAIN ConsumerOf -> SUBSET (EventTypes \cup {NoEvent})]

ASSUME BoundsAssumption ==
  /\ Limit \in Nat \ {0}
  /\ MaxAttempts \in Nat \ {0}
  /\ ConnectionsFail \in BOOLEAN
  /\ MaxSeeds \in Nat /\ MaxReplays \in Nat /\ MaxInterruptions \in Nat

VARIABLES
  outbox,        \* outbox_events: a sequence of rows, oldest first
  attempts,      \* attempts[e]: attempt_number of each event_processing_attempts row of e
  inbox,         \* inbox_events: the (consumer_name, event_id) pairs
  deadLetters,   \* dead_letter_events: a sequence of rows
  effects,       \* effects[e]: how often the business effects of e were committed (history)
  pc,            \* pc[d]: where dispatcher d is in its loop
  batch,         \* batch[d]: the fetched events still to do, each with its cached row
  attempt,       \* attempt[d]: the attempt number d read and has not committed yet
  replaying,     \* replaying[o]: the dead letter operator o has loaded, 0 if none
  interruptions  \* batches cut off so far

vars == <<outbox, attempts, inbox, deadLetters, effects, pc, batch, attempt,
          replaying, interruptions>>

Events == 1 .. Len(outbox)

Statuses == {"PENDING", "PUBLISHED", "FAILED"}
Delays   == {"none", "later", "due"}     \* next_attempt_at: null, future, reached

Row ==
  [type : EventTypes, cause : Nat, origin : Nat, status : Statuses,
   failures : Nat, next : Delays]

DeadLetterRow == [event : Nat, replayed : BOOLEAN]

CachedRow == [failures : Nat, next : Delays]

Steps == {"idle", "first", "next", "handling", "marking", "failing", "settling"}

Init ==
  /\ outbox = <<>>
  /\ attempts = <<>>
  /\ inbox = {}
  /\ deadLetters = <<>>
  /\ effects = <<>>
  /\ pc = [d \in Dispatchers |-> "idle"]
  /\ batch = [d \in Dispatchers |-> <<>>]
  /\ attempt = [d \in Dispatchers |-> 0]
  /\ replaying = [o \in Operators |-> 0]
  /\ interruptions = 0

-----------------------------------------------------------------------------
(* The tables                                                              *)

\* A new outbox row.  The defaults of the model make it PENDING at once.
\* origin stands for the content an event shares with the copies that replay
\* makes of it: payload, aggregate and correlation id.
NewRow(type, cause, origin) ==
  [type |-> type, cause |-> cause, origin |-> origin, status |-> "PENDING",
   failures |-> 0, next |-> "none"]

InsertRow(row) ==
  /\ outbox' = Append(outbox, row)
  /\ attempts' = Append(attempts, <<>>)

Registered(e) == outbox[e].type \in DOMAIN ConsumerOf

InboxKey(e) == <<ConsumerOf[outbox[e].type], e>>

\* ConsumerInbox.has_processed
HasProcessed(e) == InboxKey(e) \in inbox

\* Mutant: inbox_events has no primary key.
NoInboxKey(e) == TRUE

\* The primary key (consumer_name, event_id) of inbox_events admits a row for e.
InboxKeyFree(e) == ~HasProcessed(e)

MarkReplayed(row) == [row EXCEPT !.replayed = TRUE]

\* Mutant: the status is not tested.
EligibleAnyStatus == {e \in Events : outbox[e].next # "later"}

\* Mutant: a reached next_attempt_at does not make the row ready again.
EligibleNeverRetried ==
  {e \in Events : outbox[e].status = "PENDING" /\ outbox[e].next = "none"}

\* OutboxRepository.fetch_pending: the oldest Limit of the rows that are ready.
Eligible == {e \in Events : outbox[e].status = "PENDING" /\ outbox[e].next # "later"}

FetchPending == {e \in Eligible : Cardinality({f \in Eligible : f < e}) < Limit}

\* UPDATE statements write the attributes that differ from the cached row.
\* The cached status is PENDING, whatever the table says by now.
ClearDelay(row, cached) == IF cached.next = "none" THEN row.next ELSE "none"

MarkPublished(row, cached) ==
  [row EXCEPT !.status = "PUBLISHED", !.next = ClearDelay(row, cached)]

\* Mutant: failure_count runs down.
CountDown(row, cached) ==
  [row EXCEPT !.failures = cached.failures - 1, !.next = "later"]

\* Mutant: the first failure is final, as in outbox_publisher.
FailAtOnce(row, cached) ==
  [row EXCEPT !.status = "FAILED", !.failures = cached.failures + 1]

\* Mutant: the cached status is written back with the rest of the row.
RetryWholeRow(row, cached) ==
  [row EXCEPT !.status = "PENDING", !.failures = cached.failures + 1, !.next = "later"]

MarkRetryableFailure(row, cached) ==
  [row EXCEPT !.failures = cached.failures + 1, !.next = "later"]

\* Mutant: the status is not set.
StayPending(row, cached) ==
  [row EXCEPT !.failures = cached.failures + 1, !.next = ClearDelay(row, cached)]

MarkFailed(row, cached) ==
  [row EXCEPT !.status = "FAILED", !.failures = cached.failures + 1,
              !.next = ClearDelay(row, cached)]

\* Mutant: earlier attempts are not looked up.
IsFirstAttempt(e, n) == n = 1

\* next_attempt_number: one more than the greatest recorded number.
IsNextAttempt(e, n) ==
  LET recorded == Range(attempts[e]) \cup {0}
  IN  n - 1 \in recorded /\ \A m \in recorded : m < n

-----------------------------------------------------------------------------
(* Outside transactions and the clock                                      *)

Seeded == {e \in Events : outbox[e].cause = 0 /\ outbox[e].origin = e}

\* orders/service.create_order commits an order together with its event.
Submit(type) ==
  /\ Cardinality(Seeded) < MaxSeeds
  /\ InsertRow(NewRow(type, 0, Len(outbox) + 1))
  /\ effects' = Append(effects, 0)
  /\ UNCHANGED <<inbox, deadLetters, pc, batch, attempt, replaying, interruptions>>

\* Time passes: the backoff of a retryable failure is over.
BackoffElapses(e) ==
  /\ outbox[e].next = "later"
  /\ outbox' = [outbox EXCEPT ![e].next = "due"]
  /\ UNCHANGED <<attempts, inbox, deadLetters, effects, pc, batch, attempt,
                 replaying, interruptions>>

-----------------------------------------------------------------------------
(* One batch of one dispatcher                                             *)

\* d is about to do, or is doing, the event e: the oldest it has left.
Current(d, e) == e \in DOMAIN batch[d] /\ \A f \in DOMAIN batch[d] : e <= f

Goto(d, step) == pc' = [pc EXCEPT ![d] = step]

\* The commit that ends the work on e; the session then holds no connection.
Advance(d, e) ==
  LET left == DOMAIN batch[d] \ {e}
  IN  /\ batch' = [batch EXCEPT ![d] = Restrict(@, left)]
      /\ Goto(d, IF left = {} THEN "idle" ELSE "next")

\* An exception leaves dispatch_pending_batch, or the process dies: what the
\* session has not committed is rolled back and the batch is forgotten.
Abandon(d) ==
  /\ Goto(d, "idle")
  /\ batch' = [batch EXCEPT ![d] = <<>>]
  /\ attempt' = [attempt EXCEPT ![d] = 0]
  /\ UNCHANGED <<outbox, attempts, inbox, deadLetters, effects, replaying>>

\* fetch_pending at the head of the batch; a batch of nothing changes nothing.
Fetch(d) ==
  /\ pc[d] = "idle"
  /\ FetchPending # {}
  /\ batch' = [batch EXCEPT ![d] =
       [e \in FetchPending |-> [failures |-> outbox[e].failures, next |-> outbox[e].next]]]
  /\ Goto(d, "first")
  /\ UNCHANGED <<outbox, attempts, inbox, deadLetters, effects, attempt, replaying,
                 interruptions>>

\* No handler is registered: UnsupportedEventTypeError.
RejectUnsupported(d) ==
  \E e \in Events :
    /\ pc[d] \in {"first", "next"} /\ Current(d, e)
    /\ ~Registered(e)
    /\ Goto(d, "failing")
    /\ UNCHANGED <<outbox, attempts, inbox, deadLetters, effects, batch, attempt,
                   replaying, interruptions>>

\* The handler's first query raises: the commit of the previous event gave the
\* connection back and the pool has none.  The session can still be used, and the
\* failure is counted.  A connection missing anywhere else is an Interrupt.
ConnectionFails(d) ==
  \E e \in Events :
    /\ ConnectionsFail
    /\ pc[d] = "next" /\ Current(d, e)
    /\ Registered(e)
    /\ Goto(d, "failing")
    /\ UNCHANGED <<outbox, attempts, inbox, deadLetters, effects, batch, attempt,
                   replaying, interruptions>>

\* Mutant: process_once raises on an event it has processed.
RaiseProcessed(d) ==
  \E e \in Events :
    /\ pc[d] \in {"first", "next"} /\ Current(d, e)
    /\ Registered(e) /\ HasProcessed(e)
    /\ Goto(d, "failing")
    /\ UNCHANGED <<outbox, attempts, inbox, deadLetters, effects, batch, attempt,
                   replaying, interruptions>>

\* process_once finds the inbox row: the handler returns None.
SkipProcessed(d) ==
  \E e \in Events :
    /\ pc[d] \in {"first", "next"} /\ Current(d, e)
    /\ Registered(e) /\ HasProcessed(e)
    /\ Goto(d, "marking")
    /\ UNCHANGED <<outbox, attempts, inbox, deadLetters, effects, batch, attempt,
                   replaying, interruptions>>

\* Mutant: the inbox is not looked up.
StartUnchecked(d) ==
  \E e \in Events :
    /\ pc[d] \in {"first", "next"} /\ Current(d, e)
    /\ Registered(e)
    /\ Goto(d, "handling")
    /\ UNCHANGED <<outbox, attempts, inbox, deadLetters, effects, batch, attempt,
                   replaying, interruptions>>

\* process_once finds no inbox row and calls the handler.
StartHandler(d) ==
  \E e \in Events :
    /\ pc[d] \in {"first", "next"} /\ Current(d, e)
    /\ Registered(e) /\ ~HasProcessed(e)
    /\ Goto(d, "handling")
    /\ UNCHANGED <<outbox, attempts, inbox, deadLetters, effects, batch, attempt,
                   replaying, interruptions>>

\* Mutant: nothing catches what the handler raises.
RaiseUncaught(d) ==
  /\ pc[d] = "handling"
  /\ Abandon(d)
  /\ UNCHANGED interruptions

\* The handler raises before it has changed anything (bad payload, missing row).
HandlerRaises(d) ==
  /\ pc[d] = "handling"
  /\ Goto(d, "failing")
  /\ UNCHANGED <<outbox, attempts, inbox, deadLetters, effects, batch, attempt,
                 replaying, interruptions>>

\* The handler commits its effects, its follow-up event and the inbox row in
\* one transaction.
HandlerCommits(d) ==
  \E e \in Events :
    LET counted == [effects EXCEPT ![e] = @ + 1]
    IN  /\ pc[d] = "handling" /\ Current(d, e)
        /\ InboxKeyFree(e)
        /\ inbox' = inbox \cup {InboxKey(e)}
        /\ \/ /\ NoEvent \in Outcomes[outbox[e].type]
              /\ effects' = counted
              /\ UNCHANGED <<outbox, attempts>>
           \/ \E out \in Outcomes[outbox[e].type] \ {NoEvent} :
                /\ effects' = Append(counted, 0)
                /\ InsertRow(NewRow(out, e, Len(outbox) + 1))
        /\ Goto(d, "marking")
        /\ UNCHANGED <<deadLetters, batch, attempt, replaying, interruptions>>

\* The flush of the handler's writes is refused: another dispatcher has inserted
\* the inbox row since, or a value does not fit its column.  The session needs a
\* rollback it does not get, so record_failure raises as well.
FlushRefused(d) ==
  \E e \in Events :
    /\ pc[d] = "handling" /\ Current(d, e)
    /\ ~InboxKeyFree(e) \/ outbox[e].type \in Unstorable
    /\ Abandon(d)
    /\ UNCHANGED interruptions

\* mark_published and the commit of the loop body.
PublishEvent(d) ==
  \E e \in Events :
    /\ pc[d] = "marking" /\ Current(d, e)
    /\ outbox' = [outbox EXCEPT ![e] = MarkPublished(@, batch[d][e])]
    /\ Advance(d, e)
    /\ UNCHANGED <<attempts, inbox, deadLetters, effects, attempt, replaying,
                   interruptions>>

\* record_failure reads the number this attempt gets.
RecordFailure(d) ==
  \E e \in Events : \E n \in 1 .. Len(attempts[e]) + 1 :
    /\ pc[d] = "failing" /\ Current(d, e)
    /\ IsNextAttempt(e, n)
    /\ attempt' = [attempt EXCEPT ![d] = n]
    /\ Goto(d, "settling")
    /\ UNCHANGED <<outbox, attempts, inbox, deadLetters, effects, batch, replaying,
                   interruptions>>

\* The commit of a failure: the attempt row, and either the backoff ...
ScheduleRetry(d) ==
  \E e \in Events :
    /\ pc[d] = "settling" /\ Current(d, e)
    /\ attempt[d] < MaxAttempts
    /\ attempts' = [attempts EXCEPT ![e] = Append(@, attempt[d])]
    /\ outbox' = [outbox EXCEPT ![e] = MarkRetryableFailure(@, batch[d][e])]
    /\ attempt' = [attempt EXCEPT ![d] = 0]
    /\ Advance(d, e)
    /\ UNCHANGED <<inbox, deadLetters, effects, replaying, interruptions>>

\* ... or, after the last attempt, the dead-letter row and status FAILED.
MoveToDeadLetter(d) ==
  \E e \in Events :
    /\ pc[d] = "settling" /\ Current(d, e)
    /\ attempt[d] >= MaxAttempts
    /\ attempts' = [attempts EXCEPT ![e] = Append(@, attempt[d])]
    /\ deadLetters' = Append(deadLetters, [event |-> e, replayed |-> FALSE])
    /\ outbox' = [outbox EXCEPT ![e] = MarkFailed(@, batch[d][e])]
    /\ attempt' = [attempt EXCEPT ![d] = 0]
    /\ Advance(d, e)
    /\ UNCHANGED <<inbox, effects, replaying, interruptions>>

\* The process dies, or a statement nothing guards finds no connection.  Two such
\* statements follow a commit or a failed look-up, which leave the session without
\* one: the UPDATE of mark_published, which the commit of the loop body flushes
\* after the handler has committed, and the query of record_failure.  Or an open
\* connection breaks, and the session lacks the rollback it needs.
Interrupt(d) ==
  /\ pc[d] # "idle"
  /\ interruptions < MaxInterruptions
  /\ interruptions' = interruptions + 1
  /\ Abandon(d)

-----------------------------------------------------------------------------
(* dead_letter_replay                                                      *)

Copies == {e \in Events : outbox[e].origin # e}

\* Mutant: replayed_at is not tested.
ReplayAnyRow(o) ==
  \E k \in 1 .. Len(deadLetters) :
    /\ replaying[o] = 0
    /\ replaying' = [replaying EXCEPT ![o] = k]
    /\ UNCHANGED <<outbox, attempts, inbox, deadLetters, effects, pc, batch, attempt,
                   interruptions>>

\* replay loads a row that is not replayed; it refuses any other.
ReplayRead(o) ==
  \E k \in 1 .. Len(deadLetters) :
    /\ replaying[o] = 0
    /\ ~deadLetters[k].replayed
    /\ replaying' = [replaying EXCEPT ![o] = k]
    /\ UNCHANGED <<outbox, attempts, inbox, deadLetters, effects, pc, batch, attempt,
                   interruptions>>

\* The commit: a copy under a fresh event_id, and replayed_at on the loaded row,
\* which is not read again.
ReplayCommit(o) ==
  LET k == replaying[o]
      dead == outbox[deadLetters[k].event]
  IN  /\ k # 0
      /\ Cardinality(Copies) < MaxReplays
      /\ InsertRow(NewRow(dead.type, dead.cause, dead.origin))
      /\ effects' = Append(effects, 0)
      /\ deadLetters' = [deadLetters EXCEPT ![k] = MarkReplayed(@)]
      /\ replaying' = [replaying EXCEPT ![o] = 0]
      /\ UNCHANGED <<inbox, pc, batch, attempt, interruptions>>

\* The command ends before its commit: it dies or gets no connection.
ReplayAbandoned(o) ==
  /\ replaying[o] # 0
  /\ replaying' = [replaying EXCEPT ![o] = 0]
  /\ UNCHANGED <<outbox, attempts, inbox, deadLetters, effects, pc, batch, attempt,
                 interruptions>>

-----------------------------------------------------------------------------

DispatcherStep(d) ==
  \/ Fetch(d)
  \/ RejectUnsupported(d) \/ ConnectionFails(d)
  \/ SkipProcessed(d) \/ StartHandler(d)
  \/ HandlerRaises(d) \/ HandlerCommits(d) \/ FlushRefused(d)
  \/ PublishEvent(d)
  \/ RecordFailure(d) \/ ScheduleRetry(d) \/ MoveToDeadLetter(d)

ReplayStep(o) == ReplayRead(o) \/ ReplayCommit(o) \/ ReplayAbandoned(o)

Next ==
  \/ \E type \in SeedTypes : Submit(type)
  \/ \E e \in Events : BackoffElapses(e)
  \/ \E d \in Dispatchers : DispatcherStep(d) \/ Interrupt(d)
  \/ \E o \in Operators : ReplayStep(o)

Spec == Init /\ [][Next]_vars

\* The dispatcher command is run again and again and time passes; nobody has to
\* submit an order, cut off a batch or replay a dead letter.
Fairness ==
  /\ \A d \in Dispatchers : WF_vars(DispatcherStep(d))
  /\ WF_vars(\E e \in Events : BackoffElapses(e))

FairSpec == Spec /\ Fairness

-----------------------------------------------------------------------------
(* Properties                                                              *)

Applied(e) == Registered(e) /\ HasProcessed(e)

DeadLettersOf(e) == {k \in 1 .. Len(deadLetters) : deadLetters[k].event = e}

TablesTyped ==
  /\ outbox \in Seq(Row)
  /\ attempts \in Seq(Seq(Nat)) /\ Len(attempts) = Len(outbox)
  /\ inbox \subseteq {<<ConsumerOf[t], e>> : t \in DOMAIN ConsumerOf, e \in Events}
  /\ deadLetters \in Seq(DeadLetterRow)
  /\ \A k \in 1 .. Len(deadLetters) : deadLetters[k].event \in Events
  /\ effects \in Seq(Nat) /\ Len(effects) = Len(outbox)

BatchTyped(d) ==
  /\ DOMAIN batch[d] \subseteq Events
  /\ \A e \in DOMAIN batch[d] : batch[d][e] \in CachedRow

ProcessesTyped ==
  /\ pc \in [Dispatchers -> Steps]
  /\ DOMAIN batch = Dispatchers
  /\ \A d \in Dispatchers : BatchTyped(d)
  /\ attempt \in [Dispatchers -> Nat]
  /\ replaying \in [Operators -> 0 .. Len(deadLetters)]
  /\ interruptions \in 0 .. MaxInterruptions

HandlersRegistered ==
  \A d \in Dispatchers : \A e \in DOMAIN batch[d] :
    pc[d] = "handling" /\ Current(d, e) => Registered(e)

\* Type invariant; every event id a table or a process holds is a row of the
\* outbox, and a dispatcher runs handlers of registered types only.
TypeOK == TablesTyped /\ ProcessesTyped /\ HandlersRegistered

\* The business effects of an event are committed exactly when its inbox row is,
\* and never twice, through any redelivery, interruption or race of dispatchers
\* (inbox.process_once and the primary key of inbox_events).
EffectsExactlyOnce ==
  \A e \in Events : effects[e] = IF Applied(e) THEN 1 ELSE 0

\* No event leaves the PENDING queue unaccounted for: a PUBLISHED event has had
\* its effects, a FAILED one can be found in the dead-letter table.
NothingLost ==
  \A e \in Events :
    /\ outbox[e].status = "PUBLISHED" => Applied(e)
    /\ outbox[e].status = "FAILED" => DeadLettersOf(e) # {}

\* An event is caused by an applied event, and two events with one cause are
\* copies of a single follow-up: effects and follow-up event are atomic and the
\* chain of a saga never forks (the handlers' commit).
OneFollowUp ==
  \A e, f \in Events :
    /\ outbox[e].cause # 0 => Applied(outbox[e].cause)
    /\ outbox[e].cause # 0 /\ outbox[e].cause = outbox[f].cause
         => outbox[e].origin = outbox[f].origin

\* One dispatcher whose handlers get their connections, however many batches are cut
\* off: what lies in the dead-letter table has had no effect, so replaying it is safe
\* (dispatch_pending_batch, process_once, move_to_dead_letter).
DeadLettersNotApplied ==
  \A k \in 1 .. Len(deadLetters) :
    LET e == deadLetters[k].event
    IN  ~Applied(e) /\ outbox[e].status = "FAILED"

\* The same, and one operator: of an event and its replayed copies, at most one is
\* applied, although every copy has an event_id of its own and the inbox cannot
\* connect them.
FactAppliedOnce ==
  \A e, f \in Events :
    e # f /\ outbox[e].origin = outbox[f].origin => ~(Applied(e) /\ Applied(f))

\* One operator: each replayed dead letter has produced exactly one copy
\* (DeadLetterEventRepository.replay refuses a second replay).
ReplayedOnce ==
  \A o \in Events :
    Cardinality({e \in Copies : outbox[e].origin = o}) =
    Cardinality({k \in 1 .. Len(deadLetters) :
                   deadLetters[k].replayed /\ outbox[deadLetters[k].event].origin = o})

\* One dispatcher: the attempt rows of an event are numbered 1, 2, ..., its
\* failure_count is their number, it is FAILED exactly when there are
\* max_attempts of them, and a PENDING event waits exactly if it has failed.
RetryAccounting ==
  \A e \in Events :
    LET n == Len(attempts[e])
    IN  /\ \A i \in 1 .. n : attempts[e][i] = i
        /\ outbox[e].failures = n
        /\ n <= MaxAttempts
        /\ outbox[e].status = "FAILED" <=> n = MaxAttempts
        /\ outbox[e].status = "PENDING" => (outbox[e].next = "none" <=> n = 0)

\* Any number of dispatchers: the attempt numbers of an event have no gap, none is
\* recorded by more dispatchers than there are, an event is given up no earlier than
\* max_attempts, and a dispatcher that still has it in its batch then can add to the
\* attempts and to the dead letters once (next_attempt_number, move_to_dead_letter).
RetriesBounded ==
  \A e \in Events :
    LET recorded == Range(attempts[e])
        greatest == Cardinality(recorded)
    IN  /\ recorded = 1 .. greatest
        /\ \A n \in recorded :
             Cardinality({i \in 1 .. Len(attempts[e]) : attempts[e][i] = n})
               <= Cardinality(Dispatchers)
        /\ greatest < MaxAttempts + Cardinality(Dispatchers)
        /\ outbox[e].status = "PENDING" => greatest < MaxAttempts
        /\ DeadLettersOf(e) # {} => greatest >= MaxAttempts
        /\ Cardinality(DeadLettersOf(e)) <= Cardinality(Dispatchers)

\* One dispatcher: PUBLISHED and FAILED are final, and such a row is not written
\* any more.
SettledForever ==
  [][\A e \in Events : outbox[e].status # "PENDING" => outbox'[e] = outbox[e]]_vars

\* Any number of dispatchers: a row that has left the queue never comes back to it,
\* and its verdict changes only if the event was applied: a slower dispatcher works
\* on a row it cached as PENDING and writes what it changed, not the whole row
\* (mark_published, mark_retryable_failure, mark_failed).
SettledStaysSettled ==
  [][\A e \in Events :
       LET verdict == outbox[e].status
       IN  verdict # "PENDING" =>
             /\ outbox'[e].status # "PENDING"
             /\ outbox'[e].status # verdict => Applied(e)]_vars

\* The queue drains: from some point on no event is PENDING, if outside
\* transactions and interruptions stop and the dispatcher is run again and again.
QueueDrains == <>[](\A e \in Events : outbox[e].status # "PENDING")

-----------------------------------------------------------------------------
(* The refinement of EventLifecycle: a fact is the first event that told it *)
(* (its origin); a fact two of whose copies are applied has no stage there. *)

Stage(o) ==
  LET copies == {e \in Events : outbox[e].origin = o}
      applied == {e \in copies : Applied(e)}
      Has(set, status) == \E e \in set : outbox[e].status = status
  IN  CASE copies = {} -> "absent"
        [] Cardinality(applied) > 1 -> "applied repeatedly"
        [] Cardinality(applied) = 1 /\ Has(applied, "PENDING") -> "applied"
        [] Cardinality(applied) = 1 /\ Has(applied, "PUBLISHED") -> "published"
        [] applied = {} /\ Has(copies, "PENDING") -> "waiting"
        [] OTHER -> "dead"

=============================================================================
