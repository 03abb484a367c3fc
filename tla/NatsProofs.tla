------------------------------ MODULE NatsProofs ------------------------------
(***************************************************************************)
(* Theorems about NatsPublisher: any number of publishers and dispatchers  *)
(* on one outbox, with batches cut off, lost acknowledgements and a broker *)
(* that may forget what it has stored.                                     *)
(***************************************************************************)
EXTENDS NatsPublisher, DeliveryProofs, FiniteSetTheorems

-----------------------------------------------------------------------------
(* The inductive invariant                                                 *)

\* What a publisher has marked published, it has sent.
MarkedSent ==
  \A p \in Publishers : \A e \in DOMAIN marks[p] :
    marks[p][e] = "PUBLISHED" => e \in Range(stream)

\* The publishers that may still send e: they have it before them, or can fetch it.
MaySend(e) ==
  {p \in Publishers :
     IF e \in Batch(p) THEN e \notin DOMAIN marks[p] ELSE outbox[e].status = "PENDING"}

\* What has been sent and what may be sent stay within the bound together.
MessagesLeft ==
  \A e \in Events :
    MessagesOf(e) + Cardinality(MaySend(e)) <= Cardinality(Publishers) + interruptions

\* Dispatcher's invariants do not suffer from the publishers, but for NothingLost:
\* what a publisher gives up leaves no dead letter.
BesideDispatchers == MarkingApplied /\ EffectsExactlyOnce /\ OneFollowUp

NatsInv ==
  NatsTypeOK /\ BesideDispatchers /\ MarkedSent /\ PublishedDelivered /\ MessagesLeft

-----------------------------------------------------------------------------
(* The outbox side                                                         *)

\* The steps of dispatchers and outside transactions keep what is proved of them.
LEMMA DispatcherSide ==
  ASSUME TypeOK, BesideDispatchers, [Next]_vars
  PROVE  TypeOK' /\ RowsKept /\ inbox \subseteq inbox' /\ BesideDispatchers'
  BY NextTyped, InboxGrows, MarkingStep, EffectsStep, FollowUpStep DEF BesideDispatchers

\* So do a publisher's UPDATEs, which change neither the event a row describes nor
\* another table, and a batch it loses.
LEMMA RowsRewritten ==
  ASSUME TypeOK, BesideDispatchers,
         outbox' \in Seq(Row), Len(outbox') = Len(outbox),
         \A e \in Events : /\ outbox'[e].type = outbox[e].type
                           /\ outbox'[e].cause = outbox[e].cause
                           /\ outbox'[e].origin = outbox[e].origin,
         UNCHANGED <<attempts, inbox, deadLetters, effects, pc, batch, attempt, replaying>>,
         interruptions' \in 0 .. MaxInterruptions
  PROVE  TypeOK' /\ RowsKept /\ BesideDispatchers'
<1>1. Events' = Events /\ RowsKept
  BY DEF Events, RowsKept, TypeOK, TablesTyped
<1>2. TypeOK'
  <2>1. TablesTyped'
    BY <1>1 DEF TypeOK, TablesTyped
  <2>2. HandlersRegistered' /\ \A d \in Dispatchers : BatchTyped(d)'
    BY <1>1, RegisteredStutter
  <2>3. ProcessesTyped'
    BY <2>2 DEF TypeOK, ProcessesTyped
  <2> QED
    BY <2>1, <2>2, <2>3 DEF TypeOK
<1>3. ASSUME NEW e \in Events PROVE Applied(e)' <=> Applied(e)
  BY <1>1, AppliedKept
<1>4. MarkingApplied'
  <2> SUFFICES ASSUME NEW d \in Dispatchers, NEW e \in DOMAIN batch'[d],
                      pc'[d] = "marking", Current(d, e)'
               PROVE  Applied(e)'
    BY DEF MarkingApplied
  <2>1. e \in DOMAIN batch[d] /\ e \in Events /\ pc[d] = "marking" /\ Current(d, e)
    BY DEF TypeOK, ProcessesTyped, BatchTyped, Current
  <2> QED
    BY <1>3, <2>1 DEF BesideDispatchers, MarkingApplied
<1>5. EffectsExactlyOnce'
  BY <1>1, <1>3 DEF BesideDispatchers, EffectsExactlyOnce
<1>6. OneFollowUp'
  <2>1. ASSUME NEW c, Applied(c) PROVE Applied(c)'
    <3>1. \A key \in inbox : key[2] \in Events
      BY DEF TypeOK, TablesTyped
    <3>2. c \in Events
      BY <2>1, <3>1 DEF Applied, HasProcessed, InboxKey
    <3> QED
      BY <1>3, <2>1, <3>2
  <2>2. ASSUME NEW e \in Events', NEW c, c # 0, outbox'[e].cause = c PROVE Applied(c)'
    <3>1. outbox[e].cause = c /\ e \in Events
      BY <1>1, <2>2
    <3>2. Applied(c)
      BY <2>2, <3>1 DEF BesideDispatchers, OneFollowUp
    <3> QED
      BY <2>1, <3>2
  <2>3. ASSUME NEW e \in Events', NEW f \in Events',
               outbox'[e].cause # 0, outbox'[e].cause = outbox'[f].cause
        PROVE  outbox'[e].origin = outbox'[f].origin
    BY <1>1, <2>3 DEF BesideDispatchers, OneFollowUp
  <2> QED
    BY <2>2, <2>3 DEF OneFollowUp, Applied, Registered, HasProcessed, InboxKey
<1> QED
  BY <1>1, <1>2, <1>4, <1>5, <1>6 DEF BesideDispatchers

-----------------------------------------------------------------------------
(* The broker's side                                                       *)

\* The messages of an event are finitely many.
LEMMA MessagesFinite ==
  ASSUME stream \in Seq(Events), NEW e
  PROVE  /\ IsFiniteSet({i \in 1 .. Len(stream) : stream[i] = e})
         /\ MessagesOf(e) \in Nat
<1>1. Len(stream) \in Nat
  OBVIOUS
<1>2. IsFiniteSet(1 .. Len(stream))
  BY <1>1, FS_Interval
<1>3. IsFiniteSet({i \in 1 .. Len(stream) : stream[i] = e})
  BY <1>2, FS_Subset
<1> QED
  BY <1>3, FS_CardinalityType DEF MessagesOf

\* The publishers that may send an event are finitely many.
LEMMA MaySendFinite ==
  ASSUME NEW e
  PROVE  /\ IsFiniteSet(MaySend(e)) /\ Cardinality(MaySend(e)) \in Nat
         /\ Cardinality(MaySend(e)) <= Cardinality(Publishers)
         /\ Cardinality(Publishers) \in Nat
<1>1. MaySend(e) \subseteq Publishers
  BY DEF MaySend
<1> QED
  BY <1>1, PublishersAssumption, FS_Subset, FS_CardinalityType

\* One element makes a finite set at most one larger.
LEMMA OneMore ==
  ASSUME NEW S, IsFiniteSet(S), NEW x
  PROVE  /\ IsFiniteSet(S \cup {x})
         /\ Cardinality(S) \in Nat /\ Cardinality(S \cup {x}) \in Nat
         /\ Cardinality(S \cup {x}) <= Cardinality(S) + 1
<1>1. IsFiniteSet(S \cup {x})
  BY FS_AddElement
<1>2. Cardinality(S) \in Nat /\ Cardinality(S \cup {x}) \in Nat
  BY <1>1, FS_CardinalityType
<1> QED
  BY <1>1, <1>2, FS_AddElement

\* A message that arrives is in the stream, and is one more of its event at most.
LEMMA Stored ==
  ASSUME stream \in Seq(Events), window \subseteq Range(stream), NEW e \in Events, Store(e)
  PROVE  /\ stream' \in Seq(Events) /\ window' \subseteq Range(stream')
         /\ Range(stream) \subseteq Range(stream') /\ e \in Range(stream')
         /\ MessagesOf(e)' <= MessagesOf(e) + 1 /\ MessagesOf(e)' \in Nat
         /\ \A f \in Events \ {e} : MessagesOf(f)' = MessagesOf(f)
<1>1. CASE e \in window
  <2>1. stream' = stream /\ window' = window
    BY <1>1 DEF Store
  <2>2. \A f \in Events : MessagesOf(f)' = MessagesOf(f)
    BY <2>1 DEF MessagesOf
  <2>3. MessagesOf(e) \in Nat
    BY MessagesFinite
  <2> QED
    BY <1>1, <2>1, <2>2, <2>3
<1>2. CASE e \notin window
  <2> DEFINE n == Len(stream) + 1
             At(f) == {i \in 1 .. Len(stream) : stream[i] = f}
  <2>1. stream' = Append(stream, e) /\ window' = window \cup {e}
    BY <1>2 DEF Store
  <2>2. /\ stream' \in Seq(Events) /\ Len(stream') = n /\ n \in Nat
        /\ stream'[n] = e
        /\ \A i \in 1 .. Len(stream) : stream'[i] = stream[i]
    BY <2>1, AppendRow
  <2>3. Range(stream) \subseteq Range(stream') /\ e \in Range(stream')
    BY <2>2 DEF Range
  <2>4. {i \in 1 .. Len(stream') : stream'[i] = e} = At(e) \cup {n}
    BY <2>2
  <2>5. ASSUME NEW f \in Events \ {e}
        PROVE  {i \in 1 .. Len(stream') : stream'[i] = f} = At(f)
    BY <2>2
  <2>6. IsFiniteSet(At(e)) /\ Cardinality(At(e)) \in Nat
    BY MessagesFinite DEF MessagesOf
  <2>7. /\ Cardinality(At(e) \cup {n}) <= Cardinality(At(e)) + 1
        /\ Cardinality(At(e) \cup {n}) \in Nat
    BY <2>6, OneMore
  <2> QED
    BY <2>1, <2>2, <2>3, <2>4, <2>5, <2>7 DEF MessagesOf
<1> QED
  BY <1>1, <1>2


-----------------------------------------------------------------------------
(* Every step keeps the inductive invariant.                               *)

\* Steps that leave the publishers and the broker alone: a row that leaves the queue
\* as PUBLISHED has been applied, and no row comes back to it.
LEMMA DispatcherKeeps ==
  ASSUME NatsInv, [Next]_vars, UNCHANGED publisherVars
  PROVE  NatsInv'
<1>1. TypeOK /\ BesideDispatchers
  BY DEF NatsInv, NatsTypeOK
<1>2. TypeOK' /\ RowsKept /\ inbox \subseteq inbox' /\ BesideDispatchers'
  BY <1>1, DispatcherSide
<1>3. Events \subseteq Events'
  BY <1>1, <1>2 DEF TypeOK, TablesTyped, RowsKept, Events
<1>4. UNCHANGED <<fetched, marks, stream, window>>
  BY DEF publisherVars, brokerVars
<1>5. stream \in Seq(Events) /\ interruptions \in Nat /\ interruptions' \in Nat
  BY <1>1, <1>2, BoundsAssumption DEF NatsInv, NatsTypeOK, TypeOK, ProcessesTyped
<1>6. NatsTypeOK'
  <2>1. stream \in Seq(Events')
    BY <1>3, <1>5
  <2>2. \A p \in Publishers : PublisherTyped(p)'
    BY <1>3, <1>4 DEF NatsInv, NatsTypeOK, PublisherTyped, Batch
  <2> QED
    BY <1>2, <1>4, <2>1, <2>2 DEF NatsInv, NatsTypeOK
<1>7. MarkedSent'
  BY <1>4 DEF NatsInv, MarkedSent
<1>8. ASSUME NEW e \in Events, outbox[e].status # "PENDING"
      PROVE  outbox'[e].status # "PENDING"
  BY <1>1, <1>8, StatusChanges
<1>9. ASSUME NEW e \in Events' \ Events PROVE outbox'[e].status = "PENDING"
  BY <1>1, NewRowsPending
<1>10. PublishedDelivered'
  <2>1. ASSUME NEW e \in Events', outbox'[e].status = "PUBLISHED"
        PROVE  Applied(e)' \/ e \in Range(stream)
    <3>1. e \in Events
      BY <1>9, <2>1
    <3>2. Applied(e) \/ e \in Range(stream)
      <4>1. CASE outbox[e].status = "PUBLISHED"
        BY <3>1, <4>1 DEF NatsInv, PublishedDelivered
      <4>2. CASE outbox[e].status # "PUBLISHED"
        <5>1. PICK d \in Dispatchers : Current(d, e) /\ PublishEvent(d)
          BY <1>1, <2>1, <3>1, <4>2, StatusChanges
        <5> QED
          BY <1>1, <5>1 DEF PublishEvent, BesideDispatchers, MarkingApplied, Current
      <4> QED
        BY <4>1, <4>2
    <3> QED
      BY <1>1, <1>2, <3>1, <3>2, AppliedKept
  <2> QED
    BY <1>4, <2>1 DEF PublishedDelivered
<1>11. interruptions <= interruptions'
  <2>1. CASE \E d \in Dispatchers : Interrupt(d)
    BY <1>5, <2>1 DEF Interrupt
  <2>2. CASE ~\E d \in Dispatchers : Interrupt(d)
    <3>1. interruptions' = interruptions
      BY <2>2 DEF Next, Submit, BackoffElapses, DispatcherStep, ReplayStep, Fetch,
           RejectUnsupported, ConnectionFails, SkipProcessed, StartHandler, HandlerRaises,
           HandlerCommits, FlushRefused, PublishEvent, RecordFailure, ScheduleRetry,
           MoveToDeadLetter, ReplayRead, ReplayCommit, ReplayAbandoned, vars
    <3> QED
      BY <1>5, <3>1
  <2> QED
    BY <2>1, <2>2
<1>12. MessagesLeft'
  <2> SUFFICES ASSUME NEW e \in Events'
               PROVE  MessagesOf(e)' + Cardinality(MaySend(e)')
                        <= Cardinality(Publishers) + interruptions'
    BY DEF MessagesLeft
  <2>1. MessagesOf(e)' = MessagesOf(e) /\ MessagesOf(e) \in Nat
    BY <1>4, <1>5, MessagesFinite DEF MessagesOf
  <2>2. CASE e \in Events
    <3>1. MaySend(e)' \subseteq MaySend(e)
      BY <1>4, <1>8, <2>2 DEF MaySend, Batch
    <3>2. /\ Cardinality(MaySend(e)') <= Cardinality(MaySend(e))
          /\ Cardinality(MaySend(e)') \in Nat /\ Cardinality(MaySend(e)) \in Nat
          /\ Cardinality(Publishers) \in Nat
      BY <3>1, MaySendFinite, FS_Subset, FS_CardinalityType
    <3>3. MessagesOf(e) + Cardinality(MaySend(e)) <= Cardinality(Publishers) + interruptions
      BY <2>2 DEF NatsInv, MessagesLeft
    <3> QED
      BY <1>5, <1>11, <2>1, <3>2, <3>3
  <2>3. CASE e \notin Events
    <3>1. {i \in 1 .. Len(stream) : stream[i] = e} = {}
      BY <1>5, <2>3
    <3>2. MessagesOf(e) = 0
      BY <3>1, FS_EmptySet DEF MessagesOf
    <3>3. MaySend(e)' \subseteq Publishers
      BY DEF MaySend
    <3>4. /\ Cardinality(MaySend(e)') <= Cardinality(Publishers)
          /\ Cardinality(MaySend(e)') \in Nat /\ Cardinality(Publishers) \in Nat
      BY <3>3, PublishersAssumption, FS_Subset, FS_CardinalityType
    <3> QED
      BY <1>5, <2>1, <3>2, <3>4
  <2> QED
    BY <2>2, <2>3
<1> QED
  BY <1>2, <1>6, <1>7, <1>10, <1>12 DEF NatsInv

\* Steps of publishers and broker that leave the outbox alone.
LEMMA OutboxAlone ==
  ASSUME NatsInv, UNCHANGED vars
  PROVE  TypeOK' /\ BesideDispatchers' /\ Events' = Events
  BY DispatcherSide DEF NatsInv, NatsTypeOK, vars, Events

\* A publisher that fetches a pending row could have fetched it before.
LEMMA PublisherFetchKeeps ==
  ASSUME NatsInv, NEW p \in Publishers, PublisherFetch(p)
  PROVE  NatsInv'
<1> DEFINE rows == [e \in FetchPending |->
                     [failures |-> outbox[e].failures, next |-> outbox[e].next]]
<1>1. /\ fetched' = [fetched EXCEPT ![p] = rows] /\ fetched[p] = <<>>
      /\ UNCHANGED <<vars, marks, stream, window>>
  BY DEF PublisherFetch, brokerVars
<1>2. TypeOK' /\ BesideDispatchers' /\ Events' = Events
  BY <1>1, OutboxAlone
<1>3. /\ fetched'[p] = rows /\ \A q \in Publishers \ {p} : fetched'[q] = fetched[q]
      /\ DOMAIN fetched' = Publishers
  BY <1>1 DEF NatsInv, NatsTypeOK
<1>4. /\ FetchPending \subseteq Events
      /\ \A e \in FetchPending : outbox[e].status = "PENDING"
  BY DEF FetchPending, Eligible
<1>5. \A e \in FetchPending : rows[e] \in CachedRow
  <2>1. ASSUME NEW e \in FetchPending PROVE outbox[e] \in Row
    <3>1. outbox \in Seq(Row) /\ e \in 1 .. Len(outbox)
      BY <1>4 DEF NatsInv, NatsTypeOK, TypeOK, TablesTyped, Events
    <3> QED
      BY <3>1
  <2> QED
    BY <2>1 DEF Row, CachedRow
<1>6. Batch(p) = {} /\ DOMAIN marks[p] = {}
  <2>1. Batch(p) = {}
    BY <1>1 DEF Batch
  <2> QED
    BY <2>1 DEF NatsInv, NatsTypeOK, PublisherTyped
<1>7. ASSUME NEW q \in Publishers PROVE PublisherTyped(q)'
  <2>1. CASE q = p
    BY <1>1, <1>2, <1>3, <1>4, <1>5, <1>6, <2>1 DEF PublisherTyped, Batch
  <2>2. CASE q # p
    BY <1>1, <1>2, <1>3, <2>2 DEF NatsInv, NatsTypeOK, PublisherTyped, Batch
  <2> QED
    BY <2>1, <2>2
<1>8. NatsTypeOK' /\ MarkedSent'
  BY <1>1, <1>2, <1>3, <1>7 DEF NatsInv, NatsTypeOK, MarkedSent
<1>9. PublishedDelivered'
  BY <1>1, <1>2 DEF NatsInv, PublishedDelivered, vars, Applied, Registered, HasProcessed,
                    InboxKey
<1>10. ASSUME NEW e \in Events PROVE MaySend(e)' \subseteq MaySend(e)
  <2>1. \A q \in Publishers \ {p} : q \in MaySend(e)' <=> q \in MaySend(e)
    BY <1>1, <1>3 DEF MaySend, Batch, vars
  <2>2. p \in MaySend(e)' => p \in MaySend(e)
    BY <1>1, <1>3, <1>4, <1>6 DEF MaySend, Batch, vars
  <2> QED
    BY <2>1, <2>2 DEF MaySend
<1>11. MessagesLeft'
  <2> SUFFICES ASSUME NEW e \in Events
               PROVE  MessagesOf(e)' + Cardinality(MaySend(e)')
                        <= Cardinality(Publishers) + interruptions'
    BY <1>2 DEF MessagesLeft
  <2>1. /\ Cardinality(MaySend(e)') <= Cardinality(MaySend(e))
        /\ Cardinality(MaySend(e)') \in Nat /\ Cardinality(MaySend(e)) \in Nat
        /\ Cardinality(Publishers) \in Nat
    BY <1>10, MaySendFinite, FS_Subset, FS_CardinalityType
  <2>2. MessagesOf(e)' = MessagesOf(e) /\ MessagesOf(e) \in Nat
    BY <1>1, MessagesFinite DEF MessagesOf, NatsInv, NatsTypeOK
  <2>3. MessagesOf(e) + Cardinality(MaySend(e)) <= Cardinality(Publishers) + interruptions
    BY DEF NatsInv, MessagesLeft
  <2>4. interruptions' = interruptions /\ interruptions \in Int
    BY <1>1 DEF vars, NatsInv, NatsTypeOK, TypeOK, ProcessesTyped
  <2> QED
    BY <2>1, <2>2, <2>3, <2>4
<1> QED
  BY <1>2, <1>8, <1>9, <1>11 DEF NatsInv


\* p sends e, or tries to, and marks it.
Sends(p, e, status) ==
  /\ Publishing(p, e)
  /\ \/ Store(e)
     \/ status = "FAILED" /\ UNCHANGED brokerVars
  /\ status \in {"PUBLISHED", "FAILED"}
  /\ Mark(p, e, status)
  /\ UNCHANGED <<vars, fetched>>

\* What a publisher sends it has marked, and will not send again; it marks published
\* what has arrived.
LEMMA SendsKeeps ==
  ASSUME NatsInv, NEW p \in Publishers, NEW e \in Batch(p),
         NEW status \in {"PUBLISHED", "FAILED"}, Sends(p, e, status)
  PROVE  NatsInv'
<1>1. /\ NatsTypeOK /\ stream \in Seq(Events) /\ window \subseteq Range(stream)
      /\ e \in Events /\ PublisherTyped(p)
  BY DEF NatsInv, NatsTypeOK, PublisherTyped
<1>2. UNCHANGED <<vars, fetched, outbox, inbox, interruptions>>
  BY DEF Sends, vars
<1>3. TypeOK' /\ BesideDispatchers' /\ Events' = Events
  BY <1>2, OutboxAlone
<1>4. /\ e \notin DOMAIN marks[p]
      /\ DOMAIN marks' = Publishers
      /\ DOMAIN marks'[p] = DOMAIN marks[p] \cup {e}
      /\ marks'[p][e] = status
      /\ \A f \in DOMAIN marks[p] : marks'[p][f] = marks[p][f]
      /\ \A q \in Publishers \ {p} : marks'[q] = marks[q]
  BY <1>1 DEF Sends, Publishing, Mark, NatsTypeOK
<1>5. /\ stream' \in Seq(Events) /\ window' \subseteq Range(stream')
      /\ Range(stream) \subseteq Range(stream')
      /\ status = "PUBLISHED" => e \in Range(stream')
      /\ MessagesOf(e)' <= MessagesOf(e) + 1 /\ MessagesOf(e)' \in Nat
      /\ \A f \in Events \ {e} : MessagesOf(f)' = MessagesOf(f)
  <2>1. CASE Store(e)
    BY <1>1, <2>1, Stored
  <2>2. CASE status = "FAILED" /\ UNCHANGED brokerVars
    <3>1. stream' = stream /\ window' = window
      BY <2>2 DEF brokerVars
    <3>2. \A f : MessagesOf(f)' = MessagesOf(f)
      BY <3>1 DEF MessagesOf
    <3>3. MessagesOf(e) \in Nat
      BY <1>1, MessagesFinite
    <3> QED
      BY <1>1, <2>2, <3>1, <3>2, <3>3
  <2> QED
    BY <2>1, <2>2 DEF Sends
<1>6. ASSUME NEW q \in Publishers PROVE PublisherTyped(q)'
  <2>1. CASE q = p
    BY <1>1, <1>2, <1>3, <1>4, <2>1 DEF PublisherTyped, Batch
  <2>2. CASE q # p
    BY <1>1, <1>2, <1>3, <1>4, <2>2 DEF NatsTypeOK, PublisherTyped, Batch
  <2> QED
    BY <2>1, <2>2
<1>7. NatsTypeOK'
  BY <1>1, <1>2, <1>3, <1>4, <1>5, <1>6 DEF NatsTypeOK
<1>8. MarkedSent'
  <2> SUFFICES ASSUME NEW q \in Publishers, NEW f \in DOMAIN marks'[q],
                      marks'[q][f] = "PUBLISHED"
               PROVE  f \in Range(stream')
    BY DEF MarkedSent
  <2>1. CASE q = p /\ f = e
    BY <1>4, <1>5, <2>1
  <2>2. CASE ~(q = p /\ f = e)
    BY <1>4, <1>5, <2>2 DEF NatsInv, MarkedSent
  <2> QED
    BY <2>1, <2>2
<1>9. PublishedDelivered'
  BY <1>2, <1>3, <1>5 DEF NatsInv, PublishedDelivered, Applied, Registered, HasProcessed,
                          InboxKey
<1>10. ASSUME NEW f \in Events PROVE MaySend(f)' = MaySend(f) \ (IF f = e THEN {p} ELSE {})
  <2>1. \A q \in Publishers \ {p} : q \in MaySend(f)' <=> q \in MaySend(f)
    BY <1>2, <1>4 DEF MaySend, Batch
  <2>2. p \in MaySend(f)' <=> p \in MaySend(f) /\ f # e
    BY <1>2, <1>4 DEF MaySend, Batch
  <2> QED
    BY <2>1, <2>2 DEF MaySend
<1>11. p \in MaySend(e)
  BY <1>4 DEF MaySend
<1>12. MessagesLeft'
  <2> SUFFICES ASSUME NEW f \in Events
               PROVE  MessagesOf(f)' + Cardinality(MaySend(f)')
                        <= Cardinality(Publishers) + interruptions'
    BY <1>3 DEF MessagesLeft
  <2>1. /\ IsFiniteSet(MaySend(f)) /\ Cardinality(MaySend(f)) \in Nat
        /\ Cardinality(Publishers) \in Nat /\ MessagesOf(f) \in Nat
        /\ MessagesOf(f)' \in Nat
    <3>1. \A g \in Events : MessagesOf(g) \in Nat
      BY <1>1, MessagesFinite
    <3> QED
      BY <1>5, <3>1, MaySendFinite
  <2>2. MessagesOf(f) + Cardinality(MaySend(f)) <= Cardinality(Publishers) + interruptions
    BY DEF NatsInv, MessagesLeft
  <2>3. interruptions' = interruptions /\ interruptions \in Int
    BY <1>1, <1>2 DEF NatsTypeOK, TypeOK, ProcessesTyped
  <2>4. CASE f = e
    <3>1. Cardinality(MaySend(e) \ {p}) = Cardinality(MaySend(e)) - 1
      BY <1>11, <2>1, <2>4, FS_RemoveElement
    <3>2. MaySend(e)' = MaySend(e) \ {p}
      BY <1>1, <1>10
    <3> QED
      BY <1>5, <2>1, <2>2, <2>3, <2>4, <3>1, <3>2
  <2>5. CASE f # e
    <3>1. MaySend(f)' = MaySend(f)
      BY <1>10, <2>5
    <3>2. MessagesOf(f)' = MessagesOf(f)
      BY <1>5, <2>5
    <3> QED
      BY <2>2, <2>3, <3>1, <3>2
  <2> QED
    BY <2>4, <2>5
<1> QED
  BY <1>3, <1>7, <1>8, <1>9, <1>12 DEF NatsInv

\* What one publication does, acknowledged or not.
LEMMA PublicationSends ==
  ASSUME NEW p \in Publishers, PublishAcked(p) \/ PublishRaises(p)
  PROVE  \E e \in Batch(p) : \E status \in {"PUBLISHED", "FAILED"} : Sends(p, e, status)
<1>1. CASE PublishAcked(p)
  <2>1. PICK e \in Batch(p) : /\ Publishing(p, e) /\ Store(e) /\ Mark(p, e, "PUBLISHED")
                              /\ UNCHANGED <<vars, fetched>>
    BY <1>1 DEF PublishAcked
  <2>2. Sends(p, e, "PUBLISHED")
    BY <2>1 DEF Sends
  <2> QED
    BY <2>2
<1>2. CASE PublishRaises(p)
  <2>1. PICK e \in Batch(p) : /\ Publishing(p, e) /\ Mark(p, e, "FAILED")
                              /\ Store(e) \/ UNCHANGED brokerVars
                              /\ UNCHANGED <<vars, fetched>>
    BY <1>2 DEF PublishRaises
  <2>2. Sends(p, e, "FAILED")
    BY <2>1 DEF Sends
  <2> QED
    BY <2>2
<1> QED
  BY <1>1, <1>2

-----------------------------------------------------------------------------

\* The row a publisher's commit makes of a row it has marked.
LEMMA MarkedRow ==
  ASSUME NatsTypeOK, NEW p \in Publishers, NEW e \in Batch(p), DOMAIN marks[p] = Batch(p)
  PROVE  /\ Marked(p, e) \in Row
         /\ Marked(p, e).type = outbox[e].type /\ Marked(p, e).cause = outbox[e].cause
         /\ Marked(p, e).origin = outbox[e].origin
         /\ Marked(p, e).status = marks[p][e]
         /\ marks[p][e] \in {"PUBLISHED", "FAILED"}
<1>1. e \in Events /\ fetched[p][e] \in CachedRow /\ marks[p][e] \in {"PUBLISHED", "FAILED"}
  BY DEF NatsTypeOK, PublisherTyped
<1>2. outbox[e] \in Row
  <2>1. outbox \in Seq(Row) /\ e \in 1 .. Len(outbox)
    BY <1>1 DEF NatsTypeOK, TypeOK, TablesTyped, Events
  <2> QED
    BY <2>1
<1> DEFINE row == outbox[e]
           cached == fetched[p][e]
<1>3. /\ MarkPublished(row, cached) \in Row
      /\ MarkFailed(row, cached) \in Row
  BY <1>1, <1>2, RowTypes
<1>4. /\ MarkPublished(row, cached).type = row.type
      /\ MarkPublished(row, cached).cause = row.cause
      /\ MarkPublished(row, cached).origin = row.origin
      /\ MarkPublished(row, cached).status = "PUBLISHED"
      /\ MarkFailed(row, cached).type = row.type
      /\ MarkFailed(row, cached).cause = row.cause
      /\ MarkFailed(row, cached).origin = row.origin
      /\ MarkFailed(row, cached).status = "FAILED"
  BY <1>2 DEF MarkPublished, MarkFailed, Row
<1> HIDE DEF row, cached
<1>5. CASE marks[p][e] = "PUBLISHED"
  <2>1. Marked(p, e) = MarkPublished(row, cached)
    BY <1>5 DEF Marked, row, cached
  <2> QED
    BY <1>1, <1>3, <1>4, <1>5, <2>1 DEF row
<1>6. CASE marks[p][e] = "FAILED"
  <2>1. Marked(p, e) = MarkFailed(row, cached)
    BY <1>6 DEF Marked, row, cached
  <2> QED
    BY <1>1, <1>3, <1>4, <1>6, <2>1 DEF row
<1> QED
  BY <1>1, <1>5, <1>6


\* p gives its batch back, having changed at most rows whose events it had all
\* marked, and which are no more PENDING; or having been cut off.
Closes(p) ==
  /\ Close(p)
  /\ UNCHANGED <<attempts, inbox, deadLetters, effects, pc, batch, attempt, replaying,
                 stream, window>>
  /\ outbox' \in Seq(Row) /\ Len(outbox') = Len(outbox)
  /\ \A e \in Events : /\ outbox'[e].type = outbox[e].type
                       /\ outbox'[e].cause = outbox[e].cause
                       /\ outbox'[e].origin = outbox[e].origin
  /\ \A e \in Events :
       \/ outbox'[e].status = outbox[e].status
       \/ outbox'[e].status = "FAILED"
       \/ outbox'[e].status = "PUBLISHED" /\ e \in Range(stream)
  /\ \/ /\ interruptions' = interruptions
        /\ DOMAIN marks[p] = Batch(p)
        /\ \A e \in Batch(p) : outbox'[e].status # "PENDING"
     \/ /\ interruptions' = interruptions + 1 /\ interruptions < MaxInterruptions
        /\ outbox' = outbox

\* The one commit of a batch.
LEMMA CommitCloses ==
  ASSUME NatsInv, NEW p \in Publishers, PublisherCommit(p)
  PROVE  Closes(p)
<1>1. /\ Batch(p) \subseteq Events /\ DOMAIN marks[p] = Batch(p) /\ Close(p)
      /\ outbox' = [e \in Events |-> IF e \in Batch(p) THEN Marked(p, e) ELSE outbox[e]]
      /\ UNCHANGED <<attempts, inbox, deadLetters, effects, pc, batch, attempt, replaying,
                     interruptions, stream, window>>
  BY DEF PublisherCommit, NatsInv, NatsTypeOK, PublisherTyped, brokerVars
<1>2. outbox \in Seq(Row) /\ Len(outbox) \in Nat /\ Events = 1 .. Len(outbox)
  BY DEF NatsInv, NatsTypeOK, TypeOK, TablesTyped, Events
<1>3. ASSUME NEW e \in Batch(p)
      PROVE  /\ outbox'[e] \in Row
             /\ outbox'[e].type = outbox[e].type
             /\ outbox'[e].cause = outbox[e].cause
             /\ outbox'[e].origin = outbox[e].origin
             /\ outbox'[e].status = marks[p][e]
             /\ outbox'[e].status \in {"PUBLISHED", "FAILED"}
  BY <1>1, MarkedRow DEF NatsInv
<1>4. ASSUME NEW e \in Events \ Batch(p) PROVE outbox'[e] = outbox[e] /\ outbox'[e] \in Row
  BY <1>1, <1>2
<1>5. outbox' \in Seq(Row) /\ Len(outbox') = Len(outbox)
  <2>1. outbox' \in [1 .. Len(outbox) -> Row]
    BY <1>1, <1>2, <1>3, <1>4
  <2> QED
    BY <1>2, <2>1
<1>6. \A e \in Batch(p) : outbox'[e].status = "PUBLISHED" => e \in Range(stream)
  BY <1>1, <1>3 DEF NatsInv, MarkedSent
<1> QED
  BY <1>1, <1>3, <1>4, <1>5, <1>6 DEF Closes

\* An interruption loses the marks.
LEMMA InterruptCloses ==
  ASSUME NatsInv, NEW p \in Publishers, PublisherInterrupt(p)
  PROVE  Closes(p)
  BY DEF PublisherInterrupt, Closes, NatsInv, NatsTypeOK, TypeOK, TablesTyped, brokerVars

\* A batch that is given back was marked, or costs an interruption.
LEMMA ClosesKeeps ==
  ASSUME NatsInv, NEW p \in Publishers, Closes(p)
  PROVE  NatsInv'
<1>1. TypeOK /\ BesideDispatchers /\ interruptions \in 0 .. MaxInterruptions
  BY DEF NatsInv, NatsTypeOK, TypeOK, ProcessesTyped
<1>2. interruptions' \in 0 .. MaxInterruptions
  BY <1>1, BoundsAssumption DEF Closes
<1>3. TypeOK' /\ RowsKept /\ BesideDispatchers'
  BY <1>1, <1>2, RowsRewritten DEF Closes
<1>4. Events' = Events /\ stream' = stream /\ window' = window
  BY DEF Closes, Events
<1>5. /\ DOMAIN fetched' = Publishers /\ DOMAIN marks' = Publishers
      /\ DOMAIN fetched'[p] = {} /\ DOMAIN marks'[p] = {}
      /\ \A q \in Publishers \ {p} : fetched'[q] = fetched[q] /\ marks'[q] = marks[q]
  BY DEF Closes, Close, NatsInv, NatsTypeOK
<1>6. ASSUME NEW q \in Publishers PROVE PublisherTyped(q)'
  <2>1. CASE q = p
    BY <1>5, <2>1 DEF PublisherTyped, Batch
  <2>2. CASE q # p
    BY <1>4, <1>5, <2>2 DEF NatsInv, NatsTypeOK, PublisherTyped, Batch
  <2> QED
    BY <2>1, <2>2
<1>7. NatsTypeOK'
  BY <1>3, <1>4, <1>5, <1>6 DEF NatsInv, NatsTypeOK
<1>8. MarkedSent'
  BY <1>4, <1>5 DEF NatsInv, MarkedSent
<1>9. PublishedDelivered'
  <2>1. ASSUME NEW e \in Events, outbox'[e].status = "PUBLISHED"
        PROVE  Applied(e)' \/ e \in Range(stream)
    <3>1. outbox[e].status = "PUBLISHED" \/ e \in Range(stream)
      BY <2>1 DEF Closes
    <3>2. Applied(e) \/ e \in Range(stream)
      BY <3>1 DEF NatsInv, PublishedDelivered
    <3> QED
      BY <1>1, <1>3, <3>2, AppliedKept DEF Closes
  <2> QED
    BY <1>4, <2>1 DEF PublishedDelivered
<1>10. ASSUME NEW e \in Events
       PROVE  /\ \A q \in Publishers \ {p} : q \in MaySend(e)' => q \in MaySend(e)
              /\ p \in MaySend(e)' => p \in MaySend(e) \/ interruptions' = interruptions + 1
  <2>1. outbox'[e].status = "PENDING" => outbox[e].status = "PENDING"
    BY DEF Closes
  <2>2. \A q \in Publishers \ {p} : q \in MaySend(e)' => q \in MaySend(e)
    BY <1>5, <2>1 DEF MaySend, Batch
  <2>3. ASSUME p \in MaySend(e)', interruptions' # interruptions + 1 PROVE p \in MaySend(e)
    <3>1. outbox'[e].status = "PENDING"
      BY <1>5, <2>3 DEF MaySend, Batch
    <3>2. e \notin Batch(p)
      BY <2>3, <3>1 DEF Closes
    <3> QED
      BY <2>1, <3>1, <3>2 DEF MaySend
  <2> QED
    BY <2>2, <2>3
<1>11. MessagesLeft'
  <2> SUFFICES ASSUME NEW e \in Events
               PROVE  MessagesOf(e)' + Cardinality(MaySend(e)')
                        <= Cardinality(Publishers) + interruptions'
    BY <1>4 DEF MessagesLeft
  <2>1. /\ IsFiniteSet(MaySend(e)) /\ Cardinality(MaySend(e)) \in Nat
        /\ Cardinality(Publishers) \in Nat
    BY MaySendFinite
  <2>2. MessagesOf(e)' = MessagesOf(e) /\ MessagesOf(e) \in Nat
    BY <1>4, MessagesFinite DEF MessagesOf, NatsInv, NatsTypeOK
  <2>3. MessagesOf(e) + Cardinality(MaySend(e)) <= Cardinality(Publishers) + interruptions
    BY DEF NatsInv, MessagesLeft
  <2>4. CASE interruptions' = interruptions
    <3>1. MaySend(e)' \subseteq MaySend(e)
      BY <1>1, <1>10, <2>4 DEF MaySend
    <3>2. Cardinality(MaySend(e)') <= Cardinality(MaySend(e)) /\ Cardinality(MaySend(e)') \in Nat
      BY <2>1, <3>1, FS_Subset, FS_CardinalityType
    <3> QED
      BY <1>1, <2>1, <2>2, <2>3, <2>4, <3>2
  <2>5. CASE interruptions' = interruptions + 1
    <3>1. MaySend(e)' \subseteq MaySend(e) \cup {p}
      BY <1>10 DEF MaySend
    <3>2. /\ IsFiniteSet(MaySend(e) \cup {p})
          /\ Cardinality(MaySend(e) \cup {p}) <= Cardinality(MaySend(e)) + 1
          /\ Cardinality(MaySend(e) \cup {p}) \in Nat
      BY <2>1, OneMore
    <3>3. /\ Cardinality(MaySend(e)') <= Cardinality(MaySend(e) \cup {p})
          /\ Cardinality(MaySend(e)') \in Nat
      BY <3>1, <3>2, FS_Subset, FS_CardinalityType
    <3> QED
      BY <1>1, <2>1, <2>2, <2>3, <2>5, <3>2, <3>3
  <2> QED
    BY <2>4, <2>5 DEF Closes
<1> QED
  BY <1>3, <1>7, <1>8, <1>9, <1>11 DEF NatsInv

\* What the broker forgets stays in the stream.
LEMMA ForgetKeeps ==
  ASSUME NatsInv, NEW e \in Events, ForgetId(e)
  PROVE  NatsInv'
<1>1. UNCHANGED <<vars, fetched, marks, stream, outbox, inbox, interruptions>>
      /\ window' \subseteq window
  BY DEF ForgetId, vars
<1>2. TypeOK' /\ BesideDispatchers' /\ Events' = Events
  BY <1>1, OutboxAlone
<1>3. NatsTypeOK'
  <2>1. \A p \in Publishers : PublisherTyped(p)'
    BY <1>1, <1>2 DEF NatsInv, NatsTypeOK, PublisherTyped, Batch
  <2> QED
    BY <1>1, <1>2, <2>1 DEF NatsInv, NatsTypeOK
<1>4. MarkedSent' /\ PublishedDelivered'
  BY <1>1, <1>2 DEF NatsInv, MarkedSent, PublishedDelivered, Applied, Registered, HasProcessed,
                    InboxKey
<1>5. MessagesLeft'
  <2>1. ASSUME NEW f \in Events PROVE MaySend(f)' = MaySend(f) /\ MessagesOf(f)' = MessagesOf(f)
    BY <1>1 DEF MaySend, Batch, MessagesOf
  <2> QED
    BY <1>1, <1>2, <2>1 DEF NatsInv, MessagesLeft
<1> QED
  BY <1>2, <1>3, <1>4, <1>5 DEF NatsInv

\* The inductive invariant.
LEMMA NatsInductive ==
  /\ NatsInit => NatsInv
  /\ NatsInv /\ [NatsNext]_natsVars => NatsInv'
<1>1. NatsInit => NatsInv
  <2> SUFFICES ASSUME NatsInit PROVE NatsInv
    OBVIOUS
  <2>1. TypeOK /\ Events = {} /\ stream = <<>> /\ window = {}
    BY InitTyped DEF NatsInit, Init, Events
  <2>2. \A p \in Publishers : fetched[p] = <<>> /\ marks[p] = <<>>
    BY DEF NatsInit
  <2>3. NatsTypeOK
    BY <2>1, <2>2 DEF NatsInit, NatsTypeOK, PublisherTyped, Batch
  <2>4. MarkedSent
    BY <2>2 DEF MarkedSent
  <2>5. BesideDispatchers
    BY DeliveryInductive DEF NatsInit, DeliveryInv, BesideDispatchers
  <2> QED
    BY <2>1, <2>3, <2>4, <2>5 DEF NatsInv, PublishedDelivered, MessagesLeft
<1>2. ASSUME NatsInv, [NatsNext]_natsVars PROVE NatsInv'
  <2>1. CASE Next /\ UNCHANGED publisherVars
    BY <1>2, <2>1, DispatcherKeeps
  <2>2. ASSUME NEW p \in Publishers, PublisherStep(p) PROVE NatsInv'
    <3>1. CASE PublisherFetch(p)
      BY <1>2, <3>1, PublisherFetchKeeps
    <3>2. CASE PublishAcked(p) \/ PublishRaises(p)
      BY <1>2, <3>2, PublicationSends, SendsKeeps
    <3>3. CASE PublisherCommit(p)
      BY <1>2, <3>3, CommitCloses, ClosesKeeps
    <3> QED
      BY <2>2, <3>1, <3>2, <3>3 DEF PublisherStep
  <2>3. ASSUME NEW p \in Publishers, PublisherInterrupt(p) PROVE NatsInv'
    BY <1>2, <2>3, InterruptCloses, ClosesKeeps
  <2>4. ASSUME NEW e \in Events, ForgetId(e) PROVE NatsInv'
    BY <1>2, <2>4, ForgetKeeps
  <2>5. CASE UNCHANGED natsVars
    BY <1>2, <2>5, DispatcherKeeps DEF natsVars
  <2> QED
    BY <1>2, <2>1, <2>2, <2>3, <2>4, <2>5 DEF NatsNext
<1> QED
  BY <1>1, <1>2

\* It holds in every behaviour.
THEOREM NatsInvariant == NatsSpec => []NatsInv
  BY NatsInductive, PTL DEF NatsSpec

\* The outbox, the publishers' batches and marks, and the broker stay typed: a broker
\* remembers only ids of messages it has stored (publish_pending_batch).
THEOREM NatsTypeCorrect == NatsSpec => []NatsTypeOK
<1>1. NatsInv => NatsTypeOK
  BY DEF NatsInv
<1> QED
  BY <1>1, NatsInvariant, PTL

\* With any number of publishers and dispatchers on one outbox, PUBLISHED means that
\* the event is in the stream or has been applied.
THEOREM PublishedIsDelivered == NatsSpec => []PublishedDelivered
<1>1. NatsInv => PublishedDelivered
  BY DEF NatsInv
<1> QED
  BY <1>1, NatsInvariant, PTL

\* The copies of a message number at most one for each publisher and one for each
\* batch cut off, however forgetful the broker is.
THEOREM CopiesBounded == NatsSpec => []MessagesBounded
<1>1. NatsInv => MessagesBounded
  <2> SUFFICES ASSUME NatsInv, NEW e \in Events
               PROVE  MessagesOf(e) <= Cardinality(Publishers) + interruptions
    BY DEF MessagesBounded
  <2>1. MessagesOf(e) + Cardinality(MaySend(e)) <= Cardinality(Publishers) + interruptions
    BY DEF NatsInv, MessagesLeft
  <2>2. MessagesOf(e) \in Nat
    BY MessagesFinite DEF NatsInv, NatsTypeOK
  <2>3. interruptions \in Int
    BY DEF NatsInv, NatsTypeOK, TypeOK, ProcessesTyped
  <2> QED
    BY <2>1, <2>2, <2>3, MaySendFinite
<1> QED
  BY <1>1, NatsInvariant, PTL

\* Publishers on the same outbox do not harm what dispatchers do: the effects of an
\* event are still committed once, and its follow-up recorded once.
THEOREM PublishersDoNoHarm == NatsSpec => [](EffectsExactlyOnce /\ OneFollowUp)
<1>1. NatsInv => EffectsExactlyOnce /\ OneFollowUp
  BY DEF NatsInv, BesideDispatchers
<1> QED
  BY <1>1, NatsInvariant, PTL

=============================================================================
