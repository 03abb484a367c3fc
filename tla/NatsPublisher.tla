--------------------------- MODULE NatsPublisher ---------------------------
(***************************************************************************)
(* The outbox publisher, which drains the outbox into NATS JetStream.      *)
(*                                                                         *)
(*   src/src/eventcart/workers/outbox_publisher.py                         *)
(*   src/src/eventcart/modules/events/{publisher,schemas}.py               *)
(*                                                                         *)
(* One run of publish_pending_batch fetches a batch, awaits the publication *)
(* of one event after the other, and commits all the marks at the end.     *)
(* Another process can get in at every await and before the commit.        *)
(*                                                                         *)
(* It works on the outbox of Dispatcher, beside the brokerless dispatcher: *)
(* nothing in the code reads the event_transport setting, so either command *)
(* drains whatever it finds.  No consumer of the stream is wired up in the *)
(* repository; the message with an event's id stands for its envelope.     *)
(*                                                                         *)
(* JetStream is external: it stores what it is sent, drops a message whose *)
(* Nats-Msg-Id it remembers, and forgets ids as time passes.               *)
(***************************************************************************)
EXTENDS Dispatcher

CONSTANT Publishers    \* outbox publisher processes

ASSUME PublishersAssumption == IsFiniteSet(Publishers)

VARIABLES
  fetched,   \* fetched[p]: the events of p's batch, each with its cached row
  marks,     \* marks[p]: the status p has given to events of its batch, not committed
  stream,    \* JetStream: the event ids of the messages stored, oldest first
  window     \* JetStream: the Nats-Msg-Ids remembered

brokerVars == <<stream, window>>
publisherVars == <<fetched, marks, brokerVars>>
natsVars == <<vars, publisherVars>>

NatsInit ==
  /\ Init
  /\ fetched = [p \in Publishers |-> <<>>]
  /\ marks = [p \in Publishers |-> <<>>]
  /\ stream = <<>>
  /\ window = {}

-----------------------------------------------------------------------------
(* The broker                                                              *)

\* A message arrives: it is stored unless its id is remembered.
Store(e) ==
  /\ stream' = IF e \in window THEN stream ELSE Append(stream, e)
  /\ window' = window \cup {e}

\* The de-duplication window of a message is over.
ForgetId(e) ==
  /\ e \in window
  /\ window' = window \ {e}
  /\ UNCHANGED <<vars, fetched, marks, stream>>

-----------------------------------------------------------------------------
(* publish_pending_batch                                                   *)

Batch(p) == DOMAIN fetched[p]

\* p awaits the publication of e, the oldest event of its batch without a mark.
Publishing(p, e) ==
  LET left == Batch(p) \ DOMAIN marks[p]
  IN  e \in left /\ \A f \in left : e <= f

Mark(p, e, status) ==
  marks' = [marks EXCEPT ![p] = [f \in DOMAIN @ \cup {e} |->
                                   IF f = e THEN status ELSE @[f]]]

\* Mutant: the session is used again.
CloseBatchOnly(p) ==
  /\ fetched' = [fetched EXCEPT ![p] = <<>>]
  /\ marks' = marks

\* The session is closed.
Close(p) ==
  /\ fetched' = [fetched EXCEPT ![p] = <<>>]
  /\ marks' = [marks EXCEPT ![p] = <<>>]

\* run_once has connected and opened a session.  Without a connection, or with
\* nothing to fetch, a run changes nothing.
PublisherFetch(p) ==
  /\ fetched[p] = <<>>
  /\ FetchPending # {}
  /\ fetched' = [fetched EXCEPT ![p] =
       [e \in FetchPending |-> [failures |-> outbox[e].failures, next |-> outbox[e].next]]]
  /\ UNCHANGED <<vars, marks, brokerVars>>

\* The broker acknowledges the message: mark_published.
PublishAcked(p) ==
  \E e \in Batch(p) :
    /\ Publishing(p, e)
    /\ Store(e)
    /\ Mark(p, e, "PUBLISHED")
    /\ UNCHANGED <<vars, fetched>>

\* Mutant: the exception is swallowed.
RaiseSwallowed(p) ==
  \E e \in Batch(p) :
    /\ Publishing(p, e)
    /\ Mark(p, e, "PUBLISHED")
    /\ UNCHANGED <<vars, fetched, brokerVars>>

\* Mutant: nothing catches the exception.
RaiseUncaughtByLoop(p) ==
  /\ \E e \in Batch(p) : Publishing(p, e)
  /\ Close(p)
  /\ UNCHANGED <<vars, brokerVars>>

\* publish raises: the message has not arrived, or it has and its acknowledgement
\* is lost.  mark_failed, at the first failure.
PublishRaises(p) ==
  \E e \in Batch(p) :
    /\ Publishing(p, e)
    /\ Store(e) \/ UNCHANGED brokerVars
    /\ Mark(p, e, "FAILED")
    /\ UNCHANGED <<vars, fetched>>

\* What the UPDATE of the batch's commit makes of a row.
Marked(p, e) ==
  CASE marks[p][e] = "PUBLISHED" -> MarkPublished(outbox[e], fetched[p][e])
    [] marks[p][e] = "FAILED"    -> MarkFailed(outbox[e], fetched[p][e])

\* Mutant: the session is closed without a commit.
CloseUncommitted(p) ==
  /\ Batch(p) # {} /\ DOMAIN marks[p] = Batch(p)
  /\ Close(p)
  /\ UNCHANGED <<vars, brokerVars>>

\* The one commit of the batch.
PublisherCommit(p) ==
  /\ Batch(p) # {} /\ DOMAIN marks[p] = Batch(p)
  /\ outbox' = [e \in Events |-> IF e \in Batch(p) THEN Marked(p, e) ELSE outbox[e]]
  /\ Close(p)
  /\ UNCHANGED <<attempts, inbox, deadLetters, effects, pc, batch, attempt, replaying,
                 interruptions, brokerVars>>

\* The process dies, or the commit gets no connection: every mark of the batch is
\* lost, what was sent is not.
PublisherInterrupt(p) ==
  /\ Batch(p) # {}
  /\ interruptions < MaxInterruptions
  /\ interruptions' = interruptions + 1
  /\ Close(p)
  /\ UNCHANGED <<outbox, attempts, inbox, deadLetters, effects, pc, batch, attempt,
                 replaying, brokerVars>>

-----------------------------------------------------------------------------

PublisherStep(p) ==
  \/ PublisherFetch(p)
  \/ PublishAcked(p) \/ PublishRaises(p)
  \/ PublisherCommit(p)

NatsNext ==
  \/ Next /\ UNCHANGED publisherVars
  \/ \E p \in Publishers : PublisherStep(p) \/ PublisherInterrupt(p)
  \/ \E e \in Events : ForgetId(e)

NatsSpec == NatsInit /\ [][NatsNext]_natsVars

\* The publisher command is run again and again and time passes; nobody has to run
\* the dispatcher.
NatsFairness ==
  /\ WF_natsVars((\E e \in Events : BackoffElapses(e)) /\ UNCHANGED publisherVars)
  /\ \A p \in Publishers : WF_natsVars(PublisherStep(p))

FairNatsSpec == NatsSpec /\ NatsFairness

-----------------------------------------------------------------------------
(* Properties                                                              *)

PublisherTyped(p) ==
  /\ Batch(p) \subseteq Events
  /\ \A e \in Batch(p) : fetched[p][e] \in CachedRow
  /\ DOMAIN marks[p] \subseteq Batch(p)
  /\ \A e \in DOMAIN marks[p] : marks[p][e] \in {"PUBLISHED", "FAILED"}

\* Type invariant.
NatsTypeOK ==
  /\ TypeOK
  /\ DOMAIN fetched = Publishers /\ DOMAIN marks = Publishers
  /\ \A p \in Publishers : PublisherTyped(p)
  /\ stream \in Seq(Events)
  /\ window \subseteq Range(stream)

\* A PUBLISHED event has reached a consumer: it is in the stream, or a local handler
\* has applied it; whatever raises, is cut off or is overwritten by another process
\* with a stale row (publish_pending_batch marks it only after the await).
PublishedDelivered ==
  \A e \in Events : outbox[e].status = "PUBLISHED" => Applied(e) \/ e \in Range(stream)

MessagesOf(e) == Cardinality({i \in 1 .. Len(stream) : stream[i] = e})

\* Even if the broker remembers no message id, an event is stored at most once for
\* each publisher and once more for each batch cut off before its commit: a mark
\* that is committed is never undone, and no event is fetched again after it.
MessagesBounded ==
  \A e \in Events : MessagesOf(e) <= Cardinality(Publishers) + interruptions

=============================================================================
