------------------------------ MODULE EventBus ------------------------------
(***************************************************************************)
(* The path of a domain event (libs/eventbus and app/idempotency.py): a    *)
(* business transaction stores it in the outbox, a relay moves stored rows *)
(* to the pgmq queue, a consumer reads a message, runs the handler behind  *)
(* the idempotency key and archives it, reschedules it or moves it to the  *)
(* dead-letter queue.                                                      *)
(*                                                                         *)
(* An event is named by its outbox sequence number.  Time is abstracted: a *)
(* hidden message may reappear at any moment, also while the consumer that *)
(* hid it is still at work.                                                *)
(***************************************************************************)
EXTENDS Integers, FiniteSets

CONSTANTS
  Writers,         \* business transactions that enqueue events
  NoWriter,        \* "this sequence number has not been drawn"
  Relays,          \* OutboxRelay tasks
  Consumers,       \* Consumer tasks
  NoMessage,       \* "this consumer has no message"
  BatchSize,       \* rows a relay drains per transaction
  MaxRetries,      \* reads after which a failing message is dead-lettered
  MaxEvents,       \* bound: sequence numbers drawn
  MaxFailures      \* bound: tasks that die

ASSUME WriterAssumption == NoWriter \notin Writers
ASSUME LimitAssumption == BatchSize \in Nat \ {0} /\ MaxRetries \in Nat \ {0}
ASSUME EventBoundAssumption == MaxEvents \in Nat /\ MaxFailures \in Nat

Events == 1..MaxEvents
Tasks == Relays \cup Consumers
Message == [id : Nat, event : Events, reads : Nat,
            state : {"visible", "hidden", "archived"}]

ASSUME MessageAssumption == NoMessage \notin Message
ASSUME TaskAssumption == Relays \cap Consumers = {}

VARIABLES
  nextSeq,         \* the BIGSERIAL of outbox_events
  writer,          \* the transaction that drew each sequence number
  tx,              \* what became of each transaction
  published,       \* outbox rows marked published
  batch,           \* rows each relay has locked
  sent,            \* messages its open transaction has sent
  nextId,          \* the sequence of pgmq message ids
  queue,           \* committed messages, the archived ones included
  got,             \* each consumer's copy of the message it has read
  pc,              \* where each consumer stands
  keys,            \* idempotency_keys
  effects,         \* committed runs of the handler, per event
  dlq,             \* dead letters, per event
  alive,           \* tasks that run
  failures         \* tasks that have died so far

outboxVars == <<nextSeq, writer, tx>>
relayVars == <<published, batch, sent, nextId>>
consumerVars == <<got, pc, keys, effects, dlq>>
taskVars == <<alive, failures>>
vars == <<outboxVars, relayVars, queue, consumerVars, taskVars>>

Stored == {e \in Events : writer[e] # NoWriter /\ tx[writer[e]] = "committed"}

Live == {m \in queue : m.state # "archived"}

TypeOK ==
  /\ nextSeq \in 0..MaxEvents
  /\ writer \in [Events -> Writers \cup {NoWriter}]
  /\ tx \in [Writers -> {"open", "committed", "rolledback"}]
  /\ published \subseteq Events
  /\ batch \in [Relays -> SUBSET Events]
  /\ sent \in [Relays -> SUBSET Message]
  /\ nextId \in Nat
  /\ queue \subseteq Message
  /\ got \in [Consumers -> Message \cup {NoMessage}]
  /\ pc \in [Consumers -> {"idle", "received", "handling", "failed"}]
  /\ \A c \in Consumers : got[c] = NoMessage <=> pc[c] = "idle"
  /\ keys \subseteq Events
  /\ effects \in [Events -> Nat]
  /\ dlq \in [Events -> Nat]
  /\ alive \subseteq Tasks
  /\ failures \in Nat

Init ==
  /\ nextSeq = 0
  /\ writer = [e \in Events |-> NoWriter]
  /\ tx = [w \in Writers |-> "open"]
  /\ published = {}
  /\ batch = [r \in Relays |-> {}]
  /\ sent = [r \in Relays |-> {}]
  /\ nextId = 0
  /\ queue = {}
  /\ got = [c \in Consumers |-> NoMessage]
  /\ pc = [c \in Consumers |-> "idle"]
  /\ keys = {}
  /\ effects = [e \in Events |-> 0]
  /\ dlq = [e \in Events |-> 0]
  /\ alive = Tasks
  /\ failures = 0

(***************************************************************************)
(* The outbox.                                                             *)
(***************************************************************************)
Enqueue(w) ==
  /\ tx[w] = "open"
  /\ nextSeq < MaxEvents
  /\ nextSeq' = nextSeq + 1
  /\ writer' = [writer EXCEPT ![nextSeq + 1] = w]
  /\ UNCHANGED <<tx, relayVars, queue, consumerVars, taskVars>>

(* A transaction that has enqueued nothing leaves no trace here.           *)
EndTransaction(w, outcome) ==
  /\ tx[w] = "open"
  /\ \E e \in Events : writer[e] = w
  /\ tx' = [tx EXCEPT ![w] = outcome]
  /\ UNCHANGED <<nextSeq, writer, relayVars, queue, consumerVars, taskVars>>

(***************************************************************************)
(* OutboxRelay.run_once: one transaction.                                  *)
(***************************************************************************)
LockedByOthers(r) == UNION {batch[q] : q \in Relays \ {r}}

(* Mutant: a plain SELECT, nobody skips locked rows.                       *)
NothingSkipped(r) == Stored \ published

(* WHERE NOT published ... FOR UPDATE SKIP LOCKED                          *)
Free(r) == (Stored \ published) \ LockedByOthers(r)

Lowest(n, S) == {e \in S : Cardinality({f \in S : f < e}) < n}

SelectBatch(r) ==
  /\ r \in alive
  /\ batch[r] = {}
  /\ Free(r) # {}
  /\ batch' = [batch EXCEPT ![r] = Lowest(BatchSize, Free(r))]
  /\ UNCHANGED <<published, sent, nextId, outboxVars, queue, consumerVars, taskVars>>

Unsent(r) == batch[r] \ {m.event : m \in sent[r]}

(* pgmq.send, the oldest row first, draws the message id now; the message  *)
(* is there at COMMIT.                                                     *)
Send(r) ==
  \E e \in Unsent(r) :
    /\ \A f \in Unsent(r) : e <= f
    /\ nextId' = nextId + 1
    /\ sent' = [sent EXCEPT ![r] = @ \cup
                  {[id |-> nextId + 1, event |-> e, reads |-> 0, state |-> "visible"]}]
    /\ UNCHANGED <<published, batch, outboxVars, queue, consumerVars, taskVars>>

EndBatch(r) == /\ batch' = [batch EXCEPT ![r] = {}]
               /\ sent' = [sent EXCEPT ![r] = {}]

MarkPublished(r) ==
  /\ batch[r] # {}
  /\ Unsent(r) = {}
  /\ published' = published \cup batch[r]
  /\ queue' = queue \cup sent[r]
  /\ EndBatch(r)
  /\ UNCHANGED <<nextId, outboxVars, consumerVars, taskVars>>

(***************************************************************************)
(* Consumer.run_once: three transactions.                                  *)
(***************************************************************************)
Visible == {m \in queue : m.state = "visible"}

Updated(m, changed) == (queue \ {m}) \cup {changed}

(* (A) pgmq.read hides the message and counts the delivery.                *)
Read(c) ==
  /\ c \in alive
  /\ pc[c] = "idle"
  /\ \E m \in Visible :
       /\ \A n \in Visible : m.id <= n.id
       /\ LET copy == [m EXCEPT !.reads = @ + 1, !.state = "hidden"] IN
            /\ queue' = Updated(m, copy)
            /\ got' = [got EXCEPT ![c] = copy]
  /\ pc' = [pc EXCEPT ![c] = "received"]
  /\ UNCHANGED <<keys, effects, dlq, outboxVars, relayVars, taskVars>>

(* pgmq.archive; false, and ignored, when the message is no longer queued. *)
Archived(id) == {IF m.id = id THEN [m EXCEPT !.state = "archived"] ELSE m : m \in queue}

Done(c) == /\ got' = [got EXCEPT ![c] = NoMessage]
           /\ pc' = [pc EXCEPT ![c] = "idle"]

(* Mutant: the key is looked up, not inserted.                             *)
KeyNotTaken(c) == TRUE

(* INSERT ... ON CONFLICT DO NOTHING waits for the transaction that has    *)
(* inserted the same key and not committed it.                             *)
KeyFree(c) == \A d \in Consumers \ {c} :
                ~(pc[d] = "handling" /\ got[d].event = got[c].event)

(* Mutant: the queue is acknowledged when the handler starts.              *)
AckedBefore(c) ==
  /\ pc[c] = "received"
  /\ got[c].event \notin keys
  /\ KeyFree(c)
  /\ pc' = [pc EXCEPT ![c] = "handling"]
  /\ queue' = Archived(got[c].id)
  /\ UNCHANGED <<got, keys, effects, dlq, outboxVars, relayVars, taskVars>>

(* (B) the key is new: the handler runs.                                   *)
StartHandler(c) ==
  /\ pc[c] = "received"
  /\ got[c].event \notin keys
  /\ KeyFree(c)
  /\ pc' = [pc EXCEPT ![c] = "handling"]
  /\ UNCHANGED <<got, keys, effects, dlq, outboxVars, relayVars, queue, taskVars>>

(* (B) the key is there: the redelivery is archived.                       *)
SkipHandled(c) ==
  /\ pc[c] = "received"
  /\ got[c].event \in keys
  /\ queue' = Archived(got[c].id)
  /\ Done(c)
  /\ UNCHANGED <<keys, effects, dlq, outboxVars, relayVars, taskVars>>

(* Key, effect and archive commit together.                                *)
Handled(c) ==
  /\ pc[c] = "handling"
  /\ keys' = keys \cup {got[c].event}
  /\ effects' = [effects EXCEPT ![got[c].event] = @ + 1]
  /\ queue' = Archived(got[c].id)
  /\ Done(c)
  /\ UNCHANGED <<dlq, outboxVars, relayVars, taskVars>>

(* The handler raises: transaction (B) rolls back, its key with it.        *)
HandlerFails(c) ==
  /\ pc[c] = "handling"
  /\ pc' = [pc EXCEPT ![c] = "failed"]
  /\ UNCHANGED <<got, keys, effects, dlq, outboxVars, relayVars, queue, taskVars>>

(* Mutant: a dead letter stays in the queue.                               *)
CopiedToDlq(c) ==
  /\ pc[c] = "failed"
  /\ got[c].reads >= MaxRetries
  /\ dlq' = [dlq EXCEPT ![got[c].event] = @ + 1]
  /\ Done(c)
  /\ UNCHANGED <<keys, effects, outboxVars, relayVars, queue, taskVars>>

(* (C) the last attempt has failed.                                        *)
DeadLetter(c) ==
  /\ pc[c] = "failed"
  /\ got[c].reads >= MaxRetries
  /\ dlq' = [dlq EXCEPT ![got[c].event] = @ + 1]
  /\ queue' = Archived(got[c].id)
  /\ Done(c)
  /\ UNCHANGED <<keys, effects, outboxVars, relayVars, taskVars>>

(* Mutant: a failed message is acknowledged instead of rescheduled.        *)
DroppedOnFailure(c) ==
  /\ pc[c] = "failed"
  /\ got[c].reads < MaxRetries
  /\ queue' = Archived(got[c].id)
  /\ Done(c)
  /\ UNCHANGED <<keys, effects, dlq, outboxVars, relayVars, taskVars>>

(* (C) pgmq.set_vt, which finds nothing if the message has been archived.  *)
Reschedule(c) ==
  /\ pc[c] = "failed"
  /\ got[c].reads < MaxRetries
  /\ queue' = {IF m.id = got[c].id /\ m.state # "archived"
                 THEN [m EXCEPT !.state = "hidden"] ELSE m : m \in queue}
  /\ Done(c)
  /\ UNCHANGED <<keys, effects, dlq, outboxVars, relayVars, taskVars>>

(* The visibility timeout or the retry delay of a message runs out.        *)
Reappear ==
  /\ \E m \in queue : /\ m.state = "hidden"
                      /\ queue' = Updated(m, [m EXCEPT !.state = "visible"])
  /\ UNCHANGED <<outboxVars, relayVars, consumerVars, taskVars>>

(***************************************************************************)
(* A database error ends run_forever, or the process dies; the open        *)
(* transaction rolls back.  Only the start of a process makes tasks; those *)
(* that died are not missed: their end is logged, and no probe looks.      *)
(***************************************************************************)
TaskDies(t) ==
  /\ t \in alive
  /\ failures < MaxFailures
  /\ failures' = failures + 1
  /\ alive' = alive \ {t}
  /\ IF t \in Relays
       THEN EndBatch(t) /\ UNCHANGED <<got, pc>>
       ELSE Done(t) /\ UNCHANGED <<batch, sent>>
  /\ UNCHANGED <<published, nextId, keys, effects, dlq, outboxVars, queue>>

Restart(t) ==
  /\ t \in Tasks \ alive
  /\ alive' = alive \cup {t}
  /\ UNCHANGED <<failures, outboxVars, relayVars, queue, consumerVars>>

RelayStep(r) == SelectBatch(r) \/ Send(r) \/ MarkPublished(r)

ConsumerStep(c) ==
  \/ Read(c) \/ StartHandler(c) \/ SkipHandled(c) \/ Handled(c)
  \/ HandlerFails(c) \/ DeadLetter(c) \/ Reschedule(c)

Next ==
  \/ \E w \in Writers : \/ Enqueue(w)
                        \/ EndTransaction(w, "committed")
                        \/ EndTransaction(w, "rolledback")
  \/ \E r \in Relays : RelayStep(r)
  \/ \E c \in Consumers : ConsumerStep(c)
  \/ Reappear
  \/ \E t \in Tasks : TaskDies(t) \/ Restart(t)

Spec == Init /\ [][Next]_vars

(* As long as a relay can go on, some relay does, and so with consumers;   *)
(* hidden messages reappear.  Nothing restarts a task that died, makes a   *)
(* business transaction commit or a handler succeed, only return, and a    *)
(* single task may stand still for ever.                                   *)
Fairness ==
  /\ WF_vars(\E r \in Relays : RelayStep(r))
  /\ WF_vars(\E c \in Consumers : ConsumerStep(c))
  /\ WF_vars(Reappear)

FairSpec == Spec /\ Fairness

-----------------------------------------------------------------------------
(***************************************************************************)
(* Correctness.                                                            *)
(***************************************************************************)

(* Exactly-once relay (ADR-0013): the queue only ever carries events whose *)
(* business transaction committed, each in one message, whatever relays    *)
(* overlap or die between the sends and the commit.                        *)
RelayedOnce ==
  /\ \A m \in queue : m.event \in Stored
  /\ \A m, n \in queue : m.event = n.event => m.id = n.id

(* No event is lost: a row counts as published only while its message is   *)
(* queued or after the handler's effect or a dead letter has been stored.  *)
NothingLost ==
  \A e \in published :
    \/ e \in {m.event : m \in Live}
    \/ effects[e] > 0
    \/ dlq[e] > 0

(* Effects in the database happen once per event although deliveries do    *)
(* not: a redelivery while the first delivery is still handled waits for   *)
(* the key and is then skipped.                                            *)
HandledOnce == \A e \in Events : effects[e] <= 1

(* While some process has a relay and some process a consumer, every       *)
(* stored event is handled in the end or lands in the dead-letter queue:   *)
(* however often its handler fails, whoever else dies with it in hand, and *)
(* also if it was stored while nobody served.  (What is stored or settled  *)
(* stays so: it is the same to say that all are settled time and again.)   *)
Settled(e) == effects[e] > 0 \/ dlq[e] > 0

Served == []<>(Relays \cap alive # {}) /\ []<>(Consumers \cap alive # {})

SettledWhileServed == Served => []<>(\A e \in Stored : Settled(e))

-----------------------------------------------------------------------------
(***************************************************************************)
(* Promised and not kept: TLC refutes the following (README, section       *)
(* "Where the code and its documentation disagree").                       *)
(***************************************************************************)

(* Events of one transaction are queued in the order they were enqueued    *)
(* (test_eventbus.py, test_relay_preserves_enqueue_order_within_transaction*)
(* ): message ids follow sequence numbers.  True of one relay only.         *)
OrderWithinTransaction ==
  \A m, n \in queue :
    writer[m.event] = writer[n.event] /\ m.event < n.event => m.id < n.id

(* "Delivery is at-least-once" (consumer.py), by tasks that run "for the   *)
(* app's lifetime" (eventbus_workers.py), "continuously until stop is set" *)
(* (relay.py): whatever happens to the tasks, a stored event is settled.   *)
EventuallySettled == \A e \in Events : e \in Stored ~> Settled(e)

(* The dead-letter queue holds what was given up, once: an event whose     *)
(* handler has committed is not there, and none is there twice.  True of   *)
(* one consumer only.                                                      *)
MovedToDlqOnce == \A e \in Events : effects[e] + dlq[e] <= 1
=============================================================================
