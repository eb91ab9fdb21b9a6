--------------------------- MODULE EventBusProofs ---------------------------
(***************************************************************************)
(* The relay queues an event once, the consumer applies it once and none   *)
(* is lost, for any number of transactions, relays, consumers and deaths.  *)
(***************************************************************************)
EXTENDS EventBus, TLAPS

(* Sequence numbers are drawn in order.                                    *)
Numbered == \A e \in Events : writer[e] # NoWriter => e <= nextSeq

(* Locked rows are stored, not yet published, and locked once.             *)
BatchesFree ==
  /\ published \subseteq Stored
  /\ \A r \in Relays : batch[r] \subseteq Stored \ published
  /\ \A r, q \in Relays : r # q => batch[r] \cap batch[q] = {}

SentFromBatch ==
  \A r \in Relays : \A m \in sent[r] : m.event \in batch[r] /\ m.state = "visible"

(* Messages, those of open transactions included.                          *)
Carried == queue \cup UNION {sent[r] : r \in Relays}

(* A message id stands for one event, and an event has one.                *)
Identities ==
  /\ \A m, n \in Carried : m.id = n.id <=> m.event = n.event
  /\ \A m \in Carried : m.id <= nextId

QueuedArePublished == \A m \in queue : m.event \in published

(* A consumer's copy stands for a message of the queue.                    *)
CopiesAreQueued ==
  \A c \in Consumers : got[c] # NoMessage =>
    \E m \in queue : m.id = got[c].id /\ m.event = got[c].event

(* A key is there for each effect; a handler at work has its key for       *)
(* itself.                                                                 *)
KeysAreEffects == \A e \in Events : effects[e] = IF e \in keys THEN 1 ELSE 0

HandlersApart ==
  /\ \A c \in Consumers : pc[c] = "handling" => got[c].event \notin keys
  /\ \A c, d \in Consumers :
       pc[c] = "handling" /\ pc[d] = "handling" /\ c # d => got[c].event # got[d].event

RelayInv == Numbered /\ BatchesFree /\ SentFromBatch
QueueInv == Identities /\ QueuedArePublished
ConsumerInv == CopiesAreQueued /\ KeysAreEffects /\ HandlersApart

BusInv == TypeOK /\ RelayInv /\ QueueInv /\ ConsumerInv /\ NothingLost

LEMMA BusStart == Init => BusInv
<1> SUFFICES ASSUME Init PROVE BusInv
  OBVIOUS
<1>1. TypeOK
  BY EventBoundAssumption DEF Init, TypeOK, Events
<1>2. RelayInv
  BY DEF Init, RelayInv, Numbered, BatchesFree, SentFromBatch
<1>3. Carried = {}
  BY DEF Init, Carried
<1>4. QueueInv
  BY <1>3 DEF Init, QueueInv, Identities, QueuedArePublished
<1>5. ConsumerInv /\ NothingLost
  BY DEF Init, ConsumerInv, CopiesAreQueued, KeysAreEffects, HandlersApart, NothingLost
<1> QED
  BY <1>1, <1>2, <1>4, <1>5 DEF BusInv

(* What is stored stays stored.                                            *)
LEMMA StoredStays == ASSUME BusInv, Next PROVE Stored \subseteq Stored'
<1> SUFFICES ASSUME NEW e \in Events, writer[e] # NoWriter, tx[writer[e]] = "committed"
             PROVE  writer'[e] = writer[e] /\ tx'[writer[e]] = "committed"
  BY WriterAssumption DEF Stored
<1>0. writer[e] \in Writers
  BY DEF BusInv, TypeOK
<1>1. CASE \E w \in Writers : Enqueue(w)
  BY <1>1 DEF Enqueue, BusInv, TypeOK, RelayInv, Numbered, Events
<1>2. ASSUME NEW w \in Writers, NEW outcome \in {"committed", "rolledback"},
             EndTransaction(w, outcome)
      PROVE  writer'[e] = writer[e] /\ tx'[writer[e]] = "committed"
  BY <1>0, <1>2 DEF EndTransaction, BusInv, TypeOK
<1>3. CASE UNCHANGED outboxVars
  BY <1>3 DEF outboxVars
<1>4. CASE \E r \in Relays : RelayStep(r)
  BY <1>3, <1>4 DEF RelayStep, SelectBatch, Send, MarkPublished
<1>5. CASE \E c \in Consumers : ConsumerStep(c)
  BY <1>3, <1>5 DEF ConsumerStep, Read, StartHandler, SkipHandled, Handled, HandlerFails,
                    DeadLetter, Reschedule
<1>6. CASE Reappear \/ \E t \in Tasks : TaskDies(t) \/ Restart(t)
  BY <1>3, <1>6 DEF Reappear, TaskDies, Restart
<1> QED
  BY <1>1, <1>2, <1>4, <1>5, <1>6 DEF Next

(***************************************************************************)
(* Steps that leave the queue and the consumers alone.                     *)
(***************************************************************************)
LEMMA OutboxKeeps ==
  ASSUME BusInv, Stored \subseteq Stored', nextSeq' \in 0..MaxEvents,
         writer' \in [Events -> Writers \cup {NoWriter}],
         tx' \in [Writers -> {"open", "committed", "rolledback"}], Numbered',
         UNCHANGED <<relayVars, queue, consumerVars, taskVars>>
  PROVE  BusInv'
<1> USE DEF relayVars, consumerVars, taskVars
<1>1. TypeOK'
  BY DEF BusInv, TypeOK
<1>2. RelayInv'
  BY DEF BusInv, RelayInv, BatchesFree, SentFromBatch
<1>3. QueueInv'
  BY DEF BusInv, QueueInv, Identities, Carried, QueuedArePublished
<1>4. ConsumerInv'
  BY DEF BusInv, ConsumerInv, CopiesAreQueued, KeysAreEffects, HandlersApart
<1>5. NothingLost'
  BY DEF BusInv, NothingLost, Live
<1> QED
  BY <1>1, <1>2, <1>3, <1>4, <1>5 DEF BusInv

LEMMA WriterKeeps ==
  ASSUME BusInv, Stored \subseteq Stored', NEW w \in Writers,
         Enqueue(w) \/ EndTransaction(w, "committed") \/ EndTransaction(w, "rolledback")
  PROVE  BusInv'
<1>1. nextSeq' \in 0..MaxEvents /\ writer' \in [Events -> Writers \cup {NoWriter}]
  <2>1. CASE Enqueue(w)
    <3>1. nextSeq + 1 \in 0..MaxEvents
      BY <2>1, EventBoundAssumption DEF Enqueue, BusInv, TypeOK
    <3> QED
      BY <2>1, <3>1 DEF Enqueue, BusInv, TypeOK
  <2>2. CASE UNCHANGED <<nextSeq, writer>>
    BY <2>2 DEF BusInv, TypeOK
  <2> QED
    BY <2>1, <2>2 DEF EndTransaction
<1>2. tx' \in [Writers -> {"open", "committed", "rolledback"}]
  BY DEF BusInv, TypeOK, Enqueue, EndTransaction
<1>3. Numbered'
  <2>1. CASE Enqueue(w)
    BY <2>1, EventBoundAssumption DEF BusInv, TypeOK, RelayInv, Numbered, Enqueue, Events
  <2>2. CASE UNCHANGED <<nextSeq, writer>>
    BY <2>2 DEF BusInv, RelayInv, Numbered
  <2> QED
    BY <2>1, <2>2 DEF EndTransaction
<1> QED
  BY <1>1, <1>2, <1>3, OutboxKeeps DEF Enqueue, EndTransaction

LEMMA SelectKeeps == ASSUME BusInv, NEW r \in Relays, SelectBatch(r) PROVE BusInv'
<1> USE DEF outboxVars, consumerVars, taskVars
<1>1. batch' = [batch EXCEPT ![r] = batch'[r]] /\ batch'[r] \subseteq Free(r) /\ batch[r] = {}
  BY DEF SelectBatch, Lowest, BusInv, TypeOK
<1>2. Stored' = Stored /\ Carried' = Carried
  BY DEF SelectBatch, Stored, Carried
<1>3. TypeOK'
  BY <1>1 DEF SelectBatch, BusInv, TypeOK, Free, Stored
<1>4. RelayInv'
  BY <1>1, <1>2 DEF SelectBatch, BusInv, TypeOK, RelayInv, Numbered, BatchesFree, SentFromBatch,
                    Free, LockedByOthers
<1>5. QueueInv'
  BY <1>2 DEF SelectBatch, BusInv, QueueInv, Identities, QueuedArePublished
<1>6. ConsumerInv'
  BY DEF SelectBatch, BusInv, ConsumerInv, CopiesAreQueued, KeysAreEffects, HandlersApart
<1>7. NothingLost'
  BY DEF SelectBatch, BusInv, NothingLost, Live
<1> QED
  BY <1>3, <1>4, <1>5, <1>6, <1>7 DEF BusInv

(* A message that is sent has a new id and an event no other one carries:  *)
(* those of the queue are published, those of other relays in other        *)
(* batches, those of this one already sent.                                *)
LEMMA SendKeeps == ASSUME BusInv, NEW r \in Relays, Send(r) PROVE BusInv'
<1> USE DEF outboxVars, consumerVars, taskVars
<1>1. PICK e \in Unsent(r) :
        sent' = [sent EXCEPT ![r] = @ \cup
                   {[id |-> nextId + 1, event |-> e, reads |-> 0, state |-> "visible"]}]
  BY DEF Send
<1> DEFINE new == [id |-> nextId + 1, event |-> e, reads |-> 0, state |-> "visible"]
<1>2. /\ e \in batch[r] /\ e \in Events /\ new \in Message
      /\ \A m \in sent[r] : m.event # e
      /\ nextId' = nextId + 1 /\ nextId \in Nat
      /\ UNCHANGED <<published, batch, outboxVars, queue, consumerVars, taskVars>>
  BY <1>1 DEF Send, Unsent, BusInv, TypeOK, Message
<1>3. Stored' = Stored
  BY <1>2 DEF Stored
<1>4. TypeOK'
  BY <1>1, <1>2 DEF BusInv, TypeOK
<1>5. \A q \in Relays : sent'[q] = IF q = r THEN sent[r] \cup {new} ELSE sent[q]
  BY <1>1 DEF BusInv, TypeOK
<1>6. RelayInv'
  BY <1>2, <1>3, <1>5 DEF BusInv, RelayInv, Numbered, BatchesFree, SentFromBatch
<1>7. Carried' = Carried \cup {new}
  BY <1>2, <1>5 DEF Carried
<1>8. \A m \in Carried : m.event # e
  <2>1. \A m \in queue : m.event # e
    BY <1>2 DEF BusInv, RelayInv, BatchesFree, QueueInv, QueuedArePublished
  <2>2. ASSUME NEW q \in Relays, NEW m \in sent[q], q # r PROVE m.event # e
    BY <1>2, <2>2 DEF BusInv, RelayInv, BatchesFree, SentFromBatch
  <2> QED
    BY <1>2, <2>1, <2>2 DEF Carried
<1>9. \A m \in Carried : m.id \in Nat /\ m.id <= nextId
  BY DEF BusInv, TypeOK, QueueInv, Identities, Carried, Message
<1>10. QueueInv'
  BY <1>2, <1>7, <1>8, <1>9 DEF BusInv, QueueInv, Identities, QueuedArePublished
<1>11. ConsumerInv'
  BY <1>2 DEF BusInv, ConsumerInv, CopiesAreQueued, KeysAreEffects, HandlersApart
<1>12. NothingLost'
  BY <1>2 DEF BusInv, NothingLost, Live
<1> QED
  BY <1>4, <1>6, <1>10, <1>11, <1>12 DEF BusInv

(* The batch is published: each of its rows has its message.               *)
LEMMA MarkKeeps == ASSUME BusInv, NEW r \in Relays, MarkPublished(r) PROVE BusInv'
<1> USE DEF outboxVars, consumerVars, taskVars, EndBatch
<1>1. /\ published' = published \cup batch[r] /\ queue' = queue \cup sent[r]
      /\ batch' = [batch EXCEPT ![r] = {}] /\ sent' = [sent EXCEPT ![r] = {}]
      /\ UNCHANGED <<nextId, outboxVars, consumerVars, taskVars>>
      /\ \A e \in batch[r] : \E m \in sent[r] : m.event = e
  BY DEF MarkPublished, Unsent
<1>2. Stored' = Stored
  BY <1>1 DEF Stored
<1>3. /\ batch \in [Relays -> SUBSET Events] /\ sent \in [Relays -> SUBSET Message]
      /\ \A q \in Relays : /\ batch'[q] = IF q = r THEN {} ELSE batch[q]
                           /\ sent'[q] = IF q = r THEN {} ELSE sent[q]
  BY <1>1 DEF BusInv, TypeOK
<1>4. TypeOK'
  BY <1>1, <1>3 DEF BusInv, TypeOK
<1>5. RelayInv'
  BY <1>1, <1>2, <1>3 DEF BusInv, RelayInv, Numbered, BatchesFree, SentFromBatch
<1>6. Carried' \subseteq Carried
  BY <1>1, <1>3 DEF Carried
<1>7. QueueInv'
  BY <1>1, <1>6 DEF BusInv, QueueInv, Identities, QueuedArePublished, RelayInv, SentFromBatch
<1>8. ConsumerInv'
  BY <1>1 DEF BusInv, ConsumerInv, CopiesAreQueued, KeysAreEffects, HandlersApart
<1>9. NothingLost'
  <2>1. Live \subseteq Live' /\ sent[r] \subseteq Live'
    BY <1>1 DEF Live, BusInv, RelayInv, SentFromBatch
  <2> QED
    BY <1>1, <2>1 DEF BusInv, NothingLost
<1> QED
  BY <1>4, <1>5, <1>7, <1>8, <1>9 DEF BusInv

(***************************************************************************)
(* Steps of consumers: messages change, none comes or goes.                *)
(***************************************************************************)
Requeued ==
  /\ queue' \subseteq Message
  /\ \A m \in queue' : \E n \in queue : n.id = m.id /\ n.event = m.event
  /\ \A n \in queue : \E m \in queue' : m.id = n.id /\ m.event = n.event

LEMMA RequeueKeeps ==
  ASSUME BusInv, Requeued, UNCHANGED <<outboxVars, relayVars>>
  PROVE  RelayInv' /\ QueueInv'
<1> USE DEF outboxVars, relayVars
<1>1. RelayInv'
  BY DEF BusInv, RelayInv, Numbered, BatchesFree, SentFromBatch, Stored
<1>2. \A m \in Carried' : \E n \in Carried : n.id = m.id /\ n.event = m.event
  BY DEF Requeued, Carried
<1>3. QueueInv'
  BY <1>2 DEF Requeued, BusInv, QueueInv, Identities, QueuedArePublished
<1> QED
  BY <1>1, <1>3

LEMMA ArchivingRequeues ==
  ASSUME queue \subseteq Message, NEW id \in Nat, queue' = Archived(id)
  PROVE  Requeued /\ \A n \in Live : n.id # id => n \in Live'
<1> DEFINE image(m) == IF m.id = id THEN [m EXCEPT !.state = "archived"] ELSE m
<1>1. \A m \in queue : /\ image(m) \in queue' /\ image(m) \in Message
                       /\ image(m).id = m.id /\ image(m).event = m.event
  BY DEF Archived, Message
<1>2. \A m \in queue' : \E n \in queue : m = image(n)
  BY DEF Archived
<1>3. Requeued
  BY <1>1, <1>2 DEF Requeued
<1>4. \A n \in Live : n.id # id => n \in Live'
  BY DEF Live, Archived
<1> QED
  BY <1>3, <1>4

LEMMA UpdatingRequeues ==
  ASSUME queue \subseteq Message, NEW m \in queue, NEW changed \in Message,
         changed.id = m.id, changed.event = m.event, changed.state # "archived",
         queue' = Updated(m, changed)
  PROVE  Requeued /\ \A n \in Live : \E k \in Live' : k.event = n.event
BY DEF Requeued, Updated, Live

(* What stands for a message of the queue before a step does so after it.  *)
LEMMA CopiesStay ==
  ASSUME BusInv, Requeued, \A c \in Consumers : got'[c] # NoMessage =>
           \/ got'[c] = got[c]
           \/ \E m \in queue' : m.id = got'[c].id /\ m.event = got'[c].event
  PROVE  CopiesAreQueued'
<1> SUFFICES ASSUME NEW c \in Consumers, got'[c] # NoMessage, got'[c] = got[c]
             PROVE  \E m \in queue' : m.id = got'[c].id /\ m.event = got'[c].event
  BY DEF CopiesAreQueued
<1>1. PICK n \in queue : n.id = got[c].id /\ n.event = got[c].event
  BY DEF BusInv, ConsumerInv, CopiesAreQueued
<1> QED
  BY <1>1 DEF Requeued

LEMMA HeldIsMessage ==
  ASSUME BusInv, NEW c \in Consumers, pc[c] # "idle"
  PROVE  got[c] \in Message /\ got[c].id \in Nat /\ got[c].event \in Events /\ got[c] # NoMessage
BY DEF BusInv, TypeOK, Message

(* A message is archived once its event is applied or dead-lettered.       *)
LEMMA ArchivingLosesNone ==
  ASSUME BusInv, NEW c \in Consumers, pc[c] # "idle", queue' = Archived(got[c].id),
         published' = published,
         \A e \in Events : (effects[e] > 0 => effects'[e] > 0) /\ (dlq[e] > 0 => dlq'[e] > 0),
         effects'[got[c].event] > 0 \/ dlq'[got[c].event] > 0
  PROVE  NothingLost'
<1>1. got[c].id \in Nat /\ got[c] # NoMessage
  BY HeldIsMessage
<1>2. PICK m \in queue : m.id = got[c].id /\ m.event = got[c].event
  BY <1>1 DEF BusInv, ConsumerInv, CopiesAreQueued
<1>3. \A n \in Live : n.event # got[c].event => n \in Live'
  <2>1. \A n \in Live : n.event # got[c].event => n.id # got[c].id
    BY <1>2 DEF BusInv, QueueInv, Identities, Carried, Live
  <2> QED
    BY <1>1, <2>1, ArchivingRequeues DEF BusInv, TypeOK
<1> QED
  BY <1>3 DEF BusInv, TypeOK, NothingLost

(* The consumer is done with its message.                                  *)
LEMMA DoneKeeps ==
  ASSUME BusInv, NEW c \in Consumers, Done(c), Requeued, NothingLost',
         effects' \in [Events -> Nat], dlq' \in [Events -> Nat], keys' \subseteq Events,
         KeysAreEffects', \A d \in Consumers \ {c} : pc[d] = "handling" => got[d].event \notin keys',
         UNCHANGED <<outboxVars, relayVars, taskVars>>
  PROVE  BusInv'
<1> USE DEF outboxVars, relayVars, taskVars
<1>1. \A d \in Consumers : /\ got'[d] = IF d = c THEN NoMessage ELSE got[d]
                           /\ pc'[d] = IF d = c THEN "idle" ELSE pc[d]
  BY DEF Done, BusInv, TypeOK
<1>2. TypeOK'
  BY <1>1 DEF Done, Requeued, BusInv, TypeOK
<1>3. RelayInv' /\ QueueInv'
  BY RequeueKeeps
<1>4. CopiesAreQueued'
  BY <1>1, CopiesStay
<1>5. HandlersApart'
  BY <1>1 DEF BusInv, ConsumerInv, HandlersApart
<1> QED
  BY <1>2, <1>3, <1>4, <1>5 DEF BusInv, ConsumerInv

LEMMA ReadKeeps == ASSUME BusInv, NEW c \in Consumers, Read(c) PROVE BusInv'
<1> USE DEF outboxVars, relayVars, taskVars
<1>1. PICK m \in Visible :
        /\ queue' = Updated(m, [m EXCEPT !.reads = @ + 1, !.state = "hidden"])
        /\ got' = [got EXCEPT ![c] = [m EXCEPT !.reads = @ + 1, !.state = "hidden"]]
  BY DEF Read
<1> DEFINE copy == [m EXCEPT !.reads = @ + 1, !.state = "hidden"]
<1>2. /\ m \in queue /\ copy \in Message /\ copy.id = m.id /\ copy.event = m.event
      /\ copy.state = "hidden" /\ copy # NoMessage
  <2>1. m \in queue /\ m \in Message
    BY DEF Visible, BusInv, TypeOK
  <2>2. copy = [id |-> m.id, event |-> m.event, reads |-> m.reads + 1, state |-> "hidden"]
    <3> DEFINE read == [m EXCEPT !.reads = @ + 1]
    <3>1. read \in Message /\ read.id = m.id /\ read.event = m.event /\ read.reads = m.reads + 1
      BY <2>1 DEF Message
    <3>2. copy = [read EXCEPT !.state = "hidden"]
      OBVIOUS
    <3> HIDE DEF read, copy
    <3> QED
      BY <3>1, <3>2 DEF Message
  <2>3. m.id \in Nat /\ m.event \in Events /\ m.reads + 1 \in Nat
    BY <2>1 DEF Message
  <2>4. copy \in Message /\ copy.id = m.id /\ copy.event = m.event /\ copy.state = "hidden"
    BY <2>2, <2>3 DEF Message
  <2> QED
    BY <2>1, <2>4, MessageAssumption
<1>3. Requeued /\ \A n \in Live : \E k \in Live' : k.event = n.event
  BY <1>1, <1>2, UpdatingRequeues DEF BusInv, TypeOK
<1>4. /\ UNCHANGED <<keys, effects, dlq, outboxVars, relayVars, taskVars>>
      /\ pc[c] = "idle" /\ pc' = [pc EXCEPT ![c] = "received"]
  BY DEF Read
<1>5. \A d \in Consumers : /\ got'[d] = IF d = c THEN copy ELSE got[d]
                           /\ pc'[d] = IF d = c THEN "received" ELSE pc[d]
  BY <1>1, <1>4 DEF BusInv, TypeOK
<1>6. TypeOK'
  BY <1>1, <1>2, <1>3, <1>4, <1>5 DEF Requeued, BusInv, TypeOK
<1>7. RelayInv' /\ QueueInv'
  BY <1>3, <1>4, RequeueKeeps
<1>8. CopiesAreQueued'
  <2>1. copy \in queue'
    BY <1>1 DEF Updated
  <2> QED
    BY <1>3, <1>5, <2>1, CopiesStay
<1>9. KeysAreEffects' /\ HandlersApart'
  BY <1>4, <1>5 DEF BusInv, ConsumerInv, KeysAreEffects, HandlersApart
<1>10. NothingLost'
  BY <1>3, <1>4 DEF BusInv, NothingLost
<1> QED
  BY <1>6, <1>7, <1>8, <1>9, <1>10 DEF BusInv, ConsumerInv

(* A handler starts, or fails, with its copy in hand.                      *)
LEMMA HandlingKeeps ==
  ASSUME BusInv, NEW c \in Consumers, StartHandler(c) \/ HandlerFails(c) PROVE BusInv'
<1> USE DEF outboxVars, relayVars, taskVars
<1>1. UNCHANGED <<got, keys, effects, dlq, outboxVars, relayVars, queue, taskVars>>
  BY DEF StartHandler, HandlerFails
<1>2. pc[c] # "idle" /\ \E to \in {"handling", "failed"} : pc' = [pc EXCEPT ![c] = to]
  BY DEF StartHandler, HandlerFails
<1>3. TypeOK'
  BY <1>1, <1>2 DEF BusInv, TypeOK
<1>4. RelayInv' /\ QueueInv'
  BY <1>1 DEF BusInv, RelayInv, Numbered, BatchesFree, SentFromBatch, Stored,
              QueueInv, Identities, Carried, QueuedArePublished
<1>5. CopiesAreQueued' /\ KeysAreEffects' /\ NothingLost'
  BY <1>1 DEF BusInv, ConsumerInv, CopiesAreQueued, KeysAreEffects, NothingLost, Live
<1>6. HandlersApart'
  BY <1>1 DEF BusInv, TypeOK, ConsumerInv, HandlersApart, StartHandler, HandlerFails, KeyFree
<1> QED
  BY <1>3, <1>4, <1>5, <1>6 DEF BusInv, ConsumerInv

LEMMA SkipKeeps == ASSUME BusInv, NEW c \in Consumers, SkipHandled(c) PROVE BusInv'
<1> USE DEF outboxVars, relayVars, taskVars
<1>1. /\ pc[c] # "idle" /\ Done(c) /\ queue' = Archived(got[c].id)
      /\ got[c].event \in keys
      /\ UNCHANGED <<keys, effects, dlq, outboxVars, relayVars, taskVars>>
  BY DEF SkipHandled
<1>2. got[c].id \in Nat /\ got[c].event \in Events
  BY <1>1, HeldIsMessage
<1>3. effects[got[c].event] > 0
  BY <1>1, <1>2 DEF BusInv, ConsumerInv, KeysAreEffects
<1>4. Requeued /\ NothingLost'
  BY <1>1, <1>2, <1>3, ArchivingRequeues, ArchivingLosesNone DEF BusInv, TypeOK
<1>5. KeysAreEffects' /\ \A d \in Consumers \ {c} : pc[d] = "handling" => got[d].event \notin keys'
  BY <1>1 DEF BusInv, ConsumerInv, KeysAreEffects, HandlersApart
<1>6. effects' \in [Events -> Nat] /\ dlq' \in [Events -> Nat] /\ keys' \subseteq Events
  BY <1>1 DEF BusInv, TypeOK
<1> QED
  BY <1>1, <1>4, <1>5, <1>6, DoneKeeps

(* The key is the handler's alone, so this is the first effect.            *)
LEMMA HandledKeeps == ASSUME BusInv, NEW c \in Consumers, Handled(c) PROVE BusInv'
<1> USE DEF outboxVars, relayVars, taskVars
<1> DEFINE e == got[c].event
<1>1. /\ pc[c] = "handling" /\ Done(c) /\ queue' = Archived(got[c].id)
      /\ keys' = keys \cup {e} /\ effects' = [effects EXCEPT ![e] = @ + 1]
      /\ UNCHANGED <<dlq, outboxVars, relayVars, taskVars>>
  BY DEF Handled
<1>2. got[c].id \in Nat /\ e \in Events
  BY <1>1, HeldIsMessage
<1>3. e \notin keys /\ \A d \in Consumers \ {c} : pc[d] = "handling" => got[d].event # e
  BY <1>1 DEF BusInv, ConsumerInv, HandlersApart
<1>4. /\ effects \in [Events -> Nat] /\ dlq \in [Events -> Nat]
      /\ \A f \in Events : effects'[f] = IF f = e THEN effects[f] + 1 ELSE effects[f]
  BY <1>1 DEF BusInv, TypeOK
<1>5. effects' \in [Events -> Nat] /\ dlq' \in [Events -> Nat] /\ keys' \subseteq Events
  BY <1>1, <1>2, <1>4 DEF BusInv, TypeOK
<1>6. effects[e] = 0 /\ KeysAreEffects'
  BY <1>1, <1>2, <1>3, <1>4 DEF BusInv, ConsumerInv, KeysAreEffects
<1>7. Requeued
  BY <1>1, <1>2, ArchivingRequeues DEF BusInv, TypeOK
<1>8. NothingLost'
  <2>1. \A f \in Events : effects[f] > 0 => effects'[f] > 0
    BY <1>4
  <2>2. effects'[e] > 0
    BY <1>2, <1>4, <1>6
  <2> QED
    BY <1>1, <2>1, <2>2, ArchivingLosesNone
<1>9. \A d \in Consumers \ {c} : pc[d] = "handling" => got[d].event \notin keys'
  BY <1>1, <1>3 DEF BusInv, ConsumerInv, HandlersApart
<1> QED
  BY <1>1, <1>5, <1>6, <1>7, <1>8, <1>9, DoneKeeps

LEMMA DeadLetterKeeps == ASSUME BusInv, NEW c \in Consumers, DeadLetter(c) PROVE BusInv'
<1> USE DEF outboxVars, relayVars, taskVars
<1> DEFINE e == got[c].event
<1>1. /\ pc[c] # "idle" /\ Done(c) /\ queue' = Archived(got[c].id)
      /\ dlq' = [dlq EXCEPT ![e] = @ + 1]
      /\ UNCHANGED <<keys, effects, outboxVars, relayVars, taskVars>>
  BY DEF DeadLetter
<1>2. got[c].id \in Nat /\ e \in Events
  BY <1>1, HeldIsMessage
<1>3. /\ dlq \in [Events -> Nat]
      /\ \A f \in Events : dlq'[f] = IF f = e THEN dlq[f] + 1 ELSE dlq[f]
  BY <1>1 DEF BusInv, TypeOK
<1>4. effects' \in [Events -> Nat] /\ dlq' \in [Events -> Nat] /\ keys' \subseteq Events
  BY <1>1, <1>2, <1>3 DEF BusInv, TypeOK
<1>5. Requeued
  BY <1>1, <1>2, ArchivingRequeues DEF BusInv, TypeOK
<1>6. NothingLost'
  <2>1. dlq'[e] > 0 /\ \A f \in Events : dlq[f] > 0 => dlq'[f] > 0
    BY <1>2, <1>3
  <2> QED
    BY <1>1, <2>1, ArchivingLosesNone
<1>7. KeysAreEffects' /\ \A d \in Consumers \ {c} : pc[d] = "handling" => got[d].event \notin keys'
  BY <1>1 DEF BusInv, ConsumerInv, KeysAreEffects, HandlersApart
<1> QED
  BY <1>1, <1>4, <1>5, <1>6, <1>7, DoneKeeps

LEMMA RescheduleKeeps == ASSUME BusInv, NEW c \in Consumers, Reschedule(c) PROVE BusInv'
<1> USE DEF outboxVars, relayVars, taskVars
<1> DEFINE image(m) == IF m.id = got[c].id /\ m.state # "archived"
                         THEN [m EXCEPT !.state = "hidden"] ELSE m
<1>1. /\ Done(c) /\ queue' = {image(m) : m \in queue}
      /\ UNCHANGED <<keys, effects, dlq, outboxVars, relayVars, taskVars>>
  BY DEF Reschedule
<1>2. \A m \in queue : /\ image(m) \in queue' /\ image(m) \in Message
                       /\ image(m).id = m.id /\ image(m).event = m.event
                       /\ m.state # "archived" => image(m).state # "archived"
  <2> TAKE m \in queue
  <2>1. m \in Message
    BY DEF BusInv, TypeOK
  <2>2. image(m) \in queue'
    BY <1>1
  <2>3. CASE image(m) = m
    BY <2>1, <2>2, <2>3
  <2>4. CASE image(m) = [m EXCEPT !.state = "hidden"]
    <3>1. /\ [m EXCEPT !.state = "hidden"] \in Message
          /\ [m EXCEPT !.state = "hidden"].id = m.id
          /\ [m EXCEPT !.state = "hidden"].event = m.event
          /\ [m EXCEPT !.state = "hidden"].state = "hidden"
      BY <2>1 DEF Message
    <3> HIDE DEF image
    <3> QED
      BY <2>2, <2>4, <3>1
  <2> QED
    BY <2>3, <2>4
<1>3. \A m \in queue' : \E n \in queue : m = image(n)
  BY <1>1
<1> HIDE DEF image
<1>4. Requeued
  BY <1>2, <1>3 DEF Requeued
<1>5. \A n \in Live : \E k \in Live' : k.event = n.event
  BY <1>2 DEF Live
<1>6. NothingLost'
  BY <1>1, <1>5 DEF BusInv, NothingLost
<1>7. KeysAreEffects' /\ \A d \in Consumers \ {c} : pc[d] = "handling" => got[d].event \notin keys'
  BY <1>1 DEF BusInv, ConsumerInv, KeysAreEffects, HandlersApart
<1>8. effects' \in [Events -> Nat] /\ dlq' \in [Events -> Nat] /\ keys' \subseteq Events
  BY <1>1 DEF BusInv, TypeOK
<1> QED
  BY <1>1, <1>4, <1>6, <1>7, <1>8, DoneKeeps

LEMMA ReappearKeeps == ASSUME BusInv, Reappear PROVE BusInv'
<1> USE DEF outboxVars, relayVars, consumerVars, taskVars
<1>1. PICK m \in queue : m.state = "hidden" /\ queue' = Updated(m, [m EXCEPT !.state = "visible"])
  BY DEF Reappear
<1>2. /\ [m EXCEPT !.state = "visible"] \in Message
      /\ [m EXCEPT !.state = "visible"].id = m.id /\ [m EXCEPT !.state = "visible"].event = m.event
      /\ [m EXCEPT !.state = "visible"].state # "archived"
  BY DEF BusInv, TypeOK, Message
<1>3. Requeued /\ \A n \in Live : \E k \in Live' : k.event = n.event
  BY <1>1, <1>2, UpdatingRequeues DEF BusInv, TypeOK
<1>4. UNCHANGED <<outboxVars, relayVars, consumerVars, taskVars>>
  BY DEF Reappear
<1>5. TypeOK'
  BY <1>3, <1>4 DEF Requeued, BusInv, TypeOK
<1>6. RelayInv' /\ QueueInv' /\ CopiesAreQueued'
  BY <1>3, <1>4, RequeueKeeps, CopiesStay
<1>7. KeysAreEffects' /\ HandlersApart' /\ NothingLost'
  BY <1>3, <1>4 DEF BusInv, ConsumerInv, KeysAreEffects, HandlersApart, NothingLost
<1> QED
  BY <1>5, <1>6, <1>7 DEF BusInv, ConsumerInv

(***************************************************************************)
(* Tasks come and go.                                                      *)
(***************************************************************************)
LEMMA RelayDies == ASSUME BusInv, NEW r \in Relays, TaskDies(r) PROVE BusInv'
<1> USE DEF outboxVars
<1>1. /\ batch' = [batch EXCEPT ![r] = {}] /\ sent' = [sent EXCEPT ![r] = {}]
      /\ failures' = failures + 1 /\ alive' \subseteq alive
      /\ UNCHANGED <<got, pc, published, nextId, keys, effects, dlq, outboxVars, queue>>
  BY DEF TaskDies, EndBatch
<1>2. /\ batch \in [Relays -> SUBSET Events] /\ sent \in [Relays -> SUBSET Message]
      /\ \A q \in Relays : /\ batch'[q] = IF q = r THEN {} ELSE batch[q]
                           /\ sent'[q] = IF q = r THEN {} ELSE sent[q]
  BY <1>1 DEF BusInv, TypeOK
<1>3. TypeOK'
  BY <1>1, <1>2 DEF BusInv, TypeOK
<1>4. RelayInv'
  BY <1>1, <1>2 DEF BusInv, RelayInv, Numbered, BatchesFree, SentFromBatch, Stored
<1>5. Carried' \subseteq Carried
  BY <1>1, <1>2 DEF Carried
<1>6. QueueInv'
  BY <1>1, <1>5 DEF BusInv, QueueInv, Identities, QueuedArePublished
<1>7. ConsumerInv' /\ NothingLost'
  BY <1>1 DEF BusInv, ConsumerInv, CopiesAreQueued, KeysAreEffects, HandlersApart,
              NothingLost, Live
<1> QED
  BY <1>3, <1>4, <1>6, <1>7 DEF BusInv

LEMMA ConsumerDies == ASSUME BusInv, NEW c \in Consumers, TaskDies(c) PROVE BusInv'
<1> USE DEF outboxVars
<1>1. /\ Done(c) /\ failures' = failures + 1 /\ alive' \subseteq alive
      /\ UNCHANGED <<batch, sent, published, nextId, keys, effects, dlq, outboxVars, queue>>
  BY TaskAssumption DEF TaskDies
<1>2. \A d \in Consumers : /\ got'[d] = IF d = c THEN NoMessage ELSE got[d]
                           /\ pc'[d] = IF d = c THEN "idle" ELSE pc[d]
  BY <1>1 DEF Done, BusInv, TypeOK
<1>3. TypeOK'
  BY <1>1, <1>2 DEF Done, BusInv, TypeOK
<1>4. RelayInv' /\ QueueInv' /\ NothingLost'
  BY <1>1 DEF BusInv, RelayInv, Numbered, BatchesFree, SentFromBatch, Stored,
              QueueInv, Identities, Carried, QueuedArePublished, NothingLost, Live
<1>5. ConsumerInv'
  BY <1>1, <1>2 DEF BusInv, ConsumerInv, CopiesAreQueued, KeysAreEffects, HandlersApart
<1> QED
  BY <1>3, <1>4, <1>5 DEF BusInv

LEMMA RestartKeeps == ASSUME BusInv, NEW t \in Tasks, Restart(t) PROVE BusInv'
<1> USE DEF outboxVars, relayVars, consumerVars
<1>1. TypeOK'
  BY DEF Restart, BusInv, TypeOK
<1>2. RelayInv' /\ QueueInv'
  BY DEF Restart, BusInv, RelayInv, Numbered, BatchesFree, SentFromBatch, Stored,
         QueueInv, Identities, Carried, QueuedArePublished
<1>3. ConsumerInv' /\ NothingLost'
  BY DEF Restart, BusInv, ConsumerInv, CopiesAreQueued, KeysAreEffects, HandlersApart,
         NothingLost, Live
<1> QED
  BY <1>1, <1>2, <1>3 DEF BusInv

LEMMA BusStep == BusInv /\ [Next]_vars => BusInv'
<1> SUFFICES ASSUME BusInv, [Next]_vars PROVE BusInv'
  OBVIOUS
<1>1. CASE UNCHANGED vars
  <2> USE <1>1 DEF vars, outboxVars, relayVars, consumerVars, taskVars
  <2>1. TypeOK' /\ Stored' = Stored /\ Carried' = Carried /\ Live' = Live
    BY DEF BusInv, TypeOK, Stored, Carried, Live
  <2> QED
    BY <2>1 DEF BusInv, RelayInv, Numbered, BatchesFree, SentFromBatch, QueueInv, Identities,
                QueuedArePublished, ConsumerInv, CopiesAreQueued, KeysAreEffects, HandlersApart,
                NothingLost
<1>2. ASSUME Next, NEW w \in Writers,
             Enqueue(w) \/ EndTransaction(w, "committed") \/ EndTransaction(w, "rolledback")
      PROVE  BusInv'
  BY <1>2, StoredStays, WriterKeeps
<1>3. CASE \E r \in Relays : RelayStep(r)
  BY <1>3, SelectKeeps, SendKeeps, MarkKeeps DEF RelayStep
<1>4. CASE \E c \in Consumers : ConsumerStep(c)
  BY <1>4, ReadKeeps, HandlingKeeps, SkipKeeps, HandledKeeps, DeadLetterKeeps, RescheduleKeeps
     DEF ConsumerStep
<1>5. CASE Reappear
  BY <1>5, ReappearKeeps
<1>6. CASE \E t \in Tasks : TaskDies(t) \/ Restart(t)
  BY <1>6, RelayDies, ConsumerDies, RestartKeeps DEF Tasks
<1> QED
  BY <1>1, <1>2, <1>3, <1>4, <1>5, <1>6 DEF Next

LEMMA BusHolds == Spec => []BusInv
  BY BusStart, BusStep, PTL DEF Spec

(* Exactly-once relay, whatever relays overlap or die.                     *)
THEOREM RelayIsExactlyOnce == Spec => []RelayedOnce
<1>1. BusInv => RelayedOnce
  BY DEF BusInv, RelayInv, BatchesFree, QueueInv, Identities, QueuedArePublished, Carried,
         RelayedOnce
<1> QED
  BY <1>1, BusHolds, PTL

(* Published events are queued, applied or dead letters.                   *)
THEOREM NoEventIsLost == Spec => []NothingLost
<1>1. BusInv => NothingLost
  BY DEF BusInv
<1> QED
  BY <1>1, BusHolds, PTL

(* The effect of an event is committed once however often it is delivered. *)
THEOREM EffectsHappenOnce == Spec => []HandledOnce
<1>1. BusInv => HandledOnce
  BY DEF BusInv, ConsumerInv, KeysAreEffects, HandledOnce
<1> QED
  BY <1>1, BusHolds, PTL
=============================================================================
