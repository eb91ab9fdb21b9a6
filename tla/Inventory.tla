----------------------------- MODULE Inventory -----------------------------
(***************************************************************************)
(* The stock tables of the hub (services/core/app/domain/inventory.py) as  *)
(* concurrent database sessions see them.  A level is the row of the       *)
(* inventory table of one (variant, warehouse) pair.  A session runs one   *)
(* transaction at READ COMMITTED: apply_movement locks the row with        *)
(* SELECT ... FOR UPDATE, changes it, appends a stock_movements row and an *)
(* outbox event, and COMMIT publishes all of it at once.                   *)
(*                                                                         *)
(* What a session has written and not committed is visible to it alone;    *)
(* since a written row stays locked until the end of the transaction, one  *)
(* draft per row, owned by the lock's holder, represents it.               *)
(***************************************************************************)
EXTENDS Integers, Sequences, FiniteSetsExt

CONSTANTS
  Variants, Warehouses,
  Sessions,        \* database sessions, each runs one transaction at a time
  NoSession,       \* "nobody holds the lock of this row"
  NoLevel,         \* "no expected_version was given"
  Stock,           \* stock on hand of each row at the start; 0: no row yet
  ApiKinds,        \* the kinds of movement API callers post
  Amounts,         \* the quantities they ask for
  MaxSeq           \* bound: no transaction starts once MaxSeq events exist

Rows == Variants \X Warehouses
Kinds == {"in", "out", "reserve", "unreserve", "adjust"}
Level == [qty : Nat, reserved : Nat, version : Nat]

ASSUME SessionAssumption == NoSession \notin Sessions
ASSUME AmountAssumption == Amounts \subseteq Nat \ {0}
ASSUME StockAssumption == Stock \in [Rows -> Nat]
ASSUME KindAssumption == ApiKinds \subseteq Kinds
ASSUME BoundAssumption == MaxSeq \in Nat
ASSUME NoLevelAssumption == NoLevel \notin Level

VARIABLES
  levels,          \* committed inventory rows
  journal,         \* committed stock_movements, summed per row
  outbox,          \* committed inventory.movement.applied events
  nextSeq,         \* the outbox sequence: drawn at enqueue, never rolled back
  holder,          \* row lock of each inventory row
  draft,           \* what the holder of a row has written to it
  pending,         \* events enqueued by each open transaction
  job, pc,         \* what each session runs, and where it stands
  todo,            \* movements its transaction has still to apply
  seen             \* attributes of the Inventory object the code holds

stockVars == <<levels, journal, outbox, nextSeq, holder, draft, pending>>
sessionVars == <<job, pc, todo, seen>>
vars == <<stockVars, sessionVars>>

Totals == [qty : Int, reserved : Int, entries : Nat]

(* The values the INSERT gives a new row.  No committed row keeps them:    *)
(* the transaction that inserts a row also bumps its version, so version   *)
(* zero stands for "there is no such row".                                 *)
NewLevel == [qty |-> 0, reserved |-> 0, version |-> 0]
Exists(level) == level.version > 0

(* Only an adjust carries a sign (MovementRequest._qty_sign).              *)
Movement ==
  {m \in [row : Rows, kind : Kinds, qty : Int, expected : Level \cup {NoLevel}] :
     m.kind # "adjust" => m.qty > 0}

(***************************************************************************)
(* _effect: what each kind of movement does to a level, and when it is     *)
(* refused.                                                                *)
(***************************************************************************)
(* Mutant: reservations forgotten.                                         *)
AvailableOnHand(level) == level.qty

Available(level) == level.qty - level.reserved

Permitted(m, level) ==
  /\ m.kind \in {"out", "reserve"} => m.qty <= Available(level)
  /\ m.kind = "unreserve" => m.qty <= level.reserved
  /\ m.kind = "adjust" => level.qty + m.qty >= level.reserved

QtyDelta(m) == IF m.kind \in {"in", "adjust"} THEN m.qty
               ELSE IF m.kind = "out" THEN -m.qty ELSE 0

ReservedDelta(m) == IF m.kind = "reserve" THEN m.qty
                    ELSE IF m.kind = "unreserve" THEN -m.qty ELSE 0

(* The row as session s sees it: its own draft, else the committed row.    *)
View(s, r) == IF holder[r] = s THEN draft[r].level ELSE levels[r]

Booked(s, r) == IF holder[r] = s THEN draft[r].journal ELSE journal[r]

(* Mutant: only movements of goods bump the version.                       *)
StoredReservationUnversioned(s, m) ==
  [qty      |-> IF QtyDelta(m) = 0 THEN View(s, m.row).qty
                ELSE seen[s].qty + QtyDelta(m),
   reserved |-> IF ReservedDelta(m) = 0 THEN View(s, m.row).reserved
                ELSE seen[s].reserved + ReservedDelta(m),
   version  |-> seen[s].version + IF QtyDelta(m) = 0 THEN 0 ELSE 1]

(* Mutant: the UPDATE writes the whole object back.                        *)
StoredWholeObject(s, m) == [qty      |-> seen[s].qty + QtyDelta(m),
                            reserved |-> seen[s].reserved + ReservedDelta(m),
                            version  |-> seen[s].version + 1]

(* The UPDATE writes the columns the movement changes, computed from the   *)
(* object in memory; the other columns keep the value of the stored row.   *)
Stored(s, m) ==
  [qty      |-> IF QtyDelta(m) = 0 THEN View(s, m.row).qty
                ELSE seen[s].qty + QtyDelta(m),
   reserved |-> IF ReservedDelta(m) = 0 THEN View(s, m.row).reserved
                ELSE seen[s].reserved + ReservedDelta(m),
   version  |-> seen[s].version + 1]

(* ck_inventory_qty_nonneg, _reserved_nonneg and _reserved_le_qty.         *)
Sound(level) == /\ 0 <= level.reserved
                /\ level.reserved <= level.qty

(* Mutant: a version older than the row's passes.                          *)
VersionNotAhead(m, level) ==
  m.expected # NoLevel => m.expected.version <= level.version

VersionMatches(m, level) ==
  m.expected # NoLevel => m.expected.version = level.version

Entered(booked, m) == [qty      |-> booked.qty + QtyDelta(m),
                       reserved |-> booked.reserved + ReservedDelta(m),
                       entries  |-> booked.entries + 1]

TypeOK ==
  /\ levels \in [Rows -> Level]
  /\ journal \in [Rows -> Totals]
  /\ outbox \subseteq [seq : Nat, row : Rows, level : Level]
  /\ nextSeq \in Nat
  /\ holder \in [Rows -> Sessions \cup {NoSession}]
  /\ draft \in [Rows -> [level : Level, journal : Totals]]
  /\ pending \in [Sessions -> SUBSET [seq : Nat, row : Rows, level : Level]]
  /\ job \in [Sessions -> {"none", "movement", "transfer", "order", "sync"}]
  /\ pc \in [Sessions -> {"idle", "select", "insert", "apply", "commit",
                       "record", "plan", "create", "level"}]
  /\ todo \in [Sessions -> Seq(Movement)]
  /\ seen \in [Sessions -> Level]

NoTotals == [qty |-> 0, reserved |-> 0, entries |-> 0]
NoDraft == [level |-> NewLevel, journal |-> NoTotals]

(* The start is a hub whose first goods receipts have been committed: one  *)
(* "in" movement per stocked row.                                          *)
Received(r) == [qty |-> Stock[r], reserved |-> 0, version |-> 1]

Init ==
  /\ levels = [r \in Rows |-> IF Stock[r] = 0 THEN NewLevel ELSE Received(r)]
  /\ journal = [r \in Rows |->
                  IF Stock[r] = 0 THEN NoTotals
                  ELSE [qty |-> Stock[r], reserved |-> 0, entries |-> 1]]
  /\ outbox = {[seq |-> 0, row |-> r, level |-> Received(r)] :
                  r \in {x \in Rows : Stock[x] # 0}}
  /\ nextSeq = 0
  /\ holder = [r \in Rows |-> NoSession]
  /\ draft = [r \in Rows |-> NoDraft]
  /\ pending = [s \in Sessions |-> {}]
  /\ job = [s \in Sessions |-> "none"]
  /\ pc = [s \in Sessions |-> "idle"]
  /\ todo = [s \in Sessions |-> <<>>]
  /\ seen = [s \in Sessions |-> NewLevel]

(***************************************************************************)
(* Requests.  A caller may send back the version of the level it has read. *)
(***************************************************************************)
Begin(s, kindOfJob, movements) ==
  /\ job[s] = "none"
  /\ nextSeq < MaxSeq
  /\ job' = [job EXCEPT ![s] = kindOfJob]
  /\ pc' = [pc EXCEPT ![s] = "select"]
  /\ todo' = [todo EXCEPT ![s] = movements]
  /\ UNCHANGED <<stockVars, seen>>

(* Mutant: a request without _qty_sign.                                    *)
MoveAnySign(s) ==
  \E r \in Rows, k \in ApiKinds, a \in Amounts, e \in BOOLEAN :
    \E q \in {a, -a} :
      Begin(s, "movement",
            <<[row |-> r, kind |-> k, qty |-> q,
               expected |-> IF e THEN levels[r] ELSE NoLevel]>>)

Move(s) ==
  \E r \in Rows, k \in ApiKinds, a \in Amounts, e \in BOOLEAN :
    \E q \in IF k = "adjust" THEN {a, -a} ELSE {a} :
      Begin(s, "movement",
            <<[row |-> r, kind |-> k, qty |-> q,
               expected |-> IF e THEN levels[r] ELSE NoLevel]>>)

TransferStock(s) ==
  \E v \in Variants, from \in Warehouses, to \in Warehouses, a \in Amounts :
    /\ from # to
    /\ Begin(s, "transfer",
             <<[row |-> <<v, from>>, kind |-> "out", qty |-> a, expected |-> NoLevel],
               [row |-> <<v, to>>, kind |-> "in", qty |-> a, expected |-> NoLevel]>>)

(***************************************************************************)
(* apply_movement, statement by statement.                                 *)
(***************************************************************************)
Lock(s, r) ==
  /\ holder[r] \in {NoSession, s}
  /\ holder' = [holder EXCEPT ![r] = s]
  /\ draft' = [draft EXCEPT ![r] = [level |-> View(s, r), journal |-> Booked(s, r)]]

(* Mutant: a plain SELECT, the row is locked by the UPDATE only.           *)
SelectWithoutLock(s) ==
  /\ pc[s] = "select"
  /\ LET m == Head(todo[s]) IN
       /\ Exists(View(s, m.row))
       /\ seen' = [seen EXCEPT ![s] = View(s, m.row)]
  /\ pc' = [pc EXCEPT ![s] = "apply"]
  /\ UNCHANGED <<stockVars, job, todo>>

(* SELECT ... FOR UPDATE waits for the holder of an existing row and then  *)
(* reads the row that holder left.  A missing row locks nothing.           *)
SelectForUpdate(s) ==
  /\ pc[s] = "select"
  /\ LET m == Head(todo[s]) IN
       /\ Exists(View(s, m.row))
       /\ Lock(s, m.row)
       /\ seen' = [seen EXCEPT ![s] = View(s, m.row)]
  /\ pc' = [pc EXCEPT ![s] = "apply"]
  /\ UNCHANGED <<levels, journal, outbox, nextSeq, pending, job, todo>>

FindNoRow(s) ==
  /\ pc[s] = "select"
  /\ LET m == Head(todo[s]) IN
       /\ ~Exists(View(s, m.row))
       /\ m.kind \in {"in", "adjust"}
  /\ pc' = [pc EXCEPT ![s] = "insert"]
  /\ UNCHANGED <<stockVars, job, todo, seen>>

(* The INSERT of NewLevel, which is how a missing row looks.  It waits     *)
(* while another transaction holds the same key uncommitted, and succeeds  *)
(* if that one rolls back.                                                 *)
InsertRow(s) ==
  /\ pc[s] = "insert"
  /\ LET r == Head(todo[s]).row IN
       /\ ~Exists(levels[r])
       /\ Lock(s, r)
       /\ seen' = [seen EXCEPT ![s] = View(s, r)]
  /\ pc' = [pc EXCEPT ![s] = "apply"]
  /\ UNCHANGED <<levels, journal, outbox, nextSeq, pending, job, todo>>

(* The conditions under which apply_movement raises a domain error.        *)
NoLevelYet(s) == /\ pc[s] = "select"
                 /\ ~Exists(View(s, Head(todo[s]).row))
                 /\ Head(todo[s]).kind \notin {"in", "adjust"}

ConcurrentlyCreated(s) == /\ pc[s] = "insert"
                          /\ Exists(levels[Head(todo[s]).row])

Refused(s) == /\ pc[s] = "apply"
              /\ ~ /\ VersionMatches(Head(todo[s]), seen[s])
                   /\ Permitted(Head(todo[s]), seen[s])

Fails(s) == NoLevelYet(s) \/ ConcurrentlyCreated(s) \/ Refused(s)

(* Mutant: each leg of a transfer is committed on its own.                 *)
CommitEachMovement(s) == "commit"

(* The transaction goes on with the next movement, is ready to commit, or  *)
(* hands control back to the job that planned its movements.               *)
AfterMovement(s) == IF Len(todo[s]) > 1 THEN "select"
                    ELSE IF job[s] \in {"movement", "transfer"} THEN "commit"
                    ELSE "plan"

ApplyMovement(s) ==
  /\ pc[s] = "apply"
  /\ LET m == Head(todo[s])
         new == Stored(s, m)
     IN  /\ holder[m.row] \in {NoSession, s}
         /\ VersionMatches(m, seen[s])
         /\ Permitted(m, seen[s])
         /\ Sound(new)
         /\ holder' = [holder EXCEPT ![m.row] = s]
         /\ draft' = [draft EXCEPT ![m.row] =
                        [level |-> new, journal |-> Entered(Booked(s, m.row), m)]]
         /\ pending' = [pending EXCEPT ![s] =
                          @ \cup {[seq |-> nextSeq + 1, row |-> m.row, level |-> new]}]
  /\ nextSeq' = nextSeq + 1
  /\ todo' = [todo EXCEPT ![s] = Tail(@)]
  /\ pc' = [pc EXCEPT ![s] = AfterMovement(s)]
  /\ UNCHANGED <<levels, journal, outbox, job, seen>>

(***************************************************************************)
(* The end of a transaction.                                               *)
(***************************************************************************)
Release(s) ==
  /\ holder' = [r \in Rows |-> IF holder[r] = s THEN NoSession ELSE holder[r]]
  /\ draft' = [r \in Rows |-> IF holder[r] = s THEN NoDraft ELSE draft[r]]
  /\ pending' = [pending EXCEPT ![s] = {}]

Finish(s) ==
  /\ Release(s)
  /\ job' = [job EXCEPT ![s] = "none"]
  /\ pc' = [pc EXCEPT ![s] = "idle"]
  /\ todo' = [todo EXCEPT ![s] = <<>>]
  /\ seen' = [seen EXCEPT ![s] = NewLevel]

Publish(s) ==
  /\ levels' = [r \in Rows |-> IF holder[r] = s THEN draft[r].level ELSE levels[r]]
  /\ journal' = [r \in Rows |-> IF holder[r] = s THEN draft[r].journal ELSE journal[r]]
  /\ outbox' = outbox \cup pending[s]

Commit(s) ==
  /\ pc[s] = "commit"
  /\ Publish(s)
  /\ Finish(s)
  /\ UNCHANGED nextSeq

(* Mutant: events are sent although their transaction rolls back.          *)
RollBackAndTell(s) ==
  /\ Finish(s)
  /\ outbox' = outbox \cup pending[s]
  /\ UNCHANGED <<levels, journal, nextSeq>>

RollBack(s) ==
  /\ Finish(s)
  /\ UNCHANGED <<levels, journal, outbox, nextSeq>>

(* A domain error leaves the request handler and rolls the session back.   *)
Refuse(s) == Fails(s) /\ RollBack(s)

(* The process dies or the connection drops.                               *)
Crash(s) == job[s] # "none" /\ RollBack(s)

(* The transaction whose lock or uncommitted key session s waits for.      *)
Wanted(s) == Head(todo[s]).row

WaitsFor(s) ==
  IF \/ pc[s] = "select" /\ Exists(View(s, Wanted(s)))
     \/ pc[s] = "insert" /\ ~Exists(levels[Wanted(s)])
  THEN {holder[Wanted(s)]} \ {NoSession, s}
  ELSE {}

(* Transactions that wait for each other in a ring: one of them is chosen  *)
(* by the database as the victim.                                          *)
InRing(s, BlockedBy(_)) ==
  \E ring \in SUBSET Sessions :
    /\ s \in ring
    /\ \A t \in ring : BlockedBy(t) # {}
    /\ UNION {BlockedBy(t) : t \in ring} = ring

(* Mutant: nobody looks for deadlocks.                                     *)
NeverDeadlocked(s) == FALSE

Deadlocked(s) == InRing(s, WaitsFor)

AbortDeadlock(s) == Deadlocked(s) /\ RollBack(s)

MovementStep(s) ==
  \/ SelectForUpdate(s)
  \/ FindNoRow(s)
  \/ InsertRow(s)
  \/ ApplyMovement(s)

(* Every step of a transaction but its client's call and the crash.        *)
ApiProgress(s) ==
  \/ MovementStep(s)
  \/ Commit(s)
  \/ Refuse(s)
  \/ AbortDeadlock(s)

ApiStep(s) ==
  \/ Move(s)
  \/ TransferStock(s)
  \/ ApiProgress(s)
  \/ Crash(s)

Next == \E s \in Sessions : ApiStep(s)

Spec == Init /\ [][Next]_vars

(* A session that can take its next statement takes it; the database hands *)
(* a row lock to its waiters in turn, hence strong fairness, and breaks    *)
(* every deadlock.  No fairness makes a client call or a process crash.    *)
Fairness == \A s \in Sessions : SF_vars(ApiProgress(s))

FairSpec == Spec /\ Fairness

-----------------------------------------------------------------------------
(***************************************************************************)
(* Correctness.                                                            *)
(***************************************************************************)

(* Anti-oversell does not lean on the database: whenever apply_movement's  *)
(* own checks let a movement through, the row it goes on to write satisfies*)
(* the CHECK constraints of the inventory table, which are only a backstop *)
(* (models.py: "the domain _effect guard catches violations first").       *)
GuardsSuffice ==
  \A s \in Sessions :
    LET m == Head(todo[s]) IN
      pc[s] = "apply" /\ VersionMatches(m, seen[s]) /\ Permitted(m, seen[s])
        => Sound(Stored(s, m))

(* The movement journal explains every level: what the committed movements *)
(* of a row add up to is what the row holds, on hand and reserved, and the *)
(* version counts them.                                                    *)
JournalExplainsLevels ==
  \A r \in Rows : levels[r] = [qty      |-> journal[r].qty,
                               reserved |-> journal[r].reserved,
                               version  |-> journal[r].entries]

(* A consumer that applies the committed events of one row in outbox order *)
(* sees its versions 1, 2, ... without gap or repetition and ends with the *)
(* committed level.                                                        *)
EventsOf(r) == {e \in outbox : e.row = r}

EventsReplayLevels ==
  \A r \in Rows :
    /\ {e.level.version : e \in EventsOf(r)} = 1..levels[r].version
    /\ \A e, f \in EventsOf(r) : e.seq < f.seq <=> e.level.version < f.level.version
    /\ \A e \in EventsOf(r) : e.level.version = levels[r].version => e.level = levels[r]

(* Optimistic locking: a movement sent with the version of a level the     *)
(* caller has read is applied only to exactly that level, whatever other   *)
(* transactions did between the read and the movement.                     *)
AppliesNow(s) == pc[s] = "apply" /\ pending'[s] # {} /\ pending'[s] # pending[s]

ExpectedLevelIsTheLevel ==
  [][\A s \in Sessions :
       AppliesNow(s) /\ Head(todo[s]).expected # NoLevel
         => View(s, Head(todo[s]).row) = Head(todo[s]).expected]_vars

(* A transfer neither creates nor loses stock, and no other session ever   *)
(* sees one leg of it without the other: its commit takes off one row what *)
(* it adds to another row of the same variant, and changes no other level. *)
Moves(from, to, a) ==
  \A r \in Rows :
    /\ levels'[r].qty = levels[r].qty + (IF r = from THEN -a ELSE IF r = to THEN a ELSE 0)
    /\ levels'[r].reserved = levels[r].reserved

TransferConservesStock ==
  [][\A s \in Sessions :
       job[s] = "transfer" /\ job'[s] = "none"
         => \/ levels' = levels
            \/ \E v \in Variants, from \in Warehouses, to \in Warehouses, a \in Amounts :
                 from # to /\ Moves(<<v, from>>, <<v, to>>, a)]_vars

(* Readers of the committed levels and events see an append-only ledger of *)
(* sound levels, whatever transactions run, fail or crash.                 *)
Told == {[row |-> e.row, level |-> e.level] : e \in outbox}

Ledger == INSTANCE StockLedger WITH current <- levels, history <- Told

ImplementsLedger == Ledger!Spec

(* Every transaction ends, also when transfers lock the same rows in       *)
(* opposite order.                                                         *)
TransactionsEnd == \A s \in Sessions : job[s] # "none" ~> job[s] = "none"
=============================================================================
