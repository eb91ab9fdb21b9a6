-------------------------- MODULE InventoryProofs --------------------------
(***************************************************************************)
(* Proofs about Inventory, for any variants, warehouses, sessions, amounts *)
(* and bounds: the tables, the events that tell of them, StockLedger as    *)
(* their abstraction, transfers; then about the POS pull, which runs next  *)
(* to the sessions of Inventory; at the end about channel orders, which    *)
(* are delivered to sessions of Inventory and reserve by its movements.    *)
(***************************************************************************)
EXTENDS PosIngest, OrderIngest, TLAPS, SequenceTheorems, FiniteSetTheorems,
        WellFoundedInduction

(***************************************************************************)
(* The inductive invariant: a session about to apply a movement holds the  *)
(* lock of its row and the object in its memory is that row; every row and *)
(* every draft satisfies the CHECK constraints and is explained by its     *)
(* journal.                                                                *)
(***************************************************************************)
Busy == \A s \in Sessions :
          pc[s] \in {"select", "insert", "apply"} => todo[s] # <<>>

Applying ==
  \A s \in Sessions :
    pc[s] = "apply" => /\ holder[Head(todo[s]).row] = s
                       /\ seen[s] = draft[Head(todo[s]).row].level

RowsSound == \A r \in Rows : Sound(levels[r]) /\ Sound(draft[r].level)

Explains(totals, level) == level = [qty      |-> totals.qty,
                                    reserved |-> totals.reserved,
                                    version  |-> totals.entries]

RowsExplained == \A r \in Rows : /\ Explains(journal[r], levels[r])
                                 /\ Explains(draft[r].journal, draft[r].level)

StockInv == TypeOK /\ Busy /\ Applying /\ RowsSound /\ RowsExplained

-----------------------------------------------------------------------------
LEMMA NewRows == NewLevel \in Level /\ NoTotals \in Totals
                 /\ NoDraft \in [level : Level, journal : Totals]
  BY DEF NewLevel, NoTotals, NoDraft, Level, Totals

LEMMA InitEstablishes == Init => StockInv
  <1> SUFFICES ASSUME Init PROVE StockInv
    OBVIOUS
  <1> USE StockAssumption
  <1>1. \A r \in Rows : Stock[r] # 0 => Received(r) \in Level /\ Sound(Received(r))
    BY DEF Received, Level, Sound
  <1>2. TypeOK
    <2>1. levels \in [Rows -> Level]
      BY <1>1, NewRows DEF Init
    <2>2. journal \in [Rows -> Totals]
      BY NewRows DEF Init, Totals
    <2>3. outbox \subseteq [seq : Nat, row : Rows, level : Level]
      BY <1>1 DEF Init
    <2>4. todo \in [Sessions -> Seq(Movement)]
      BY DEF Init
    <2> QED
      BY <2>1, <2>2, <2>3, <2>4, NewRows DEF Init, TypeOK
  <1>3. Busy /\ Applying
    BY DEF Init, Busy, Applying
  <1>4. RowsSound
    BY <1>1 DEF Init, RowsSound, Sound, NoDraft, NewLevel
  <1>5. RowsExplained
    BY DEF Init, RowsExplained, Explains, NoDraft, NewLevel, NoTotals, Received
  <1> QED
    BY <1>2, <1>3, <1>4, <1>5 DEF StockInv

(* The row a session is about to work on.                                  *)
LEMMA HeadIsMovement ==
  ASSUME TypeOK, Busy, NEW s \in Sessions, pc[s] \in {"select", "insert", "apply"}
  PROVE  /\ todo[s] \in Seq(Movement) /\ todo[s] # <<>>
         /\ Head(todo[s]) \in Movement
         /\ Head(todo[s]).row \in Rows
         /\ Tail(todo[s]) \in Seq(Movement)
         /\ Len(todo[s]) > 1 => Tail(todo[s]) # <<>>
  <1>1. todo[s] \in Seq(Movement) /\ todo[s] # <<>>
    BY DEF TypeOK, Busy
  <1>2. Head(todo[s]) \in Movement /\ Tail(todo[s]) \in Seq(Movement)
        /\ Len(Tail(todo[s])) = Len(todo[s]) - 1
    BY <1>1, HeadTailProperties
  <1>3. Len(todo[s]) > 1 => Tail(todo[s]) # <<>>
    <2> SUFFICES ASSUME Tail(todo[s]) = <<>> PROVE Len(todo[s]) = 1
      OBVIOUS
    <2>1. Len(Tail(todo[s])) = 0
      BY EmptySeq
    <2>2. Len(todo[s]) \in Nat
      BY <1>1, LenProperties
    <2> QED
      BY <2>1, <2>2, <1>2
  <1>4. Head(todo[s]).row \in Rows
    BY <1>2 DEF Movement
  <1> QED
    BY <1>1, <1>2, <1>3, <1>4

(* What _effect lets through keeps a sound level sound.                    *)
LEMMA EffectSound ==
  ASSUME NEW m \in Movement, NEW level \in Level, Sound(level), Permitted(m, level)
  PROVE  /\ level.qty + QtyDelta(m) \in Nat
         /\ level.reserved + ReservedDelta(m) \in Nat
         /\ level.reserved + ReservedDelta(m) <= level.qty + QtyDelta(m)
  <1>1. m.kind \in Kinds /\ m.qty \in Int /\ (m.kind # "adjust" => m.qty > 0)
    BY DEF Movement
  <1>2. level.qty \in Nat /\ level.reserved \in Nat
    BY DEF Level
  <1> QED
    BY <1>1, <1>2 DEF Kinds, Sound, Permitted, Available, QtyDelta, ReservedDelta

(* Under the row lock the UPDATE stores what _effect computed.             *)
LEMMA StoredUnderLock ==
  ASSUME StockInv, NEW s \in Sessions, pc[s] = "apply"
  PROVE  LET m == Head(todo[s])
             row == draft[m.row]
         IN  /\ m \in Movement /\ m.row \in Rows
             /\ holder[m.row] = s
             /\ row.level \in Level /\ row.journal \in Totals
             /\ seen[s] = row.level
             /\ Booked(s, m.row) = row.journal
             /\ Stored(s, m) = [qty      |-> row.level.qty + QtyDelta(m),
                                reserved |-> row.level.reserved + ReservedDelta(m),
                                version  |-> row.level.version + 1]
             /\ Permitted(m, seen[s]) => Stored(s, m) \in Level /\ Sound(Stored(s, m))
             /\ Explains(Entered(Booked(s, m.row), m), Stored(s, m))
             /\ Entered(Booked(s, m.row), m) \in Totals
  <1> DEFINE m == Head(todo[s])
             row == draft[m.row]
  <1>1. m \in Movement /\ m.row \in Rows
    BY HeadIsMovement DEF StockInv
  <1>2. holder[m.row] = s /\ seen[s] = row.level
    BY DEF StockInv, Applying
  <1>3. row \in [level : Level, journal : Totals]
    BY <1>1 DEF StockInv, TypeOK
  <1>4. Sound(row.level) /\ Explains(row.journal, row.level)
    BY <1>1 DEF StockInv, RowsSound, RowsExplained
  <1>5. View(s, m.row) = row.level /\ Booked(s, m.row) = row.journal
    BY <1>2 DEF View, Booked
  <1>6. m.qty \in Int /\ m.kind \in Kinds
    BY <1>1 DEF Movement
  <1>7. row.level \in Level /\ row.level.qty \in Nat /\ row.level.reserved \in Nat
        /\ row.level.version \in Nat
    BY <1>3 DEF Level
  <1>8. row.journal \in Totals /\ row.journal.qty \in Int /\ row.journal.reserved \in Int
        /\ row.journal.entries \in Nat
    BY <1>3 DEF Totals
  <1>9. QtyDelta(m) \in Int /\ ReservedDelta(m) \in Int
    BY <1>6 DEF QtyDelta, ReservedDelta
  <1>10. Stored(s, m) = [qty      |-> row.level.qty + QtyDelta(m),
                         reserved |-> row.level.reserved + ReservedDelta(m),
                         version  |-> row.level.version + 1]
    BY <1>2, <1>5, <1>7, <1>9 DEF Stored
  <1>11. Permitted(m, seen[s]) => Stored(s, m) \in Level /\ Sound(Stored(s, m))
    <2> SUFFICES ASSUME Permitted(m, seen[s])
                 PROVE  Stored(s, m) \in Level /\ Sound(Stored(s, m))
      OBVIOUS
    <2>1. /\ row.level.qty + QtyDelta(m) \in Nat
          /\ row.level.reserved + ReservedDelta(m) \in Nat
          /\ row.level.reserved + ReservedDelta(m) <= row.level.qty + QtyDelta(m)
      BY <1>1, <1>2, <1>4, <1>7, EffectSound
    <2> QED
      BY <2>1, <1>7, <1>10 DEF Level, Sound
  <1>12. Explains(Entered(Booked(s, m.row), m), Stored(s, m))
    <2>1. /\ row.level.qty = row.journal.qty
          /\ row.level.reserved = row.journal.reserved
          /\ row.level.version = row.journal.entries
      BY <1>4 DEF Explains
    <2>2. Entered(Booked(s, m.row), m) =
            [qty      |-> row.journal.qty + QtyDelta(m),
             reserved |-> row.journal.reserved + ReservedDelta(m),
             entries  |-> row.journal.entries + 1]
      BY <1>5 DEF Entered
    <2> QED
      BY <2>1, <2>2, <1>10 DEF Explains
  <1>13. Entered(Booked(s, m.row), m) \in Totals
    BY <1>5, <1>8, <1>9 DEF Entered, Totals
  <1> QED
    BY <1>1, <1>2, <1>5, <1>7, <1>8, <1>10, <1>11, <1>12, <1>13

-----------------------------------------------------------------------------
(***************************************************************************)
(* Every step of a session preserves the inductive invariant.              *)
(***************************************************************************)
LEMMA BeginKeeps ==
  ASSUME StockInv, NEW s \in Sessions, NEW k \in {"movement", "transfer"},
         NEW ms \in Seq(Movement), ms # <<>>, Begin(s, k, ms)
  PROVE  StockInv'
  <1>1. TypeOK'
    BY DEF StockInv, TypeOK, Begin, stockVars
  <1>2. Busy' /\ Applying'
    BY DEF StockInv, TypeOK, Busy, Applying, Begin, stockVars
  <1>3. RowsSound' /\ RowsExplained'
    BY DEF StockInv, RowsSound, RowsExplained, Explains, Begin, stockVars
  <1> QED
    BY <1>1, <1>2, <1>3 DEF StockInv

(* What the callers begin with.                                            *)
LEMMA MoveBegins ==
  ASSUME TypeOK, NEW s \in Sessions, Move(s)
  PROVE  \E ms \in Seq(Movement) : ms # <<>> /\ Begin(s, "movement", ms)
  <1>0. PICK r \in Rows, k \in ApiKinds, a \in Amounts, e \in BOOLEAN :
          \E q \in IF k = "adjust" THEN {a, -a} ELSE {a} :
            Begin(s, "movement",
                  <<[row |-> r, kind |-> k, qty |-> q,
                     expected |-> IF e THEN levels[r] ELSE NoLevel]>>)
    BY DEF Move
  <1>1. PICK q \in IF k = "adjust" THEN {a, -a} ELSE {a} :
            Begin(s, "movement",
                  <<[row |-> r, kind |-> k, qty |-> q,
                     expected |-> IF e THEN levels[r] ELSE NoLevel]>>)
    BY <1>0
  <1> DEFINE m == [row |-> r, kind |-> k, qty |-> q,
                   expected |-> IF e THEN levels[r] ELSE NoLevel]
  <1>2. m \in Movement
    <2>1. levels[r] \in Level
      BY DEF TypeOK
    <2>2. k \in Kinds /\ a \in Nat /\ a > 0
      BY KindAssumption, AmountAssumption
    <2>3. q \in Int /\ (k # "adjust" => q > 0)
      BY <2>2
    <2> QED
      BY <2>1, <2>2, <2>3 DEF Movement
  <1>3. <<m>> \in Seq(Movement) /\ <<m>> # <<>>
    BY <1>2
  <1> QED
    BY <1>1, <1>3

LEMMA TransferBeginsTwo ==
  ASSUME NEW s \in Sessions, TransferStock(s)
  PROVE  \E ms \in Seq(Movement) : ms # <<>> /\ Begin(s, "transfer", ms)
  <1>1. PICK v \in Variants, from \in Warehouses, to \in Warehouses, a \in Amounts :
               Begin(s, "transfer",
             <<[row |-> <<v, from>>, kind |-> "out", qty |-> a, expected |-> NoLevel],
               [row |-> <<v, to>>, kind |-> "in", qty |-> a, expected |-> NoLevel]>>)
    BY DEF TransferStock
  <1> DEFINE out == [row |-> <<v, from>>, kind |-> "out", qty |-> a, expected |-> NoLevel]
             in == [row |-> <<v, to>>, kind |-> "in", qty |-> a, expected |-> NoLevel]
  <1>2. a \in Int /\ a > 0
    BY AmountAssumption
  <1>3. out \in Movement /\ in \in Movement
    BY <1>2 DEF Movement, Rows, Kinds
  <1>4. <<out, in>> \in Seq(Movement) /\ <<out, in>> # <<>>
    BY <1>3
  <1> QED
    BY <1>1, <1>4

LEMMA MoveKeeps ==
  ASSUME StockInv, NEW s \in Sessions, Move(s)
  PROVE  StockInv'
  BY MoveBegins, BeginKeeps DEF StockInv

LEMMA TransferKeeps ==
  ASSUME StockInv, NEW s \in Sessions, TransferStock(s)
  PROVE  StockInv'
  BY TransferBeginsTwo, BeginKeeps

(* Taking a free row lock makes the draft the committed row; taking it     *)
(* again changes nothing.                                                  *)
LEMMA LockKeeps ==
  ASSUME StockInv, NEW s \in Sessions, NEW r \in Rows, Lock(s, r),
         UNCHANGED <<levels, journal>>
  PROVE  /\ holder' \in [Rows -> Sessions \cup {NoSession}]
         /\ draft' \in [Rows -> [level : Level, journal : Totals]]
         /\ holder'[r] = s /\ draft'[r].level = View(s, r)
         /\ View(s, r) \in Level
         /\ \A x \in Rows : holder[x] \in Sessions /\ holder[x] # s
              => holder'[x] = holder[x] /\ draft'[x] = draft[x]
         /\ RowsSound' /\ RowsExplained'
         /\ holder[r] = s => draft'[r].level = draft[r].level
         /\ \A x \in Rows \ {r} : holder'[x] = holder[x] /\ draft'[x] = draft[x]
  <1>1. View(s, r) \in Level /\ Booked(s, r) \in Totals
    BY DEF StockInv, TypeOK, View, Booked
  <1>2. Sound(View(s, r)) /\ Explains(Booked(s, r), View(s, r))
    BY DEF StockInv, RowsSound, RowsExplained, View, Booked
  <1>3. /\ holder' \in [Rows -> Sessions \cup {NoSession}]
        /\ draft' \in [Rows -> [level : Level, journal : Totals]]
        /\ holder'[r] = s
        /\ draft'[r] = [level |-> View(s, r), journal |-> Booked(s, r)]
        /\ \A x \in Rows \ {r} : holder'[x] = holder[x] /\ draft'[x] = draft[x]
    BY <1>1 DEF StockInv, TypeOK, Lock
  <1>4. holder[r] \in {NoSession, s}
    BY DEF Lock
  <1>5. RowsSound' /\ RowsExplained'
    <2>1. \A x \in Rows : Sound(levels'[x]) /\ Explains(journal'[x], levels'[x])
      BY DEF StockInv, RowsSound, RowsExplained
    <2>2. Sound(draft'[r].level) /\ Explains(draft'[r].journal, draft'[r].level)
      BY <1>2, <1>3
    <2>3. \A x \in Rows \ {r} : Sound(draft'[x].level)
                               /\ Explains(draft'[x].journal, draft'[x].level)
      BY <1>3 DEF StockInv, RowsSound, RowsExplained
    <2> QED
      BY <2>1, <2>2, <2>3 DEF RowsSound, RowsExplained
  <1>6. holder[r] = s => draft'[r].level = draft[r].level
    BY <1>3 DEF View
  <1>7. draft'[r].level = View(s, r)
    BY <1>3
  <1>8. \A x \in Rows : holder[x] \in Sessions /\ holder[x] # s => x # r
    BY <1>4, SessionAssumption
  <1> QED
    BY <1>1, <1>3, <1>5, <1>6, <1>7, <1>8

(* SELECT ... FOR UPDATE and INSERT end alike: the row is locked and the   *)
(* object in memory is the row.                                            *)
LEMMA LoadKeeps ==
  ASSUME StockInv, NEW s \in Sessions, NEW r, r = Head(todo[s]).row,
         pc[s] \in {"select", "insert"},
         Lock(s, r),
         seen' = [seen EXCEPT ![s] = View(s, r)],
         pc' = [pc EXCEPT ![s] = "apply"],
         UNCHANGED <<levels, journal, outbox, nextSeq, pending, job, todo>>
  PROVE  StockInv'
  <1>1. r \in Rows /\ todo[s] # <<>>
    BY HeadIsMovement DEF StockInv
  <1>3. TypeOK'
    BY <1>1, LockKeeps DEF StockInv, TypeOK
  <1>4. Busy'
    BY <1>1 DEF StockInv, TypeOK, Busy
  <1>5. Applying'
    <2> SUFFICES ASSUME NEW t \in Sessions, pc'[t] = "apply"
                 PROVE  /\ holder'[Head(todo'[t]).row] = t
                        /\ seen'[t] = draft'[Head(todo'[t]).row].level
      BY DEF Applying
    <2>1. CASE t = s
      BY <2>1, <1>1, LockKeeps DEF StockInv, TypeOK
    <2>2. CASE t # s
      <3>1. pc[t] = "apply" /\ seen'[t] = seen[t]
        BY <2>2 DEF StockInv, TypeOK
      <3>2. Head(todo[t]).row \in Rows
        BY <3>1, HeadIsMovement DEF StockInv
      <3>3. holder[Head(todo[t]).row] = t /\ seen[t] = draft[Head(todo[t]).row].level
        BY <3>1 DEF StockInv, Applying
      <3> QED
        BY <1>1, <2>2, <3>1, <3>2, <3>3, LockKeeps
    <2> QED
      BY <2>1, <2>2
  <1> QED
    BY <1>1, <1>3, <1>4, <1>5, LockKeeps DEF StockInv

LEMMA FindNoRowKeeps ==
  ASSUME StockInv, NEW s \in Sessions, FindNoRow(s)
  PROVE  StockInv'
  <1>1. todo[s] # <<>>
    BY DEF StockInv, Busy, FindNoRow
  <1>2. TypeOK'
    BY DEF StockInv, TypeOK, FindNoRow, stockVars
  <1>3. Busy' /\ Applying'
    BY <1>1 DEF StockInv, TypeOK, Busy, Applying, FindNoRow, stockVars
  <1>4. RowsSound' /\ RowsExplained'
    BY DEF StockInv, RowsSound, RowsExplained, FindNoRow, stockVars
  <1> QED
    BY <1>2, <1>3, <1>4 DEF StockInv

LEMMA SelectKeeps ==
  ASSUME StockInv, NEW s \in Sessions, SelectForUpdate(s)
  PROVE  StockInv'
  BY LoadKeeps DEF SelectForUpdate

LEMMA InsertKeeps ==
  ASSUME StockInv, NEW s \in Sessions, InsertRow(s)
  PROVE  StockInv'
  BY LoadKeeps DEF InsertRow

LEMMA ApplyKeeps ==
  ASSUME StockInv, NEW s \in Sessions, ApplyMovement(s)
  PROVE  StockInv'
  <1> DEFINE m == Head(todo[s])
             new == Stored(s, m)
             totals == Entered(Booked(s, m.row), m)
             event == [seq |-> nextSeq + 1, row |-> m.row, level |-> new]
  <1>1. /\ pc[s] = "apply" /\ Permitted(m, seen[s])
        /\ holder' = [holder EXCEPT ![m.row] = s]
        /\ draft' = [draft EXCEPT ![m.row] = [level |-> new, journal |-> totals]]
        /\ pending' = [pending EXCEPT ![s] = @ \cup {event}]
        /\ nextSeq' = nextSeq + 1
        /\ todo' = [todo EXCEPT ![s] = Tail(@)]
        /\ pc' = [pc EXCEPT ![s] = AfterMovement(s)]
        /\ UNCHANGED <<levels, journal, outbox, job, seen>>
    BY DEF ApplyMovement
  <1>2. /\ m \in Movement /\ m.row \in Rows /\ holder[m.row] = s
        /\ new \in Level /\ Sound(new)
        /\ totals \in Totals /\ Explains(totals, new)
    BY <1>1, StoredUnderLock
  <1>3. Tail(todo[s]) \in Seq(Movement) /\ (Len(todo[s]) > 1 => Tail(todo[s]) # <<>>)
    BY <1>1, HeadIsMovement DEF StockInv
  <1>4. AfterMovement(s) \in {"select", "commit", "plan"}
        /\ (AfterMovement(s) = "select" => Len(todo[s]) > 1)
    BY DEF AfterMovement
  <1>5. TypeOK'
    <2>1. event \in [seq : Nat, row : Rows, level : Level]
      BY <1>2 DEF StockInv, TypeOK
    <2>2. pending' \in [Sessions -> SUBSET [seq : Nat, row : Rows, level : Level]]
      BY <1>1, <2>1 DEF StockInv, TypeOK
    <2>3. holder' \in [Rows -> Sessions \cup {NoSession}]
          /\ draft' \in [Rows -> [level : Level, journal : Totals]]
      BY <1>1, <1>2 DEF StockInv, TypeOK
    <2>4. todo' \in [Sessions -> Seq(Movement)]
      BY <1>1, <1>3 DEF StockInv, TypeOK
    <2>5. pc' \in [Sessions -> {"idle", "select", "insert", "apply", "commit",
                               "record", "plan", "create", "level"}]
      BY <1>1, <1>4 DEF StockInv, TypeOK
    <2>6. nextSeq' \in Nat
      BY <1>1 DEF StockInv, TypeOK
    <2> QED
      BY <1>1, <2>2, <2>3, <2>4, <2>5, <2>6 DEF StockInv, TypeOK
  <1>6. Busy'
    BY <1>1, <1>3, <1>4 DEF StockInv, TypeOK, Busy
  <1>7. Applying'
    <2> SUFFICES ASSUME NEW t \in Sessions, pc'[t] = "apply"
                 PROVE  /\ holder'[Head(todo'[t]).row] = t
                        /\ seen'[t] = draft'[Head(todo'[t]).row].level
      BY DEF Applying
    <2>1. t # s /\ pc[t] = "apply"
      BY <1>1, <1>4 DEF StockInv, TypeOK
    <2>2. holder[Head(todo[t]).row] = t /\ seen[t] = draft[Head(todo[t]).row].level
      BY <2>1 DEF StockInv, Applying
    <2>3. Head(todo[t]).row \in Rows /\ Head(todo[t]).row # m.row
      BY <2>1, <2>2, <1>2, HeadIsMovement DEF StockInv
    <2> QED
      BY <1>1, <2>1, <2>2, <2>3 DEF StockInv, TypeOK
  <1>8. RowsSound' /\ RowsExplained'
    <2>1. draft'[m.row].level = new /\ draft'[m.row].journal = totals
      BY <1>1, <1>2 DEF StockInv, TypeOK
    <2>2. \A x \in Rows \ {m.row} : draft'[x] = draft[x]
      BY <1>1 DEF StockInv, TypeOK
    <2> QED
      BY <1>1, <1>2, <2>1, <2>2 DEF StockInv, RowsSound, RowsExplained
  <1> QED
    BY <1>5, <1>6, <1>7, <1>8 DEF StockInv

(* The end of a transaction gives its rows back.                           *)
LEMMA FinishKeeps ==
  ASSUME StockInv, NEW s \in Sessions, Finish(s)
  PROVE  /\ holder' \in [Rows -> Sessions \cup {NoSession}]
         /\ draft' \in [Rows -> [level : Level, journal : Totals]]
         /\ pending' \in [Sessions -> SUBSET [seq : Nat, row : Rows, level : Level]]
         /\ job' \in [Sessions -> {"none", "movement", "transfer", "order", "sync"}]
         /\ pc' \in [Sessions -> {"idle", "select", "insert", "apply", "commit",
                                  "record", "plan", "create", "level"}]
         /\ todo' \in [Sessions -> Seq(Movement)]
         /\ seen' \in [Sessions -> Level]
         /\ Busy' /\ Applying'
         /\ \A r \in Rows : /\ Sound(draft'[r].level)
                            /\ Explains(draft'[r].journal, draft'[r].level)
  <1>1. /\ holder' = [r \in Rows |-> IF holder[r] = s THEN NoSession ELSE holder[r]]
        /\ draft' = [r \in Rows |-> IF holder[r] = s THEN NoDraft ELSE draft[r]]
        /\ pending' = [pending EXCEPT ![s] = {}]
        /\ job' = [job EXCEPT ![s] = "none"]
        /\ pc' = [pc EXCEPT ![s] = "idle"]
        /\ todo' = [todo EXCEPT ![s] = <<>>]
        /\ seen' = [seen EXCEPT ![s] = NewLevel]
    BY DEF Finish, Release
  <1>2. /\ holder' \in [Rows -> Sessions \cup {NoSession}]
        /\ draft' \in [Rows -> [level : Level, journal : Totals]]
        /\ pending' \in [Sessions -> SUBSET [seq : Nat, row : Rows, level : Level]]
        /\ job' \in [Sessions -> {"none", "movement", "transfer", "order", "sync"}]
        /\ pc' \in [Sessions -> {"idle", "select", "insert", "apply", "commit",
                                 "record", "plan", "create", "level"}]
        /\ seen' \in [Sessions -> Level]
    BY <1>1, NewRows DEF StockInv, TypeOK
  <1>3. todo' \in [Sessions -> Seq(Movement)]
    <2>1. <<>> \in Seq(Movement)
      OBVIOUS
    <2> QED
      BY <1>1, <2>1 DEF StockInv, TypeOK
  <1>4. Busy'
    BY <1>1 DEF StockInv, TypeOK, Busy
  <1>5. Applying'
    <2> SUFFICES ASSUME NEW t \in Sessions, pc'[t] = "apply"
                 PROVE  /\ holder'[Head(todo'[t]).row] = t
                        /\ seen'[t] = draft'[Head(todo'[t]).row].level
      BY DEF Applying
    <2>1. t # s /\ pc[t] = "apply"
      BY <1>1 DEF StockInv, TypeOK
    <2>2. holder[Head(todo[t]).row] = t /\ seen[t] = draft[Head(todo[t]).row].level
          /\ Head(todo[t]).row \in Rows
      BY <2>1, HeadIsMovement DEF StockInv, Applying
    <2> QED
      BY <1>1, <2>1, <2>2 DEF StockInv, TypeOK
  <1>6. Sound(NoDraft.level) /\ Explains(NoDraft.journal, NoDraft.level)
    BY DEF Sound, Explains, NoDraft, NewLevel, NoTotals
  <1>7. \A r \in Rows : /\ Sound(draft'[r].level)
                       /\ Explains(draft'[r].journal, draft'[r].level)
    BY <1>1, <1>6 DEF StockInv, RowsSound, RowsExplained
  <1> QED
    BY <1>2, <1>3, <1>4, <1>5, <1>7

LEMMA PublishKeeps ==
  ASSUME StockInv, NEW s \in Sessions, Publish(s)
  PROVE  /\ levels' \in [Rows -> Level]
         /\ journal' \in [Rows -> Totals]
         /\ outbox' \subseteq [seq : Nat, row : Rows, level : Level]
         /\ \A r \in Rows : Sound(levels'[r]) /\ Explains(journal'[r], levels'[r])
  BY DEF StockInv, TypeOK, RowsSound, RowsExplained, Publish

LEMMA CommitKeeps ==
  ASSUME StockInv, NEW s \in Sessions, Publish(s), Finish(s), UNCHANGED nextSeq
  PROVE  StockInv'
  BY PublishKeeps, FinishKeeps DEF StockInv, TypeOK, RowsSound, RowsExplained

LEMMA RollBackKeeps ==
  ASSUME StockInv, NEW s \in Sessions, RollBack(s)
  PROVE  StockInv'
  <1>1. Finish(s) /\ UNCHANGED <<levels, journal, outbox, nextSeq>>
    BY DEF RollBack
  <1> QED
    BY <1>1, FinishKeeps DEF StockInv, TypeOK, RowsSound, RowsExplained

LEMMA StutterKeeps ==
  ASSUME StockInv, UNCHANGED vars
  PROVE  StockInv'
  BY DEF vars, stockVars, sessionVars, StockInv, TypeOK, Busy, Applying,
         RowsSound, RowsExplained

LEMMA ApiStepKeeps ==
  ASSUME StockInv, NEW s \in Sessions, ApiStep(s)
  PROVE  StockInv'
  <1>1. CASE Move(s)
    BY <1>1, MoveKeeps
  <1>2. CASE TransferStock(s)
    BY <1>2, TransferKeeps
  <1>3. CASE MovementStep(s)
    BY <1>3, SelectKeeps, FindNoRowKeeps, InsertKeeps, ApplyKeeps DEF MovementStep
  <1>4. CASE Commit(s)
    BY <1>4, CommitKeeps DEF Commit
  <1>5. CASE Refuse(s) \/ Crash(s) \/ AbortDeadlock(s)
    BY <1>5, RollBackKeeps DEF Refuse, Crash, AbortDeadlock
  <1> QED
    BY <1>1, <1>2, <1>3, <1>4, <1>5 DEF ApiStep, ApiProgress

(* apply_movement keeps StockInv, whoever calls, is refused or crashes.    *)
THEOREM StockInvariant == Spec => []StockInv
  <1>1. StockInv /\ [Next]_vars => StockInv'
    BY ApiStepKeeps, StutterKeeps DEF Next
  <1> QED
    BY InitEstablishes, <1>1, PTL DEF Spec

(* Type correctness, for any number of variants, warehouses and sessions.  *)
THEOREM TypeCorrect == Spec => []TypeOK
  <1>1. StockInv => TypeOK
    BY DEF StockInv
  <1> QED
    BY <1>1, StockInvariant, PTL

(* Anti-oversell rests on apply_movement's own checks under the row lock:  *)
(* the CHECK constraints of the table never have anything to refuse.       *)
THEOREM ChecksAreOnlyABackstop == Spec => []GuardsSuffice
  <1>1. StockInv => GuardsSuffice
    BY StoredUnderLock DEF GuardsSuffice
  <1> QED
    BY <1>1, StockInvariant, PTL

(* Every committed level is what its committed movements add up to, and    *)
(* its version is their number.                                            *)
THEOREM JournalIsComplete == Spec => []JournalExplainsLevels
  <1>1. StockInv => JournalExplainsLevels
    BY DEF StockInv, RowsExplained, Explains, JournalExplainsLevels
  <1> QED
    BY <1>1, StockInvariant, PTL

-----------------------------------------------------------------------------
(***************************************************************************)
(* What the events tell of a row: one per version, in the order of their   *)
(* sequence numbers, the last one being the level.                         *)
(***************************************************************************)
Tells(events, level) ==
  /\ {e.level.version : e \in events} = 1 .. level.version
  /\ \A e, f \in events : /\ e.level.version = f.level.version => e = f
                          /\ e.seq < f.seq <=> e.level.version < f.level.version
  /\ \A e \in events : e.level.version = level.version => e.level = level
  /\ level.version = 0 => level = NewLevel

(* What a session will have told of a row it holds.                        *)
Drafted(s, r) == EventsOf(r) \cup {e \in pending[s] : e.row = r}

(* Everybody is told the committed level, and will be told the draft if    *)
(* its session commits.                                                    *)
RowsTold ==
  /\ \A r \in Rows : Tells(EventsOf(r), levels[r])
  /\ \A s \in Sessions, r \in Rows : holder[r] = s => Tells(Drafted(s, r), draft[r].level)

(* An event is about a row its session holds, and numbers are drawn once.  *)
EventsOwned == \A s \in Sessions : \A e \in pending[s] : holder[e.row] = s

Numbered(events) == \A e \in events : e.seq <= nextSeq /\ Sound(e.level)

EventsNumbered == Numbered(outbox) /\ \A s \in Sessions : Numbered(pending[s])

(* A caller expects a level that has been committed.                       *)
Committed(m) == \/ m.expected \in {NoLevel, NewLevel}
                \/ \E e \in EventsOf(m.row) : e.level = m.expected

ExpectationsCommitted ==
  \A s \in Sessions : \A i \in 1 .. Len(todo[s]) : Committed(todo[s][i])

EventInv == RowsTold /\ EventsOwned /\ EventsNumbered /\ ExpectationsCommitted

(* One more version, with a number not drawn before.                       *)
LEMMA TellsOneMore ==
  ASSUME NEW events, NEW level \in Level, NEW e, Tells(events, level),
         \A f \in events : f.seq \in Nat /\ f.seq < e.seq /\ f.level.version \in Nat,
         e.seq \in Nat, e.level \in Level, e.level.version = level.version + 1
  PROVE  Tells(events \cup {e}, e.level)
  <1>1. level.version \in Nat /\ e.level.version \in Nat
    BY DEF Level
  <1>2. \A f \in events : f.level.version <= level.version
    BY <1>1 DEF Tells
  <1>3. {f.level.version : f \in events \cup {e}} = 1 .. e.level.version
    <2>1. {f.level.version : f \in events \cup {e}} =
            {f.level.version : f \in events} \cup {e.level.version}
      OBVIOUS
    <2> QED
      BY <1>1, <2>1 DEF Tells
  <1>4. ASSUME NEW f \in events \cup {e}, NEW g \in events \cup {e}
        PROVE  /\ f.level.version = g.level.version => f = g
               /\ f.seq < g.seq <=> f.level.version < g.level.version
    BY <1>1, <1>2 DEF Tells
  <1>5. \A f \in events \cup {e} : f.level.version = e.level.version => f.level = e.level
    BY <1>1, <1>2
  <1> QED
    BY <1>1, <1>3, <1>4, <1>5 DEF Tells

LEMMA InitTells == Init => EventInv
  <1> SUFFICES ASSUME Init PROVE EventInv
    OBVIOUS
  <1>1. ASSUME NEW r \in Rows PROVE Tells(EventsOf(r), levels[r])
    <2>1. CASE Stock[r] = 0
      <3>1. EventsOf(r) = {} /\ levels[r] = NewLevel
        BY <2>1 DEF Init, EventsOf
      <3> QED
        BY <3>1 DEF Tells, NewLevel
    <2>2. CASE Stock[r] # 0
      <3>1. EventsOf(r) = {[seq |-> 0, row |-> r, level |-> Received(r)]}
            /\ levels[r] = Received(r)
        BY <2>2 DEF Init, EventsOf
      <3> QED
        BY <3>1 DEF Tells, Received
    <2> QED
      BY <2>1, <2>2
  <1>2. RowsTold /\ EventsOwned
    BY <1>1, SessionAssumption DEF Init, RowsTold, EventsOwned
  <1>3. EventsNumbered
    BY StockAssumption DEF Init, EventsNumbered, Numbered, Received, Sound
  <1>4. ExpectationsCommitted
    BY DEF Init, ExpectationsCommitted
  <1> QED
    BY <1>2, <1>3, <1>4 DEF EventInv

-----------------------------------------------------------------------------
(***************************************************************************)
(* Every step of a session keeps the story the events tell.                *)
(***************************************************************************)
LEMMA ExpectationsStay ==
  ASSUME ExpectationsCommitted, outbox \subseteq outbox', UNCHANGED todo
  PROVE  ExpectationsCommitted'
  BY DEF ExpectationsCommitted, Committed, EventsOf

LEMMA StoryStays ==
  ASSUME EventInv, UNCHANGED stockVars, ExpectationsCommitted'
  PROVE  EventInv'
  <1>1. UNCHANGED <<levels, outbox, nextSeq, holder, draft, pending>>
    BY DEF stockVars
  <1>2. RowsTold'
    BY <1>1 DEF EventInv, RowsTold, Drafted, EventsOf, Tells
  <1>3. EventsOwned' /\ EventsNumbered'
    BY <1>1 DEF EventInv, EventsOwned, EventsNumbered, Numbered
  <1> QED
    BY <1>2, <1>3 DEF EventInv

(* A caller that sends back a version has read a committed level.          *)
LEMMA ReadLevelIsCommitted ==
  ASSUME StockInv, EventInv, NEW r \in Rows
  PROVE  levels[r] = NewLevel \/ \E e \in EventsOf(r) : e.level = levels[r]
  <1>1. Tells(EventsOf(r), levels[r])
    BY DEF EventInv, RowsTold
  <1>2. levels[r].version \in Nat
    BY DEF StockInv, TypeOK, Level
  <1>3. CASE levels[r].version = 0
    BY <1>1, <1>3 DEF Tells
  <1>4. CASE levels[r].version # 0
    <2>1. levels[r].version \in 1 .. levels[r].version
      BY <1>2, <1>4
    <2>2. PICK e \in EventsOf(r) : e.level.version = levels[r].version
      BY <1>1, <2>1 DEF Tells
    <2> QED
      BY <1>1, <2>2 DEF Tells
  <1> QED
    BY <1>3, <1>4

LEMMA MoveTells ==
  ASSUME StockInv, EventInv, NEW s \in Sessions, Move(s)
  PROVE  EventInv'
  <1>0. PICK r \in Rows, k \in ApiKinds, a \in Amounts, e \in BOOLEAN :
          \E q \in IF k = "adjust" THEN {a, -a} ELSE {a} :
            Begin(s, "movement",
                  <<[row |-> r, kind |-> k, qty |-> q,
                     expected |-> IF e THEN levels[r] ELSE NoLevel]>>)
    BY DEF Move
  <1>1. PICK q \in IF k = "adjust" THEN {a, -a} ELSE {a} :
            Begin(s, "movement",
                  <<[row |-> r, kind |-> k, qty |-> q,
                     expected |-> IF e THEN levels[r] ELSE NoLevel]>>)
    BY <1>0
  <1> DEFINE m == [row |-> r, kind |-> k, qty |-> q,
                   expected |-> IF e THEN levels[r] ELSE NoLevel]
  <1>2. UNCHANGED stockVars /\ todo' = [todo EXCEPT ![s] = <<m>>]
    BY <1>1 DEF Begin
  <1>3. UNCHANGED outbox
    BY <1>2 DEF stockVars
  <1>4. Committed(m)
    BY ReadLevelIsCommitted DEF Committed
  <1>5. ExpectationsCommitted'
    <2> SUFFICES ASSUME NEW t \in Sessions, NEW i \in 1 .. Len(todo'[t])
                 PROVE  Committed(todo[t][i])'
      BY DEF ExpectationsCommitted
    <2>1. CASE t = s
      <3>1. todo'[t] = <<m>>
        BY <1>2, <2>1 DEF StockInv, TypeOK
      <3>2. todo'[t][i] = m
        BY <3>1
      <3> QED
        BY <3>2, <1>3, <1>4 DEF Committed, EventsOf
    <2>2. CASE t # s
      <3>1. todo'[t] = todo[t]
        BY <1>2, <2>2 DEF StockInv, TypeOK
      <3>2. Committed(todo[t][i])
        BY <3>1 DEF EventInv, ExpectationsCommitted
      <3> QED
        BY <3>1, <3>2, <1>3 DEF Committed, EventsOf
    <2> QED
      BY <2>1, <2>2
  <1> QED
    BY <1>2, <1>5, StoryStays

LEMMA TransferTells ==
  ASSUME StockInv, EventInv, NEW s \in Sessions, TransferStock(s)
  PROVE  EventInv'
  <1>1. PICK v \in Variants, from \in Warehouses, to \in Warehouses, a \in Amounts :
               Begin(s, "transfer",
             <<[row |-> <<v, from>>, kind |-> "out", qty |-> a, expected |-> NoLevel],
               [row |-> <<v, to>>, kind |-> "in", qty |-> a, expected |-> NoLevel]>>)
    BY DEF TransferStock
  <1> DEFINE out == [row |-> <<v, from>>, kind |-> "out", qty |-> a, expected |-> NoLevel]
             in == [row |-> <<v, to>>, kind |-> "in", qty |-> a, expected |-> NoLevel]
  <1>2. UNCHANGED stockVars /\ todo' = [todo EXCEPT ![s] = <<out, in>>]
    BY <1>1 DEF Begin
  <1>3. UNCHANGED outbox
    BY <1>2 DEF stockVars
  <1>4. ExpectationsCommitted'
    <2> SUFFICES ASSUME NEW t \in Sessions, NEW i \in 1 .. Len(todo'[t])
                 PROVE  Committed(todo[t][i])'
      BY DEF ExpectationsCommitted
    <2>1. CASE t = s
      <3>1. todo'[t] = <<out, in>>
        BY <1>2, <2>1 DEF StockInv, TypeOK
      <3>2. todo'[t][i].expected = NoLevel
        BY <3>1
      <3> QED
        BY <3>2 DEF Committed
    <2>2. CASE t # s
      <3>1. todo'[t] = todo[t]
        BY <1>2, <2>2 DEF StockInv, TypeOK
      <3>2. Committed(todo[t][i])
        BY <3>1 DEF EventInv, ExpectationsCommitted
      <3> QED
        BY <3>1, <3>2, <1>3 DEF Committed, EventsOf
    <2> QED
      BY <2>1, <2>2
  <1> QED
    BY <1>2, <1>4, StoryStays

(* A session that takes a free row has told nothing of it yet.             *)
LEMMA LockTells ==
  ASSUME StockInv, EventInv, NEW s \in Sessions, NEW r \in Rows, Lock(s, r),
         UNCHANGED <<levels, outbox, nextSeq, pending, todo>>
  PROVE  EventInv'
  <1>1. /\ holder[r] \in {NoSession, s} /\ holder'[r] = s
        /\ draft'[r].level = View(s, r)
        /\ \A x \in Rows \ {r} : holder'[x] = holder[x] /\ draft'[x] = draft[x]
    BY DEF StockInv, TypeOK, Lock
  <1>2. \A t \in Sessions : \A e \in pending[t] : e.row \in Rows
    BY DEF StockInv, TypeOK
  <1>3. Tells(Drafted(s, r), View(s, r))
    <2>1. CASE holder[r] = s
      BY <2>1 DEF EventInv, RowsTold, View
    <2>2. CASE holder[r] = NoSession
      <3>1. View(s, r) = levels[r] /\ holder[r] # s
        BY <2>2, SessionAssumption DEF View
      <3>2. Drafted(s, r) = EventsOf(r)
        BY <3>1 DEF EventInv, EventsOwned, Drafted
      <3> QED
        BY <3>1, <3>2 DEF EventInv, RowsTold
    <2> QED
      BY <1>1, <2>1, <2>2
  <1>4. RowsTold'
    <2>1. \A x \in Rows : Tells(EventsOf(x), levels[x])'
      BY DEF EventInv, RowsTold, EventsOf, Tells
    <2>2. ASSUME NEW t \in Sessions, NEW x \in Rows, holder'[x] = t
          PROVE  Tells(Drafted(t, x), draft[x].level)'
      <3>1. Drafted(t, x)' = Drafted(t, x)
        BY DEF Drafted, EventsOf
      <3>2. CASE x = r
        BY <1>1, <1>3, <2>2, <3>1, <3>2 DEF Tells
      <3>3. CASE x # r
        <4>1. Tells(Drafted(t, x), draft[x].level)
          BY <1>1, <2>2, <3>3 DEF EventInv, RowsTold
        <4> QED
          BY <1>1, <3>1, <3>3, <4>1 DEF Tells
      <3> QED
        BY <3>2, <3>3
    <2> QED
      BY <2>1, <2>2 DEF RowsTold
  <1>5. EventsOwned'
    BY <1>1, <1>2, SessionAssumption DEF EventInv, EventsOwned
  <1>6. EventsNumbered' /\ ExpectationsCommitted'
    BY ExpectationsStay DEF EventInv, EventsNumbered, Numbered
  <1> QED
    BY <1>4, <1>5, <1>6 DEF EventInv

LEMMA ApplyTells ==
  ASSUME StockInv, EventInv, NEW s \in Sessions, ApplyMovement(s)
  PROVE  EventInv'
  <1> DEFINE m == Head(todo[s])
             new == Stored(s, m)
             event == [seq |-> nextSeq + 1, row |-> m.row, level |-> new]
  <1>1. /\ pc[s] = "apply" /\ Permitted(m, seen[s])
        /\ holder' = [holder EXCEPT ![m.row] = s]
        /\ draft' = [draft EXCEPT ![m.row] =
                       [level |-> new, journal |-> Entered(Booked(s, m.row), m)]]
        /\ pending' = [pending EXCEPT ![s] = @ \cup {event}]
        /\ nextSeq' = nextSeq + 1
        /\ todo' = [todo EXCEPT ![s] = Tail(@)]
        /\ UNCHANGED <<levels, outbox>>
    BY DEF ApplyMovement
  <1>2. /\ m.row \in Rows /\ holder[m.row] = s
        /\ new \in Level /\ Sound(new)
        /\ draft[m.row].level \in Level
        /\ new.version = draft[m.row].level.version + 1
    <2>1. m.row \in Rows /\ holder[m.row] = s /\ new \in Level /\ Sound(new)
      BY <1>1, StoredUnderLock
    <2>2. /\ draft[m.row].level \in Level
          /\ new = [qty      |-> draft[m.row].level.qty + QtyDelta(m),
                    reserved |-> draft[m.row].level.reserved + ReservedDelta(m),
                    version  |-> draft[m.row].level.version + 1]
      BY <1>1, StoredUnderLock
    <2> HIDE DEF new
    <2> QED
      BY <2>1, <2>2
  <1>3. /\ holder' = holder
        /\ draft'[m.row].level = new
        /\ \A x \in Rows \ {m.row} : draft'[x] = draft[x]
        /\ pending'[s] = pending[s] \cup {event}
        /\ \A t \in Sessions \ {s} : pending'[t] = pending[t]
        /\ nextSeq \in Nat
    BY <1>1, <1>2 DEF StockInv, TypeOK
  <1>4. event.seq = nextSeq + 1 /\ event.row = m.row /\ event.level = new
    OBVIOUS
  <1> HIDE DEF new, event
  <1>5. Tells(Drafted(s, m.row) \cup {event}, new)
    <2>1. ASSUME NEW f \in Drafted(s, m.row)
          PROVE  f.seq \in Nat /\ f.seq < event.seq /\ f.level.version \in Nat
      <3>1. f \in outbox \/ f \in pending[s]
        BY DEF Drafted, EventsOf
      <3>2. f \in [seq : Nat, row : Rows, level : Level]
        BY <3>1 DEF StockInv, TypeOK
      <3>3. f.seq <= nextSeq
        BY <3>1 DEF EventInv, EventsNumbered, Numbered
      <3> QED
        BY <1>3, <1>4, <3>2, <3>3 DEF Level
    <2>2. Tells(Drafted(s, m.row), draft[m.row].level)
      BY <1>2 DEF EventInv, RowsTold
    <2>3. event.seq \in Nat /\ event.level \in Level
          /\ event.level.version = draft[m.row].level.version + 1
      BY <1>2, <1>3, <1>4
    <2>4. Tells(Drafted(s, m.row) \cup {event}, event.level)
      BY <1>2, <2>1, <2>2, <2>3, TellsOneMore
    <2> QED
      BY <1>4, <2>4
  <1>6. RowsTold'
    <2>1. \A x \in Rows : Tells(EventsOf(x), levels[x])'
      BY <1>1 DEF EventInv, RowsTold, EventsOf, Tells
    <2>2. ASSUME NEW t \in Sessions, NEW x \in Rows, holder'[x] = t
          PROVE  Tells(Drafted(t, x), draft[x].level)'
      <3>1. CASE x = m.row
        <4>1. t = s
          BY <1>2, <1>3, <2>2, <3>1
        <4>2. Drafted(t, x)' = Drafted(s, m.row) \cup {event}
          BY <1>1, <1>3, <1>4, <3>1, <4>1 DEF Drafted, EventsOf
        <4> QED
          BY <1>3, <1>5, <3>1, <4>2 DEF Tells
      <3>2. CASE x # m.row
        <4>1. Drafted(t, x)' = Drafted(t, x)
          BY <1>1, <1>3, <1>4, <3>2 DEF Drafted, EventsOf
        <4>2. Tells(Drafted(t, x), draft[x].level)
          BY <1>3, <2>2 DEF EventInv, RowsTold
        <4> QED
          BY <1>3, <3>2, <4>1, <4>2 DEF Tells
      <3> QED
        BY <3>1, <3>2
    <2> QED
      BY <2>1, <2>2 DEF RowsTold
  <1>7. EventsOwned'
    BY <1>2, <1>3, <1>4 DEF EventInv, EventsOwned
  <1>8. EventsNumbered'
    BY <1>1, <1>2, <1>3, <1>4 DEF EventInv, EventsNumbered, Numbered, StockInv, TypeOK
  <1>9. ExpectationsCommitted'
    <2> SUFFICES ASSUME NEW t \in Sessions, NEW i \in 1 .. Len(todo'[t])
                 PROVE  Committed(todo[t][i])'
      BY DEF ExpectationsCommitted
    <2>1. PICK j \in 1 .. Len(todo[t]) : todo'[t][i] = todo[t][j]
      <3>1. CASE t = s
        <4>1. todo[s] \in Seq(Movement) /\ todo[s] # <<>>
          BY <1>1, HeadIsMovement DEF StockInv
        <4>2. todo'[t] = Tail(todo[s])
          BY <1>1, <3>1 DEF StockInv, TypeOK
        <4>3. i + 1 \in 1 .. Len(todo[s]) /\ todo'[t][i] = todo[s][i + 1]
          BY <4>1, <4>2
        <4> QED
          BY <3>1, <4>3
      <3>2. CASE t # s
        BY <1>1, <3>2 DEF StockInv, TypeOK
      <3> QED
        BY <3>1, <3>2
    <2>2. Committed(todo[t][j])
      BY DEF EventInv, ExpectationsCommitted
    <2> QED
      BY <1>1, <2>1, <2>2 DEF Committed, EventsOf
  <1> QED
    BY <1>6, <1>7, <1>8, <1>9 DEF EventInv

(* What a session that gives its locks back leaves of the others.          *)
Releases(s) == Release(s) /\ todo' = [todo EXCEPT ![s] = <<>>]

LEMMA ReleaseForgets ==
  ASSUME StockInv, NEW s \in Sessions, Releases(s)
  PROVE  /\ pending'[s] = {} /\ todo'[s] = <<>>
         /\ \A t \in Sessions \ {s} : pending'[t] = pending[t] /\ todo'[t] = todo[t]
         /\ \A r \in Rows : holder'[r] # s
         /\ \A r \in Rows : holder[r] # s => holder'[r] = holder[r] /\ draft'[r] = draft[r]
         /\ \A r \in Rows : holder'[r] \in Sessions => holder'[r] = holder[r]
  BY SessionAssumption DEF StockInv, TypeOK, Releases, Release

LEMMA FinishReleases ==
  ASSUME StockInv, NEW s \in Sessions, Finish(s)
  PROVE  /\ pending'[s] = {} /\ todo'[s] = <<>>
         /\ \A t \in Sessions \ {s} : pending'[t] = pending[t] /\ todo'[t] = todo[t]
         /\ \A r \in Rows : holder'[r] # s
         /\ \A r \in Rows : holder[r] # s => holder'[r] = holder[r] /\ draft'[r] = draft[r]
         /\ \A r \in Rows : holder'[r] \in Sessions => holder'[r] = holder[r]
  <1>1. Releases(s)
    BY DEF Finish, Releases
  <1> QED
    BY <1>1, ReleaseForgets

LEMMA ReleaseKeepsExpectations ==
  ASSUME StockInv, EventInv, NEW s \in Sessions, Releases(s), outbox \subseteq outbox'
  PROVE  ExpectationsCommitted'
  <1>1. ASSUME NEW t \in Sessions, NEW i \in 1 .. Len(todo'[t])
        PROVE  Committed(todo[t][i])'
    <2>1. t # s
      <3> SUFFICES ASSUME t = s PROVE FALSE
        OBVIOUS
      <3>1. Len(todo'[t]) = 0
        BY ReleaseForgets, EmptySeq
      <3> QED
        BY <3>1
    <2>2. todo'[t] = todo[t]
      BY <2>1, ReleaseForgets
    <2>3. Committed(todo[t][i])
      BY <2>2 DEF EventInv, ExpectationsCommitted
    <2> QED
      BY <2>2, <2>3 DEF Committed, EventsOf
  <1> QED
    BY <1>1 DEF ExpectationsCommitted

(* A rollback, to a savepoint or of everything, tells nobody.              *)
LEMMA ReleaseTells ==
  ASSUME StockInv, EventInv, NEW s \in Sessions, Releases(s),
         UNCHANGED <<levels, outbox, nextSeq>>
  PROVE  EventInv'
  <1>2. RowsTold'
    <2>1. \A x \in Rows : Tells(EventsOf(x), levels[x])'
      BY DEF EventInv, RowsTold, EventsOf, Tells
    <2>2. ASSUME NEW t \in Sessions, NEW x \in Rows, holder'[x] = t
          PROVE  Tells(Drafted(t, x), draft[x].level)'
      <3>1. t # s /\ holder[x] = t /\ draft'[x] = draft[x] /\ pending'[t] = pending[t]
        BY <2>2, ReleaseForgets
      <3>2. Drafted(t, x)' = Drafted(t, x)
        BY <3>1 DEF Drafted, EventsOf
      <3>3. Tells(Drafted(t, x), draft[x].level)
        BY <3>1 DEF EventInv, RowsTold
      <3> QED
        BY <3>1, <3>2, <3>3 DEF Tells
    <2> QED
      BY <2>1, <2>2 DEF RowsTold
  <1>3. EventsOwned'
    <2>1. ASSUME NEW t \in Sessions, NEW e \in pending'[t] PROVE holder'[e.row] = t
      <3>1. t # s /\ e \in pending[t]
        BY ReleaseForgets
      <3>2. holder[e.row] = t /\ e.row \in Rows
        BY <3>1 DEF EventInv, EventsOwned, StockInv, TypeOK
      <3> QED
        BY <3>1, <3>2, ReleaseForgets
    <2> QED
      BY <2>1 DEF EventsOwned
  <1>4. EventsNumbered'
    BY ReleaseForgets DEF EventInv, EventsNumbered, Numbered
  <1>5. ExpectationsCommitted'
    BY ReleaseKeepsExpectations
  <1> QED
    BY <1>2, <1>3, <1>4, <1>5 DEF EventInv

LEMMA RollBackTells ==
  ASSUME StockInv, EventInv, NEW s \in Sessions, RollBack(s)
  PROVE  EventInv'
  <1>1. Releases(s) /\ UNCHANGED <<levels, outbox, nextSeq>>
    BY DEF RollBack, Finish, Releases
  <1> QED
    BY <1>1, ReleaseTells

(* A commit publishes a row with its whole story, or none of it.           *)
LEMMA PublishTells ==
  ASSUME StockInv, EventInv, NEW s \in Sessions, Publish(s)
  PROVE  /\ \A x \in Rows : holder[x] = s => EventsOf(x)' = Drafted(s, x)
                                             /\ levels'[x] = draft[x].level
         /\ \A x \in Rows : holder[x] # s => EventsOf(x)' = EventsOf(x)
                                             /\ levels'[x] = levels[x]
         /\ outbox' = outbox \cup pending[s]
         /\ \A x \in Rows : Tells(EventsOf(x), levels[x])'
  <1>1. outbox' = outbox \cup pending[s]
    BY DEF Publish
  <1>2. ASSUME NEW x \in Rows, holder[x] = s
        PROVE  EventsOf(x)' = Drafted(s, x) /\ levels'[x] = draft[x].level
    BY <1>1, <1>2 DEF Publish, EventsOf, Drafted
  <1>3. ASSUME NEW x \in Rows, holder[x] # s
        PROVE  EventsOf(x)' = EventsOf(x) /\ levels'[x] = levels[x]
    BY <1>1, <1>3 DEF Publish, EventsOf, EventInv, EventsOwned
  <1>4. ASSUME NEW x \in Rows PROVE Tells(EventsOf(x), levels[x])'
    <2>1. CASE holder[x] = s
      BY <1>2, <2>1 DEF EventInv, RowsTold, Tells
    <2>2. CASE holder[x] # s
      BY <1>3, <2>2 DEF EventInv, RowsTold, Tells
    <2> QED
      BY <2>1, <2>2
  <1> QED
    BY <1>1, <1>2, <1>3, <1>4

LEMMA CommitTells ==
  ASSUME StockInv, EventInv, NEW s \in Sessions, Publish(s), Finish(s), UNCHANGED nextSeq
  PROVE  EventInv'
  <1>1. RowsTold'
    <2>2. ASSUME NEW t \in Sessions, NEW x \in Rows, holder'[x] = t
          PROVE  Tells(Drafted(t, x), draft[x].level)'
      <3>1. t # s /\ holder[x] = t /\ draft'[x] = draft[x] /\ pending'[t] = pending[t]
        BY <2>2, FinishReleases
      <3>2. Drafted(t, x)' = Drafted(t, x)
        BY <3>1, PublishTells DEF Drafted
      <3>3. Tells(Drafted(t, x), draft[x].level)
        BY <3>1 DEF EventInv, RowsTold
      <3> QED
        BY <3>1, <3>2, <3>3 DEF Tells
    <2> QED
      BY <2>2, PublishTells DEF RowsTold
  <1>2. EventsOwned'
    <2>1. ASSUME NEW t \in Sessions, NEW e \in pending'[t] PROVE holder'[e.row] = t
      <3>1. t # s /\ e \in pending[t]
        BY FinishReleases
      <3>2. holder[e.row] = t /\ e.row \in Rows
        BY <3>1 DEF EventInv, EventsOwned, StockInv, TypeOK
      <3> QED
        BY <3>1, <3>2, FinishReleases
    <2> QED
      BY <2>1 DEF EventsOwned
  <1>3. EventsNumbered'
    BY FinishReleases, PublishTells DEF EventInv, EventsNumbered, Numbered
  <1>4. ExpectationsCommitted'
    <2>1. Releases(s)
      BY DEF Finish, Releases
    <2> QED
      BY <2>1, PublishTells, ReleaseKeepsExpectations
  <1> QED
    BY <1>1, <1>2, <1>3, <1>4 DEF EventInv

LEMMA MovementStepTells ==
  ASSUME StockInv, EventInv, NEW s \in Sessions, MovementStep(s)
  PROVE  EventInv'
  <1>1. CASE SelectForUpdate(s) \/ InsertRow(s)
    <2>1. pc[s] \in {"select", "insert"} /\ Lock(s, Head(todo[s]).row)
          /\ UNCHANGED <<levels, outbox, nextSeq, pending, todo>>
      BY <1>1 DEF SelectForUpdate, InsertRow
    <2>2. Head(todo[s]).row \in Rows
      BY <2>1, HeadIsMovement DEF StockInv
    <2> QED
      BY <2>1, <2>2, LockTells
  <1>2. CASE FindNoRow(s)
    <2>1. UNCHANGED stockVars /\ UNCHANGED todo
      BY <1>2 DEF FindNoRow
    <2>2. ExpectationsCommitted'
      BY <2>1, ExpectationsStay DEF EventInv, stockVars
    <2> QED
      BY <2>1, <2>2, StoryStays
  <1>3. CASE ApplyMovement(s)
    BY <1>3, ApplyTells
  <1> QED
    BY <1>1, <1>2, <1>3 DEF MovementStep

LEMMA ApiStepTells ==
  ASSUME StockInv, EventInv, NEW s \in Sessions, ApiStep(s)
  PROVE  EventInv'
  <1>1. CASE Move(s)
    BY <1>1, MoveTells
  <1>2. CASE TransferStock(s)
    BY <1>2, TransferTells
  <1>3. CASE MovementStep(s)
    BY <1>3, MovementStepTells
  <1>4. CASE Commit(s)
    BY <1>4, CommitTells DEF Commit
  <1>5. CASE Refuse(s) \/ Crash(s) \/ AbortDeadlock(s)
    BY <1>5, RollBackTells DEF Refuse, Crash, AbortDeadlock
  <1> QED
    BY <1>1, <1>2, <1>3, <1>4, <1>5 DEF ApiStep, ApiProgress

LEMMA StutterTells ==
  ASSUME EventInv, UNCHANGED vars
  PROVE  EventInv'
  <1>1. UNCHANGED stockVars /\ UNCHANGED todo
    BY DEF vars, sessionVars
  <1>2. ExpectationsCommitted'
    BY <1>1, ExpectationsStay DEF EventInv, stockVars
  <1> QED
    BY <1>1, <1>2, StoryStays

(* The events of a row, committed and pending, tell its whole story.       *)
THEOREM EventInvariant == Spec => [](StockInv /\ EventInv)
  <1>1. StockInv /\ EventInv /\ [Next]_vars => EventInv'
    BY ApiStepTells, StutterTells DEF Next
  <1>2. StockInv /\ [Next]_vars => StockInv'
    BY ApiStepKeeps, StutterKeeps DEF Next
  <1> QED
    BY InitEstablishes, InitTells, <1>1, <1>2, PTL DEF Spec

(* A consumer that applies the events of a row in outbox order sees every  *)
(* version once and ends with the committed level.                         *)
THEOREM EventsTellEveryLevel == Spec => []EventsReplayLevels
  <1>1. StockInv /\ EventInv => EventsReplayLevels
    BY DEF EventInv, RowsTold, Tells, EventsReplayLevels
  <1> QED
    BY <1>1, EventInvariant, PTL

(* What the movement applied finds is what its caller expects.             *)
AppliesToExpected ==
  \A s \in Sessions :
    AppliesNow(s) /\ Head(todo[s]).expected # NoLevel
      => View(s, Head(todo[s]).row) = Head(todo[s]).expected

LEMMA FindsExpected ==
  ASSUME StockInv, EventInv, NEW s \in Sessions, ApplyMovement(s),
         Head(todo[s]).expected # NoLevel
  PROVE  View(s, Head(todo[s]).row) = Head(todo[s]).expected
  <1> DEFINE m == Head(todo[s])
  <1>0. pc[s] = "apply"
    BY DEF ApplyMovement
  <1>1. /\ m.row \in Rows /\ holder[m.row] = s /\ seen[s] = draft[m.row].level
        /\ draft[m.row].level \in Level
    BY <1>0, StoredUnderLock
  <1>2. m.expected.version = draft[m.row].level.version
    BY <1>1 DEF ApplyMovement, VersionMatches
  <1>3. Tells(Drafted(s, m.row), draft[m.row].level)
    BY <1>1 DEF EventInv, RowsTold
  <1>4. Committed(m)
    <2>1. todo[s] \in Seq(Movement) /\ todo[s] # <<>>
      BY <1>0, HeadIsMovement DEF StockInv
    <2>2. 1 \in 1 .. Len(todo[s]) /\ m = todo[s][1]
      BY <2>1
    <2> QED
      BY <2>2 DEF EventInv, ExpectationsCommitted
  <1>5. draft[m.row].level = m.expected
    <2>1. CASE m.expected = NewLevel
      BY <1>2, <1>3, <2>1 DEF Tells, NewLevel
    <2>2. CASE m.expected # NewLevel
      <3>1. PICK e \in EventsOf(m.row) : e.level = m.expected
        BY <1>4, <2>2 DEF Committed
      <3> QED
        BY <1>2, <1>3, <3>1 DEF Tells, Drafted
    <2> QED
      BY <2>1, <2>2
  <1> QED
    BY <1>1, <1>5 DEF View

LEMMA ApiStepFindsExpected ==
  ASSUME StockInv, EventInv, NEW t \in Sessions, ApiStep(t)
  PROVE  AppliesToExpected
  <1> SUFFICES ASSUME NEW s \in Sessions, AppliesNow(s), Head(todo[s]).expected # NoLevel
               PROVE  View(s, Head(todo[s]).row) = Head(todo[s]).expected
    BY DEF AppliesToExpected
  <1>1. pc[s] = "apply" /\ pending'[s] # {} /\ pending'[s] # pending[s]
    BY DEF AppliesNow
  <1>2. ApplyMovement(t)
    <2>1. CASE Move(t) \/ TransferStock(t)
      BY <1>1, <2>1 DEF Move, TransferStock, Begin, stockVars
    <2>2. CASE SelectForUpdate(t) \/ FindNoRow(t) \/ InsertRow(t)
      BY <1>1, <2>2 DEF SelectForUpdate, FindNoRow, InsertRow, stockVars
    <2>3. CASE Commit(t) \/ Refuse(t) \/ AbortDeadlock(t) \/ Crash(t)
      <3>1. Finish(t)
        BY <2>3 DEF Commit, Refuse, AbortDeadlock, Crash, RollBack
      <3> QED
        BY <3>1, <1>1, FinishReleases
    <2> QED
      BY <2>1, <2>2, <2>3 DEF ApiStep, ApiProgress, MovementStep
  <1>3. t = s
    BY <1>1, <1>2 DEF ApplyMovement, StockInv, TypeOK
  <1> QED
    BY <1>2, <1>3, FindsExpected

(* Optimistic locking: the version a caller sends back names one level, so *)
(* the movement finds exactly the level the caller has read.               *)
THEOREM VersionNamesTheLevel == Spec => ExpectedLevelIsTheLevel
  <1>1. StockInv /\ EventInv /\ [Next]_vars => [AppliesToExpected]_vars
    BY ApiStepFindsExpected DEF Next
  <1> QED
    BY EventInvariant, <1>1, PTL DEF Spec, ExpectedLevelIsTheLevel, AppliesToExpected

-----------------------------------------------------------------------------
(***************************************************************************)
(* The ledger readers see.                                                 *)
(***************************************************************************)
LEMMA LedgerComplete ==
  ASSUME StockInv, EventInv, NEW r \in Rows
  PROVE  Ledger!Complete(Told, levels[r], r)
  <1>1. Tells(EventsOf(r), levels[r])
    BY DEF EventInv, RowsTold
  <1>2. {e.level.version : e \in Ledger!HistoryOf(Told, r)} =
          {e.level.version : e \in EventsOf(r)}
    <2>1. \A h \in Ledger!HistoryOf(Told, r) : \E e \in EventsOf(r) : h.level = e.level
      BY DEF Ledger!HistoryOf, Told, EventsOf
    <2>2. \A e \in EventsOf(r) : \E h \in Ledger!HistoryOf(Told, r) : h.level = e.level
      <3>1. ASSUME NEW e \in EventsOf(r)
            PROVE  [row |-> e.row, level |-> e.level] \in Ledger!HistoryOf(Told, r)
        BY DEF Ledger!HistoryOf, Told, EventsOf
      <3> QED
        BY <3>1
    <2> QED
      BY <2>1, <2>2
  <1>3. \A e, f \in Ledger!HistoryOf(Told, r) : e.level.version = f.level.version => e = f
    BY <1>1 DEF Ledger!HistoryOf, Told, EventsOf, Tells
  <1>4. levels[r] # NewLevel => [row |-> r, level |-> levels[r]] \in Told
    BY ReadLevelIsCommitted DEF Told, EventsOf
  <1> QED
    BY <1>1, <1>2, <1>3, <1>4 DEF Ledger!Complete, Tells, Ledger!EmptyLevel, NewLevel

LEMMA ToldSound ==
  ASSUME StockInv, EventInv
  PROVE  Told \subseteq Ledger!Entry /\ \A e \in Told : e.level.reserved <= e.level.qty
  BY DEF StockInv, TypeOK, EventInv, EventsNumbered, Numbered, Sound, Told, Level, Ledger!Entry

LedgerInv == /\ \A r \in Rows : Ledger!Complete(Told, levels[r], r)
             /\ Told \subseteq Ledger!Entry
             /\ \A n \in Told : n.level.reserved <= n.level.qty

(* A commit posts every movement of its transaction; no other step shows.  *)
LEMMA CommitPosts ==
  ASSUME StockInv, EventInv, NEW s \in Sessions, Publish(s), LedgerInv'
  PROVE  Ledger!Post
  <1>1. Told \subseteq Told'
    BY PublishTells DEF Told
  <1>2. ASSUME NEW n \in Told' \ Told
        PROVE  n.level.version > levels[n.row].version
    <2>1. PICK e \in pending[s] : n = [row |-> e.row, level |-> e.level]
      BY PublishTells DEF Told
    <2>2. /\ holder[e.row] = s /\ e.row \in Rows /\ e.level \in Level
          /\ draft[e.row].level \in Level /\ levels[e.row] \in Level
      BY DEF EventInv, EventsOwned, StockInv, TypeOK
    <2>3. Tells(Drafted(s, e.row), draft[e.row].level) /\ Tells(EventsOf(e.row), levels[e.row])
      BY <2>2 DEF EventInv, RowsTold
    <2>4. e.level.version \in Nat /\ levels[e.row].version \in Nat
          /\ draft[e.row].level.version \in Nat
      BY <2>2 DEF Level
    <2>5. e \notin EventsOf(e.row)
      BY <2>1 DEF Told, EventsOf
    <2>6. e.level.version \notin 1 .. levels[e.row].version
      <3> SUFFICES ASSUME e.level.version \in 1 .. levels[e.row].version
                   PROVE  FALSE
        OBVIOUS
      <3>1. PICK f \in EventsOf(e.row) : f.level.version = e.level.version
        BY <2>3 DEF Tells
      <3>2. f = e
        BY <2>3, <3>1 DEF Tells, Drafted
      <3> QED
        BY <2>5, <3>1, <3>2
    <2>7. e.level.version \in 1 .. draft[e.row].level.version
      BY <2>3 DEF Tells, Drafted
    <2> QED
      BY <2>1, <2>4, <2>6, <2>7
  <1> QED
    BY <1>1, <1>2 DEF Ledger!Post, LedgerInv

LEMMA ApiStepPosts ==
  ASSUME StockInv, EventInv, NEW s \in Sessions, ApiStep(s), LedgerInv'
  PROVE  [Ledger!Post]_<<levels, Told>>
  <1>1. CASE Commit(s)
    BY <1>1, CommitPosts DEF Commit
  <1>2. CASE ~Commit(s)
    <2>1. UNCHANGED <<levels, outbox>>
      BY <1>2 DEF ApiStep, ApiProgress, MovementStep, Move, TransferStock, Begin,
           SelectForUpdate, FindNoRow, InsertRow, ApplyMovement, Refuse, Crash,
           AbortDeadlock, RollBack, stockVars
    <2> QED
      BY <2>1 DEF Told
  <1> QED
    BY <1>1, <1>2

LEMMA LedgerHolds ==
  ASSUME StockInv, EventInv
  PROVE  LedgerInv /\ Ledger!Init
  <1>1. LedgerInv
    BY LedgerComplete, ToldSound DEF LedgerInv
  <1> QED
    BY <1>1 DEF Ledger!Init, LedgerInv

(* Readers of the committed levels and events see an append-only ledger of *)
(* sound levels, whatever transactions run, fail or crash.                 *)
THEOREM InventoryIsALedger == Spec => ImplementsLedger
  <1>1. StockInv /\ EventInv => LedgerInv /\ Ledger!Init
    BY LedgerHolds
  <1>2. ASSUME StockInv, EventInv, [Next]_vars, LedgerInv'
        PROVE  [Ledger!Post]_<<levels, Told>>
    <2>1. CASE UNCHANGED vars
      BY <2>1 DEF vars, stockVars, Told
    <2> QED
      BY <1>2, <2>1, ApiStepPosts DEF Next
  <1> QED
    BY EventInvariant, <1>1, <1>2, PTL DEF Spec, ImplementsLedger, Ledger!Spec

-----------------------------------------------------------------------------
(***************************************************************************)
(* Where a transfer stands: nothing moved yet, one leg in the drafts, or   *)
(* both legs in the drafts and ready to commit.                            *)
(***************************************************************************)
OutLeg(r, a) == [row |-> r, kind |-> "out", qty |-> a, expected |-> NoLevel]
InLeg(r, a) == [row |-> r, kind |-> "in", qty |-> a, expected |-> NoLevel]

(* The rows session s holds differ from the committed ones by x at row     *)
(* from, by y at row to, and nowhere else.                                 *)
Drafts(s, from, x, to, y) ==
  \A r \in Rows :
    holder[r] = s =>
      /\ draft[r].level.qty = levels[r].qty + (IF r = from THEN x ELSE IF r = to THEN y ELSE 0)
      /\ draft[r].level.reserved = levels[r].reserved

Standing(s, from, to, a) ==
  \/ /\ todo[s] = <<OutLeg(from, a), InLeg(to, a)>>
     /\ pc[s] # "commit" /\ Drafts(s, from, 0, to, 0)
  \/ /\ todo[s] = <<InLeg(to, a)>>
     /\ pc[s] # "commit" /\ holder[from] = s /\ Drafts(s, from, -a, to, 0)
  \/ /\ todo[s] = <<>>
     /\ pc[s] = "commit" /\ holder[from] = s /\ holder[to] = s /\ Drafts(s, from, -a, to, a)

Transferring(s) ==
  \E v \in Variants, from \in Warehouses, to \in Warehouses, a \in Amounts :
    from # to /\ Standing(s, <<v, from>>, <<v, to>>, a)

TransferInv ==
  \A s \in Sessions : /\ job[s] = "transfer" => Transferring(s)
                      /\ job[s] = "none" => pc[s] = "idle" /\ \A r \in Rows : holder[r] # s

(* What a step of one session leaves of another.                           *)
Untouched(t) ==
  /\ job'[t] = job[t] /\ pc'[t] = pc[t] /\ todo'[t] = todo[t]
  /\ \A r \in Rows : holder'[r] = t <=> holder[r] = t
  /\ \A r \in Rows : holder[r] = t => draft'[r] = draft[r] /\ levels'[r] = levels[r]

LEMMA UntouchedStands ==
  ASSUME NEW t \in Sessions, Untouched(t), Transferring(t)
  PROVE  Transferring(t)'
  <1>1. PICK v \in Variants, from \in Warehouses, to \in Warehouses, a \in Amounts :
          from # to /\ Standing(t, <<v, from>>, <<v, to>>, a)
    BY DEF Transferring
  <1>2. <<v, from>> \in Rows /\ <<v, to>> \in Rows
    BY DEF Rows
  <1>3. \A x, y : Drafts(t, <<v, from>>, x, <<v, to>>, y)
                    => Drafts(t, <<v, from>>, x, <<v, to>>, y)'
    BY DEF Drafts, Untouched
  <1>4. Standing(t, <<v, from>>, <<v, to>>, a)'
    BY <1>1, <1>2, <1>3 DEF Standing, Untouched, OutLeg, InLeg
  <1> QED
    BY <1>1, <1>4 DEF Transferring

LEMMA ReleaseLeavesOthers ==
  ASSUME StockInv, NEW s \in Sessions, Releases(s), NEW j, NEW p,
         job' = [job EXCEPT ![s] = j], pc' = [pc EXCEPT ![s] = p],
         UNCHANGED levels \/ Publish(s), NEW t \in Sessions, t # s
  PROVE  Untouched(t)
  <1>1. /\ holder' = [r \in Rows |-> IF holder[r] = s THEN NoSession ELSE holder[r]]
        /\ draft' = [r \in Rows |-> IF holder[r] = s THEN NoDraft ELSE draft[r]]
        /\ todo' = [todo EXCEPT ![s] = <<>>]
    BY DEF Releases, Release
  <1>2. \A r \in Rows : holder[r] = t => levels'[r] = levels[r]
    BY DEF Publish
  <1> QED
    BY <1>1, <1>2, SessionAssumption DEF Untouched, StockInv, TypeOK

LEMMA OthersUntouched ==
  ASSUME StockInv, NEW s \in Sessions, ApiStep(s), NEW t \in Sessions, t # s
  PROVE  Untouched(t)
  <1>1. CASE Move(s) \/ TransferStock(s)
    <2>1. \E k, ms : Begin(s, k, ms)
      BY <1>1 DEF Move, TransferStock
    <2> QED
      BY <2>1 DEF Begin, stockVars, Untouched, StockInv, TypeOK
  <1>2. CASE SelectForUpdate(s) \/ InsertRow(s)
    <2> DEFINE r == Head(todo[s]).row
    <2>1. pc[s] \in {"select", "insert"} /\ Lock(s, r) /\ UNCHANGED <<levels, job, todo>>
          /\ pc' = [pc EXCEPT ![s] = "apply"]
      BY <1>2 DEF SelectForUpdate, InsertRow
    <2>2. r \in Rows
      BY <2>1, HeadIsMovement DEF StockInv
    <2>3. holder[r] \in {NoSession, s} /\ holder'[r] = s
          /\ \A x \in Rows \ {r} : holder'[x] = holder[x] /\ draft'[x] = draft[x]
      BY <2>1, <2>2 DEF Lock, StockInv, TypeOK
    <2> QED
      BY <2>1, <2>2, <2>3, SessionAssumption DEF Untouched, StockInv, TypeOK
  <1>3. CASE FindNoRow(s)
    BY <1>3 DEF FindNoRow, stockVars, Untouched, StockInv, TypeOK
  <1>4. CASE ApplyMovement(s)
    <2> DEFINE r == Head(todo[s]).row
    <2>1. pc[s] = "apply"
          /\ holder' = [holder EXCEPT ![r] = s] /\ UNCHANGED <<levels, job>>
          /\ \E d : draft' = [draft EXCEPT ![r] = d]
          /\ todo' = [todo EXCEPT ![s] = Tail(@)]
          /\ pc' = [pc EXCEPT ![s] = AfterMovement(s)]
      BY <1>4 DEF ApplyMovement
    <2>2. r \in Rows /\ holder[r] = s
      BY <2>1, HeadIsMovement DEF StockInv, Applying
    <2>3. holder' = holder /\ \A x \in Rows \ {r} : draft'[x] = draft[x]
      BY <2>1, <2>2 DEF StockInv, TypeOK
    <2> QED
      BY <2>1, <2>2, <2>3 DEF Untouched, StockInv, TypeOK
  <1>5. CASE Finish(s) /\ (UNCHANGED levels \/ Publish(s))
    <2>1. /\ Releases(s)
          /\ job' = [job EXCEPT ![s] = "none"]
          /\ pc' = [pc EXCEPT ![s] = "idle"]
      BY <1>5 DEF Finish, Releases
    <2> QED
      BY <1>5, <2>1, ReleaseLeavesOthers
  <1> QED
    BY <1>1, <1>2, <1>3, <1>4, <1>5 DEF ApiStep, ApiProgress, MovementStep, Commit, Refuse,
       Crash, AbortDeadlock, RollBack

(* A row taken free is drafted as it is committed.                         *)
LEMMA LockDraftsNothing ==
  ASSUME StockInv, NEW s \in Sessions, NEW r \in Rows, Lock(s, r), UNCHANGED levels,
         NEW from, NEW to, NEW x \in Int, NEW y \in Int, Drafts(s, from, x, to, y),
         r = from => x = 0 \/ holder[r] = s,
         r = to => y = 0 \/ holder[r] = s
  PROVE  Drafts(s, from, x, to, y)'
  <1>1. /\ holder[r] \in {NoSession, s} /\ holder'[r] = s
        /\ draft'[r].level = View(s, r)
        /\ \A z \in Rows \ {r} : holder'[z] = holder[z] /\ draft'[z] = draft[z]
    BY DEF StockInv, TypeOK, Lock
  <1>2. levels[r].qty \in Nat
    BY DEF StockInv, TypeOK, Level
  <1>3. CASE holder[r] = s
    BY <1>1, <1>3 DEF Drafts, View
  <1>4. CASE holder[r] # s
    <2>1. draft'[r].level = levels[r]
      BY <1>1, <1>4 DEF View
    <2> QED
      BY <1>1, <1>2, <1>4, <2>1 DEF Drafts
  <1> QED
    BY <1>3, <1>4

LEMMA TransferLocks ==
  ASSUME StockInv, TransferInv, NEW s \in Sessions, job[s] = "transfer",
         pc[s] \in {"select", "insert"}, Lock(s, Head(todo[s]).row),
         pc' = [pc EXCEPT ![s] = "apply"], UNCHANGED <<levels, todo>>
  PROVE  Transferring(s)'
  <1>1. PICK v \in Variants, from \in Warehouses, to \in Warehouses, a \in Amounts :
          from # to /\ Standing(s, <<v, from>>, <<v, to>>, a)
    BY DEF TransferInv, Transferring
  <1> DEFINE f == <<v, from>>
             t == <<v, to>>
  <1>2. f # t /\ f \in Rows /\ t \in Rows /\ a \in Nat
    BY <1>1, AmountAssumption DEF Rows
  <1>3. pc'[s] # "commit" /\ pc[s] # "commit"
    BY DEF StockInv, TypeOK
  <1> HIDE DEF f, t
  <1>4. CASE todo[s] = <<OutLeg(f, a), InLeg(t, a)>> /\ Drafts(s, f, 0, t, 0)
    <2>1. Head(todo[s]).row = f
      BY <1>4 DEF OutLeg
    <2>2. Drafts(s, f, 0, t, 0)'
      BY <1>2, <1>4, <2>1, LockDraftsNothing
    <2> QED
      BY <1>1, <1>3, <1>4, <2>2 DEF Transferring, Standing, f, t, OutLeg, InLeg
  <1>5. CASE todo[s] = <<InLeg(t, a)>> /\ holder[f] = s /\ Drafts(s, f, -a, t, 0)
    <2>1. Head(todo[s]).row = t
      BY <1>5 DEF InLeg
    <2>2. Drafts(s, f, -a, t, 0)'
      BY <1>2, <1>5, <2>1, LockDraftsNothing
    <2>3. holder'[f] = s
      BY <1>2, <1>5, <2>1 DEF Lock, StockInv, TypeOK
    <2> QED
      BY <1>1, <1>3, <1>5, <2>2, <2>3 DEF Transferring, Standing, f, t, InLeg
  <1> QED
    BY <1>1, <1>3, <1>4, <1>5 DEF Standing, f, t

(* What applying a movement writes.                                        *)
LEMMA ApplyWrites ==
  ASSUME StockInv, NEW s \in Sessions, ApplyMovement(s)
  PROVE  LET m == Head(todo[s]) IN
           /\ m.row \in Rows /\ holder[m.row] = s /\ holder' = holder
           /\ draft'[m.row].level.qty = draft[m.row].level.qty + QtyDelta(m)
           /\ draft'[m.row].level.reserved = draft[m.row].level.reserved + ReservedDelta(m)
           /\ \A x \in Rows \ {m.row} : draft'[x] = draft[x]
           /\ levels' = levels
           /\ draft[m.row].level \in Level
  <1> DEFINE m == Head(todo[s])
             new == Stored(s, m)
  <1>1. /\ pc[s] = "apply"
        /\ holder' = [holder EXCEPT ![m.row] = s]
        /\ draft' = [draft EXCEPT ![m.row] =
                       [level |-> new, journal |-> Entered(Booked(s, m.row), m)]]
        /\ levels' = levels
    BY DEF ApplyMovement
  <1>2. m.row \in Rows /\ holder[m.row] = s /\ draft[m.row].level \in Level
    BY <1>1, StoredUnderLock
  <1>3. new = [qty      |-> draft[m.row].level.qty + QtyDelta(m),
               reserved |-> draft[m.row].level.reserved + ReservedDelta(m),
               version  |-> draft[m.row].level.version + 1]
    BY <1>1, StoredUnderLock
  <1> HIDE DEF new
  <1>4. /\ holder' = holder /\ draft'[m.row].level = new
        /\ \A x \in Rows \ {m.row} : draft'[x] = draft[x]
    BY <1>1, <1>2 DEF StockInv, TypeOK
  <1>5. /\ draft'[m.row].level.qty = draft[m.row].level.qty + QtyDelta(m)
        /\ draft'[m.row].level.reserved = draft[m.row].level.reserved + ReservedDelta(m)
    BY <1>3, <1>4
  <1> QED
    BY <1>1, <1>2, <1>4, <1>5

LEMMA TransferApplies ==
  ASSUME StockInv, TransferInv, NEW s \in Sessions, job[s] = "transfer", ApplyMovement(s)
  PROVE  Transferring(s)'
  <1>1. PICK v \in Variants, from \in Warehouses, to \in Warehouses, a \in Amounts :
          from # to /\ Standing(s, <<v, from>>, <<v, to>>, a)
    BY DEF TransferInv, Transferring
  <1> DEFINE f == <<v, from>>
             t == <<v, to>>
             m == Head(todo[s])
  <1>2. f # t /\ f \in Rows /\ t \in Rows /\ a \in Nat
    BY <1>1, AmountAssumption DEF Rows
  <1>3. pc[s] = "apply" /\ todo'[s] = Tail(todo[s]) /\ pc'[s] = AfterMovement(s)
    BY DEF ApplyMovement, StockInv, TypeOK
  <1>4. /\ m.row \in Rows /\ holder[m.row] = s /\ holder' = holder
        /\ draft'[m.row].level.qty = draft[m.row].level.qty + QtyDelta(m)
        /\ draft'[m.row].level.reserved = draft[m.row].level.reserved + ReservedDelta(m)
        /\ \A x \in Rows \ {m.row} : draft'[x] = draft[x]
        /\ levels' = levels
        /\ draft[m.row].level.qty \in Nat /\ draft[m.row].level.reserved \in Nat
    BY ApplyWrites DEF Level
  <1>5. \A x \in Rows : levels[x].qty \in Nat
    BY DEF StockInv, TypeOK, Level
  <1> HIDE DEF f, t
  <1>6. CASE todo[s] = <<OutLeg(f, a), InLeg(t, a)>> /\ Drafts(s, f, 0, t, 0)
    <2>1. m = OutLeg(f, a) /\ Tail(todo[s]) = <<InLeg(t, a)>> /\ Len(todo[s]) = 2
      BY <1>6
    <2>2. m.row = f /\ QtyDelta(m) = -a /\ ReservedDelta(m) = 0
      BY <2>1 DEF OutLeg, QtyDelta, ReservedDelta
    <2>3. pc'[s] # "commit"
      BY <1>3, <2>1 DEF AfterMovement
    <2>4. Drafts(s, f, -a, t, 0)'
      BY <1>2, <1>4, <1>5, <1>6, <2>2 DEF Drafts
    <2> QED
      BY <1>1, <1>3, <1>4, <2>1, <2>2, <2>3, <2>4 DEF Transferring, Standing, f, t, InLeg
  <1>7. CASE todo[s] = <<InLeg(t, a)>> /\ holder[f] = s /\ Drafts(s, f, -a, t, 0)
    <2>1. m = InLeg(t, a) /\ Tail(todo[s]) = <<>> /\ Len(todo[s]) = 1
      BY <1>7
    <2>2. m.row = t /\ QtyDelta(m) = a /\ ReservedDelta(m) = 0
      BY <2>1 DEF InLeg, QtyDelta, ReservedDelta
    <2>3. pc'[s] = "commit"
      BY <1>3, <2>1 DEF AfterMovement
    <2>4. Drafts(s, f, -a, t, a)'
      BY <1>2, <1>4, <1>5, <1>7, <2>2 DEF Drafts
    <2> QED
      BY <1>1, <1>3, <1>4, <1>7, <2>1, <2>2, <2>3, <2>4 DEF Transferring, Standing, f, t
  <1> QED
    BY <1>1, <1>3, <1>6, <1>7 DEF Standing, f, t

LEMMA TransferBegins ==
  ASSUME StockInv, TransferInv, NEW s \in Sessions, TransferStock(s)
  PROVE  Transferring(s)'
  <1>1. PICK v \in Variants, from \in Warehouses, to \in Warehouses, a \in Amounts :
           from # to /\ Begin(s, "transfer", <<OutLeg(<<v, from>>, a), InLeg(<<v, to>>, a)>>)
    BY DEF TransferStock, OutLeg, InLeg
  <1>2. /\ job[s] = "none" /\ UNCHANGED <<holder, draft, levels>>
        /\ todo'[s] = <<OutLeg(<<v, from>>, a), InLeg(<<v, to>>, a)>>
        /\ pc'[s] = "select"
    BY <1>1 DEF Begin, stockVars, StockInv, TypeOK
  <1>3. Drafts(s, <<v, from>>, 0, <<v, to>>, 0)'
    BY <1>2 DEF TransferInv, Drafts
  <1> QED
    BY <1>1, <1>2, <1>3 DEF Transferring, Standing, OutLeg, InLeg

(* A step that leaves a session alone leaves its transfer alone.           *)
LEMMA UntouchedTransfers ==
  ASSUME TransferInv, NEW t \in Sessions, Untouched(t)
  PROVE  /\ job'[t] = "transfer" => Transferring(t)'
         /\ job'[t] = "none" => pc'[t] = "idle" /\ \A r \in Rows : holder'[r] # t
  BY UntouchedStands DEF Untouched, TransferInv

LEMMA ApiStepTransfers ==
  ASSUME StockInv, TransferInv, NEW s \in Sessions, ApiStep(s)
  PROVE  TransferInv'
  <1>1. ASSUME NEW t \in Sessions, t # s
        PROVE  /\ job'[t] = "transfer" => Transferring(t)'
               /\ job'[t] = "none" => pc'[t] = "idle" /\ \A r \in Rows : holder'[r] # t
    BY <1>1, OthersUntouched, UntouchedTransfers
  <1>2. /\ job'[s] = "transfer" => Transferring(s)'
        /\ job'[s] = "none" => pc'[s] = "idle" /\ \A r \in Rows : holder'[r] # s
    <2>1. CASE Move(s)
      BY <2>1 DEF Move, Begin, StockInv, TypeOK
    <2>2. CASE TransferStock(s)
      BY <2>2, TransferBegins DEF TransferStock, Begin, StockInv, TypeOK
    <2>3. CASE SelectForUpdate(s) \/ InsertRow(s)
      <3>1. /\ pc[s] \in {"select", "insert"} /\ Lock(s, Head(todo[s]).row)
            /\ pc' = [pc EXCEPT ![s] = "apply"] /\ UNCHANGED <<levels, job, todo>>
        BY <2>3 DEF SelectForUpdate, InsertRow
      <3>2. job[s] # "none"
        BY <3>1 DEF TransferInv
      <3> QED
        BY <3>1, <3>2, TransferLocks
    <2>4. CASE FindNoRow(s)
      <3>1. /\ UNCHANGED <<levels, holder, draft, job, todo>>
            /\ pc[s] = "select" /\ pc'[s] = "insert"
        BY <2>4 DEF FindNoRow, stockVars, StockInv, TypeOK
      <3>2. Transferring(s) => Transferring(s)'
        BY <3>1 DEF Transferring, Standing, Drafts, OutLeg, InLeg
      <3> QED
        BY <3>1, <3>2 DEF TransferInv
    <2>5. CASE ApplyMovement(s)
      <3>1. pc[s] = "apply" /\ UNCHANGED job
        BY <2>5 DEF ApplyMovement
      <3> QED
        BY <2>5, <3>1, TransferApplies DEF TransferInv
    <2>6. CASE Finish(s)
      BY <2>6, FinishReleases DEF Finish, StockInv, TypeOK
    <2> QED
      BY <2>1, <2>2, <2>3, <2>4, <2>5, <2>6 DEF ApiStep, ApiProgress, MovementStep, Commit,
         Refuse, Crash, AbortDeadlock, RollBack
  <1> QED
    BY <1>1, <1>2 DEF TransferInv

TransferEnds ==
  \A s \in Sessions :
    job[s] = "transfer" /\ job'[s] = "none"
      => \/ levels' = levels
         \/ \E v \in Variants, from \in Warehouses, to \in Warehouses, a \in Amounts :
              from # to /\ Moves(<<v, from>>, <<v, to>>, a)

LEMMA ApiStepEndsTransfer ==
  ASSUME StockInv, TransferInv, NEW t \in Sessions, ApiStep(t)
  PROVE  TransferEnds
  <1> SUFFICES ASSUME NEW s \in Sessions, job[s] = "transfer", job'[s] = "none",
                      levels' # levels
               PROVE  \E v \in Variants, from \in Warehouses, to \in Warehouses, a \in Amounts :
                         from # to /\ Moves(<<v, from>>, <<v, to>>, a)
    BY DEF TransferEnds
  <1>1. t = s
    BY OthersUntouched DEF Untouched
  <1>2. Commit(s)
    BY <1>1 DEF ApiStep, ApiProgress, MovementStep, Move, TransferStock, Begin,
       SelectForUpdate, FindNoRow, InsertRow, ApplyMovement, Refuse, Crash,
       AbortDeadlock, RollBack, stockVars
  <1>3. PICK v \in Variants, from \in Warehouses, to \in Warehouses, a \in Amounts :
          from # to /\ Standing(s, <<v, from>>, <<v, to>>, a)
    BY DEF TransferInv, Transferring
  <1> DEFINE f == <<v, from>>
             g == <<v, to>>
  <1>4. holder[f] = s /\ holder[g] = s /\ Drafts(s, f, -a, g, a)
    BY <1>2, <1>3 DEF Commit, Standing
  <1>5. \A r \in Rows : levels'[r] = IF holder[r] = s THEN draft[r].level ELSE levels[r]
    BY <1>2 DEF Commit, Publish
  <1>6. \A r \in Rows : levels[r].qty \in Nat
    BY DEF StockInv, TypeOK, Level
  <1> HIDE DEF f, g
  <1>7. Moves(f, g, a)
    BY <1>4, <1>5, <1>6 DEF Drafts, Moves
  <1> QED
    BY <1>3, <1>7 DEF f, g

LEMMA StutterTransfers ==
  ASSUME TransferInv, UNCHANGED vars
  PROVE  TransferInv'
  <1>1. UNCHANGED <<levels, holder, draft, job, pc, todo>>
    BY DEF vars, stockVars, sessionVars
  <1>2. \A t \in Sessions : Untouched(t)
    BY <1>1 DEF Untouched
  <1> QED
    BY <1>2, UntouchedTransfers DEF TransferInv

LEMMA InitTransfers == Init => TransferInv
  BY SessionAssumption DEF Init, TransferInv

(* A transfer takes off one row what it adds to another one of the same    *)
(* variant, at once, and touches no other level.                           *)
THEOREM TransfersConserveStock == Spec => TransferConservesStock
  <1>1. StockInv /\ TransferInv /\ [Next]_vars => TransferInv'
    BY ApiStepTransfers, StutterTransfers DEF Next
  <1>2. StockInv /\ TransferInv /\ [Next]_vars => [TransferEnds]_vars
    BY ApiStepEndsTransfer DEF Next
  <1> QED
    BY StockInvariant, InitTransfers, <1>1, <1>2, PTL
       DEF Spec, TransferConservesStock, TransferEnds

-----------------------------------------------------------------------------
(***************************************************************************)
(* The POS pull.  Its cached object makes StockInv false: a pull may write *)
(* a level that is not what its journal adds up to.  First, reservations.  *)
(***************************************************************************)
IsFunction(f, S) == f = [x \in S |-> f[x]]

StockFunctions ==
  /\ IsFunction(levels, Rows) /\ IsFunction(holder, Rows) /\ IsFunction(draft, Rows)
  /\ IsFunction(job, Sessions) /\ IsFunction(pc, Sessions) /\ IsFunction(todo, Sessions)

(* A pull moves goods in or adjusts them, one movement at a time.          *)
PullsAdjust ==
  \A s \in Syncs :
    pc[s] \in {"select", "insert", "apply"} =>
      \E m : todo[s] = <<m>> /\ m.kind \in {"in", "adjust"}

(* While a pull holds a row, its draft has the committed reservations.     *)
PullsKeepReserved ==
  \A s \in Syncs, r \in Rows :
    holder[r] = s => draft[r].level.reserved = levels[r].reserved

PullInv == StockFunctions /\ PullsAdjust /\ PullsKeepReserved

LEMMA PullLocks ==
  ASSUME PullInv, NEW s \in Sessions, NEW r, Lock(s, r), UNCHANGED levels
  PROVE  PullsKeepReserved' /\ IsFunction(holder, Rows)' /\ IsFunction(draft, Rows)'
  <1>1. /\ holder[r] \in {NoSession, s}
        /\ holder' = [holder EXCEPT ![r] = s]
        /\ draft' = [draft EXCEPT ![r] = [level |-> View(s, r), journal |-> Booked(s, r)]]
    BY DEF Lock
  <1>2. IsFunction(holder, Rows) /\ IsFunction(draft, Rows)
    BY DEF PullInv, StockFunctions
  <1>3. /\ IsFunction(holder, Rows)' /\ IsFunction(draft, Rows)'
        /\ \A x \in Rows : /\ x = r => holder'[x] = s /\ draft'[x].level = View(s, r)
                           /\ x # r => holder'[x] = holder[x] /\ draft'[x] = draft[x]
    BY <1>1, <1>2 DEF IsFunction
  <1>4. PullsKeepReserved'
    <2> SUFFICES ASSUME NEW t \in Syncs, NEW x \in Rows, holder'[x] = t
                 PROVE  draft'[x].level.reserved = levels[x].reserved
      BY DEF PullsKeepReserved
    <2>1. CASE x # r
      BY <1>3, <2>1 DEF PullInv, PullsKeepReserved
    <2>2. CASE x = r /\ holder[r] = s
      <3>1. t = s /\ draft'[x].level = draft[x].level
        BY <1>3, <2>2 DEF View
      <3> QED
        BY <2>2, <3>1 DEF PullInv, PullsKeepReserved
    <2>3. CASE x = r /\ holder[r] # s
      BY <1>3, <2>3 DEF View
    <2> QED
      BY <2>1, <2>2, <2>3
  <1> QED
    BY <1>3, <1>4

(* A pull writes the reservations it finds in the stored row, not those of *)
(* its object.                                                             *)
LEMMA PullApplies ==
  ASSUME PullInv, NEW s \in Sessions, ApplyMovement(s)
  PROVE  PullInv'
  <1> DEFINE m == Head(todo[s])
             new == Stored(s, m)
  <1>1. /\ holder[m.row] \in {NoSession, s}
        /\ holder' = [holder EXCEPT ![m.row] = s]
        /\ draft' = [draft EXCEPT ![m.row] =
                       [level |-> new, journal |-> Entered(Booked(s, m.row), m)]]
        /\ todo' = [todo EXCEPT ![s] = Tail(@)]
        /\ pc[s] = "apply" /\ pc' = [pc EXCEPT ![s] = AfterMovement(s)]
        /\ UNCHANGED <<levels, job>>
    BY DEF ApplyMovement
  <1>2. s \in Syncs => m.kind \in {"in", "adjust"} /\ Len(todo[s]) = 1
    <2> SUFFICES ASSUME s \in Syncs PROVE m.kind \in {"in", "adjust"} /\ Len(todo[s]) = 1
      OBVIOUS
    <2>1. PICK n : todo[s] = <<n>> /\ n.kind \in {"in", "adjust"}
      BY <1>1 DEF PullInv, PullsAdjust
    <2>2. Head(<<n>>) = n /\ Len(<<n>>) = 1
      OBVIOUS
    <2> QED
      BY <2>1, <2>2
  <1>3. s \in Syncs => new.reserved = View(s, m.row).reserved
    BY <1>2 DEF Stored, ReservedDelta
  <1> HIDE DEF new, m
  <1>4. /\ StockFunctions'
        /\ \A x \in Rows : /\ x = m.row => holder'[x] = s /\ draft'[x].level = new
                           /\ x # m.row => holder'[x] = holder[x] /\ draft'[x] = draft[x]
        /\ pc'[s] = AfterMovement(s)
        /\ \A t \in Sessions \ {s} : pc'[t] = pc[t] /\ todo'[t] = todo[t]
    BY <1>1 DEF PullInv, StockFunctions, IsFunction
  <1>5. PullsAdjust'
    <2>1. ASSUME s \in Syncs PROVE AfterMovement(s) \in {"commit", "plan"}
      <3>1. Len(todo[s]) = 1
        BY <1>2, <2>1
      <3>2. ~(1 > 1)
        OBVIOUS
      <3> QED
        BY <3>1, <3>2 DEF AfterMovement
    <2> QED
      BY <1>4, <2>1, SyncAssumption DEF PullInv, PullsAdjust
  <1>6. PullsKeepReserved'
    <2> SUFFICES ASSUME NEW t \in Syncs, NEW x \in Rows, holder'[x] = t
                 PROVE  draft'[x].level.reserved = levels[x].reserved
      BY <1>1 DEF PullsKeepReserved
    <2>1. CASE x # m.row
      BY <1>4, <2>1 DEF PullInv, PullsKeepReserved
    <2>2. CASE x = m.row
      <3>1. t = s /\ draft'[x].level.reserved = View(s, x).reserved
        BY <1>3, <1>4, <2>2
      <3> QED
        BY <3>1 DEF View, PullInv, PullsKeepReserved
    <2> QED
      BY <2>1, <2>2
  <1> QED
    BY <1>4, <1>5, <1>6 DEF PullInv

LEMMA PullFinishes ==
  ASSUME PullInv, NEW s \in Sessions, Finish(s), Publish(s) \/ UNCHANGED levels
  PROVE  PullInv'
  <1>1. /\ holder' = [r \in Rows |-> IF holder[r] = s THEN NoSession ELSE holder[r]]
        /\ draft' = [r \in Rows |-> IF holder[r] = s THEN NoDraft ELSE draft[r]]
        /\ job' = [job EXCEPT ![s] = "none"]
        /\ pc' = [pc EXCEPT ![s] = "idle"]
        /\ todo' = [todo EXCEPT ![s] = <<>>]
    BY DEF Finish, Release
  <1>2. /\ IsFunction(levels, Rows)'
        /\ \A r \in Rows : \/ levels'[r] = levels[r]
                           \/ holder[r] = s /\ levels'[r] = draft[r].level
    <2>1. CASE UNCHANGED levels
      BY <2>1 DEF PullInv, StockFunctions, IsFunction
    <2>2. CASE Publish(s)
      BY <2>2 DEF Publish, IsFunction
    <2> QED
      BY <2>1, <2>2
  <1>3. StockFunctions'
    BY <1>1, <1>2 DEF PullInv, StockFunctions, IsFunction
  <1>4. PullsAdjust'
    BY <1>1, SyncAssumption DEF PullInv, StockFunctions, IsFunction, PullsAdjust
  <1>5. PullsKeepReserved'
    BY <1>1, <1>2, SyncAssumption, SessionAssumption DEF PullInv, PullsKeepReserved
  <1> QED
    BY <1>3, <1>4, <1>5 DEF PullInv

(* Steps that leave the tables alone.                                      *)
LEMMA PullThinks ==
  ASSUME PullInv, UNCHANGED <<levels, holder, draft>>,
         IsFunction(job, Sessions)', IsFunction(pc, Sessions)', IsFunction(todo, Sessions)',
         PullsAdjust'
  PROVE  PullInv'
  BY DEF PullInv, StockFunctions, IsFunction, PullsKeepReserved

LEMMA PullLoads ==
  ASSUME PullInv, NEW s \in Sessions, NEW r, Lock(s, r),
         pc[s] \in {"select", "insert"}, pc' = [pc EXCEPT ![s] = "apply"],
         UNCHANGED <<levels, job, todo>>
  PROVE  PullInv'
  <1>1. IsFunction(pc, Sessions)'
        /\ \A t \in Sessions : pc'[t] = IF t = s THEN "apply" ELSE pc[t]
    BY DEF PullInv, StockFunctions, IsFunction
  <1>2. PullsAdjust'
    BY <1>1, SyncAssumption DEF PullInv, PullsAdjust
  <1>3. IsFunction(levels, Rows)' /\ IsFunction(job, Sessions)' /\ IsFunction(todo, Sessions)'
    BY DEF PullInv, StockFunctions, IsFunction
  <1> QED
    BY <1>1, <1>2, <1>3, PullLocks DEF PullInv, StockFunctions

LEMMA PullFindsNoRow ==
  ASSUME PullInv, NEW s \in Sessions, FindNoRow(s)
  PROVE  PullInv'
  <1>1. /\ pc[s] = "select" /\ pc' = [pc EXCEPT ![s] = "insert"]
        /\ UNCHANGED <<levels, holder, draft, job, todo>>
    BY DEF FindNoRow, stockVars
  <1>2. /\ IsFunction(pc, Sessions)' /\ IsFunction(job, Sessions)' /\ IsFunction(todo, Sessions)'
        /\ \A t \in Sessions : pc'[t] = IF t = s THEN "insert" ELSE pc[t]
    BY <1>1 DEF PullInv, StockFunctions, IsFunction
  <1>3. PullsAdjust'
    BY <1>1, <1>2, SyncAssumption DEF PullInv, PullsAdjust
  <1> QED
    BY <1>1, <1>2, <1>3, PullThinks

LEMMA ApiCallerKeepsPulls ==
  ASSUME PullInv, NEW s \in Sessions \ Syncs, ApiCaller(s)
  PROVE  PullInv'
  <1>0. ApiStep(s)
    BY DEF ApiCaller
  <1>1. CASE Move(s) \/ TransferStock(s)
    <2>1. \E k, ms : Begin(s, k, ms)
      BY <1>1 DEF Move, TransferStock
    <2>2. /\ UNCHANGED <<levels, holder, draft>>
          /\ \E k : job' = [job EXCEPT ![s] = k]
          /\ pc' = [pc EXCEPT ![s] = "select"]
          /\ \E ms : todo' = [todo EXCEPT ![s] = ms]
      BY <2>1 DEF Begin, stockVars
    <2>3. /\ IsFunction(pc, Sessions)' /\ IsFunction(job, Sessions)' /\ IsFunction(todo, Sessions)'
          /\ \A t \in Sessions \ {s} : pc'[t] = pc[t] /\ todo'[t] = todo[t]
      BY <2>2 DEF PullInv, StockFunctions, IsFunction
    <2>4. PullsAdjust'
      BY <2>3, SyncAssumption DEF PullInv, PullsAdjust
    <2> QED
      BY <2>2, <2>3, <2>4, PullThinks
  <1>2. CASE SelectForUpdate(s) \/ InsertRow(s)
    BY <1>2, PullLoads DEF SelectForUpdate, InsertRow
  <1>3. CASE FindNoRow(s)
    BY <1>3, PullFindsNoRow
  <1>4. CASE ApplyMovement(s)
    BY <1>4, PullApplies
  <1>5. CASE Commit(s) \/ Refuse(s) \/ AbortDeadlock(s) \/ Crash(s)
    BY <1>5, PullFinishes DEF Commit, Refuse, AbortDeadlock, Crash, RollBack
  <1> QED
    BY <1>0, <1>1, <1>2, <1>3, <1>4, <1>5 DEF ApiStep, ApiProgress, MovementStep

LEMMA SyncStepKeepsPulls ==
  ASSUME PullInv, NEW s \in Syncs, SyncStep(s)
  PROVE  PullInv'
  <1>0. s \in Sessions
    BY SyncAssumption
  <1>1. CASE Pull(s) \/ FindVariant(s) \/ CreateVariant(s) \/ AtTarget(s)
    <2>1. /\ UNCHANGED <<levels, holder, draft, todo>>
          /\ \E k : job' = [job EXCEPT ![s] = k]
          /\ \E p \in {"plan", "level", "create"} : pc' = [pc EXCEPT ![s] = p]
      <3>1. CASE Pull(s)
        BY <3>1 DEF Pull, stockVars
      <3>2. CASE FindVariant(s) \/ CreateVariant(s) \/ AtTarget(s)
        <4>1. UNCHANGED <<levels, holder, draft, todo, job>>
              /\ \E p \in {"plan", "level", "create"} : pc' = [pc EXCEPT ![s] = p]
          BY <3>2 DEF FindVariant, CreateVariant, AtTarget, stockVars
        <4>2. job' = [job EXCEPT ![s] = job[s]]
          BY <4>1 DEF PullInv, StockFunctions, IsFunction
        <4> QED
          BY <4>1, <4>2
      <3> QED
        BY <1>1, <3>1, <3>2
    <2>2. /\ IsFunction(pc, Sessions)' /\ IsFunction(job, Sessions)' /\ IsFunction(todo, Sessions)'
          /\ \A t \in Sessions : pc'[t] = pc[t] \/ pc'[t] \in {"plan", "level", "create"}
      BY <2>1 DEF PullInv, StockFunctions, IsFunction
    <2>3. PullsAdjust'
      BY <2>1, <2>2, SyncAssumption DEF PullInv, PullsAdjust
    <2> QED
      BY <2>1, <2>2, <2>3, PullThinks
  <1>2. CASE GetInventory(s)
    <2> DEFINE m == Adjustment(s, View(s, TargetRow(s)))
    <2>1. /\ UNCHANGED <<levels, holder, draft, job>>
          /\ todo' = [todo EXCEPT ![s] = <<m>>]
          /\ pc' = [pc EXCEPT ![s] = "select"]
      BY <1>2 DEF GetInventory, stockVars
    <2>2. m.kind \in {"in", "adjust"}
      BY DEF Adjustment
    <2> HIDE DEF m
    <2>3. /\ IsFunction(pc, Sessions)' /\ IsFunction(job, Sessions)' /\ IsFunction(todo, Sessions)'
          /\ todo'[s] = <<m>>
          /\ \A t \in Sessions \ {s} : pc'[t] = pc[t] /\ todo'[t] = todo[t]
      BY <1>0, <2>1 DEF PullInv, StockFunctions, IsFunction
    <2>4. PullsAdjust'
      BY <2>2, <2>3, SyncAssumption DEF PullInv, PullsAdjust
    <2> QED
      BY <2>1, <2>3, <2>4, PullThinks
  <1>3. CASE SelectCached(s) \/ InsertRow(s)
    BY <1>0, <1>3, PullLoads DEF SelectCached, InsertRow
  <1>4. CASE FindNoRow(s)
    BY <1>0, <1>4, PullFindsNoRow
  <1>5. CASE ApplySync(s)
    BY <1>0, <1>5, PullApplies DEF ApplySync
  <1>6. CASE CommitSync(s) \/ FailSync(s) \/ AbortSyncDeadlock(s) \/ CrashSync(s)
    <2>1. Finish(s) /\ (Publish(s) \/ UNCHANGED levels)
      BY <1>6 DEF CommitSync, FailSync, AbortSyncDeadlock, CrashSync, RollBackSync, FinishSync
    <2> QED
      BY <1>0, <2>1, PullFinishes
  <1> QED
    BY <1>1, <1>2, <1>3, <1>4, <1>5, <1>6 DEF SyncStep, SyncProgress, SyncMovement

LEMMA PullStays ==
  ASSUME PullInv, UNCHANGED vars
  PROVE  PullInv'
  <1>1. UNCHANGED <<levels, holder, draft, job, pc, todo>>
    BY DEF vars, stockVars, sessionVars
  <1>2. IsFunction(pc, Sessions)' /\ IsFunction(job, Sessions)' /\ IsFunction(todo, Sessions)'
        /\ PullsAdjust'
    BY <1>1 DEF PullInv, StockFunctions, IsFunction, PullsAdjust
  <1> QED
    BY <1>1, <1>2, PullThinks

LEMMA InitPulls == SyncInit => PullInv
  <1> SUFFICES ASSUME SyncInit PROVE PullInv
    OBVIOUS
  <1>1. Init
    BY DEF SyncInit
  <1>2. StockFunctions
    BY <1>1 DEF Init, StockFunctions, IsFunction
  <1>3. PullsAdjust /\ PullsKeepReserved
    BY <1>1, SyncAssumption, SessionAssumption DEF Init, PullsAdjust, PullsKeepReserved
  <1> QED
    BY <1>2, <1>3 DEF PullInv

(* Pulls and API callers keep PullInv, whatever the POS reports.           *)
THEOREM PullInvariant == SyncSpec => []PullInv
  <1>1. PullInv /\ [SyncNext]_allSyncVars => PullInv'
    <2> SUFFICES ASSUME PullInv, [SyncNext]_allSyncVars PROVE PullInv'
      OBVIOUS
    <2>1. CASE UNCHANGED vars
      BY <2>1, PullStays
    <2>2. ASSUME NEW s \in Syncs, SyncStep(s) PROVE PullInv'
      BY <2>2, SyncStepKeepsPulls
    <2>3. ASSUME NEW s \in Sessions \ Syncs, ApiCaller(s) PROVE PullInv'
      BY <2>3, ApiCallerKeepsPulls
    <2> QED
      BY <2>1, <2>2, <2>3 DEF SyncNext, AddVariant, allSyncVars
  <1> QED
    BY InitPulls, <1>1, PTL DEF SyncSpec

(* Nobody but the session itself ends its pull.                            *)
LEMMA PullEndsItself ==
  ASSUME PullInv, [SyncNext]_allSyncVars, NEW s \in Syncs, job[s] = "sync", job'[s] = "none"
  PROVE  SyncStep(s)
  <1>0. IsFunction(job, Sessions) /\ s \in Sessions
    BY SyncAssumption DEF PullInv, StockFunctions
  <1>1. job' # job
    OBVIOUS
  <1>2. ASSUME NEW t \in Syncs, SyncStep(t) PROVE t = s
    <2>1. \E k : job' = [job EXCEPT ![t] = k] \/ UNCHANGED job
      BY <1>2 DEF SyncStep, SyncProgress, SyncMovement, Pull, FindVariant, CreateVariant,
         AtTarget, GetInventory, SelectCached, FindNoRow, InsertRow, ApplySync,
         ApplyMovement, CommitSync, FailSync, AbortSyncDeadlock, CrashSync,
         RollBackSync, FinishSync, Finish
    <2> QED
      BY <1>0, <1>1, <2>1 DEF IsFunction
  <1>3. ASSUME NEW t \in Sessions \ Syncs, ApiCaller(t) PROVE FALSE
    <2>1. \E k : job' = [job EXCEPT ![t] = k] \/ UNCHANGED job
      BY <1>3 DEF ApiCaller, ApiStep, ApiProgress, MovementStep, Move, TransferStock, Begin,
         SelectForUpdate, FindNoRow, InsertRow, ApplyMovement, Commit, Refuse,
         AbortDeadlock, Crash, RollBack, Finish
    <2> QED
      BY <1>0, <1>1, <2>1 DEF IsFunction
  <1> QED
    BY <1>1, <1>2, <1>3 DEF SyncNext, AddVariant, allSyncVars, vars, sessionVars

(* The end of a pull leaves every row's reservations as they were.         *)
THEOREM PullsKeepReservations == SyncSpec => SyncKeepsReservations
  <1> DEFINE Keeps == \A s \in Syncs :
                        job[s] = "sync" /\ job'[s] = "none"
                          => \A r \in Rows : levels'[r].reserved = levels[r].reserved
  <1>1. ASSUME PullInv, [SyncNext]_allSyncVars PROVE Keeps
    <2> SUFFICES ASSUME NEW s \in Syncs, job[s] = "sync", job'[s] = "none", NEW r \in Rows
                 PROVE  levels'[r].reserved = levels[r].reserved
      OBVIOUS
    <2>1. SyncStep(s)
      BY <1>1, PullEndsItself
    <2>2. levels' = levels \/ Publish(s)
      BY <2>1 DEF SyncStep, SyncProgress, SyncMovement, Pull, FindVariant, CreateVariant,
         AtTarget, GetInventory, SelectCached, FindNoRow, InsertRow, ApplySync,
         ApplyMovement, CommitSync, FailSync, AbortSyncDeadlock, CrashSync,
         RollBackSync, stockVars
    <2> QED
      BY <1>1, <2>2 DEF Publish, PullInv, PullsKeepReserved
  <1> QED
    BY PullInvariant, <1>1, PTL DEF SyncSpec, SyncKeepsReservations

-----------------------------------------------------------------------------
(***************************************************************************)
(* What a committed pull leaves is what the POS reported.  The tables      *)
(* keep their types; a missing row holds nothing, and rows stay.           *)
(***************************************************************************)
RowsBorn ==
  \A r \in Rows :
    /\ Exists(levels[r]) \/ levels[r].qty = 0
    /\ Exists(draft[r].level) \/ draft[r].level.qty = 0
    /\ Stock[r] # 0 => Exists(levels[r])
    /\ holder[r] # NoSession /\ Exists(levels[r]) => Exists(draft[r].level)

TablesInv == TypeOK /\ Busy /\ RowsBorn

(* What a step of one session leaves of another.                           *)
Aside(t) ==
  /\ job'[t] = job[t] /\ pc'[t] = pc[t] /\ todo'[t] = todo[t] /\ seen'[t] = seen[t]
  /\ \A r \in Rows : holder'[r] = t <=> holder[r] = t
  /\ \A r \in Rows : holder[r] = t => draft'[r] = draft[r] /\ levels'[r] = levels[r]
  /\ \A r \in Rows : Exists(levels[r]) => Exists(levels'[r])

(* A step that leaves the tables alone.                                    *)
LEMMA TablesStay ==
  ASSUME TablesInv, NEW s \in Sessions,
         UNCHANGED <<levels, journal, outbox, nextSeq, holder, draft, pending, seen>>,
         NEW k \in {"none", "movement", "transfer", "order", "sync"},
         job' = [job EXCEPT ![s] = k],
         NEW p \in {"idle", "select", "insert", "apply", "commit",
                    "record", "plan", "create", "level"},
         pc' = [pc EXCEPT ![s] = p],
         NEW ms \in Seq(Movement), todo' = [todo EXCEPT ![s] = ms],
         p \in {"select", "insert", "apply"} => ms # <<>>
  PROVE  TablesInv' /\ \A t \in Sessions \ {s} : Aside(t)
  <1>1. TypeOK'
    BY DEF TablesInv, TypeOK
  <1>2. Busy'
    BY DEF TablesInv, TypeOK, Busy
  <1>3. RowsBorn'
    BY DEF TablesInv, RowsBorn
  <1>4. \A t \in Sessions \ {s} : Aside(t)
    BY DEF TablesInv, TypeOK, Aside
  <1> QED
    BY <1>1, <1>2, <1>3, <1>4 DEF TablesInv

LEMMA TablesLock ==
  ASSUME TablesInv, NEW s \in Sessions, NEW r \in Rows, Lock(s, r), todo[s] # <<>>,
         NEW x \in Level, seen' = [seen EXCEPT ![s] = x], pc' = [pc EXCEPT ![s] = "apply"],
         UNCHANGED <<levels, journal, outbox, nextSeq, pending, job, todo>>
  PROVE  /\ TablesInv' /\ \A t \in Sessions \ {s} : Aside(t)
         /\ holder'[r] = s /\ draft'[r].level = View(s, r)
         /\ \A y \in Rows \ {r} : holder'[y] = holder[y] /\ draft'[y] = draft[y]
  <1>1. View(s, r) \in Level /\ Booked(s, r) \in Totals
    BY DEF TablesInv, TypeOK, View, Booked
  <1>2. /\ holder[r] \in {NoSession, s} /\ holder'[r] = s
        /\ draft'[r] = [level |-> View(s, r), journal |-> Booked(s, r)]
        /\ \A y \in Rows \ {r} : holder'[y] = holder[y] /\ draft'[y] = draft[y]
        /\ holder' \in [Rows -> Sessions \cup {NoSession}]
        /\ draft' \in [Rows -> [level : Level, journal : Totals]]
    BY <1>1 DEF TablesInv, TypeOK, Lock
  <1>3. TypeOK'
    BY <1>2 DEF TablesInv, TypeOK
  <1>4. Busy'
    BY DEF TablesInv, TypeOK, Busy
  <1>5. draft'[r].level = View(s, r)
    BY <1>2
  <1>6. RowsBorn'
    BY <1>2, <1>5 DEF TablesInv, RowsBorn, View
  <1>7. \A t \in Sessions \ {s} : Aside(t)
    BY <1>2, SessionAssumption DEF TablesInv, TypeOK, Aside
  <1> QED
    BY <1>2, <1>3, <1>4, <1>5, <1>6, <1>7 DEF TablesInv

LEMMA TablesApply ==
  ASSUME TablesInv, NEW s \in Sessions, ApplyMovement(s)
  PROVE  LET m == Head(todo[s]) IN
         /\ TablesInv' /\ \A t \in Sessions \ {s} : Aside(t)
         /\ m.row \in Rows /\ Exists(Stored(s, m)) /\ levels' = levels
         /\ holder'[m.row] = s /\ draft'[m.row].level = Stored(s, m)
         /\ \A y \in Rows \ {m.row} : holder'[y] = holder[y] /\ draft'[y] = draft[y]
  <1> DEFINE m == Head(todo[s])
             new == Stored(s, m)
             totals == Entered(Booked(s, m.row), m)
             event == [seq |-> nextSeq + 1, row |-> m.row, level |-> new]
  <1>1. /\ pc[s] = "apply" /\ Sound(new) /\ holder[m.row] \in {NoSession, s}
        /\ holder' = [holder EXCEPT ![m.row] = s]
        /\ draft' = [draft EXCEPT ![m.row] = [level |-> new, journal |-> totals]]
        /\ pending' = [pending EXCEPT ![s] = @ \cup {event}]
        /\ nextSeq' = nextSeq + 1
        /\ todo' = [todo EXCEPT ![s] = Tail(@)]
        /\ pc' = [pc EXCEPT ![s] = AfterMovement(s)]
        /\ UNCHANGED <<levels, journal, outbox, job, seen>>
    BY DEF ApplyMovement
  <1>2. /\ m \in Movement /\ m.row \in Rows
        /\ Tail(todo[s]) \in Seq(Movement) /\ (Len(todo[s]) > 1 => Tail(todo[s]) # <<>>)
    BY <1>1, HeadIsMovement DEF TablesInv
  <1>3. QtyDelta(m) \in Int /\ ReservedDelta(m) \in Int
    BY <1>2 DEF Movement, QtyDelta, ReservedDelta
  <1>4. new \in Level /\ Exists(new)
    <2>1. View(s, m.row) \in Level /\ seen[s] \in Level
      BY <1>2 DEF TablesInv, TypeOK, View
    <2>2. new.qty \in Int /\ new.reserved \in Int /\ new.version \in Nat /\ new.version > 0
      BY <1>3, <2>1 DEF Stored, Level
    <2>3. new = [qty |-> new.qty, reserved |-> new.reserved, version |-> new.version]
      BY DEF Stored
    <2> HIDE DEF new
    <2> QED
      BY <1>1, <2>2, <2>3 DEF Sound, Level, Exists
  <1>5. totals \in Totals
    <2>1. Booked(s, m.row) \in Totals
      BY <1>2 DEF TablesInv, TypeOK, Booked
    <2> QED
      BY <1>3, <2>1 DEF Entered, Totals
  <1> HIDE DEF new, totals, m
  <1>6. AfterMovement(s) \in {"select", "commit", "plan"}
        /\ (AfterMovement(s) = "select" => Len(todo[s]) > 1)
    BY DEF AfterMovement
  <1>7. TypeOK'
    <2>1. event \in [seq : Nat, row : Rows, level : Level]
      BY <1>2, <1>4 DEF TablesInv, TypeOK
    <2>2. pending' \in [Sessions -> SUBSET [seq : Nat, row : Rows, level : Level]]
      BY <1>1, <2>1 DEF TablesInv, TypeOK
    <2>3. holder' \in [Rows -> Sessions \cup {NoSession}]
          /\ draft' \in [Rows -> [level : Level, journal : Totals]]
      BY <1>1, <1>2, <1>4, <1>5 DEF TablesInv, TypeOK
    <2>4. todo' \in [Sessions -> Seq(Movement)]
      BY <1>1, <1>2 DEF TablesInv, TypeOK
    <2>5. pc' \in [Sessions -> {"idle", "select", "insert", "apply", "commit",
                               "record", "plan", "create", "level"}]
      BY <1>1, <1>6 DEF TablesInv, TypeOK
    <2>6. nextSeq' \in Nat
      BY <1>1 DEF TablesInv, TypeOK
    <2> QED
      BY <1>1, <2>2, <2>3, <2>4, <2>5, <2>6 DEF TablesInv, TypeOK
  <1>8. Busy'
    BY <1>1, <1>2, <1>6 DEF TablesInv, TypeOK, Busy
  <1>9. /\ holder'[m.row] = s /\ draft'[m.row].level = new
        /\ \A y \in Rows \ {m.row} : holder'[y] = holder[y] /\ draft'[y] = draft[y]
    BY <1>1, <1>2 DEF TablesInv, TypeOK
  <1>10. RowsBorn'
    BY <1>1, <1>4, <1>9 DEF TablesInv, RowsBorn
  <1>11. \A t \in Sessions \ {s} : Aside(t)
    BY <1>1, <1>2, <1>9, SessionAssumption DEF TablesInv, TypeOK, Aside
  <1> QED
    BY <1>1, <1>2, <1>4, <1>7, <1>8, <1>9, <1>10, <1>11 DEF TablesInv, new, m

LEMMA TablesFinish ==
  ASSUME TablesInv, NEW s \in Sessions, Finish(s), UNCHANGED nextSeq,
         Publish(s) \/ UNCHANGED <<levels, journal, outbox>>
  PROVE  /\ TablesInv' /\ \A t \in Sessions \ {s} : Aside(t)
         /\ pc'[s] = "idle" /\ \A r \in Rows : holder'[r] # s
  <1>1. /\ holder' = [r \in Rows |-> IF holder[r] = s THEN NoSession ELSE holder[r]]
        /\ draft' = [r \in Rows |-> IF holder[r] = s THEN NoDraft ELSE draft[r]]
        /\ pending' = [pending EXCEPT ![s] = {}]
        /\ job' = [job EXCEPT ![s] = "none"]
        /\ pc' = [pc EXCEPT ![s] = "idle"]
        /\ todo' = [todo EXCEPT ![s] = <<>>]
        /\ seen' = [seen EXCEPT ![s] = NewLevel]
    BY DEF Finish, Release
  <1>2. /\ levels' \in [Rows -> Level] /\ journal' \in [Rows -> Totals]
        /\ outbox' \subseteq [seq : Nat, row : Rows, level : Level]
        /\ \A r \in Rows : \/ levels'[r] = levels[r]
                           \/ holder[r] = s /\ levels'[r] = draft[r].level
    <2>1. CASE Publish(s)
      <3>1. levels' \in [Rows -> Level] /\ journal' \in [Rows -> Totals]
        BY <2>1 DEF Publish, TablesInv, TypeOK
      <3>2. outbox' \subseteq [seq : Nat, row : Rows, level : Level]
        BY <2>1 DEF Publish, TablesInv, TypeOK
      <3> QED
        BY <2>1, <3>1, <3>2 DEF Publish
    <2>2. CASE UNCHANGED <<levels, journal, outbox>>
      BY <2>2 DEF TablesInv, TypeOK
    <2> QED
      BY <2>1, <2>2
  <1>3. TypeOK'
    <2>1. <<>> \in Seq(Movement)
      OBVIOUS
    <2>2. todo' \in [Sessions -> Seq(Movement)]
      BY <1>1, <2>1 DEF TablesInv, TypeOK
    <2> QED
      BY <1>1, <1>2, <2>2, NewRows DEF TablesInv, TypeOK
  <1>4. Busy'
    BY <1>1 DEF TablesInv, TypeOK, Busy
  <1>5. \A r \in Rows : Exists(levels[r]) => Exists(levels'[r])
    BY <1>2, SessionAssumption DEF TablesInv, RowsBorn
  <1>6. RowsBorn'
    <2>1. NoDraft.level.qty = 0
      BY DEF NoDraft, NewLevel
    <2> QED
      BY <1>1, <1>2, <1>5, <2>1 DEF TablesInv, RowsBorn
  <1>7. \A t \in Sessions \ {s} : Aside(t)
    BY <1>1, <1>2, <1>5, SessionAssumption DEF TablesInv, TypeOK, Aside
  <1>8. pc'[s] = "idle" /\ \A r \in Rows : holder'[r] # s
    BY <1>1, SessionAssumption DEF TablesInv, TypeOK
  <1> QED
    BY <1>3, <1>4, <1>6, <1>7, <1>8 DEF TablesInv

LEMMA TablesFindNoRow ==
  ASSUME TablesInv, NEW s \in Sessions, FindNoRow(s)
  PROVE  TablesInv' /\ \A t \in Sessions \ {s} : Aside(t)
  <1>1. /\ pc[s] = "select" /\ pc' = [pc EXCEPT ![s] = "insert"]
        /\ UNCHANGED <<levels, journal, outbox, nextSeq, holder, draft, pending, job, todo, seen>>
    BY DEF FindNoRow, stockVars
  <1>2. todo[s] \in Seq(Movement) /\ todo[s] # <<>>
    BY <1>1, HeadIsMovement DEF TablesInv
  <1>3. job' = [job EXCEPT ![s] = job[s]] /\ todo' = [todo EXCEPT ![s] = todo[s]]
        /\ job[s] \in {"none", "movement", "transfer", "order", "sync"}
    BY <1>1 DEF TablesInv, TypeOK
  <1> QED
    BY <1>1, <1>2, <1>3, TablesStay

(* An API caller.                                                          *)
LEMMA TablesCaller ==
  ASSUME TablesInv, NEW s \in Sessions, ApiStep(s)
  PROVE  TablesInv' /\ \A t \in Sessions \ {s} : Aside(t)
  <1>1. CASE Move(s) \/ TransferStock(s)
    <2>1. PICK k \in {"movement", "transfer"}, ms \in Seq(Movement) : ms # <<>> /\ Begin(s, k, ms)
      BY <1>1, MoveBegins, TransferBeginsTwo DEF TablesInv
    <2> QED
      BY <2>1, TablesStay DEF Begin, stockVars
  <1>2. CASE SelectForUpdate(s) \/ InsertRow(s)
    <2> DEFINE r == Head(todo[s]).row
    <2>1. /\ pc[s] \in {"select", "insert"} /\ Lock(s, r)
          /\ seen' = [seen EXCEPT ![s] = View(s, r)] /\ pc' = [pc EXCEPT ![s] = "apply"]
          /\ UNCHANGED <<levels, journal, outbox, nextSeq, pending, job, todo>>
      BY <1>2 DEF SelectForUpdate, InsertRow
    <2>2. r \in Rows /\ todo[s] # <<>>
      BY <2>1, HeadIsMovement DEF TablesInv
    <2>3. View(s, r) \in Level
      BY <2>2 DEF TablesInv, TypeOK, View
    <2> QED
      BY <2>1, <2>2, <2>3, TablesLock
  <1>3. CASE Commit(s) \/ Refuse(s) \/ AbortDeadlock(s) \/ Crash(s)
    BY <1>3, TablesFinish DEF Commit, Refuse, AbortDeadlock, Crash, RollBack
  <1> QED
    BY <1>1, <1>2, <1>3, TablesFindNoRow, TablesApply DEF ApiStep, ApiProgress, MovementStep

(***************************************************************************)
(* A pull.  It owes the POS the rows that were there from the start and    *)
(* those it creates.                                                       *)
(***************************************************************************)
Owed(r) == Stock[r] # 0 \/ ~Exists(levels[r])

(* The difference is taken from the level the pull has cached.             *)
Computes(s) ==
  /\ pc[s] \in {"create", "level", "select", "insert", "apply"} => ~PullDone(s)
  /\ pc[s] \in {"select", "insert", "apply"} =>
       todo[s] = <<Adjustment(s, cached[s])>> /\ Current(s).stock # cached[s].qty

(* A cached level is still there when it is looked for again; a row that   *)
(* was missing is not one the pull has written.  What the object in memory *)
(* holds, once the row is locked, is what the difference was taken from.   *)
Remembers(s) ==
  /\ Exists(cached[s]) \/ cached[s].qty = 0
  /\ pc[s] = "select" /\ Exists(cached[s]) => Exists(View(s, TargetRow(s)))
  /\ pc[s] \in {"select", "insert"} /\ ~Exists(cached[s]) =>
       holder[TargetRow(s)] # s /\ Stock[TargetRow(s)] = 0
  /\ pc[s] = "insert" => ~Exists(cached[s])
  /\ pc[s] = "apply" =>
       /\ holder[TargetRow(s)] = s
       /\ Owed(TargetRow(s)) => seen[s].qty = cached[s].qty

(* Product j is the last of those the pull is through with that has its    *)
(* SKU, and r is the row it is stocked in.                                 *)
LastThrough(s, j, r) ==
  /\ j < next[s] /\ r = <<products[s][j].sku, Target>>
  /\ \A k \in DOMAIN products[s] :
       k < next[s] /\ products[s][k].sku = products[s][j].sku => k <= j

(* A row the pull has booked has the stock of its last product so far.     *)
Booking(s, r) ==
  /\ Exists(draft[r].level)
  /\ \E j \in DOMAIN products[s] :
       LastThrough(s, j, r) /\ (Owed(r) => draft[r].level.qty = products[s][j].stock)

Books(s) ==
  /\ job[s] = "none" => pc[s] = "idle" /\ \A r \in Rows : holder[r] # s
  /\ \A r \in Rows : holder[r] = s =>
       (pc[s] = "apply" /\ r = TargetRow(s)) \/ Booking(s, r)

Reports(s) == Computes(s) /\ Remembers(s) /\ Books(s)

PullTypes ==
  /\ products \in [Syncs -> Seq(Product)]
  /\ next \in [Syncs -> Nat \ {0}]
  /\ cached \in [Syncs -> Level]

ReportInv == TablesInv /\ PullTypes /\ \A s \in Syncs : Reports(s)

LEMMA InitReports == SyncInit => ReportInv
  <1> SUFFICES ASSUME SyncInit PROVE ReportInv
    OBVIOUS
  <1>1. Init
    BY DEF SyncInit
  <1>2. TypeOK /\ Busy
    BY <1>1, InitEstablishes DEF StockInv
  <1>3. RowsBorn
    BY <1>1, StockAssumption DEF Init, RowsBorn, Exists, NewLevel, NoDraft, Received
  <1>4. PullTypes
    <2>1. <<>> \in Seq(Product)
      OBVIOUS
    <2> QED
      BY <2>1, NewRows DEF SyncInit, PullTypes
  <1>5. ASSUME NEW s \in Syncs PROVE Reports(s)
    BY <1>1, SyncAssumption, SessionAssumption
       DEF SyncInit, Init, Reports, Computes, Remembers, Books, NewLevel
  <1> QED
    BY <1>2, <1>3, <1>4, <1>5 DEF ReportInv, TablesInv

(* The product a pull is at.                                               *)
LEMMA AtProduct ==
  ASSUME ReportInv, NEW s \in Syncs, ~PullDone(s)
  PROVE  /\ next[s] \in DOMAIN products[s]
         /\ Current(s).sku \in Variants /\ Current(s).stock \in Int
         /\ TargetRow(s) \in Rows /\ s \in Sessions
         /\ \A k \in DOMAIN products[s] : k \in Nat
  <1>1. products[s] \in Seq(Product) /\ next[s] \in Nat \ {0}
    BY DEF ReportInv, PullTypes
  <1>2. Len(products[s]) \in Nat /\ DOMAIN products[s] = 1..Len(products[s])
    BY <1>1
  <1>3. next[s] \in 1..Len(products[s])
    BY <1>1, <1>2 DEF PullDone
  <1>4. products[s][next[s]] \in Product
    BY <1>1, <1>3
  <1> QED
    BY <1>2, <1>3, <1>4, SyncAssumption DEF Current, TargetRow, Product, Rows

(* The one movement of a pull.                                             *)
LEMMA AtMovement ==
  ASSUME ReportInv, NEW s \in Syncs, pc[s] \in {"select", "insert", "apply"}
  PROVE  /\ ~PullDone(s) /\ TargetRow(s) \in Rows /\ s \in Sessions
         /\ Head(todo[s]).row = TargetRow(s) /\ Len(todo[s]) = 1 /\ todo[s] # <<>>
         /\ Head(todo[s]).kind \in {"in", "adjust"}
         /\ Head(todo[s]).qty = Current(s).stock - cached[s].qty
         /\ Head(todo[s]).qty # 0
         /\ Current(s).stock \in Int /\ cached[s].qty \in Int
  <1>1. ~PullDone(s) /\ todo[s] = <<Adjustment(s, cached[s])>> /\ Current(s).stock # cached[s].qty
    BY DEF ReportInv, Reports, Computes
  <1>2. Current(s).stock \in Int /\ TargetRow(s) \in Rows /\ s \in Sessions
    BY <1>1, AtProduct
  <1>3. cached[s].qty \in Int
    BY DEF ReportInv, PullTypes, Level
  <1>4. \A m : Head(<<m>>) = m /\ Len(<<m>>) = 1 /\ <<m>> # <<>>
    OBVIOUS
  <1>5. LET m == Adjustment(s, cached[s]) IN
          /\ m.row = TargetRow(s) /\ m.kind \in {"in", "adjust"}
          /\ m.qty = Current(s).stock - cached[s].qty
    BY DEF Adjustment
  <1> QED
    BY <1>1, <1>2, <1>3, <1>4, <1>5

(* A step of another session.                                              *)
LEMMA AsideReports ==
  ASSUME ReportInv, NEW s \in Syncs, Aside(s),
         products'[s] = products[s], next'[s] = next[s], cached'[s] = cached[s]
  PROVE  Reports(s)'
  <1>1. Reports(s)
    BY DEF ReportInv
  <1>2. /\ Current(s)' = Current(s) /\ TargetRow(s)' = TargetRow(s) /\ PullDone(s)' = PullDone(s)
        /\ \A level : Adjustment(s, level)' = Adjustment(s, level)
    BY DEF Current, TargetRow, PullDone, Adjustment, Exists
  <1>3. Computes(s)'
    BY <1>1, <1>2 DEF Aside, Reports, Computes
  <1>4. pc[s] \in {"select", "insert", "apply"} => TargetRow(s) \in Rows
    BY AtMovement
  <1>5. \A r \in Rows : Owed(r)' => Owed(r)
    BY DEF Aside, Owed
  <1>6. \A r \in Rows : Exists(View(s, r)) => Exists(View(s, r))'
    BY DEF Aside, View, Exists
  <1>7. Remembers(s)'
    BY <1>1, <1>2, <1>4, <1>5, <1>6 DEF Aside, Reports, Remembers, Exists
  <1>8. ASSUME NEW r \in Rows, holder[r] = s, Booking(s, r) PROVE Booking(s, r)'
    BY <1>5, <1>8 DEF Aside, Booking, LastThrough, Exists
  <1>9. Books(s)'
    BY <1>1, <1>2, <1>8 DEF Aside, Reports, Books
  <1> QED
    BY <1>3, <1>7, <1>9 DEF Reports

LEMMA ReportsKept ==
  ASSUME ReportInv, NEW s \in Syncs, TablesInv', PullTypes', Reports(s)',
         \A t \in Sessions \ {s} : Aside(t),
         \A t \in Syncs \ {s} : products'[t] = products[t] /\ next'[t] = next[t]
                                /\ cached'[t] = cached[t]
  PROVE  ReportInv'
  <1>1. ASSUME NEW t \in Syncs \ {s} PROVE Reports(t)'
    BY AsideReports, SyncAssumption
  <1> QED
    BY <1>1 DEF ReportInv

(* What a pull has booked, while it thinks and when it goes on.            *)
LEMMA BookingStays ==
  ASSUME NEW s \in Syncs, NEW r \in Rows, Booking(s, r),
         products'[s] = products[s], next'[s] = next[s],
         draft'[r] = draft[r], levels'[r] = levels[r]
  PROVE  Booking(s, r)'
  BY DEF Booking, LastThrough, Owed, Exists

LEMMA BookingGoesOn ==
  ASSUME ReportInv, NEW s \in Syncs, ~PullDone(s), NEW r \in Rows, r # TargetRow(s),
         Booking(s, r), products'[s] = products[s], next'[s] = next[s] + 1,
         draft'[r] = draft[r], levels'[r] = levels[r]
  PROVE  Booking(s, r)'
  <1>1. PICK j \in DOMAIN products[s] :
          LastThrough(s, j, r) /\ (Owed(r) => draft[r].level.qty = products[s][j].stock)
    BY DEF Booking
  <1>2. \A k \in DOMAIN products[s] : k \in Nat
    BY AtProduct
  <1>3. next[s] \in Nat
    BY DEF ReportInv, PullTypes
  <1>4. products[s][next[s]].sku # products[s][j].sku
    BY <1>1 DEF LastThrough, TargetRow, Current
  <1>5. LastThrough(s, j, r)'
    BY <1>1, <1>2, <1>3, <1>4 DEF LastThrough
  <1> QED
    BY <1>1, <1>5 DEF Booking, Owed, Exists

LEMMA BookingNow ==
  ASSUME ReportInv, NEW s \in Syncs, ~PullDone(s),
         products'[s] = products[s], next'[s] = next[s] + 1,
         NEW r \in Rows, r = TargetRow(s), levels'[r] = levels[r],
         Exists(draft'[r].level), Owed(r) => draft'[r].level.qty = Current(s).stock
  PROVE  Booking(s, r)'
  <1>1. PICK j \in DOMAIN products[s] : j = next[s] /\ \A k \in DOMAIN products[s] : k \in Nat
    BY AtProduct
  <1>2. LastThrough(s, j, r)'
    BY <1>1 DEF LastThrough, TargetRow, Current
  <1> QED
    BY <1>1, <1>2 DEF Booking, Owed, Exists, Current

(* The steps of a pull, as its session takes them.                         *)
LEMMA PullReports ==
  ASSUME ReportInv, NEW s \in Syncs, Pull(s)
  PROVE  ReportInv'
  <1>1. s \in Sessions /\ TablesInv /\ todo[s] \in Seq(Movement)
    BY SyncAssumption DEF ReportInv, TablesInv, TypeOK
  <1>2. /\ job' = [job EXCEPT ![s] = "sync"] /\ pc' = [pc EXCEPT ![s] = "plan"]
        /\ todo' = [todo EXCEPT ![s] = todo[s]]
        /\ UNCHANGED <<levels, journal, outbox, nextSeq, holder, draft, pending, seen>>
    BY <1>1 DEF Pull, stockVars, TablesInv, TypeOK
  <1>3. TablesInv' /\ \A t \in Sessions \ {s} : Aside(t)
    BY <1>1, <1>2, TablesStay
  <1>4. PICK pull \in Pulls : products' = [products EXCEPT ![s] = pull]
    BY DEF Pull
  <1>5. UNCHANGED <<next, cached>> /\ job[s] = "none"
    BY DEF Pull
  <1>6. PullTypes'
    BY <1>4, <1>5, PullAssumption DEF ReportInv, PullTypes
  <1>7. pc'[s] = "plan" /\ job'[s] = "sync"
    BY <1>1, <1>2 DEF TablesInv, TypeOK
  <1>8. Reports(s)'
    BY <1>2, <1>5, <1>7 DEF ReportInv, Reports, Computes, Remembers, Books, Exists
  <1> QED
    BY <1>3, <1>4, <1>5, <1>6, <1>8, ReportsKept DEF ReportInv, PullTypes

LEMMA FindVariantReports ==
  ASSUME ReportInv, NEW s \in Syncs, FindVariant(s) \/ CreateVariant(s)
  PROVE  ReportInv'
  <1>1. s \in Sessions /\ TablesInv /\ todo[s] \in Seq(Movement)
    BY SyncAssumption DEF ReportInv, TablesInv, TypeOK
  <1>2. PICK p \in {"level", "create"} : pc' = [pc EXCEPT ![s] = p]
    BY DEF FindVariant, CreateVariant
  <1>3. /\ job' = [job EXCEPT ![s] = job[s]] /\ todo' = [todo EXCEPT ![s] = todo[s]]
        /\ job[s] \in {"none", "movement", "transfer", "order", "sync"}
        /\ UNCHANGED <<levels, journal, outbox, nextSeq, holder, draft, pending, seen>>
        /\ UNCHANGED <<job, products, next, cached>>
    BY <1>1 DEF FindVariant, CreateVariant, stockVars, syncVars, TablesInv, TypeOK
  <1>4. TablesInv' /\ \A t \in Sessions \ {s} : Aside(t)
    BY <1>1, <1>2, <1>3, TablesStay
  <1>5. PullTypes'
    BY <1>3 DEF ReportInv, PullTypes
  <1>6. pc'[s] = p /\ pc[s] \in {"plan", "create"} /\ ~PullDone(s) /\ job[s] # "none"
    BY <1>1, <1>2 DEF FindVariant, CreateVariant, ReportInv, Reports, Computes, Books,
                      TablesInv, TypeOK
  <1>7. Computes(s)' /\ Remembers(s)'
    BY <1>3, <1>6 DEF ReportInv, Reports, Computes, Remembers, PullDone, Exists
  <1>8. Books(s)'
    <2>1. ASSUME NEW r \in Rows, holder[r] = s PROVE Booking(s, r)'
      BY <2>1, <1>3, <1>6, BookingStays DEF ReportInv, Reports, Books
    <2> QED
      BY <2>1, <1>3, <1>6 DEF Books
  <1> QED
    BY <1>3, <1>4, <1>5, <1>7, <1>8, ReportsKept DEF Reports

LEMMA AtTargetReports ==
  ASSUME ReportInv, NEW s \in Syncs, AtTarget(s)
  PROVE  ReportInv'
  <1>1. s \in Sessions /\ TablesInv /\ todo[s] \in Seq(Movement)
    BY SyncAssumption DEF ReportInv, TablesInv, TypeOK
  <1>2. /\ job' = [job EXCEPT ![s] = job[s]] /\ todo' = [todo EXCEPT ![s] = todo[s]]
        /\ job[s] \in {"none", "movement", "transfer", "order", "sync"}
        /\ pc' = [pc EXCEPT ![s] = "plan"]
        /\ UNCHANGED <<levels, journal, outbox, nextSeq, holder, draft, pending, seen>>
        /\ UNCHANGED <<job, products>>
        /\ next' = [next EXCEPT ![s] = @ + 1] /\ cached' = [cached EXCEPT ![s] = NewLevel]
    BY <1>1 DEF AtTarget, NextProduct, stockVars, TablesInv, TypeOK
  <1>3. TablesInv' /\ \A t \in Sessions \ {s} : Aside(t)
    BY <1>1, <1>2, TablesStay
  <1>4. PullTypes'
    BY <1>2, NewRows DEF ReportInv, PullTypes
  <1>5. /\ pc'[s] = "plan" /\ pc[s] = "level" /\ ~PullDone(s) /\ job[s] # "none"
        /\ next'[s] = next[s] + 1 /\ cached'[s] = NewLevel
    BY <1>1, <1>2 DEF AtTarget, ReportInv, PullTypes, Reports, Computes, Books,
                      TablesInv, TypeOK
  <1>6. Computes(s)' /\ Remembers(s)'
    BY <1>5 DEF Computes, Remembers, NewLevel
  <1>7. TargetRow(s) \in Rows
    BY <1>5, AtProduct
  <1>8. ASSUME NEW r \in Rows, holder[r] = s PROVE Booking(s, r)'
    <2>1. Booking(s, r)
      BY <1>5, <1>8 DEF ReportInv, Reports, Books
    <2>2. CASE r = TargetRow(s)
      <3>1. Exists(draft[r].level) /\ View(s, r) = draft[r].level
        BY <1>8, <2>1 DEF Booking, View
      <3>2. draft[r].level.qty = Current(s).stock
        BY <2>2, <3>1 DEF AtTarget, InPlace
      <3> QED
        BY <1>2, <1>5, <2>2, <3>1, <3>2, BookingNow
    <2>3. CASE r # TargetRow(s)
      BY <1>2, <1>5, <2>1, <2>3, BookingGoesOn
    <2> QED
      BY <2>2, <2>3
  <1>9. Books(s)'
    BY <1>2, <1>5, <1>8 DEF Books
  <1> QED
    BY <1>2, <1>3, <1>4, <1>6, <1>9, ReportsKept DEF Reports, ReportInv, PullTypes

LEMMA GetInventoryReports ==
  ASSUME ReportInv, NEW s \in Syncs, GetInventory(s)
  PROVE  ReportInv'
  <1> DEFINE r == TargetRow(s)
             m == Adjustment(s, View(s, r))
  <1>1. s \in Sessions /\ TablesInv /\ job[s] \in {"none", "movement", "transfer", "order", "sync"}
    BY SyncAssumption DEF ReportInv, TablesInv, TypeOK
  <1>2. pc[s] = "level" /\ ~PullDone(s) /\ ~InPlace(s)
    BY DEF GetInventory, ReportInv, Reports, Computes
  <1>3. r \in Rows /\ Current(s).stock \in Int
    BY <1>2, AtProduct
  <1>4. View(s, r) \in Level /\ (Exists(View(s, r)) \/ View(s, r).qty = 0)
    BY <1>1, <1>3 DEF View, TablesInv, TypeOK, RowsBorn
  <1>5. Current(s).stock # View(s, r).qty
    BY <1>2, <1>3, <1>4 DEF InPlace
  <1>6. m \in Movement
    <2>1. View(s, r).qty \in Int
      BY <1>4 DEF Level
    <2>2. ~Exists(View(s, r)) => Current(s).stock - View(s, r).qty > 0
      BY <1>2, <1>3, <1>4 DEF InPlace
    <2> QED
      BY <1>3, <2>1, <2>2 DEF Adjustment, Movement, Kinds
  <1> HIDE DEF m
  <1>7. <<m>> \in Seq(Movement) /\ <<m>> # <<>>
    BY <1>6
  <1>8. /\ job' = [job EXCEPT ![s] = job[s]] /\ todo' = [todo EXCEPT ![s] = <<m>>]
        /\ pc' = [pc EXCEPT ![s] = "select"]
        /\ UNCHANGED <<levels, journal, outbox, nextSeq, holder, draft, pending, seen>>
        /\ UNCHANGED <<job, products, next>>
        /\ cached' = [cached EXCEPT ![s] = View(s, r)]
    BY <1>1 DEF GetInventory, m, stockVars, TablesInv, TypeOK
  <1>9. TablesInv' /\ \A t \in Sessions \ {s} : Aside(t)
    BY <1>1, <1>7, <1>8, TablesStay
  <1>10. PullTypes'
    BY <1>4, <1>8 DEF ReportInv, PullTypes
  <1>11. pc'[s] = "select" /\ cached'[s] = View(s, r) /\ todo'[s] = <<m>> /\ job[s] # "none"
    BY <1>1, <1>2, <1>8 DEF ReportInv, PullTypes, Reports, Books, TablesInv, TypeOK
  <1>12. /\ Current(s)' = Current(s) /\ TargetRow(s)' = r /\ PullDone(s)' = PullDone(s)
         /\ \A level : Adjustment(s, level)' = Adjustment(s, level)
         /\ View(s, r)' = View(s, r)
    BY <1>8 DEF Current, TargetRow, PullDone, Adjustment, Exists, View
  <1>13. Computes(s)'
    <2>1. Adjustment(s, cached[s])' = m
      BY <1>8, <1>11 DEF Adjustment, m, Current, TargetRow, Exists
    <2> QED
      BY <1>2, <1>5, <1>11, <1>12, <2>1 DEF Computes
  <1>14. ASSUME NEW x \in Rows, holder[x] = s PROVE Booking(s, x) /\ Booking(s, x)'
    <2>1. Booking(s, x)
      BY <1>2, <1>14 DEF ReportInv, Reports, Books
    <2> QED
      BY <2>1, <1>8, BookingStays
  <1>15. ~Exists(View(s, r)) => holder[r] # s /\ Stock[r] = 0
    BY <1>1, <1>3, <1>14 DEF View, Booking, TablesInv, RowsBorn
  <1>16. Remembers(s)'
    BY <1>3, <1>4, <1>8, <1>11, <1>12, <1>15 DEF Remembers, Exists
  <1>17. Books(s)'
    BY <1>8, <1>11, <1>14 DEF Books
  <1> QED
    BY <1>8, <1>9, <1>10, <1>13, <1>16, <1>17, ReportsKept DEF Reports, ReportInv, PullTypes

LEMMA LoadReports ==
  ASSUME ReportInv, NEW s \in Syncs, pc[s] \in {"select", "insert"},
         NEW x \in Level, Lock(s, TargetRow(s)), Owed(TargetRow(s)) => x.qty = cached[s].qty,
         seen' = [seen EXCEPT ![s] = x], pc' = [pc EXCEPT ![s] = "apply"],
         UNCHANGED <<levels, journal, outbox, nextSeq, pending, job, todo, syncVars>>
  PROVE  ReportInv'
  <1> DEFINE r == TargetRow(s)
  <1>1. /\ s \in Sessions /\ r \in Rows /\ todo[s] # <<>> /\ ~PullDone(s) /\ TablesInv
        /\ TargetRow(s)' = r
    BY AtMovement DEF ReportInv, TargetRow, Current, syncVars
  <1>2. PICK y \in Rows : y = r
    BY <1>1
  <1>3. /\ TablesInv' /\ (\A t \in Sessions \ {s} : Aside(t)) /\ holder'[y] = s
        /\ \A z \in Rows \ {y} : holder'[z] = holder[z] /\ draft'[z] = draft[z]
    BY <1>1, <1>2, TablesLock
  <1>4. PullTypes' /\ UNCHANGED <<levels, job, todo, products, next, cached>>
    BY DEF ReportInv, PullTypes, syncVars
  <1>5. pc'[s] = "apply" /\ seen'[s] = x /\ job[s] # "none"
    BY <1>1 DEF ReportInv, Reports, Books, TablesInv, TypeOK
  <1>6. Computes(s)'
    BY <1>1, <1>4, <1>5
       DEF ReportInv, Reports, Computes, PullDone, Current, Adjustment, TargetRow, Exists
  <1>7. Remembers(s)'
    BY <1>1, <1>2, <1>3, <1>4, <1>5 DEF ReportInv, Reports, Remembers, Owed, Exists
  <1>8. ASSUME NEW z \in Rows, holder'[z] = s, z # y PROVE Booking(s, z)'
    BY <1>2, <1>3, <1>4, <1>8, BookingStays DEF ReportInv, Reports, Books
  <1>9. Books(s)'
    BY <1>1, <1>2, <1>4, <1>5, <1>8 DEF Books
  <1> QED
    BY <1>3, <1>4, <1>6, <1>7, <1>9, ReportsKept DEF Reports

LEMMA SelectReports ==
  ASSUME ReportInv, NEW s \in Syncs, SelectCached(s)
  PROVE  ReportInv'
  <1> DEFINE r == TargetRow(s)
  <1>1. /\ pc[s] = "select" /\ Exists(View(s, r)) /\ Lock(s, r)
        /\ seen' = [seen EXCEPT ![s] = ObjectOf(s, r)] /\ pc' = [pc EXCEPT ![s] = "apply"]
        /\ UNCHANGED <<levels, journal, outbox, nextSeq, pending, job, todo, syncVars>>
    BY AtMovement DEF SelectCached
  <1>2. r \in Rows
    BY <1>1, AtMovement
  <1>3. ObjectOf(s, r) \in Level
    BY <1>2 DEF ObjectOf, View, ReportInv, PullTypes, TablesInv, TypeOK
  <1>4. Owed(r) => ObjectOf(s, r).qty = cached[s].qty
    BY <1>1, <1>2 DEF ObjectOf, View, Owed, ReportInv, Reports, Remembers
  <1> QED
    BY <1>1, <1>3, <1>4, LoadReports

LEMMA InsertReports ==
  ASSUME ReportInv, NEW s \in Syncs, InsertRow(s), UNCHANGED syncVars
  PROVE  ReportInv'
  <1> DEFINE r == TargetRow(s)
  <1>1. /\ pc[s] = "insert" /\ ~Exists(levels[r]) /\ Lock(s, r)
        /\ seen' = [seen EXCEPT ![s] = View(s, r)] /\ pc' = [pc EXCEPT ![s] = "apply"]
        /\ UNCHANGED <<levels, journal, outbox, nextSeq, pending, job, todo, syncVars>>
    BY AtMovement DEF InsertRow
  <1>2. r \in Rows
    BY <1>1, AtMovement
  <1>3. View(s, r) \in Level
    BY <1>2 DEF View, ReportInv, TablesInv, TypeOK
  <1>4. View(s, r).qty = cached[s].qty
    BY <1>1, <1>2 DEF View, ReportInv, TablesInv, RowsBorn, Reports, Remembers
  <1> QED
    BY <1>1, <1>3, <1>4, LoadReports

LEMMA FindNoRowReports ==
  ASSUME ReportInv, NEW s \in Syncs, FindNoRow(s), UNCHANGED syncVars
  PROVE  ReportInv'
  <1> DEFINE r == TargetRow(s)
  <1>1. /\ pc[s] = "select" /\ ~Exists(View(s, r)) /\ pc' = [pc EXCEPT ![s] = "insert"]
        /\ UNCHANGED <<levels, journal, outbox, nextSeq, holder, draft, pending, job, todo, seen>>
        /\ UNCHANGED <<products, next, cached>>
    BY AtMovement DEF FindNoRow, stockVars, syncVars
  <1>2. s \in Sessions /\ r \in Rows /\ ~PullDone(s)
    BY <1>1, AtMovement
  <1>3. TablesInv' /\ \A t \in Sessions \ {s} : Aside(t)
    BY <1>2, TablesFindNoRow DEF ReportInv
  <1>4. PullTypes' /\ pc'[s] = "insert" /\ job[s] # "none"
    BY <1>1, <1>2 DEF ReportInv, PullTypes, Reports, Books, TablesInv, TypeOK
  <1>5. Computes(s)'
    BY <1>1, <1>2, <1>4
       DEF ReportInv, Reports, Computes, PullDone, Current, Adjustment, TargetRow, Exists
  <1>6. TargetRow(s)' = r
    BY <1>1 DEF TargetRow, Current
  <1>7. Remembers(s)'
    BY <1>1, <1>2, <1>4, <1>6 DEF ReportInv, Reports, Remembers, Exists
  <1>8. ASSUME NEW z \in Rows, holder[z] = s PROVE Booking(s, z)'
    BY <1>1, <1>8, BookingStays DEF ReportInv, Reports, Books
  <1>9. Books(s)'
    BY <1>1, <1>4, <1>8 DEF Books
  <1> QED
    BY <1>1, <1>3, <1>4, <1>5, <1>7, <1>9, ReportsKept DEF Reports

LEMMA ApplyReports ==
  ASSUME ReportInv, NEW s \in Syncs, ApplySync(s)
  PROVE  ReportInv'
  <1> DEFINE r == TargetRow(s)
             m == Head(todo[s])
  <1>0. pc[s] = "apply"
    BY DEF ApplySync, ApplyMovement
  <1>1. /\ ~PullDone(s) /\ r \in Rows /\ s \in Sessions /\ m.row = r /\ Len(todo[s]) = 1
        /\ m.kind \in {"in", "adjust"} /\ m.qty = Current(s).stock - cached[s].qty
        /\ m.qty # 0 /\ Current(s).stock \in Int /\ cached[s].qty \in Int
    BY <1>0, AtMovement
  <1>2. /\ TablesInv' /\ (\A t \in Sessions \ {s} : Aside(t)) /\ Exists(Stored(s, m))
        /\ levels' = levels /\ holder'[r] = s /\ draft'[r].level = Stored(s, m)
        /\ \A z \in Rows \ {r} : holder'[z] = holder[z] /\ draft'[z] = draft[z]
    BY <1>1, TablesApply DEF ReportInv, ApplySync
  <1>3. Owed(r) => Stored(s, m).qty = Current(s).stock
    <2>1. Owed(r) => seen[s].qty = cached[s].qty
      BY <1>0 DEF ReportInv, Reports, Remembers
    <2>2. QtyDelta(m) = m.qty
      BY <1>1 DEF QtyDelta
    <2>3. Stored(s, m).qty = seen[s].qty + m.qty
      BY <1>1, <2>2 DEF Stored
    <2> QED
      BY <1>1, <2>1, <2>3
  <1> HIDE DEF m
  <1>4. /\ next' = [next EXCEPT ![s] = @ + 1] /\ cached' = [cached EXCEPT ![s] = NewLevel]
        /\ UNCHANGED <<products, job>>
    BY DEF ApplySync, ApplyMovement, NextProduct
  <1>5. PullTypes' /\ next'[s] = next[s] + 1 /\ cached'[s] = NewLevel /\ job[s] # "none"
    BY <1>0, <1>4, NewRows DEF ReportInv, PullTypes, Reports, Books
  <1>6. pc'[s] \in {"plan", "commit"}
    BY <1>1 DEF ApplySync, ApplyMovement, AfterMovement, ReportInv, TablesInv, TypeOK
  <1>7. Computes(s)' /\ Remembers(s)'
    BY <1>5, <1>6 DEF Computes, Remembers, NewLevel
  <1>8. ASSUME NEW z \in Rows, holder'[z] = s PROVE Booking(s, z)'
    <2>1. CASE z = r
      BY <1>1, <1>2, <1>3, <1>4, <1>5, <2>1, BookingNow
    <2>2. CASE z # r
      <3>1. Booking(s, z)
        BY <1>2, <1>8, <2>2 DEF ReportInv, Reports, Books
      <3> QED
        BY <1>1, <1>2, <1>4, <1>5, <2>2, <3>1, BookingGoesOn
    <2> QED
      BY <2>1, <2>2
  <1>9. Books(s)'
    BY <1>4, <1>5, <1>8 DEF Books
  <1> QED
    BY <1>2, <1>4, <1>5, <1>7, <1>9, ReportsKept DEF Reports, ReportInv, PullTypes

LEMMA FinishReports ==
  ASSUME ReportInv, NEW s \in Syncs, FinishSync(s),
         Publish(s) \/ UNCHANGED <<levels, journal, outbox>>
  PROVE  ReportInv'
  <1>1. s \in Sessions
    BY SyncAssumption
  <1>2. /\ Finish(s) /\ UNCHANGED nextSeq
        /\ products' = [products EXCEPT ![s] = <<>>] /\ next' = [next EXCEPT ![s] = 1]
        /\ cached' = [cached EXCEPT ![s] = NewLevel]
    BY DEF FinishSync
  <1>3. /\ TablesInv' /\ \A t \in Sessions \ {s} : Aside(t)
        /\ pc'[s] = "idle" /\ \A r \in Rows : holder'[r] # s
    BY <1>1, <1>2, TablesFinish DEF ReportInv
  <1>4. PullTypes'
    <2>1. <<>> \in Seq(Product)
      OBVIOUS
    <2> QED
      BY <1>2, <2>1, NewRows DEF ReportInv, PullTypes
  <1>5. cached'[s] = NewLevel
    BY <1>2 DEF ReportInv, PullTypes
  <1>6. Reports(s)'
    BY <1>3, <1>5 DEF Reports, Computes, Remembers, Books, NewLevel
  <1> QED
    BY <1>2, <1>3, <1>4, <1>6, ReportsKept DEF ReportInv, PullTypes

(* Every step keeps it.                                                    *)
LEMMA SyncStepReports ==
  ASSUME ReportInv, NEW s \in Syncs, SyncStep(s)
  PROVE  ReportInv'
  <1>1. CASE CommitSync(s) \/ FailSync(s) \/ AbortSyncDeadlock(s) \/ CrashSync(s)
    BY <1>1, FinishReports DEF CommitSync, FailSync, AbortSyncDeadlock, CrashSync, RollBackSync
  <1> QED
    BY <1>1, PullReports, FindVariantReports, AtTargetReports, GetInventoryReports,
       SelectReports, InsertReports, FindNoRowReports, ApplyReports
       DEF SyncStep, SyncProgress, SyncMovement

LEMMA ApiCallerReports ==
  ASSUME ReportInv, NEW s \in Sessions \ Syncs, ApiCaller(s)
  PROVE  ReportInv'
  <1>1. TablesInv' /\ \A t \in Sessions \ {s} : Aside(t)
    BY TablesCaller DEF ReportInv, ApiCaller
  <1>2. UNCHANGED <<products, next, cached>>
    BY DEF ApiCaller, syncVars
  <1>3. ASSUME NEW t \in Syncs PROVE Reports(t)'
    BY <1>1, <1>2, AsideReports, SyncAssumption
  <1> QED
    BY <1>1, <1>2, <1>3 DEF ReportInv, PullTypes

LEMMA NobodyReports ==
  ASSUME ReportInv, UNCHANGED <<vars, products, next, cached>>
  PROVE  ReportInv'
  <1>1. TypeOK'
    BY DEF ReportInv, TablesInv, TypeOK, vars, stockVars, sessionVars
  <1>2. Busy' /\ RowsBorn'
    BY DEF ReportInv, TablesInv, Busy, RowsBorn, vars, stockVars, sessionVars
  <1>3. ASSUME NEW t \in Syncs PROVE Reports(t)'
    <2>1. Aside(t)
      BY DEF Aside, vars, stockVars, sessionVars
    <2> QED
      BY <2>1, AsideReports
  <1> QED
    BY <1>1, <1>2, <1>3 DEF ReportInv, TablesInv, PullTypes

(* ReportInv holds throughout: the tables are well-typed, and every pull   *)
(* computes, remembers and books as said above.                            *)
THEOREM ReportInvariant == SyncSpec => []ReportInv
  <1>1. ReportInv /\ [SyncNext]_allSyncVars => ReportInv'
    <2> SUFFICES ASSUME ReportInv, [SyncNext]_allSyncVars PROVE ReportInv'
      OBVIOUS
    <2>1. CASE \E v \in Variants : AddVariant(v)
      BY <2>1, NobodyReports DEF AddVariant
    <2>2. CASE UNCHANGED allSyncVars
      BY <2>2, NobodyReports DEF allSyncVars, syncVars
    <2> QED
      BY <2>1, <2>2, SyncStepReports, ApiCallerReports DEF SyncNext
  <1> QED
    BY InitReports, <1>1, PTL DEF SyncSpec

(* A pull that commits leaves the rows it has booked at the stock the POS  *)
(* reported last, whatever the other sessions did in between.              *)
THEOREM PullsStoreTheReport == SyncSpec => SyncStoresReport
  <1> DEFINE Stores ==
        \A s \in Syncs :
          job[s] = "sync" /\ job'[s] = "none" /\ outbox' # outbox
            => \A i \in DOMAIN products[s] :
                 LET r == <<products[s][i].sku, Target>> IN
                   /\ holder[r] = s /\ LastReport(s, i)
                   /\ Stock[r] # 0 \/ ~Exists(levels[r])
                   => levels'[r].qty = products[s][i].stock
  <1>1. ASSUME PullInv, ReportInv, [SyncNext]_allSyncVars PROVE Stores
    <2> SUFFICES ASSUME NEW s \in Syncs, job[s] = "sync", job'[s] = "none", outbox' # outbox,
                        NEW i \in DOMAIN products[s], NEW r, r = <<products[s][i].sku, Target>>,
                        holder[r] = s, LastReport(s, i), Stock[r] # 0 \/ ~Exists(levels[r])
                 PROVE  levels'[r].qty = products[s][i].stock
      OBVIOUS
    <2>1. SyncStep(s)
      BY <1>1, PullEndsItself
    <2>2. CommitSync(s)
      BY <2>1 DEF SyncStep, SyncProgress, SyncMovement, Pull, FindVariant, CreateVariant,
         AtTarget, GetInventory, SelectCached, FindNoRow, InsertRow, ApplySync,
         ApplyMovement, CommitSync, FailSync, AbortSyncDeadlock, CrashSync,
         RollBackSync, stockVars
    <2>3. pc[s] = "plan" /\ PullDone(s) /\ Publish(s)
      BY <2>2 DEF CommitSync
    <2>4. products[s] \in Seq(Product) /\ next[s] \in Nat
      BY <1>1 DEF ReportInv, PullTypes
    <2>5. DOMAIN products[s] = 1 .. Len(products[s]) /\ Len(products[s]) \in Nat
          /\ products[s][i] \in Product
      BY <2>4
    <2>6. r \in Rows
      BY <2>5, SyncAssumption DEF Product, Rows
    <2>7. PICK j \in DOMAIN products[s] :
            LastThrough(s, j, r) /\ (Owed(r) => draft[r].level.qty = products[s][j].stock)
      BY <1>1, <2>3, <2>6 DEF ReportInv, Reports, Books, Booking
    <2>8. j = i
      <3>1. products[s][j].sku = products[s][i].sku
        BY <2>7 DEF LastThrough
      <3>2. j <= i
        BY <3>1 DEF LastReport
      <3>3. i < next[s]
        BY <2>3, <2>4, <2>5 DEF PullDone
      <3>4. i <= j
        BY <2>7, <3>1, <3>3 DEF LastThrough
      <3> QED
        BY <2>5, <3>2, <3>4
    <2> QED
      BY <2>3, <2>6, <2>7, <2>8 DEF Publish, Owed
  <1> QED
    BY PullInvariant, ReportInvariant, <1>1, PTL DEF SyncSpec, SyncStoresReport

-----------------------------------------------------------------------------
(***************************************************************************)
(* Folds.  The library's folds are recursive functions over the subsets of *)
(* a finite set; that there is one, and what it yields, is shown by the    *)
(* least number of elements for which it would fail.                       *)
(***************************************************************************)
LEMMA LeastNumber ==
  ASSUME NEW B \in SUBSET Nat, B # {}
  PROVE  \E m \in B : \A k \in B : m <= k
  <1> DEFINE R == {ss \in Nat \X Nat : ss[1] < ss[2]}
  <1>1. IsWellFoundedOn(R, Nat)
    BY NatLessThanWellFounded DEF OpToRel
  <1> HIDE DEF R
  <1>2. PICK m \in B : \A k \in B : ~ (<<k, m>> \in R)
    BY <1>1, WFMin
  <1>3. ASSUME NEW k \in B PROVE m <= k
    <2>1. k \in Nat /\ m \in Nat /\ <<k, m>> \notin R
      BY <1>2
    <2>2. ~ (k < m)
      BY <2>1 DEF R
    <2> QED
      BY <2>1, <2>2
  <1> QED
    BY <1>3

(* What holds of a set whenever it holds of the set less any one element,  *)
(* holds of every finite set.                                              *)
LEMMA SubsetInduction ==
  ASSUME NEW S, IsFiniteSet(S), NEW G,
         \A T \in SUBSET S : (\A x \in T : T \ {x} \in G) => T \in G
  PROVE  S \in G
  <1> DEFINE Bad == {n \in Nat : \E T \in SUBSET S : T \notin G /\ Cardinality(T) = n}
  <1>1. \A T \in SUBSET S : IsFiniteSet(T) /\ Cardinality(T) \in Nat
    BY FS_Subset, FS_CardinalityType
  <1>2. Bad = {}
    <2> SUFFICES ASSUME Bad # {} PROVE FALSE
      OBVIOUS
    <2>1. PICK m \in Bad : \A k \in Bad : m <= k
      BY LeastNumber
    <2>2. PICK T \in SUBSET S : T \notin G /\ Cardinality(T) = m
      BY <2>1
    <2>3. PICK x \in T : T \ {x} \notin G
      BY <2>2
    <2>4. Cardinality(T \ {x}) = m - 1 /\ T \ {x} \in SUBSET S
      BY <2>2, <1>1, FS_RemoveElement
    <2>5. m - 1 \in Bad
      BY <2>3, <2>4, <1>1
    <2> QED
      BY <2>1, <2>5
  <1> QED
    BY <1>1, <1>2

(* A fold from "base" that takes pick[T] next and goes on with "step".     *)
Folding(S, base, pick, step, g) ==
  g = [T \in SUBSET S |-> IF T = {} THEN base ELSE step[<<pick[T], g[T \ {pick[T]}]>>]]

(* Such a fold exists over every finite set.                               *)
LEMMA FoldExists ==
  ASSUME NEW S, IsFiniteSet(S), NEW V, NEW base \in V, NEW pick, NEW step \in [S \X V -> V],
         \A T \in SUBSET S : T # {} => pick[T] \in T
  PROVE  \E g \in [SUBSET S -> V] : Folding(S, base, pick, step, g)
  <1> DEFINE Yield(g, T) == IF T = {} THEN base ELSE step[<<pick[T], g[T \ {pick[T]}]>>]
             Up(n, g) == \A T \in SUBSET S : Cardinality(T) <= n => g[T] = Yield(g, T)
             Good(n) == \E g \in [SUBSET S -> V] : Up(n, g)
  <1>0. \A T \in SUBSET S :
          /\ Cardinality(T) \in Nat
          /\ T # {} => /\ pick[T] \in T /\ T \ {pick[T]} \in SUBSET S
                       /\ Cardinality(T \ {pick[T]}) = Cardinality(T) - 1
                       /\ Cardinality(T) # 0
    <2> TAKE T \in SUBSET S
    <2>1. IsFiniteSet(T) /\ Cardinality(T) \in Nat
      BY FS_Subset, FS_CardinalityType
    <2>2. T # {} => pick[T] \in T /\ T \ {pick[T]} \in SUBSET S
      OBVIOUS
    <2> QED
      BY <2>1, <2>2, FS_RemoveElement, FS_EmptySet
  <1>1. \A g \in [SUBSET S -> V] : \A T \in SUBSET S : Yield(g, T) \in V
    <2> TAKE g \in [SUBSET S -> V]
    <2> TAKE T \in SUBSET S
    <2>1. CASE T # {}
      <3>1. g[T \ {pick[T]}] \in V /\ pick[T] \in S
        BY <2>1, <1>0
      <3>2. <<pick[T], g[T \ {pick[T]}]>> \in S \X V
        BY <3>1
      <3> QED
        BY <2>1, <3>2
    <2> QED
      BY <2>1
  <1>2. Good(0)
    <2> DEFINE g == [T \in SUBSET S |-> base]
    <2>1. g \in [SUBSET S -> V]
      OBVIOUS
    <2>2. ASSUME NEW T \in SUBSET S, Cardinality(T) <= 0 PROVE T = {}
      <3>1. Cardinality(T) \in Nat /\ (T # {} => Cardinality(T) # 0)
        BY <1>0
      <3> QED
        BY <2>2, <3>1
    <2> QED
      BY <2>1, <2>2
  <1> HIDE DEF Yield
  <1>3. ASSUME NEW n \in Nat, Good(n) PROVE Good(n + 1)
    <2>1. PICK g \in [SUBSET S -> V] : Up(n, g)
      BY <1>3
    <2> DEFINE h == [T \in SUBSET S |-> Yield(g, T)]
    <2>2. h \in [SUBSET S -> V]
      BY <1>1
    <2>3. ASSUME NEW T \in SUBSET S, Cardinality(T) <= n + 1
          PROVE  h[T] = Yield(h, T)
      <3>1. h[T] = Yield(g, T)
        OBVIOUS
      <3>2. ASSUME T # {} PROVE h[T \ {pick[T]}] = g[T \ {pick[T]}]
        <4>1. T \ {pick[T]} \in SUBSET S /\ Cardinality(T \ {pick[T]}) <= n
          BY <1>0, <2>3, <3>2
        <4>2. g[T \ {pick[T]}] = Yield(g, T \ {pick[T]})
          BY <2>1, <4>1
        <4>3. h[T \ {pick[T]}] = Yield(g, T \ {pick[T]})
          BY <4>1
        <4> QED
          BY <4>2, <4>3
      <3> HIDE DEF h
      <3> QED
        BY <3>1, <3>2 DEF Yield
    <2> HIDE DEF h
    <2> QED
      BY <2>2, <2>3
  <1> HIDE DEF Good
  <1> DEFINE Bad == {n \in Nat : ~ Good(n)}
  <1>4. Bad = {}
    <2> SUFFICES ASSUME Bad # {} PROVE FALSE
      OBVIOUS
    <2>1. PICK m \in Bad : \A k \in Bad : m <= k
      BY LeastNumber
    <2>2. m \in Nat /\ m # 0 /\ ~ Good(m)
      BY <2>1, <1>2
    <2>3. m - 1 \in Nat /\ m - 1 \notin Bad
      BY <2>1, <2>2
    <2>4. Good(m - 1)
      BY <2>3
    <2>5. Good((m - 1) + 1)
      BY <2>3, <2>4, <1>3
    <2> QED
      BY <2>2, <2>5
  <1>5. Good(Cardinality(S))
    BY <1>0, <1>4
  <1>6. PICK g \in [SUBSET S -> V] : Up(Cardinality(S), g)
    BY <1>5 DEF Good
  <1>7. \A T \in SUBSET S : Cardinality(T) <= Cardinality(S)
    BY FS_Subset
  <1>8. \A T \in SUBSET S : g[T] = Yield(g, T)
    BY <1>6, <1>7
  <1>9. g = [T \in SUBSET S |-> Yield(g, T)]
    BY <1>8
  <1> QED
    BY <1>9 DEF Folding, Yield

-----------------------------------------------------------------------------
(***************************************************************************)
(* Sums over a finite set of natural numbers.                              *)
(***************************************************************************)
One(T) == CHOOSE x \in T : TRUE

(* The sums of f over the subsets of S.                                    *)
Summing(S, f, g) ==
  /\ g[S] = SumFunctionOnSet(f, S)
  /\ \A T \in SUBSET S : g[T] = IF T = {} THEN 0 ELSE f[One(T)] + g[T \ {One(T)}]

LEMMA SumIsFold ==
  ASSUME NEW f, NEW S
  PROVE  SumFunctionOnSet(f, S) =
           (CHOOSE g : g = [T \in SUBSET S |->
                              IF T = {} THEN 0 ELSE f[One(T)] + g[T \ {One(T)}]])[S]
  BY DEF SumFunctionOnSet, FoldFunctionOnSet, MapThenFoldSet, One

(* There are such sums over every finite set.                              *)
LEMMA SumExists ==
  ASSUME NEW S, IsFiniteSet(S), NEW f, \A x \in S : f[x] \in Nat
  PROVE  \E g \in [SUBSET S -> Nat] : Summing(S, f, g)
  <1> DEFINE pick == [T \in SUBSET S |-> One(T)]
             step == [p \in S \X Nat |-> f[p[1]] + p[2]]
             Sums(g) == g = [T \in SUBSET S |->
                               IF T = {} THEN 0 ELSE f[One(T)] + g[T \ {One(T)}]]
             it == CHOOSE g : Sums(g)
  <1>1. \A T \in SUBSET S : T # {} => One(T) \in T /\ pick[T] = One(T)
    BY DEF One
  <1>2. step \in [S \X Nat -> Nat]
    <2>1. ASSUME NEW p \in S \X Nat PROVE f[p[1]] + p[2] \in Nat
      <3>1. p[1] \in S /\ p[2] \in Nat
        OBVIOUS
      <3>2. f[p[1]] \in Nat
        BY <3>1
      <3> QED
        BY <3>1, <3>2
    <2> QED
      BY <2>1
  <1>3. PICK h \in [SUBSET S -> Nat] : Folding(S, 0, pick, step, h)
    <2>1. \A T \in SUBSET S : T # {} => pick[T] \in T
      BY <1>1
    <2> HIDE DEF pick, step
    <2>2. 0 \in Nat
      OBVIOUS
    <2> QED
      BY <1>2, <2>1, <2>2, FoldExists
  <1>4. Sums(h)
    <2>1. ASSUME NEW T \in SUBSET S
          PROVE  h[T] = IF T = {} THEN 0 ELSE f[One(T)] + h[T \ {One(T)}]
      <3>1. h[T] = IF T = {} THEN 0 ELSE step[<<pick[T], h[T \ {pick[T]}]>>]
        <4> HIDE DEF pick, step
        <4>1. h = [U \in SUBSET S |-> IF U = {} THEN 0 ELSE step[<<pick[U], h[U \ {pick[U]}]>>]]
          BY <1>3 DEF Folding
        <4> DEFINE F == [U \in SUBSET S |-> IF U = {} THEN 0 ELSE step[<<pick[U], h[U \ {pick[U]}]>>]]
        <4>2. F[T] = IF T = {} THEN 0 ELSE step[<<pick[T], h[T \ {pick[T]}]>>]
          OBVIOUS
        <4> HIDE DEF F
        <4> QED
          BY <4>1, <4>2 DEF F
      <3>2. ASSUME T # {} PROVE step[<<pick[T], h[T \ {pick[T]}]>>] = f[One(T)] + h[T \ {One(T)}]
        <4>1. One(T) \in S /\ h[T \ {One(T)}] \in Nat /\ pick[T] = One(T)
          BY <1>1, <3>2
        <4>2. <<One(T), h[T \ {One(T)}]>> \in S \X Nat
          BY <4>1
        <4> QED
          BY <4>1, <4>2
      <3> HIDE DEF pick, step
      <3> QED
        BY <3>1, <3>2
    <2> HIDE DEF pick, step
    <2> QED
      BY <2>1
  <1> HIDE DEF Sums
  <1>5. Sums(it)
    BY <1>4
  <1>6. it[S] = SumFunctionOnSet(f, S)
    BY SumIsFold DEF Sums
  <1> HIDE DEF it
  <1>7. ASSUME NEW T \in SUBSET S
        PROVE  it[T] = IF T = {} THEN 0 ELSE f[One(T)] + it[T \ {One(T)}]
    <2> DEFINE F == [U \in SUBSET S |-> IF U = {} THEN 0 ELSE f[One(U)] + it[U \ {One(U)}]]
    <2>1. it = F
      BY <1>5 DEF Sums
    <2>2. F[T] = IF T = {} THEN 0 ELSE f[One(T)] + it[T \ {One(T)}]
      OBVIOUS
    <2> HIDE DEF F
    <2> QED
      BY <2>1, <2>2
  <1>8. \A U \in SUBSET S : it[U] \in Nat
    <2> DEFINE G == {T \in SUBSET S : it[T] \in Nat}
    <2>1. ASSUME NEW T \in SUBSET S, \A x \in T : T \ {x} \in G
          PROVE  T \in G
      <3>1. CASE T = {}
        <4>1. it[T] = IF T = {} THEN 0 ELSE f[One(T)] + it[T \ {One(T)}]
          BY <1>7
        <4>2. it[T] = 0
          BY <3>1, <4>1
        <4> QED
          BY <4>2
      <3>2. CASE T # {}
        <4>1. One(T) \in T /\ it[T \ {One(T)}] \in Nat /\ f[One(T)] \in Nat
          BY <3>2, <2>1, <1>1
        <4> QED
          BY <3>2, <4>1, <1>7
      <3> QED
        BY <3>1, <3>2
    <2> HIDE DEF G
    <2>2. ASSUME NEW U \in SUBSET S PROVE U \in G
      <3>1. IsFiniteSet(U)
        BY FS_Subset
      <3>2. \A T \in SUBSET U : (\A x \in T : T \ {x} \in G) => T \in G
        BY <2>1
      <3> QED
        BY <3>1, <3>2, SubsetInduction
    <2> QED
      BY <2>2 DEF G
  <1>9. it = [T \in SUBSET S |-> it[T]]
    BY <1>5 DEF Sums
  <1>10. it \in [SUBSET S -> Nat]
    BY <1>8, <1>9
  <1> QED
    BY <1>6, <1>7, <1>10 DEF Summing

(* A sum of natural numbers is one.                                        *)
LEMMA SumIsNat ==
  ASSUME NEW S, IsFiniteSet(S), NEW f \in [S -> Nat]
  PROVE  SumFunction(f) \in Nat
  <1>1. PICK g \in [SUBSET S -> Nat] : Summing(S, f, g)
    BY SumExists
  <1> QED
    BY <1>1 DEF SumFunction, Summing

(* Changing one summand changes the sum by as much.                        *)
LEMMA SumChanges ==
  ASSUME NEW S, IsFiniteSet(S), NEW f \in [S -> Nat], NEW h \in [S -> Nat],
         NEW x \in S, NEW a \in Int, h[x] = f[x] + a, \A y \in S \ {x} : h[y] = f[y]
  PROVE  SumFunction(h) = SumFunction(f) + a
  <1>0. \A y \in S : f[y] \in Nat /\ h[y] \in Nat
    OBVIOUS
  <1>1. PICK F \in [SUBSET S -> Nat] : Summing(S, f, F)
    BY <1>0, SumExists
  <1>2. PICK H \in [SUBSET S -> Nat] : Summing(S, h, H)
    BY <1>0, SumExists
  <1> DEFINE G == {T \in SUBSET S : H[T] = F[T] + (IF x \in T THEN a ELSE 0)}
  <1>3. ASSUME NEW T \in SUBSET S, \A y \in T : T \ {y} \in G
        PROVE  T \in G
    <2>1. /\ F[T] = IF T = {} THEN 0 ELSE f[One(T)] + F[T \ {One(T)}]
          /\ H[T] = IF T = {} THEN 0 ELSE h[One(T)] + H[T \ {One(T)}]
      BY <1>1, <1>2 DEF Summing
    <2>2. CASE T = {}
      BY <2>1, <2>2
    <2>3. CASE T # {}
      <3> DEFINE y == One(T)
                 R == T \ {y}
      <3>1. y \in T /\ R \in SUBSET S
        BY <2>3 DEF One
      <3>2. H[R] = F[R] + (IF x \in R THEN a ELSE 0)
        BY <1>3, <3>1
      <3>3. F[T] = f[y] + F[R] /\ H[T] = h[y] + H[R]
        BY <2>1, <2>3
      <3>4. f[y] \in Nat /\ h[y] \in Nat /\ F[R] \in Nat /\ H[R] \in Nat
        BY <3>1
      <3>5. x \in R <=> x \in T /\ x # y
        OBVIOUS
      <3> HIDE DEF y, R
      <3>6. CASE y = x
        <4>1. x \in T /\ x \notin R /\ h[y] = f[y] + a
          BY <3>1, <3>5, <3>6
        <4>2. H[T] = F[T] + a
          BY <4>1, <3>2, <3>3, <3>4
        <4> QED
          BY <4>1, <4>2
      <3>7. CASE y # x
        <4>1. h[y] = f[y] /\ (x \in R <=> x \in T)
          BY <3>1, <3>5, <3>7
        <4>2. H[T] = F[T] + (IF x \in T THEN a ELSE 0)
          BY <4>1, <3>2, <3>3, <3>4
        <4> QED
          BY <4>2
      <3> QED
        BY <3>6, <3>7
    <2> QED
      BY <2>2, <2>3
  <1> HIDE DEF G
  <1>4. S \in G
    BY <1>3, SubsetInduction
  <1>5. H[S] = F[S] + a
    BY <1>4 DEF G
  <1>6. DOMAIN f = S /\ DOMAIN h = S
    OBVIOUS
  <1> QED
    BY <1>1, <1>2, <1>5, <1>6 DEF SumFunction, Summing

(* A sum of zeros is zero.                                                 *)
LEMMA SumOfNothing ==
  ASSUME NEW S, IsFiniteSet(S)
  PROVE  SumFunction([x \in S |-> 0]) = 0
  <1> DEFINE f == [x \in S |-> 0]
  <1>0. \A y \in S : f[y] \in Nat
    OBVIOUS
  <1> HIDE DEF f
  <1>1. PICK F \in [SUBSET S -> Nat] : Summing(S, f, F)
    BY <1>0, SumExists
  <1> DEFINE G == {T \in SUBSET S : F[T] = 0}
  <1>2. ASSUME NEW T \in SUBSET S, \A y \in T : T \ {y} \in G
        PROVE  T \in G
    <2>1. F[T] = IF T = {} THEN 0 ELSE f[One(T)] + F[T \ {One(T)}]
      BY <1>1 DEF Summing
    <2>2. T # {} => One(T) \in T /\ f[One(T)] = 0 /\ F[T \ {One(T)}] = 0
      BY <1>2 DEF One, f
    <2>3. F[T] = 0
      BY <2>1, <2>2
    <2> QED
      BY <2>3
  <1> HIDE DEF G
  <1>3. S \in G
    BY <1>2, SubsetInduction
  <1>4. DOMAIN f = S
    BY DEF f
  <1>5. SumFunction(f) = 0
    BY <1>1, <1>3, <1>4 DEF SumFunction, Summing, G
  <1> QED
    BY <1>5 DEF f

(* The greatest of finitely many ids.                                      *)
LEMMA MaxExists ==
  ASSUME NEW S, IsFiniteSet(S), S \subseteq Nat, S # {}
  PROVE  Max(S) \in S
  <1> DEFINE G == {T \in SUBSET S : T = {} \/ \E m \in T : \A y \in T : y <= m}
  <1>1. ASSUME NEW T \in SUBSET S, \A x \in T : T \ {x} \in G
        PROVE  T \in G
    <2>1. CASE T = {}
      BY <2>1
    <2>2. CASE T # {}
      <3>1. PICK x \in T : TRUE
        BY <2>2
      <3>2. T \ {x} = {} \/ \E m \in T \ {x} : \A y \in T \ {x} : y <= m
        BY <1>1
      <3>3. x \in Nat
        BY <3>1
      <3>4. CASE T \ {x} = {}
        <4>1. \A y \in T : y <= x
          BY <3>3, <3>4
        <4> QED
          BY <4>1
      <3>5. ASSUME NEW m \in T \ {x}, \A y \in T \ {x} : y <= m
            PROVE  T \in G
        <4>1. m \in Nat /\ \A y \in T : y \in Nat
          OBVIOUS
        <4>2. CASE x <= m
          <5>1. \A y \in T : y <= m
            BY <3>5, <4>2
          <5> QED
            BY <5>1
        <4>3. CASE ~ (x <= m)
          <5>1. m <= x
            BY <4>1, <4>3, <3>3
          <5>2. ASSUME NEW y \in T PROVE y <= x
            <6>1. CASE y = x
              BY <6>1, <3>3
            <6>2. CASE y # x
              <7>1. y <= m
                BY <3>5, <6>2
              <7> QED
                BY <7>1, <5>1, <4>1, <3>3
            <6> QED
              BY <6>1, <6>2
          <5> QED
            BY <5>2
        <4> QED
          BY <4>2, <4>3
      <3> HIDE DEF G
      <3>6. CASE T \ {x} = {}
        BY <3>4, <3>6
      <3> QED
        BY <3>2, <3>4, <3>5
    <2> QED
      BY <2>1, <2>2
  <1> HIDE DEF G
  <1>2. S \in G
    BY <1>1, SubsetInduction
  <1>3. PICK m \in S : \A y \in S : y <= m
    BY <1>2 DEF G
  <1>4. \A y \in S : m >= y
    BY <1>3
  <1> QED
    BY <1>4 DEF Max

-----------------------------------------------------------------------------
(***************************************************************************)
(* The plan of a line.                                                     *)
(***************************************************************************)

(* Moves reserve, each on a row of its own.                                *)
Reserves(moves) ==
  /\ \A i \in 1 .. Len(moves) : moves[i].kind = "reserve" /\ moves[i].expected = NoLevel
  /\ \A i, j \in 1 .. Len(moves) : moves[i].row = moves[j].row => i = j

(* a units more of row r.                                                  *)
WithMore(units, r, a) == [units EXCEPT ![r] = @ + a]

(* What is taken of each row once the moves have been made.                *)
Completes(units, some, moves) ==
  \A r \in Rows :
    /\ \A i \in 1 .. Len(moves) : moves[i].row = r => units[r] = some[r] + moves[i].qty
    /\ (\A i \in 1 .. Len(moves) : moves[i].row # r) => units[r] = some[r]

APlan == [remaining : Int, moves : Seq(Movement)]

(* A plan over the warehouses "over": what it takes and what remains are   *)
(* the quantity together; a line that asks for nothing takes nothing.      *)
Planned(some, v, qty, over, plan) ==
  /\ plan \in APlan
  /\ Reserves(plan.moves)
  /\ \A i \in 1 .. Len(plan.moves) : \E w \in over : plan.moves[i].row = <<v, w>>
  /\ qty > 0 => plan.remaining >= 0
  /\ qty <= 0 => plan.remaining = qty
  /\ \E units \in [Rows -> Nat] :
       /\ Completes(units, some, plan.moves)
       /\ Summed(units, v) = Summed(some, v) + (qty - plan.remaining)
       /\ \A x \in Variants \ {v} : Summed(units, x) = Summed(some, x)

LEMMA SummedIsNat ==
  ASSUME NEW units \in [Rows -> Nat], NEW v \in Variants
  PROVE  Summed(units, v) \in Nat
  <1>1. [w \in Warehouses |-> units[<<v, w>>]] \in [Warehouses -> Nat]
    BY DEF Rows
  <1> QED
    BY <1>1, WarehouseAssumption, SumIsNat DEF Summed

(* One row more of a variant is that much more of the variant.             *)
LEMMA SummedChanges ==
  ASSUME NEW units \in [Rows -> Nat], NEW v \in Variants, NEW w \in Warehouses, NEW a \in Nat,
         NEW more, more = WithMore(units, <<v, w>>, a)
  PROVE  /\ more \in [Rows -> Nat]
         /\ Summed(more, v) = Summed(units, v) + a
         /\ \A x \in Variants \ {v} : Summed(more, x) = Summed(units, x)
  <1>1. <<v, w>> \in Rows
    BY DEF Rows
  <1>2. more \in [Rows -> Nat]
    BY <1>1 DEF WithMore
  <1>3. Summed(more, v) = Summed(units, v) + a
    <2> DEFINE f == [y \in Warehouses |-> units[<<v, y>>]]
               h == [y \in Warehouses |-> more[<<v, y>>]]
    <2>1. f \in [Warehouses -> Nat] /\ h \in [Warehouses -> Nat]
      BY <1>2 DEF Rows
    <2>2. h[w] = f[w] + a
      BY <1>1 DEF WithMore
    <2>3. ASSUME NEW y \in Warehouses \ {w} PROVE h[y] = f[y]
      <3>1. <<v, y>> \in Rows /\ <<v, y>> # <<v, w>>
        BY DEF Rows
      <3> QED
        BY <3>1 DEF WithMore
    <2> HIDE DEF f, h
    <2>4. SumFunction(h) = SumFunction(f) + a
      <3>1. IsFiniteSet(Warehouses) /\ a \in Int
        BY WarehouseAssumption
      <3>2. \A y \in Warehouses \ {w} : h[y] = f[y]
        BY <2>3
      <3> QED
        BY ONLY <2>1, <2>2, <3>1, <3>2, SumChanges, w \in Warehouses
    <2> QED
      BY <2>4 DEF Summed, f, h
  <1>4. ASSUME NEW x \in Variants \ {v} PROVE Summed(more, x) = Summed(units, x)
    <2>1. ASSUME NEW y \in Warehouses PROVE more[<<x, y>>] = units[<<x, y>>]
      <3>1. <<x, y>> \in Rows /\ <<x, y>> # <<v, w>>
        BY DEF Rows
      <3> QED
        BY <3>1 DEF WithMore
    <2>2. [y \in Warehouses |-> more[<<x, y>>]] = [y \in Warehouses |-> units[<<x, y>>]]
      BY <2>1
    <2> QED
      BY <2>2 DEF Summed
  <1> QED
    BY <1>2, <1>3, <1>4

(* What is free in a warehouse, and what a line takes of it.               *)
LEMMA FreeIsNat ==
  ASSUME StockInv, NEW s \in Sessions, NEW r \in Rows
  PROVE  Available(View(s, r)) \in Nat
  <1>1. View(s, r) \in Level /\ Sound(View(s, r))
    BY DEF StockInv, TypeOK, RowsSound, View
  <1> QED
    BY <1>1 DEF Level, Sound, Available

(* What Allocate does, case by case.                                       *)
LEMMA AllocateIs ==
  ASSUME StockInv, NEW s \in Sessions, NEW v \in Variants, NEW w \in Warehouses, NEW plan \in APlan
  PROVE  \/ Allocate(plan, s, v, w) = plan
         \/ \E take \in Nat \ {0} :
              /\ take <= plan.remaining
              /\ Allocate(plan, s, v, w) =
                   [remaining |-> plan.remaining - take,
                    moves     |-> Append(plan.moves,
                      [row |-> <<v, w>>, kind |-> "reserve", qty |-> take, expected |-> NoLevel])]
  <1> DEFINE free == Available(View(s, <<v, w>>))
             take == IF free < plan.remaining THEN free ELSE plan.remaining
  <1>1. <<v, w>> \in Rows
    BY DEF Rows
  <1>2. free \in Nat /\ plan.remaining \in Int
    BY <1>1, FreeIsNat DEF APlan
  <1> HIDE DEF free
  <1>3. take \in Int /\ take <= plan.remaining
    BY <1>2
  <1>4. Allocate(plan, s, v, w) =
          IF take <= 0 THEN plan
          ELSE [remaining |-> plan.remaining - take,
                moves     |-> Append(plan.moves,
                  [row |-> <<v, w>>, kind |-> "reserve", qty |-> take, expected |-> NoLevel])]
    BY DEF Allocate, free
  <1> HIDE DEF take
  <1>5. CASE take <= 0
    BY <1>4, <1>5
  <1>6. CASE ~ (take <= 0)
    <2>1. take \in Nat \ {0}
      BY <1>3, <1>6
    <2> QED
      BY <2>1, <1>3, <1>4, <1>6
  <1> QED
    BY <1>5, <1>6

LEMMA ReserveIsMovement ==
  ASSUME NEW v \in Variants, NEW w \in Warehouses, NEW take \in Nat \ {0}
  PROVE  [row |-> <<v, w>>, kind |-> "reserve", qty |-> take, expected |-> NoLevel] \in Movement
  BY DEF Movement, Rows, Kinds

(* One more warehouse keeps a plan sound for the warehouses gone through.  *)
LEMMA AllocateStep ==
  ASSUME StockInv, NEW s \in Sessions, NEW v \in Variants, NEW some \in [Rows -> Nat],
         NEW qty \in Int, NEW T \in SUBSET Warehouses, NEW w \in Warehouses \ T,
         NEW plan, Planned(some, v, qty, T, plan)
  PROVE  Planned(some, v, qty, T \cup {w}, Allocate(plan, s, v, w))
  <1> DEFINE old == plan.moves
  <1>0. plan \in APlan /\ old \in Seq(Movement) /\ plan.remaining \in Int
    BY DEF Planned, APlan
  <1>1. CASE Allocate(plan, s, v, w) = plan
    <2>1. \A i \in 1 .. Len(old) : \E x \in T \cup {w} : old[i].row = <<v, x>>
      BY DEF Planned
    <2> HIDE DEF old
    <2>2. Planned(some, v, qty, T \cup {w}, plan)
      BY <2>1 DEF Planned, old
    <2> QED
      BY <1>1, <2>2
  <1>2. ASSUME NEW take \in Nat \ {0}, take <= plan.remaining,
               NEW m, m = [row |-> <<v, w>>, kind |-> "reserve", qty |-> take, expected |-> NoLevel],
               NEW more, more = [remaining |-> plan.remaining - take, moves |-> Append(old, m)]
        PROVE  Planned(some, v, qty, T \cup {w}, more)
    <2>1. m \in Movement /\ <<v, w>> \in Rows
      BY <1>2, ReserveIsMovement DEF Rows
    <2>2. /\ m.row = <<v, w>> /\ m.kind = "reserve" /\ m.qty = take /\ m.expected = NoLevel
          /\ more.moves = Append(old, m) /\ more.remaining = plan.remaining - take
      BY <1>2
    <2> DEFINE new == Append(old, m)
               n == Len(old)
    <2>3. /\ new \in Seq(Movement) /\ n \in Nat /\ Len(new) = n + 1 /\ new[n + 1] = m
          /\ \A i \in 1 .. n : new[i] = old[i]
      BY <1>0, <2>1, AppendProperties
    <2>4. /\ \A i \in 1 .. n : \E x \in T : old[i].row = <<v, x>>
          /\ Reserves(old)
      BY DEF Planned
    <2> HIDE DEF new, n, old
    <2>5. \A i \in 1 .. n + 1 : (i \in 1 .. n /\ new[i] = old[i]) \/ (i = n + 1 /\ new[i] = m)
      BY <2>3
    <2>6. \A i \in 1 .. n : old[i].row # <<v, w>>
      BY <2>4
    <2>7. Reserves(new)
      <3>1. \A i \in 1 .. n : old[i].kind = "reserve" /\ old[i].expected = NoLevel
        BY <2>4 DEF Reserves, n
      <3>2. \A i, j \in 1 .. n : old[i].row = old[j].row => i = j
        BY <2>4 DEF Reserves, n
      <3>3. ASSUME NEW i \in 1 .. n + 1 PROVE new[i].kind = "reserve" /\ new[i].expected = NoLevel
        BY <2>2, <2>5, <3>1
      <3>4. ASSUME NEW i \in 1 .. n + 1, NEW j \in 1 .. n + 1, new[i].row = new[j].row
            PROVE  i = j
        BY <2>2, <2>5, <2>6, <3>2, <3>4
      <3> QED
        BY <2>3, <3>3, <3>4 DEF Reserves
    <2>8. \A i \in 1 .. n + 1 : \E x \in T \cup {w} : new[i].row = <<v, x>>
      BY <2>2, <2>4, <2>5 DEF n
    <2>9. more \in APlan
      BY <1>0, <1>2, <2>3 DEF APlan, new
    <2>10. qty > 0 /\ more.remaining >= 0
      <3>1. qty <= 0 => plan.remaining = qty
        BY DEF Planned
      <3> QED
        BY <1>0, <1>2, <2>2, <3>1
    <2>11. PICK units \in [Rows -> Nat] :
             /\ Completes(units, some, old)
             /\ Summed(units, v) = Summed(some, v) + (qty - plan.remaining)
             /\ \A x \in Variants \ {v} : Summed(units, x) = Summed(some, x)
      BY DEF Planned, old
    <2>20. PICK taking : taking = WithMore(units, <<v, w>>, take)
      OBVIOUS
    <2>12. /\ taking \in [Rows -> Nat]
           /\ Summed(taking, v) = Summed(units, v) + take
           /\ \A x \in Variants \ {v} : Summed(taking, x) = Summed(units, x)
      <3>1. w \in Warehouses /\ take \in Nat
        OBVIOUS
      <3> QED
        BY <2>20, <3>1, SummedChanges
    <2>13. Completes(taking, some, new)
      <3>1. units[<<v, w>>] = some[<<v, w>>]
        BY <2>1, <2>6, <2>11 DEF Completes, n
      <3>2. /\ taking[<<v, w>>] = some[<<v, w>>] + take
            /\ \A r \in Rows : r # <<v, w>> => taking[r] = units[r]
        BY <2>1, <2>20, <3>1 DEF WithMore
      <3>3. ASSUME NEW r \in Rows, NEW i \in 1 .. n + 1, new[i].row = r
            PROVE  taking[r] = some[r] + new[i].qty
        <4>1. CASE i \in 1 .. n /\ new[i] = old[i]
          <5>1. units[r] = some[r] + old[i].qty
            BY <3>3, <4>1, <2>11 DEF Completes, n
          <5>2. r # <<v, w>>
            BY <3>3, <4>1, <2>6
          <5> QED
            BY <3>2, <4>1, <5>1, <5>2
        <4>2. CASE new[i] = m
          BY <2>2, <3>2, <3>3, <4>2
        <4> QED
          BY <2>5, <4>1, <4>2
      <3>4. ASSUME NEW r \in Rows, \A i \in 1 .. n + 1 : new[i].row # r
            PROVE  taking[r] = some[r]
        <4>1. n + 1 \in 1 .. n + 1 /\ \A i \in 1 .. n : i \in 1 .. n + 1
          BY <2>3
        <4>2. r # <<v, w>>
          BY <2>2, <2>3, <3>4, <4>1
        <4>3. \A i \in 1 .. n : old[i].row # r
          BY <2>3, <3>4, <4>1
        <4>4. units[r] = some[r]
          BY <2>11, <4>3 DEF Completes, n
        <4> QED
          BY <3>2, <4>2, <4>4
      <3> QED
        BY <2>3, <3>3, <3>4 DEF Completes
    <2>14. Summed(taking, v) = Summed(some, v) + (qty - more.remaining)
      <3>1. Summed(some, v) \in Nat
        BY SummedIsNat
      <3> QED
        BY <1>0, <2>2, <2>11, <2>12, <3>1
    <2>15. \A x \in Variants \ {v} : Summed(taking, x) = Summed(some, x)
      BY <2>11, <2>12
    <2>16. Reserves(more.moves) /\ Completes(taking, some, more.moves)
           /\ \A i \in 1 .. Len(more.moves) : \E x \in T \cup {w} : more.moves[i].row = <<v, x>>
      BY <2>2, <2>3, <2>7, <2>8, <2>13 DEF new
    <2>17. \E units_1 \in [Rows -> Nat] :
             /\ Completes(units_1, some, more.moves)
             /\ Summed(units_1, v) = Summed(some, v) + (qty - more.remaining)
             /\ \A x \in Variants \ {v} : Summed(units_1, x) = Summed(some, x)
      BY <2>12, <2>14, <2>15, <2>16
    <2>18. qty <= 0 => more.remaining = qty
      BY <2>10
    <2> QED
      BY <2>9, <2>10, <2>16, <2>17, <2>18 DEF Planned
  <1>3. w \in Warehouses
    OBVIOUS
  <1>4. CASE \E take \in Nat \ {0} :
              /\ take <= plan.remaining
              /\ Allocate(plan, s, v, w) =
                   [remaining |-> plan.remaining - take,
                    moves     |-> Append(plan.moves,
                      [row |-> <<v, w>>, kind |-> "reserve", qty |-> take, expected |-> NoLevel])]
    BY <1>2, <1>4
  <1> QED
    BY <1>0, <1>1, <1>3, <1>4, AllocateIs

NothingPlanned(qty) == [remaining |-> qty, moves |-> <<>>]

PlanOver(s, v, qty, g, T) ==
  IF T = {} THEN NothingPlanned(qty) ELSE Allocate(g[T \ {Max(T)}], s, v, Max(T))

Planning(s, v, qty, g) == g = [T \in SUBSET Online |-> PlanOver(s, v, qty, g, T)]

LEMMA PlanIsFold ==
  ASSUME NEW s, NEW v, NEW qty
  PROVE  Plan(s, v, qty) = (CHOOSE g : Planning(s, v, qty, g))[Online]
  BY DEF Plan, MapThenFoldSet, Planning, PlanOver, NothingPlanned

(* Allocate takes plans to plans.                                          *)
LEMMA AllocateIsPlan ==
  ASSUME StockInv, NEW s \in Sessions, NEW v \in Variants, NEW w \in Warehouses, NEW plan \in APlan
  PROVE  Allocate(plan, s, v, w) \in APlan
  <1>1. CASE Allocate(plan, s, v, w) = plan
    BY <1>1
  <1>2. ASSUME NEW take \in Nat \ {0},
               NEW m, m = [row |-> <<v, w>>, kind |-> "reserve", qty |-> take, expected |-> NoLevel]
        PROVE  [remaining |-> plan.remaining - take, moves |-> Append(plan.moves, m)] \in APlan
    <2>1. m \in Movement
      BY <1>2, ReserveIsMovement
    <2>2. plan.moves \in Seq(Movement) /\ plan.remaining \in Int
      BY DEF APlan
    <2>3. Append(plan.moves, m) \in Seq(Movement)
      BY <2>1, <2>2, AppendProperties
    <2>4. plan.remaining - take \in Int
      BY <2>2
    <2> QED
      BY <2>3, <2>4 DEF APlan
  <1>3. CASE \E take \in Nat \ {0} :
              /\ take <= plan.remaining
              /\ Allocate(plan, s, v, w) =
                   [remaining |-> plan.remaining - take,
                    moves     |-> Append(plan.moves,
                      [row |-> <<v, w>>, kind |-> "reserve", qty |-> take, expected |-> NoLevel])]
    BY <1>2, <1>3
  <1> QED
    BY <1>1, <1>3, AllocateIs

(* The folds that Plan is made of exist, the greatest id allocated last.   *)
LEMMA PlanningExists ==
  ASSUME StockInv, NEW s \in Sessions, NEW v \in Variants, NEW qty \in Int
  PROVE  \E g : Planning(s, v, qty, g)
  <1> DEFINE pick == [T \in SUBSET Online |-> Max(T)]
             step == [p \in Online \X APlan |-> Allocate(p[2], s, v, p[1])]
             base == NothingPlanned(qty)
  <1>1. IsFiniteSet(Online) /\ Online \subseteq Warehouses
    BY WarehouseAssumption, OnlineAssumption, FS_Subset
  <1>2. \A T \in SUBSET Online : T # {} => Max(T) \in T
    <2> TAKE T \in SUBSET Online
    <2>1. IsFiniteSet(T) /\ T \subseteq Nat
      BY <1>1, WarehouseAssumption, FS_Subset
    <2> QED
      BY <2>1, MaxExists
  <1>3. step \in [Online \X APlan -> APlan]
    <2>1. ASSUME NEW p \in Online \X APlan PROVE Allocate(p[2], s, v, p[1]) \in APlan
      <3>1. p[1] \in Warehouses /\ p[2] \in APlan
        BY <1>1
      <3> QED
        BY <3>1, AllocateIsPlan
    <2> QED
      BY <2>1
  <1>4. base \in APlan
    <2>1. <<>> \in Seq(Movement)
      OBVIOUS
    <2> QED
      BY <2>1 DEF APlan, NothingPlanned
  <1>5. \A T \in SUBSET Online : T # {} => pick[T] \in T
    BY <1>2
  <1>6. PICK g \in [SUBSET Online -> APlan] : Folding(Online, base, pick, step, g)
    <2> HIDE DEF pick, step, base
    <2> QED
      BY <1>1, <1>3, <1>4, <1>5, FoldExists
  <1>7. ASSUME NEW T \in SUBSET Online
        PROVE  g[T] = PlanOver(s, v, qty, g, T)
    <2>1. g[T] = IF T = {} THEN base ELSE step[<<pick[T], g[T \ {pick[T]}]>>]
      <3> HIDE DEF pick, step, base
      <3> DEFINE F == [U \in SUBSET Online |-> IF U = {} THEN base ELSE step[<<pick[U], g[U \ {pick[U]}]>>]]
      <3>1. g = F
        BY <1>6 DEF Folding
      <3>2. F[T] = IF T = {} THEN base ELSE step[<<pick[T], g[T \ {pick[T]}]>>]
        OBVIOUS
      <3> HIDE DEF F
      <3> QED
        BY <3>1, <3>2
    <2>2. ASSUME T # {}
          PROVE  step[<<pick[T], g[T \ {pick[T]}]>>] = Allocate(g[T \ {Max(T)}], s, v, Max(T))
      <3>1. pick[T] = Max(T) /\ Max(T) \in Online /\ g[T \ {Max(T)}] \in APlan
        BY <1>2, <2>2
      <3>2. <<Max(T), g[T \ {Max(T)}]>> \in Online \X APlan
        BY <3>1
      <3>3. step[<<Max(T), g[T \ {Max(T)}]>>] = Allocate(g[T \ {Max(T)}], s, v, Max(T))
        BY <3>2
      <3> HIDE DEF pick, step
      <3> QED
        BY <3>1, <3>3
    <2> HIDE DEF pick, step
    <2> QED
      BY <2>1, <2>2 DEF PlanOver
  <1>8. g = [T \in SUBSET Online |-> PlanOver(s, v, qty, g, T)]
    BY <1>7
  <1> QED
    BY <1>8 DEF Planning

(* What the greedy allocation of a line yields.                            *)
LEMMA PlanIsPlanned ==
  ASSUME StockInv, NEW s \in Sessions, NEW v \in Variants, NEW qty \in Int,
         NEW some \in [Rows -> Nat]
  PROVE  Planned(some, v, qty, Online, Plan(s, v, qty))
  <1>1. IsFiniteSet(Online) /\ Online \subseteq Warehouses
    BY WarehouseAssumption, OnlineAssumption, FS_Subset
  <1>2. PICK g : Planning(s, v, qty, g) /\ Plan(s, v, qty) = g[Online]
    BY PlanIsFold, PlanningExists
  <1>3. ASSUME NEW T \in SUBSET Online PROVE g[T] = PlanOver(s, v, qty, g, T)
    <2> DEFINE F == [U \in SUBSET Online |-> PlanOver(s, v, qty, g, U)]
    <2>1. g = F
      BY <1>2 DEF Planning
    <2>2. F[T] = PlanOver(s, v, qty, g, T)
      OBVIOUS
    <2> HIDE DEF F
    <2> QED
      BY <2>1, <2>2
  <1> DEFINE G == {T \in SUBSET Online : Planned(some, v, qty, T, g[T])}
  <1>4. Planned(some, v, qty, {}, NothingPlanned(qty))
    <2> DEFINE p == NothingPlanned(qty)
    <2>1. p.remaining = qty /\ p.moves = <<>> /\ <<>> \in Seq(Movement) /\ Len(<<>>) = 0
      BY DEF NothingPlanned
    <2>2. p \in APlan
      BY <2>1 DEF NothingPlanned, APlan
    <2>3. Reserves(<<>>) /\ Completes(some, some, <<>>)
      BY <2>1 DEF Reserves, Completes
    <2>4. Summed(some, v) = Summed(some, v) + (qty - qty)
      BY SummedIsNat
    <2> HIDE DEF p
    <2> QED
      BY <2>1, <2>2, <2>3, <2>4 DEF Planned, p
  <1>5. ASSUME NEW T \in SUBSET Online, \A x \in T : T \ {x} \in G
        PROVE  T \in G
    <2>1. CASE T = {}
      <3>1. g[T] = NothingPlanned(qty)
        BY <1>3, <2>1 DEF PlanOver
      <3> QED
        BY <1>4, <2>1, <3>1
    <2>2. CASE T # {}
      <3>1. IsFiniteSet(T) /\ T \subseteq Nat
        BY <1>1, WarehouseAssumption, FS_Subset
      <3> DEFINE w == Max(T)
                 R == T \ {w}
      <3>2. w \in T /\ w \in Warehouses \ R /\ R \in SUBSET Warehouses /\ T = R \cup {w}
        BY <1>1, <2>2, <3>1, MaxExists
      <3>3. Planned(some, v, qty, R, g[R])
        BY <1>5, <3>2
      <3>4. g[T] = Allocate(g[R], s, v, w)
        BY <1>3, <2>2 DEF PlanOver
      <3> HIDE DEF w, R, G
      <3>5. Planned(some, v, qty, R \cup {w}, Allocate(g[R], s, v, w))
        BY <3>2, <3>3, AllocateStep
      <3>6. Planned(some, v, qty, T, g[T])
        BY <3>2, <3>4, <3>5
      <3> QED
        BY <3>6 DEF G
    <2> QED
      BY <2>1, <2>2
  <1> HIDE DEF G
  <1>6. Online \in G
    BY <1>1, <1>5, SubsetInduction
  <1> QED
    BY <1>2, <1>6 DEF G

-----------------------------------------------------------------------------
(***************************************************************************)
(* Order ingest keeps the invariant of the stock tables.                   *)
(***************************************************************************)

(* A step in which a delivery thinks: the tables stay as they are.         *)
LEMMA ThinkKeeps ==
  ASSUME StockInv, NEW s \in Sessions, NEW p \in {"record", "plan", "select", "commit"},
         NEW moves \in Seq(Movement), p = "select" => moves # <<>>,
         pc' = [pc EXCEPT ![s] = p], todo' = [todo EXCEPT ![s] = moves],
         job' \in [Sessions -> {"none", "movement", "transfer", "order", "sync"}],
         UNCHANGED <<stockVars, seen>>
  PROVE  StockInv'
  <1>0. UNCHANGED <<levels, journal, outbox, nextSeq, holder, draft, pending, seen>>
    BY DEF stockVars
  <1>1. TypeOK'
    <2>1. pc' \in [Sessions -> {"idle", "select", "insert", "apply", "commit",
                                "record", "plan", "create", "level"}]
      BY DEF StockInv, TypeOK
    <2>2. todo' \in [Sessions -> Seq(Movement)]
      BY DEF StockInv, TypeOK
    <2> QED
      BY <1>0, <2>1, <2>2 DEF StockInv, TypeOK
  <1>2. Busy' /\ Applying'
    BY <1>0 DEF StockInv, TypeOK, Busy, Applying
  <1>3. RowsSound' /\ RowsExplained'
    BY <1>0 DEF StockInv, RowsSound, RowsExplained
  <1> QED
    BY <1>1, <1>2, <1>3 DEF StockInv

LEMMA KeepTodo ==
  ASSUME StockInv, NEW s \in Sessions, UNCHANGED todo
  PROVE  todo[s] \in Seq(Movement) /\ todo' = [todo EXCEPT ![s] = todo[s]]
  BY DEF StockInv, TypeOK

(* What the lines of an order are.                                         *)
LEMMA LineIs ==
  ASSUME NEW o \in Orders
  PROVE  /\ Lines[o] \in Seq([sku : Skus, qty : Int])
         /\ Len(Lines[o]) \in Nat
         /\ \A i \in 1 .. Len(Lines[o]) : Lines[o][i] \in [sku : Skus, qty : Int]
  <1>1. Lines[o] \in Seq([sku : Skus, qty : Int])
    BY LinesAssumption
  <1> QED
    BY <1>1, LenProperties, ElementOfSeq

(* ROLLBACK TO SAVEPOINT.                                                  *)
LEMMA RejectKeeps ==
  ASSUME StockInv, NEW s \in Sessions, Reject(s)
  PROVE  StockInv'
  <1>1. /\ holder' = [r \in Rows |-> IF holder[r] = s THEN NoSession ELSE holder[r]]
        /\ draft' = [r \in Rows |-> IF holder[r] = s THEN NoDraft ELSE draft[r]]
        /\ pending' = [pending EXCEPT ![s] = {}]
        /\ pc' = [pc EXCEPT ![s] = "commit"]
        /\ todo' = [todo EXCEPT ![s] = <<>>]
        /\ UNCHANGED <<levels, journal, outbox, nextSeq, job, seen>>
    BY DEF Reject, Release
  <1>2. TypeOK'
    <2>1. /\ holder' \in [Rows -> Sessions \cup {NoSession}]
          /\ draft' \in [Rows -> [level : Level, journal : Totals]]
          /\ pending' \in [Sessions -> SUBSET [seq : Nat, row : Rows, level : Level]]
          /\ pc' \in [Sessions -> {"idle", "select", "insert", "apply", "commit",
                                   "record", "plan", "create", "level"}]
      BY <1>1, NewRows DEF StockInv, TypeOK
    <2>2. todo' \in [Sessions -> Seq(Movement)]
      <3>1. <<>> \in Seq(Movement)
        OBVIOUS
      <3> QED
        BY <1>1, <3>1 DEF StockInv, TypeOK
    <2> QED
      BY <1>1, <2>1, <2>2 DEF StockInv, TypeOK
  <1>3. Busy'
    BY <1>1 DEF StockInv, TypeOK, Busy
  <1>4. Applying'
    <2> SUFFICES ASSUME NEW t \in Sessions, pc'[t] = "apply"
                 PROVE  /\ holder'[Head(todo'[t]).row] = t
                        /\ seen'[t] = draft'[Head(todo'[t]).row].level
      BY DEF Applying
    <2>1. t # s /\ pc[t] = "apply"
      BY <1>1 DEF StockInv, TypeOK
    <2>2. holder[Head(todo[t]).row] = t /\ seen[t] = draft[Head(todo[t]).row].level
          /\ Head(todo[t]).row \in Rows
      BY <2>1, HeadIsMovement DEF StockInv, Applying
    <2> QED
      BY <1>1, <2>1, <2>2 DEF StockInv, TypeOK
  <1>5. Sound(NoDraft.level) /\ Explains(NoDraft.journal, NoDraft.level)
    BY DEF Sound, Explains, NoDraft, NewLevel, NoTotals
  <1>6. RowsSound' /\ RowsExplained'
    BY <1>1, <1>5 DEF StockInv, RowsSound, RowsExplained
  <1> QED
    BY <1>2, <1>3, <1>4, <1>6 DEF StockInv

(* The end of a delivery's transaction keeps the tables.                   *)
LEMMA FinishOrderKeeps ==
  ASSUME StockInv, NEW s \in Sessions, FinishOrder(s), UNCHANGED <<levels, journal, outbox>>
  PROVE  StockInv'
  BY RollBackKeeps DEF FinishOrder, RollBack

-----------------------------------------------------------------------------
(***************************************************************************)
(* The inductive invariant of order ingest.                                *)
(***************************************************************************)
OrderTypes ==
  /\ orders \in [Orders -> Status]
  /\ orderLock \in [Orders -> Webhooks \cup {NoSession}]
  /\ held \in [Orders -> [Rows -> Nat]]
  /\ order \in [Webhooks -> Orders \cup {AnyOrder}]
  /\ line \in [Webhooks -> Nat \ {0}]
  /\ short \in [Webhooks -> BOOLEAN]
  /\ taken \in [Webhooks -> [Rows -> Nat]]
  /\ verdict \in [Webhooks -> Status]

(* Where a delivery stands.                                                *)
Ingesting(s) ==
  /\ job[s] \in {"none", "order"}
  /\ pc[s] \in {"idle", "record", "plan", "select", "apply", "commit"}
  /\ job[s] = "none" <=> pc[s] = "idle"
  /\ job[s] = "order" => order[s] \in Orders
  /\ pc[s] \in {"idle", "record"} => taken[s] = NothingTaken /\ line[s] = 1 /\ ~ short[s]
  /\ pc[s] \notin {"select", "apply"} => todo[s] = <<>>
  /\ Reserves(todo[s])

(* The row of an order is locked by the delivery that decides it, and the  *)
(* order is undecided until that one commits.                              *)
Deciding(s) == pc[s] \in {"plan", "select", "apply", "commit"}

KeyHeld(o) ==
  /\ \A s \in Webhooks : orderLock[o] = s <=> Deciding(s) /\ order[s] = o
  /\ orderLock[o] # NoSession => orders[o] = "none"
  /\ orders[o] # "reserved" => held[o] = NothingTaken

(* What the first n lines of an order ask.                                 *)
AskedTo(o, n, v) == [i \in 1 .. Len(Lines[o]) |-> IF i <= n THEN Asked(Lines[o][i], v) ELSE 0]

DemandTo(o, n, v) == SumFunction(AskedTo(o, n, v))

(* What a delivery has reserved, with what it is about to reserve, is what *)
(* the lines before the next one ask, of every variant; what it commits is *)
(* the order's whole demand or nothing.                                    *)
OnTheWay(s) ==
  \E units \in [Rows -> Nat] :
    /\ Completes(units, taken[s], todo[s])
    /\ \A v \in Variants : Summed(units, v) = DemandTo(order[s], line[s] - 1, v)

Decided(s) ==
  \/ verdict[s] = "rejected" /\ taken[s] = NothingTaken
  \/ verdict[s] = "reserved" /\ \A v \in Variants : Summed(taken[s], v) = Demand(order[s], v)

Promising(s) ==
  /\ pc[s] \in {"plan", "select", "apply"} /\ ~ short[s] => OnTheWay(s)
  /\ pc[s] = "commit" => Decided(s)

OrderInv ==
  /\ StockInv
  /\ OrderTypes
  /\ \A s \in Webhooks : Ingesting(s) /\ Promising(s)
  /\ \A o \in Orders : KeyHeld(o)

LEMMA AskedIsNat ==
  ASSUME NEW o \in Orders, NEW i \in 1 .. Len(Lines[o]), NEW v
  PROVE  Asked(Lines[o][i], v) \in Nat
  <1>1. Lines[o][i] \in [sku : Skus, qty : Int]
    BY LineIs
  <1>2. Lines[o][i].qty \in Int
    BY <1>1
  <1> QED
    BY <1>2 DEF Asked

(* Each line adds to the demand for its own variant, and to no other.      *)
LEMMA DemandGrows ==
  ASSUME NEW o \in Orders, NEW v
  PROVE  /\ DemandTo(o, 0, v) = 0
         /\ \A n \in 1 .. Len(Lines[o]) :
              DemandTo(o, n, v) = DemandTo(o, n - 1, v) + Asked(Lines[o][n], v)
         /\ \A n \in Nat : n >= Len(Lines[o]) => DemandTo(o, n, v) = Demand(o, v)
  <1> DEFINE S == 1 .. Len(Lines[o])
  <1>0. Len(Lines[o]) \in Nat /\ IsFiniteSet(S)
    BY LineIs, FS_Interval
  <1>1. \A n \in Int : AskedTo(o, n, v) \in [S -> Nat]
    BY AskedIsNat DEF AskedTo
  <1>2. DemandTo(o, 0, v) = 0
    <2>1. AskedTo(o, 0, v) = [i \in S |-> 0]
      BY <1>0 DEF AskedTo
    <2> HIDE DEF S
    <2> QED
      BY <1>0, <2>1, SumOfNothing DEF DemandTo
  <1>3. ASSUME NEW n \in S
        PROVE  DemandTo(o, n, v) = DemandTo(o, n - 1, v) + Asked(Lines[o][n], v)
    <2> DEFINE f == AskedTo(o, n - 1, v)
               h == AskedTo(o, n, v)
               a == Asked(Lines[o][n], v)
    <2>1. a \in Nat /\ n \in Int /\ n - 1 \in Int
      BY AskedIsNat, <1>0
    <2>2. f \in [S -> Nat] /\ h \in [S -> Nat]
      BY <1>1, <2>1
    <2>3. f[n] = 0 /\ h[n] = a
      BY <1>0 DEF AskedTo
    <2>4. \A i \in S \ {n} : h[i] = f[i]
      BY <1>0 DEF AskedTo
    <2> HIDE DEF f, h, a, S
    <2>5. h[n] = f[n] + a /\ a \in Int
      BY <2>1, <2>3
    <2>6. SumFunction(h) = SumFunction(f) + a
      BY ONLY <1>0, <2>2, <2>4, <2>5, n \in S, SumChanges
    <2> QED
      BY <2>6 DEF DemandTo, f, h, a
  <1>4. ASSUME NEW n \in Nat, n >= Len(Lines[o])
        PROVE  DemandTo(o, n, v) = Demand(o, v)
    <2>1. AskedTo(o, n, v) = [i \in S |-> Asked(Lines[o][i], v)]
      BY <1>0, <1>4 DEF AskedTo
    <2> QED
      BY <2>1 DEF DemandTo, Demand
  <1> QED
    BY <1>2, <1>3, <1>4

(* What a step of one delivery leaves of another.                          *)
Alone(t) ==
  /\ job'[t] = job[t] /\ pc'[t] = pc[t] /\ todo'[t] = todo[t]
  /\ order'[t] = order[t] /\ line'[t] = line[t] /\ short'[t] = short[t]
  /\ taken'[t] = taken[t] /\ verdict'[t] = verdict[t]

LEMMA AloneStays ==
  ASSUME NEW t \in Webhooks, Alone(t), Ingesting(t), Promising(t)
  PROVE  Ingesting(t)' /\ Promising(t)'
  <1>1. Ingesting(t)'
    BY DEF Alone, Ingesting
  <1>2. OnTheWay(t) => OnTheWay(t)'
    BY DEF Alone, OnTheWay
  <1>3. Decided(t) => Decided(t)'
    BY DEF Alone, Decided
  <1> QED
    BY <1>1, <1>2, <1>3 DEF Alone, Promising

(* A step that neither takes a key nor decides an order keeps KeyHeld.     *)
LEMMA KeysStay ==
  ASSUME OrderInv, NEW s \in Sessions,
         \A t \in Webhooks \ {s} : Alone(t),
         s \in Webhooks => /\ Deciding(s)' <=> Deciding(s)
                           /\ Deciding(s) => order'[s] = order[s],
         UNCHANGED <<orders, orderLock, held>>,
         NEW o \in Orders
  PROVE  KeyHeld(o)'
  <1>1. KeyHeld(o)
    BY DEF OrderInv
  <1>2. ASSUME NEW t \in Webhooks
        PROVE  (Deciding(t)' /\ order'[t] = o) <=> (Deciding(t) /\ order[t] = o)
    <2>1. CASE t = s
      BY <2>1
    <2>2. CASE t # s
      BY <2>2 DEF Alone, Deciding
    <2> QED
      BY <2>1, <2>2
  <1> QED
    BY <1>1, <1>2 DEF KeyHeld

LEMMA SummedNothing ==
  ASSUME NEW v \in Variants
  PROVE  Summed(NothingTaken, v) = 0
  <1>1. [w \in Warehouses |-> NothingTaken[<<v, w>>]] = [w \in Warehouses |-> 0]
    BY DEF NothingTaken, Rows
  <1> QED
    BY <1>1, WarehouseAssumption, SumOfNothing DEF Summed

LEMMA InitOrders == OrderInit => OrderInv
  <1> SUFFICES ASSUME OrderInit PROVE OrderInv
    OBVIOUS
  <1>1. StockInv /\ Init
    BY InitEstablishes DEF OrderInit
  <1>2. OrderTypes
    BY DEF OrderInit, OrderTypes, NothingTaken, Status
  <1>3. ASSUME NEW s \in Webhooks PROVE Ingesting(s) /\ Promising(s)
    <2>1. job[s] = "none" /\ pc[s] = "idle" /\ todo[s] = <<>>
      BY <1>1, WebhookAssumption DEF Init
    <2>2. taken[s] = NothingTaken /\ line[s] = 1 /\ ~ short[s]
      BY DEF OrderInit
    <2>3. Reserves(<<>>)
      BY DEF Reserves
    <2> QED
      BY <2>1, <2>2, <2>3 DEF Ingesting, Promising
  <1>4. ASSUME NEW o \in Orders PROVE KeyHeld(o)
    <2>1. orderLock[o] = NoSession /\ orders[o] = "none" /\ held[o] = NothingTaken
      BY DEF OrderInit
    <2>2. \A s \in Webhooks : ~ Deciding(s) /\ NoSession # s
      BY <1>1, WebhookAssumption, SessionAssumption DEF Init, Deciding
    <2> QED
      BY <2>1, <2>2 DEF KeyHeld
  <1> QED
    BY <1>1, <1>2, <1>3, <1>4 DEF OrderInv

LEMMA DeliverIngests ==
  ASSUME OrderInv, NEW s \in Webhooks, NEW o \in Orders, Deliver(s, o)
  PROVE  OrderInv'
  <1>0. s \in Sessions /\ Ingesting(s) /\ StockInv /\ OrderTypes
    BY WebhookAssumption DEF OrderInv
  <1>1. /\ job[s] = "none" /\ job' = [job EXCEPT ![s] = "order"]
        /\ pc' = [pc EXCEPT ![s] = "record"]
        /\ order' = [order EXCEPT ![s] = o]
        /\ UNCHANGED <<todo, orders, orderLock, held, line, short, taken, verdict>>
        /\ UNCHANGED <<stockVars, seen>>
    BY DEF Deliver
  <1>2. pc[s] = "idle" /\ todo[s] = <<>> /\ Reserves(todo[s])
    BY <1>0, <1>1 DEF Ingesting
  <1>3. StockInv'
    <2>1. job' \in [Sessions -> {"none", "movement", "transfer", "order", "sync"}]
      BY <1>0, <1>1 DEF StockInv, TypeOK
    <2> QED
      BY <1>0, <1>1, <2>1, KeepTodo, ThinkKeeps
  <1>4. OrderTypes'
    BY <1>0, <1>1 DEF OrderTypes
  <1>5. \A t \in Webhooks \ {s} : Alone(t)
    BY <1>0, <1>1, WebhookAssumption DEF Alone, StockInv, TypeOK, OrderTypes
  <1>6. Ingesting(s)' /\ Promising(s)'
    <2>1. /\ job'[s] = "order" /\ pc'[s] = "record" /\ order'[s] = o
          /\ todo'[s] = todo[s] /\ taken'[s] = taken[s] /\ line'[s] = line[s] /\ short'[s] = short[s]
      BY <1>0, <1>1 DEF StockInv, TypeOK, OrderTypes
    <2>2. Promising(s)'
      BY <2>1 DEF Promising
    <2>3. Ingesting(s)'
      BY <1>0, <1>2, <2>1 DEF Ingesting
    <2> QED
      BY <2>2, <2>3
  <1>7. \A q \in Orders : KeyHeld(q)'
    <2>1. ~ Deciding(s) /\ ~ Deciding(s)'
      BY <1>0, <1>1, <1>2 DEF Deciding, StockInv, TypeOK
    <2> QED
      BY <1>0, <1>1, <1>5, <2>1, KeysStay
  <1> QED
    BY <1>3, <1>4, <1>5, <1>6, <1>7, AloneStays DEF OrderInv

(* The facts of a delivery at work.                                        *)
LEMMA AtWork ==
  ASSUME OrderInv, NEW s \in Webhooks
  PROVE  /\ s \in Sessions /\ s # NoSession
         /\ StockInv /\ TypeOK /\ OrderTypes /\ Ingesting(s) /\ Promising(s)
         /\ pc[s] # "idle" => job[s] = "order" /\ order[s] \in Orders
         /\ \A t \in Webhooks \ {s} : Ingesting(t) /\ Promising(t) /\ t \in Sessions
  <1>1. s \in Sessions /\ s # NoSession /\ \A t \in Webhooks : t \in Sessions
    BY WebhookAssumption, SessionAssumption
  <1>2. Ingesting(s) /\ Promising(s) /\ \A t \in Webhooks : Ingesting(t) /\ Promising(t)
    BY DEF OrderInv
  <1>3. pc[s] # "idle" => job[s] = "order" /\ order[s] \in Orders
    BY <1>2 DEF Ingesting
  <1> QED
    BY <1>1, <1>2, <1>3 DEF OrderInv, StockInv

(* The steps of a delivery, one by one, keep the invariant.                *)
LEMMA RecordOrderIngests ==
  ASSUME OrderInv, NEW s \in Webhooks, RecordOrder(s)
  PROVE  OrderInv'
  <1> DEFINE o == order[s]
  <1>1. /\ pc[s] = "record" /\ orders[o] = "none" /\ orderLock[o] = NoSession
        /\ orderLock' = [orderLock EXCEPT ![o] = s]
        /\ pc' = [pc EXCEPT ![s] = "plan"]
        /\ UNCHANGED <<job, todo, orders, held, order, line, short, taken, verdict>>
        /\ UNCHANGED <<stockVars, seen>>
    BY DEF RecordOrder, ingestVars
  <1>0. /\ s \in Sessions /\ s # NoSession /\ o \in Orders
        /\ StockInv /\ TypeOK /\ OrderTypes /\ Ingesting(s)
        /\ job[s] = "order" /\ todo[s] = <<>> /\ taken[s] = NothingTaken /\ line[s] = 1
        /\ Reserves(todo[s])
    BY <1>1, AtWork DEF Ingesting
  <1>3. StockInv'
    <2>1. job' \in [Sessions -> {"none", "movement", "transfer", "order", "sync"}]
      BY <1>0, <1>1 DEF TypeOK
    <2> QED
      BY <1>0, <1>1, <2>1, KeepTodo, ThinkKeeps
  <1>4. OrderTypes'
    BY <1>0, <1>1 DEF OrderTypes
  <1>5. \A t \in Webhooks \ {s} : Alone(t)
    BY <1>0, <1>1, WebhookAssumption DEF Alone, TypeOK
  <1>6. pc'[s] = "plan" /\ order'[s] = o /\ job'[s] = "order" /\ line'[s] = 1
        /\ todo'[s] = <<>> /\ taken'[s] = NothingTaken
    BY <1>0, <1>1 DEF TypeOK
  <1>7. Ingesting(s)'
    BY <1>0, <1>6 DEF Ingesting
  <1>8. OnTheWay(s)'
    <2>1. NothingTaken \in [Rows -> Nat]
      BY DEF NothingTaken
    <2>2. Completes(NothingTaken, taken'[s], todo'[s])
      BY <1>6 DEF Completes
    <2>3. ASSUME NEW v \in Variants
          PROVE  Summed(NothingTaken, v) = DemandTo(order'[s], line'[s] - 1, v)
      <3>1. line'[s] - 1 = 0
        BY <1>6
      <3> QED
        BY <1>0, <1>6, <3>1, SummedNothing, DemandGrows
    <2> QED
      BY <2>1, <2>2, <2>3 DEF OnTheWay
  <1>9. Promising(s)'
    BY <1>6, <1>8 DEF Promising
  <1>10. ASSUME NEW q \in Orders PROVE KeyHeld(q)'
    <2>1. KeyHeld(q) /\ KeyHeld(o)
      BY <1>0 DEF OrderInv
    <2>2. ASSUME NEW t \in Webhooks PROVE orderLock'[q] = t <=> Deciding(t)' /\ order'[t] = q
      <3>1. CASE t = s
        <4>1. Deciding(s)' /\ ~ Deciding(s)
          BY <1>1, <1>6 DEF Deciding
        <4>2. q = o => orderLock'[q] = s
          BY <1>0, <1>1 DEF OrderTypes
        <4>3. q # o => orderLock'[q] = orderLock[q] /\ orderLock[q] # s
          BY <1>0, <1>1, <2>1, <4>1 DEF OrderTypes, KeyHeld
        <4> QED
          BY <1>6, <3>1, <4>1, <4>2, <4>3
      <3>2. CASE t # s
        <4>1. (Deciding(t)' <=> Deciding(t)) /\ order'[t] = order[t]
          BY <1>5, <3>2 DEF Alone, Deciding
        <4>2. q = o => orderLock'[q] # t /\ orderLock[q] # t
          BY <1>0, <1>1, <3>2, WebhookAssumption, SessionAssumption DEF OrderTypes
        <4>3. q # o => orderLock'[q] = orderLock[q]
          BY <1>0, <1>1 DEF OrderTypes
        <4> QED
          BY <2>1, <4>1, <4>2, <4>3 DEF KeyHeld
      <3> QED
        BY <3>1, <3>2
    <2>3. orderLock'[q] # NoSession => orders'[q] = "none"
      BY <1>0, <1>1, <2>1 DEF OrderTypes, KeyHeld
    <2> QED
      BY <1>1, <2>1, <2>2, <2>3 DEF KeyHeld
  <1> QED
    BY <1>0, <1>3, <1>4, <1>5, <1>7, <1>9, <1>10, AtWork, AloneStays DEF OrderInv

LEMMA FinishOrderTypes ==
  ASSUME OrderInv, NEW s \in Webhooks, FinishOrder(s)
  PROVE  /\ orderLock' \in [Orders -> Webhooks \cup {NoSession}]
         /\ order' \in [Webhooks -> Orders \cup {AnyOrder}]
         /\ line' \in [Webhooks -> Nat \ {0}]
         /\ short' \in [Webhooks -> BOOLEAN]
         /\ taken' \in [Webhooks -> [Rows -> Nat]]
         /\ verdict' \in [Webhooks -> Status]
  <1>0. OrderTypes
    BY AtWork
  <1>1. /\ orderLock' = [o \in Orders |-> IF orderLock[o] = s THEN NoSession ELSE orderLock[o]]
        /\ line' = [line EXCEPT ![s] = 1]
        /\ short' = [short EXCEPT ![s] = FALSE]
        /\ taken' = [taken EXCEPT ![s] = NothingTaken]
        /\ verdict' = [verdict EXCEPT ![s] = "none"]
        /\ order' = [order EXCEPT ![s] = AnyOrder]
    BY DEF FinishOrder
  <1>2. NothingTaken \in [Rows -> Nat]
    BY DEF NothingTaken
  <1>3. orderLock' \in [Orders -> Webhooks \cup {NoSession}]
    BY <1>0, <1>1 DEF OrderTypes
  <1>4. order' \in [Webhooks -> Orders \cup {AnyOrder}]
    BY <1>0, <1>1 DEF OrderTypes
  <1>5. line' \in [Webhooks -> Nat \ {0}] /\ short' \in [Webhooks -> BOOLEAN]
    BY <1>0, <1>1 DEF OrderTypes
  <1>6. taken' \in [Webhooks -> [Rows -> Nat]]
    BY <1>0, <1>1, <1>2 DEF OrderTypes
  <1>7. verdict' \in [Webhooks -> Status]
    BY <1>0, <1>1 DEF OrderTypes, Status
  <1> QED
    BY <1>3, <1>4, <1>5, <1>6, <1>7

LEMMA FinishOrderUnlocks ==
  ASSUME NEW s \in Webhooks, FinishOrder(s), NEW o \in Orders
  PROVE  /\ orderLock[o] = s => orderLock'[o] = NoSession
         /\ orderLock[o] # s => orderLock'[o] = orderLock[o]
  BY DEF FinishOrder

LEMMA FinishOrderLeaves ==
  ASSUME OrderInv, NEW s \in Webhooks, FinishOrder(s)
  PROVE  /\ \A t \in Webhooks \ {s} : Alone(t)
         /\ Ingesting(s)' /\ Promising(s)'
         /\ ~ Deciding(s)'
  <1>0. /\ s \in Sessions /\ s # NoSession /\ TypeOK /\ OrderTypes
    BY AtWork
  <1>1. /\ job' = [job EXCEPT ![s] = "none"]
        /\ pc' = [pc EXCEPT ![s] = "idle"]
        /\ todo' = [todo EXCEPT ![s] = <<>>]
        /\ line' = [line EXCEPT ![s] = 1]
        /\ short' = [short EXCEPT ![s] = FALSE]
        /\ taken' = [taken EXCEPT ![s] = NothingTaken]
        /\ verdict' = [verdict EXCEPT ![s] = "none"]
        /\ order' = [order EXCEPT ![s] = AnyOrder]
    BY DEF FinishOrder, Finish
  <1>2. \A t \in Webhooks \ {s} : Alone(t)
    BY <1>0, <1>1, WebhookAssumption DEF Alone, TypeOK, OrderTypes
  <1>3. /\ job'[s] = "none" /\ pc'[s] = "idle" /\ todo'[s] = <<>>
        /\ line'[s] = 1 /\ ~ short'[s] /\ taken'[s] = NothingTaken
    BY <1>0, <1>1 DEF TypeOK, OrderTypes
  <1>4. Reserves(<<>>)
    BY DEF Reserves
  <1>5. Ingesting(s)' /\ Promising(s)' /\ ~ Deciding(s)'
    BY <1>3, <1>4 DEF Ingesting, Promising, Deciding
  <1> QED
    BY <1>2, <1>5

(* A duplicate, a crash, the victim of a deadlock.                         *)
LEMMA FinishOrderIngests ==
  ASSUME OrderInv, NEW s \in Webhooks, FinishOrder(s),
         UNCHANGED <<levels, journal, outbox, orders, held>>
  PROVE  OrderInv'
  <1>0. s \in Sessions /\ s # NoSession /\ StockInv /\ OrderTypes
    BY AtWork
  <1>1. StockInv'
    BY <1>0, FinishOrderKeeps
  <1>2. OrderTypes'
    BY <1>0, FinishOrderTypes DEF OrderTypes
  <1>3. ASSUME NEW q \in Orders PROVE KeyHeld(q)'
    <2>1. KeyHeld(q)
      BY DEF OrderInv
    <2>2. ASSUME NEW t \in Webhooks PROVE orderLock'[q] = t <=> Deciding(t)' /\ order'[t] = q
      <3>1. CASE t = s
        BY <1>0, <2>1, <3>1, FinishOrderLeaves, FinishOrderUnlocks
      <3>2. CASE t # s
        <4>1. (Deciding(t)' <=> Deciding(t)) /\ order'[t] = order[t]
          BY <3>2, FinishOrderLeaves DEF Alone, Deciding
        <4>2. orderLock'[q] = t <=> orderLock[q] = t
          BY <3>2, FinishOrderUnlocks, WebhookAssumption, SessionAssumption
        <4> QED
          BY <2>1, <4>1, <4>2 DEF KeyHeld
      <3> QED
        BY <3>1, <3>2
    <2>3. orderLock'[q] # NoSession => orderLock[q] # NoSession
      BY FinishOrderUnlocks
    <2> QED
      BY <2>1, <2>2, <2>3 DEF KeyHeld
  <1>4. \A t \in Webhooks : Ingesting(t)' /\ Promising(t)'
    BY FinishOrderLeaves, AtWork, AloneStays
  <1> QED
    BY <1>1, <1>2, <1>3, <1>4 DEF OrderInv

(* With no move left to make, what is taken is what was planned.           *)
LEMMA NothingLeft ==
  ASSUME NEW units \in [Rows -> Nat], NEW some \in [Rows -> Nat], Completes(units, some, <<>>)
  PROVE  units = some
  <1>1. \A r \in Rows : units[r] = some[r]
    BY DEF Completes
  <1> QED
    BY <1>1

LEMMA PlanLineIngests ==
  ASSUME OrderInv, NEW s \in Webhooks, PlanLine(s)
  PROVE  OrderInv'
  <1> DEFINE l == CurrentLine(s)
             v == l.sku
             plan == Plan(s, v, l.qty)
             o == order[s]
             n == line[s]
  <1>1. /\ pc[s] = "plan" /\ ~ short[s] /\ ~ AllLinesDone(s) /\ v \in Variants
        /\ todo' = [todo EXCEPT ![s] = plan.moves]
        /\ short' = [short EXCEPT ![s] = plan.remaining > 0]
        /\ pc' = [pc EXCEPT ![s] = IF plan.moves = <<>> THEN "plan" ELSE "select"]
        /\ line' = [line EXCEPT ![s] = @ + 1]
        /\ UNCHANGED <<job, orders, orderLock, held, order, taken, verdict>>
        /\ UNCHANGED <<stockVars, seen>>
    BY DEF PlanLine
  <1>0. /\ s \in Sessions /\ s # NoSession /\ o \in Orders
        /\ StockInv /\ TypeOK /\ OrderTypes /\ Ingesting(s) /\ Promising(s)
        /\ job[s] = "order" /\ todo[s] = <<>>
    BY <1>1, AtWork DEF Ingesting
  <1>2. n \in 1 .. Len(Lines[o]) /\ l = Lines[o][n] /\ l.qty \in Int
    <2>1. n \in Nat \ {0} /\ ~ (n > Len(Lines[o])) /\ Len(Lines[o]) \in Nat
      BY <1>0, <1>1, LineIs DEF OrderTypes, AllLinesDone
    <2>2. n \in 1 .. Len(Lines[o])
      BY <2>1
    <2>3. Lines[o][n] \in [sku : Skus, qty : Int]
      BY <1>0, <2>2, LineIs
    <2> QED
      BY <2>2, <2>3 DEF CurrentLine
  <1>3. taken[s] \in [Rows -> Nat]
    BY <1>0 DEF OrderTypes
  <1> HIDE DEF l, plan, o, n
  <1>4. Planned(taken[s], v, l.qty, Online, plan)
    BY <1>0, <1>1, <1>2, <1>3, PlanIsPlanned DEF plan
  <1>5. plan.moves \in Seq(Movement) /\ plan.remaining \in Int /\ Reserves(plan.moves)
    BY <1>4 DEF Planned, APlan
  <1>6. /\ pc'[s] \in {"plan", "select"} /\ (pc'[s] = "plan" <=> plan.moves = <<>>)
        /\ todo'[s] = plan.moves /\ job'[s] = "order" /\ order'[s] = o /\ line'[s] = n + 1
        /\ (~ short'[s] => ~ (plan.remaining > 0)) /\ taken'[s] = taken[s]
    <2>1. pc'[s] = IF plan.moves = <<>> THEN "plan" ELSE "select"
      BY <1>0, <1>1 DEF TypeOK
    <2>2. todo'[s] = plan.moves /\ job'[s] = "order" /\ order'[s] = o /\ line'[s] = n + 1
          /\ taken'[s] = taken[s]
      BY <1>0, <1>1 DEF TypeOK, OrderTypes, o, n
    <2>3. short'[s] = (plan.remaining > 0)
      BY <1>0, <1>1 DEF OrderTypes
    <2> QED
      BY <2>1, <2>2, <2>3
  <1>7. StockInv'
    <2> DEFINE p == IF plan.moves = <<>> THEN "plan" ELSE "select"
    <2>1. job' \in [Sessions -> {"none", "movement", "transfer", "order", "sync"}]
      BY <1>0, <1>1 DEF TypeOK
    <2>2. p \in {"record", "plan", "select", "commit"} /\ (p = "select" => plan.moves # <<>>)
          /\ pc' = [pc EXCEPT ![s] = p]
      BY <1>1
    <2> HIDE DEF p
    <2> QED
      BY <1>0, <1>1, <1>5, <2>1, <2>2, ThinkKeeps
  <1>8. OrderTypes'
    <2>1. line' \in [Webhooks -> Nat \ {0}]
      BY <1>0, <1>1 DEF OrderTypes
    <2>2. short' \in [Webhooks -> BOOLEAN]
      BY <1>0, <1>1 DEF OrderTypes
    <2> QED
      BY <1>0, <1>1, <2>1, <2>2 DEF OrderTypes
  <1>9. \A t \in Webhooks \ {s} : Alone(t)
    BY <1>0, <1>1, WebhookAssumption DEF Alone, TypeOK, OrderTypes
  <1>10. Ingesting(s)'
    BY <1>0, <1>5, <1>6 DEF Ingesting
  <1>11. ASSUME ~ short'[s] PROVE OnTheWay(s)'
    <2>1. PICK u \in [Rows -> Nat] :
            /\ Completes(u, taken[s], todo[s])
            /\ \A x \in Variants : Summed(u, x) = DemandTo(o, n - 1, x)
      BY <1>0, <1>1 DEF Promising, OnTheWay, o, n
    <2>2. u = taken[s]
      BY <1>0, <1>3, <2>1, NothingLeft
    <2>3. PICK units \in [Rows -> Nat] :
            /\ Completes(units, taken[s], plan.moves)
            /\ Summed(units, v) = Summed(taken[s], v) + (l.qty - plan.remaining)
            /\ \A x \in Variants \ {v} : Summed(units, x) = Summed(taken[s], x)
      BY <1>4 DEF Planned
    <2>4. l.qty - plan.remaining = Asked(l, v)
      <3>1. ~ (plan.remaining > 0)
        BY <1>6, <1>11
      <3>2. (l.qty > 0 => plan.remaining >= 0) /\ (l.qty <= 0 => plan.remaining = l.qty)
        BY <1>4 DEF Planned
      <3> QED
        BY <1>2, <1>5, <3>1, <3>2 DEF Asked
    <2>5. ASSUME NEW x \in Variants PROVE Summed(units, x) = DemandTo(o, n, x)
      <3>1. DemandTo(o, n, x) = Summed(taken[s], x) + Asked(l, x)
        BY <1>0, <1>2, <2>1, <2>2, DemandGrows
      <3>2. CASE x = v
        BY <2>3, <2>4, <3>1, <3>2
      <3>3. CASE x # v
        <4>1. Asked(l, x) = 0
          BY <3>3 DEF Asked
        <4>2. Summed(taken[s], x) \in Nat
          BY <1>3, SummedIsNat
        <4> QED
          BY <2>3, <3>1, <3>3, <4>1, <4>2
      <3> QED
        BY <3>2, <3>3
    <2>6. (n + 1) - 1 = n
      BY <1>2, LineIs
    <2>7. \A x \in Variants : Summed(units, x) = DemandTo(order'[s], line'[s] - 1, x)
      BY <1>6, <2>5, <2>6
    <2>8. Completes(units, taken'[s], todo'[s])
      BY <1>6, <2>3
    <2> QED
      BY <2>7, <2>8 DEF OnTheWay
  <1>12. Promising(s)'
    BY <1>6, <1>11 DEF Promising
  <1>13. \A q \in Orders : KeyHeld(q)'
    <2>1. Deciding(s) /\ Deciding(s)' /\ order'[s] = order[s]
      BY <1>1, <1>6 DEF Deciding, o
    <2> QED
      BY <1>0, <1>1, <1>9, <2>1, KeysStay
  <1> QED
    BY <1>7, <1>8, <1>9, <1>10, <1>12, <1>13, AtWork, AloneStays DEF OrderInv

LEMMA SelectIngests ==
  ASSUME OrderInv, NEW s \in Webhooks, SelectForUpdate(s), UNCHANGED orderVars
  PROVE  OrderInv'
  <1>1. /\ pc[s] = "select" /\ pc' = [pc EXCEPT ![s] = "apply"]
        /\ UNCHANGED <<job, todo>>
        /\ UNCHANGED <<orders, orderLock, held, order, line, short, taken, verdict>>
    BY DEF SelectForUpdate, orderVars, ingestVars
  <1>0. /\ s \in Sessions /\ StockInv /\ TypeOK /\ OrderTypes /\ Ingesting(s) /\ Promising(s)
    BY AtWork
  <1>2. StockInv'
    BY <1>0, SelectKeeps
  <1>3. OrderTypes'
    BY <1>0, <1>1 DEF OrderTypes
  <1>4. \A t \in Webhooks \ {s} : Alone(t)
    BY <1>0, <1>1, WebhookAssumption DEF Alone, TypeOK
  <1>5. pc'[s] = "apply"
    BY <1>0, <1>1 DEF TypeOK
  <1>6. Ingesting(s)'
    BY <1>0, <1>1, <1>5 DEF Ingesting
  <1>7. OnTheWay(s) => OnTheWay(s)'
    BY <1>1 DEF OnTheWay
  <1>8. Promising(s)'
    BY <1>0, <1>1, <1>5, <1>7 DEF Promising
  <1>9. \A q \in Orders : KeyHeld(q)'
    <2>1. Deciding(s) /\ Deciding(s)' /\ order'[s] = order[s]
      BY <1>1, <1>5 DEF Deciding
    <2> QED
      BY <1>0, <1>1, <1>4, <2>1, KeysStay
  <1> QED
    BY <1>2, <1>3, <1>4, <1>6, <1>8, <1>9, AtWork, AloneStays DEF OrderInv

(* The movement a delivery is about to apply reserves units of a row that  *)
(* no later movement of its plan is about.                                 *)
LEMMA NextReserves ==
  ASSUME OrderInv, NEW s \in Webhooks, pc[s] = "apply"
  PROVE  LET m == Head(todo[s]) IN
           /\ m.row \in Rows /\ m.qty \in Nat /\ m.kind = "reserve"
           /\ Tail(todo[s]) \in Seq(Movement)
           /\ Reserves(Tail(todo[s]))
           /\ WithMore(taken[s], m.row, m.qty) \in [Rows -> Nat]
           /\ Len(todo[s]) > 1 <=> Tail(todo[s]) # <<>>
           /\ \A units \in [Rows -> Nat] :
                Completes(units, taken[s], todo[s])
                  => Completes(units, WithMore(taken[s], m.row, m.qty), Tail(todo[s]))
  <1> DEFINE t == todo[s]
             m == Head(t)
             rest == Tail(t)
             n == Len(rest)
  <1>0. /\ s \in Sessions /\ TypeOK /\ Busy /\ OrderTypes /\ Reserves(t)
    BY AtWork DEF StockInv, Ingesting
  <1>1. /\ t \in Seq(Movement) /\ t # <<>> /\ m \in Movement /\ m.row \in Rows
        /\ rest \in Seq(Movement)
    BY <1>0, HeadIsMovement
  <1>2. /\ n \in Nat /\ Len(t) = n + 1 /\ t[1] = m
        /\ \A i \in 1 .. n : rest[i] = t[i + 1]
    <2>1. n = Len(t) - 1 /\ m = t[1] /\ Len(t) \in Nat /\ n \in Nat
      BY <1>1, HeadTailProperties, LenProperties
    <2>2. \A i \in 1 .. n : rest[i] = t[i + 1]
      BY <1>1, HeadTailProperties
    <2> QED
      BY <2>1, <2>2
  <1> HIDE DEF t, m, rest, n
  <1>3. 1 \in 1 .. Len(t) /\ \A i \in 1 .. n : i + 1 \in 1 .. Len(t) /\ i + 1 # 1
    BY <1>2
  <1>4. m.kind = "reserve" /\ m.qty \in Nat
    <2>1. m.kind = "reserve"
      BY <1>0, <1>2, <1>3 DEF Reserves
    <2> QED
      BY <1>1, <2>1 DEF Movement
  <1>5. Reserves(rest)
    <2>1. ASSUME NEW i \in 1 .. n PROVE rest[i].kind = "reserve" /\ rest[i].expected = NoLevel
      BY <1>0, <1>2, <1>3 DEF Reserves
    <2>2. ASSUME NEW i \in 1 .. n, NEW j \in 1 .. n, rest[i].row = rest[j].row
          PROVE  i = j
      <3>1. t[i + 1].row = t[j + 1].row
        BY <1>2, <2>2
      <3>2. i + 1 = j + 1
        BY <1>0, <1>3, <3>1 DEF Reserves
      <3> QED
        BY <3>2, <1>2
    <2> QED
      BY <2>1, <2>2 DEF Reserves, n
  <1>6. taken[s] \in [Rows -> Nat]
    BY <1>0 DEF OrderTypes
  <1> DEFINE more == WithMore(taken[s], m.row, m.qty)
  <1>7. more \in [Rows -> Nat] /\ more[m.row] = taken[s][m.row] + m.qty
        /\ \A r \in Rows : r # m.row => more[r] = taken[s][r]
    BY <1>1, <1>4, <1>6 DEF WithMore
  <1>8. Len(t) > 1 <=> rest # <<>>
    <2>1. rest = <<>> <=> n = 0
      BY <1>1, EmptySeq DEF n
    <2> QED
      BY <1>2, <2>1
  <1> HIDE DEF more
  <1>9. ASSUME NEW units \in [Rows -> Nat], Completes(units, taken[s], t)
        PROVE  Completes(units, more, rest)
    <2>1. ASSUME NEW r \in Rows, NEW i \in 1 .. n, rest[i].row = r
          PROVE  units[r] = more[r] + rest[i].qty
      <3>1. t[i + 1].row = r /\ rest[i] = t[i + 1]
        BY <1>2, <2>1
      <3>2. units[r] = taken[s][r] + rest[i].qty
        BY <1>3, <1>9, <3>1 DEF Completes
      <3>3. r # m.row
        BY <1>0, <1>2, <1>3, <3>1 DEF Reserves
      <3> QED
        BY <1>7, <3>2, <3>3
    <2>2. ASSUME NEW r \in Rows, \A i \in 1 .. n : rest[i].row # r
          PROVE  units[r] = more[r]
      <3>1. CASE r = m.row
        <4>1. units[r] = taken[s][r] + m.qty
          BY <1>2, <1>3, <1>9, <3>1 DEF Completes
        <4> QED
          BY <1>7, <3>1, <4>1
      <3>2. CASE r # m.row
        <4>1. ASSUME NEW j \in 1 .. Len(t) PROVE t[j].row # r
          <5>1. CASE j = 1
            BY <1>2, <3>2, <5>1
          <5>2. CASE j # 1
            <6>1. j - 1 \in 1 .. n /\ (j - 1) + 1 = j
              BY <1>2, <5>2
            <6>2. rest[j - 1] = t[j]
              BY <1>2, <6>1
            <6> QED
              BY <2>2, <6>1, <6>2
          <5> QED
            BY <5>1, <5>2
        <4>2. units[r] = taken[s][r]
          BY <1>9, <4>1 DEF Completes
        <4> QED
          BY <1>7, <3>2, <4>2
      <3> QED
        BY <3>1, <3>2
    <2> QED
      BY <2>1, <2>2 DEF Completes, n
  <1> QED
    BY <1>1, <1>4, <1>5, <1>7, <1>8, <1>9 DEF t, m, rest, more

LEMMA ApplyIngests ==
  ASSUME OrderInv, NEW s \in Webhooks, ApplyMovement(s),
         taken' = [taken EXCEPT ![s] = Take(s, Head(todo[s]))],
         UNCHANGED <<orders, orderLock, held, order, line, short, verdict>>
  PROVE  OrderInv'
  <1> DEFINE m == Head(todo[s])
             more == WithMore(taken[s], m.row, m.qty)
             rest == Tail(todo[s])
  <1>1. /\ pc[s] = "apply" /\ pc' = [pc EXCEPT ![s] = AfterMovement(s)]
        /\ todo' = [todo EXCEPT ![s] = Tail(@)]
        /\ UNCHANGED job
    BY DEF ApplyMovement
  <1>0. /\ s \in Sessions /\ StockInv /\ TypeOK /\ OrderTypes /\ Ingesting(s) /\ Promising(s)
        /\ job[s] = "order" /\ order[s] \in Orders
    BY <1>1, AtWork
  <1>2. StockInv'
    BY <1>0, ApplyKeeps
  <1>3. /\ more \in [Rows -> Nat] /\ Reserves(rest) /\ (Len(todo[s]) > 1 <=> rest # <<>>)
        /\ \A units \in [Rows -> Nat] :
             Completes(units, taken[s], todo[s]) => Completes(units, more, rest)
    BY <1>1, NextReserves
  <1>4. taken' = [taken EXCEPT ![s] = more]
    BY DEF Take, WithMore
  <1> HIDE DEF more, rest
  <1>5. OrderTypes'
    <2>1. taken' \in [Webhooks -> [Rows -> Nat]]
      BY <1>0, <1>3, <1>4 DEF OrderTypes
    <2> QED
      BY <1>0, <2>1 DEF OrderTypes
  <1>6. \A t \in Webhooks \ {s} : Alone(t)
    BY <1>0, <1>1, <1>4, WebhookAssumption DEF Alone, TypeOK, OrderTypes
  <1>7. /\ pc'[s] = IF Len(todo[s]) > 1 THEN "select" ELSE "plan"
        /\ todo'[s] = rest /\ taken'[s] = more
        /\ job'[s] = "order" /\ order'[s] = order[s] /\ line'[s] = line[s] /\ short'[s] = short[s]
    <2>1. AfterMovement(s) = IF Len(todo[s]) > 1 THEN "select" ELSE "plan"
      BY <1>0 DEF AfterMovement
    <2>2. pc'[s] = AfterMovement(s)
      BY <1>0, <1>1 DEF TypeOK
    <2>3. todo'[s] = rest /\ taken'[s] = more
      BY <1>0, <1>1, <1>4 DEF TypeOK, OrderTypes, rest
    <2> QED
      BY <1>0, <1>1, <2>1, <2>2, <2>3
  <1>8. Ingesting(s)'
    BY <1>0, <1>3, <1>7 DEF Ingesting
  <1>9. OnTheWay(s) => OnTheWay(s)'
    <2>1. ASSUME NEW u \in [Rows -> Nat], Completes(u, taken[s], todo[s]),
                 \A v \in Variants : Summed(u, v) = DemandTo(order[s], line[s] - 1, v)
          PROVE  OnTheWay(s)'
      <3>1. Completes(u, taken'[s], todo'[s])
        BY <1>3, <1>7, <2>1
      <3>2. \A v \in Variants : Summed(u, v) = DemandTo(order'[s], line'[s] - 1, v)
        BY <1>7, <2>1
      <3> QED
        BY <3>1, <3>2 DEF OnTheWay
    <2> QED
      BY <2>1 DEF OnTheWay
  <1>10. Promising(s)'
    <2>1. pc'[s] \in {"select", "plan"}
      BY <1>7
    <2> QED
      BY <1>0, <1>1, <1>7, <1>9, <2>1 DEF Promising
  <1>11. \A q \in Orders : KeyHeld(q)'
    <2>1. Deciding(s) /\ Deciding(s)' /\ order'[s] = order[s]
      BY <1>1, <1>7 DEF Deciding
    <2> QED
      BY <1>0, <1>6, <2>1, KeysStay
  <1> QED
    BY <1>2, <1>5, <1>6, <1>8, <1>10, <1>11, AtWork, AloneStays DEF OrderInv

LEMMA AcceptIngests ==
  ASSUME OrderInv, NEW s \in Webhooks, Accept(s)
  PROVE  OrderInv'
  <1>1. /\ pc[s] = "plan" /\ ~ short[s] /\ line[s] > Len(Lines[order[s]])
        /\ verdict' = [verdict EXCEPT ![s] = "reserved"]
        /\ pc' = [pc EXCEPT ![s] = "commit"]
        /\ UNCHANGED <<job, todo, orders, orderLock, held, order, line, short, taken>>
        /\ UNCHANGED <<stockVars, seen>>
    BY DEF Accept, AllLinesDone
  <1>0. /\ s \in Sessions /\ StockInv /\ TypeOK /\ OrderTypes /\ Ingesting(s) /\ Promising(s)
        /\ job[s] = "order" /\ order[s] \in Orders /\ todo[s] = <<>>
    BY <1>1, AtWork DEF Ingesting
  <1>2. StockInv'
    <2>1. job' \in [Sessions -> {"none", "movement", "transfer", "order", "sync"}]
      BY <1>0, <1>1 DEF TypeOK
    <2> QED
      BY <1>0, <1>1, <2>1, KeepTodo, ThinkKeeps
  <1>3. OrderTypes'
    BY <1>0, <1>1 DEF OrderTypes, Status
  <1>4. \A t \in Webhooks \ {s} : Alone(t)
    BY <1>0, <1>1, WebhookAssumption DEF Alone, TypeOK, OrderTypes
  <1>5. pc'[s] = "commit" /\ verdict'[s] = "reserved"
    BY <1>0, <1>1 DEF TypeOK, OrderTypes
  <1>6. Ingesting(s)'
    BY <1>0, <1>1, <1>5 DEF Ingesting
  <1>7. \A v \in Variants : Summed(taken[s], v) = Demand(order[s], v)
    <2>1. PICK u \in [Rows -> Nat] :
            /\ Completes(u, taken[s], todo[s])
            /\ \A v \in Variants : Summed(u, v) = DemandTo(order[s], line[s] - 1, v)
      BY <1>0, <1>1 DEF Promising, OnTheWay
    <2>2. u = taken[s]
      BY <1>0, <2>1, NothingLeft DEF OrderTypes
    <2>3. line[s] - 1 \in Nat /\ line[s] - 1 >= Len(Lines[order[s]])
      BY <1>0, <1>1, LineIs DEF OrderTypes
    <2> QED
      BY <1>0, <2>1, <2>2, <2>3, DemandGrows
  <1>8. Decided(s)'
    BY <1>1, <1>5, <1>7 DEF Decided
  <1>9. Promising(s)'
    BY <1>5, <1>8 DEF Promising
  <1>10. \A q \in Orders : KeyHeld(q)'
    <2>1. Deciding(s) /\ Deciding(s)' /\ order'[s] = order[s]
      BY <1>1, <1>5 DEF Deciding
    <2> QED
      BY <1>0, <1>1, <1>4, <2>1, KeysStay
  <1> QED
    BY <1>2, <1>3, <1>4, <1>6, <1>9, <1>10, AtWork, AloneStays DEF OrderInv

LEMMA RejectIngests ==
  ASSUME OrderInv, NEW s \in Webhooks, Reject(s)
  PROVE  OrderInv'
  <1>1. /\ UnknownSku(s) \/ OutOfStock(s) \/ Fails(s)
        /\ taken' = [taken EXCEPT ![s] = NothingTaken]
        /\ todo' = [todo EXCEPT ![s] = <<>>]
        /\ verdict' = [verdict EXCEPT ![s] = "rejected"]
        /\ pc' = [pc EXCEPT ![s] = "commit"]
        /\ UNCHANGED <<job, orders, orderLock, held, order, line, short>>
    BY DEF Reject
  <1>0. s \in Sessions /\ StockInv /\ TypeOK /\ OrderTypes /\ Ingesting(s)
    BY AtWork
  <1>2. pc[s] \in {"plan", "select", "apply"} /\ job[s] = "order" /\ order[s] \in Orders
    <2>1. pc[s] \in {"plan", "select", "insert", "apply"}
      BY <1>1 DEF UnknownSku, OutOfStock, Fails, NoLevelYet, ConcurrentlyCreated, Refused
    <2> QED
      BY <1>0, <2>1 DEF Ingesting
  <1>3. StockInv'
    BY <1>0, RejectKeeps
  <1>4. OrderTypes'
    <2>1. NothingTaken \in [Rows -> Nat]
      BY DEF NothingTaken
    <2>2. taken' \in [Webhooks -> [Rows -> Nat]]
      BY <1>0, <1>1, <2>1 DEF OrderTypes
    <2>3. verdict' \in [Webhooks -> Status]
      BY <1>0, <1>1 DEF OrderTypes, Status
    <2> QED
      BY <1>0, <1>1, <2>2, <2>3 DEF OrderTypes
  <1>5. \A t \in Webhooks \ {s} : Alone(t)
    BY <1>0, <1>1, WebhookAssumption DEF Alone, TypeOK, OrderTypes
  <1>6. pc'[s] = "commit" /\ verdict'[s] = "rejected" /\ taken'[s] = NothingTaken /\ todo'[s] = <<>>
    BY <1>0, <1>1 DEF TypeOK, OrderTypes
  <1>7. Reserves(<<>>)
    BY DEF Reserves
  <1>8. Ingesting(s)'
    BY <1>1, <1>2, <1>6, <1>7 DEF Ingesting
  <1>9. Promising(s)'
    BY <1>6 DEF Promising, Decided
  <1>10. \A q \in Orders : KeyHeld(q)'
    <2>1. Deciding(s) /\ Deciding(s)' /\ order'[s] = order[s]
      BY <1>1, <1>2, <1>6 DEF Deciding
    <2> QED
      BY <1>0, <1>1, <1>5, <2>1, KeysStay
  <1> QED
    BY <1>3, <1>4, <1>5, <1>8, <1>9, <1>10, AtWork, AloneStays DEF OrderInv

(* What the commit of a delivery does to the orders.                       *)
LEMMA CommitOrderDecides ==
  ASSUME OrderInv, NEW s \in Webhooks, CommitOrder(s)
  PROVE  LET o == order[s] IN
           /\ o \in Orders /\ orders[o] = "none" /\ held[o] = NothingTaken /\ orderLock[o] = s
           /\ taken[s] \in [Rows -> Nat]
           /\ orders' = [orders EXCEPT ![o] = verdict[s]]
           /\ held' = [held EXCEPT ![o] = taken[s]]
           /\ Decided(s)
  <1> DEFINE o == order[s]
  <1>1. /\ pc[s] = "commit"
        /\ orders' = [orders EXCEPT ![o] = verdict[s]]
        /\ held' = [held EXCEPT ![o] = [r \in Rows |-> @[r] + taken[s][r]]]
    BY DEF CommitOrder
  <1>0. OrderTypes /\ Promising(s) /\ o \in Orders /\ Deciding(s) /\ s # NoSession
    BY <1>1, AtWork DEF Deciding
  <1>2. KeyHeld(o)
    BY <1>0 DEF OrderInv
  <1>3. orderLock[o] = s /\ orders[o] = "none" /\ held[o] = NothingTaken
    BY <1>0, <1>2 DEF KeyHeld
  <1>4. taken[s] \in [Rows -> Nat]
    BY <1>0 DEF OrderTypes
  <1>5. \A r \in Rows : NothingTaken[r] + taken[s][r] = taken[s][r]
    BY <1>4 DEF NothingTaken
  <1>6. [r \in Rows |-> NothingTaken[r] + taken[s][r]] = taken[s]
    BY <1>4, <1>5
  <1>7. held' = [held EXCEPT ![o] = taken[s]]
    BY <1>1, <1>3, <1>6
  <1>8. Decided(s)
    BY <1>0, <1>1 DEF Promising
  <1> QED
    BY <1>0, <1>1, <1>3, <1>4, <1>7, <1>8

LEMMA CommitOrderIngests ==
  ASSUME OrderInv, NEW s \in Webhooks, CommitOrder(s)
  PROVE  OrderInv'
  <1> DEFINE o == order[s]
  <1>1. Publish(s) /\ FinishOrder(s) /\ Finish(s) /\ UNCHANGED nextSeq
    BY DEF CommitOrder, FinishOrder
  <1>0. s \in Sessions /\ s # NoSession /\ StockInv /\ OrderTypes
    BY AtWork
  <1>2. /\ o \in Orders /\ orders[o] = "none" /\ held[o] = NothingTaken /\ orderLock[o] = s
        /\ taken[s] \in [Rows -> Nat]
        /\ orders' = [orders EXCEPT ![o] = verdict[s]]
        /\ held' = [held EXCEPT ![o] = taken[s]]
        /\ Decided(s)
    BY CommitOrderDecides
  <1>3. StockInv'
    BY <1>0, <1>1, CommitKeeps
  <1>4. OrderTypes'
    <2>1. orders' \in [Orders -> Status] /\ held' \in [Orders -> [Rows -> Nat]]
      BY <1>0, <1>2 DEF OrderTypes
    <2> QED
      BY <1>1, <2>1, FinishOrderTypes DEF OrderTypes
  <1>5. ASSUME NEW q \in Orders PROVE KeyHeld(q)'
    <2>1. KeyHeld(q)
      BY DEF OrderInv
    <2>2. ASSUME NEW t \in Webhooks PROVE orderLock'[q] = t <=> Deciding(t)' /\ order'[t] = q
      <3>1. CASE t = s
        BY <1>0, <1>1, <2>1, <3>1, FinishOrderLeaves, FinishOrderUnlocks
      <3>2. CASE t # s
        <4>1. (Deciding(t)' <=> Deciding(t)) /\ order'[t] = order[t]
          BY <1>1, <3>2, FinishOrderLeaves DEF Alone, Deciding
        <4>2. orderLock'[q] = t <=> orderLock[q] = t
          BY <1>1, <3>2, FinishOrderUnlocks, WebhookAssumption, SessionAssumption
        <4> QED
          BY <2>1, <4>1, <4>2 DEF KeyHeld
      <3> QED
        BY <3>1, <3>2
    <2>3. orderLock'[q] # NoSession => orderLock[q] # NoSession /\ orders'[q] = "none"
      <3>1. CASE q = o
        BY <1>1, <1>2, <3>1, FinishOrderUnlocks
      <3>2. CASE q # o
        <4>1. orders'[q] = orders[q]
          BY <1>0, <1>2, <3>2 DEF OrderTypes
        <4> QED
          BY <1>1, <2>1, <4>1, FinishOrderUnlocks DEF KeyHeld
      <3> QED
        BY <3>1, <3>2
    <2>4. orders'[q] # "reserved" => held'[q] = NothingTaken
      <3>1. CASE q = o
        <4>1. orders'[q] = verdict[s] /\ held'[q] = taken[s]
          BY <1>0, <1>2, <3>1 DEF OrderTypes
        <4> QED
          BY <1>2, <4>1 DEF Decided
      <3>2. CASE q # o
        BY <1>0, <1>2, <2>1, <3>2 DEF OrderTypes, KeyHeld
      <3> QED
        BY <3>1, <3>2
    <2> QED
      BY <2>2, <2>3, <2>4 DEF KeyHeld
  <1>6. \A t \in Webhooks : Ingesting(t)' /\ Promising(t)'
    BY <1>1, FinishOrderLeaves, AtWork, AloneStays
  <1> QED
    BY <1>3, <1>4, <1>5, <1>6 DEF OrderInv

(* An API caller's step keeps what is known of the deliveries.             *)
LEMMA ApiStepIngests ==
  ASSUME OrderInv, NEW s \in Sessions \ Webhooks, ApiStep(s), UNCHANGED orderVars
  PROVE  OrderInv'
  <1>1. UNCHANGED <<orders, orderLock, held, order, line, short, taken, verdict>>
    BY DEF orderVars, ingestVars
  <1>0. StockInv /\ OrderTypes
    BY DEF OrderInv
  <1>2. StockInv'
    BY <1>0, ApiStepKeeps
  <1>3. OrderTypes'
    BY <1>0, <1>1 DEF OrderTypes
  <1>4. \A t \in Webhooks : Alone(t)
    <2>1. \A t \in Webhooks : t \in Sessions /\ t # s
      BY WebhookAssumption
    <2> QED
      BY <1>0, <1>1, <2>1, OthersUntouched DEF Untouched, Alone
  <1>5. \A q \in Orders : KeyHeld(q)'
    BY <1>1, <1>4, KeysStay
  <1> QED
    BY <1>2, <1>3, <1>4, <1>5, AloneStays DEF OrderInv

LEMMA StutterIngests ==
  ASSUME OrderInv, UNCHANGED allOrderVars
  PROVE  OrderInv'
  <1>1. /\ UNCHANGED vars /\ UNCHANGED <<job, pc, todo>>
        /\ UNCHANGED <<orders, orderLock, held, order, line, short, taken, verdict>>
    BY DEF allOrderVars, orderVars, ingestVars, vars, sessionVars
  <1>0. StockInv /\ OrderTypes
    BY DEF OrderInv
  <1>2. StockInv'
    BY <1>0, <1>1, StutterKeeps
  <1>3. OrderTypes'
    BY <1>0, <1>1 DEF OrderTypes
  <1>4. \A t \in Webhooks : Alone(t)
    BY <1>1 DEF Alone
  <1>5. \A q \in Orders : KeyHeld(q)'
    BY <1>1 DEF OrderInv, KeyHeld, Deciding
  <1> QED
    BY <1>2, <1>3, <1>4, <1>5, AloneStays DEF OrderInv

LEMMA WebhookStepIngests ==
  ASSUME OrderInv, NEW s \in Webhooks, WebhookStep(s)
  PROVE  OrderInv'
  <1>1. CASE \E o \in Orders : Deliver(s, o)
    BY <1>1, DeliverIngests
  <1>2. CASE RecordOrder(s)
    BY <1>2, RecordOrderIngests
  <1>3. CASE Duplicate(s) \/ CrashOrder(s) \/ AbortOrderDeadlock(s)
    <2>1. FinishOrder(s) /\ UNCHANGED <<levels, journal, outbox, orders, held>>
      BY <1>3 DEF Duplicate, CrashOrder, AbortOrderDeadlock, RollBackOrder
    <2> QED
      BY <2>1, FinishOrderIngests
  <1>4. CASE PlanLine(s)
    BY <1>4, PlanLineIngests
  <1>5. CASE ReserveMovement(s)
    BY <1>5, SelectIngests, ApplyIngests DEF ReserveMovement
  <1>6. CASE Accept(s)
    BY <1>6, AcceptIngests
  <1>7. CASE Reject(s)
    BY <1>7, RejectIngests
  <1>8. CASE CommitOrder(s)
    BY <1>8, CommitOrderIngests
  <1> QED
    BY <1>1, <1>2, <1>3, <1>4, <1>5, <1>6, <1>7, <1>8 DEF WebhookStep, Progress

(* The invariant: whoever delivers what how often, the tables stay sound,  *)
(* an order has at most one transaction deciding it, and that transaction  *)
(* has taken exactly what the lines it has passed ask.                     *)
THEOREM OrderInvariant == OrderSpec => []OrderInv
  <1>1. OrderInv /\ [OrderNext]_allOrderVars => OrderInv'
    BY WebhookStepIngests, ApiStepIngests, StutterIngests DEF OrderNext
  <1> QED
    BY InitOrders, <1>1, PTL DEF OrderSpec

(* Type correctness of order ingest.                                       *)
THEOREM OrderTypesCorrect == Orders # {} => (OrderSpec => []OrderTypeOK)
  <1> SUFFICES ASSUME Orders # {} PROVE OrderSpec => []OrderTypeOK
    OBVIOUS
  <1>1. AnyOrder \in Orders
    BY DEF AnyOrder
  <1>2. OrderInv => OrderTypeOK
    <2> SUFFICES ASSUME OrderInv PROVE OrderTypeOK
      OBVIOUS
    <2>1. TypeOK /\ OrderTypes
      BY DEF OrderInv, StockInv
    <2>2. order \in [Webhooks -> Orders] /\ line \in [Webhooks -> Nat]
      BY <1>1, <2>1 DEF OrderTypes
    <2> QED
      BY <2>1, <2>2 DEF OrderTypes, OrderTypeOK
  <1> QED
    BY <1>2, OrderInvariant, PTL

(* Orders that are reserved, rolled back to their savepoint or crash leave *)
(* the stock tables as sound as API callers do: _effect lets nothing       *)
(* through that the CHECK constraints would refuse, and the journal        *)
(* explains every level.                                                   *)
THEOREM OrdersKeepTheTables == OrderSpec => [](GuardsSuffice /\ JournalExplainsLevels)
  <1>1. OrderInv => GuardsSuffice /\ JournalExplainsLevels
    <2> SUFFICES ASSUME OrderInv PROVE GuardsSuffice /\ JournalExplainsLevels
      OBVIOUS
    <2>1. StockInv
      BY DEF OrderInv
    <2>2. GuardsSuffice
      BY <2>1, StoredUnderLock DEF GuardsSuffice
    <2>3. JournalExplainsLevels
      BY <2>1 DEF StockInv, RowsExplained, Explains, JournalExplainsLevels
    <2> QED
      BY <2>2, <2>3
  <1> QED
    BY <1>1, OrderInvariant, PTL

(* Only the commit of a delivery changes what is promised.                 *)
LEMMA OnlyCommitsPromise ==
  ASSUME [OrderNext]_allOrderVars
  PROVE  UNCHANGED <<orders, held>> \/ \E s \in Webhooks : CommitOrder(s)
  <1>1. CASE UNCHANGED allOrderVars
    BY <1>1 DEF allOrderVars, orderVars
  <1>2. ASSUME NEW s \in Webhooks, WebhookStep(s), ~ CommitOrder(s)
        PROVE  UNCHANGED <<orders, held>>
    BY <1>2 DEF WebhookStep, Progress, Deliver, RecordOrder, Duplicate, PlanLine, ReserveMovement,
       Accept, Reject, AbortOrderDeadlock, CrashOrder, RollBackOrder, orderVars
  <1>3. CASE UNCHANGED orderVars
    BY <1>3 DEF orderVars
  <1> QED
    BY <1>1, <1>2, <1>3 DEF OrderNext

(* A commit is a decision of the abstract order book.                      *)
LEMMA CommitDecides ==
  ASSUME OrderInv, NEW s \in Webhooks, CommitOrder(s)
  PROVE  Book!Next
  <1> DEFINE o == order[s]
             promised == [q \in Orders |-> HeldFor(q)]
             after == [q \in Orders |-> [v \in Variants |-> Summed(held'[q], v)]]
  <1>0. promised' = after
    BY DEF HeldFor
  <1>1. /\ o \in Orders /\ orders[o] = "none" /\ held[o] = NothingTaken
        /\ orders' = [orders EXCEPT ![o] = verdict[s]]
        /\ held' = [held EXCEPT ![o] = taken[s]]
        /\ Decided(s)
    BY CommitOrderDecides
  <1>2. held \in [Orders -> [Rows -> Nat]]
    BY AtWork DEF OrderTypes
  <1>3. CASE verdict[s] = "rejected" /\ taken[s] = NothingTaken
    <2>1. held' = held
      BY <1>1, <1>2, <1>3
    <2>2. promised' = promised
      BY <2>1 DEF HeldFor
    <2> HIDE DEF o, after
    <2> QED
      BY <1>1, <1>3, <2>2 DEF Book!Next, Book!Reject
  <1>4. CASE verdict[s] = "reserved" /\ \A v \in Variants : Summed(taken[s], v) = Demand(o, v)
    <2>1. after = [promised EXCEPT ![o] = [v \in Variants |-> Demand(o, v)]]
      <3>1. ASSUME NEW q \in Orders, q # o
            PROVE  [v \in Variants |-> Summed(held'[q], v)] = HeldFor(q)
        <4>1. held'[q] = held[q]
          BY <1>1, <1>2, <3>1
        <4> QED
          BY <4>1 DEF HeldFor
      <3>2. [v \in Variants |-> Summed(held'[o], v)] = [v \in Variants |-> Demand(o, v)]
        <4>1. held'[o] = taken[s]
          BY <1>1, <1>2
        <4> QED
          BY <1>4, <4>1
      <3> DEFINE new == [v \in Variants |-> Demand(o, v)]
                 then == [promised EXCEPT ![o] = new]
      <3>3. ASSUME NEW q \in Orders PROVE after[q] = IF q = o THEN new ELSE HeldFor(q)
        BY <3>1, <3>2
      <3> HIDE DEF after, new
      <3>4. then = [q \in Orders |-> IF q = o THEN new ELSE HeldFor(q)]
        BY <1>1
      <3>5. after = [q \in Orders |-> after[q]]
        BY DEF after
      <3>6. after = then
        BY <3>3, <3>4, <3>5
      <3> QED
        BY <3>6 DEF new
    <2> QED
      BY <1>0, <1>1, <1>4, <2>1 DEF Book!Next, Book!Reserve
  <1> QED
    BY <1>1, <1>3, <1>4 DEF Decided

(* Seen from outside an order is decided once and for all, and at that     *)
(* instant the whole of its demand is reserved for it or nothing.          *)
THEOREM OrdersAreDecidedOnce == OrderSpec => ImplementsOrderBook
  <1> DEFINE promised == [o \in Orders |-> HeldFor(o)]
  <1>1. OrderInit => Book!Init
    <2> SUFFICES ASSUME OrderInit PROVE Book!Init
      OBVIOUS
    <2>1. \A o \in Orders : held[o] = NothingTaken
      BY DEF OrderInit
    <2>2. \A o \in Orders : HeldFor(o) = [v \in Variants |-> 0]
      BY <2>1, SummedNothing DEF HeldFor
    <2> QED
      BY <2>2 DEF OrderInit, Book!Init, Book!NothingPromised
  <1>2. OrderInv /\ [OrderNext]_allOrderVars => [Book!Next]_<<orders, promised>>
    <2> SUFFICES ASSUME OrderInv, [OrderNext]_allOrderVars
                 PROVE  [Book!Next]_<<orders, promised>>
      OBVIOUS
    <2>1. CASE UNCHANGED <<orders, held>>
      <3>1. promised' = promised
        BY <2>1 DEF HeldFor
      <3> QED
        BY <2>1, <3>1
    <2>2. ASSUME NEW s \in Webhooks, CommitOrder(s) PROVE Book!Next
      BY <2>2, CommitDecides
    <2> QED
      BY <2>1, <2>2, OnlyCommitsPromise
  <1> QED
    BY <1>1, <1>2, OrderInvariant, PTL DEF OrderSpec, ImplementsOrderBook, Book!Spec

-----------------------------------------------------------------------------
(***************************************************************************)
(* Reservations and orders.  What a session's drafts have reserved more    *)
(* than the committed rows is what its delivery has taken.                 *)
(***************************************************************************)
OnlyOrdersReserve == ApiKinds \cap {"reserve", "unreserve"} = {}

TakenBy(s) == IF s \in Webhooks THEN taken[s] ELSE NothingTaken

Holds(s) ==
  /\ s \notin Webhooks =>
       \A i \in 1 .. Len(todo[s]) : todo[s][i].kind \notin {"reserve", "unreserve"}
  /\ \A r \in Rows : holder[r] # s => TakenBy(s)[r] = 0
  /\ \A r \in Rows : holder[r] = s =>
       draft[r].level.reserved = levels[r].reserved + TakenBy(s)[r]

HoldInv == OrderInv /\ (\A s \in Sessions : Holds(s)) /\ ReservationsHaveOrders

LEMMA HoldTypes ==
  ASSUME OrderInv, NEW s \in Sessions
  PROVE  /\ StockInv /\ TypeOK
         /\ TakenBy(s) \in [Rows -> Nat]
         /\ \A r \in Rows : levels[r].reserved \in Nat /\ draft[r].level.reserved \in Nat
  <1>1. StockInv /\ TypeOK /\ OrderTypes
    BY DEF OrderInv, StockInv
  <1>2. TakenBy(s) \in [Rows -> Nat]
    BY <1>1 DEF OrderTypes, TakenBy, NothingTaken
  <1>3. \A r \in Rows : levels[r].reserved \in Nat /\ draft[r].level.reserved \in Nat
    BY <1>1 DEF TypeOK, Level
  <1> QED
    BY <1>1, <1>2, <1>3

(* Steps that leave a session's rows alone leave what it holds.            *)
LEMMA UntouchedHolds ==
  ASSUME NEW t \in Sessions, Untouched(t), Holds(t), TakenBy(t)' = TakenBy(t)
  PROVE  Holds(t)'
  BY DEF Untouched, Holds

(* A row just locked holds nothing of its new owner's yet.                 *)
LEMMA LockHolds ==
  ASSUME OrderInv, NEW s \in Sessions, Holds(s), NEW r \in Rows, Lock(s, r),
         UNCHANGED <<levels, todo>>, TakenBy(s)' = TakenBy(s)
  PROVE  Holds(s)'
  <1>0. StockInv /\ TypeOK /\ TakenBy(s) \in [Rows -> Nat]
        /\ \A x \in Rows : levels[x].reserved \in Nat
    BY HoldTypes
  <1>1. /\ holder[r] \in {NoSession, s} /\ holder'[r] = s
        /\ draft'[r].level = View(s, r)
        /\ \A x \in Rows \ {r} : holder'[x] = holder[x] /\ draft'[x] = draft[x]
    BY <1>0 DEF TypeOK, Lock
  <1>2. \A x \in Rows : holder'[x] # s => TakenBy(s)[x] = 0
    BY <1>1 DEF Holds
  <1>3. ASSUME NEW x \in Rows, holder'[x] = s
        PROVE  draft'[x].level.reserved = levels[x].reserved + TakenBy(s)[x]
    <2>1. CASE x # r
      BY <1>1, <1>3, <2>1 DEF Holds
    <2>2. CASE x = r /\ holder[r] = s
      BY <1>1, <2>2 DEF Holds, View
    <2>3. CASE x = r /\ holder[r] # s
      <3>1. TakenBy(s)[r] = 0 /\ draft'[r].level = levels[r]
        BY <1>1, <2>3 DEF Holds, View
      <3> QED
        BY <1>0, <2>3, <3>1
    <2> QED
      BY <2>1, <2>2, <2>3
  <1> QED
    BY <1>2, <1>3 DEF Holds

(* A transaction that is over holds nothing.                               *)
LEMMA FinishHolds ==
  ASSUME NEW s \in Sessions, Release(s), todo' = [todo EXCEPT ![s] = <<>>], TypeOK, OrderTypes,
         s \in Webhooks => taken' = [taken EXCEPT ![s] = NothingTaken]
  PROVE  Holds(s)'
  <1>1. todo'[s] = <<>>
    BY DEF TypeOK
  <1>2. \A r \in Rows : holder'[r] # s
    BY SessionAssumption DEF Release
  <1>3. TakenBy(s)' = NothingTaken
    BY DEF TakenBy, OrderTypes
  <1>4. \A r \in Rows : NothingTaken[r] = 0
    BY DEF NothingTaken
  <1> QED
    BY <1>1, <1>2, <1>3, <1>4 DEF Holds

(* A reservation applied is one taken.                                     *)
LEMMA ApplyHolds ==
  ASSUME OrderInv, NEW s \in Sessions, Holds(s), ApplyMovement(s),
         s \in Webhooks => taken' = [taken EXCEPT ![s] = Take(s, Head(todo[s]))]
  PROVE  Holds(s)'
  <1> DEFINE m == Head(todo[s])
             new == Stored(s, m)
  <1>1. /\ pc[s] = "apply"
        /\ holder' = [holder EXCEPT ![m.row] = s]
        /\ draft' = [draft EXCEPT ![m.row] = [level |-> new, journal |-> Entered(Booked(s, m.row), m)]]
        /\ todo' = [todo EXCEPT ![s] = Tail(@)]
        /\ UNCHANGED levels
    BY DEF ApplyMovement
  <1>0. StockInv /\ TypeOK /\ TakenBy(s) \in [Rows -> Nat] /\ Busy
        /\ \A x \in Rows : levels[x].reserved \in Nat /\ draft[x].level.reserved \in Nat
    BY HoldTypes DEF StockInv
  <1>2. /\ m \in Movement /\ m.row \in Rows /\ holder[m.row] = s
        /\ new = [qty      |-> draft[m.row].level.qty + QtyDelta(m),
                  reserved |-> draft[m.row].level.reserved + ReservedDelta(m),
                  version  |-> draft[m.row].level.version + 1]
    BY <1>0, <1>1, StoredUnderLock
  <1>3. new.reserved = draft[m.row].level.reserved + ReservedDelta(m)
    BY <1>2
  <1>4. m.qty \in Int
    BY <1>2 DEF Movement
  <1>5. /\ todo[s] \in Seq(Movement) /\ todo[s] # <<>> /\ Len(todo[s]) \in Nat
        /\ Len(Tail(todo[s])) = Len(todo[s]) - 1 /\ m = todo[s][1] /\ Len(todo[s]) > 0
        /\ \A i \in 1 .. Len(Tail(todo[s])) : Tail(todo[s])[i] = todo[s][i + 1]
    <2>1. todo[s] \in Seq(Movement) /\ todo[s] # <<>>
      BY <1>0, <1>1, HeadIsMovement
    <2>2. Len(todo[s]) \in Nat /\ Len(todo[s]) > 0
      BY <2>1, LenProperties, EmptySeq
    <2> QED
      BY <2>1, <2>2, HeadTailProperties
  <1> HIDE DEF m, new
  <1>6. /\ holder' = holder /\ draft'[m.row].level = new
        /\ \A x \in Rows \ {m.row} : draft'[x] = draft[x]
        /\ todo'[s] = Tail(todo[s])
    BY <1>0, <1>1, <1>2 DEF TypeOK
  <1>7. TakenBy(s)'[m.row] = TakenBy(s)[m.row] + ReservedDelta(m)
        /\ \A x \in Rows \ {m.row} : TakenBy(s)'[x] = TakenBy(s)[x]
    <2>1. CASE s \in Webhooks
      <3>1. m.kind = "reserve"
        BY <1>1, <2>1, NextReserves DEF m
      <3>2. taken' = [taken EXCEPT ![s] = [taken[s] EXCEPT ![m.row] = @ + m.qty]]
        BY <2>1 DEF Take, m
      <3>3. taken \in [Webhooks -> [Rows -> Nat]]
        BY DEF OrderInv, OrderTypes
      <3>4. taken'[s] = [taken[s] EXCEPT ![m.row] = @ + m.qty] /\ taken[s] \in [Rows -> Nat]
        BY <2>1, <3>2, <3>3
      <3>5. TakenBy(s) = taken[s] /\ TakenBy(s)' = taken'[s]
        BY <2>1 DEF TakenBy
      <3> QED
        BY <1>2, <3>1, <3>4, <3>5 DEF ReservedDelta
    <2>2. CASE s \notin Webhooks
      <3>1. m.kind \notin {"reserve", "unreserve"}
        <4>1. 1 \in 1 .. Len(todo[s])
          BY <1>5
        <4> QED
          BY <1>5, <2>2, <4>1 DEF Holds
      <3>2. ReservedDelta(m) = 0
        BY <3>1 DEF ReservedDelta
      <3>3. TakenBy(s) = NothingTaken /\ TakenBy(s)' = NothingTaken
        BY <2>2 DEF TakenBy
      <3> QED
        BY <1>2, <3>2, <3>3 DEF NothingTaken
    <2> QED
      BY <2>1, <2>2
  <1>8. ASSUME s \notin Webhooks, NEW i \in 1 .. Len(todo'[s])
        PROVE  todo'[s][i].kind \notin {"reserve", "unreserve"}
    <2>1. i + 1 \in 1 .. Len(todo[s]) /\ todo'[s][i] = todo[s][i + 1]
      BY <1>5, <1>6
    <2> QED
      BY <1>8, <2>1 DEF Holds
  <1>9. ASSUME NEW x \in Rows, holder'[x] # s PROVE TakenBy(s)'[x] = 0
    <2>1. x # m.row /\ holder[x] # s
      BY <1>2, <1>6, <1>9
    <2> QED
      BY <1>7, <2>1 DEF Holds
  <1>10. ASSUME NEW x \in Rows, holder'[x] = s
         PROVE  draft'[x].level.reserved = levels'[x].reserved + TakenBy(s)'[x]
    <2>1. draft[x].level.reserved = levels[x].reserved + TakenBy(s)[x]
      BY <1>6, <1>10 DEF Holds
    <2>2. CASE x = m.row
      <3>1. ReservedDelta(m) \in Int
        BY <1>4 DEF ReservedDelta
      <3>2. draft'[x].level.reserved = draft[x].level.reserved + ReservedDelta(m)
        BY <1>3, <1>6, <2>2
      <3>3. TakenBy(s)'[x] = TakenBy(s)[x] + ReservedDelta(m)
        BY <1>7, <2>2
      <3>4. levels'[x].reserved = levels[x].reserved /\ levels[x].reserved \in Nat
            /\ TakenBy(s)[x] \in Nat
        BY <1>0, <1>1
      <3> QED
        BY <2>1, <3>1, <3>2, <3>3, <3>4
    <2>3. CASE x # m.row
      BY <1>1, <1>6, <1>7, <2>1, <2>3
    <2> QED
      BY <2>2, <2>3
  <1> QED
    BY <1>8, <1>9, <1>10 DEF Holds

(* A commit makes its session's drafts the rows: every row has as many     *)
(* units more reserved as the session has taken of it.                     *)
LEMMA PublishHolds ==
  ASSUME OrderInv, NEW s \in Sessions, Holds(s), Publish(s), NEW r \in Rows
  PROVE  levels'[r].reserved = levels[r].reserved + TakenBy(s)[r]
  <1>0. TakenBy(s) \in [Rows -> Nat] /\ levels[r].reserved \in Nat
    BY HoldTypes
  <1>1. levels'[r] = IF holder[r] = s THEN draft[r].level ELSE levels[r]
    BY DEF Publish
  <1>2. CASE holder[r] = s
    BY <1>1, <1>2 DEF Holds
  <1>3. CASE holder[r] # s
    BY <1>0, <1>1, <1>3 DEF Holds
  <1> QED
    BY <1>2, <1>3

(* API callers neither reserve nor unreserve.                              *)
LEMMA ApiStepHolds ==
  ASSUME HoldInv, OnlyOrdersReserve, NEW s \in Sessions \ Webhooks, ApiStep(s), UNCHANGED orderVars
  PROVE  (\A t \in Sessions : Holds(t)') /\ ReservationsHaveOrders'
  <1>0. OrderInv /\ Holds(s) /\ StockInv /\ TypeOK /\ OrderTypes /\ s \in Sessions
        /\ TakenBy(s) = NothingTaken
    BY DEF HoldInv, OrderInv, StockInv, TakenBy
  <1>1. UNCHANGED <<held, taken>>
    BY DEF orderVars, ingestVars
  <1>2. \A t \in Sessions : TakenBy(t)' = TakenBy(t)
    BY <1>1 DEF TakenBy
  <1>3. ASSUME NEW t \in Sessions, t # s PROVE Holds(t)'
    BY <1>0, <1>2, <1>3, OthersUntouched, UntouchedHolds DEF HoldInv
  <1>4. CASE Move(s) \/ TransferStock(s)
    <2>1. PICK k, ms : /\ Begin(s, k, ms)
                       /\ \A i \in 1 .. Len(ms) : ms[i].kind \notin {"reserve", "unreserve"}
      <3>1. CASE Move(s)
        <4>1. PICK r \in Rows, k \in ApiKinds, a \in Amounts, e \in BOOLEAN :
                \E q \in IF k = "adjust" THEN {a, -a} ELSE {a} :
                  Begin(s, "movement",
                        <<[row |-> r, kind |-> k, qty |-> q,
                           expected |-> IF e THEN levels[r] ELSE NoLevel]>>)
          BY <3>1 DEF Move
        <4>2. PICK q : Begin(s, "movement",
                             <<[row |-> r, kind |-> k, qty |-> q,
                                expected |-> IF e THEN levels[r] ELSE NoLevel]>>)
          BY <4>1
        <4> DEFINE m == [row |-> r, kind |-> k, qty |-> q,
                         expected |-> IF e THEN levels[r] ELSE NoLevel]
        <4>3. m.kind = k /\ k \notin {"reserve", "unreserve"}
          BY DEF OnlyOrdersReserve
        <4>4. Begin(s, "movement", <<m>>)
          BY <4>2
        <4> HIDE DEF m
        <4>5. \A i \in 1 .. Len(<<m>>) : <<m>>[i].kind \notin {"reserve", "unreserve"}
          BY <4>3
        <4> QED
          BY <4>4, <4>5
      <3>2. CASE TransferStock(s)
        <4>1. PICK v \in Variants, from \in Warehouses, to \in Warehouses, a \in Amounts :
                Begin(s, "transfer",
                      <<[row |-> <<v, from>>, kind |-> "out", qty |-> a, expected |-> NoLevel],
                        [row |-> <<v, to>>, kind |-> "in", qty |-> a, expected |-> NoLevel]>>)
          BY <3>2 DEF TransferStock
        <4> DEFINE out == [row |-> <<v, from>>, kind |-> "out", qty |-> a, expected |-> NoLevel]
                   in == [row |-> <<v, to>>, kind |-> "in", qty |-> a, expected |-> NoLevel]
        <4>2. out.kind = "out" /\ in.kind = "in" /\ Begin(s, "transfer", <<out, in>>)
          BY <4>1
        <4> HIDE DEF out, in
        <4>3. \A i \in 1 .. Len(<<out, in>>) : <<out, in>>[i].kind \notin {"reserve", "unreserve"}
          BY <4>2
        <4> QED
          BY <4>2, <4>3
      <3> QED
        BY <1>4, <3>1, <3>2
    <2>2. todo'[s] = ms /\ UNCHANGED <<levels, holder, draft>>
      BY <1>0, <2>1 DEF Begin, stockVars, TypeOK
    <2>3. Holds(s)'
      BY <1>0, <1>2, <2>1, <2>2 DEF Holds
    <2> QED
      BY <1>1, <1>3, <2>2, <2>3 DEF HoldInv, ReservationsHaveOrders
  <1>5. CASE SelectForUpdate(s) \/ InsertRow(s)
    <2> DEFINE r == Head(todo[s]).row
    <2>1. pc[s] \in {"select", "insert"} /\ Lock(s, r) /\ UNCHANGED <<levels, todo>>
      BY <1>5 DEF SelectForUpdate, InsertRow
    <2>2. r \in Rows
      BY <1>0, <2>1, HeadIsMovement DEF StockInv
    <2>3. Holds(s)'
      BY <1>0, <1>2, <2>1, <2>2, LockHolds
    <2> QED
      BY <1>1, <1>3, <2>1, <2>3 DEF HoldInv, ReservationsHaveOrders
  <1>6. CASE FindNoRow(s)
    <2>1. UNCHANGED <<levels, holder, draft, todo>>
      BY <1>6 DEF FindNoRow, stockVars
    <2>2. Holds(s)'
      BY <1>0, <1>2, <2>1 DEF Holds
    <2> QED
      BY <1>1, <1>3, <2>1, <2>2 DEF HoldInv, ReservationsHaveOrders
  <1>7. CASE ApplyMovement(s)
    <2>1. Holds(s)'
      BY <1>0, <1>7, ApplyHolds
    <2>2. UNCHANGED levels
      BY <1>7 DEF ApplyMovement
    <2> QED
      BY <1>1, <1>3, <2>1, <2>2 DEF HoldInv, ReservationsHaveOrders
  <1>8. CASE Finish(s) /\ (UNCHANGED levels \/ Publish(s))
    <2>1. Release(s) /\ todo' = [todo EXCEPT ![s] = <<>>]
      BY <1>8 DEF Finish
    <2>2. Holds(s)'
      BY <1>0, <2>1, FinishHolds
    <2>3. \A r \in Rows : levels'[r].reserved = levels[r].reserved
      <3>1. ASSUME Publish(s), NEW r \in Rows PROVE levels'[r].reserved = levels[r].reserved
        <4>1. levels'[r].reserved = levels[r].reserved + NothingTaken[r]
          BY <1>0, <3>1, PublishHolds
        <4> QED
          BY <1>0, <4>1, HoldTypes DEF NothingTaken
      <3> QED
        BY <1>8, <3>1
    <2> QED
      BY <1>1, <1>3, <2>2, <2>3 DEF HoldInv, ReservationsHaveOrders
  <1> QED
    BY <1>4, <1>5, <1>6, <1>7, <1>8 DEF ApiStep, ApiProgress, MovementStep, Commit, Refuse,
       Crash, AbortDeadlock, RollBack

(* The reservations of the order a delivery commits.                       *)
LEMMA CommitOrderAdds ==
  ASSUME HoldInv, NEW s \in Webhooks, CommitOrder(s)
  PROVE  ReservationsHaveOrders'
  <1> DEFINE o == order[s]
  <1>0. OrderInv /\ s \in Sessions /\ Holds(s) /\ Publish(s) /\ TakenBy(s) = taken[s]
    BY WebhookAssumption DEF HoldInv, CommitOrder, TakenBy
  <1>1. /\ o \in Orders /\ held[o] = NothingTaken
        /\ taken[s] \in [Rows -> Nat]
        /\ held' = [held EXCEPT ![o] = taken[s]]
    BY <1>0, CommitOrderDecides
  <1>2. held \in [Orders -> [Rows -> Nat]]
    BY <1>0 DEF OrderInv, OrderTypes
  <1> HIDE DEF o
  <1>3. ASSUME NEW r \in Rows
        PROVE  levels'[r].reserved = SumFunction([q \in Orders |-> held'[q][r]])
    <2> DEFINE f == [q \in Orders |-> held[q][r]]
               h == [q \in Orders |-> held'[q][r]]
               a == taken[s][r]
    <2>1. f \in [Orders -> Nat] /\ a \in Nat /\ a \in Int
      BY <1>1, <1>2
    <2>2. h[o] = f[o] + a
      BY <1>1, <1>2 DEF NothingTaken
    <2>3. \A q \in Orders \ {o} : h[q] = f[q]
      BY <1>1, <1>2
    <2>4. h \in [Orders -> Nat]
      BY <1>1, <1>2
    <2>5. levels'[r].reserved = levels[r].reserved + a
      BY <1>0, PublishHolds
    <2>6. levels[r].reserved = SumFunction(f)
      BY DEF HoldInv, ReservationsHaveOrders
    <2> HIDE DEF f, h, a
    <2>7. SumFunction(h) = SumFunction(f) + a
      BY ONLY OrdersAssumption, <1>1, <2>1, <2>2, <2>3, <2>4, SumChanges
    <2> QED
      BY <2>5, <2>6, <2>7 DEF h
  <1> QED
    BY <1>3 DEF ReservationsHaveOrders

(* A delivery that thinks holds what it held.                              *)
LEMMA ThinkHolds ==
  ASSUME HoldInv, NEW s \in Webhooks, UNCHANGED <<levels, holder, draft, held, taken>>,
         \A t \in Sessions \ {s} : todo'[t] = todo[t]
  PROVE  (\A t \in Sessions : Holds(t)') /\ ReservationsHaveOrders'
  <1>1. ASSUME NEW t \in Sessions PROVE Holds(t)'
    <2>1. TakenBy(t)' = TakenBy(t)
      BY DEF TakenBy
    <2>2. t \notin Webhooks => todo'[t] = todo[t]
      OBVIOUS
    <2> QED
      BY <2>1, <2>2 DEF HoldInv, Holds
  <1>2. ReservationsHaveOrders'
    BY DEF HoldInv, ReservationsHaveOrders
  <1> QED
    BY <1>1, <1>2

(* A delivery that steps like an API caller leaves the others alone.       *)
LEMMA OthersHold ==
  ASSUME HoldInv, NEW s \in Sessions, ApiStep(s), NEW t \in Sessions, t # s,
         taken' = taken \/ \E x : taken' = [taken EXCEPT ![s] = x]
  PROVE  Holds(t)'
  <1>1. StockInv /\ Holds(t) /\ taken \in [Webhooks -> [Rows -> Nat]]
    BY DEF HoldInv, OrderInv, OrderTypes
  <1>2. TakenBy(t)' = TakenBy(t)
    BY <1>1 DEF TakenBy
  <1> QED
    BY <1>1, <1>2, OthersUntouched, UntouchedHolds

(* ROLLBACK TO SAVEPOINT gives back what the lines had taken.              *)
LEMMA RejectHolds ==
  ASSUME HoldInv, NEW s \in Webhooks, Reject(s)
  PROVE  (\A t \in Sessions : Holds(t)') /\ ReservationsHaveOrders'
  <1>1. /\ holder' = [r \in Rows |-> IF holder[r] = s THEN NoSession ELSE holder[r]]
        /\ draft' = [r \in Rows |-> IF holder[r] = s THEN NoDraft ELSE draft[r]]
        /\ taken' = [taken EXCEPT ![s] = NothingTaken]
        /\ todo' = [todo EXCEPT ![s] = <<>>]
        /\ pc' = [pc EXCEPT ![s] = "commit"]
        /\ UNCHANGED <<levels, job, held>>
        /\ Release(s)
    BY DEF Reject, Release
  <1>0. s \in Sessions /\ OrderInv /\ OrderTypes /\ TypeOK
    BY WebhookAssumption DEF HoldInv, OrderInv, StockInv
  <1>2. ASSUME NEW t \in Sessions, t # s PROVE Holds(t)'
    <2>1. Untouched(t)
      BY <1>0, <1>1, <1>2, SessionAssumption DEF Untouched, TypeOK
    <2>2. TakenBy(t)' = TakenBy(t)
      BY <1>0, <1>1, <1>2 DEF TakenBy, OrderTypes
    <2> QED
      BY <2>1, <2>2, UntouchedHolds DEF HoldInv
  <1>3. Holds(s)'
    BY <1>0, <1>1, FinishHolds
  <1>4. ReservationsHaveOrders'
    BY <1>1 DEF HoldInv, ReservationsHaveOrders
  <1> QED
    BY <1>2, <1>3, <1>4

LEMMA WebhookStepHolds ==
  ASSUME HoldInv, NEW s \in Webhooks, WebhookStep(s)
  PROVE  (\A t \in Sessions : Holds(t)') /\ ReservationsHaveOrders'
  <1>0. /\ s \in Sessions /\ OrderInv /\ OrderTypes /\ TypeOK /\ Holds(s)
        /\ (pc[s] # "idle" => job[s] # "none")
        /\ TakenBy(s) = taken[s]
    <2>1. OrderInv /\ Holds(s) /\ s \in Sessions
      BY WebhookAssumption DEF HoldInv
    <2> QED
      BY <2>1, AtWork DEF TakenBy
  <1>1. CASE \/ \E o \in Orders : Deliver(s, o)
             \/ RecordOrder(s) \/ PlanLine(s) \/ Accept(s)
    <2>1. UNCHANGED <<levels, holder, draft, held, taken>>
      BY <1>1 DEF Deliver, RecordOrder, PlanLine, Accept, stockVars, ingestVars
    <2>2. todo' = todo \/ \E x : todo' = [todo EXCEPT ![s] = x]
      BY <1>1 DEF Deliver, RecordOrder, PlanLine, Accept
    <2>3. \A t \in Sessions \ {s} : todo'[t] = todo[t]
      BY <1>0, <2>2 DEF TypeOK
    <2> QED
      BY <2>1, <2>3, ThinkHolds
  <1>2. CASE SelectForUpdate(s) /\ UNCHANGED orderVars
    <2> DEFINE r == Head(todo[s]).row
    <2>1. pc[s] = "select" /\ Lock(s, r) /\ UNCHANGED <<levels, todo, held, taken>>
      BY <1>2 DEF SelectForUpdate, orderVars, ingestVars
    <2>2. r \in Rows
      BY <1>0, <2>1, HeadIsMovement DEF OrderInv, StockInv
    <2>3. TakenBy(s)' = TakenBy(s)
      BY <2>1 DEF TakenBy
    <2>4. Holds(s)'
      BY <1>0, <2>1, <2>2, <2>3, LockHolds
    <2>5. ApiStep(s)
      BY <1>2 DEF ApiStep, ApiProgress, MovementStep
    <2>6. \A t \in Sessions : t # s => Holds(t)'
      BY <1>0, <2>1, <2>5, OthersHold
    <2>7. ReservationsHaveOrders'
      BY <2>1 DEF HoldInv, ReservationsHaveOrders
    <2> QED
      BY <2>4, <2>6, <2>7
  <1>3. CASE /\ ApplyMovement(s)
             /\ taken' = [taken EXCEPT ![s] = Take(s, Head(todo[s]))]
             /\ UNCHANGED held
    <2>1. Holds(s)'
      BY <1>0, <1>3, ApplyHolds
    <2>2. ApiStep(s) /\ UNCHANGED levels
      BY <1>3 DEF ApiStep, ApiProgress, MovementStep, ApplyMovement
    <2>3. \A t \in Sessions : t # s => Holds(t)'
      BY <1>0, <1>3, <2>2, OthersHold
    <2>4. ReservationsHaveOrders'
      BY <1>3, <2>2 DEF HoldInv, ReservationsHaveOrders
    <2> QED
      BY <2>1, <2>3, <2>4
  <1>4. CASE ReserveMovement(s)
    BY <1>2, <1>3, <1>4 DEF ReserveMovement
  <1>5. CASE Reject(s)
    BY <1>5, RejectHolds
  <1>6. CASE Duplicate(s) \/ CrashOrder(s) \/ AbortOrderDeadlock(s) \/ CommitOrder(s)
    <2>1. FinishOrder(s) /\ Finish(s) /\ Release(s)
          /\ todo' = [todo EXCEPT ![s] = <<>>]
          /\ taken' = [taken EXCEPT ![s] = NothingTaken]
      BY <1>6 DEF Duplicate, CrashOrder, AbortOrderDeadlock, CommitOrder, RollBackOrder,
         FinishOrder, Finish
    <2>2. ApiStep(s)
      <3>1. CASE Duplicate(s)
        <4>1. Crash(s)
          BY <1>0, <3>1 DEF Duplicate, FinishOrder, Crash, RollBack
        <4> QED
          BY <4>1 DEF ApiStep
      <3>2. CASE CrashOrder(s)
        <4>1. Crash(s)
          BY <3>2 DEF CrashOrder, RollBackOrder, FinishOrder, Crash, RollBack
        <4> QED
          BY <4>1 DEF ApiStep
      <3>3. CASE AbortOrderDeadlock(s)
        <4>1. AbortDeadlock(s)
          BY <3>3 DEF AbortOrderDeadlock, RollBackOrder, FinishOrder, AbortDeadlock, RollBack
        <4> QED
          BY <4>1 DEF ApiStep, ApiProgress
      <3>4. CASE CommitOrder(s)
        <4>1. Commit(s)
          BY <3>4 DEF CommitOrder, FinishOrder, Commit
        <4> QED
          BY <4>1 DEF ApiStep, ApiProgress
      <3> QED
        BY <1>6, <3>1, <3>2, <3>3, <3>4
    <2>3. Holds(s)'
      BY <1>0, <2>1, FinishHolds
    <2>4. \A t \in Sessions : t # s => Holds(t)'
      BY <1>0, <2>1, <2>2, OthersHold
    <2>5. ReservationsHaveOrders'
      <3>1. CASE CommitOrder(s)
        BY <3>1, CommitOrderAdds
      <3>2. CASE Duplicate(s) \/ CrashOrder(s) \/ AbortOrderDeadlock(s)
        <4>1. UNCHANGED <<levels, held>>
          BY <3>2 DEF Duplicate, CrashOrder, AbortOrderDeadlock, RollBackOrder
        <4> QED
          BY <4>1 DEF HoldInv, ReservationsHaveOrders
      <3> QED
        BY <1>6, <3>1, <3>2
    <2> QED
      BY <2>3, <2>4, <2>5
  <1> QED
    BY <1>1, <1>4, <1>5, <1>6 DEF WebhookStep, Progress

LEMMA InitHolds == OrderInit => HoldInv
  <1> SUFFICES ASSUME OrderInit PROVE HoldInv
    OBVIOUS
  <1>1. OrderInv /\ Init
    BY InitOrders DEF OrderInit
  <1>2. ASSUME NEW s \in Sessions PROVE Holds(s)
    <2>1. todo[s] = <<>> /\ \A r \in Rows : holder[r] # s
      BY <1>1, SessionAssumption DEF Init
    <2>2. TakenBy(s) = NothingTaken
      BY DEF OrderInit, TakenBy
    <2>3. \A r \in Rows : NothingTaken[r] = 0
      BY DEF NothingTaken
    <2> QED
      BY <2>1, <2>2, <2>3 DEF Holds
  <1>3. ASSUME NEW r \in Rows
        PROVE  levels[r].reserved = SumFunction([o \in Orders |-> held[o][r]])
    <2>1. levels[r].reserved = 0
      BY <1>1 DEF Init, NewLevel, Received
    <2>2. [o \in Orders |-> held[o][r]] = [o \in Orders |-> 0]
      BY DEF OrderInit, NothingTaken
    <2>3. SumFunction([o \in Orders |-> 0]) = 0
      BY OrdersAssumption, SumOfNothing
    <2> QED
      BY <2>1, <2>2, <2>3
  <1> QED
    BY <1>1, <1>2, <1>3 DEF HoldInv, ReservationsHaveOrders

(* Where only orders reserve, every reserved unit belongs to an order that *)
(* is recorded as reserved, and none to two of them: whatever deliveries   *)
(* are repeated, rejected half way, chosen as the victim of a deadlock or  *)
(* lost in a crash.                                                        *)
THEOREM EveryReservationHasItsOrder ==
  ASSUME OnlyOrdersReserve
  PROVE  OrderSpec => []ReservationsHaveOrders
  <1>1. HoldInv /\ [OrderNext]_allOrderVars => HoldInv'
    <2> SUFFICES ASSUME HoldInv, [OrderNext]_allOrderVars PROVE HoldInv'
      OBVIOUS
    <2>1. OrderInv'
      BY WebhookStepIngests, ApiStepIngests, StutterIngests DEF OrderNext, HoldInv
    <2>2. ASSUME NEW s \in Webhooks, WebhookStep(s) PROVE HoldInv'
      BY <2>1, <2>2, WebhookStepHolds DEF HoldInv
    <2>3. ASSUME NEW s \in Sessions \ Webhooks, ApiStep(s), UNCHANGED orderVars PROVE HoldInv'
      BY <2>1, <2>3, ApiStepHolds DEF HoldInv
    <2>4. CASE UNCHANGED allOrderVars
      <3>1. UNCHANGED <<levels, holder, draft, todo, held, taken>>
        BY <2>4 DEF allOrderVars, orderVars, ingestVars, vars, stockVars, sessionVars
      <3>2. \A t \in Sessions : Holds(t)'
        <4>1. \A t \in Sessions : TakenBy(t)' = TakenBy(t)
          BY <3>1 DEF TakenBy
        <4> QED
          BY <3>1, <4>1 DEF HoldInv, Holds
      <3>3. ReservationsHaveOrders'
        BY <3>1 DEF HoldInv, ReservationsHaveOrders
      <3> QED
        BY <2>1, <3>2, <3>3 DEF HoldInv
    <2> QED
      BY <2>2, <2>3, <2>4 DEF OrderNext
  <1>2. HoldInv => ReservationsHaveOrders
    BY DEF HoldInv
  <1> QED
    BY InitHolds, <1>1, <1>2, PTL DEF OrderSpec

-----------------------------------------------------------------------------
(***************************************************************************)
(* The other promises of Inventory, with deliveries next to API callers: a *)
(* delivery steps like an API caller, thinks, or rolls back to its         *)
(* savepoint.                                                              *)
(***************************************************************************)
Thinks(s) ==
  /\ UNCHANGED stockVars
  /\ job'[s] = "order"
  /\ \A t \in Sessions \ {s} : job'[t] = job[t] /\ pc'[t] = pc[t] /\ todo'[t] = todo[t]

BacksOut(s) ==
  /\ Releases(s)
  /\ job[s] = "order" /\ job' = job /\ pc' = [pc EXCEPT ![s] = "commit"]
  /\ UNCHANGED <<levels, outbox, nextSeq>>

LEMMA DeliverySteps ==
  ASSUME OrderInv, NEW s \in Webhooks, WebhookStep(s)
  PROVE  ApiStep(s) \/ Thinks(s) \/ BacksOut(s)
  <1>0. /\ s \in Sessions /\ TypeOK
        /\ (pc[s] # "idle" => job[s] = "order")
        /\ pc[s] \notin {"insert"}
    BY AtWork DEF Ingesting
  <1>1. CASE \/ \E o \in Orders : Deliver(s, o)
             \/ RecordOrder(s) \/ PlanLine(s) \/ Accept(s)
    <2>1. /\ UNCHANGED stockVars
          /\ job' = [job EXCEPT ![s] = "order"] \/ (job' = job /\ pc[s] \in {"record", "plan"})
          /\ \E p : pc' = [pc EXCEPT ![s] = p]
          /\ todo' = todo \/ \E x : todo' = [todo EXCEPT ![s] = x]
      BY <1>1 DEF Deliver, RecordOrder, PlanLine, Accept
    <2>2. job'[s] = "order"
      BY <1>0, <2>1 DEF TypeOK
    <2>3. \A t \in Sessions \ {s} : job'[t] = job[t] /\ pc'[t] = pc[t] /\ todo'[t] = todo[t]
      BY <1>0, <2>1 DEF TypeOK
    <2> QED
      BY <2>1, <2>2, <2>3 DEF Thinks
  <1>2. CASE ReserveMovement(s)
    BY <1>2 DEF ReserveMovement, ApiStep, ApiProgress, MovementStep
  <1>3. CASE Reject(s)
    <2>1. /\ Releases(s) /\ job' = job /\ pc' = [pc EXCEPT ![s] = "commit"]
          /\ UNCHANGED <<levels, outbox, nextSeq>>
      BY <1>3 DEF Reject, Releases
    <2>2. pc[s] # "idle"
      BY <1>3 DEF Reject, UnknownSku, OutOfStock, Fails, NoLevelYet, ConcurrentlyCreated, Refused
    <2> QED
      BY <1>0, <2>1, <2>2 DEF BacksOut
  <1>4. CASE Duplicate(s) \/ CrashOrder(s)
    <2>1. Crash(s)
      BY <1>0, <1>4 DEF Duplicate, CrashOrder, RollBackOrder, FinishOrder, Crash, RollBack
    <2> QED
      BY <2>1 DEF ApiStep
  <1>5. CASE AbortOrderDeadlock(s)
    <2>1. AbortDeadlock(s)
      BY <1>5 DEF AbortOrderDeadlock, RollBackOrder, FinishOrder, AbortDeadlock, RollBack
    <2> QED
      BY <2>1 DEF ApiStep, ApiProgress
  <1>6. CASE CommitOrder(s)
    <2>1. Commit(s)
      BY <1>6 DEF CommitOrder, FinishOrder, Commit
    <2> QED
      BY <2>1 DEF ApiStep, ApiProgress
  <1> QED
    BY <1>1, <1>2, <1>3, <1>4, <1>5, <1>6 DEF WebhookStep, Progress

(* Every step of the system is one of three kinds.                         *)
LEMMA OrderSteps ==
  ASSUME OrderInv, OrderNext
  PROVE  \/ \E s \in Sessions : ApiStep(s)
         \/ \E s \in Webhooks : s \in Sessions /\ (Thinks(s) \/ BacksOut(s))
  BY DeliverySteps, WebhookAssumption DEF OrderNext

PromiseInv == OrderInv /\ EventInv /\ TransferInv

LEMMA ThinkingPromises ==
  ASSUME PromiseInv, OrderInv', NEW s \in Webhooks, s \in Sessions, Thinks(s)
  PROVE  PromiseInv'
  <1>1. UNCHANGED <<levels, outbox, holder, draft>>
    BY DEF Thinks, stockVars
  <1>2. \A i \in 1 .. Len(todo'[s]) : todo'[s][i].expected = NoLevel
    BY DEF OrderInv, Ingesting, Reserves
  <1>3. ExpectationsCommitted'
    <2> SUFFICES ASSUME NEW t \in Sessions, NEW i \in 1 .. Len(todo'[t])
                 PROVE  Committed(todo[t][i])'
      BY DEF ExpectationsCommitted
    <2>1. CASE t = s
      BY <1>2, <2>1 DEF Committed
    <2>2. CASE t # s
      <3>1. todo'[t] = todo[t]
        BY <2>2 DEF Thinks
      <3>2. Committed(todo[t][i])
        BY <3>1 DEF PromiseInv, EventInv, ExpectationsCommitted
      <3> QED
        BY <1>1, <3>1, <3>2 DEF Committed, EventsOf
    <2> QED
      BY <2>1, <2>2
  <1>4. EventInv'
    BY <1>3, StoryStays DEF PromiseInv, Thinks
  <1>5. TransferInv'
    <2>1. \A t \in Sessions \ {s} : Untouched(t)
      BY <1>1 DEF Thinks, Untouched
    <2>2. job'[s] = "order"
      BY DEF Thinks
    <2> QED
      BY <2>1, <2>2, UntouchedTransfers DEF PromiseInv, TransferInv
  <1> QED
    BY <1>4, <1>5 DEF PromiseInv

LEMMA BackingOutPromises ==
  ASSUME PromiseInv, OrderInv', NEW s \in Webhooks, s \in Sessions, BacksOut(s)
  PROVE  PromiseInv'
  <1>1. StockInv
    BY DEF PromiseInv, OrderInv
  <1>2. EventInv'
    BY <1>1, ReleaseTells DEF PromiseInv, BacksOut
  <1>3. TransferInv'
    <2>1. job' = [job EXCEPT ![s] = "order"] /\ job'[s] = "order"
      BY <1>1 DEF BacksOut, StockInv, TypeOK
    <2>2. \A t \in Sessions \ {s} : Untouched(t)
      BY <1>1, <2>1, ReleaseLeavesOthers DEF BacksOut
    <2> QED
      BY <2>1, <2>2, UntouchedTransfers DEF PromiseInv, TransferInv
  <1> QED
    BY <1>2, <1>3 DEF PromiseInv

LEMMA StutterIsStutter ==
  ASSUME UNCHANGED allOrderVars
  PROVE  UNCHANGED vars
  BY DEF allOrderVars

(* Deliveries and API callers keep what the events tell and how far each   *)
(* transfer has come.                                                      *)
THEOREM PromiseInvariant == OrderSpec => []PromiseInv
  <1>1. OrderInit => PromiseInv
    BY InitOrders, InitTells, InitTransfers DEF OrderInit, PromiseInv
  <1>2. ASSUME PromiseInv, OrderInv', [OrderNext]_allOrderVars
        PROVE  PromiseInv'
    <2>1. OrderInv /\ StockInv /\ EventInv /\ TransferInv
      BY <1>2 DEF PromiseInv, OrderInv
    <2>2. ASSUME NEW s \in Sessions, ApiStep(s) PROVE PromiseInv'
      BY <1>2, <2>1, <2>2, ApiStepTells, ApiStepTransfers DEF PromiseInv
    <2>3. CASE OrderNext
      BY <1>2, <2>1, <2>2, <2>3, OrderSteps, ThinkingPromises, BackingOutPromises
    <2>4. CASE UNCHANGED allOrderVars
      BY <1>2, <2>1, <2>4, StutterIsStutter, StutterTells, StutterTransfers DEF PromiseInv
    <2> QED
      BY <1>2, <2>3, <2>4
  <1>3. PromiseInv /\ OrderInv' /\ [OrderNext]_allOrderVars => PromiseInv'
    BY <1>2
  <1> QED
    BY OrderInvariant, <1>1, <1>3, PTL DEF OrderSpec

(* A channel that replays the events of a row ends with its level, also of *)
(* rows that orders reserved, gave back to a savepoint, or lost in a crash.*)
THEOREM OrdersTellEveryLevel == OrderSpec => []EventsReplayLevels
  <1>1. PromiseInv => EventsReplayLevels
    BY DEF PromiseInv, EventInv, RowsTold, Tells, EventsReplayLevels
  <1> QED
    BY <1>1, PromiseInvariant, PTL

(* What a delivery that steps on its own leaves undone.                    *)
LEMMA OwnStepsDoNothing ==
  ASSUME PromiseInv, NEW s \in Webhooks, s \in Sessions, Thinks(s) \/ BacksOut(s)
  PROVE  AppliesToExpected /\ TransferEnds /\ UNCHANGED <<levels, outbox>>
  <1>1. StockInv
    BY DEF PromiseInv, OrderInv
  <1>2. UNCHANGED <<levels, outbox>>
    BY DEF Thinks, BacksOut, stockVars
  <1>3. \A t \in Sessions : pending'[t] = {} \/ pending'[t] = pending[t]
    <2>1. CASE Thinks(s)
      BY <2>1 DEF Thinks, stockVars
    <2>2. CASE BacksOut(s)
      BY <1>1, <2>2, ReleaseForgets DEF BacksOut
    <2> QED
      BY <2>1, <2>2
  <1>4. AppliesToExpected
    BY <1>3 DEF AppliesToExpected, AppliesNow
  <1> QED
    BY <1>2, <1>4 DEF TransferEnds

(* Optimistic locking holds next to deliveries, which use none of it.      *)
THEOREM OrdersRespectVersions == OrderSpec => ExpectedLevelIsTheLevel
  <1>1. ASSUME PromiseInv, [OrderNext]_allOrderVars PROVE [AppliesToExpected]_vars
    <2>1. OrderInv /\ StockInv /\ EventInv
      BY <1>1 DEF PromiseInv, OrderInv
    <2>2. CASE OrderNext
      BY <1>1, <2>1, <2>2, OrderSteps, ApiStepFindsExpected, OwnStepsDoNothing
    <2> QED
      BY <1>1, <2>2, StutterIsStutter
  <1> QED
    BY PromiseInvariant, <1>1, PTL DEF OrderSpec, ExpectedLevelIsTheLevel, AppliesToExpected

(* A transfer is whole although deliveries take the rows it moves between. *)
THEOREM OrdersLeaveTransfersWhole == OrderSpec => TransferConservesStock
  <1>1. ASSUME PromiseInv, [OrderNext]_allOrderVars PROVE [TransferEnds]_vars
    <2>1. OrderInv /\ StockInv /\ TransferInv
      BY <1>1 DEF PromiseInv, OrderInv
    <2>2. CASE OrderNext
      BY <1>1, <2>1, <2>2, OrderSteps, ApiStepEndsTransfer, OwnStepsDoNothing
    <2> QED
      BY <1>1, <2>2, StutterIsStutter
  <1> QED
    BY PromiseInvariant, <1>1, PTL DEF OrderSpec, TransferConservesStock, TransferEnds

(* Readers of the tables see the same append-only ledger when orders are   *)
(* delivered: order ingest implements both OrderBook and StockLedger.      *)
THEOREM OrdersKeepTheLedger == OrderSpec => ImplementsLedger
  <1>1. PromiseInv => LedgerInv /\ Ledger!Init
    BY LedgerHolds DEF PromiseInv, OrderInv
  <1>2. ASSUME PromiseInv, [OrderNext]_allOrderVars, LedgerInv'
        PROVE  [Ledger!Post]_<<levels, Told>>
    <2>1. OrderInv /\ StockInv /\ EventInv
      BY <1>2 DEF PromiseInv, OrderInv
    <2>2. CASE UNCHANGED <<levels, outbox>>
      BY <2>2 DEF Told
    <2>3. CASE OrderNext
      BY <1>2, <2>1, <2>2, <2>3, OrderSteps, ApiStepPosts, OwnStepsDoNothing
    <2>4. CASE UNCHANGED allOrderVars
      <3>1. UNCHANGED <<levels, outbox>>
        BY <2>4, StutterIsStutter DEF vars, stockVars
      <3> QED
        BY <2>2, <3>1
    <2> QED
      BY <1>2, <2>3, <2>4
  <1> QED
    BY PromiseInvariant, <1>1, <1>2, PTL DEF OrderSpec, ImplementsLedger, Ledger!Spec

=============================================================================
