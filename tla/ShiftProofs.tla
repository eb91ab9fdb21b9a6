---------------------------- MODULE ShiftProofs ----------------------------
(***************************************************************************)
(* One open shift per cashier, for any number of sessions and shifts.      *)
(***************************************************************************)
EXTENDS Shift, TLAPS

(* What the unique index establishes: only the session that holds the      *)
(* entry of a new open shift can commit one, and while it holds it no      *)
(* other shift is open.                                                    *)
OpenerHoldsEntry ==
  \A s \in Sessions : request[s] = "open" /\ at[s] = "commit" => entry = s

EntryIsAlone == entry # NoSession => OpenShifts = {}

(* The types the proof needs.                                              *)
Typed ==
  /\ status \in [Shifts -> {"none", "open", "closed"}]
  /\ request \in [Sessions -> {"none", "open", "close", "cash"}]
  /\ at \in [Sessions -> {"read", "write", "commit"}]
  /\ shift \in [Sessions -> Shifts]
  /\ entry \in Sessions \cup {NoSession}

IndexInv == Typed /\ OneOpenShift /\ OpenerHoldsEntry /\ EntryIsAlone

LEMMA IndexStart == Init => IndexInv
<1> SUFFICES ASSUME Init PROVE IndexInv
  OBVIOUS
<1>1. 1 \in Shifts
  BY BoundAssumption DEF Shifts
<1>2. OpenShifts = {}
  BY DEF Init, OpenShifts
<1> QED
  BY <1>1, <1>2 DEF Init, IndexInv, Typed, OneOpenShift, OpenerHoldsEntry, EntryIsAlone

(* The step of a session that leaves the committed rows alone and does not *)
(* reach the commit of an opening.                                         *)
LEMMA EndKeepsIndex ==
  ASSUME IndexInv, NEW s \in Sessions, End(s),
         status' = status \/ (entry # s /\ OpenShifts' \subseteq OpenShifts
                              /\ status' \in [Shifts -> {"none", "open", "closed"}])
  PROVE  IndexInv'
<1>1. Typed'
  BY DEF IndexInv, Typed, End
<1>2. OpenShifts' \subseteq OpenShifts
  BY DEF OpenShifts
<1>3. OneOpenShift'
  BY <1>2 DEF IndexInv, OneOpenShift
<1>4. OpenerHoldsEntry'
  BY NoSessionAssumption DEF IndexInv, Typed, OpenerHoldsEntry, End
<1>5. EntryIsAlone'
  BY <1>2 DEF IndexInv, EntryIsAlone, End
<1> QED
  BY <1>1, <1>3, <1>4, <1>5 DEF IndexInv

LEMMA IndexStep == IndexInv /\ [Next]_vars => IndexInv'
<1> SUFFICES ASSUME IndexInv, [Next]_vars PROVE IndexInv'
  OBVIOUS
<1>1. CASE UNCHANGED vars
  BY <1>1 DEF vars, rows, locks, IndexInv, Typed, OneOpenShift, OpenerHoldsEntry,
              EntryIsAlone, OpenShifts
<1>2. ASSUME NEW s \in Sessions,
             \/ AskOpen(s) \/ AskClose(s) \/ AskCash(s)
             \/ ReadStatus(s) /\ ~End(s)
             \/ UpdateShift(s)
             \/ InsertCash(s) /\ ~End(s)
      PROVE  IndexInv'
  <2>1. status' = status /\ entry' = entry
    BY <1>2 DEF AskOpen, AskClose, AskCash, Ask, ReadStatus, UpdateShift, InsertCash,
                Proceed, rows, locks
  <2>2. Typed'
    BY <1>2, <2>1 DEF IndexInv, Typed, AskOpen, AskClose, AskCash, Ask, ReadStatus,
                      UpdateShift, InsertCash, Proceed
  <2>3. request'[s] = "open" => at'[s] # "commit"
    BY <1>2 DEF IndexInv, Typed, AskOpen, AskClose, AskCash, Ask, ReadStatus,
                UpdateShift, InsertCash, Proceed
  <2>4. \A t \in Sessions \ {s} : request'[t] = request[t] /\ at'[t] = at[t]
    BY <1>2 DEF IndexInv, Typed, AskOpen, AskClose, AskCash, Ask, ReadStatus,
                UpdateShift, InsertCash, Proceed
  <2>5. OpenerHoldsEntry'
    BY <2>1, <2>3, <2>4 DEF IndexInv, OpenerHoldsEntry
  <2>6. OneOpenShift' /\ EntryIsAlone'
    BY <2>1 DEF IndexInv, OneOpenShift, EntryIsAlone, OpenShifts
  <2> QED
    BY <2>2, <2>5, <2>6 DEF IndexInv
<1>3. ASSUME NEW s \in Sessions, End(s), UNCHANGED rows PROVE IndexInv'
  BY <1>3, EndKeepsIndex DEF rows
<1>4. ASSUME NEW s \in Sessions, InsertShift(s), ~End(s) PROVE IndexInv'
  <2>1. /\ OpenShifts = {}
        /\ status' = status /\ entry' = s /\ request' = request
        /\ at' = [at EXCEPT ![s] = "commit"]
        /\ \E i \in Unused : shift' = [shift EXCEPT ![s] = i]
        /\ InTheWay(s) = {} /\ request[s] = "open" /\ at[s] = "write"
    BY <1>4 DEF InsertShift, Proceed, rows
  <2>2. entry = NoSession \/ entry = s
    BY <2>1 DEF InTheWay, IndexInv, Typed
  <2>3. Typed'
    BY <2>1 DEF IndexInv, Typed, Unused
  <2>4. OpenShifts' = {}
    BY <2>1 DEF OpenShifts
  <2>5. OpenerHoldsEntry'
    BY <2>1, <2>2, NoSessionAssumption DEF IndexInv, Typed, OpenerHoldsEntry
  <2> QED
    BY <2>3, <2>4, <2>5 DEF IndexInv, OneOpenShift, EntryIsAlone
<1>5. ASSUME NEW s \in Sessions, Commit(s) PROVE IndexInv'
  <2>1. at[s] = "commit" /\ End(s)
    BY <1>5 DEF Commit
  <2>2. CASE CommitOpen(s)
    <3>1. entry = s /\ s # NoSession /\ OpenShifts = {}
      BY <2>1, <2>2, NoSessionAssumption
         DEF CommitOpen, IndexInv, OpenerHoldsEntry, EntryIsAlone
    <3>2. Typed' /\ entry' = NoSession
      BY <2>1, <2>2, <3>1 DEF CommitOpen, End, IndexInv, Typed
    <3>3. OpenShifts' \subseteq {shift[s]}
      BY <2>2, <3>1 DEF CommitOpen, OpenShifts, IndexInv, Typed
    <3>4. OneOpenShift'
      BY <3>3 DEF OneOpenShift
    <3>5. OpenerHoldsEntry'
      BY <2>1, <3>1 DEF End, IndexInv, Typed, OpenerHoldsEntry
    <3> QED
      BY <3>2, <3>4, <3>5 DEF IndexInv, EntryIsAlone
  <2>3. CASE CommitClose(s)
    <3>1. /\ OpenShifts' \subseteq OpenShifts
          /\ status' \in [Shifts -> {"none", "open", "closed"}]
      BY <2>3 DEF CommitClose, OpenShifts, IndexInv, Typed
    <3>2. Typed'
      BY <2>1, <3>1 DEF End, IndexInv, Typed
    <3>3. OpenerHoldsEntry'
      BY <2>1, <2>3, NoSessionAssumption DEF End, CommitClose, IndexInv, Typed, OpenerHoldsEntry
    <3>4. OneOpenShift' /\ EntryIsAlone'
      BY <2>1, <3>1 DEF End, IndexInv, OneOpenShift, EntryIsAlone
    <3> QED
      BY <3>2, <3>3, <3>4 DEF IndexInv
  <2>4. CASE CommitCash(s)
    BY <2>1, <2>4, EndKeepsIndex DEF CommitCash
  <2> QED
    BY <1>5, <2>2, <2>3, <2>4 DEF Commit
<1>6. ASSUME NEW s \in Sessions,
             AskOpen(s) \/ AskClose(s) \/ AskCash(s) \/ Step(s) \/ Crash(s)
      PROVE  IndexInv'
  <2>1. CASE End(s) /\ UNCHANGED rows
    BY <2>1, <1>3
  <2>2. CASE ~(End(s) /\ UNCHANGED rows)
    <3>1. ReadStatus(s) \/ InsertCash(s) \/ InsertShift(s) => UNCHANGED rows
      BY DEF ReadStatus, InsertCash, InsertShift, Proceed
    <3> QED
      BY <1>2, <1>4, <1>5, <1>6, <2>2, <3>1 DEF Step, Crash
  <2> QED
    BY <2>1, <2>2
<1> QED
  BY <1>1, <1>6 DEF Next

(* uq_shifts_open: at most one open shift per cashier and store, however   *)
(* many sessions open and close at once.                                   *)
THEOREM OneShiftIsOpen == Spec => []OneOpenShift
<1>1. IndexInv => OneOpenShift
  BY DEF IndexInv
<1> QED
  BY <1>1, IndexStart, IndexStep, PTL DEF Spec

-----------------------------------------------------------------------------
(***************************************************************************)
(* Type correctness says that a shift has a count if and only if it is     *)
(* closed.  It rests on what each request is about: an opening about to    *)
(* commit has a number nobody has used, a closing or a cash movement a     *)
(* shift that exists.                                                      *)
(***************************************************************************)
RequestsFit ==
  \A s \in Sessions :
    /\ request[s] = "open" /\ at[s] = "commit" => shift[s] \in Unused
    /\ request[s] \in {"close", "cash"} => shift[s] \notin Unused

ShiftInv == IndexInv /\ TypeOK /\ RequestsFit

LEMMA ShiftStart == Init => ShiftInv
<1> SUFFICES ASSUME Init PROVE ShiftInv
  OBVIOUS
<1>1. (CHOOSE n \in Counts : TRUE) \in Counts
  BY CountsAssumption
<1>2. 1 \in Shifts /\ 0 \in 0..MaxCash
  BY BoundAssumption DEF Shifts
<1>3. TypeOK
  BY <1>1, <1>2 DEF Init, TypeOK
<1> QED
  BY <1>3, IndexStart DEF Init, ShiftInv, RequestsFit

(* The committed rows are what they were, or commit one request.           *)
LEMMA EndKeepsTypes ==
  ASSUME ShiftInv, NEW s \in Sessions, End(s), UNCHANGED rows
  PROVE  TypeOK' /\ RequestsFit'
<1>1. TypeOK'
  BY DEF ShiftInv, TypeOK, End, rows
<1>2. RequestsFit'
  BY DEF ShiftInv, TypeOK, RequestsFit, End, rows, Unused
<1> QED
  BY <1>1, <1>2

LEMMA AskKeepsTypes ==
  ASSUME ShiftInv, NEW s \in Sessions, AskOpen(s) \/ AskClose(s) \/ AskCash(s)
  PROVE  TypeOK' /\ RequestsFit'
<1>1. /\ UNCHANGED <<rows, locks>>
      /\ \E what \in {"open", "close", "cash"}, next \in {"read", "write"} :
           /\ request' = [request EXCEPT ![s] = what]
           /\ at' = [at EXCEPT ![s] = next]
           /\ IF what = "open" THEN UNCHANGED shift
              ELSE \E i \in Shifts \ Unused : shift' = [shift EXCEPT ![s] = i]
      /\ count' \in [Sessions -> Counts]
  BY DEF AskOpen, AskClose, AskCash, Ask, ShiftInv, TypeOK
<1>2. TypeOK'
  <2>1. UNCHANGED <<status, counted, cash, entry, writer>>
    BY <1>1 DEF rows, locks
  <2>2. /\ request' \in [Sessions -> {"none", "open", "close", "cash"}]
        /\ at' \in [Sessions -> {"read", "write", "commit"}]
    BY <1>1 DEF ShiftInv, TypeOK
  <2>3. shift' \in [Sessions -> Shifts]
    BY <1>1 DEF ShiftInv, TypeOK, Unused
  <2>4. TypeOK
    BY DEF ShiftInv
  <2> QED
    BY <1>1, <2>1, <2>2, <2>3, <2>4 DEF TypeOK
<1>3. Unused' = Unused
  BY <1>1 DEF rows, Unused
<1>4. RequestsFit'
  BY <1>1, <1>3 DEF ShiftInv, TypeOK, RequestsFit
<1> QED
  BY <1>2, <1>4

LEMMA ProceedKeepsTypes ==
  ASSUME ShiftInv, NEW s \in Sessions, NEW next \in {"write", "commit"}, Proceed(s, next),
         UNCHANGED shift \/ (request[s] = "open" /\ \E i \in Unused : shift' = [shift EXCEPT ![s] = i]),
         request[s] = "open" => \E i \in Unused : shift' = [shift EXCEPT ![s] = i],
         entry' \in Sessions \cup {NoSession},
         writer' \in [Shifts -> Sessions \cup {NoSession}]
  PROVE  TypeOK' /\ RequestsFit'
<1>1. Unused' = Unused
  BY DEF Proceed, rows, Unused
<1>2. shift' \in [Sessions -> Shifts]
  BY DEF ShiftInv, TypeOK, Unused
<1>3. at' \in [Sessions -> {"read", "write", "commit"}]
  <2>1. at \in [Sessions -> {"read", "write", "commit"}]
    BY DEF ShiftInv, TypeOK
  <2> QED
    BY <2>1 DEF Proceed
<1>4. TypeOK'
  <2>1. UNCHANGED <<status, counted, cash, request, count>>
    BY DEF Proceed, rows
  <2>2. TypeOK
    BY DEF ShiftInv
  <2> QED
    BY <1>2, <1>3, <2>1, <2>2 DEF TypeOK
<1>5. RequestsFit'
  BY <1>1 DEF ShiftInv, TypeOK, RequestsFit, Proceed
<1> QED
  BY <1>4, <1>5

LEMMA CommitKeepsTypes ==
  ASSUME ShiftInv, NEW s \in Sessions, Commit(s)
  PROVE  TypeOK' /\ RequestsFit'
<1>1. at[s] = "commit" /\ End(s)
  BY DEF Commit
<1>2. /\ request' = [request EXCEPT ![s] = "none"]
      /\ at' = [at EXCEPT ![s] = "read"]
      /\ entry' \in Sessions \cup {NoSession}
      /\ writer' \in [Shifts -> Sessions \cup {NoSession}]
      /\ UNCHANGED <<shift, count>>
  BY <1>1 DEF End, ShiftInv, TypeOK
<1>3. CASE CommitOpen(s)
  <2>1. shift[s] \in Unused /\ request[s] = "open" /\ counted[shift[s]] = NotCounted
    BY <1>1, <1>3 DEF CommitOpen, ShiftInv, RequestsFit, TypeOK, Unused
  <2>2. TypeOK'
    BY <1>2, <1>3, <2>1 DEF CommitOpen, ShiftInv, TypeOK
  <2>3. \A t \in Sessions \ {s} : ~(request[t] = "open" /\ at[t] = "commit")
    BY <1>1, <2>1 DEF ShiftInv, IndexInv, OpenerHoldsEntry
  <2>4. Unused' \subseteq Unused
    BY <1>3 DEF CommitOpen, Unused, ShiftInv, TypeOK
  <2>5. RequestsFit'
    BY <1>2, <2>3, <2>4 DEF ShiftInv, RequestsFit, TypeOK
  <2> QED
    BY <2>2, <2>5
<1>4. CASE CommitClose(s)
  <2>1. shift[s] \notin Unused /\ count[s] \in Counts /\ count[s] # NotCounted
    BY <1>4, NotCountedAssumption DEF CommitClose, ShiftInv, RequestsFit, TypeOK
  <2>2. TypeOK'
    BY <1>2, <1>4, <2>1 DEF CommitClose, ShiftInv, TypeOK
  <2>3. Unused' = Unused
    BY <1>4, <2>1 DEF CommitClose, Unused, ShiftInv, TypeOK
  <2>4. RequestsFit'
    BY <1>2, <2>3 DEF ShiftInv, RequestsFit, TypeOK
  <2> QED
    BY <2>2, <2>4
<1>5. CASE CommitCash(s)
  <2>1. cash' \in [Shifts -> 0..MaxCash]
    BY <1>5, BoundAssumption DEF CommitCash, ShiftInv, TypeOK
  <2>2. TypeOK'
    BY <1>2, <1>5, <2>1 DEF CommitCash, ShiftInv, TypeOK
  <2>3. RequestsFit'
    BY <1>2, <1>5 DEF CommitCash, ShiftInv, RequestsFit, TypeOK, Unused
  <2> QED
    BY <2>2, <2>3
<1> QED
  BY <1>3, <1>4, <1>5 DEF Commit

LEMMA ShiftStep == ShiftInv /\ [Next]_vars => ShiftInv'
<1> SUFFICES ASSUME ShiftInv, [Next]_vars PROVE ShiftInv'
  OBVIOUS
<1>1. IndexInv'
  BY IndexStep DEF ShiftInv
<1>2. CASE UNCHANGED vars
  BY <1>1, <1>2 DEF vars, rows, locks, ShiftInv, TypeOK, RequestsFit, Unused
<1>3. ASSUME NEW s \in Sessions,
             AskOpen(s) \/ AskClose(s) \/ AskCash(s) \/ Step(s) \/ Crash(s)
      PROVE  TypeOK' /\ RequestsFit'
  <2>1. CASE AskOpen(s) \/ AskClose(s) \/ AskCash(s)
    BY <2>1, AskKeepsTypes
  <2>2. CASE End(s) /\ UNCHANGED rows
    BY <2>2, EndKeepsTypes
  <2>3. CASE Commit(s)
    BY <2>3, CommitKeepsTypes
  <2>4. CASE \/ ReadStatus(s) /\ Proceed(s, "write") /\ UNCHANGED <<shift, locks>>
             \/ InsertCash(s) /\ Proceed(s, "commit") /\ UNCHANGED <<shift, locks>>
             \/ UpdateShift(s)
    <3>1. request[s] # "open" /\ UNCHANGED shift
          /\ (Proceed(s, "write") \/ Proceed(s, "commit"))
      BY <2>4 DEF ReadStatus, InsertCash, UpdateShift
    <3>2. /\ entry' \in Sessions \cup {NoSession}
          /\ writer' \in [Shifts -> Sessions \cup {NoSession}]
      BY <2>4 DEF UpdateShift, locks, ShiftInv, TypeOK
    <3> QED
      BY <3>1, <3>2, ProceedKeepsTypes
  <2>5. CASE InsertShift(s) /\ Proceed(s, "commit")
    <3>1. /\ request[s] = "open"
          /\ \E i \in Unused : shift' = [shift EXCEPT ![s] = i]
          /\ entry' \in Sessions \cup {NoSession}
          /\ writer' \in [Shifts -> Sessions \cup {NoSession}]
      <4>1. at'[s] # "read"
        BY <2>5 DEF Proceed, ShiftInv, TypeOK
      <4>2. ~End(s)
        BY <4>1 DEF End, ShiftInv, TypeOK
      <4> QED
        BY <2>5, <4>2 DEF InsertShift, ShiftInv, TypeOK
    <3> QED
      BY <2>5, <3>1, ProceedKeepsTypes
  <2> QED
    BY <1>3, <2>1, <2>2, <2>3, <2>4, <2>5 DEF Step, Crash, ReadStatus, InsertCash, InsertShift
<1> QED
  BY <1>1, <1>2, <1>3 DEF Next, ShiftInv

(* A shift has a closing count exactly when it is closed, whatever opens,  *)
(* closings and cash movements race.                                       *)
THEOREM ShiftTypes == Spec => []TypeOK
<1>1. Init => ShiftInv
  BY ShiftStart
<1>2. ShiftInv => TypeOK
  BY DEF ShiftInv
<1> QED
  BY <1>1, <1>2, ShiftStep, PTL DEF Spec
=============================================================================
