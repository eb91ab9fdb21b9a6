------------------------------- MODULE Shift -------------------------------
(***************************************************************************)
(* The shifts of one cashier in one store                                  *)
(* (services/core/app/domain/shift.py): opening, paying cash in and out,   *)
(* closing with the counted cash.  Every request is a transaction at READ  *)
(* COMMITTED that reads without a lock; the partial unique index           *)
(* uq_shifts_open and the row lock of an UPDATE are all that orders them.  *)
(***************************************************************************)
EXTENDS Integers

CONSTANTS
  Sessions,
  Counts,          \* what a cashier may count at closing
  NotCounted,      \* "closing_cash_minor is NULL"
  NoSession,
  MaxShifts,       \* bound: shifts opened
  MaxCash          \* bound: cash movements per shift

ASSUME CountsAssumption == Counts # {}
ASSUME NotCountedAssumption == NotCounted \notin Counts
ASSUME NoSessionAssumption == NoSession \notin Sessions
ASSUME BoundAssumption == MaxShifts \in Nat \ {0} /\ MaxCash \in Nat

Shifts == 1..MaxShifts

VARIABLES
  status,          \* committed: "none" before the shift exists
  counted,         \* committed: closing_cash_minor
  cash,            \* committed: cash movements of each shift
  request,         \* what each session is asked for
  at,              \* its next statement: "read", "write", "commit"
  shift,           \* the shift it is about
  count,           \* the count it would store
  entry,           \* the session whose new open shift is in the index
  writer           \* the session that has updated each row

rows == <<status, counted, cash>>
locks == <<entry, writer>>
vars == <<rows, request, at, shift, count, locks>>

TypeOK ==
  /\ status \in [Shifts -> {"none", "open", "closed"}]
  /\ counted \in [Shifts -> Counts \cup {NotCounted}]
  /\ \A i \in Shifts : counted[i] # NotCounted <=> status[i] = "closed"
  /\ cash \in [Shifts -> 0..MaxCash]
  /\ request \in [Sessions -> {"none", "open", "close", "cash"}]
  /\ at \in [Sessions -> {"read", "write", "commit"}]
  /\ shift \in [Sessions -> Shifts]
  /\ count \in [Sessions -> Counts]
  /\ entry \in Sessions \cup {NoSession}
  /\ writer \in [Shifts -> Sessions \cup {NoSession}]

Init ==
  /\ status = [i \in Shifts |-> "none"]
  /\ counted = [i \in Shifts |-> NotCounted]
  /\ cash = [i \in Shifts |-> 0]
  /\ request = [s \in Sessions |-> "none"]
  /\ at = [s \in Sessions |-> "read"]
  /\ shift = [s \in Sessions |-> 1]
  /\ count = [s \in Sessions |-> CHOOSE n \in Counts : TRUE]
  /\ entry = NoSession
  /\ writer = [i \in Shifts |-> NoSession]

OpenShifts == {i \in Shifts : status[i] = "open"}
Unused == {i \in Shifts : status[i] = "none"}

Ask(s, what, next) ==
  /\ request[s] = "none"
  /\ request' = [request EXCEPT ![s] = what]
  /\ at' = [at EXCEPT ![s] = next]
  /\ UNCHANGED <<rows, locks>>

(* open_shift goes straight to its INSERT.                                 *)
AskOpen(s) == Ask(s, "open", "write") /\ UNCHANGED <<shift, count>>

AskClose(s) ==
  \E i \in Shifts \ Unused, n \in Counts :
    /\ Ask(s, "close", "read")
    /\ shift' = [shift EXCEPT ![s] = i]
    /\ count' = [count EXCEPT ![s] = n]

AskCash(s) ==
  \E i \in Shifts \ Unused :
    /\ Ask(s, "cash", "read")
    /\ shift' = [shift EXCEPT ![s] = i]
    /\ UNCHANGED count

(* Mutant: the locks outlive the transaction.                              *)
EndLocked(s) ==
  /\ request' = [request EXCEPT ![s] = "none"]
  /\ at' = [at EXCEPT ![s] = "read"]
  /\ UNCHANGED <<shift, count, locks>>

(* The end of a transaction, whatever it leaves.                           *)
End(s) ==
  /\ request' = [request EXCEPT ![s] = "none"]
  /\ at' = [at EXCEPT ![s] = "read"]
  /\ entry' = IF entry = s THEN NoSession ELSE entry
  /\ writer' = [i \in Shifts |-> IF writer[i] = s THEN NoSession ELSE writer[i]]
  /\ UNCHANGED <<shift, count>>

Proceed(s, next) ==
  /\ at' = [at EXCEPT ![s] = next]
  /\ UNCHANGED <<rows, request, count>>

(* The SELECT of close_shift and record_cash; a shift that is not open is  *)
(* refused.                                                                *)
ReadStatus(s) ==
  /\ request[s] \in {"close", "cash"} /\ at[s] = "read"
  /\ IF status[shift[s]] = "open"
       THEN Proceed(s, "write") /\ UNCHANGED <<shift, locks>>
       ELSE End(s) /\ UNCHANGED rows

(* Mutant: without the index nothing stands in the way of the INSERT.      *)
NoIndex(s) == {}

(* The transactions an INSERT into uq_shifts_open waits for: another new   *)
(* entry, or the update of an open shift that may take its entry away.     *)
InTheWay(s) == ({entry} \cup {writer[i] : i \in OpenShifts}) \ {s, NoSession}

(* Bound: MaxShifts shifts; beyond, as with an open shift, ConflictError.  *)
InsertShift(s) ==
  /\ request[s] = "open" /\ at[s] = "write"
  /\ InTheWay(s) = {}
  /\ \/ /\ OpenShifts = {}
        /\ Proceed(s, "commit")
        /\ \E i \in Unused : shift' = [shift EXCEPT ![s] = i]
        /\ entry' = s
        /\ UNCHANGED writer
     \/ /\ OpenShifts # {} \/ Unused = {}
        /\ End(s)
        /\ UNCHANGED rows

(* The UPDATE waits for the row, not for what it read of it.               *)
UpdateShift(s) ==
  /\ request[s] = "close" /\ at[s] = "write"
  /\ writer[shift[s]] = NoSession
  /\ Proceed(s, "commit")
  /\ writer' = [writer EXCEPT ![shift[s]] = s]
  /\ UNCHANGED <<shift, entry>>

(* Bound: MaxCash movements are counted per shift.                        *)
InsertCash(s) ==
  /\ request[s] = "cash" /\ at[s] = "write"
  /\ IF cash[shift[s]] < MaxCash
       THEN Proceed(s, "commit") /\ UNCHANGED <<shift, locks>>
       ELSE End(s) /\ UNCHANGED rows

CommitOpen(s) ==
  /\ request[s] = "open"
  /\ status' = [status EXCEPT ![shift[s]] = "open"]
  /\ UNCHANGED <<counted, cash>>

(* Mutant: the count is left out.                                          *)
CommitCloseUncounted(s) ==
  /\ request[s] = "close"
  /\ status' = [status EXCEPT ![shift[s]] = "closed"]
  /\ UNCHANGED <<counted, cash>>

CommitClose(s) ==
  /\ request[s] = "close"
  /\ status' = [status EXCEPT ![shift[s]] = "closed"]
  /\ counted' = [counted EXCEPT ![shift[s]] = count[s]]
  /\ UNCHANGED cash

CommitCash(s) ==
  /\ request[s] = "cash"
  /\ cash' = [cash EXCEPT ![shift[s]] = IF @ < MaxCash THEN @ + 1 ELSE @]
  /\ UNCHANGED <<status, counted>>

Commit(s) ==
  /\ at[s] = "commit"
  /\ CommitOpen(s) \/ CommitClose(s) \/ CommitCash(s)
  /\ End(s)

(* The client disconnects or the process dies.                             *)
Crash(s) == request[s] # "none" /\ End(s) /\ UNCHANGED rows

Step(s) == ReadStatus(s) \/ InsertShift(s) \/ UpdateShift(s) \/ InsertCash(s) \/ Commit(s)

Next ==
  \E s \in Sessions : AskOpen(s) \/ AskClose(s) \/ AskCash(s) \/ Step(s) \/ Crash(s)

Spec == Init /\ [][Next]_vars

(* Sessions go on; a lock reaches those who wait for it in turn.           *)
Fairness == \A s \in Sessions : SF_vars(Step(s))

FairSpec == Spec /\ Fairness

-----------------------------------------------------------------------------
(***************************************************************************)
(* Correctness.                                                            *)
(***************************************************************************)

(* At most one shift is open per cashier and store, whatever opens race    *)
(* with each other and with a closing that has not committed.              *)
OneOpenShift == \A i, j \in OpenShifts : i = j

(* Every request is answered, whatever transaction it has to wait for.     *)
RequestsEnd == \A s \in Sessions : request[s] # "none" ~> request[s] = "none"

-----------------------------------------------------------------------------
(***************************************************************************)
(* Promised and not kept: TLC refutes the following (README, section       *)
(* "Where the code and its documentation disagree").                       *)
(***************************************************************************)

(* "cannot record cash on a closed shift".                                 *)
CashOnlyWhileOpen ==
  [][\A i \in Shifts : cash'[i] # cash[i] => status[i] = "open"]_vars

(* "shift is already closed": the cash counted at closing is not changed   *)
(* by a second closing.                                                    *)
CountIsFinal ==
  [][\A i \in Shifts : counted[i] # NotCounted => counted'[i] = counted[i]]_vars
=============================================================================
