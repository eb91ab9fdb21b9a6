---------------------------- MODULE StockLedger ----------------------------
(***************************************************************************)
(* What the inventory domain promises to its readers: per row an           *)
(* append-only history of sound levels, one entry per version, whose last  *)
(* entry is the current level.  A post extends the history of any rows at  *)
(* once and never rewrites what was told before.                           *)
(***************************************************************************)
EXTENDS Integers

CONSTANT Rows

VARIABLES current,   \* the level of each row
          history    \* every level a row ever had

Entry == [row : Rows, level : [qty : Nat, reserved : Nat, version : Nat]]

EmptyLevel == [qty |-> 0, reserved |-> 0, version |-> 0]

HistoryOf(h, r) == {e \in h : e.row = r}

(* Versions of a row run from 1 to the current one, each told once.        *)
Complete(h, level, r) ==
  /\ {e.level.version : e \in HistoryOf(h, r)} = 1..level.version
  /\ \A e, f \in HistoryOf(h, r) : e.level.version = f.level.version => e = f
  /\ level # EmptyLevel => [row |-> r, level |-> level] \in h

Init == /\ history \subseteq Entry
        /\ \A e \in history : e.level.reserved <= e.level.qty
        /\ \A r \in Rows : Complete(history, current[r], r)

Post ==
  /\ history \subseteq history'
  /\ \A e \in history' \ history :
       /\ e.level.version > current[e.row].version
       /\ e.level.reserved <= e.level.qty
  /\ \A r \in Rows : Complete(history', current'[r], r)

Spec == Init /\ [][Post]_<<current, history>>
=============================================================================
