---------------------------- MODULE MCReconcile ----------------------------
(* Small instances of the reconciliation job next to the dispatcher.       *)
EXTENDS Reconcile

CONSTANTS c1, c2, m1

OneChannel == {c1}
OneWarehouse == {m1}

NoBuffer == [c \in Channels |-> 0]
OneHeldBack == [c \in Channels |-> 1]

(* What comes of calls: lands, is tried again, is skipped.                 *)
Landing == {"2xx"}
Steady == {"2xx", "4xx"}
Anything == {"2xx", "timeout", "4xx"}
=============================================================================
