----------------------------- MODULE MCEventBus -----------------------------
(* A small instance of the event bus.                                      *)
EXTENDS EventBus

CONSTANTS w1, w2, r1, r2, c1, c2

TwoWriters == {w1, w2}
TwoRelays == {r1, r2}
TwoConsumers == {c1, c2}

(* The two transactions are alike: the first number is drawn by w1.        *)
FirstWriter == writer[1] \in {NoWriter, w1}
=============================================================================
