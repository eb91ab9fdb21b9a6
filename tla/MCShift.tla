------------------------------ MODULE MCShift ------------------------------
(* Requests about the shifts of one cashier.                               *)
EXTENDS Shift

CONSTANTS s1, s2, s3

ThreeSessions == {s1, s2, s3}
=============================================================================
