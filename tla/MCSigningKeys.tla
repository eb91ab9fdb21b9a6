--------------------------- MODULE MCSigningKeys ---------------------------
(* Requests of several processes while the realm rotates its keys.         *)
EXTENDS SigningKeys, TLC

CONSTANTS k1, k2, r1, r2

TwoKids == {k1, k2}
TwoRequests == {r1, r2}
Symmetric == Permutations(TwoKids) \cup Permutations(TwoRequests)
=============================================================================
