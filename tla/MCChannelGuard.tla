--------------------------- MODULE MCChannelGuard ---------------------------
(* Small instances of the guard of one channel.                            *)
EXTENDS ChannelGuard

CONSTANTS c1, c2, c3

OneCaller == {c1}
ThreeCallers == {c1, c2, c3}
=============================================================================
