--------------------------- MODULE MCChannelSync ---------------------------
(* Small instances of the dispatcher.                                      *)
EXTENDS ChannelSync

CONSTANTS c1, c2, m1, m2

OneChannel == {c1}
TwoChannels == {c1, c2}
OneWarehouse == {m1}
TwoWarehouses == {m1, m2}

NoBuffer == [c \in Channels |-> 0]
OneHeldBack == [c \in Channels |-> 1]

(* What comes of calls: lands, is tried again, is skipped.                 *)
Steady == {"2xx", "4xx"}
Anything == {"2xx", "timeout", "4xx"}

(* Channels with one buffer are interchangeable.                           *)
Alike == Permutations(Channels)
=============================================================================
