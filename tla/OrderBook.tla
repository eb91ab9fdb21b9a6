----------------------------- MODULE OrderBook -----------------------------
(***************************************************************************)
(* What order ingest promises a channel: an order is decided once and for  *)
(* all, and its whole demand is promised to it at that instant or none.    *)
(***************************************************************************)
CONSTANTS Orders, Demand(_, _), Variants

VARIABLES status,     \* "none" until the order is decided
          promised    \* units promised to each order, per variant

NothingPromised == [v \in Variants |-> 0]

Init == /\ status = [o \in Orders |-> "none"]
        /\ promised = [o \in Orders |-> NothingPromised]

Reserve(o) ==
  /\ status[o] = "none"
  /\ status' = [status EXCEPT ![o] = "reserved"]
  /\ promised' = [promised EXCEPT ![o] = [v \in Variants |-> Demand(o, v)]]

Reject(o) ==
  /\ status[o] = "none"
  /\ status' = [status EXCEPT ![o] = "rejected"]
  /\ UNCHANGED promised

Next == \E o \in Orders : Reserve(o) \/ Reject(o)

Spec == Init /\ [][Next]_<<status, promised>>
=============================================================================
