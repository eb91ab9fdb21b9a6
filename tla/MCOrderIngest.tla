--------------------------- MODULE MCOrderIngest ---------------------------
(* Orders delivered by channels, next to a session that transfers stock.   *)
EXTENDS OrderIngest, TLC

CONSTANTS v1, v2, o1, o2, o3, unknown

(* Two variants, the first in two warehouses.  o1 and o2 lock rows in      *)
(* opposite order, o1 needs both warehouses, and there is not enough for   *)
(* both; a line of o2 counts less than nothing and asks for nothing; o3    *)
(* reserves a unit before it meets a SKU nobody knows.                     *)
CrossedStock == <<v1, 1>> :> 1 @@ <<v1, 2>> :> 1 @@ <<v2, 1>> :> 2 @@ <<v2, 2>> :> 0
CrossedLines == o1 :> <<[sku |-> v1, qty |-> 2], [sku |-> v2, qty |-> 1]>>
             @@ o2 :> <<[sku |-> v2, qty |-> 1], [sku |-> v1, qty |-> 1], [sku |-> v2, qty |-> -1]>>
             @@ o3 :> <<[sku |-> v1, qty |-> 1], [sku |-> unknown, qty |-> 1]>>

=============================================================================
