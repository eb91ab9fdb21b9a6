---------------------------- MODULE MCPosIngest ----------------------------
(* A POS pull of two products, one of them new to the hub, next to an API  *)
(* caller.                                                                 *)
EXTENDS PosIngest, TLC

CONSTANTS v1, v2

MCStock == <<v1, 1>> :> 2 @@ <<v2, 1>> :> 0

Product1(n) == [sku |-> v1, stock |-> n]
Product2(n) == [sku |-> v2, stock |-> n]

(* The POS has sold a unit of v1, or received one; v2 it has in stock.     *)
MCPulls == {<<Product1(1), Product2(1)>>, <<Product2(1), Product1(3)>>}
=============================================================================
