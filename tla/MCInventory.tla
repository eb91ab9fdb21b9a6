---------------------------- MODULE MCInventory ----------------------------
(* Sessions of API callers on the stock of one variant in two warehouses:  *)
(* the first is stocked, the level of the second does not exist yet.       *)
EXTENDS Inventory, TLC

CONSTANT v1

MCStock == <<v1, 1>> :> 1 @@ <<v1, 2>> :> 0
=============================================================================
