------------------------------- MODULE Trade -------------------------------
(***************************************************************************)
(* The calls on prices, stock and tills (services/core/app/domain/         *)
(* pricing.py, inventory.py, shift.py and their routers): which rows they  *)
(* look up, write and wait for.  What the quantities come to is in         *)
(* Inventory, what a price is in ChannelSync, the drawer in Shift.         *)
(***************************************************************************)
EXTENDS TenantSession

(***************************************************************************)
(* Prices.                                                                 *)
(***************************************************************************)
OverrideRows(q) ==
  LET id == Id(q, "price_overrides")
      about == {call[q].variant} \cup ({call[q].store} \ {None}) IN
    {Row(id, "price_overrides", tenant[q], {}, {tenant[q]} \cup about, TRUE),
     Event(q, tenant[q], {id} \cup about)}

OverrideKnown(q) ==
  InsertKnowing(q, Found(q, "variants", call[q].variant) /\ StoreKnown(q),
                OverrideRows(q), "500")

SetOverride(q) ==
  /\ call[q].what = "set_override"
  /\ Admit(q, "pricing", "write", "read") \/ OverrideKnown(q)

ResolvePrice(q) ==
  /\ call[q].what = "resolve_price"
  /\ Admit(q, "pricing", "read", "read") \/ Get(q, "variants", call[q].variant)

(***************************************************************************)
(* Stock.                                                                  *)
(***************************************************************************)
CreateWarehouse(q) ==
  /\ call[q].what = "create_warehouse"
  /\ \/ Admit(q, "inventory", "write", "write")
     \/ /\ at[q] = "write"
        /\ Insert(q, {Row(Id(q, "warehouses"), "warehouses", tenant[q], {}, {tenant[q]}, TRUE)},
                  "500")

(* The lists of warehouses and of a variant's levels.                      *)
ListStock(q) ==
  /\ call[q].what = "list_stock"
  /\ Admit(q, "inventory", "read", "read") \/ List(q)

LevelKey(q) == <<"uq_inventory_variant_warehouse", call[q].variant, call[q].warehouse>>
Levels(q) == {r \in Of("inventory", Visible(q)) : LevelKey(q) \in r.keys}

LevelRow(q) ==
  Row(Id(q, "inventory"), "inventory", tenant[q], {LevelKey(q)},
      {tenant[q], call[q].variant, call[q].warehouse}, TRUE)

(* What a movement leaves besides the level: its row and its event.        *)
MovementRows(q) ==
  LET about == {call[q].variant, call[q].warehouse} IN
    {Row(Id(q, "stock_movements"), "stock_movements", tenant[q], {},
         {tenant[q]} \cup about, TRUE),
     Event(q, tenant[q], about)}

(* The level is read FOR UPDATE.  None there: "in" and "adjust" create it, *)
(* and lose to whoever creates it first.  The quantities, or a version     *)
(* that is not the expected one, may refuse the movement either way.       *)
MoveKnown(q) ==
  LET known == /\ Found(q, "variants", call[q].variant)
               /\ Found(q, "warehouses", call[q].warehouse) IN
    \/ at[q] = "read" /\ ~known /\ Refuse(q, "404")
    \/ /\ at[q] = "read" /\ known /\ Levels(q) # {}
       /\ \/ Update(q, Levels(q), MovementRows(q))
          \/ Unlocked(q, Levels(q)) /\ Refuse(q, "409")
    \/ /\ at[q] = "read" /\ known /\ Levels(q) = {}
       /\ IF call[q].kind \in {"in", "adjust"} THEN Proceed(q, "write") /\ UNCHANGED own
                                               ELSE Refuse(q, "422")
    \/ at[q] = "write" /\ Insert(q, {LevelRow(q)} \cup MovementRows(q), "409")
    \/ at[q] = "write" /\ Awaited(q, {LevelRow(q)}) = {} /\ Refuse(q, "409")

Move(q) ==
  /\ call[q].what = "move"
  /\ Admit(q, "inventory", "write", "read") \/ MoveKnown(q)

(***************************************************************************)
(* Tills.                                                                  *)
(***************************************************************************)
(* At most one that is open per store and cashier, by a partial index.     *)
OpenKey(store, cashier) == <<"uq_shifts_open", store, cashier>>

ShiftRow(id, of, store, cashier) ==
  Row(id, "shifts", of, {OpenKey(store, cashier)}, {of, store, cashier}, TRUE)

OpenShift(q) ==
  /\ call[q].what = "open_shift"
  /\ \/ Admit(q, "shift", "write", "read")
     \/ InsertKnowing(q, Found(q, "stores", call[q].store) /\ Found(q, "users", call[q].cashier),
                      {ShiftRow(Id(q, "shifts"), tenant[q], call[q].store, call[q].cashier)},
                      "409")

(* The status is read without a lock, so two closings may both pass.       *)
CloseKnown(q) ==
  LET read == Named(q, "shifts", call[q].shift) IN
    \/ at[q] = "read" /\ read = {} /\ Refuse(q, "404")
    \/ /\ at[q] = "read"
       /\ \E s \in read :
            IF s.on THEN Proceed(q, "write") /\ UNCHANGED own ELSE Refuse(q, "409")
    \/ /\ at[q] = "write"
       /\ Update(q, {[s EXCEPT !.on = FALSE, !.keys = {}] : s \in read}, {})

CloseShift(q) ==
  /\ call[q].what = "close_shift"
  /\ Admit(q, "shift", "write", "read") \/ CloseKnown(q)

CashRow(q) ==
  Row(Id(q, "cash_movements"), "cash_movements", tenant[q], {},
      {tenant[q], call[q].shift}, TRUE)

RecordKnown(q) ==
  LET read == Named(q, "shifts", call[q].shift) IN
    \/ at[q] = "read" /\ (\E s \in read : ~s.on) /\ Refuse(q, "422")
    \/ /\ at[q] = "write" \/ (at[q] = "read" /\ \A s \in read : s.on)
       /\ InsertKnowing(q, read # {}, {CashRow(q)}, "500")

RecordCash(q) ==
  /\ call[q].what = "record_cash"
  /\ Admit(q, "shift", "write", "read") \/ RecordKnown(q)

(* The list, and the detail of one with its drawer.                        *)
ReadShifts(q) ==
  /\ call[q].what = "read_shifts"
  /\ \/ Admit(q, "shift", "read", "read")
     \/ IF call[q].shift = None THEN List(q) ELSE Get(q, "shifts", call[q].shift)

TradeCall(q) ==
  \/ SetOverride(q) \/ ResolvePrice(q)
  \/ CreateWarehouse(q) \/ ListStock(q) \/ Move(q)
  \/ OpenShift(q) \/ CloseShift(q) \/ RecordCash(q) \/ ReadShifts(q)
=============================================================================
