---------------------------- MODULE OrderIngest ----------------------------
(***************************************************************************)
(* Inbound channel orders (services/core/app/sync/order_ingest.py) on the  *)
(* stock tables of Inventory, next to API callers.  Each delivery of an    *)
(* order webhook is one transaction: insert the channel_orders row (its    *)
(* UNIQUE key makes a redelivery a duplicate), then reserve every line in  *)
(* a SAVEPOINT, then commit the order as reserved or rejected.  A channel  *)
(* may deliver the same order any number of times, concurrently too.       *)
(***************************************************************************)
EXTENDS Inventory

CONSTANTS
  Skus,            \* what a line may name, a variant or not
  Orders,          \* channel orders (channel, channel_order_id)
  Lines,           \* the lines of each order: a sequence of [sku, qty]
  Online,          \* warehouses with is_online_sellable
  Webhooks         \* the sessions that serve webhook deliveries

ASSUME WarehouseAssumption == Warehouses \subseteq Nat /\ IsFiniteSet(Warehouses)
ASSUME OnlineAssumption == Online \subseteq Warehouses
(* The quantity of a line is an unchecked int (CanonicalOrderLine.qty).    *)
ASSUME LinesAssumption == Lines \in [Orders -> Seq([sku : Skus, qty : Int])]
ASSUME OrdersAssumption == IsFiniteSet(Orders)
ASSUME WebhookAssumption == Webhooks \subseteq Sessions

VARIABLES
  orders,          \* committed channel_orders.status, "none": no row
  orderLock,       \* the transaction that holds an order's key uncommitted
  held,            \* committed reservations by order reference, per row
  order,           \* the order a webhook session ingests
  line,            \* the line it reserves next
  short,           \* whether the line just planned exceeds the planned stock
  taken,           \* reservations of its open transaction, per row
  verdict          \* the status its transaction is to commit

ingestVars == <<order, line, short, taken, verdict>>
orderVars == <<orders, orderLock, held, ingestVars>>
allOrderVars == <<vars, orderVars>>

Status == {"none", "reserved", "rejected"}
NothingTaken == [r \in Rows |-> 0]

OrderTypeOK ==
  /\ TypeOK
  /\ orders \in [Orders -> Status]
  /\ orderLock \in [Orders -> Webhooks \cup {NoSession}]
  /\ held \in [Orders -> [Rows -> Nat]]
  /\ order \in [Webhooks -> Orders]
  /\ line \in [Webhooks -> Nat]
  /\ short \in [Webhooks -> BOOLEAN]
  /\ taken \in [Webhooks -> [Rows -> Nat]]
  /\ verdict \in [Webhooks -> Status]

(* What order[s] holds while s serves no delivery is never read.           *)
AnyOrder == CHOOSE o \in Orders : TRUE

OrderInit ==
  /\ Init
  /\ orders = [o \in Orders |-> "none"]
  /\ orderLock = [o \in Orders |-> NoSession]
  /\ held = [o \in Orders |-> NothingTaken]
  /\ order = [s \in Webhooks |-> AnyOrder]
  /\ line = [s \in Webhooks |-> 1]
  /\ short = [s \in Webhooks |-> FALSE]
  /\ taken = [s \in Webhooks |-> NothingTaken]
  /\ verdict = [s \in Webhooks |-> "none"]

(***************************************************************************)
(* Insert the order row.                                                   *)
(***************************************************************************)
Deliver(s, o) ==
  /\ job[s] = "none"
  /\ nextSeq < MaxSeq
  /\ job' = [job EXCEPT ![s] = "order"]
  /\ pc' = [pc EXCEPT ![s] = "record"]
  /\ order' = [order EXCEPT ![s] = o]
  /\ UNCHANGED <<stockVars, todo, seen, orders, orderLock, held,
                 line, short, taken, verdict>>

(* Mutant: no UNIQUE key on (channel, channel order id).                   *)
RecordOrderAgain(s) ==
  /\ pc[s] = "record"
  /\ orderLock[order[s]] = NoSession
  /\ orderLock' = [orderLock EXCEPT ![order[s]] = s]
  /\ pc' = [pc EXCEPT ![s] = "plan"]
  /\ UNCHANGED <<stockVars, job, todo, seen, orders, held, ingestVars>>

(* The INSERT waits for a concurrent delivery of the same order.           *)
RecordOrder(s) ==
  /\ pc[s] = "record"
  /\ orders[order[s]] = "none"
  /\ orderLock[order[s]] = NoSession
  /\ orderLock' = [orderLock EXCEPT ![order[s]] = s]
  /\ pc' = [pc EXCEPT ![s] = "plan"]
  /\ UNCHANGED <<stockVars, job, todo, seen, orders, held, ingestVars>>

(* The transaction forgets everything; the next one starts afresh.         *)
FinishOrder(s) ==
  /\ Finish(s)
  /\ orderLock' = [o \in Orders |-> IF orderLock[o] = s THEN NoSession ELSE orderLock[o]]
  /\ line' = [line EXCEPT ![s] = 1]
  /\ short' = [short EXCEPT ![s] = FALSE]
  /\ taken' = [taken EXCEPT ![s] = NothingTaken]
  /\ verdict' = [verdict EXCEPT ![s] = "none"]
  /\ order' = [order EXCEPT ![s] = AnyOrder]
  /\ UNCHANGED nextSeq

(* A redelivery: nothing is reserved and nothing acknowledged.             *)
Duplicate(s) ==
  /\ pc[s] = "record"
  /\ orders[order[s]] # "none"
  /\ FinishOrder(s)
  /\ UNCHANGED <<levels, journal, outbox, orders, held>>

(***************************************************************************)
(* reserve_order.                                                          *)
(***************************************************************************)
(* The allocation of a line, from levels read without a lock: greedy,      *)
(* lowest warehouse id first.  A warehouse without a level has nothing.    *)
Allocate(plan, s, v, w) ==
  LET free == Available(View(s, <<v, w>>))
      take == IF free < plan.remaining THEN free ELSE plan.remaining
  IN  IF take <= 0 THEN plan
      ELSE [remaining |-> plan.remaining - take,
            moves     |-> Append(plan.moves,
              [row |-> <<v, w>>, kind |-> "reserve", qty |-> take, expected |-> NoLevel])]

(* The warehouses are gone through in the order of their ids, so the one   *)
(* of the highest id gets what the others leave.                           *)
Plan(s, v, qty) ==
  MapThenFoldSet(LAMBDA w, plan : Allocate(plan, s, v, w),
                 [remaining |-> qty, moves |-> <<>>],
                 LAMBDA w : w, Max, Online)

CurrentLine(s) == Lines[order[s]][line[s]]
AllLinesDone(s) == line[s] > Len(Lines[order[s]])

PlanLine(s) ==
  /\ pc[s] = "plan"
  /\ ~short[s] /\ ~AllLinesDone(s) /\ CurrentLine(s).sku \in Variants
  /\ \E plan \in {Plan(s, CurrentLine(s).sku, CurrentLine(s).qty)} :
       /\ todo' = [todo EXCEPT ![s] = plan.moves]
       /\ short' = [short EXCEPT ![s] = plan.remaining > 0]
       /\ pc' = [pc EXCEPT ![s] = IF plan.moves = <<>> THEN "plan" ELSE "select"]
  /\ line' = [line EXCEPT ![s] = @ + 1]
  /\ UNCHANGED <<stockVars, job, seen, orders, orderLock, held,
                 order, taken, verdict>>

Take(s, m) == [taken[s] EXCEPT ![m.row] = @ + m.qty]

ReserveMovement(s) ==
  \/ /\ SelectForUpdate(s)
     /\ UNCHANGED orderVars
  \/ /\ ApplyMovement(s)
     /\ taken' = [taken EXCEPT ![s] = Take(s, Head(todo[s]))]
     /\ UNCHANGED <<orders, orderLock, held, order, line, short, verdict>>

Accept(s) ==
  /\ pc[s] = "plan"
  /\ ~short[s] /\ AllLinesDone(s)
  /\ verdict' = [verdict EXCEPT ![s] = "reserved"]
  /\ pc' = [pc EXCEPT ![s] = "commit"]
  /\ UNCHANGED <<stockVars, job, todo, seen, orders, orderLock, held,
                 order, line, short, taken>>

UnknownSku(s) == /\ pc[s] = "plan"
                 /\ ~short[s] /\ ~AllLinesDone(s)
                 /\ CurrentLine(s).sku \notin Variants

OutOfStock(s) == pc[s] = "plan" /\ short[s]

(* Mutant: the rejected order keeps what its first lines reserved.         *)
RejectWithoutSavepoint(s) ==
  /\ UnknownSku(s) \/ OutOfStock(s) \/ Fails(s)
  /\ todo' = [todo EXCEPT ![s] = <<>>]
  /\ taken' = [taken EXCEPT ![s] = NothingTaken]
  /\ verdict' = [verdict EXCEPT ![s] = "rejected"]
  /\ pc' = [pc EXCEPT ![s] = "commit"]
  /\ UNCHANGED <<stockVars, job, seen, orders, orderLock, held, order, line, short>>

(* ROLLBACK TO SAVEPOINT undoes the reservations of every line and gives   *)
(* their row locks back; the order row stays.                              *)
Reject(s) ==
  /\ UnknownSku(s) \/ OutOfStock(s) \/ Fails(s)
  /\ Release(s)
  /\ taken' = [taken EXCEPT ![s] = NothingTaken]
  /\ todo' = [todo EXCEPT ![s] = <<>>]
  /\ verdict' = [verdict EXCEPT ![s] = "rejected"]
  /\ pc' = [pc EXCEPT ![s] = "commit"]
  /\ UNCHANGED <<levels, journal, outbox, nextSeq, job, seen,
                 orders, orderLock, held, order, line, short>>

CommitOrder(s) ==
  /\ pc[s] = "commit"
  /\ Publish(s)
  /\ orders' = [orders EXCEPT ![order[s]] = verdict[s]]
  /\ held' = [held EXCEPT ![order[s]] = [r \in Rows |-> @[r] + taken[s][r]]]
  /\ FinishOrder(s)

RollBackOrder(s) ==
  /\ FinishOrder(s)
  /\ UNCHANGED <<levels, journal, outbox, orders, held>>

CrashOrder(s) == job[s] # "none" /\ RollBackOrder(s)

AbortOrderDeadlock(s) == Deadlocked(s) /\ RollBackOrder(s)

(* Every step of a delivery but the crash.                                 *)
Progress(s) ==
  \/ RecordOrder(s)
  \/ Duplicate(s)
  \/ PlanLine(s)
  \/ ReserveMovement(s)
  \/ Accept(s)
  \/ Reject(s)
  \/ CommitOrder(s)
  \/ AbortOrderDeadlock(s)

WebhookStep(s) ==
  \/ \E o \in Orders : Deliver(s, o)
  \/ Progress(s)
  \/ CrashOrder(s)

OrderNext ==
  \/ \E s \in Webhooks : WebhookStep(s)
  \/ \E s \in Sessions \ Webhooks : ApiStep(s) /\ UNCHANGED orderVars

OrderSpec == OrderInit /\ [][OrderNext]_allOrderVars

(* A session that can run does; one that waits for a row, or for the key   *)
(* of an order, is in the lock's queue, so it is not passed over for ever. *)
OrderFairness ==
  /\ \A s \in Webhooks : SF_allOrderVars(Progress(s))
  /\ \A s \in Sessions \ Webhooks : SF_allOrderVars(ApiProgress(s) /\ UNCHANGED orderVars)

FairOrderSpec == OrderSpec /\ OrderFairness

-----------------------------------------------------------------------------
(***************************************************************************)
(* Correctness.                                                            *)
(***************************************************************************)
(* What a line asks of a variant; nothing if it counts nothing or less.    *)
Asked(l, v) == IF l.sku = v /\ l.qty > 0 THEN l.qty ELSE 0

Demand(o, v) == SumFunction([i \in 1 .. Len(Lines[o]) |-> Asked(Lines[o][i], v)])

Summed(units, v) == SumFunction([w \in Warehouses |-> units[<<v, w>>]])

HeldFor(o) == [v \in Variants |-> Summed(held[o], v)]

(* Seen from outside an order is decided once, and at that instant either  *)
(* all of it is reserved or nothing: deliveries, redeliveries, partial     *)
(* plans, savepoint rollbacks and crashes do not show.                     *)
Book == INSTANCE OrderBook WITH status <- orders, promised <- [o \in Orders |-> HeldFor(o)]

ImplementsOrderBook == Book!Spec

(* Where only orders reserve, every reserved unit belongs to an order that *)
(* is recorded as reserved (no reservation outlives a rejected, duplicate  *)
(* or crashed delivery), and none is promised to two of them.              *)
ReservationsHaveOrders ==
  \A r \in Rows :
    levels[r].reserved = SumFunction([o \in Orders |-> held[o][r]])

(* Every delivery is answered, whatever rows and keys it has to wait for.  *)
DeliveriesEnd == \A s \in Webhooks : job[s] = "order" ~> job[s] = "none"

-----------------------------------------------------------------------------
(***************************************************************************)
(* Promised and not kept: TLC refutes the following (README, section       *)
(* "Where the code and its documentation disagree").                       *)
(***************************************************************************)

(* reserve_order's contract: it raises ConflictError only "if the online   *)
(* stock can't cover a line".  An order with known SKUs is rejected only   *)
(* when some variant's online stock is below what the order asks of it.    *)
OnlineStock(v) == MapThenSumSet(LAMBDA w : Available(levels[<<v, w>>]), Online)

RejectedOnlyIfShort ==
  [][\A s \in Webhooks :
       (verdict[s] # "rejected" /\ verdict'[s] = "rejected"
         /\ \A i \in DOMAIN Lines[order[s]] : Lines[order[s]][i].sku \in Variants)
       => \E v \in Variants : OnlineStock(v) < Demand(order[s], v)]_allOrderVars
=============================================================================
