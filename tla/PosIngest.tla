----------------------------- MODULE PosIngest -----------------------------
(***************************************************************************)
(* The POS catalog pull (services/core/app/sync/pos_ingest.py) on the      *)
(* stock tables of Inventory, next to API callers.  One transaction walks  *)
(* over every pulled product: find or create its variant, then drive the   *)
(* level of the target warehouse to the stock the POS reports.             *)
(*                                                                         *)
(* _set_stock first loads the levels as ORM entities (get_inventory) and   *)
(* keeps them; the SELECT ... FOR UPDATE of apply_movement then returns    *)
(* the object already in the session's identity map, with the attributes   *)
(* it had before the row was locked.                                       *)
(***************************************************************************)
EXTENDS Inventory

CONSTANTS
  Syncs,           \* the sessions that run a pull
  Target,          \* the tenant's online-sellable warehouse of lowest id
  Pulls,           \* catalogs the POS may return: sequences of [sku, stock]
  Known            \* the variants the hub starts with

ASSUME SyncAssumption == Syncs \subseteq Sessions /\ Target \in Warehouses
ASSUME KnownAssumption == Known \subseteq Variants

Product == [sku : Variants, stock : Int]

ASSUME PullAssumption == \A pull \in Pulls : pull \in Seq(Product)

VARIABLES
  catalog,         \* committed variants, by SKU
  created,         \* variants an open pull has inserted
  products,        \* the catalog a pull is working on
  next,            \* the product it is at
  cached           \* the level get_inventory left in the identity map

syncVars == <<catalog, created, products, next, cached>>
allSyncVars == <<vars, syncVars>>

SyncTypeOK ==
  /\ TypeOK
  /\ catalog \subseteq Variants
  /\ created \in [Syncs -> SUBSET Variants]
  /\ products \in [Syncs -> Seq(Product)]
  /\ next \in [Syncs -> Nat]
  /\ cached \in [Syncs -> Level]

SyncInit ==
  /\ Init
  /\ catalog = Known
  /\ created = [s \in Syncs |-> {}]
  /\ products = [s \in Syncs |-> <<>>]
  /\ next = [s \in Syncs |-> 1]
  /\ cached = [s \in Syncs |-> NewLevel]

Current(s) == products[s][next[s]]
PullDone(s) == next[s] > Len(products[s])
TargetRow(s) == <<Current(s).sku, Target>>

Pull(s) ==
  /\ job[s] = "none"
  /\ nextSeq < MaxSeq
  /\ \E pull \in Pulls : products' = [products EXCEPT ![s] = pull]
  /\ job' = [job EXCEPT ![s] = "sync"]
  /\ pc' = [pc EXCEPT ![s] = "plan"]
  /\ UNCHANGED <<stockVars, todo, seen, catalog, created, next, cached>>

(***************************************************************************)
(* find_variant_by_sku, create_product and add_variant.                    *)
(***************************************************************************)
FindVariant(s) ==
  /\ pc[s] = "plan"
  /\ ~PullDone(s)
  /\ pc' = [pc EXCEPT ![s] = IF Current(s).sku \in catalog \cup created[s]
                             THEN "level" ELSE "create"]
  /\ UNCHANGED <<stockVars, job, todo, seen, syncVars>>

CreatedElsewhere(s, v) == \E t \in Syncs \ {s} : v \in created[t]

(* Mutant: the product is remembered instead of its SKU.                   *)
CreateProduct(s) ==
  /\ pc[s] = "create"
  /\ Current(s).sku \notin catalog
  /\ ~CreatedElsewhere(s, Current(s).sku)
  /\ created' = [created EXCEPT ![s] = @ \cup {Current(s)}]
  /\ pc' = [pc EXCEPT ![s] = "level"]
  /\ UNCHANGED <<stockVars, job, todo, seen, catalog, products, next, cached>>

CreateVariant(s) ==
  /\ pc[s] = "create"
  /\ Current(s).sku \notin catalog
  /\ ~CreatedElsewhere(s, Current(s).sku)
  /\ created' = [created EXCEPT ![s] = @ \cup {Current(s).sku}]
  /\ pc' = [pc EXCEPT ![s] = "level"]
  /\ UNCHANGED <<stockVars, job, todo, seen, catalog, products, next, cached>>

(* uq_variants_tenant_sku: somebody else created the SKU meanwhile.        *)
SkuTaken(s) == pc[s] = "create" /\ Current(s).sku \in catalog

(***************************************************************************)
(* _set_stock.                                                             *)
(***************************************************************************)
Adjustment(s, level) ==
  [row |-> TargetRow(s), expected |-> NoLevel,
   kind |-> IF Exists(level) THEN "adjust" ELSE "in",
   qty  |-> Current(s).stock - level.qty]

NextProduct(s) ==
  /\ next' = [next EXCEPT ![s] = @ + 1]
  /\ cached' = [cached EXCEPT ![s] = NewLevel]
  /\ UNCHANGED <<catalog, created, products>>

(* Already at the target, or no row and nothing to stock: no movement.     *)
InPlace(s) ==
  LET level == View(s, TargetRow(s)) IN
    IF Exists(level) THEN level.qty = Current(s).stock ELSE Current(s).stock <= 0

AtTarget(s) ==
  /\ pc[s] = "level"
  /\ InPlace(s)
  /\ pc' = [pc EXCEPT ![s] = "plan"]
  /\ NextProduct(s)
  /\ UNCHANGED <<stockVars, job, todo, seen>>

GetInventory(s) ==
  /\ pc[s] = "level"
  /\ ~InPlace(s)
  /\ cached' = [cached EXCEPT ![s] = View(s, TargetRow(s))]
  /\ todo' = [todo EXCEPT ![s] = <<Adjustment(s, View(s, TargetRow(s)))>>]
  /\ pc' = [pc EXCEPT ![s] = "select"]
  /\ UNCHANGED <<stockVars, job, seen, catalog, created, products, next>>

(* Mutant: populate_existing() in the locking SELECT, the difference being *)
(* computed before it as ever.                                             *)
FreshObject(s, r) == View(s, r)

(* The object the locking SELECT returns.                                  *)
ObjectOf(s, r) == IF Exists(cached[s]) THEN cached[s] ELSE View(s, r)

SelectCached(s) ==
  /\ pc[s] = "select"
  /\ LET r == Head(todo[s]).row IN
       /\ Exists(View(s, r))
       /\ Lock(s, r)
       /\ seen' = [seen EXCEPT ![s] = ObjectOf(s, r)]
  /\ pc' = [pc EXCEPT ![s] = "apply"]
  /\ UNCHANGED <<levels, journal, outbox, nextSeq, pending, job, todo, syncVars>>

ApplySync(s) == ApplyMovement(s) /\ NextProduct(s)

SyncMovement(s) ==
  \/ SelectCached(s)
  \/ FindNoRow(s) /\ UNCHANGED syncVars
  \/ InsertRow(s) /\ UNCHANGED syncVars
  \/ ApplySync(s)

(***************************************************************************)
(* The end of the pull.                                                    *)
(***************************************************************************)
FinishSync(s) ==
  /\ Finish(s)
  /\ created' = [created EXCEPT ![s] = {}]
  /\ products' = [products EXCEPT ![s] = <<>>]
  /\ next' = [next EXCEPT ![s] = 1]
  /\ cached' = [cached EXCEPT ![s] = NewLevel]
  /\ UNCHANGED nextSeq

CommitSync(s) ==
  /\ pc[s] = "plan"
  /\ PullDone(s)
  /\ Publish(s)
  /\ catalog' = catalog \cup created[s]
  /\ FinishSync(s)

RollBackSync(s) ==
  /\ FinishSync(s)
  /\ UNCHANGED <<levels, journal, outbox, catalog>>

(* The row computed from the cached object breaks a CHECK constraint.      *)
CheckViolated(s) ==
  /\ pc[s] = "apply"
  /\ Permitted(Head(todo[s]), seen[s])
  /\ ~Sound(Stored(s, Head(todo[s])))

(* Any error, of any product, undoes the pull of the whole tenant.         *)
FailSync(s) == (Fails(s) \/ SkuTaken(s) \/ CheckViolated(s)) /\ RollBackSync(s)

CrashSync(s) == job[s] # "none" /\ RollBackSync(s)

(* A pull may also wait for the uncommitted SKU of another pull.           *)
SyncWaitsFor(s) ==
  IF pc[s] = "create" /\ Current(s).sku \notin catalog
  THEN {t \in Syncs \ {s} : Current(s).sku \in created[t]}
  ELSE WaitsFor(s)

(* Mutant: only row locks are looked at.                                   *)
RowDeadlocked(s) == InRing(s, WaitsFor)

SyncDeadlocked(s) == InRing(s, SyncWaitsFor)

AbortSyncDeadlock(s) == SyncDeadlocked(s) /\ RollBackSync(s)

(* Every step of a pull but the crash.                                     *)
SyncProgress(s) ==
  \/ FindVariant(s)
  \/ CreateVariant(s)
  \/ AtTarget(s)
  \/ GetInventory(s)
  \/ SyncMovement(s)
  \/ CommitSync(s)
  \/ FailSync(s)
  \/ AbortSyncDeadlock(s)

SyncStep(s) ==
  \/ Pull(s)
  \/ SyncProgress(s)
  \/ CrashSync(s)

(* API callers move the stock of known variants only (NotFoundError        *)
(* otherwise), and add variants in transactions of their own.              *)
ApiCaller(s) ==
  /\ ApiStep(s)
  /\ \A i \in DOMAIN todo'[s] : todo'[s][i].row[1] \in catalog
  /\ UNCHANGED syncVars

AddVariant(v) ==
  /\ v \notin catalog
  /\ \A s \in Syncs : v \notin created[s]
  /\ catalog' = catalog \cup {v}
  /\ UNCHANGED <<vars, created, products, next, cached>>

SyncNext ==
  \/ \E s \in Syncs : SyncStep(s)
  \/ \E s \in Sessions \ Syncs : ApiCaller(s)
  \/ \E v \in Variants : AddVariant(v)

SyncSpec == SyncInit /\ [][SyncNext]_allSyncVars

(* As in Inventory; the key of a new SKU is a lock with waiters, too.  An  *)
(* API transaction that holds a row a pull waits for goes on as well.      *)
SyncFairness ==
  /\ \A s \in Syncs : SF_allSyncVars(SyncProgress(s))
  /\ \A s \in Sessions \ Syncs :
       SF_allSyncVars(ApiProgress(s) /\ ApiCaller(s))

FairSyncSpec == SyncSpec /\ SyncFairness

-----------------------------------------------------------------------------
(***************************************************************************)
(* Correctness.                                                            *)
(***************************************************************************)

(* A pull that commits leaves the levels it booked at the stock the POS    *)
(* reported (the last time it lists them), whatever was sold or received   *)
(* between the look at a level, which the difference is computed from, and *)
(* its lock.  Not so if a level it found missing was created meanwhile.    *)
LastReport(s, i) ==
  \A j \in DOMAIN products[s] : products[s][j].sku = products[s][i].sku => j <= i

SyncStoresReport ==
  [][\A s \in Syncs :
       job[s] = "sync" /\ job'[s] = "none" /\ outbox' # outbox
         => \A i \in DOMAIN products[s] :
              LET r == <<products[s][i].sku, Target>> IN
                /\ holder[r] = s /\ LastReport(s, i)
                /\ Stock[r] # 0 \/ ~Exists(levels[r])
                => levels'[r].qty = products[s][i].stock]_allSyncVars

(* A pull leaves the reservations of every row alone, also those committed *)
(* after it loaded the level.                                              *)
SyncKeepsReservations ==
  [][\A s \in Syncs :
       job[s] = "sync" /\ job'[s] = "none"
         => \A r \in Rows : levels'[r].reserved = levels[r].reserved]_allSyncVars

(* Overlapping pulls all end, whatever order the POS lists its products in *)
(* and whichever of them has to create a SKU first.                        *)
SyncsEnd == \A s \in Syncs : job[s] = "sync" ~> job[s] = "none"

-----------------------------------------------------------------------------
(***************************************************************************)
(* Promised and not kept: TLC refutes the following (README, section       *)
(* "Where the code and its documentation disagree").                       *)
(***************************************************************************)

(* "Drive the variant's stock in warehouse_id to target": a pull that      *)
(* commits leaves every level it locked at the stock the POS reported,     *)
(* whatever moved meanwhile, and no product of it half done.               *)
SyncReachesTarget ==
  [][\A s \in Syncs :
       job[s] = "sync" /\ job'[s] = "none" /\ levels' # levels
         => \A i \in DOMAIN products[s] :
              LET r == <<products[s][i].sku, Target>> IN
                holder[r] = s => levels'[r].qty = products[s][i].stock]_allSyncVars
=============================================================================
