--------------------------- MODULE WebhookIngress ---------------------------
(***************************************************************************)
(* The way of a channel order through the hub                              *)
(* (services/core/app/api/v1/webhooks.py) and around it: the channel       *)
(* delivers, and redelivers until it is answered; one transaction decides  *)
(* the order; after its commit the order is written to the POS and then    *)
(* acknowledged to the channel, each once and at best; the next pull       *)
(* brings the stock of the POS back.  The decision is OrderBook's single   *)
(* step, which OrderIngest implements; a pull is one step of PosIngest     *)
(* after the answer of the POS.  One variant, one warehouse.               *)
(***************************************************************************)
EXTENDS Integers, FiniteSetsExt

CONSTANTS
  Sessions,        \* requests the endpoint serves at a time
  Orders,
  Demand,          \* units each order asks for
  Code,            \* the adapter of the channel each order is of
  Stock,           \* units in the POS and the hub when it starts
  NoOrder,         \* "no delivery under way"
  NoAnswer         \* "no pull under way"

ASSUME DemandAssumption == Demand \in [Orders -> Nat \ {0}]
ASSUME CodeAssumption == Code \in [Orders -> {"mock-bazar", "mock-marketplace"}]
ASSUME StockAssumption == Stock \in Nat
ASSUME NoneAssumption == NoOrder \notin Orders /\ NoAnswer \notin Int

VARIABLES
  status,          \* channel_orders, "none" until the row is committed
  qty, reserved,   \* the committed level
  at,              \* what each request does next
  order,           \* the order it carries
  outcome,         \* IngestOutcome.status
  answered,        \* orders whose delivery the channel got a 200 for
  sale,            \* its state in the channel's store, in the channel's words
  recorded,        \* how often the POS has got each order
  posStock,        \* what the POS has on hand
  pulled           \* stock in the answer to a pull

hubVars == <<status, qty, reserved>>
requestVars == <<at, order, outcome>>
channelVars == <<answered, sale>>
posVars == <<recorded, posStock, pulled>>
vars == <<hubVars, requestVars, channelVars, posVars>>

(***************************************************************************)
(* The words of a channel (adapters/mock_bazar, adapters/mock_marketplace  *)
(* and the servers under mocks/).                                          *)
(***************************************************************************)
(* _ACK_TO_SALE; the marketplace speaks the hub's words.                   *)
AckToSale ==
  [pending |-> "new", confirmed |-> "accepted", fulfilled |-> "shipped", cancelled |-> "void"]

StateFor(o, ack) ==
  IF Code[o] = "mock-marketplace" THEN ack
  ELSE IF ack \in DOMAIN AckToSale THEN AckToSale[ack] ELSE "new"

(* The status normalize_webhook and pull_orders read out of a state.       *)
SaleToOrder ==
  [new |-> "pending", accepted |-> "confirmed", shipped |-> "fulfilled", void |-> "cancelled"]

StatusOf(o) == IF Code[o] = "mock-bazar" THEN SaleToOrder[sale[o]] ELSE sale[o]

(* seed_sale and seed_order: an order nobody has acknowledged.             *)
Unacknowledged(o) == IF Code[o] = "mock-bazar" THEN "new" ELSE "pending"

TypeOK ==
  /\ status \in [Orders -> {"none", "reserved", "rejected"}]
  /\ qty \in Nat /\ reserved \in 0..qty
  /\ at \in [Sessions -> {"idle", "ingest", "write", "acknowledge"}]
  /\ order \in [Sessions -> Orders \cup {NoOrder}]
  /\ outcome \in [Sessions -> {"none", "reserved", "rejected", "duplicate"}]
  /\ \A s \in Sessions : at[s] = "idle" <=> order[s] = NoOrder
  /\ answered \subseteq Orders
  /\ DOMAIN sale = Orders
  /\ \A o \in Orders : sale[o] \in
       IF Code[o] = "mock-bazar" THEN DOMAIN SaleToOrder ELSE DOMAIN AckToSale
  /\ recorded \in [Orders -> Nat]
  /\ posStock \in Int
  /\ pulled \in Int \cup {NoAnswer}

Init ==
  /\ status = [o \in Orders |-> "none"]
  /\ qty = Stock /\ reserved = 0
  /\ at = [s \in Sessions |-> "idle"]
  /\ order = [s \in Sessions |-> NoOrder]
  /\ outcome = [s \in Sessions |-> "none"]
  /\ answered = {}
  /\ sale = [o \in Orders |-> Unacknowledged(o)]
  /\ recorded = [o \in Orders |-> 0]
  /\ posStock = Stock
  /\ pulled = NoAnswer

(***************************************************************************)
(* The endpoint.                                                           *)
(***************************************************************************)
(* A delivery, or a redelivery: the channel may not have seen the answer.  *)
Deliver(s, o) ==
  /\ at[s] = "idle"
  /\ at' = [at EXCEPT ![s] = "ingest"]
  /\ order' = [order EXCEPT ![s] = o]
  /\ UNCHANGED <<outcome, hubVars, channelVars, posVars>>

Finish(s) ==
  /\ at' = [at EXCEPT ![s] = "idle"]
  /\ order' = [order EXCEPT ![s] = NoOrder]
  /\ outcome' = [outcome EXCEPT ![s] = "none"]

Decide(s, verdict, next) ==
  /\ outcome' = [outcome EXCEPT ![s] = verdict]
  /\ at' = [at EXCEPT ![s] = next]
  /\ UNCHANGED <<qty, order, channelVars, posVars>>

Record(o, verdict) == status' = [status EXCEPT ![o] = verdict]

Reserve(s) ==
  LET o == order[s] IN
    /\ at[s] = "ingest" /\ status[o] = "none"
    /\ qty - reserved >= Demand[o]
    /\ reserved' = reserved + Demand[o]
    /\ Record(o, "reserved")
    /\ Decide(s, "reserved", "write")

Reject(s) ==
  LET o == order[s] IN
    /\ at[s] = "ingest" /\ status[o] = "none"
    /\ qty - reserved < Demand[o]
    /\ Record(o, "rejected")
    /\ Decide(s, "rejected", "acknowledge")
    /\ UNCHANGED reserved

(* Mutant: a redelivery is passed on like the first delivery.              *)
PassOnAgain(s) ==
  /\ at[s] = "ingest" /\ status[order[s]] # "none"
  /\ Decide(s, "reserved", "write")
  /\ UNCHANGED <<status, reserved>>

(* Mutant: nobody catches the IntegrityError of the taken key.             *)
DuplicateIsAnError(s) ==
  /\ at[s] = "ingest" /\ status[order[s]] # "none"
  /\ Finish(s)
  /\ UNCHANGED <<hubVars, channelVars, posVars>>

(* The key of the row is taken: no stock, no POS, no acknowledgement.      *)
Duplicate(s) ==
  /\ at[s] = "ingest" /\ status[order[s]] # "none"
  /\ Finish(s)
  /\ answered' = answered \cup {order[s]}
  /\ UNCHANGED <<sale, hubVars, posVars>>

(* Not found, inactive, unsigned, malformed, or the transaction fails: the *)
(* request ends with an error before anything is committed.                *)
Refuse(s) ==
  /\ at[s] = "ingest"
  /\ Finish(s)
  /\ UNCHANGED <<hubVars, channelVars, posVars>>

(* push_order; a POS takes the units of an order off its stock.            *)
WriteLands(s) ==
  /\ at[s] = "write"
  /\ recorded' = [recorded EXCEPT ![order[s]] = @ + 1]
  /\ posStock' = posStock - Demand[order[s]]
  /\ at' = [at EXCEPT ![s] = "acknowledge"]
  /\ UNCHANGED <<order, outcome, pulled, hubVars, channelVars>>

(* The POS refuses or does not answer, or none is wired that takes orders. *)
WriteFails(s) ==
  /\ at[s] = "write"
  /\ at' = [at EXCEPT ![s] = "acknowledge"]
  /\ UNCHANGED <<order, outcome, hubVars, channelVars, posVars>>

(* Mutant: every order is confirmed.                                       *)
AlwaysConfirmed(verdict) == "confirmed"

AckStatus(verdict) == IF verdict = "reserved" THEN "confirmed" ELSE "cancelled"

(* acknowledge_order, and the channel's store takes the state over.        *)
SetSaleState(o, state) == sale' = [sale EXCEPT ![o] = state]

AckLands(s) ==
  /\ at[s] = "acknowledge"
  /\ SetSaleState(order[s], StateFor(order[s], AckStatus(outcome[s])))
  /\ answered' = answered \cup {order[s]}
  /\ Finish(s)
  /\ UNCHANGED <<hubVars, posVars>>

AckFails(s) ==
  /\ at[s] = "acknowledge"
  /\ answered' = answered \cup {order[s]}
  /\ Finish(s)
  /\ UNCHANGED <<sale, hubVars, posVars>>

(* The process dies, or an error that is not the adapter's comes through.  *)
Crash(s) ==
  /\ at[s] # "idle"
  /\ Finish(s)
  /\ UNCHANGED <<hubVars, channelVars, posVars>>

(***************************************************************************)
(* The POS.                                                                *)
(***************************************************************************)
ShopSale ==
  /\ posStock > 0
  /\ posStock' = posStock - 1
  /\ UNCHANGED <<recorded, pulled, hubVars, requestVars, channelVars>>

PullAnswered ==
  /\ pulled = NoAnswer
  /\ pulled' = posStock
  /\ UNCHANGED <<recorded, posStock, hubVars, requestVars, channelVars>>

Acceptable == pulled >= reserved /\ pulled >= 0

(* _set_stock adjusts the level to the answer; less than what is reserved  *)
(* (or nothing at all) is refused and undoes the pull.                     *)
PullCommits ==
  /\ pulled # NoAnswer
  /\ qty' = IF Acceptable THEN pulled ELSE qty
  /\ pulled' = NoAnswer
  /\ UNCHANGED <<status, reserved, recorded, posStock, requestVars, channelVars>>

RequestStep(s) ==
  \/ Reserve(s) \/ Reject(s) \/ Duplicate(s) \/ Refuse(s)
  \/ WriteLands(s) \/ WriteFails(s)
  \/ AckLands(s) \/ AckFails(s)

Next ==
  \/ \E s \in Sessions, o \in Orders : Deliver(s, o)
  \/ \E s \in Sessions : RequestStep(s) \/ Crash(s)
  \/ ShopSale \/ PullAnswered \/ PullCommits

Spec == Init /\ [][Next]_vars

(* Requests go on; a channel redelivers what it got no 200 for; an order   *)
(* that is delivered again and again is decided at some time.              *)
Fairness ==
  /\ \A s \in Sessions : WF_vars(RequestStep(s))
  /\ \A s \in Sessions, o \in Orders :
       SF_vars(order[s] = o /\ (Reserve(s) \/ Reject(s) \/ Duplicate(s)))
  /\ \A o \in Orders : SF_vars(o \notin answered /\ \E s \in Sessions : Deliver(s, o))

FairSpec == Spec /\ Fairness

(* The POS and the channel take at last what is tried again and again.     *)
Reachable ==
  \A s \in Sessions : SF_vars(WriteLands(s)) /\ SF_vars(AckLands(s))

ReachableSpec == FairSpec /\ Reachable

-----------------------------------------------------------------------------
(***************************************************************************)
(* Correctness.                                                            *)
(***************************************************************************)

(* However often and concurrently an order is delivered, and wherever a    *)
(* request dies, the POS gets it at most once and only if it is reserved.  *)
RecordedAtMostOnce ==
  \A o \in Orders : recorded[o] <= IF status[o] = "reserved" THEN 1 ELSE 0

(* The channel shows an order as confirmed or cancelled only if that is    *)
(* the committed decision, in whichever words the channel has.             *)
AckIsTheDecision ==
  \A o \in Orders :
    /\ StatusOf(o) \in {"pending", "confirmed", "cancelled"}
    /\ StatusOf(o) = "confirmed" => status[o] = "reserved"
    /\ StatusOf(o) = "cancelled" => status[o] = "rejected"

(* Each order is decided and its deliveries end, wherever requests die: a  *)
(* delivery that died after the commit is made good by the duplicate.      *)
DeliveriesSettle == \A o \in Orders : <>(status[o] # "none" /\ o \in answered)

-----------------------------------------------------------------------------
(***************************************************************************)
(* Promised and not kept: TLC refutes the following (README, section       *)
(* "Where the code and its documentation disagree").                       *)
(***************************************************************************)

(* "Reconciliation (AI-2.5.6) sweeps up missed acks": the channel learns   *)
(* what became of every order the hub has decided.                         *)
AcksArrive == \A o \in Orders : status[o] # "none" ~> StatusOf(o) # "pending"

(* "a failure is logged and left for reconciliation/retry": every reserved *)
(* order is written to the POS in the end.                                 *)
SalesReachPos == \A o \in Orders : status[o] = "reserved" ~> recorded[o] > 0

(* "stock stays honest everywhere": a pull leaves the hub with what the    *)
(* POS has less the reserved orders the POS does not know of yet.          *)
Unrecorded == {o \in Orders : status[o] = "reserved" /\ recorded[o] = 0}

PullsHonestStock ==
  [][PullCommits /\ pulled = posStock =>
       qty' - reserved' = posStock - MapThenSumSet(LAMBDA o : Demand[o], Unrecorded)]_vars
=============================================================================
