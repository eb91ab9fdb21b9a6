---------------------------- MODULE ChannelSync ----------------------------
(***************************************************************************)
(* Outbound sync of one variant (services/core/app/sync/dispatcher.py): an *)
(* event of the change feed becomes pushes to the channels that list the   *)
(* variant.  The feed is the consumer's side of EventBus: lowest visible   *)
(* event first, a failed one hidden for a while and retried, dead-lettered *)
(* after MaxRetries reads.  A push is an HTTP call: it may fail, be        *)
(* refused, or land although its answer is lost; it does not roll back.    *)
(* Two figures are pushed: the stock and the price (domain/pricing.py).    *)
(***************************************************************************)
EXTENDS Integers, FiniteSets, SequencesExt

CONSTANTS
  Warehouses,
  Online,          \* warehouses with is_online_sellable
  Channels,        \* the tenant's active channels
  Buffer,          \* safety_stock of each channel
  Prices,          \* prices of the variant
  PosPrices,       \* base prices a pull of the POS catalog may bring
  MaxRetries,      \* reads after which a failing event is dead-lettered
  NotListed,       \* "the channel does not list the variant"
  Idle,            \* "the consumer handles no event"
  Answers,         \* what may come of a call, see Raises
  MaxStock,        \* bound: available units per warehouse
  MaxEvents        \* bound: events of the change feed

ASSUME OnlineAssumption == Online \subseteq Warehouses /\ IsFiniteSet(Online)
ASSUME BufferAssumption == Buffer \in [Channels -> Nat]
ASSUME PriceAssumption == 0 \in Prices /\ Prices \subseteq Nat /\ PosPrices \subseteq Prices
ASSUME AnswerAssumption ==
  Answers \subseteq {"2xx", "429", "5xx", "timeout", "401", "4xx", "breaker open"}
ASSUME LimitAssumption == MaxRetries \in Nat \ {0}
ASSUME BoundAssumption == MaxStock \in Nat /\ MaxEvents \in Nat \ {0}

Facets == {"stock", "price"}
Figures == [stock : Nat, price : Prices]
(* An override; its window is still to come, open or over.                 *)
Override == [price : Prices, window : {"coming", "open", "over"}]
(* "told" is the payload: the level of a movement, the price of an         *)
(* override.                                                               *)
Event == [id : 1..MaxEvents, kind : {"added", "moved", "priced"}, told : Nat,
          reads : 0..MaxRetries]
Work == [event : Event, todo : SUBSET Channels, figures : Figures]
Listing == [status : {"none", "pending", "active"}, stamp : 0..MaxEvents]

ASSUME NoneAssumption == NotListed \notin Figures /\ Idle \notin Work

VARIABLES
  stock,           \* committed qty - reserved_qty of each warehouse
  basePrice,       \* variants.base_price_minor
  overrides,       \* price_overrides of the variant, oldest created_at first
  published,       \* products.online_published; "soon": see PublishUnaware
  nextId,          \* the last event written
  feed,            \* events neither handled nor dead-lettered
  delayed,         \* events hidden until a timeout or a backoff runs out
  work,            \* the event the dispatcher handles
  listing,         \* committed channel_listings, last_synced_at as event id
  draft,           \* what the handler's transaction has made of them
  shown,           \* the stock and price each channel shows to its customers
  landed,          \* events whose push reached each channel
  missed,          \* by facet: channels whose last push was swallowed, given up
                   \* or late
  lapsed           \* channels not told the price since it changed silently

priceVars == <<basePrice, overrides>>
hubVars == <<stock, priceVars, published, nextId>>
feedVars == <<feed, delayed, work>>
listingVars == <<listing, draft>>
channelVars == <<shown, landed, missed, lapsed>>
vars == <<hubVars, feedVars, listingVars, channelVars>>

TypeOK ==
  /\ stock \in [Warehouses -> 0..MaxStock]
  /\ basePrice \in Prices
  /\ overrides \in Seq(Override)
  /\ published \in {"no", "soon", "yes"}
  /\ nextId \in 0..MaxEvents
  /\ feed \subseteq Event
  /\ delayed \subseteq {e.id : e \in feed}
  /\ work # Idle => work \in Work /\ work.event \in feed
  /\ listing \in [Channels -> Listing]
  /\ draft \in [Channels -> Listing]
  /\ shown \in [Channels -> Figures \cup {NotListed}]
  /\ landed \in [Channels -> SUBSET (1..MaxEvents)]
  /\ missed \in [Facets -> SUBSET Channels]
  /\ lapsed \subseteq Channels

(* add_variant has just committed the variant with its first event;        *)
(* meanwhile its product may be in the hands of set_online_published.      *)
Init ==
  /\ stock = [w \in Warehouses |-> 0]
  /\ basePrice = 0
  /\ overrides = <<>>
  /\ published \in {"no", "soon", "yes"}
  /\ nextId = 1
  /\ feed = {[id |-> 1, kind |-> "added", told |-> 0, reads |-> 0]}
  /\ delayed = {}
  /\ work = Idle
  /\ listing = [c \in Channels |-> [status |-> "none", stamp |-> 0]]
  /\ draft = listing
  /\ shown = [c \in Channels |-> NotListed]
  /\ landed = [c \in Channels |-> {}]
  /\ missed = [f \in Facets |-> {}]
  /\ lapsed = {}

(***************************************************************************)
(* What the domain commits, each with its event.                           *)
(***************************************************************************)
Emit(kind, told) ==
  /\ nextId < MaxEvents
  /\ nextId' = nextId + 1
  /\ feed' = feed \cup {[id |-> nextId + 1, kind |-> kind, told |-> told, reads |-> 0]}
  /\ UNCHANGED <<delayed, work, listingVars, channelVars>>

(* A movement tells the level it leaves in its own warehouse.              *)
MovementApplied(w) ==
  \E n \in 0..MaxStock \ {stock[w]} :
    /\ Emit("moved", n)
    /\ stock' = [stock EXCEPT ![w] = n]
    /\ UNCHANGED <<priceVars, published>>

(* created_at is the time its transaction began, so an override may settle *)
(* below some that were committed before it.  Overrides of one store are   *)
(* left out: no channel is asked for a store's price.                      *)
SetOverride(p) ==
  \E window \in {"coming", "open", "over"}, i \in 1 .. Len(overrides) + 1 :
    /\ Emit("priced", p)
    /\ overrides' = InsertAt(overrides, i, [price |-> p, window |-> window])
    /\ UNCHANGED <<stock, basePrice, published>>

(* set_online_published locks the product and emits the variant's event    *)
(* once more.                                                              *)
Publish == /\ published # "soon"
           /\ Emit("added", 0)
           /\ published' = "yes"
           /\ UNCHANGED <<stock, priceVars>>

(* ... unless it read the variants before this one was committed.          *)
PublishUnaware ==
  /\ published = "soon"
  /\ published' = "yes"
  /\ UNCHANGED <<stock, priceVars, nextId, feedVars, listingVars, channelVars>>

Unpublish ==
  /\ published = "yes"
  /\ published' = "no"
  /\ UNCHANGED <<stock, priceVars, nextId, feedVars, listingVars, channelVars>>

(* resolve_price: the newest override in force, else the base price.       *)
PriceFrom(base, list) ==
  LET i == SelectLastInSeq(list, LAMBDA o : o.window = "open")
  IN  IF i = 0 THEN base ELSE list[i].price

EffectivePrice == PriceFrom(basePrice, overrides)

(* No event tells of it.                                                   *)
PriceChangesSilently ==
  /\ lapsed' = IF EffectivePrice' = EffectivePrice THEN lapsed ELSE Channels
  /\ UNCHANGED <<stock, published, nextId, feedVars, listingVars, shown, landed, missed>>

(* Time passes: a window opens or closes.                                  *)
WindowTurns(i) ==
  /\ overrides[i].window # "over"
  /\ overrides' = [overrides EXCEPT ![i].window = IF @ = "coming" THEN "open" ELSE "over"]
  /\ UNCHANGED basePrice
  /\ PriceChangesSilently

(* A pull finds another price in the POS.                                  *)
PosPriceChanges(p) ==
  /\ p # basePrice
  /\ basePrice' = p
  /\ UNCHANGED overrides
  /\ PriceChangesSilently

(***************************************************************************)
(* The dispatcher.                                                         *)
(***************************************************************************)
AtLeastZero(n) == IF n < 0 THEN 0 ELSE n

(* aggregate_online_stock.                                                 *)
OnlineStock == SumFunctionOnSet(stock, Online)

(* build_canonical_product withholds a product that is not published.      *)
Targets(e) == IF e.kind = "added"
                THEN IF published = "yes" THEN Channels ELSE {}
                ELSE {c \in Channels : listing[c].status = "active"}

(* push_listing carries both figures, push_stock and push_price one each.  *)
Carried(e) == CASE e.kind = "added"  -> Facets
                [] e.kind = "moved"  -> {"stock"}
                [] e.kind = "priced" -> {"price"}

(* Mutant: a new variant is listed with the level in its event.            *)
FiguresOfEvent(e) == [stock |-> e.told, price |-> EffectivePrice]

(* Mutant: channels are told the price in the event.                       *)
PriceOfEvent(e) == [stock |-> IF e.kind = "moved" THEN e.told ELSE OnlineStock,
                    price |-> IF e.kind = "priced" THEN e.told
                              ELSE EffectivePrice]

(* What a handler goes by: a movement's event for the stock, the database  *)
(* for everything else.                                                    *)
FiguresFor(e) == [stock |-> IF e.kind = "moved" THEN e.told ELSE OnlineStock,
                  price |-> EffectivePrice]

Ready == {e \in feed : e.id \notin delayed}

(* A read of the queue; build_canonical_product and the listings are read  *)
(* when handling starts.                                                   *)
Handle(e) ==
  LET taken == [e EXCEPT !.reads = @ + 1] IN
    /\ feed' = (feed \ {e}) \cup {taken}
    /\ work' = [event |-> taken, todo |-> Targets(e), figures |-> FiguresFor(e)]
    /\ UNCHANGED <<delayed, hubVars, listingVars, channelVars>>

Take == work = Idle /\ \E e \in Ready : (\A f \in Ready : e.id <= f.id) /\ Handle(e)

(* What channel c is told: the stock less its safety stock.                *)
Offer(c) == [work.figures EXCEPT !.stock = AtLeastZero(@ - Buffer[c])]

(* Mutant: the listing is stamped whatever _guard returned.                *)
StampedAnyway(c) == [status |-> IF draft[c].status = "none" THEN "pending"
                                ELSE draft[c].status,
                     stamp  |-> work.event.id]

(* _ensure_listing creates the row before the push.                        *)
Unsynced(c) == [draft[c] EXCEPT !.status = IF @ = "none" THEN "pending" ELSE @]

Arrive(c) == /\ shown' = [shown EXCEPT ![c] =
                   [f \in Facets |-> IF f \in Carried(work.event) THEN Offer(c)[f] ELSE @[f]]]
             /\ lapsed' = IF "price" \in Carried(work.event)
                               /\ work.figures.price = EffectivePrice
                            THEN lapsed \ {c} ELSE lapsed
             /\ landed' = [landed EXCEPT ![c] = @ \cup {work.event.id}]

(* Channels C miss the facets the event carries.                           *)
Missed(C) == [f \in Facets |-> IF f \in Carried(work.event) THEN missed[f] \cup C
                               ELSE missed[f]]

Reached(c) == [f \in Facets |-> IF f \in Carried(work.event) THEN missed[f] \ {c}
                                ELSE missed[f]]

(* The retry of a movement comes after a later event has been handled.     *)
Overtaken(e) ==
  e.kind = "moved" /\ \E i \in e.id + 1 .. nextId : i \notin {f.id : f \in feed}

(* How an adapter classifies what comes of a call.                         *)
Raises(answer) ==
  CASE answer \in {"429", "5xx", "timeout"} -> "AdapterRetryableError"
    [] answer = "401"                       -> "AdapterAuthError"
    [] answer = "4xx"                       -> "AdapterPermanentError"
    [] answer = "breaker open"              -> "CircuitBreakerOpenError"
    [] answer = "2xx"                       -> "nothing"

Skipped == {"AdapterAuthError", "AdapterPermanentError", "CircuitBreakerOpenError"}

PushLands(c) ==
  /\ "2xx" \in Answers
  /\ work # Idle /\ c \in work.todo
  /\ Arrive(c)
  /\ missed' = IF Overtaken(work.event) THEN Missed({c}) ELSE Reached(c)
  /\ draft' = [draft EXCEPT ![c] = [status |-> "active", stamp |-> work.event.id]]
  /\ work' = [work EXCEPT !.todo = @ \ {c}]
  /\ UNCHANGED <<feed, delayed, listing, hubVars>>

(* _guard returns _SKIPPED.                                                *)
PushRefused(c) ==
  /\ \E a \in Answers : Raises(a) \in Skipped
  /\ work # Idle /\ c \in work.todo
  /\ missed' = Missed({c})
  /\ draft' = [draft EXCEPT ![c] = Unsynced(c)]
  /\ work' = [work EXCEPT !.todo = @ \ {c}]
  /\ UNCHANGED <<feed, delayed, listing, shown, landed, lapsed, hubVars>>

(* The handler's transaction is gone; the event is tried again later.      *)
Retry == /\ delayed' = delayed \cup {work.event.id}
         /\ UNCHANGED <<feed, missed>>

GiveUp == /\ feed' = feed \ {work.event}
          /\ missed' = Missed(work.todo)
          /\ UNCHANGED delayed

(* A retryable error is raised again; the push may have arrived.           *)
PushFails(c) ==
  /\ work # Idle /\ c \in work.todo
  /\ \E a \in Answers :
       /\ Raises(a) = "AdapterRetryableError"
       /\ \/ a # "429" /\ Arrive(c)
          \/ UNCHANGED <<shown, landed, lapsed>>
  /\ IF work.event.reads < MaxRetries THEN Retry ELSE GiveUp
  /\ work' = Idle
  /\ draft' = listing
  /\ UNCHANGED <<listing, hubVars>>

(* Listings, idempotency key and archive commit together.                  *)
EventDone ==
  /\ work # Idle
  /\ work.todo = {}
  /\ listing' = draft
  /\ feed' = feed \ {work.event}
  /\ work' = Idle
  /\ UNCHANGED <<delayed, draft, channelVars, hubVars>>

(* The process dies before the commit.  Bound: not in an event's last read *)
(* (the queue would deliver it again all the same).                        *)
Crash ==
  /\ work # Idle
  /\ work.event.reads < MaxRetries
  /\ Retry
  /\ work' = Idle
  /\ draft' = listing
  /\ UNCHANGED <<listing, shown, landed, lapsed, hubVars>>

Reappear ==
  /\ \E i \in delayed : delayed' = delayed \ {i}
  /\ UNCHANGED <<feed, work, hubVars, listingVars, channelVars>>

Push(c) == PushLands(c) \/ PushRefused(c) \/ PushFails(c)

HubStep == \/ \E w \in Warehouses : MovementApplied(w)
           \/ \E p \in Prices : SetOverride(p)
           \/ \E i \in DOMAIN overrides : WindowTurns(i)
           \/ \E p \in PosPrices : PosPriceChanges(p)
           \/ Publish
           \/ PublishUnaware
           \/ Unpublish

DispatcherStep ==
  \/ Take
  \/ \E c \in Channels : Push(c)
  \/ EventDone
  \/ Crash
  \/ Reappear

Next == HubStep \/ DispatcherStep

Spec == Init /\ [][Next]_vars

-----------------------------------------------------------------------------
(***************************************************************************)
(* Correctness.                                                            *)
(***************************************************************************)

(* The units channel c may sell: stock of the online warehouses less its   *)
(* safety stock.                                                           *)
Truth(c) == AtLeastZero(OnlineStock - Buffer[c])

(* Once the feed is drained a channel that answered the last push, and got *)
(* the movements in their order, shows what it may sell, neither more      *)
(* (oversell) nor less: a listing made from a level some queued movement   *)
(* has left behind, a push that landed unanswered and was retried, a crash *)
(* between two channels do not stay visible.                               *)
QuietShowsTruth ==
  feed = {} =>
    \A c \in Channels \ missed["stock"] :
      listing[c].status = "active" => shown[c].stock = Truth(c)

(* Likewise for the price: the push of an older override that is retried   *)
(* after a newer one, or that finds its override outdated or not yet in    *)
(* force, leaves the price in force.  Only a silent change after the last  *)
(* push may come between.                                                  *)
QuietShowsPrice ==
  feed = {} =>
    \A c \in Channels \ (missed["price"] \cup lapsed) :
      listing[c].status = "active" => shown[c].price = EffectivePrice

(* last_synced_at never claims more than happened (C2, ADR-0020): the push *)
(* a listing is stamped with has reached that channel.                     *)
StampFollowsPush ==
  \A c \in Channels : listing[c].stamp # 0 => listing[c].stamp \in landed[c]

-----------------------------------------------------------------------------
(***************************************************************************)
(* Promised and not kept: TLC refutes the following (README, section       *)
(* "Where the code and its documentation disagree").                       *)
(***************************************************************************)

(* Movements reach a channel in order, "leaving it on a stale snapshot"    *)
(* otherwise (test_eventbus.py).                                           *)
PushesInOrder == [][\A c \in Channels : PushLands(c) => ~Overtaken(work.event)]_vars

(* A price in force reaches the channels; nothing is emitted when a window *)
(* opens or closes or a pull changes the base price.                       *)
PriceReachesChannels ==
  feed = {} =>
    \A c \in Channels \ missed["price"] :
      listing[c].status = "active" => shown[c].price = EffectivePrice

(* A published variant is listed by every channel that took its push: the  *)
(* event is emitted "for every variant", and they are "eligible now".  A   *)
(* publishing that began before the variant was committed passes it by,    *)
(* and the variant's own event finds the product not yet published.        *)
PublishedIsListed ==
  feed = {} /\ published = "yes" =>
    \A c \in Channels \ missed["stock"] : listing[c].status = "active"
=============================================================================
