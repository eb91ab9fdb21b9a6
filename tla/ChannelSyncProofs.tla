------------------------- MODULE ChannelSyncProofs -------------------------
(***************************************************************************)
(* What holds of the dispatcher for any channels, prices, buffers, answers *)
(* and bounds: stamps are earned, and once the feed is drained channels    *)
(* show the price in force and, with one warehouse, what they may sell.    *)
(* The argument for both figures is the same.  Whenever a channel that     *)
(* lists the variant shows something else, somebody will tell it: an event *)
(* that waits in the queue, or the one in hand, which has not come to that *)
(* channel yet.                                                            *)
(***************************************************************************)
EXTENDS ChannelSync, TLAPS, FiniteSetTheorems, SequenceTheorems, WellFoundedInduction

-----------------------------------------------------------------------------
(***************************************************************************)
(* Sums.  SumFunctionOnSet is a recursive function over the subsets of a   *)
(* set; that there is one, and what it yields, is shown by the least       *)
(* number of elements for which it would fail.                             *)
(***************************************************************************)
LEMMA LeastNumber ==
  ASSUME NEW B \in SUBSET Nat, B # {}
  PROVE  \E m \in B : \A k \in B : m <= k
<1> DEFINE R == {ss \in Nat \X Nat : ss[1] < ss[2]}
<1>1. IsWellFoundedOn(R, Nat)
  BY NatLessThanWellFounded DEF OpToRel
<1> HIDE DEF R
<1>2. PICK m \in B : \A k \in B : ~ (<<k, m>> \in R)
  BY <1>1, WFMin
<1>3. ASSUME NEW k \in B PROVE m <= k
  <2>1. k \in Nat /\ m \in Nat /\ <<k, m>> \notin R
    BY <1>2
  <2>2. ~ (k < m)
    BY <2>1 DEF R
  <2> QED
    BY <2>1, <2>2
<1> QED
  BY <1>3

(* The element a sum takes next, and the equation of the sums of s.        *)
One(T) == CHOOSE x \in T : TRUE
Sums(s, S, g) == g = [T \in SUBSET S |-> IF T = {} THEN 0 ELSE s[One(T)] + g[T \ {One(T)}]]

LEMMA SumsAt ==
  ASSUME NEW s, NEW S, NEW g, Sums(s, S, g), NEW T \in SUBSET S
  PROVE  g[T] = IF T = {} THEN 0 ELSE s[One(T)] + g[T \ {One(T)}]
<1> DEFINE F == [U \in SUBSET S |-> IF U = {} THEN 0 ELSE s[One(U)] + g[U \ {One(U)}]]
<1>1. g = F
  BY DEF Sums
<1>2. F[T] = IF T = {} THEN 0 ELSE s[One(T)] + g[T \ {One(T)}]
  OBVIOUS
<1> HIDE DEF F
<1> QED
  BY <1>1, <1>2

LEMMA SumsAtTop ==
  ASSUME NEW s, NEW S, NEW g, Sums(s, S, g)
  PROVE  g[S] = IF S = {} THEN 0 ELSE s[One(S)] + g[S \ {One(S)}]
BY SumsAt

LEMMA SumIs ==
  ASSUME NEW s, NEW S
  PROVE SumFunctionOnSet(s, S) = (CHOOSE g : Sums(s, S, g))[S]
  BY DEF SumFunctionOnSet, FoldFunctionOnSet, MapThenFoldSet, Sums, One

LEMMA SumExists ==
  ASSUME NEW S, IsFiniteSet(S), NEW s, \A x \in S : s[x] \in Nat
  PROVE  \E g \in [SUBSET S -> Nat] : Sums(s, S, g)
<1> DEFINE Up(n, g) == \A T \in SUBSET S : Cardinality(T) <= n =>
       g[T] = IF T = {} THEN 0 ELSE s[One(T)] + g[T \ {One(T)}]
           Good(n) == \E g \in [SUBSET S -> Nat] : Up(n, g)
           Bad == {n \in Nat : ~ Good(n)}
<1>0. \A T \in SUBSET S : IsFiniteSet(T) /\ Cardinality(T) \in Nat
        /\ (T # {} => One(T) \in T /\ Cardinality(T) > 0 /\ T \ {One(T)} \in SUBSET S
                      /\ Cardinality(T \ {One(T)}) = Cardinality(T) - 1)
  <2> SUFFICES ASSUME NEW T \in SUBSET S
               PROVE  IsFiniteSet(T) /\ Cardinality(T) \in Nat
        /\ (T # {} => One(T) \in T /\ Cardinality(T) > 0 /\ T \ {One(T)} \in SUBSET S
                      /\ Cardinality(T \ {One(T)}) = Cardinality(T) - 1)
    OBVIOUS
  <2>1. IsFiniteSet(T) /\ Cardinality(T) \in Nat
    BY FS_Subset, FS_CardinalityType
  <2>2. T # {} => One(T) \in T /\ T \ {One(T)} \in SUBSET S
    BY DEF One
  <2>3. T # {} => Cardinality(T) # 0
    BY <2>1, FS_EmptySet
  <2>4. T # {} => Cardinality(T \ {One(T)}) = Cardinality(T) - 1
    BY <2>1, <2>2, FS_RemoveElement
  <2> QED
    BY <2>1, <2>2, <2>3, <2>4
<1> HIDE DEF Good
<1>1. Good(0)
  <2> DEFINE g == [T \in SUBSET S |-> 0]
  <2>1. g \in [SUBSET S -> Nat]
    OBVIOUS
  <2>2. ASSUME NEW T \in SUBSET S, Cardinality(T) <= 0 PROVE T = {}
    <3>1. T # {} => Cardinality(T) > 0
      BY <1>0
    <3>2. Cardinality(T) \in Nat
      BY <1>0
    <3> QED
      BY <3>1, <3>2, <2>2
  <2>3. Up(0, g)
    BY <2>2
  <2> QED
    BY <2>1, <2>3 DEF Good
<1>2. ASSUME NEW n \in Nat, Good(n) PROVE Good(n + 1)
  <2>1. PICK g \in [SUBSET S -> Nat] : Up(n, g)
    BY <1>2 DEF Good
  <2> DEFINE h == [T \in SUBSET S |-> IF Cardinality(T) <= n THEN g[T]
                                      ELSE IF T = {} THEN 0 ELSE s[One(T)] + g[T \ {One(T)}]]
  <2>2. h \in [SUBSET S -> Nat]
    BY <1>0
  <2>3. Up(n + 1, h)
    <3> SUFFICES ASSUME NEW T \in SUBSET S, Cardinality(T) <= n + 1
                 PROVE  h[T] = IF T = {} THEN 0 ELSE s[One(T)] + h[T \ {One(T)}]
      OBVIOUS
    <3>1. T # {} => h[T \ {One(T)}] = g[T \ {One(T)}]
      BY <1>0
    <3> QED
      BY <3>1, <2>1, <1>0
  <2> HIDE DEF h
  <2> QED
    BY <2>2, <2>3 DEF Good
<1>3. Bad = {}
  <2> SUFFICES ASSUME Bad # {} PROVE FALSE
    OBVIOUS
  <2>1. PICK m \in Bad : \A k \in Bad : m <= k
    BY LeastNumber
  <2>2. m # 0 /\ m \in Nat
    BY <2>1, <1>1
  <2>3. m - 1 \in Nat /\ m - 1 \notin Bad
    BY <2>1, <2>2
  <2>4. Good(m - 1)
    BY <2>3
  <2> QED
    BY <2>1, <2>2, <2>3, <2>4, <1>2
<1>4. PICK g \in [SUBSET S -> Nat] : Up(Cardinality(S), g)
  BY <1>3, <1>0 DEF Good
<1>5. \A T \in SUBSET S : Cardinality(T) <= Cardinality(S)
  BY FS_Subset
<1>6. Sums(s, S, g)
  BY <1>4, <1>5 DEF Sums
<1> QED
  BY <1>6

LEMMA SumIsNat ==
  ASSUME NEW S, IsFiniteSet(S), NEW s, \A x \in S : s[x] \in Nat
  PROVE  SumFunctionOnSet(s, S) \in Nat
<1> DEFINE it == CHOOSE g : Sums(s, S, g)
<1>1. Sums(s, S, it)
  BY SumExists
<1> HIDE DEF it
<1> DEFINE Bad == {n \in Nat : \E T \in SUBSET S : Cardinality(T) = n /\ it[T] \notin Nat}
<1>2. \A T \in SUBSET S : Cardinality(T) \in Nat
  BY FS_Subset, FS_CardinalityType
<1>3. ASSUME NEW T \in SUBSET S, it[T] \notin Nat
      PROVE  \E U \in SUBSET S : Cardinality(U) < Cardinality(T) /\ it[U] \notin Nat
  <2>1. T # {} /\ it[T] = s[One(T)] + it[T \ {One(T)}]
    BY <1>1, <1>3, SumsAt
  <2>2. One(T) \in T /\ IsFiniteSet(T) /\ Cardinality(T) \in Nat
    BY <2>1, FS_Subset, FS_CardinalityType DEF One
  <2>3. Cardinality(T \ {One(T)}) = Cardinality(T) - 1
    BY <2>2, FS_RemoveElement
  <2>4. it[T \ {One(T)}] \notin Nat
    BY <2>1, <2>2, <1>3
  <2> QED
    BY <2>2, <2>3, <2>4
<1>4. Bad = {}
  <2> SUFFICES ASSUME Bad # {} PROVE FALSE
    OBVIOUS
  <2>1. PICK m \in Bad : \A k \in Bad : m <= k
    BY LeastNumber
  <2>2. PICK T \in SUBSET S : Cardinality(T) = m /\ it[T] \notin Nat
    BY <2>1
  <2>3. PICK U \in SUBSET S : Cardinality(U) < Cardinality(T) /\ it[U] \notin Nat
    BY <2>2, <1>3
  <2>4. Cardinality(U) \in Bad
    BY <2>3, <1>2
  <2> QED
    BY <2>1, <2>2, <2>3, <2>4, <1>2
<1>5. it[S] \in Nat
  BY <1>2, <1>4
<1> QED
  BY <1>5, SumIs DEF it

LEMMA SumOfOne ==
  ASSUME NEW w, NEW S, S = {w}, NEW s, s[w] \in Nat
  PROVE  SumFunctionOnSet(s, S) = s[w]
<1> DEFINE it == CHOOSE g : Sums(s, S, g)
<1>1. SumFunctionOnSet(s, S) = it[S]
  BY SumIs
<1>2. Sums(s, S, it)
  BY SumExists, FS_Singleton
<1> HIDE DEF it
<1>3. it[{}] = 0
  BY <1>2, SumsAt
<1>4. One(S) = w /\ S \ {w} = {} /\ S # {}
  BY DEF One
<1>5. it[S] = s[w] + it[{}]
  <2>1. it[S] = IF S = {} THEN 0 ELSE s[One(S)] + it[S \ {One(S)}]
    BY <1>2, SumsAtTop
  <2> QED
    BY <2>1, <1>4
<1> QED
  BY <1>1, <1>3, <1>5
-----------------------------------------------------------------------------
(***************************************************************************)
(* Types.                                                                  *)
(***************************************************************************)
LEMMA LastExists ==
  ASSUME NEW n \in Nat, NEW I \in SUBSET (1..n), I # {}
  PROVE  Max(I) \in I
<1> DEFINE B == {n - i : i \in I}
<1>1. B \in SUBSET Nat /\ B # {}
  <2>1. ASSUME NEW i \in I PROVE n - i \in Nat
    <3>1. i \in Nat /\ i <= n
      OBVIOUS
    <3> QED
      BY <3>1
  <2> QED
    BY <2>1
<1>2. PICK b \in B : \A k \in B : b <= k
  BY <1>1, LeastNumber
<1>3. PICK m \in I : b = n - m
  BY <1>2
<1>4. ASSUME NEW i \in I PROVE i <= m
  <2>1. n - m <= n - i /\ i \in 1..n /\ m \in 1..n
    BY <1>2, <1>3
  <2> QED
    BY <2>1
<1>5. m \in I /\ \A y \in I : m >= y
  BY <1>3, <1>4
<1> HIDE DEF B
<1> QED
  BY <1>5 DEF Max

LEMMA PriceIsOne ==
  ASSUME NEW base \in Prices, NEW list \in Seq(Override)
  PROVE  PriceFrom(base, list) \in Prices
<1> DEFINE I == {i \in 1..Len(list) : list[i].window = "open"}
<1>1. PriceFrom(base, list) = IF (IF I # {} THEN Max(I) ELSE 0) = 0 THEN base
                              ELSE list[IF I # {} THEN Max(I) ELSE 0].price
  BY DEF PriceFrom, SelectLastInSeq
<1>2. CASE I = {}
  BY <1>1, <1>2
<1>3. CASE I # {}
  <2>1. Max(I) \in 1..Len(list)
    <3>1. Len(list) \in Nat /\ I \in SUBSET (1..Len(list))
      OBVIOUS
    <3>2. Max(I) \in I
      BY <3>1, <1>3, LastExists
    <3> QED
      BY <3>2
  <2>2. list[Max(I)] \in Override
    BY <2>1
  <2> QED
    BY <1>1, <1>3, <2>1, <2>2 DEF Override
<1> QED
  BY <1>2, <1>3

LEMMA StockIsNat == TypeOK => OnlineStock \in Nat
<1> SUFFICES ASSUME TypeOK PROVE OnlineStock \in Nat
  OBVIOUS
<1>1. \A w \in Online : stock[w] \in Nat
  BY OnlineAssumption, BoundAssumption DEF TypeOK
<1> QED
  BY <1>1, SumIsNat, OnlineAssumption DEF OnlineStock

LEMMA PriceInForceIsOne == TypeOK => EffectivePrice \in Prices
BY PriceIsOne DEF TypeOK, EffectivePrice

LEMMA InsertKeepsType ==
  ASSUME NEW S, NEW s \in Seq(S), NEW i \in 1 .. Len(s) + 1, NEW e \in S
  PROVE  InsertAt(s, i, e) \in Seq(S)
<1>1. SubSeq(s, 1, i - 1) \in Seq(S) /\ SubSeq(s, i, Len(s)) \in Seq(S)
  BY SubSeqProperties
<1>2. <<e>> \in Seq(S)
  OBVIOUS
<1>3. SubSeq(s, 1, i - 1) \o <<e>> \in Seq(S)
  BY <1>1, <1>2
<1> QED
  BY <1>1, <1>3 DEF InsertAt

-----------------------------------------------------------------------------
(***************************************************************************)
(* The queue and the handler's transaction.                                *)
(***************************************************************************)

(* Ids are given once; an event that has had its last read is in hand, and *)
(* the one in hand is not hidden at the same time.                         *)
QueueInv ==
  /\ \A e \in feed : e.id <= nextId
  /\ \A e, f \in feed : e.id = f.id => e = f
  /\ \A e \in feed : e.reads < MaxRetries \/ (work # Idle /\ e = work.event)
  /\ work # Idle => work.event.id \notin delayed

(* Nothing is drafted between events.  A draft takes no listing back, an   *)
(* active one is shown, and but for a first push only channels that list   *)
(* the variant are told.                                                   *)
DraftInv ==
  /\ work = Idle => draft = listing
  /\ \A c \in Channels : listing[c].status = "active" => draft[c].status = "active"
  /\ \A c \in Channels : draft[c].status = "active" => shown[c] # NotListed
  /\ work # Idle /\ work.event.kind # "added" =>
       \A c \in work.todo : listing[c].status = "active"

FeedInv == TypeOK /\ QueueInv /\ DraftInv

LEMMA FeedStart == Init => FeedInv
<1> SUFFICES ASSUME Init PROVE FeedInv
  OBVIOUS
<1> USE PriceAssumption, LimitAssumption, BoundAssumption DEF Init
<1>1. TypeOK
  BY DEF TypeOK, Event, Listing, Facets
<1>2. QueueInv
  BY DEF QueueInv
<1>3. DraftInv
  BY DEF DraftInv
<1> QED
  BY <1>1, <1>2, <1>3 DEF FeedInv

LEMMA EmitKeeps ==
  ASSUME FeedInv, NEW kind \in {"added", "moved", "priced"}, NEW told \in Nat, Emit(kind, told),
         stock' \in [Warehouses -> 0..MaxStock], basePrice' \in Prices,
         overrides' \in Seq(Override), published' \in {"no", "soon", "yes"}
  PROVE  FeedInv'
<1> DEFINE new == [id |-> nextId + 1, kind |-> kind, told |-> told, reads |-> 0]
<1> USE DEF FeedInv
<1>1. /\ nextId \in 0..MaxEvents /\ nextId < MaxEvents /\ nextId' = nextId + 1
      /\ feed' = feed \cup {new}
      /\ UNCHANGED <<delayed, work, listing, draft, shown, landed, missed, lapsed>>
  BY DEF Emit, TypeOK, listingVars, channelVars
<1>2. new \in Event
  BY <1>1, LimitAssumption, BoundAssumption DEF Event
<1>3. feed \subseteq Event /\ new.id = nextId + 1 /\ new.reads = 0
  BY DEF TypeOK
<1>4. \A e \in feed : e.id \in Nat /\ e.id <= nextId
  BY <1>3 DEF QueueInv, Event
<1> HIDE DEF new
<1>5. delayed' \subseteq {e.id : e \in feed'}
  BY <1>1 DEF TypeOK
<1>6. work' # Idle => work' \in Work /\ work'.event \in feed'
  BY <1>1 DEF TypeOK
<1>7. nextId' \in 0..MaxEvents /\ feed' \subseteq Event
  BY <1>1, <1>2, <1>3, BoundAssumption
<1>8. TypeOK'
  BY <1>1, <1>5, <1>6, <1>7 DEF TypeOK
<1>9. \A e \in feed' : e.id <= nextId'
  BY <1>1, <1>3, <1>4
<1>10. \A e, f \in feed' : e.id = f.id => e = f
  BY <1>1, <1>3, <1>4 DEF QueueInv
<1>11. \A e \in feed' : e.reads < MaxRetries \/ (work' # Idle /\ e = work'.event)
  BY <1>1, <1>3, LimitAssumption DEF QueueInv
<1>12. work' # Idle => work'.event.id \notin delayed'
  BY <1>1 DEF QueueInv
<1>13. QueueInv'
  BY <1>9, <1>10, <1>11, <1>12 DEF QueueInv
<1>14. DraftInv'
  BY <1>1 DEF DraftInv
<1> QED
  BY <1>8, <1>13, <1>14

LEMMA HubKeepsFeed == FeedInv /\ HubStep => FeedInv'
<1> SUFFICES ASSUME FeedInv, HubStep PROVE FeedInv'
  OBVIOUS
<1> USE DEF FeedInv, priceVars, feedVars, listingVars, channelVars
<1>1. ASSUME NEW w \in Warehouses, MovementApplied(w) PROVE FeedInv'
  <2>1. PICK n \in 0..MaxStock : /\ Emit("moved", n)
                                 /\ stock' = [stock EXCEPT ![w] = n]
                                 /\ UNCHANGED <<priceVars, published>>
    BY <1>1 DEF MovementApplied
  <2>2. n \in Nat /\ stock' \in [Warehouses -> 0..MaxStock]
    BY <2>1, BoundAssumption DEF TypeOK
  <2>3. basePrice' \in Prices /\ overrides' \in Seq(Override) /\ published' \in {"no", "soon", "yes"}
    BY <2>1 DEF TypeOK
  <2> QED
    BY <2>1, <2>2, <2>3, EmitKeeps
<1>2. ASSUME NEW p \in Prices, SetOverride(p) PROVE FeedInv'
  <2>1. PICK window \in {"coming", "open", "over"}, i \in 1 .. Len(overrides) + 1 :
          /\ Emit("priced", p)
          /\ overrides' = InsertAt(overrides, i, [price |-> p, window |-> window])
          /\ UNCHANGED <<stock, basePrice, published>>
    BY <1>2 DEF SetOverride
  <2>2. overrides \in Seq(Override) /\ [price |-> p, window |-> window] \in Override
    BY DEF TypeOK, Override
  <2>3. overrides' \in Seq(Override)
    BY <2>1, <2>2, InsertKeepsType
  <2>4. p \in Nat
    BY PriceAssumption
  <2>5. stock' \in [Warehouses -> 0..MaxStock] /\ basePrice' \in Prices
        /\ published' \in {"no", "soon", "yes"}
    BY <2>1 DEF TypeOK
  <2> QED
    BY <2>1, <2>3, <2>4, <2>5, EmitKeeps
<1>3. CASE Publish
  <2>1. Emit("added", 0) /\ published' = "yes" /\ UNCHANGED <<stock, basePrice, overrides>>
    BY <1>3 DEF Publish
  <2>2. stock' \in [Warehouses -> 0..MaxStock] /\ basePrice' \in Prices
        /\ overrides' \in Seq(Override) /\ published' \in {"no", "soon", "yes"}
    BY <2>1 DEF TypeOK
  <2> QED
    BY <2>1, <2>2, EmitKeeps
<1>4. ASSUME UNCHANGED <<stock, nextId, feed, delayed, work, listing, draft, shown, landed, missed>>,
             basePrice' \in Prices, overrides' \in Seq(Override),
             published' \in {"no", "soon", "yes"}, lapsed' \subseteq Channels
      PROVE  FeedInv'
  <2>1. TypeOK'
    BY <1>4 DEF TypeOK
  <2>2. QueueInv'
    BY <1>4 DEF QueueInv
  <2>3. DraftInv'
    BY <1>4 DEF DraftInv
  <2> QED
    BY <2>1, <2>2, <2>3
<1>5. CASE PublishUnaware \/ Unpublish
  <2>1. UNCHANGED <<stock, nextId, feed, delayed, work, listing, draft, shown, landed, missed>>
        /\ basePrice' \in Prices /\ overrides' \in Seq(Override)
        /\ published' \in {"no", "soon", "yes"} /\ lapsed' \subseteq Channels
    BY <1>5 DEF TypeOK, PublishUnaware, Unpublish
  <2> QED
    BY <2>1, <1>4
<1>6. ASSUME PriceChangesSilently, basePrice' \in Prices, overrides' \in Seq(Override)
      PROVE  FeedInv'
  <2>1. UNCHANGED <<stock, nextId, feed, delayed, work, listing, draft, shown, landed, missed>>
        /\ published' \in {"no", "soon", "yes"} /\ lapsed' \subseteq Channels
    BY <1>6 DEF TypeOK, PriceChangesSilently
  <2> QED
    BY <2>1, <1>6, <1>4
<1>7. ASSUME NEW i \in DOMAIN overrides, WindowTurns(i) PROVE FeedInv'
  <2>1. overrides \in Seq(Override) /\ basePrice \in Prices
    BY DEF TypeOK
  <2>2. overrides' = [overrides EXCEPT ![i].window =
                       IF overrides[i].window = "coming" THEN "open" ELSE "over"]
        /\ basePrice' = basePrice /\ PriceChangesSilently
    BY <1>7 DEF WindowTurns
  <2>3. overrides[i] \in Override
    BY <2>1
  <2>4. [overrides[i] EXCEPT !.window = IF overrides[i].window = "coming" THEN "open" ELSE "over"]
          \in Override
    BY <2>3 DEF Override
  <2>5. overrides' \in Seq(Override)
    BY <2>1, <2>2, <2>4
  <2> QED
    BY <2>1, <2>2, <2>5, <1>6
<1>8. ASSUME NEW p \in PosPrices, PosPriceChanges(p) PROVE FeedInv'
  <2>1. overrides' \in Seq(Override) /\ basePrice' \in Prices /\ PriceChangesSilently
    BY <1>8, PriceAssumption DEF TypeOK, PosPriceChanges
  <2> QED
    BY <2>1, <1>6
<1> QED
  BY <1>1, <1>2, <1>3, <1>5, <1>7, <1>8 DEF HubStep

LEMMA WorkInHand ==
  FeedInv /\ work # Idle =>
    /\ work \in Work /\ work.event \in feed /\ work.event \in Event
    /\ work.todo \subseteq Channels /\ work.figures \in Figures
BY DEF FeedInv, TypeOK, Work

LEMMA TakeKeepsFeed == FeedInv /\ Take => FeedInv'
<1> SUFFICES ASSUME FeedInv, Take PROVE FeedInv'
  OBVIOUS
<1> USE DEF FeedInv, hubVars, priceVars, listingVars, channelVars
<1>1. PICK e \in Ready : Handle(e)
  BY DEF Take
<1> DEFINE taken == [e EXCEPT !.reads = @ + 1]
<1>2. /\ e \in feed /\ e.id \notin delayed /\ work = Idle
      /\ feed' = (feed \ {e}) \cup {taken}
      /\ work' = [event |-> taken, todo |-> Targets(e), figures |-> FiguresFor(e)]
      /\ UNCHANGED <<delayed, stock, basePrice, overrides, published, nextId, listing, draft,
                     shown, landed, missed, lapsed>>
  BY <1>1 DEF Take, Handle, Ready
<1>3. e \in Event /\ feed \subseteq Event /\ e.reads < MaxRetries
  BY <1>2 DEF TypeOK, QueueInv
<1>4. taken \in Event /\ taken.id = e.id /\ taken.kind = e.kind /\ taken.told = e.told
  BY <1>3, LimitAssumption DEF Event
<1> HIDE DEF taken
<1>5. FiguresFor(e) \in Figures
  BY <1>3, StockIsNat, PriceInForceIsOne DEF FiguresFor, Figures, Event
<1>6. Targets(e) \in SUBSET Channels
  BY DEF Targets
<1>7. work' \in Work /\ work' # Idle
  BY <1>2, <1>4, <1>5, <1>6, NoneAssumption DEF Work
<1>8. work'.event = taken /\ work'.todo = Targets(e) /\ work'.event \in feed'
  BY <1>2
<1>9. delayed' \subseteq {f.id : f \in feed'}
  BY <1>2, <1>4 DEF TypeOK
<1>10. feed' \subseteq Event
  BY <1>2, <1>3, <1>4
<1>11. TypeOK'
  BY <1>2, <1>7, <1>8, <1>9, <1>10 DEF TypeOK
<1>12. \A f \in feed \ {e} : f.id # e.id /\ f.reads < MaxRetries
  BY <1>2 DEF QueueInv
<1>13. QueueInv'
  <2>1. \A f \in feed' : f.id <= nextId'
    BY <1>2, <1>4 DEF QueueInv
  <2>2. \A f, g \in feed' : f.id = g.id => f = g
    BY <1>2, <1>4, <1>12 DEF QueueInv
  <2>3. \A f \in feed' : f.reads < MaxRetries \/ (work' # Idle /\ f = work'.event)
    BY <1>2, <1>7, <1>8, <1>12
  <2>4. work'.event.id \notin delayed'
    BY <1>2, <1>4, <1>8
  <2> QED
    BY <2>1, <2>2, <2>3, <2>4 DEF QueueInv
<1>14. DraftInv'
  <2>1. e.kind # "added" => \A c \in Targets(e) : listing[c].status = "active"
    BY DEF Targets
  <2> QED
    BY <2>1, <1>2, <1>4, <1>7, <1>8 DEF DraftInv
<1> QED
  BY <1>11, <1>13, <1>14

(* What a call that arrived shows.                                         *)
LEMMA ArriveShows ==
  ASSUME FeedInv, work # Idle, NEW c \in work.todo, Arrive(c)
  PROVE  /\ shown' \in [Channels -> Figures \cup {NotListed}]
         /\ landed' \in [Channels -> SUBSET (1..MaxEvents)]
         /\ lapsed' \subseteq Channels
         /\ \A d \in Channels \ {c} : shown'[d] = shown[d] /\ landed'[d] = landed[d]
         /\ landed'[c] = landed[c] \cup {work.event.id}
         /\ shown'[c] \in Figures
         /\ shown'[c].price = IF "price" \in Carried(work.event) THEN work.figures.price
                              ELSE shown[c].price
         /\ shown'[c].stock = IF "stock" \in Carried(work.event)
                                THEN AtLeastZero(work.figures.stock - Buffer[c])
                              ELSE shown[c].stock
<1> USE DEF FeedInv
<1>1. /\ work \in Work /\ work.event \in Event /\ c \in Channels /\ work.figures \in Figures
  BY WorkInHand
<1>2. shown \in [Channels -> Figures \cup {NotListed}] /\ lapsed \subseteq Channels
      /\ landed \in [Channels -> SUBSET (1..MaxEvents)]
  BY DEF TypeOK
<1> DEFINE now == [f \in Facets |-> IF f \in Carried(work.event) THEN Offer(c)[f] ELSE shown[c][f]]
<1>3. shown' = [shown EXCEPT ![c] = now] /\ landed' = [landed EXCEPT ![c] = @ \cup {work.event.id}]
      /\ lapsed' \in {lapsed, lapsed \ {c}}
  BY DEF Arrive
<1>4. Offer(c).price = work.figures.price /\ work.figures.price \in Prices
      /\ Offer(c).stock = AtLeastZero(work.figures.stock - Buffer[c])
      /\ Offer(c).stock \in Nat
  BY <1>1, BufferAssumption DEF Offer, Figures, AtLeastZero
<1>5. work.event.kind # "added" => shown[c] \in Figures
  BY <1>1, <1>2 DEF DraftInv
<1>6. work.event.kind = "added" => Carried(work.event) = Facets
  BY DEF Carried
<1>7. now["price"] = (IF "price" \in Carried(work.event) THEN work.figures.price ELSE shown[c].price)
      /\ now["stock"] = (IF "stock" \in Carried(work.event)
                         THEN AtLeastZero(work.figures.stock - Buffer[c]) ELSE shown[c].stock)
  BY <1>4 DEF Facets
<1>8. now["price"] \in Prices /\ now["stock"] \in Nat
  BY <1>4, <1>5, <1>6, <1>7 DEF Facets, Figures
<1>9. now \in Figures
  <2>1. now = [stock |-> now["stock"], price |-> now["price"]]
    BY DEF Facets
  <2> HIDE DEF now
  <2> QED
    BY <2>1, <1>8 DEF Figures
<1> HIDE DEF now
<1>10. work.event.id \in 1..MaxEvents
  BY <1>1 DEF Event
<1> QED
  BY <1>1, <1>2, <1>3, <1>7, <1>9, <1>10

(* The event in hand leaves the dispatcher, to be tried again or for good. *)
LEMMA LeavingKeepsFeed ==
  ASSUME FeedInv, work # Idle, work' = Idle, draft' = listing, listing' = listing,
         UNCHANGED <<stock, basePrice, overrides, published, nextId>>,
         \/ feed' = feed /\ delayed' = delayed \cup {work.event.id} /\ work.event.reads < MaxRetries
         \/ feed' = feed \ {work.event} /\ delayed' = delayed,
         shown' \in [Channels -> Figures \cup {NotListed}],
         \A c \in Channels : shown[c] # NotListed => shown'[c] # NotListed,
         landed' \in [Channels -> SUBSET (1..MaxEvents)],
         missed' \in [Facets -> SUBSET Channels], lapsed' \subseteq Channels
  PROVE  FeedInv'
<1> USE DEF FeedInv
<1>1. work.event \in feed /\ feed' \subseteq feed
  BY WorkInHand
<1>2. delayed' \subseteq {e.id : e \in feed'}
  <2>1. delayed \subseteq {e.id : e \in feed} /\ work.event.id \notin delayed
    BY DEF TypeOK, QueueInv
  <2> QED
    BY <2>1, <1>1
<1>3. TypeOK'
  BY <1>1, <1>2 DEF TypeOK
<1>4. QueueInv'
  <2>1. \A e \in feed' : e.reads < MaxRetries
    BY <1>1 DEF QueueInv
  <2> QED
    BY <1>1, <2>1 DEF QueueInv
<1>5. DraftInv'
  BY DEF DraftInv
<1> QED
  BY <1>3, <1>4, <1>5

LEMMA LandingKeepsFeed ==
  ASSUME FeedInv, NEW c \in Channels, PushLands(c)
  PROVE  FeedInv'
<1> USE DEF FeedInv, hubVars, priceVars
<1>1. /\ work # Idle /\ c \in work.todo /\ Arrive(c)
      /\ missed' = IF Overtaken(work.event) THEN Missed({c}) ELSE Reached(c)
      /\ draft' = [draft EXCEPT ![c] = [status |-> "active", stamp |-> work.event.id]]
      /\ work' = [work EXCEPT !.todo = @ \ {c}]
      /\ UNCHANGED <<feed, delayed, listing, stock, basePrice, overrides, published, nextId>>
  BY DEF PushLands
<1>2. /\ work \in Work /\ work.event \in feed /\ work.event \in Event
  BY <1>1, WorkInHand
<1>3. /\ shown' \in [Channels -> Figures \cup {NotListed}]
      /\ landed' \in [Channels -> SUBSET (1..MaxEvents)] /\ lapsed' \subseteq Channels
      /\ \A d \in Channels \ {c} : shown'[d] = shown[d]
      /\ shown'[c] \in Figures
  BY <1>1, ArriveShows
<1>4. missed' \in [Facets -> SUBSET Channels]
  BY <1>1 DEF Missed, Reached, TypeOK
<1>5. draft' \in [Channels -> Listing] /\ draft'[c].status = "active"
      /\ \A d \in Channels \ {c} : draft'[d] = draft[d]
  BY <1>1, <1>2 DEF TypeOK, Listing, Event
<1>6. work' \in Work /\ work'.event = work.event /\ work'.todo = work.todo \ {c}
  BY <1>1, <1>2 DEF Work
<1>7. work' # Idle
  BY <1>6, NoneAssumption
<1>8. TypeOK'
  <2>1. work' # Idle => work' \in Work /\ work'.event \in feed'
    BY <1>1, <1>2, <1>6
  <2>2. /\ stock' \in [Warehouses -> 0..MaxStock] /\ basePrice' \in Prices
        /\ overrides' \in Seq(Override) /\ published' \in {"no", "soon", "yes"}
        /\ nextId' \in 0..MaxEvents /\ feed' \subseteq Event
        /\ delayed' \subseteq {e.id : e \in feed'} /\ listing' \in [Channels -> Listing]
    BY <1>1 DEF TypeOK
  <2> QED
    BY <2>1, <2>2, <1>3, <1>4, <1>5 DEF TypeOK
<1>9. QueueInv'
  BY <1>1, <1>6, <1>7 DEF QueueInv
<1>10. DraftInv'
  <2>1. \A d \in Channels : listing'[d].status = "active" => draft'[d].status = "active"
    BY <1>1, <1>5 DEF DraftInv
  <2>2. \A d \in Channels : draft'[d].status = "active" => shown'[d] # NotListed
    BY <1>3, <1>5, NoneAssumption DEF DraftInv
  <2> QED
    BY <2>1, <2>2, <1>1, <1>6, <1>7 DEF DraftInv
<1> QED
  BY <1>8, <1>9, <1>10

LEMMA RefusalKeepsFeed ==
  ASSUME FeedInv, NEW c \in Channels, PushRefused(c)
  PROVE  FeedInv'
<1> USE DEF FeedInv, hubVars, priceVars
<1>1. /\ work # Idle /\ c \in work.todo
      /\ missed' = Missed({c})
      /\ draft' = [draft EXCEPT ![c] = Unsynced(c)]
      /\ work' = [work EXCEPT !.todo = @ \ {c}]
      /\ UNCHANGED <<feed, delayed, listing, shown, landed, lapsed, stock, basePrice, overrides,
                     published, nextId>>
  BY DEF PushRefused
<1>2. work \in Work /\ work.event \in feed
  BY <1>1, WorkInHand
<1>3. missed' \in [Facets -> SUBSET Channels]
  BY <1>1 DEF Missed, TypeOK
<1>4. draft[c] \in Listing
  BY DEF TypeOK
<1>5. Unsynced(c) \in Listing /\ (Unsynced(c).status = "active" <=> draft[c].status = "active")
  BY <1>4 DEF Unsynced, Listing
<1>6. draft' \in [Channels -> Listing]
      /\ \A d \in Channels : draft'[d].status = "active" <=> draft[d].status = "active"
  BY <1>1, <1>5 DEF TypeOK
<1>7. work' \in Work /\ work'.event = work.event /\ work'.todo = work.todo \ {c}
  BY <1>1, <1>2 DEF Work
<1>8. work' # Idle
  BY <1>7, NoneAssumption
<1>9. TypeOK'
  <2>1. work' # Idle => work' \in Work /\ work'.event \in feed'
    BY <1>1, <1>2, <1>7
  <2>2. /\ stock' \in [Warehouses -> 0..MaxStock] /\ basePrice' \in Prices
        /\ overrides' \in Seq(Override) /\ published' \in {"no", "soon", "yes"}
        /\ nextId' \in 0..MaxEvents /\ feed' \subseteq Event
        /\ delayed' \subseteq {e.id : e \in feed'} /\ listing' \in [Channels -> Listing]
        /\ shown' \in [Channels -> Figures \cup {NotListed}]
        /\ landed' \in [Channels -> SUBSET (1..MaxEvents)] /\ lapsed' \subseteq Channels
    BY <1>1 DEF TypeOK
  <2> QED
    BY <2>1, <2>2, <1>3, <1>6 DEF TypeOK
<1>10. QueueInv'
  BY <1>1, <1>7, <1>8 DEF QueueInv
<1>11. DraftInv'
  BY <1>1, <1>6, <1>7, <1>8 DEF DraftInv
<1> QED
  BY <1>9, <1>10, <1>11

LEMMA FailureKeepsFeed ==
  ASSUME FeedInv, NEW c \in Channels, PushFails(c)
  PROVE  FeedInv'
<1> USE DEF hubVars, priceVars
<1>1. /\ work # Idle /\ c \in work.todo /\ work' = Idle /\ draft' = listing
      /\ Arrive(c) \/ UNCHANGED <<shown, landed, lapsed>>
      /\ IF work.event.reads < MaxRetries THEN Retry ELSE GiveUp
      /\ UNCHANGED <<listing, stock, basePrice, overrides, published, nextId>>
  BY DEF PushFails
<1>2. TypeOK /\ work.todo \subseteq Channels
  BY <1>1, WorkInHand DEF FeedInv
<1>3. /\ shown' \in [Channels -> Figures \cup {NotListed}]
      /\ landed' \in [Channels -> SUBSET (1..MaxEvents)] /\ lapsed' \subseteq Channels
      /\ \A d \in Channels : shown[d] # NotListed => shown'[d] # NotListed
  <2>1. CASE Arrive(c)
    <3>1. /\ shown' \in [Channels -> Figures \cup {NotListed}]
          /\ landed' \in [Channels -> SUBSET (1..MaxEvents)] /\ lapsed' \subseteq Channels
          /\ \A d \in Channels \ {c} : shown'[d] = shown[d]
          /\ shown'[c] \in Figures
      BY <1>1, <2>1, ArriveShows
    <3> QED
      BY <3>1, NoneAssumption
  <2>2. CASE UNCHANGED <<shown, landed, lapsed>>
    BY <2>2, <1>2 DEF TypeOK
  <2> QED
    BY <1>1, <2>1, <2>2
<1>4. missed' \in [Facets -> SUBSET Channels]
  BY <1>1, <1>2 DEF Retry, GiveUp, Missed, TypeOK
<1>5. \/ feed' = feed /\ delayed' = delayed \cup {work.event.id} /\ work.event.reads < MaxRetries
      \/ feed' = feed \ {work.event} /\ delayed' = delayed
  BY <1>1 DEF Retry, GiveUp
<1> QED
  BY <1>1, <1>3, <1>4, <1>5, LeavingKeepsFeed

LEMMA CrashKeepsFeed == FeedInv /\ Crash => FeedInv'
<1> SUFFICES ASSUME FeedInv, Crash PROVE FeedInv'
  OBVIOUS
<1>1. /\ work # Idle /\ work' = Idle /\ draft' = listing /\ work.event.reads < MaxRetries
      /\ feed' = feed /\ delayed' = delayed \cup {work.event.id}
      /\ UNCHANGED <<listing, missed, shown, landed, lapsed, stock, basePrice, overrides,
                     published, nextId>>
  BY DEF Crash, Retry, hubVars, priceVars
<1>2. /\ shown' \in [Channels -> Figures \cup {NotListed}]
      /\ landed' \in [Channels -> SUBSET (1..MaxEvents)] /\ lapsed' \subseteq Channels
      /\ missed' \in [Facets -> SUBSET Channels]
  BY <1>1 DEF FeedInv, TypeOK
<1> QED
  BY <1>1, <1>2, LeavingKeepsFeed

LEMMA DoneKeepsFeed == FeedInv /\ EventDone => FeedInv'
<1> SUFFICES ASSUME FeedInv, EventDone PROVE FeedInv'
  OBVIOUS
<1> USE DEF FeedInv, hubVars, priceVars, channelVars
<1>1. /\ work # Idle /\ work' = Idle /\ listing' = draft /\ draft' = draft
      /\ feed' = feed \ {work.event}
      /\ UNCHANGED <<delayed, shown, landed, missed, lapsed, stock, basePrice, overrides,
                     published, nextId>>
  BY DEF EventDone
<1>2. work.event \in feed
  BY <1>1, WorkInHand
<1>3. delayed' \subseteq {e.id : e \in feed'}
  <2>1. delayed \subseteq {e.id : e \in feed} /\ work.event.id \notin delayed
    BY <1>1 DEF TypeOK, QueueInv
  <2> QED
    BY <2>1, <1>1
<1>4. TypeOK'
  BY <1>1, <1>3 DEF TypeOK
<1>5. QueueInv'
  <2>1. \A e \in feed' : e.reads < MaxRetries
    BY <1>1 DEF QueueInv
  <2> QED
    BY <1>1, <2>1 DEF QueueInv
<1>6. DraftInv'
  BY <1>1 DEF DraftInv
<1> QED
  BY <1>4, <1>5, <1>6

LEMMA ReappearKeepsFeed == FeedInv /\ Reappear => FeedInv'
<1> SUFFICES ASSUME FeedInv, Reappear PROVE FeedInv'
  OBVIOUS
<1> USE DEF FeedInv, hubVars, priceVars, listingVars, channelVars
<1>1. delayed' \subseteq delayed
      /\ UNCHANGED <<feed, work, stock, basePrice, overrides, published, nextId, listing, draft,
                     shown, landed, missed, lapsed>>
  BY DEF Reappear
<1>2. TypeOK'
  BY <1>1 DEF TypeOK
<1>3. QueueInv'
  BY <1>1 DEF QueueInv
<1>4. DraftInv'
  BY <1>1 DEF DraftInv
<1> QED
  BY <1>2, <1>3, <1>4

LEMMA FeedStep == FeedInv /\ [Next]_vars => FeedInv'
<1> SUFFICES ASSUME FeedInv, [Next]_vars PROVE FeedInv'
  OBVIOUS
<1>1. CASE UNCHANGED vars
  BY <1>1 DEF vars, hubVars, priceVars, feedVars, listingVars, channelVars,
              FeedInv, TypeOK, QueueInv, DraftInv
<1>2. CASE DispatcherStep
  BY <1>2, TakeKeepsFeed, LandingKeepsFeed, RefusalKeepsFeed, FailureKeepsFeed, DoneKeepsFeed,
     CrashKeepsFeed, ReappearKeepsFeed DEF DispatcherStep, Push
<1> QED
  BY <1>1, <1>2, HubKeepsFeed DEF Next

(* Types and the bookkeeping of the feed hold in all that follows.         *)
LEMMA FeedHolds == Spec => []FeedInv
BY FeedStart, FeedStep, PTL DEF Spec

-----------------------------------------------------------------------------
(***************************************************************************)
(* Stamps.                                                                 *)
(***************************************************************************)

(* Of drafts too: EventDone commits them.                                  *)
StampInv ==
  \A c \in Channels : /\ listing[c].stamp # 0 => listing[c].stamp \in landed[c]
                      /\ draft[c].stamp # 0 => draft[c].stamp \in landed[c]

(* The hub touches neither listings nor channels.                          *)
LEMMA HubLeaves ==
  HubStep => UNCHANGED <<delayed, work, listing, draft, shown, landed, missed>>
BY DEF HubStep, MovementApplied, SetOverride, WindowTurns, PosPriceChanges, PriceChangesSilently,
       Publish, PublishUnaware, Unpublish, Emit, feedVars, listingVars, channelVars

LEMMA StampStart == Init => StampInv
BY DEF Init, StampInv

LEMMA StampStep == FeedInv /\ StampInv /\ [Next]_vars => StampInv'
<1> SUFFICES ASSUME FeedInv, StampInv, [Next]_vars PROVE StampInv'
  OBVIOUS
<1> USE DEF hubVars, priceVars, feedVars, listingVars, channelVars
<1>1. ASSUME UNCHANGED <<listing, draft, landed>> PROVE StampInv'
  BY <1>1 DEF StampInv
<1>2. ASSUME NEW c \in Channels, PushLands(c) PROVE StampInv'
  <2>1. work # Idle /\ c \in work.todo /\ Arrive(c) /\ listing' = listing
        /\ draft' = [draft EXCEPT ![c] = [status |-> "active", stamp |-> work.event.id]]
    BY <1>2 DEF PushLands
  <2>2. /\ \A d \in Channels \ {c} : landed'[d] = landed[d]
        /\ landed'[c] = landed[c] \cup {work.event.id}
    BY <2>1, ArriveShows
  <2>3. draft'[c].stamp = work.event.id /\ \A d \in Channels \ {c} : draft'[d] = draft[d]
    BY <2>1 DEF FeedInv, TypeOK
  <2> QED
    BY <2>1, <2>2, <2>3 DEF StampInv
<1>3. ASSUME NEW c \in Channels, PushRefused(c) PROVE StampInv'
  <2>1. UNCHANGED <<listing, landed>> /\ draft' = [draft EXCEPT ![c] = Unsynced(c)]
    BY <1>3 DEF PushRefused
  <2>2. draft \in [Channels -> Listing]
    BY DEF FeedInv, TypeOK
  <2>3. Unsynced(c).stamp = draft[c].stamp
    BY <2>2 DEF Unsynced, Listing
  <2> QED
    BY <2>1, <2>2, <2>3 DEF StampInv
<1>4. ASSUME NEW c \in Channels, PushFails(c) PROVE StampInv'
  <2>1. /\ work # Idle /\ c \in work.todo /\ listing' = listing /\ draft' = listing
        /\ Arrive(c) \/ landed' = landed
    BY <1>4 DEF PushFails
  <2>2. \A d \in Channels : landed[d] \subseteq landed'[d]
    BY <2>1, ArriveShows
  <2> QED
    BY <2>1, <2>2 DEF StampInv
<1>5. CASE EventDone
  BY <1>5 DEF EventDone, StampInv
<1>6. CASE Crash
  BY <1>6 DEF Crash, StampInv
<1>7. CASE Take \/ Reappear
  BY <1>7, <1>1 DEF Take, Handle, Reappear
<1>8. CASE UNCHANGED vars
  BY <1>8, <1>1 DEF vars
<1> QED
  BY <1>1, <1>2, <1>3, <1>4, <1>5, <1>6, <1>7, <1>8, HubLeaves DEF Next, DispatcherStep, Push

(* StampFollowsPush: whatever fails, is retried, refused or lost with a    *)
(* crash, last_synced_at names a push that has reached the channel.        *)
THEOREM StampsAreEarned == Spec => []StampFollowsPush
<1>1. StampInv => StampFollowsPush
  BY DEF StampInv, StampFollowsPush
<1> QED
  BY <1>1, FeedHolds, StampStart, StampStep, PTL DEF Spec

-----------------------------------------------------------------------------
(***************************************************************************)
(* Prices.                                                                 *)
(***************************************************************************)

(* An event of the feed that nobody has in hand.                           *)
Waiting(e) == e \in feed /\ (work # Idle => e.id # work.event.id)
Waits(kind) == \E e \in feed : e.kind = kind /\ Waiting(e)
InHand(kind, c) == work # Idle /\ work.event.kind = kind /\ c \in work.todo

(* A price in hand is the one in force, or an override set since waits, or *)
(* it changed silently and none of the channels still to be told counts.   *)
(* A channel shows the price in force or will be told.                     *)
PriceInv ==
  /\ work # Idle /\ "price" \in Carried(work.event) /\ work.figures.price # EffectivePrice =>
       Waits("priced") \/ work.todo \subseteq lapsed
  /\ \A c \in Channels \ (missed["price"] \cup lapsed) :
       draft[c].status = "active" =>
         shown[c].price = EffectivePrice \/ Waits("priced") \/ InHand("priced", c)

LEMMA PriceStart == Init => PriceInv
BY DEF Init, PriceInv

(* New events wait; while one is in hand no other leaves the feed.         *)
LEMMA EmittedWaits ==
  ASSUME FeedInv, NEW kind, NEW told, Emit(kind, told)
  PROVE  /\ Waits(kind)'
         /\ \A k : Waits(k) => Waits(k)'
         /\ UNCHANGED <<delayed, work, listing, draft, shown, landed, missed, lapsed>>
<1> DEFINE new == [id |-> nextId + 1, kind |-> kind, told |-> told, reads |-> 0]
<1>1. /\ feed' = feed \cup {new} /\ new.id = nextId + 1 /\ new.kind = kind
      /\ UNCHANGED <<delayed, work, listing, draft, shown, landed, missed, lapsed>>
  BY DEF Emit, listingVars, channelVars
<1> HIDE DEF new
<1>2. work # Idle => work.event.id \in Nat /\ work.event.id <= nextId /\ nextId \in Nat
  BY WorkInHand DEF FeedInv, QueueInv, Event, TypeOK
<1>3. work' # Idle => new.id # work'.event.id
  BY <1>1, <1>2
<1> QED
  BY <1>1, <1>3 DEF Waits, Waiting

LEMMA HubKeepsPrice == FeedInv /\ PriceInv /\ HubStep => PriceInv'
<1> SUFFICES ASSUME FeedInv, PriceInv, HubStep PROVE PriceInv'
  OBVIOUS
<1> USE DEF priceVars, feedVars, listingVars, channelVars
<1>1. ASSUME EffectivePrice' = EffectivePrice, \A k : Waits(k) => Waits(k)',
             UNCHANGED <<work, draft, shown, missed, lapsed>>
      PROVE  PriceInv'
  BY <1>1 DEF PriceInv, Carried, InHand
<1>2. ASSUME PriceChangesSilently PROVE PriceInv'
  <2>1. UNCHANGED <<feed, delayed, work, listing, draft, shown, missed>>
        /\ lapsed' = IF EffectivePrice' = EffectivePrice THEN lapsed ELSE Channels
    BY <1>2 DEF PriceChangesSilently
  <2>2. \A k : Waits(k) => Waits(k)'
    BY <2>1 DEF Waits, Waiting
  <2>3. CASE EffectivePrice' = EffectivePrice
    BY <2>1, <2>2, <2>3, <1>1
  <2>4. CASE EffectivePrice' # EffectivePrice
    <3>1. lapsed' = Channels /\ (work # Idle => work.todo \subseteq Channels)
      BY <2>1, <2>4, WorkInHand
    <3> QED
      BY <2>1, <3>1 DEF PriceInv
  <2> QED
    BY <2>3, <2>4
<1>3. ASSUME NEW w \in Warehouses, MovementApplied(w) PROVE PriceInv'
  <2>1. PICK n : Emit("moved", n) /\ UNCHANGED <<basePrice, overrides>>
    BY <1>3 DEF MovementApplied
  <2>2. EffectivePrice' = EffectivePrice
    BY <2>1 DEF EffectivePrice
  <2> QED
    BY <2>1, <2>2, <1>1, EmittedWaits
<1>4. ASSUME NEW p \in Prices, SetOverride(p) PROVE PriceInv'
  <2>1. Emit("priced", p)
    BY <1>4 DEF SetOverride
  <2>2. Waits("priced")' /\ UNCHANGED <<work, draft, shown, missed, lapsed>>
    BY <2>1, EmittedWaits
  <2> QED
    BY <2>2 DEF PriceInv
<1>5. CASE Publish
  <2>1. Emit("added", 0) /\ UNCHANGED <<basePrice, overrides>>
    BY <1>5 DEF Publish
  <2>2. EffectivePrice' = EffectivePrice
    BY <2>1 DEF EffectivePrice
  <2> QED
    BY <2>1, <2>2, <1>1, EmittedWaits
<1>6. CASE PublishUnaware \/ Unpublish
  <2>1. UNCHANGED <<basePrice, overrides, feed, work, draft, shown, missed, lapsed>>
    BY <1>6 DEF PublishUnaware, Unpublish
  <2>2. EffectivePrice' = EffectivePrice /\ \A k : Waits(k) => Waits(k)'
    BY <2>1 DEF EffectivePrice, Waits, Waiting
  <2> QED
    BY <2>1, <2>2, <1>1
<1> QED
  BY <1>2, <1>3, <1>4, <1>5, <1>6 DEF HubStep, WindowTurns, PosPriceChanges

(* An event that is taken is in hand for every channel that lists.         *)
LEMMA TakenIsInHand ==
  ASSUME FeedInv, Take
  PROVE  /\ work = Idle /\ work' # Idle
         /\ UNCHANGED <<stock, basePrice, overrides, nextId, draft, shown, landed, missed, lapsed>>
         /\ work'.event \in feed' /\ {e.id : e \in feed'} = {e.id : e \in feed}
         /\ \E e \in feed : /\ work'.figures = FiguresFor(e) /\ work'.event.kind = e.kind
                            /\ work'.event.told = e.told /\ work'.event.id = e.id
                            /\ feed' = (feed \ {e}) \cup {work'.event}
         /\ \A k \in {"priced", "moved"} : \A c \in Channels :
              Waits(k) /\ draft[c].status = "active" => Waits(k)' \/ InHand(k, c)'
<1> USE DEF hubVars, priceVars, listingVars, channelVars
<1>1. PICK e \in Ready : Handle(e)
  BY DEF Take
<1> DEFINE taken == [e EXCEPT !.reads = @ + 1]
<1>2. /\ e \in feed /\ e.id \notin delayed /\ work = Idle
      /\ feed' = (feed \ {e}) \cup {taken}
      /\ work' = [event |-> taken, todo |-> Targets(e), figures |-> FiguresFor(e)]
      /\ UNCHANGED <<stock, basePrice, overrides, nextId, listing, draft,
                     shown, landed, missed, lapsed>>
  BY <1>1 DEF Take, Handle, Ready
<1>3. e \in Event /\ feed \subseteq Event
  BY <1>2 DEF FeedInv, TypeOK
<1>4. taken.id = e.id /\ taken.kind = e.kind /\ taken.told = e.told
  BY <1>3 DEF Event
<1> HIDE DEF taken
<1>5. FeedInv'
  BY TakeKeepsFeed
<1>6. work'.event = taken /\ work'.todo = Targets(e) /\ work'.figures = FiguresFor(e)
  BY <1>2
<1>7. work' # Idle
  <2>1. FiguresFor(e) \in Figures
    BY <1>3, StockIsNat, PriceInForceIsOne DEF FeedInv, FiguresFor, Figures, Event
  <2>2. taken \in Event
    BY <1>2, <1>3, LimitAssumption DEF FeedInv, QueueInv, Event, taken
  <2>3. Targets(e) \in SUBSET Channels
    BY DEF Targets
  <2> QED
    BY <2>1, <2>2, <2>3, <1>2, NoneAssumption DEF Work
<1>8. ASSUME NEW k \in {"priced", "moved"}, NEW c \in Channels, Waits(k), draft[c].status = "active"
      PROVE  Waits(k)' \/ InHand(k, c)'
  <2>1. PICK f \in feed : f.kind = k
    BY <1>8 DEF Waits
  <2>2. CASE f = e
    <3>1. c \in Targets(e)
      BY <2>1, <2>2, <1>2, <1>8 DEF Targets, FeedInv, DraftInv
    <3> QED
      BY <2>1, <2>2, <3>1, <1>4, <1>6, <1>7 DEF InHand
  <2>3. CASE f # e
    <3>1. f.id # taken.id /\ f \in feed'
      BY <2>1, <2>3, <1>2, <1>4 DEF FeedInv, QueueInv
    <3> QED
      BY <2>1, <3>1, <1>6 DEF Waits, Waiting
  <2> QED
    BY <2>2, <2>3
<1>9. {f.id : f \in feed'} = {f.id : f \in feed}
  BY <1>2, <1>4
<1>10. \E f \in feed : /\ work'.figures = FiguresFor(f) /\ work'.event.kind = f.kind
                       /\ work'.event.told = f.told /\ work'.event.id = f.id
                       /\ feed' = (feed \ {f}) \cup {work'.event}
  BY <1>2, <1>4, <1>6
<1> QED
  BY <1>2, <1>6, <1>7, <1>8, <1>9, <1>10

(* The event in hand leaves: what waits goes on waiting, and with an event *)
(* to be tried again so does that one.                                     *)
LEMMA LeavingWaits ==
  ASSUME FeedInv, work # Idle, work' = Idle,
         feed' = feed \/ feed' = feed \ {work.event}
  PROVE  /\ \A k : Waits(k) => Waits(k)'
         /\ \A k : feed' = feed /\ work.event.kind = k => Waits(k)'
<1>1. work.event \in feed
  BY WorkInHand
<1> QED
  BY <1>1 DEF Waits, Waiting

(* The event in hand stays there: the next channel.                        *)
LEMMA NextChannel ==
  ASSUME FeedInv, work # Idle, NEW c \in Channels,
         work' = [work EXCEPT !.todo = @ \ {c}], feed' = feed
  PROVE  /\ work' # Idle /\ work'.event = work.event /\ work'.figures = work.figures
         /\ work'.todo = work.todo \ {c}
         /\ \A k : Waits(k) => Waits(k)'
         /\ \A k, d : d # c /\ InHand(k, d) => InHand(k, d)'
<1>1. work \in Work
  BY WorkInHand
<1>2. work' \in Work /\ work'.event = work.event /\ work'.figures = work.figures
      /\ work'.todo = work.todo \ {c}
  BY <1>1 DEF Work
<1>3. work' # Idle
  BY <1>2, NoneAssumption
<1> QED
  BY <1>2, <1>3 DEF Waits, Waiting, InHand

LEMMA TakeKeepsPrice == FeedInv /\ PriceInv /\ Take => PriceInv'
<1> SUFFICES ASSUME FeedInv, PriceInv, Take PROVE PriceInv'
  OBVIOUS
<1>1. /\ work = Idle /\ work' # Idle
      /\ UNCHANGED <<stock, basePrice, overrides, draft, shown, missed, lapsed>>
      /\ \E e \in feed : work'.figures = FiguresFor(e)
      /\ \A c \in Channels :
           Waits("priced") /\ draft[c].status = "active" => Waits("priced")' \/ InHand("priced", c)'
  BY TakenIsInHand
<1>2. EffectivePrice' = EffectivePrice
  BY <1>1 DEF EffectivePrice
<1>3. work'.figures.price = EffectivePrice'
  BY <1>1, <1>2 DEF FiguresFor
<1>4. ASSUME NEW c \in Channels \ (missed'["price"] \cup lapsed'), draft'[c].status = "active"
      PROVE  shown'[c].price = EffectivePrice' \/ Waits("priced")' \/ InHand("priced", c)'
  <2>1. c \in Channels \ (missed["price"] \cup lapsed) /\ draft[c].status = "active"
        /\ shown'[c] = shown[c] /\ ~ InHand("priced", c)
    BY <1>1, <1>4 DEF InHand
  <2>2. shown[c].price = EffectivePrice \/ Waits("priced")
    BY <2>1 DEF PriceInv
  <2> QED
    BY <1>1, <1>2, <2>1, <2>2
<1> QED
  BY <1>3, <1>4 DEF PriceInv

LEMMA LandingKeepsPrice ==
  ASSUME FeedInv, PriceInv, NEW c \in Channels, PushLands(c)
  PROVE  PriceInv'
<1>1. /\ work # Idle /\ c \in work.todo /\ Arrive(c)
      /\ missed' = IF Overtaken(work.event) THEN Missed({c}) ELSE Reached(c)
      /\ draft' = [draft EXCEPT ![c] = [status |-> "active", stamp |-> work.event.id]]
      /\ work' = [work EXCEPT !.todo = @ \ {c}]
      /\ UNCHANGED <<feed, basePrice, overrides>>
  BY DEF PushLands, hubVars, priceVars
<1>2. EffectivePrice' = EffectivePrice
  BY <1>1 DEF EffectivePrice
<1>3. /\ work' # Idle /\ work'.event = work.event /\ work'.figures = work.figures
      /\ work'.todo = work.todo \ {c}
      /\ Waits("priced") => Waits("priced")'
      /\ \A d : d # c /\ InHand("priced", d) => InHand("priced", d)'
  BY <1>1, NextChannel
<1>4. /\ \A d \in Channels \ {c} : shown'[d] = shown[d] /\ draft'[d] = draft[d]
      /\ shown'[c].price = IF "price" \in Carried(work.event) THEN work.figures.price
                           ELSE shown[c].price
  BY <1>1, ArriveShows DEF FeedInv, TypeOK
<1>5. lapsed' = IF "price" \in Carried(work.event) /\ work.figures.price = EffectivePrice
                  THEN lapsed \ {c} ELSE lapsed
  BY <1>1 DEF Arrive
<1>6. /\ "price" \in Carried(work.event) => missed'["price"] = missed["price"] \ {c}
      /\ "price" \notin Carried(work.event) => missed'["price"] = missed["price"]
  BY <1>1 DEF Overtaken, Missed, Reached, Carried, Facets
<1>7. work'.figures.price # EffectivePrice' /\ "price" \in Carried(work'.event) =>
        Waits("priced")' \/ work'.todo \subseteq lapsed'
  BY <1>1, <1>2, <1>3, <1>5 DEF PriceInv
<1>8. ASSUME NEW d \in Channels \ (missed'["price"] \cup lapsed'), draft'[d].status = "active"
      PROVE  shown'[d].price = EffectivePrice' \/ Waits("priced")' \/ InHand("priced", d)'
  <2>1. CASE d # c
    <3>1. d \in Channels \ (missed["price"] \cup lapsed) /\ draft[d].status = "active"
      BY <2>1, <1>4, <1>5, <1>6, <1>8
    <3>2. shown[d].price = EffectivePrice \/ Waits("priced") \/ InHand("priced", d)
      BY <3>1 DEF PriceInv
    <3> QED
      BY <2>1, <3>2, <1>2, <1>3, <1>4
  <2>2. CASE d = c /\ "price" \in Carried(work.event)
    <3>1. work.figures.price = EffectivePrice \/ Waits("priced")
      BY <2>2, <1>1, <1>5, <1>8 DEF PriceInv
    <3> QED
      BY <2>2, <3>1, <1>2, <1>3, <1>4
  <2>3. CASE d = c /\ "price" \notin Carried(work.event)
    <3>1. work.event.kind = "moved"
      BY <2>3, <1>1, WorkInHand DEF Carried, Facets, Event
    <3>2. draft[c].status = "active" /\ c \notin missed["price"] \cup lapsed
      BY <2>3, <3>1, <1>1, <1>5, <1>6, <1>8 DEF FeedInv, DraftInv
    <3>3. ~ InHand("priced", c)
      BY <3>1 DEF InHand
    <3>4. shown[c].price = EffectivePrice \/ Waits("priced")
      BY <3>2, <3>3 DEF PriceInv
    <3> QED
      BY <2>3, <3>4, <1>2, <1>3, <1>4
  <2> QED
    BY <2>1, <2>2, <2>3
<1> QED
  BY <1>7, <1>8 DEF PriceInv

LEMMA RefusalKeepsPrice ==
  ASSUME FeedInv, PriceInv, NEW c \in Channels, PushRefused(c)
  PROVE  PriceInv'
<1>1. /\ work # Idle /\ c \in work.todo /\ missed' = Missed({c})
      /\ draft' = [draft EXCEPT ![c] = Unsynced(c)]
      /\ work' = [work EXCEPT !.todo = @ \ {c}]
      /\ UNCHANGED <<feed, shown, lapsed, basePrice, overrides>>
  BY DEF PushRefused, hubVars, priceVars
<1>2. EffectivePrice' = EffectivePrice
  BY <1>1 DEF EffectivePrice
<1>3. /\ work' # Idle /\ work'.event = work.event /\ work'.figures = work.figures
      /\ work'.todo = work.todo \ {c}
      /\ Waits("priced") => Waits("priced")'
      /\ \A d : d # c /\ InHand("priced", d) => InHand("priced", d)'
  BY <1>1, NextChannel
<1>4. missed'["price"] = IF "price" \in Carried(work.event) THEN missed["price"] \cup {c}
                         ELSE missed["price"]
  BY <1>1 DEF Missed, Facets
<1>5. \A d \in Channels : draft'[d].status = "active" => draft[d].status = "active"
  <2>1. draft \in [Channels -> Listing]
    BY DEF FeedInv, TypeOK
  <2>2. Unsynced(c).status = "active" => draft[c].status = "active"
    BY <2>1 DEF Unsynced, Listing
  <2> QED
    BY <1>1, <2>1, <2>2
<1>6. work'.figures.price # EffectivePrice' /\ "price" \in Carried(work'.event) =>
        Waits("priced")' \/ work'.todo \subseteq lapsed'
  BY <1>1, <1>2, <1>3 DEF PriceInv
<1>7. ASSUME NEW d \in Channels \ (missed'["price"] \cup lapsed'), draft'[d].status = "active"
      PROVE  shown'[d].price = EffectivePrice' \/ Waits("priced")' \/ InHand("priced", d)'
  <2>1. d \in Channels \ (missed["price"] \cup lapsed) /\ draft[d].status = "active"
    BY <1>1, <1>4, <1>5, <1>7
  <2>2. shown[d].price = EffectivePrice \/ Waits("priced") \/ InHand("priced", d)
    BY <2>1 DEF PriceInv
  <2>3. InHand("priced", d) => d # c
    BY <1>4, <1>7 DEF InHand, Carried
  <2> QED
    BY <2>2, <2>3, <1>1, <1>2, <1>3
<1> QED
  BY <1>6, <1>7 DEF PriceInv

(* The transaction is gone: what it drafted, and what it had to tell.      *)
LEMMA RollbackKeepsPrice ==
  ASSUME FeedInv, PriceInv, work # Idle, work' = Idle, draft' = listing,
         UNCHANGED <<basePrice, overrides>>,
         \/ feed' = feed /\ missed' = missed
         \/ feed' = feed \ {work.event} /\ missed' = Missed(work.todo),
         \/ UNCHANGED <<shown, lapsed>>
         \/ \E c \in work.todo : Arrive(c)
  PROVE  PriceInv'
<1>1. EffectivePrice' = EffectivePrice
  BY DEF EffectivePrice
<1>2. /\ Waits("priced") => Waits("priced")'
      /\ feed' = feed /\ work.event.kind = "priced" => Waits("priced")'
  BY LeavingWaits
<1>3. "price" \in Carried(work.event) /\ feed' # feed => missed'["price"] = missed["price"] \cup work.todo
  BY DEF Missed, Facets
<1>4. missed["price"] \subseteq missed'["price"]
  BY DEF Missed, Facets
<1>5. ASSUME NEW d \in Channels \ (missed'["price"] \cup lapsed'), draft'[d].status = "active"
      PROVE  shown'[d].price = EffectivePrice' \/ Waits("priced")'
  <2>1. draft[d].status = "active" /\ d \notin missed["price"]
    BY <1>4, <1>5 DEF FeedInv, DraftInv
  <2>2. CASE shown'[d] = shown[d] /\ d \notin lapsed
    <3>1. shown[d].price = EffectivePrice \/ Waits("priced") \/ InHand("priced", d)
      BY <2>1, <2>2 DEF PriceInv
    <3>2. InHand("priced", d) => Waits("priced")'
      BY <1>2, <1>3, <1>5 DEF InHand, Carried
    <3> QED
      BY <3>1, <3>2, <2>2, <1>1, <1>2
  <2>3. ASSUME NEW c \in work.todo, Arrive(c) PROVE shown'[d].price = EffectivePrice' \/ Waits("priced")'
    <3>1. /\ \A e \in Channels \ {c} : shown'[e] = shown[e]
          /\ shown'[c].price = IF "price" \in Carried(work.event) THEN work.figures.price
                               ELSE shown[c].price
          /\ lapsed' = IF "price" \in Carried(work.event) /\ work.figures.price = EffectivePrice
                         THEN lapsed \ {c} ELSE lapsed
      BY <2>3, ArriveShows DEF Arrive
    <3>2. CASE d # c
      BY <3>1, <3>2, <2>2, <1>5
    <3>3. CASE d = c /\ "price" \in Carried(work.event)
      <4>1. work.figures.price = EffectivePrice \/ Waits("priced")
        BY <3>1, <3>3, <1>5 DEF PriceInv
      <4> QED
        BY <3>1, <3>3, <4>1, <1>1, <1>2
    <3>4. CASE d = c /\ "price" \notin Carried(work.event)
      <4>1. d \notin lapsed /\ shown'[d].price = shown[d].price
        BY <3>1, <3>4, <1>5
      <4>2. shown[d].price = EffectivePrice \/ Waits("priced") \/ InHand("priced", d)
        BY <2>1, <4>1 DEF PriceInv
      <4>3. ~ InHand("priced", d)
        BY <3>4 DEF InHand, Carried
      <4> QED
        BY <4>1, <4>2, <4>3, <1>1, <1>2
    <3> QED
      BY <3>2, <3>3, <3>4
  <2> QED
    BY <2>2, <2>3, <1>5
<1> QED
  BY <1>5 DEF PriceInv

LEMMA PriceStep == FeedInv /\ PriceInv /\ [Next]_vars => PriceInv'
<1> SUFFICES ASSUME FeedInv, PriceInv, [Next]_vars PROVE PriceInv'
  OBVIOUS
<1> USE DEF hubVars, priceVars, feedVars, listingVars, channelVars
<1>1. ASSUME UNCHANGED <<basePrice, overrides, feed, work, draft, shown, missed, lapsed>>
      PROVE  PriceInv'
  BY <1>1 DEF PriceInv, EffectivePrice, Waits, Waiting, InHand, Carried
<1>2. ASSUME NEW c \in Channels, PushFails(c) PROVE PriceInv'
  BY <1>2, RollbackKeepsPrice DEF PushFails, Retry, GiveUp
<1>3. CASE Crash
  BY <1>3, RollbackKeepsPrice DEF Crash, Retry
<1>4. CASE EventDone
  <2>1. /\ work # Idle /\ work' = Idle /\ work.todo = {} /\ feed' = feed \ {work.event}
        /\ UNCHANGED <<draft, shown, missed, lapsed, basePrice, overrides>>
    BY <1>4 DEF EventDone
  <2>2. EffectivePrice' = EffectivePrice /\ (Waits("priced") => Waits("priced")')
    BY <2>1, LeavingWaits DEF EffectivePrice
  <2>3. \A c : ~ InHand("priced", c)
    BY <2>1 DEF InHand
  <2> QED
    BY <2>1, <2>2, <2>3 DEF PriceInv
<1>5. CASE Reappear
  BY <1>5, <1>1 DEF Reappear
<1>6. CASE UNCHANGED vars
  BY <1>6, <1>1 DEF vars
<1> QED
  BY <1>2, <1>3, <1>4, <1>5, <1>6, HubKeepsPrice, TakeKeepsPrice, LandingKeepsPrice,
     RefusalKeepsPrice DEF Next, DispatcherStep, Push

(* QuietShowsPrice: after the last event every channel that answered its   *)
(* last push shows the price in force, unless that changed silently since: *)
(* the dispatcher reads the price when it handles an event, and does not   *)
(* take it from the event.                                                 *)
THEOREM PricesSettle == Spec => []QuietShowsPrice
<1>1. FeedInv /\ PriceInv => QuietShowsPrice
  <2> SUFFICES ASSUME FeedInv, PriceInv, feed = {},
                      NEW c \in Channels \ (missed["price"] \cup lapsed),
                      listing[c].status = "active"
               PROVE  shown[c].price = EffectivePrice
    BY DEF QuietShowsPrice
  <2>1. work = Idle
    BY WorkInHand
  <2>2. ~ Waits("priced") /\ ~ InHand("priced", c) /\ draft[c].status = "active"
    BY <2>1 DEF Waits, InHand, FeedInv, DraftInv
  <2> QED
    BY <2>2 DEF PriceInv
<1> QED
  BY <1>1, FeedHolds, PriceStart, PriceStep, PTL DEF Spec

-----------------------------------------------------------------------------
(***************************************************************************)
(* Stock.                                                                  *)
(***************************************************************************)

(* A movement tells the level of its own warehouse.  That is what can be   *)
(* sold online if there is no other; if there is, QuietShowsTruth fails    *)
(* (README, section "Where the code and its documentation disagree").      *)
OneWarehouse == \E w : Warehouses = {w} /\ Online = {w}

(* A queued movement tells the stock, or a later event has been handled,   *)
(* or a later movement is still in the queue.                              *)
Tells(e) == e.told = OnlineStock \/ Overtaken(e) \/ \E f \in feed : f.kind = "moved" /\ f.id > e.id

MovesTell == \A e \in feed : e.kind = "moved" => Tells(e)

(* As for the price: a level in hand is the event's, a sum in hand is the  *)
(* stock or a movement made since waits; a channel shows what it may sell  *)
(* or will be told.                                                        *)
StockInv ==
  /\ MovesTell
  /\ work # Idle /\ work.event.kind = "moved" => work.figures.stock = work.event.told
  /\ work # Idle /\ work.event.kind = "added" =>
       work.figures.stock = OnlineStock \/ Waits("moved")
  /\ \A c \in Channels \ missed["stock"] :
       draft[c].status = "active" =>
         shown[c].stock = Truth(c) \/ Waits("moved") \/ InHand("moved", c)

LEMMA StockStart == Init => StockInv
BY DEF Init, StockInv, MovesTell

LEMMA OnlineStockIsTheLevel ==
  ASSUME NEW w, Warehouses = {w}, Online = {w}, NEW s \in [Warehouses -> 0..MaxStock]
  PROVE  SumFunctionOnSet(s, Online) = s[w]
BY SumOfOne, BoundAssumption

LEMMA EmittingKeepsTells ==
  ASSUME FeedInv, MovesTell, NEW kind, NEW told, Emit(kind, told),
         stock' = stock \/ kind = "moved",
         kind = "moved" => told = OnlineStock'
  PROVE  MovesTell'
<1> DEFINE new == [id |-> nextId + 1, kind |-> kind, told |-> told, reads |-> 0]
<1>1. /\ feed' = feed \cup {new} /\ nextId' = nextId + 1
      /\ new.id = nextId + 1 /\ new.kind = kind /\ new.told = told
  BY DEF Emit
<1> HIDE DEF new
<1>2. nextId \in Nat /\ \A e \in feed : e.id \in Nat /\ e.id <= nextId
  BY DEF FeedInv, TypeOK, QueueInv, Event
<1>3. ASSUME NEW e \in feed', e.kind = "moved" PROVE Tells(e)'
  <2>1. CASE e = new
    <3>1. e.told = OnlineStock'
      BY <1>1, <1>3, <2>1
    <3> QED
      BY <3>1 DEF Tells
  <2>2. CASE e \in feed /\ kind = "moved"
    <3>1. new \in feed' /\ new.kind = "moved" /\ new.id > e.id
      BY <1>1, <1>2, <2>2
    <3> QED
      BY <3>1 DEF Tells
  <2>3. CASE e \in feed /\ kind # "moved"
    <3>1. Tells(e) /\ stock' = stock
      BY <1>3, <2>3 DEF MovesTell
    <3>2. CASE e.told = OnlineStock
      <4>1. OnlineStock' = OnlineStock
        BY <3>1 DEF OnlineStock
      <4> QED
        BY <3>2, <4>1 DEF Tells
    <3>3. CASE Overtaken(e)
      <4>1. PICK i \in e.id + 1 .. nextId : i \notin {f.id : f \in feed}
        BY <3>3 DEF Overtaken
      <4>2. i \in e.id + 1 .. nextId' /\ i # new.id
        BY <4>1, <1>1, <1>2, <2>3
      <4>3. i \notin {f.id : f \in feed'}
        BY <4>1, <4>2, <1>1
      <4>4. Overtaken(e)'
        BY <4>2, <4>3, <1>3 DEF Overtaken
      <4> QED
        BY <4>4 DEF Tells
    <3>4. ASSUME NEW f \in feed, f.kind = "moved", f.id > e.id PROVE Tells(e)'
      BY <3>4, <1>1 DEF Tells
    <3> QED
      BY <3>1, <3>2, <3>3, <3>4 DEF Tells
  <2> QED
    BY <1>1, <1>3, <2>1, <2>2, <2>3
<1> QED
  BY <1>3 DEF MovesTell

LEMMA HubKeepsStock == OneWarehouse /\ FeedInv /\ StockInv /\ HubStep => StockInv'
<1> SUFFICES ASSUME OneWarehouse, FeedInv, StockInv, HubStep PROVE StockInv'
  OBVIOUS
<1> USE DEF priceVars, feedVars, listingVars, channelVars
<1>1. ASSUME UNCHANGED <<stock, feed, nextId, work, draft, shown, missed>> PROVE StockInv'
  BY <1>1 DEF StockInv, MovesTell, Tells, Overtaken, OnlineStock, Truth, Waits, Waiting, InHand
<1>2. ASSUME PriceChangesSilently PROVE StockInv'
  BY <1>1, <1>2 DEF PriceChangesSilently
<1>3. CASE PublishUnaware \/ Unpublish
  BY <1>1, <1>3 DEF PublishUnaware, Unpublish
<1>4. ASSUME NEW w \in Warehouses, MovementApplied(w) PROVE StockInv'
  <2>1. PICK n \in 0..MaxStock \ {stock[w]} :
          Emit("moved", n) /\ stock' = [stock EXCEPT ![w] = n]
    BY <1>4 DEF MovementApplied
  <2>2. Warehouses = {w} /\ Online = {w} /\ stock \in [Warehouses -> 0..MaxStock]
    BY DEF OneWarehouse, FeedInv, TypeOK
  <2>3. stock' \in [Warehouses -> 0..MaxStock] /\ stock'[w] = n
    BY <2>1, <2>2
  <2>4. SumFunctionOnSet(stock', Online) = n
    BY <2>2, <2>3, OnlineStockIsTheLevel
  <2>5. OnlineStock' = n
    BY <2>4 DEF OnlineStock
  <2>6. MovesTell'
    BY <2>1, <2>5, EmittingKeepsTells DEF StockInv
  <2>7. Waits("moved")' /\ UNCHANGED work
    BY <2>1, EmittedWaits
  <2> QED
    BY <2>6, <2>7 DEF StockInv
<1>5. ASSUME NEW kind \in {"priced", "added"}, NEW told, Emit(kind, told), stock' = stock
      PROVE  StockInv'
  <2>1. MovesTell'
    BY <1>5, EmittingKeepsTells DEF StockInv
  <2>2. /\ Waits("moved") => Waits("moved")'
        /\ UNCHANGED <<work, draft, shown, missed>>
    BY <1>5, EmittedWaits
  <2>3. OnlineStock' = OnlineStock /\ \A c : Truth(c)' = Truth(c)
    BY <1>5 DEF OnlineStock, Truth
  <2> QED
    BY <2>1, <2>2, <2>3 DEF StockInv, InHand
<1>6. ASSUME NEW p \in Prices, SetOverride(p) PROVE StockInv'
  BY <1>5, <1>6 DEF SetOverride
<1>7. CASE Publish
  BY <1>5, <1>7 DEF Publish
<1> QED
  BY <1>2, <1>3, <1>4, <1>6, <1>7 DEF HubStep, WindowTurns, PosPriceChanges

LEMMA TakeKeepsStock == FeedInv /\ StockInv /\ Take => StockInv'
<1> SUFFICES ASSUME FeedInv, StockInv, Take PROVE StockInv'
  OBVIOUS
<1>1. /\ work = Idle /\ work' # Idle
      /\ UNCHANGED <<stock, nextId, draft, shown, missed>>
      /\ {e.id : e \in feed'} = {e.id : e \in feed}
      /\ \A c \in Channels :
           Waits("moved") /\ draft[c].status = "active" => Waits("moved")' \/ InHand("moved", c)'
  BY TakenIsInHand
<1>2. PICK e \in feed : /\ work'.figures = FiguresFor(e) /\ work'.event.kind = e.kind
                        /\ work'.event.told = e.told /\ work'.event.id = e.id
                        /\ feed' = (feed \ {e}) \cup {work'.event}
  BY TakenIsInHand
<1>3. OnlineStock' = OnlineStock /\ \A c : Truth(c)' = Truth(c)
  BY <1>1 DEF OnlineStock, Truth
<1>4. ASSUME NEW f \in feed', f.kind = "moved" PROVE Tells(f)'
  <2>1. PICK g \in feed : g.kind = f.kind /\ g.told = f.told /\ g.id = f.id
    BY <1>2
  <2>2. Tells(g)
    BY <2>1, <1>4 DEF StockInv, MovesTell
  <2>3. CASE g.told = OnlineStock
    BY <2>1, <2>3, <1>3 DEF Tells
  <2>4. CASE Overtaken(g)
    <3>1. PICK i \in f.id + 1 .. nextId' : i \notin {h.id : h \in feed'}
      BY <2>1, <2>4, <1>1 DEF Overtaken
    <3>2. Overtaken(f)'
      BY <3>1, <1>4 DEF Overtaken
    <3> QED
      BY <3>2 DEF Tells
  <2>5. ASSUME NEW h \in feed, h.kind = "moved", h.id > g.id PROVE Tells(f)'
    <3>1. \E k \in feed' : k.kind = "moved" /\ k.id > f.id
      BY <2>1, <2>5, <1>2
    <3> QED
      BY <3>1 DEF Tells
  <2> QED
    BY <2>2, <2>3, <2>4, <2>5 DEF Tells
<1>5. work'.event.kind = "moved" => work'.figures.stock = work'.event.told
  BY <1>2 DEF FiguresFor
<1>6. work'.event.kind = "added" => work'.figures.stock = OnlineStock'
  BY <1>2, <1>3 DEF FiguresFor
<1>7. ASSUME NEW c \in Channels \ missed'["stock"], draft'[c].status = "active"
      PROVE  shown'[c].stock = Truth(c)' \/ Waits("moved")' \/ InHand("moved", c)'
  <2>1. c \in Channels \ missed["stock"] /\ draft[c].status = "active"
        /\ shown'[c] = shown[c] /\ ~ InHand("moved", c)
    BY <1>1, <1>7 DEF InHand
  <2>2. shown[c].stock = Truth(c) \/ Waits("moved")
    BY <2>1 DEF StockInv
  <2> QED
    BY <1>1, <1>3, <2>1, <2>2
<1>8. MovesTell'
  BY <1>4 DEF MovesTell
<1> QED
  BY <1>5, <1>6, <1>7, <1>8 DEF StockInv

(* The figure in hand is the stock, unless a movement waits or is late.    *)
LEMMA FigureInHand ==
  ASSUME FeedInv, StockInv, work # Idle, "stock" \in Carried(work.event), ~ Overtaken(work.event)
  PROVE  work.figures.stock = OnlineStock \/ Waits("moved")
<1>1. work.event \in feed /\ work.event \in Event /\ feed \subseteq Event
  BY WorkInHand DEF FeedInv, TypeOK
<1>2. work.event.kind \in {"added", "moved"}
  BY <1>1 DEF Carried, Event
<1>3. CASE work.event.kind = "moved"
  <2>1. Tells(work.event) /\ work.figures.stock = work.event.told
    BY <1>1, <1>3 DEF StockInv, MovesTell
  <2>2. ASSUME NEW f \in feed, f.kind = "moved", f.id > work.event.id PROVE Waits("moved")
    <3>1. f.id # work.event.id
      BY <1>1, <2>2 DEF Event
    <3> QED
      BY <2>2, <3>1 DEF Waits, Waiting
  <2> QED
    BY <2>1, <2>2 DEF Tells
<1> QED
  BY <1>2, <1>3 DEF StockInv

LEMMA MovesTellOn ==
  ASSUME MovesTell, UNCHANGED <<stock, nextId, feed>>
  PROVE  MovesTell'
BY DEF MovesTell, Tells, Overtaken, OnlineStock

LEMMA LandingKeepsStock ==
  ASSUME FeedInv, StockInv, NEW c \in Channels, PushLands(c)
  PROVE  StockInv'
<1>1. /\ work # Idle /\ c \in work.todo /\ Arrive(c)
      /\ missed' = IF Overtaken(work.event) THEN Missed({c}) ELSE Reached(c)
      /\ draft' = [draft EXCEPT ![c] = [status |-> "active", stamp |-> work.event.id]]
      /\ work' = [work EXCEPT !.todo = @ \ {c}]
      /\ UNCHANGED <<feed, stock, nextId>>
  BY DEF PushLands, hubVars, priceVars
<1>2. OnlineStock' = OnlineStock /\ \A d : Truth(d)' = Truth(d)
  BY <1>1 DEF OnlineStock, Truth
<1>3. /\ work' # Idle /\ work'.event = work.event /\ work'.figures = work.figures
      /\ Waits("moved") => Waits("moved")'
      /\ \A d : d # c /\ InHand("moved", d) => InHand("moved", d)'
  BY <1>1, NextChannel
<1>4. /\ \A d \in Channels \ {c} : shown'[d] = shown[d] /\ draft'[d] = draft[d]
      /\ shown'[c].stock = IF "stock" \in Carried(work.event)
                             THEN AtLeastZero(work.figures.stock - Buffer[c])
                           ELSE shown[c].stock
  BY <1>1, ArriveShows DEF FeedInv, TypeOK
<1>5. MovesTell'
  BY <1>1, MovesTellOn DEF StockInv
<1>6. missed'["stock"] = IF "stock" \notin Carried(work.event) THEN missed["stock"]
                         ELSE IF Overtaken(work.event) THEN missed["stock"] \cup {c}
                         ELSE missed["stock"] \ {c}
  BY <1>1 DEF Missed, Reached, Facets
<1>7. ASSUME NEW d \in Channels \ missed'["stock"], draft'[d].status = "active"
      PROVE  shown'[d].stock = Truth(d)' \/ Waits("moved")' \/ InHand("moved", d)'
  <2>1. CASE d # c
    <3>1. d \in Channels \ missed["stock"] /\ draft[d].status = "active"
      BY <2>1, <1>4, <1>6, <1>7
    <3>2. shown[d].stock = Truth(d) \/ Waits("moved") \/ InHand("moved", d)
      BY <3>1 DEF StockInv
    <3> QED
      BY <2>1, <3>2, <1>2, <1>3, <1>4
  <2>2. CASE d = c /\ "stock" \in Carried(work.event)
    <3>1. work.figures.stock = OnlineStock \/ Waits("moved")
      BY <2>2, <1>1, <1>6, <1>7, FigureInHand
    <3> QED
      BY <2>2, <3>1, <1>2, <1>3, <1>4 DEF Truth
  <2>3. CASE d = c /\ "stock" \notin Carried(work.event)
    <3>1. work.event.kind = "priced"
      BY <2>3, <1>1, WorkInHand DEF Carried, Facets, Event
    <3>2. draft[c].status = "active" /\ c \notin missed["stock"]
      BY <2>3, <3>1, <1>1, <1>6, <1>7 DEF FeedInv, DraftInv
    <3>3. ~ InHand("moved", c)
      BY <3>1 DEF InHand
    <3>4. shown[c].stock = Truth(c) \/ Waits("moved")
      BY <3>2, <3>3 DEF StockInv
    <3> QED
      BY <2>3, <3>4, <1>2, <1>3, <1>4
  <2> QED
    BY <2>1, <2>2, <2>3
<1> QED
  BY <1>1, <1>2, <1>3, <1>5, <1>7 DEF StockInv

LEMMA RefusalKeepsStock ==
  ASSUME FeedInv, StockInv, NEW c \in Channels, PushRefused(c)
  PROVE  StockInv'
<1>1. /\ work # Idle /\ c \in work.todo /\ missed' = Missed({c})
      /\ draft' = [draft EXCEPT ![c] = Unsynced(c)]
      /\ work' = [work EXCEPT !.todo = @ \ {c}]
      /\ UNCHANGED <<feed, shown, stock, nextId>>
  BY DEF PushRefused, hubVars, priceVars
<1>2. OnlineStock' = OnlineStock /\ \A d : Truth(d)' = Truth(d)
  BY <1>1 DEF OnlineStock, Truth
<1>3. /\ work' # Idle /\ work'.event = work.event /\ work'.figures = work.figures
      /\ Waits("moved") => Waits("moved")'
      /\ \A d : d # c /\ InHand("moved", d) => InHand("moved", d)'
  BY <1>1, NextChannel
<1>4. missed'["stock"] = IF "stock" \in Carried(work.event) THEN missed["stock"] \cup {c}
                         ELSE missed["stock"]
  BY <1>1 DEF Missed, Facets
<1>5. \A d \in Channels : draft'[d].status = "active" => draft[d].status = "active"
  <2>1. draft \in [Channels -> Listing]
    BY DEF FeedInv, TypeOK
  <2>2. Unsynced(c).status = "active" => draft[c].status = "active"
    BY <2>1 DEF Unsynced, Listing
  <2> QED
    BY <1>1, <2>1, <2>2
<1>6. MovesTell'
  BY <1>1, MovesTellOn DEF StockInv
<1>7. ASSUME NEW d \in Channels \ missed'["stock"], draft'[d].status = "active"
      PROVE  shown'[d].stock = Truth(d)' \/ Waits("moved")' \/ InHand("moved", d)'
  <2>1. d \in Channels \ missed["stock"] /\ draft[d].status = "active"
    BY <1>4, <1>5, <1>7
  <2>2. shown[d].stock = Truth(d) \/ Waits("moved") \/ InHand("moved", d)
    BY <2>1 DEF StockInv
  <2>3. InHand("moved", d) => d # c
    BY <1>4, <1>7 DEF InHand, Carried
  <2> QED
    BY <2>2, <2>3, <1>1, <1>2, <1>3
<1> QED
  BY <1>1, <1>2, <1>3, <1>6, <1>7 DEF StockInv

(* An event leaves the feed: what it hid is now overtaken.                 *)
LEMMA LeavingKeepsTells ==
  ASSUME FeedInv, MovesTell, work # Idle, UNCHANGED <<stock, nextId>>,
         feed' = feed \/ feed' = feed \ {work.event}
  PROVE  MovesTell'
<1>1. work.event \in feed /\ feed \subseteq Event /\ nextId \in Nat
  BY WorkInHand DEF FeedInv, TypeOK
<1>2. ASSUME NEW e \in feed', e.kind = "moved" PROVE Tells(e)'
  <2>1. e \in feed /\ e.id \in Nat /\ Tells(e)
    BY <1>1, <1>2 DEF MovesTell, Event
  <2>2. CASE e.told = OnlineStock
    <3>1. OnlineStock' = OnlineStock
      BY DEF OnlineStock
    <3> QED
      BY <2>2, <3>1 DEF Tells
  <2>3. ASSUME NEW i \in e.id + 1 .. nextId, i \notin {f.id : f \in feed'} PROVE Tells(e)'
    <3>1. Overtaken(e)'
      BY <2>3, <1>2 DEF Overtaken
    <3> QED
      BY <3>1 DEF Tells
  <2>4. CASE Overtaken(e)
    <3>1. PICK i \in e.id + 1 .. nextId : i \notin {f.id : f \in feed}
      BY <2>4 DEF Overtaken
    <3>2. i \notin {f.id : f \in feed'}
      BY <3>1
    <3> QED
      BY <3>2, <2>3
  <2>5. ASSUME NEW f \in feed, f.kind = "moved", f.id > e.id PROVE Tells(e)'
    <3>1. CASE f \in feed'
      BY <2>5, <3>1 DEF Tells
    <3>2. CASE f \notin feed'
      <4>1. f \in Event /\ f.id \in e.id + 1 .. nextId
        BY <1>1, <2>1, <2>5 DEF FeedInv, QueueInv, Event
      <4>2. f.id \notin {g.id : g \in feed'}
        BY <3>2 DEF FeedInv, QueueInv
      <4> QED
        BY <4>1, <4>2, <2>3
    <3> QED
      BY <3>1, <3>2
  <2> QED
    BY <2>1, <2>2, <2>4, <2>5 DEF Tells
<1> QED
  BY <1>2 DEF MovesTell

LEMMA RollbackKeepsStock ==
  ASSUME FeedInv, StockInv, work # Idle, work' = Idle, draft' = listing,
         UNCHANGED <<stock, nextId>>,
         \/ feed' = feed /\ missed' = missed
         \/ feed' = feed \ {work.event} /\ missed' = Missed(work.todo),
         shown' = shown \/ \E c \in work.todo : Arrive(c)
  PROVE  StockInv'
<1>1. OnlineStock' = OnlineStock /\ \A d : Truth(d)' = Truth(d)
  BY DEF OnlineStock, Truth
<1>2. /\ Waits("moved") => Waits("moved")'
      /\ feed' = feed /\ work.event.kind = "moved" => Waits("moved")'
  BY LeavingWaits
<1>3. "stock" \in Carried(work.event) /\ feed' # feed => missed'["stock"] = missed["stock"] \cup work.todo
  BY DEF Missed, Facets
<1>4. missed["stock"] \subseteq missed'["stock"]
  BY DEF Missed, Facets
<1>5. MovesTell'
  BY LeavingKeepsTells DEF StockInv
<1>6. ASSUME NEW d \in Channels \ missed'["stock"], draft'[d].status = "active"
      PROVE  shown'[d].stock = Truth(d)' \/ Waits("moved")'
  <2>1. draft[d].status = "active" /\ d \notin missed["stock"]
    BY <1>4, <1>6 DEF FeedInv, DraftInv
  <2>2. CASE shown'[d].stock = shown[d].stock
    <3>1. shown[d].stock = Truth(d) \/ Waits("moved") \/ InHand("moved", d)
      BY <2>1 DEF StockInv
    <3>2. InHand("moved", d) => Waits("moved")'
      BY <1>2, <1>3, <1>6 DEF InHand, Carried
    <3> QED
      BY <3>1, <3>2, <2>2, <1>1, <1>2
  <2>3. ASSUME NEW c \in work.todo, Arrive(c) PROVE shown'[d].stock = Truth(d)' \/ Waits("moved")'
    <3>1. /\ \A e \in Channels \ {c} : shown'[e] = shown[e]
          /\ shown'[c].stock = IF "stock" \in Carried(work.event)
                                 THEN AtLeastZero(work.figures.stock - Buffer[c])
                               ELSE shown[c].stock
      BY <2>3, ArriveShows
    <3>2. CASE d # c \/ "stock" \notin Carried(work.event)
      BY <3>1, <3>2, <2>2
    <3>3. CASE d = c /\ "stock" \in Carried(work.event)
      <4>1. feed' = feed
        BY <3>3, <2>3, <1>3, <1>6
      <4>2. CASE work.event.kind = "moved"
        BY <4>1, <4>2, <1>2
      <4>3. CASE work.event.kind # "moved"
        <5>1. work.figures.stock = OnlineStock \/ Waits("moved")
          BY <3>3, <4>3, FigureInHand DEF Overtaken
        <5> QED
          BY <5>1, <3>1, <3>3, <1>1, <1>2 DEF Truth
      <4> QED
        BY <4>2, <4>3
    <3> QED
      BY <3>2, <3>3
  <2> QED
    BY <2>2, <2>3
<1> QED
  BY <1>5, <1>6 DEF StockInv

LEMMA StockStep == OneWarehouse /\ FeedInv /\ StockInv /\ [Next]_vars => StockInv'
<1> SUFFICES ASSUME OneWarehouse, FeedInv, StockInv, [Next]_vars PROVE StockInv'
  OBVIOUS
<1> USE DEF hubVars, priceVars, feedVars, listingVars, channelVars
<1>1. ASSUME UNCHANGED <<stock, feed, nextId, work, draft, shown, missed>> PROVE StockInv'
  BY <1>1 DEF StockInv, MovesTell, Tells, Overtaken, OnlineStock, Truth, Waits, Waiting, InHand
<1>2. ASSUME NEW c \in Channels, PushFails(c) PROVE StockInv'
  BY <1>2, RollbackKeepsStock DEF PushFails, Retry, GiveUp
<1>3. CASE Crash
  BY <1>3, RollbackKeepsStock DEF Crash, Retry
<1>4. CASE EventDone
  <2>1. /\ work # Idle /\ work' = Idle /\ work.todo = {} /\ feed' = feed \ {work.event}
        /\ UNCHANGED <<draft, shown, missed, stock, nextId>>
    BY <1>4 DEF EventDone
  <2>2. /\ OnlineStock' = OnlineStock /\ \A c : Truth(c)' = Truth(c)
        /\ Waits("moved") => Waits("moved")'
    BY <2>1, LeavingWaits DEF OnlineStock, Truth
  <2>3. \A c : ~ InHand("moved", c)
    BY <2>1 DEF InHand
  <2>4. MovesTell'
    BY <2>1, LeavingKeepsTells DEF StockInv
  <2> QED
    BY <2>1, <2>2, <2>3, <2>4 DEF StockInv
<1>5. CASE Reappear
  BY <1>5, <1>1 DEF Reappear
<1>6. CASE UNCHANGED vars
  BY <1>6, <1>1 DEF vars
<1> QED
  BY <1>2, <1>3, <1>4, <1>5, <1>6, HubKeepsStock, TakeKeepsStock, LandingKeepsStock,
     RefusalKeepsStock DEF Next, DispatcherStep, Push

(* QuietShowsTruth for a hub with one warehouse: after the last event every *)
(* channel that answered its last push, and got the movements in order,     *)
(* shows the stock less its safety stock.                                   *)
THEOREM StocksSettle == OneWarehouse => (Spec => []QuietShowsTruth)
<1> SUFFICES ASSUME OneWarehouse PROVE Spec => []QuietShowsTruth
  OBVIOUS
<1>1. FeedInv /\ StockInv => QuietShowsTruth
  <2> SUFFICES ASSUME FeedInv, StockInv, feed = {},
                      NEW c \in Channels \ missed["stock"], listing[c].status = "active"
               PROVE  shown[c].stock = Truth(c)
    BY DEF QuietShowsTruth
  <2>1. work = Idle
    BY WorkInHand
  <2>2. ~ Waits("moved") /\ ~ InHand("moved", c) /\ draft[c].status = "active"
    BY <2>1 DEF Waits, InHand, FeedInv, DraftInv
  <2> QED
    BY <2>2 DEF StockInv
<1>2. FeedInv /\ StockInv /\ [Next]_vars => StockInv'
  BY StockStep
<1> QED
  BY <1>1, <1>2, FeedHolds, StockStart, PTL DEF Spec
=============================================================================
