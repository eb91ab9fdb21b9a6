------------------------ MODULE WebhookIngressProofs ------------------------
(***************************************************************************)
(* The POS gets an order once and the channel shows the decision, for any  *)
(* number of requests, orders and channels of either kind.                 *)
(***************************************************************************)
EXTENDS WebhookIngress, TLAPS

(* A request on its way to the POS is the only one with its order, which   *)
(* is reserved, and the POS has not got it.                                *)
WriterIsFirst ==
  /\ \A s \in Sessions : at[s] = "write" =>
       /\ outcome[s] = "reserved" /\ status[order[s]] = "reserved"
       /\ recorded[order[s]] = 0
  /\ \A s, t \in Sessions : at[s] = "write" /\ at[t] = "write" /\ s # t => order[s] # order[t]

(* A request on its way to the channel carries the committed decision.     *)
AckCarriesDecision ==
  \A s \in Sessions : at[s] = "acknowledge" =>
    outcome[s] \in {"reserved", "rejected"} /\ outcome[s] = status[order[s]]

IngressInv ==
  TypeOK /\ WriterIsFirst /\ AckCarriesDecision /\ RecordedAtMostOnce /\ AckIsTheDecision

(* What a request carries, while it is one.                                *)
LEMMA CarriesAnOrder ==
  ASSUME TypeOK, NEW s \in Sessions, at[s] # "idle" PROVE order[s] \in Orders
  BY DEF TypeOK

(* An acknowledgement put in the channel's words is read back as itself.   *)
LEMMA WordsComeBack ==
  ASSUME NEW o \in Orders, NEW ack \in {"confirmed", "cancelled"}
  PROVE  /\ Code[o] = "mock-bazar" => /\ StateFor(o, ack) \in DOMAIN SaleToOrder
                                      /\ SaleToOrder[StateFor(o, ack)] = ack
         /\ Code[o] # "mock-bazar" => /\ StateFor(o, ack) \in DOMAIN AckToSale
                                      /\ StateFor(o, ack) = ack
<1>1. Code[o] \in {"mock-bazar", "mock-marketplace"}
  BY CodeAssumption
<1>2. CASE Code[o] = "mock-bazar"
  BY <1>2 DEF StateFor, AckToSale, SaleToOrder
<1>3. CASE Code[o] = "mock-marketplace"
  BY <1>3 DEF StateFor, AckToSale
<1> QED
  BY <1>1, <1>2, <1>3

LEMMA IngressStart == Init => IngressInv
<1> SUFFICES ASSUME Init PROVE IngressInv
  OBVIOUS
<1>1. \A o \in Orders :
        /\ Code[o] = "mock-bazar" => sale[o] = "new"
        /\ Code[o] # "mock-bazar" => sale[o] = "pending"
  BY DEF Init, Unacknowledged
<1>2. \A o \in Orders : sale[o] \in
        IF Code[o] = "mock-bazar" THEN DOMAIN SaleToOrder ELSE DOMAIN AckToSale
  BY <1>1 DEF SaleToOrder, AckToSale
<1>3. \A o \in Orders : StatusOf(o) = "pending"
  BY <1>1 DEF StatusOf, SaleToOrder
<1>4. TypeOK
  BY <1>2, StockAssumption, NoneAssumption DEF Init, TypeOK
<1>5. AckIsTheDecision
  BY <1>3 DEF AckIsTheDecision
<1> QED
  BY <1>4, <1>5 DEF Init, IngressInv, WriterIsFirst, AckCarriesDecision, RecordedAtMostOnce

(* StatusOf depends on the store of the channel alone.                     *)
LEMMA StatusStays ==
  ASSUME UNCHANGED sale PROVE \A o \in Orders : StatusOf(o)' = StatusOf(o)
  BY DEF StatusOf

(* A step that ends a request and leaves the decisions, the POS's orders   *)
(* and the channel's store alone.                                          *)
LEMMA FinishKeeps ==
  ASSUME IngressInv, NEW s \in Sessions, Finish(s),
         UNCHANGED <<hubVars, posVars, sale>>, answered' \subseteq Orders
  PROVE  IngressInv'
<1>1. TypeOK'
  BY NoneAssumption DEF IngressInv, TypeOK, Finish, hubVars, posVars
<1>2. WriterIsFirst'
  BY DEF IngressInv, TypeOK, WriterIsFirst, Finish, hubVars, posVars
<1>3. AckCarriesDecision'
  BY DEF IngressInv, TypeOK, AckCarriesDecision, Finish, hubVars
<1>4. RecordedAtMostOnce'
  BY DEF IngressInv, RecordedAtMostOnce, hubVars, posVars
<1>5. AckIsTheDecision'
  BY StatusStays DEF IngressInv, AckIsTheDecision, hubVars
<1> QED
  BY <1>1, <1>2, <1>3, <1>4, <1>5 DEF IngressInv

LEMMA DeliverKeeps ==
  ASSUME IngressInv, NEW s \in Sessions, NEW o \in Orders, Deliver(s, o)
  PROVE  IngressInv'
<1>1. TypeOK'
  BY NoneAssumption DEF IngressInv, TypeOK, Deliver, hubVars, channelVars, posVars
<1>2. WriterIsFirst'
  BY DEF IngressInv, TypeOK, WriterIsFirst, Deliver, hubVars, posVars
<1>3. AckCarriesDecision'
  BY DEF IngressInv, TypeOK, AckCarriesDecision, Deliver, hubVars
<1>4. RecordedAtMostOnce'
  BY DEF IngressInv, RecordedAtMostOnce, Deliver, hubVars, posVars
<1>5. AckIsTheDecision'
  BY StatusStays DEF IngressInv, AckIsTheDecision, Deliver, hubVars, channelVars
<1> QED
  BY <1>1, <1>2, <1>3, <1>4, <1>5 DEF IngressInv

(* A first decision: nobody carries the order further yet, and the channel *)
(* does not show one.                                                      *)
LEMMA DecisionKeeps ==
  ASSUME IngressInv, NEW s \in Sessions, NEW verdict \in {"reserved", "rejected"},
         at[s] = "ingest", status[order[s]] = "none", Record(order[s], verdict),
         Decide(s, verdict, IF verdict = "reserved" THEN "write" ELSE "acknowledge"),
         reserved' \in 0..qty
  PROVE  IngressInv'
<1> DEFINE o == order[s]
<1>1. o \in Orders
  BY CarriesAnOrder DEF IngressInv
<1>2. recorded[o] = 0
  BY <1>1 DEF IngressInv, RecordedAtMostOnce, TypeOK
<1>3. \A t \in Sessions : at[t] \in {"write", "acknowledge"} => order[t] # o
  BY DEF IngressInv, WriterIsFirst, AckCarriesDecision
<1>4. TypeOK'
  BY <1>1 DEF IngressInv, TypeOK, Record, Decide, channelVars, posVars
<1>5. /\ \A p \in Orders \ {o} : status'[p] = status[p]
      /\ status'[o] = verdict
      /\ UNCHANGED <<recorded, order, sale>>
      /\ \A t \in Sessions \ {s} : at'[t] = at[t] /\ outcome'[t] = outcome[t]
      /\ outcome'[s] = verdict
      /\ at'[s] = IF verdict = "reserved" THEN "write" ELSE "acknowledge"
  BY <1>1 DEF IngressInv, TypeOK, Record, Decide, channelVars, posVars
<1>6. \A t \in Sessions : at[t] \in {"write", "acknowledge"} => order[t] \in Orders \ {o}
  BY <1>3, CarriesAnOrder DEF IngressInv
<1>7. WriterIsFirst'
  BY <1>2, <1>5, <1>6 DEF IngressInv, WriterIsFirst
<1>8. AckCarriesDecision'
  BY <1>5, <1>6 DEF IngressInv, AckCarriesDecision
<1>9. RecordedAtMostOnce'
  BY <1>2, <1>5 DEF IngressInv, RecordedAtMostOnce
<1>10. AckIsTheDecision'
  BY <1>5, StatusStays DEF IngressInv, AckIsTheDecision
<1> QED
  BY <1>4, <1>7, <1>8, <1>9, <1>10 DEF IngressInv

LEMMA ReserveKeeps ==
  ASSUME IngressInv, NEW s \in Sessions, Reserve(s) PROVE IngressInv'
<1>1. order[s] \in Orders
  BY CarriesAnOrder DEF IngressInv, Reserve
<1>2. Demand[order[s]] \in Nat
  BY <1>1, DemandAssumption
<1>3. reserved' \in 0..qty
  BY <1>2 DEF IngressInv, TypeOK, Reserve
<1> QED
  BY <1>3, DecisionKeeps DEF Reserve

LEMMA RejectKeeps ==
  ASSUME IngressInv, NEW s \in Sessions, Reject(s) PROVE IngressInv'
<1>1. reserved' \in 0..qty
  BY DEF IngressInv, TypeOK, Reject
<1> QED
  BY <1>1, DecisionKeeps DEF Reject

(* The write to the POS, with or without effect.                           *)
LEMMA WriteKeeps ==
  ASSUME IngressInv, NEW s \in Sessions, WriteLands(s) \/ WriteFails(s) PROVE IngressInv'
<1> DEFINE o == order[s]
<1>1. /\ at[s] = "write" /\ o \in Orders
      /\ status[o] = "reserved" /\ outcome[s] = "reserved" /\ recorded[o] = 0
  BY CarriesAnOrder DEF IngressInv, WriterIsFirst, WriteLands, WriteFails
<1>2. /\ UNCHANGED <<status, order, outcome, sale>>
      /\ at' = [at EXCEPT ![s] = "acknowledge"]
      /\ \A p \in Orders \ {o} : recorded'[p] = recorded[p]
      /\ recorded'[o] \in {0, 1}
  BY <1>1 DEF IngressInv, TypeOK, WriteLands, WriteFails, hubVars, channelVars, posVars
<1>3. Demand[o] \in Nat
  BY <1>1, DemandAssumption
<1>4. recorded' \in [Orders -> Nat] /\ posStock' \in Int /\ UNCHANGED <<qty, reserved, answered, pulled>>
  BY <1>1, <1>3 DEF IngressInv, TypeOK, WriteLands, WriteFails, hubVars, channelVars, posVars
<1>5. TypeOK'
  BY <1>1, <1>2, <1>4 DEF IngressInv, TypeOK
<1>6. WriterIsFirst'
  <2>1. \A t \in Sessions \ {s} : at[t] = "write" => order[t] \in Orders \ {o}
    BY <1>1, CarriesAnOrder DEF IngressInv, WriterIsFirst
  <2> QED
    BY <1>2, <2>1 DEF IngressInv, TypeOK, WriterIsFirst
<1>7. AckCarriesDecision'
  BY <1>1, <1>2 DEF IngressInv, TypeOK, AckCarriesDecision
<1>8. RecordedAtMostOnce'
  BY <1>1, <1>2 DEF IngressInv, RecordedAtMostOnce
<1>9. AckIsTheDecision'
  BY <1>2, StatusStays DEF IngressInv, AckIsTheDecision
<1> QED
  BY <1>5, <1>6, <1>7, <1>8, <1>9 DEF IngressInv

(* The acknowledgement, in the channel's words.                            *)
LEMMA AckKeeps ==
  ASSUME IngressInv, NEW s \in Sessions, AckLands(s) PROVE IngressInv'
<1> DEFINE ack == AckStatus(outcome[s])
<1>0. PICK o \in Orders : o = order[s]
  BY CarriesAnOrder DEF IngressInv, AckLands
<1>1. status[o] = outcome[s] /\ outcome[s] \in {"reserved", "rejected"}
  BY <1>0 DEF IngressInv, AckCarriesDecision, AckLands
<1>2. /\ ack \in {"confirmed", "cancelled"}
      /\ ack = "confirmed" => status[o] = "reserved"
      /\ ack = "cancelled" => status[o] = "rejected"
  BY <1>1 DEF AckStatus
<1>3. /\ sale' = [sale EXCEPT ![o] = StateFor(o, ack)]
      /\ UNCHANGED <<hubVars, posVars>>
      /\ answered' = answered \cup {o}
      /\ Finish(s)
  BY <1>0 DEF AckLands, SetSaleState
<1>4. /\ DOMAIN sale' = Orders
      /\ sale'[o] = StateFor(o, ack)
      /\ \A p \in Orders \ {o} : sale'[p] = sale[p]
  BY <1>1, <1>3 DEF IngressInv, TypeOK
<1>5. \A p \in Orders : sale'[p] \in
        IF Code[p] = "mock-bazar" THEN DOMAIN SaleToOrder ELSE DOMAIN AckToSale
  <2> TAKE p \in Orders
  <2>1. CASE p = o
    BY <1>1, <1>2, <1>4, <2>1, WordsComeBack
  <2>2. CASE p # o
    BY <1>4, <2>2 DEF IngressInv, TypeOK
  <2> QED
    BY <2>1, <2>2
<1>6. StatusOf(o)' = ack
  BY <1>1, <1>2, <1>4, WordsComeBack DEF StatusOf
<1>7. \A p \in Orders \ {o} : StatusOf(p)' = StatusOf(p)
  BY <1>4 DEF StatusOf
<1>8. TypeOK'
  BY <1>1, <1>3, <1>4, <1>5, NoneAssumption DEF IngressInv, TypeOK, Finish, hubVars, posVars
<1>9. WriterIsFirst'
  BY <1>3 DEF IngressInv, TypeOK, WriterIsFirst, Finish, hubVars, posVars
<1>10. AckCarriesDecision'
  BY <1>3 DEF IngressInv, TypeOK, AckCarriesDecision, Finish, hubVars
<1>11. RecordedAtMostOnce'
  BY <1>3 DEF IngressInv, RecordedAtMostOnce, hubVars, posVars
<1>12. AckIsTheDecision'
  <2> SUFFICES ASSUME NEW p \in Orders
               PROVE  /\ StatusOf(p)' \in {"pending", "confirmed", "cancelled"}
                      /\ StatusOf(p)' = "confirmed" => status'[p] = "reserved"
                      /\ StatusOf(p)' = "cancelled" => status'[p] = "rejected"
    BY DEF AckIsTheDecision
  <2>1. CASE p = o
    BY <1>2, <1>3, <1>6, <2>1 DEF hubVars
  <2>2. CASE p # o
    BY <1>3, <1>7, <2>2 DEF IngressInv, AckIsTheDecision, hubVars
  <2> QED
    BY <2>1, <2>2
<1> QED
  BY <1>8, <1>9, <1>10, <1>11, <1>12 DEF IngressInv

(* The POS sells, and a pull comes and goes.                               *)
LEMMA PosKeeps ==
  ASSUME IngressInv, ShopSale \/ PullAnswered \/ PullCommits PROVE IngressInv'
<1>1. UNCHANGED <<status, reserved, recorded, requestVars, channelVars>>
  BY DEF ShopSale, PullAnswered, PullCommits, hubVars
<1>2. qty' \in Nat /\ reserved' \in 0..qty' /\ posStock' \in Int /\ pulled' \in Int \cup {NoAnswer}
  BY DEF IngressInv, TypeOK, ShopSale, PullAnswered, PullCommits, Acceptable, hubVars
<1>3. TypeOK'
  BY <1>1, <1>2 DEF IngressInv, TypeOK, requestVars, channelVars
<1>4. WriterIsFirst' /\ AckCarriesDecision' /\ RecordedAtMostOnce'
  BY <1>1 DEF IngressInv, WriterIsFirst, AckCarriesDecision, RecordedAtMostOnce, requestVars
<1>5. AckIsTheDecision'
  BY <1>1, StatusStays DEF IngressInv, AckIsTheDecision, channelVars
<1> QED
  BY <1>3, <1>4, <1>5 DEF IngressInv

LEMMA IngressStep == IngressInv /\ [Next]_vars => IngressInv'
<1> SUFFICES ASSUME IngressInv, [Next]_vars PROVE IngressInv'
  OBVIOUS
<1>1. CASE UNCHANGED vars
  <2>1. \A o \in Orders : StatusOf(o)' = StatusOf(o)
    BY <1>1, StatusStays DEF vars, channelVars
  <2> QED
    BY <1>1, <2>1 DEF vars, hubVars, requestVars, channelVars, posVars, IngressInv, TypeOK,
                      WriterIsFirst, AckCarriesDecision, RecordedAtMostOnce, AckIsTheDecision
<1>2. CASE \E s \in Sessions, o \in Orders : Deliver(s, o)
  BY <1>2, DeliverKeeps
<1>3. ASSUME NEW s \in Sessions, RequestStep(s) \/ Crash(s) PROVE IngressInv'
  <2>1. CASE Reserve(s)
    BY <2>1, ReserveKeeps
  <2>2. CASE Reject(s)
    BY <2>2, RejectKeeps
  <2>3. CASE WriteLands(s) \/ WriteFails(s)
    BY <2>3, WriteKeeps
  <2>4. CASE AckLands(s)
    BY <2>4, AckKeeps
  <2>5. CASE Duplicate(s) \/ Refuse(s) \/ AckFails(s) \/ Crash(s)
    <3>1. at[s] # "idle" /\ Finish(s) /\ UNCHANGED <<hubVars, posVars, sale>>
      BY <2>5 DEF Duplicate, Refuse, AckFails, Crash, channelVars
    <3>2. answered' = answered \/ answered' = answered \cup {order[s]}
      BY <2>5 DEF Duplicate, Refuse, AckFails, Crash, channelVars
    <3>3. answered' \subseteq Orders
      BY <3>1, <3>2, CarriesAnOrder DEF IngressInv, TypeOK
    <3> QED
      BY <3>1, <3>3, FinishKeeps
  <2> QED
    BY <1>3, <2>1, <2>2, <2>3, <2>4, <2>5 DEF RequestStep
<1>4. CASE ShopSale \/ PullAnswered \/ PullCommits
  BY <1>4, PosKeeps
<1> QED
  BY <1>1, <1>2, <1>3, <1>4 DEF Next

LEMMA IngressHolds == Spec => []IngressInv
  BY IngressStart, IngressStep, PTL DEF Spec

(* The POS gets an order at most once, and only if it is reserved.         *)
THEOREM PosGetsItOnce == Spec => []RecordedAtMostOnce
<1>1. IngressInv => RecordedAtMostOnce
  BY DEF IngressInv
<1> QED
  BY <1>1, IngressHolds, PTL

(* A channel of either kind shows the committed decision or none.          *)
THEOREM ChannelShowsDecision == Spec => []AckIsTheDecision
<1>1. IngressInv => AckIsTheDecision
  BY DEF IngressInv
<1> QED
  BY <1>1, IngressHolds, PTL
=============================================================================
