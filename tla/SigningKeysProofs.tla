------------------------- MODULE SigningKeysProofs -------------------------
(***************************************************************************)
(* Rotation and withdrawal of signing keys, for any number of keys and of  *)
(* requests, any time to live and any delay.                               *)
(***************************************************************************)
EXTENDS SigningKeys, TLAPS

(* The types, part by part as the proofs use them.                         *)
ClockTypes ==
  /\ stage \in [Kids -> {"new", "published", "withdrawn"}]
  /\ since \in [Kids -> 0..Horizon]
  /\ age \in 0..TTL
  /\ waited \in [Requests -> 0..Delay]

RequestTypes ==
  /\ at \in [Requests -> {"idle", "load", "fetch", "store", "decode"}]
  /\ refresh \in [Requests -> BOOLEAN]
  /\ kid \in [Requests -> Kids]
  /\ outcome \in [Requests -> {"none", "accepted", "rejected", "unknown", "failed"}]
  /\ steady \in [Requests -> BOOLEAN]

KeyTypes == cached \subseteq Kids /\ answer \in [Requests -> SUBSET Kids]

LEMMA TypesTogether == TypeOK <=> ClockTypes /\ RequestTypes /\ KeyTypes
BY DEF TypeOK, ClockTypes, RequestTypes, KeyTypes

LEMMA Numbers == TTL \in Nat \ {0} /\ Delay \in Nat /\ Horizon = TTL + Delay + 1
BY TTLAssumption, DelayAssumption DEF Horizon

LEMMA TypesStart == Init => TypeOK
BY Numbers DEF Init, TypeOK

LEMMA LookUpTypes ==
  ASSUME RequestTypes, NEW r \in Requests, NEW keys, LookUp(r, keys)
  PROVE  RequestTypes'
BY DEF RequestTypes, LookUp, Goto, End

LEMMA ForgetTypes ==
  ASSUME TypeOK, NEW r \in Requests, Forget(r)
  PROVE  answer' \in [Requests -> SUBSET Kids] /\ waited' \in [Requests -> 0..Delay]
BY Numbers DEF TypeOK, Forget

LEMMA TypesStep == TypeOK /\ [Next]_vars => TypeOK'
<1> SUFFICES ASSUME TypeOK, [Next]_vars PROVE TypeOK'
  OBVIOUS
<1> USE DEF realmVars, cacheVars, answerVars, requestVars
<1>0. ClockTypes /\ RequestTypes /\ KeyTypes
  BY TypesTogether
<1>1. CASE UNCHANGED vars
  BY <1>1 DEF vars, TypeOK
<1>2. ASSUME NEW k \in Kids, Rotate(k) \/ Withdraw(k) PROVE TypeOK'
  BY <1>2 DEF Rotate, Withdraw, TypeOK
<1>3. CASE Tick
  <2>1. age' \in 0..TTL
    BY <1>3, Numbers DEF Tick, TypeOK
  <2>2. since' \in [Kids -> 0..Horizon]
    BY <1>3, Numbers DEF Tick, TypeOK
  <2>3. waited' \in [Requests -> 0..Delay]
    BY <1>3, Numbers DEF Tick, TypeOK
  <2> QED
    BY <1>3, <2>1, <2>2, <2>3 DEF Tick, TypeOK
<1>4. CASE Evict
  BY <1>4, Numbers DEF Evict, TypeOK
<1>5. ASSUME NEW r \in Requests, Verify(r) PROVE TypeOK'
  BY <1>5 DEF Verify, TypeOK, Published
<1>6. ASSUME NEW r \in Requests, LoadCached(r) PROVE TypeOK'
  <2>1. RequestTypes'
    BY <1>0, <1>6, LookUpTypes DEF LoadCached, RequestTypes, Goto
  <2> QED
    BY <1>6, <2>1 DEF LoadCached, RequestTypes, TypeOK
<1>7. ASSUME NEW r \in Requests, Fetch(r) PROVE TypeOK'
  BY <1>7, Numbers DEF Fetch, Goto, TypeOK, Published
<1>8. ASSUME NEW r \in Requests, Store(r) PROVE TypeOK'
  <2>1. RequestTypes'
    BY <1>0, <1>8, LookUpTypes DEF Store
  <2> QED
    BY <1>8, <2>1, ForgetTypes, Numbers DEF Store, RequestTypes, TypeOK
<1>9. ASSUME NEW r \in Requests, Decode(r) \/ Unavailable(r) PROVE TypeOK'
  BY <1>9, ForgetTypes DEF Decode, Unavailable, End, TypeOK
<1> QED
  BY <1>1, <1>2, <1>3, <1>4, <1>5, <1>6, <1>7, <1>8, <1>9 DEF Next, Request

(* The variables have their types.                                         *)
THEOREM TypesHold == Spec => []TypeOK
BY TypesStart, TypesStep, PTL DEF Spec

-----------------------------------------------------------------------------
(* What makes the refetch enough: while a request is under way its steady  *)
(* kid is published, so the realm's answer to it has that kid.             *)
SteadyIsPublished ==
  \A r \in Requests : at[r] # "idle" /\ steady[r] => stage[kid[r]] = "published"

AnswerHasSteady ==
  \A r \in Requests : at[r] = "store" /\ steady[r] => kid[r] \in answer[r]

(* A lookup past the cache is one in an answer, never in the cache.        *)
LoadsAreFirst == \A r \in Requests : at[r] = "load" => ~refresh[r]

KnownInv ==
  /\ TypeOK /\ SteadyIsPublished /\ AnswerHasSteady /\ LoadsAreFirst
  /\ PublishedKeyIsKnown

LEMMA KnownStep == KnownInv /\ [Next]_vars => KnownInv'
<1> SUFFICES ASSUME KnownInv, [Next]_vars PROVE KnownInv'
  OBVIOUS
<1> USE DEF realmVars, cacheVars, answerVars, requestVars
<1>0. TypeOK'
  BY TypesStep DEF KnownInv
<1> DEFINE Rest == SteadyIsPublished /\ AnswerHasSteady /\ LoadsAreFirst /\ PublishedKeyIsKnown
<1>1. CASE UNCHANGED vars
  BY <1>0, <1>1 DEF vars, KnownInv, SteadyIsPublished, AnswerHasSteady, LoadsAreFirst,
                    PublishedKeyIsKnown
<1>2. ASSUME NEW k \in Kids, Rotate(k) PROVE Rest'
  BY <1>2 DEF Rotate, KnownInv, TypeOK, SteadyIsPublished, AnswerHasSteady,
              LoadsAreFirst, PublishedKeyIsKnown
<1>3. ASSUME NEW k \in Kids, Withdraw(k) PROVE Rest'
  BY <1>3 DEF Withdraw, KnownInv, TypeOK, SteadyIsPublished, AnswerHasSteady,
              LoadsAreFirst, PublishedKeyIsKnown
<1>4. ASSUME Tick \/ Evict PROVE Rest'
  BY <1>4 DEF Tick, Evict, KnownInv, SteadyIsPublished, AnswerHasSteady,
              LoadsAreFirst, PublishedKeyIsKnown
<1>5. ASSUME NEW r \in Requests, Verify(r) PROVE Rest'
  <2>1. PICK k \in Kids : /\ kid' = [kid EXCEPT ![r] = k]
                          /\ steady' = [steady EXCEPT ![r] = k \in Published]
    BY <1>5 DEF Verify
  <2>2. /\ at' = [at EXCEPT ![r] = "load"] /\ refresh' = [refresh EXCEPT ![r] = FALSE]
        /\ outcome' = [outcome EXCEPT ![r] = "none"] /\ stage' = stage /\ answer' = answer
    BY <1>5 DEF Verify
  <2>3. /\ kid'[r] = k /\ at'[r] = "load" /\ outcome'[r] = "none" /\ ~refresh'[r]
        /\ steady'[r] = (k \in Published)
    BY <2>1, <2>2 DEF KnownInv, TypeOK
  <2>4. \A q \in Requests \ {r} :
          /\ kid'[q] = kid[q] /\ at'[q] = at[q] /\ outcome'[q] = outcome[q]
          /\ refresh'[q] = refresh[q] /\ steady'[q] = steady[q]
    BY <2>1, <2>2 DEF KnownInv, TypeOK
  <2>5. SteadyIsPublished'
    BY <2>2, <2>3, <2>4 DEF Published, KnownInv, SteadyIsPublished
  <2>6. AnswerHasSteady'
    BY <2>2, <2>3, <2>4 DEF KnownInv, AnswerHasSteady
  <2>7. LoadsAreFirst'
    BY <2>3, <2>4 DEF KnownInv, LoadsAreFirst
  <2>8. PublishedKeyIsKnown'
    BY <2>3, <2>4 DEF KnownInv, PublishedKeyIsKnown
  <2> QED
    BY <2>5, <2>6, <2>7, <2>8
<1>6. ASSUME NEW r \in Requests, LoadCached(r) PROVE Rest'
  <2>1. at'[r] # "idle" /\ outcome' = outcome /\ kid' = kid /\ steady' = steady
        /\ at'[r] \notin {"load", "store"} /\ UNCHANGED <<stage, answer>>
    BY <1>6 DEF LoadCached, LookUp, Goto, End, KnownInv, TypeOK, LoadsAreFirst
  <2>2. \A q \in Requests \ {r} : at'[q] = at[q] /\ refresh'[q] = refresh[q]
    BY <1>6 DEF LoadCached, LookUp, Goto, End, KnownInv, TypeOK
  <2> QED
    BY <1>6, <2>1, <2>2 DEF LoadCached, KnownInv, TypeOK, SteadyIsPublished,
                            AnswerHasSteady, LoadsAreFirst, PublishedKeyIsKnown
<1>7. ASSUME NEW r \in Requests, Fetch(r) PROVE Rest'
  BY <1>7 DEF Fetch, Goto, Published, KnownInv, TypeOK, SteadyIsPublished,
              AnswerHasSteady, LoadsAreFirst, PublishedKeyIsKnown
<1>8. ASSUME NEW r \in Requests, Store(r) PROVE Rest'
  <2>1. at'[r] \notin {"load", "store"} /\ kid' = kid /\ steady' = steady /\ stage' = stage
    BY <1>8 DEF Store, LookUp, Goto, End, KnownInv, TypeOK
  <2>2. outcome'[r] = "unknown" => kid[r] \notin answer[r] \/ outcome[r] = "unknown"
    BY <1>8 DEF Store, LookUp, Goto, End, KnownInv, TypeOK
  <2>3. /\ \A q \in Requests \ {r} : at'[q] = at[q] /\ refresh'[q] = refresh[q]
                                     /\ answer'[q] = answer[q] /\ outcome'[q] = outcome[q]
        /\ at[r] = "store"
    BY <1>8 DEF Store, LookUp, Goto, End, Forget, KnownInv, TypeOK
  <2> QED
    BY <2>1, <2>2, <2>3 DEF KnownInv, TypeOK, SteadyIsPublished, AnswerHasSteady,
                            LoadsAreFirst, PublishedKeyIsKnown
<1>9. ASSUME NEW r \in Requests, Decode(r) \/ Unavailable(r) PROVE Rest'
  BY <1>9 DEF Decode, Unavailable, End, Forget, KnownInv, TypeOK, SteadyIsPublished,
              AnswerHasSteady, LoadsAreFirst, PublishedKeyIsKnown
<1> QED
  BY <1>0, <1>1, <1>2, <1>3, <1>4, <1>5, <1>6, <1>7, <1>8, <1>9 DEF Next, Request, KnownInv

(* A key published since before the request began is never unknown.        *)
THEOREM RotationHeals == Spec => []PublishedKeyIsKnown
<1>1. Init => KnownInv
  BY TypesStart DEF Init, KnownInv, SteadyIsPublished, AnswerHasSteady, LoadsAreFirst,
                    PublishedKeyIsKnown
<1>2. KnownInv => PublishedKeyIsKnown
  BY DEF KnownInv
<1> QED
  BY <1>1, <1>2, KnownStep, PTL DEF Spec

-----------------------------------------------------------------------------
(* What bounds a withdrawn key: an answer that still has it was given      *)
(* before the withdrawal, and an entry was an answer when it was stored.   *)
AnswersAreYoung ==
  \A r \in Requests, k \in Kids :
    at[r] = "store" /\ k \in answer[r] /\ stage[k] = "withdrawn" => since[k] <= waited[r]

CacheIsYoung ==
  \A k \in Kids : age < TTL /\ k \in cached /\ stage[k] = "withdrawn" => since[k] <= age + Delay

(* A key that is not withdrawn has not started to age.                     *)
AliveIsZero == \A k \in Kids : stage[k] # "withdrawn" => since[k] = 0

WithdrawnInv == TypeOK /\ AnswersAreYoung /\ CacheIsYoung /\ AliveIsZero

LEMMA LookUpLeaves ==
  ASSUME RequestTypes, NEW r \in Requests, NEW keys, LookUp(r, keys)
  PROVE  /\ at'[r] # "store"
         /\ \A q \in Requests \ {r} : at'[q] = at[q]
BY DEF RequestTypes, LookUp, Goto, End

LEMMA WithdrawnStep == WithdrawnInv /\ [Next]_vars => WithdrawnInv'
<1> SUFFICES ASSUME WithdrawnInv, [Next]_vars PROVE WithdrawnInv'
  OBVIOUS
<1> USE DEF realmVars, cacheVars, answerVars, requestVars
<1>0. TypeOK' /\ TypeOK /\ RequestTypes
  BY TypesStep, TypesTogether DEF WithdrawnInv
<1> DEFINE Young == AnswersAreYoung /\ CacheIsYoung /\ AliveIsZero
<1>1. CASE UNCHANGED vars
  BY <1>1 DEF vars, WithdrawnInv, TypeOK, AnswersAreYoung, CacheIsYoung, AliveIsZero
<1>2. ASSUME NEW k \in Kids, Rotate(k) \/ Withdraw(k) PROVE Young'
  BY <1>0, <1>2, Numbers DEF Rotate, Withdraw, WithdrawnInv, TypeOK, AnswersAreYoung,
                             CacheIsYoung, AliveIsZero
<1>3. ASSUME Tick PROVE Young'
  <2>1. \A k \in Kids : since'[k] = since[k] \/ since'[k] = since[k] + 1
    BY <1>0, <1>3 DEF Tick, TypeOK
  <2>2. \A r \in Requests : at[r] = "store" => waited'[r] = waited[r] + 1
    BY <1>0, <1>3 DEF Tick, TypeOK
  <2>3. age' < TTL => age < TTL /\ age' = age + 1
    BY <1>0, <1>3, Numbers DEF Tick, TypeOK
  <2>4. stage' = stage /\ cached' = cached /\ answer' = answer /\ at' = at
    BY <1>3 DEF Tick
  <2>5. AnswersAreYoung'
    BY <1>0, <2>1, <2>2, <2>4, Numbers DEF WithdrawnInv, TypeOK, AnswersAreYoung
  <2>6. CacheIsYoung'
    BY <1>0, <2>1, <2>3, <2>4, Numbers DEF WithdrawnInv, TypeOK, CacheIsYoung
  <2>7. AliveIsZero'
    BY <1>0, <1>3 DEF Tick, WithdrawnInv, TypeOK, AliveIsZero
  <2> QED
    BY <2>5, <2>6, <2>7
<1>4. ASSUME Evict PROVE Young'
  BY <1>4, Numbers DEF Evict, WithdrawnInv, AnswersAreYoung, CacheIsYoung, AliveIsZero
<1>5. ASSUME NEW r \in Requests, Verify(r) \/ Decode(r) \/ Unavailable(r) PROVE Young'
  <2>1. UNCHANGED <<realmVars, cacheVars>> /\ at'[r] # "store"
        /\ \A q \in Requests \ {r} : at'[q] = at[q] /\ answer'[q] = answer[q]
                                     /\ waited'[q] = waited[q]
    BY <1>0, <1>5 DEF Verify, Decode, Unavailable, End, Forget, TypeOK
  <2> QED
    BY <1>0, <2>1 DEF WithdrawnInv, TypeOK, AnswersAreYoung, CacheIsYoung, AliveIsZero
<1>6. ASSUME NEW r \in Requests, LoadCached(r) PROVE Young'
  <2>1. at'[r] # "store" /\ \A q \in Requests \ {r} : at'[q] = at[q]
    BY <1>0, <1>6, LookUpLeaves DEF LoadCached, Goto, TypeOK
  <2> QED
    BY <1>6, <2>1 DEF LoadCached, WithdrawnInv, AnswersAreYoung, CacheIsYoung, AliveIsZero
<1>7. ASSUME NEW r \in Requests, Fetch(r) PROVE Young'
  <2>1. /\ UNCHANGED <<realmVars, cacheVars>> /\ waited'[r] = 0 /\ answer'[r] = Published
        /\ \A q \in Requests \ {r} : at'[q] = at[q] /\ answer'[q] = answer[q]
                                     /\ waited'[q] = waited[q]
    BY <1>0, <1>7 DEF Fetch, Goto, TypeOK
  <2> QED
    BY <1>0, <2>1 DEF Published, WithdrawnInv, TypeOK, AnswersAreYoung, CacheIsYoung,
                      AliveIsZero
<1>8. ASSUME NEW r \in Requests, Store(r) PROVE Young'
  <2>1. /\ UNCHANGED realmVars /\ cached' = answer[r] /\ age' = 0 /\ at[r] = "store"
        /\ at'[r] # "store" /\ \A q \in Requests \ {r} : at'[q] = at[q]
    BY <1>0, <1>8, LookUpLeaves DEF Store
  <2>2. \A q \in Requests \ {r} : answer'[q] = answer[q] /\ waited'[q] = waited[q]
    BY <1>0, <1>8 DEF Store, Forget, TypeOK
  <2>3. \A k \in Kids : k \in answer[r] /\ stage[k] = "withdrawn" => since[k] <= Delay
    BY <1>0, <2>1, Numbers DEF WithdrawnInv, TypeOK, AnswersAreYoung
  <2> QED
    BY <1>0, <2>1, <2>2, <2>3, Numbers DEF WithdrawnInv, TypeOK, AnswersAreYoung,
                                           CacheIsYoung, AliveIsZero
<1> QED
  BY <1>0, <1>1, <1>2, <1>3, <1>4, <1>5, <1>6, <1>7, <1>8 DEF Next, Request, WithdrawnInv

LEMMA WithdrawnUse ==
  ASSUME WithdrawnInv, [Next]_vars, NEW r \in Requests,
         at[r] # "decode", at'[r] = "decode"
  PROVE  since[kid[r]] < TTL + Delay
<1>0. TypeOK
  BY DEF WithdrawnInv
<1>1. \/ LoadCached(r) /\ age < TTL /\ kid[r] \in cached
      \/ Store(r) /\ kid[r] \in answer[r]
  <2>1. PICK q \in Requests : Request(q)
    BY <1>0 DEF Next, vars, Rotate, Withdraw, Tick, Evict, requestVars
  <2>2. q = r
    BY <1>0, <2>1 DEF Request, Verify, LoadCached, Fetch, Store, Decode, Unavailable, LookUp,
                      Goto, End, TypeOK
  <2> QED
    BY <1>0, <2>1, <2>2 DEF Request, Verify, LoadCached, Fetch, Store, Decode, Unavailable,
                            LookUp, Goto, End, TypeOK
<1>2. kid[r] \in Kids
  BY <1>0 DEF TypeOK
<1>3. CASE LoadCached(r) /\ age < TTL /\ kid[r] \in cached
  BY <1>0, <1>2, <1>3, Numbers DEF WithdrawnInv, CacheIsYoung, AliveIsZero, TypeOK
<1>4. CASE Store(r) /\ kid[r] \in answer[r]
  BY <1>0, <1>2, <1>4, Numbers DEF Store, WithdrawnInv, AnswersAreYoung, AliveIsZero, TypeOK
<1> QED
  BY <1>1, <1>3, <1>4

(* A withdrawn key is used no longer than TTL + Delay.                     *)
THEOREM WithdrawalHolds == Spec => WithdrawnKeyDies
<1>1. Init => WithdrawnInv
  BY TypesStart, Numbers DEF Init, WithdrawnInv, AnswersAreYoung, CacheIsYoung, AliveIsZero
<1>2. WithdrawnInv /\ [Next]_vars
        => [\A r \in Requests :
              at[r] # "decode" /\ at'[r] = "decode" => since[kid[r]] < TTL + Delay]_vars
  BY WithdrawnUse
<1> QED
  BY <1>1, <1>2, WithdrawnStep, PTL DEF Spec, WithdrawnKeyDies
=============================================================================
