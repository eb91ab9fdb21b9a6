------------------------- MODULE ChannelGuardProofs -------------------------
(***************************************************************************)
(* What holds of the guard for any number of callers, any rate, capacity,  *)
(* time-out and breaker limits.                                            *)
(***************************************************************************)
EXTENDS ChannelGuard, TLAPS, SequenceTheorems

(* The bucket's numbers, and the invariant that makes RateBound inductive: *)
(* what the recent grants owe and what could be granted now never exceed   *)
(* the capacity together.                                                  *)
BucketInv ==
  /\ tokens \in 0..Capacity
  /\ accrued \in 0..Capacity
  /\ debt \in Nat
  /\ debt + Refilled <= Capacity

LEMMA BucketStart == Init => BucketInv
BY BucketAssumption DEF Init, BucketInv, Refilled, Lesser

LEMMA BucketStep == BucketInv /\ [Next]_vars => BucketInv'
<1> SUFFICES ASSUME BucketInv, [Next]_vars PROVE BucketInv'
  OBVIOUS
<1> USE BucketAssumption DEF BucketInv
<1>1. CASE UNCHANGED <<tokens, accrued, debt>>
  BY <1>1 DEF Refilled, Lesser
<1>2. ASSUME NEW c \in Callers, TakeToken(c) PROVE BucketInv'
  <2>1. /\ Refilled \in Nat /\ Refilled >= Unit /\ Refilled <= Capacity
        /\ tokens' = Refilled - Unit /\ accrued' = 0 /\ debt' = debt + Unit
    BY <1>2 DEF TakeToken, Refilled, Lesser
  <2>2. Refilled' = Refilled - Unit
    BY <2>1 DEF Refilled, Lesser
  <2> QED
    BY <2>1, <2>2
<1>3. ASSUME NEW c \in Callers, Sleep(c) PROVE BucketInv'
  <2>1. /\ Refilled \in Nat /\ Refilled <= Capacity
        /\ tokens' = Refilled /\ accrued' = 0 /\ debt' = debt
    BY <1>3 DEF Sleep, Refilled, Lesser
  <2>2. Refilled' = Refilled
    BY <2>1 DEF Refilled, Lesser
  <2> QED
    BY <2>1, <2>2
<1>4. CASE Tick
  <2>1. tokens' = tokens /\ accrued' = Lesser(accrued + Rate, Capacity)
        /\ debt' = Above0(debt - Rate)
    BY <1>4 DEF Tick
  <2>2. accrued' \in 0..Capacity /\ debt' \in Nat
    BY <2>1 DEF Lesser, Above0
  <2>3. debt' + Refilled' <= Capacity
    BY <2>1, <2>2 DEF Refilled, Lesser, Above0
  <2> QED
    BY <2>1, <2>2, <2>3
<1>5. ASSUME NEW c \in Callers, CallerStep(c) PROVE BucketInv'
  <2>1. \/ TakeToken(c) \/ Sleep(c)
        \/ UNCHANGED <<tokens, accrued, debt>>
    BY <1>5 DEF CallerStep, Acquire, TimeOut, Succeed, Fail, FailExcluded, Return, bucketVars
  <2> QED
    BY <2>1, <1>1, <1>2, <1>3
<1>6. CASE UNCHANGED vars
  BY <1>6, <1>1 DEF vars, bucketVars
<1> QED
  BY <1>4, <1>5, <1>6 DEF Next

(* libs/adapter/rate_limit.py: over any stretch of time the channel gets   *)
(* no more calls than burst and rate allow, whatever tasks compete, sleep  *)
(* and time out.                                                           *)
THEOREM CallsStayWithinRate == Spec => []RateBound
<1>1. BucketInv => RateBound
  BY BucketAssumption DEF BucketInv, RateBound, Refilled, Lesser
<1> QED
  BY <1>1, BucketStart, BucketStep, PTL DEF Spec

(* The breaker's numbers; TripsInTime is inductive with them.              *)
BreakerInv ==
  /\ failCount \in 0..FailMax
  /\ state \in {"closed", "open", "half_open"}
  /\ TripsInTime

LEMMA BreakerStep == BreakerInv /\ [Next]_vars => BreakerInv'
<1> SUFFICES ASSUME BreakerInv, [Next]_vars PROVE BreakerInv'
  OBVIOUS
<1> USE LimitAssumption DEF BreakerInv, TripsInTime
<1>1. CASE UNCHANGED <<state, failCount>>
  BY <1>1
<1>2. ASSUME NEW c \in Callers, TakeToken(c) PROVE BreakerInv'
  <2>1. failCount' = failCount /\ (state' = state \/ state' = "half_open")
    BY <1>2 DEF TakeToken, EnterBreaker, breakerVars
  <2> QED
    BY <2>1
<1>3. ASSUME NEW c \in Callers, Fail(c) PROVE BreakerInv'
  <2>1. CASE state = "half_open"
    BY <1>3, <2>1 DEF Fail
  <2>2. CASE state # "half_open"
    <3>1. failCount' = Lesser(failCount + 1, FailMax)
      BY <1>3, <2>2 DEF Fail
    <3>2. failCount' \in 0..FailMax
      BY <3>1 DEF Lesser
    <3>3. CASE failCount' >= FailMax
      BY <1>3, <3>2, <3>3 DEF Fail
    <3>4. CASE ~(failCount' >= FailMax)
      BY <1>3, <2>2, <3>2, <3>4 DEF Fail
    <3> QED
      BY <3>3, <3>4
  <2> QED
    BY <2>1, <2>2
<1>4. ASSUME NEW c \in Callers, Succeed(c) PROVE BreakerInv'
  BY <1>4 DEF Succeed
<1>5. ASSUME NEW c \in Callers, CallerStep(c) PROVE BreakerInv'
  <2>1. \/ TakeToken(c) \/ Fail(c) \/ Succeed(c)
        \/ UNCHANGED <<state, failCount>>
    BY <1>5 DEF CallerStep, Acquire, Sleep, TimeOut, FailExcluded, breakerVars
  <2> QED
    BY <2>1, <1>1, <1>2, <1>3, <1>4
<1>6. CASE Tick \/ UNCHANGED vars
  BY <1>6, <1>1 DEF Tick, vars, breakerVars
<1> QED
  BY <1>5, <1>6 DEF Next

(* libs/adapter/circuit_breaker.py: fail_max consecutive failures trip the *)
(* breaker, also when calls overlap and end in any order.                  *)
THEOREM BreakerTripsInTime == Spec => []TripsInTime
<1>1. Init => BreakerInv
  BY LimitAssumption DEF Init, BreakerInv, TripsInTime
<1>2. BreakerInv => TripsInTime
  BY DEF BreakerInv
<1> QED
  BY <1>1, <1>2, BreakerStep, PTL DEF Spec

-----------------------------------------------------------------------------
(***************************************************************************)
(* Type correctness says that the lock's queue holds each waiting caller   *)
(* once and nobody else, whoever is granted a token or gives up in between,*)
(* and that a trial call is one still under way.                           *)
(***************************************************************************)
QueueOf(q, p) ==
  /\ q \in Seq(Callers)
  /\ \A i, j \in DOMAIN q : q[i] = q[j] => i = j
  /\ \A c \in Callers : p[c] = "waiting" <=> \E i \in DOMAIN q : q[i] = c

LEMMA QueueAppend ==
  ASSUME NEW q, NEW p \in [Callers -> {"idle", "waiting", "calling"}], QueueOf(q, p),
         NEW c \in Callers, p[c] # "waiting"
  PROVE  QueueOf(Append(q, c), [p EXCEPT ![c] = "waiting"])
<1> DEFINE r == Append(q, c)
           s == [p EXCEPT ![c] = "waiting"]
<1>1. /\ r \in Seq(Callers) /\ Len(r) = Len(q) + 1 /\ Len(q) \in Nat
      /\ DOMAIN r = 1..Len(r) /\ DOMAIN q = 1..Len(q)
      /\ r[Len(q) + 1] = c
      /\ \A i \in DOMAIN q : r[i] = q[i]
  BY DEF QueueOf
<1>2. \A i \in DOMAIN q : q[i] # c
  BY DEF QueueOf
<1>3. \A i, j \in DOMAIN r : r[i] = r[j] => i = j
  BY <1>1, <1>2 DEF QueueOf
<1>4. \A d \in Callers : s[d] = "waiting" <=> \E i \in DOMAIN r : r[i] = d
  <2> TAKE d \in Callers
  <2>1. CASE d = c
    BY <1>1, <2>1
  <2>2. CASE d # c
    <3>1. s[d] = p[d]
      BY <2>2
    <3>2. (\E i \in DOMAIN q : q[i] = d) <=> \E i \in DOMAIN r : r[i] = d
      <4>1. \A i \in DOMAIN r : i \in DOMAIN q \/ i = Len(q) + 1
        BY <1>1
      <4>2. DOMAIN q \subseteq DOMAIN r
        BY <1>1
      <4> HIDE DEF r
      <4> QED
        BY <1>1, <4>1, <4>2, <2>2
    <3> QED
      BY <3>1, <3>2 DEF QueueOf
  <2> QED
    BY <2>1, <2>2
<1> QED
  BY <1>1, <1>3, <1>4 DEF QueueOf

(* The caller at a position is taken out, granted or timed out.            *)
LEMMA QueueRemove ==
  ASSUME NEW q, NEW p \in [Callers -> {"idle", "waiting", "calling"}], QueueOf(q, p),
         NEW k \in DOMAIN q, NEW what \in {"idle", "calling"}
  PROVE  QueueOf(RemoveAt(q, k), [p EXCEPT ![q[k]] = what])
<1> DEFINE r == RemoveAt(q, k)
           s == [p EXCEPT ![q[k]] = what]
<1>1. /\ r \in Seq(Callers) /\ Len(r) = Len(q) - 1 /\ Len(q) \in Nat
      /\ DOMAIN r = 1..Len(r) /\ DOMAIN q = 1..Len(q)
      /\ \A i \in 1..(Len(q) - 1) : r[i] = IF i < k THEN q[i] ELSE q[i + 1]
  <2> DEFINE a == SubSeq(q, 1, k - 1)
             b == SubSeq(q, k + 1, Len(q))
  <2>1. q \in Seq(Callers) /\ Len(q) \in Nat /\ k \in 1..Len(q) /\ DOMAIN q = 1..Len(q)
    BY DEF QueueOf
  <2>2. \A i \in 1..(k - 1) : i \in 1..Len(q)
    BY <2>1
  <2>3. a \in Seq(Callers) /\ Len(a) = k - 1 /\ \A i \in 1..(k - 1) : a[i] = q[i]
    BY <2>1, <2>2, SubSeqProperties
  <2>4. b \in Seq(Callers) /\ Len(b) = Len(q) - k
        /\ \A i \in 1..(Len(q) - k) : b[i] = q[k + i]
    <3>1. \A i \in (k + 1)..Len(q) : q[i] \in Callers
      BY <2>1
    <3>2. /\ b \in Seq(Callers)
          /\ Len(b) = IF k + 1 <= Len(q) THEN Len(q) - (k + 1) + 1 ELSE 0
          /\ \A i \in 1..(Len(q) - (k + 1) + 1) : b[i] = q[(k + 1) + i - 1]
      <4>1. k + 1 \in Int /\ Len(q) \in Int
        BY <2>1
      <4> QED
        BY <3>1, <4>1, SubSeqProperties
    <3> HIDE DEF b
    <3>3. Len(q) - (k + 1) + 1 = Len(q) - k
      BY <2>1
    <3>4. \A i \in 1..(Len(q) - k) : (k + 1) + i - 1 = k + i
      BY <2>1
    <3> QED
      BY <2>1, <3>2, <3>3, <3>4
  <2>5. r = a \o b
    BY DEF RemoveAt
  <2> HIDE DEF a, b, r
  <2>6. /\ r \in Seq(Callers) /\ Len(r) = Len(q) - 1
        /\ \A i \in 1..(Len(q) - 1) : r[i] = IF i <= k - 1 THEN a[i] ELSE b[i - (k - 1)]
    <3>1. /\ a \o b \in Seq(Callers) /\ Len(a \o b) = Len(a) + Len(b)
          /\ \A i \in 1..(Len(a) + Len(b)) :
               (a \o b)[i] = IF i <= Len(a) THEN a[i] ELSE b[i - Len(a)]
      BY <2>3, <2>4, ConcatProperties
    <3>2. Len(a) + Len(b) = Len(q) - 1
      BY <2>1, <2>3, <2>4
    <3> QED
      BY <2>3, <2>5, <3>1, <3>2
  <2>7. ASSUME NEW i \in 1..(Len(q) - 1) PROVE r[i] = IF i < k THEN q[i] ELSE q[i + 1]
    <3>1. CASE i < k
      BY <2>1, <2>3, <2>6, <3>1
    <3>2. CASE ~(i < k)
      <4>1. i - (k - 1) \in 1..(Len(q) - k) /\ k + (i - (k - 1)) = i + 1
        BY <2>1, <3>2
      <4> QED
        BY <2>1, <2>4, <2>6, <3>2, <4>1
    <3> QED
      BY <3>1, <3>2
  <2> QED
    BY <2>1, <2>6, <2>7
<1> HIDE DEF r
<1>2. \A i, j \in DOMAIN r : r[i] = r[j] => i = j
  <2> TAKE i, j \in DOMAIN r
  <2>1. \A m, n \in DOMAIN q : q[m] = q[n] => m = n
    BY DEF QueueOf
  <2>2. DEFINE m == IF i < k THEN i ELSE i + 1
               n == IF j < k THEN j ELSE j + 1
  <2>3. m \in DOMAIN q /\ n \in DOMAIN q /\ r[i] = q[m] /\ r[j] = q[n]
    BY <1>1
  <2>4. m = n => i = j
    BY <1>1
  <2> HIDE DEF m, n
  <2> QED
    BY <2>1, <2>3, <2>4
<1>3. \A d \in Callers : s[d] = "waiting" <=> \E i \in DOMAIN r : r[i] = d
  <2> TAKE d \in Callers
  <2>1. q[k] \in Callers
    BY DEF QueueOf
  <2>2. \A i \in DOMAIN r : r[i] # q[k]
    <3> TAKE i \in DOMAIN r
    <3>1. DEFINE m == IF i < k THEN i ELSE i + 1
    <3>2. m \in DOMAIN q /\ m # k /\ r[i] = q[m]
      BY <1>1
    <3> HIDE DEF m
    <3> QED
      BY <3>2 DEF QueueOf
  <2>3. CASE d = q[k]
    BY <2>1, <2>2, <2>3
  <2>4. CASE d # q[k]
    <3>1. s[d] = p[d]
      BY <2>4
    <3>2. ASSUME NEW i \in DOMAIN q, q[i] = d PROVE \E j \in DOMAIN r : r[j] = d
      <4>1. i # k
        BY <2>4, <3>2
      <4>2. CASE i < k
        BY <1>1, <3>2, <4>2
      <4>3. CASE i > k
        <5>1. i - 1 \in DOMAIN r /\ r[i - 1] = d
          BY <1>1, <3>2, <4>3
        <5> QED
          BY <5>1
      <4> QED
        BY <1>1, <4>1, <4>2, <4>3
    <3>3. ASSUME NEW i \in DOMAIN r, r[i] = d PROVE \E j \in DOMAIN q : q[j] = d
      BY <1>1, <3>3
    <3> QED
      BY <3>1, <3>2, <3>3 DEF QueueOf
  <2> QED
    BY <2>3, <2>4
<1> QED
  BY <1>1, <1>2, <1>3 DEF QueueOf, r

LEMMA TypeStart == Init => TypeOK
BY BucketAssumption, LimitAssumption DEF Init, TypeOK

(* A step of a caller, by what it does to the queue and to pc.             *)
QueueTypes ==
  /\ pc \in [Callers -> {"idle", "waiting", "calling"}]
  /\ QueueOf(queue, pc)

LEMMA QueueStep ==
  ASSUME TypeOK, NEW c \in Callers, CallerStep(c)
  PROVE  QueueTypes'
<1>1. QueueTypes
  BY DEF TypeOK, QueueTypes, QueueOf
<1>2. CASE Acquire(c)
  BY <1>1, <1>2, QueueAppend DEF QueueTypes, Acquire
<1>3. CASE TakeToken(c)
  <2>1. \E what \in {"idle", "calling"} : pc' = [pc EXCEPT ![c] = what]
    BY <1>3 DEF TakeToken, EnterBreaker
  <2>2. 1 \in DOMAIN queue /\ queue[1] = c /\ queue' = Tail(queue)
    BY <1>1, <1>3 DEF TakeToken, Holds, QueueTypes, QueueOf
  <2>3. RemoveAt(queue, 1) = Tail(queue)
    BY <1>1, <2>2 DEF RemoveAt, QueueTypes, QueueOf
  <2>4. PICK what \in {"idle", "calling"} : pc' = [pc EXCEPT ![queue[1]] = what]
    BY <2>1, <2>2
  <2>5. QueueOf(queue', pc')
    <3>1. QueueOf(RemoveAt(queue, 1), [pc EXCEPT ![queue[1]] = what])
      BY <1>1, <2>2, QueueRemove DEF QueueTypes
    <3> QED
      BY <2>2, <2>3, <2>4, <3>1
  <2> QED
    BY <1>1, <2>1, <2>5 DEF QueueTypes
<1>4. CASE Sleep(c)
  BY <1>1, <1>4 DEF QueueTypes, Sleep
<1>5. CASE TimeOut(c)
  <2>1. PICK k \in DOMAIN queue : queue[k] = c /\ queue' = RemoveAt(queue, k)
    BY <1>5 DEF TimeOut, Leave
  <2>2. QueueOf(queue', pc')
    BY <1>1, <1>5, <2>1, QueueRemove DEF QueueTypes, TimeOut
  <2> QED
    BY <1>1, <1>5, <2>2 DEF QueueTypes, TimeOut
<1>6. CASE Succeed(c) \/ Fail(c) \/ FailExcluded(c)
  <2>1. pc[c] = "calling" /\ pc' = [pc EXCEPT ![c] = "idle"] /\ queue' = queue
    BY <1>6 DEF Succeed, Fail, FailExcluded, Return, bucketVars
  <2> QED
    BY <1>1, <2>1 DEF QueueTypes, QueueOf
<1> QED
  BY <1>2, <1>3, <1>4, <1>5, <1>6 DEF CallerStep

(* What time and the callers do to the clocks and the breaker.             *)
LEMMA TrialStep ==
  ASSUME TypeOK, NEW c \in Callers, CallerStep(c)
  PROVE  trial' \subseteq {d \in Callers : pc'[d] = "calling"}
<1>1. trial \subseteq {d \in Callers : pc[d] = "calling"}
      /\ pc \in [Callers -> {"idle", "waiting", "calling"}]
  BY DEF TypeOK
<1>2. CASE Acquire(c) \/ TimeOut(c)
  BY <1>1, <1>2 DEF Acquire, TimeOut, breakerVars
<1>3. CASE Sleep(c)
  BY <1>1, <1>3 DEF Sleep, breakerVars
<1>4. CASE TakeToken(c)
  <2>1. pc[c] = "waiting"
    BY <1>4 DEF TypeOK, TakeToken, Holds
  <2> QED
    BY <1>1, <1>4, <2>1 DEF TakeToken, EnterBreaker, breakerVars
<1>5. CASE Succeed(c) \/ Fail(c) \/ FailExcluded(c)
  BY <1>1, <1>5 DEF Succeed, Fail, FailExcluded, Return
<1> QED
  BY <1>2, <1>3, <1>4, <1>5 DEF CallerStep

LEMMA ClockStep ==
  ASSUME TypeOK, [Next]_vars
  PROVE  asleep' \in Nat /\ waited' \in [Callers -> 0..Timeout] /\ openFor' \in 0..ResetTicks
<1> USE LimitAssumption
<1>1. CASE UNCHANGED vars
  BY <1>1 DEF vars, bucketVars, breakerVars, TypeOK
<1>2. CASE Tick
  BY <1>2 DEF Tick, TypeOK, Lesser, Above0
<1>3. ASSUME NEW c \in Callers, CallerStep(c)
      PROVE  asleep' \in Nat /\ waited' \in [Callers -> 0..Timeout] /\ openFor' \in 0..ResetTicks
  <2>1. CASE Sleep(c)
    <3>1. Refilled \in Nat /\ Refilled < Unit
      BY <2>1, BucketAssumption DEF Sleep, Refilled, Lesser, TypeOK
    <3>2. Unit - Refilled + Rate - 1 \in Nat
      BY <3>1, BucketAssumption
    <3>3. (Unit - Refilled + Rate - 1) \div Rate \in Nat
      BY <3>2, BucketAssumption
    <3> QED
      BY <2>1, <3>3 DEF Sleep, breakerVars, TypeOK
  <2>2. CASE ~Sleep(c)
    <3>1. asleep' = asleep \/ asleep' = 0
      BY <1>3, <2>2 DEF CallerStep, Acquire, TakeToken, TimeOut, Succeed, Fail, FailExcluded,
                        Return, bucketVars
    <3>2. waited' = waited \/ waited' = [waited EXCEPT ![c] = 0]
      BY <1>3, <2>2 DEF CallerStep, Acquire, TakeToken, TimeOut, Succeed, Fail, FailExcluded,
                        Return, bucketVars
    <3>3. openFor' = openFor \/ openFor' = 0
      BY <1>3, <2>2 DEF CallerStep, Acquire, TakeToken, EnterBreaker, TimeOut, Succeed, Fail,
                        FailExcluded, breakerVars
    <3> QED
      BY <3>1, <3>2, <3>3 DEF TypeOK
  <2> QED
    BY <2>1, <2>2
<1> QED
  BY <1>1, <1>2, <1>3 DEF Next

LEMMA TypeStep == TypeOK /\ BucketInv /\ BreakerInv /\ [Next]_vars => TypeOK'
<1> SUFFICES ASSUME TypeOK, BucketInv, BreakerInv, [Next]_vars PROVE TypeOK'
  OBVIOUS
<1>1. BucketInv' /\ BreakerInv'
  BY BucketStep, BreakerStep
<1>2. QueueTypes' /\ trial' \subseteq {d \in Callers : pc'[d] = "calling"}
  <2>1. CASE UNCHANGED <<pc, queue, trial>>
    BY <2>1 DEF TypeOK, QueueTypes, QueueOf
  <2>2. ASSUME NEW c \in Callers, CallerStep(c)
        PROVE  QueueTypes' /\ trial' \subseteq {d \in Callers : pc'[d] = "calling"}
    BY <2>2, QueueStep, TrialStep
  <2> QED
    BY <2>1, <2>2 DEF Next, Tick, vars, bucketVars, breakerVars
<1> QED
  BY <1>1, <1>2, ClockStep DEF TypeOK, QueueTypes, QueueOf, BucketInv, BreakerInv

(* The lock's queue is the set of the waiting callers, each of them once,  *)
(* whatever time-outs and grants race.                                     *)
THEOREM GuardTypes == Spec => []TypeOK
<1>1. Init => BreakerInv
  BY LimitAssumption DEF Init, BreakerInv, TripsInTime
<1> QED
  BY <1>1, TypeStart, TypeStep, BucketStart, BucketStep, BreakerStep, PTL DEF Spec
=============================================================================
