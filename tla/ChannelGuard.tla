---------------------------- MODULE ChannelGuard ----------------------------
(***************************************************************************)
(* The guard of one channel (services/core/app/sync/guard.py): a token     *)
(* bucket (libs/adapter/rate_limit.py), then a circuit breaker             *)
(* (libs/adapter/circuit_breaker.py) around the call of the adapter.       *)
(* Callers are asyncio tasks: a step is what one of them does between two  *)
(* suspensions.  Time advances in ticks; ages stop counting once nothing   *)
(* depends on them any more, so behaviours are not bounded.                *)
(***************************************************************************)
EXTENDS Integers, SequencesExt

CONSTANTS
  Callers,
  Unit,            \* what a token is worth
  Rate,            \* what a tick refills
  Capacity,        \* what the bucket holds, a multiple of Unit
  Timeout,         \* ticks a caller waits for a token
  FailMax,         \* consecutive failures that trip the breaker
  ResetTicks       \* cooldown of the breaker

ASSUME BucketAssumption ==
  /\ Unit \in Nat \ {0} /\ Rate \in Nat \ {0} /\ Capacity \in Nat
  /\ Unit <= Capacity
ASSUME LimitAssumption ==
  Timeout \in Nat /\ FailMax \in Nat \ {0} /\ ResetTicks \in Nat \ {0}

VARIABLES
  pc,              \* "idle", "waiting" for a token or "calling" the channel
  queue,           \* the callers waiting, the first one holds the lock
  asleep,          \* ticks the lock's holder still sleeps
  waited,          \* ticks each caller has waited
  tokens,          \* _tokens
  accrued,         \* what the time since _last_refill is worth
  debt,            \* history: what recent grants used that time has not paid
  state,           \* the breaker's _state
  failCount,       \* _fail_count
  openFor,         \* ticks since _opened_at
  trial            \* history: calls let through HALF_OPEN and not over

bucketVars == <<queue, asleep, waited, tokens, accrued, debt>>
breakerVars == <<state, failCount, openFor, trial>>
vars == <<pc, bucketVars, breakerVars>>

TypeOK ==
  /\ pc \in [Callers -> {"idle", "waiting", "calling"}]
  /\ queue \in Seq(Callers)
  /\ \A i, j \in DOMAIN queue : queue[i] = queue[j] => i = j
  /\ \A c \in Callers : pc[c] = "waiting" <=> \E i \in DOMAIN queue : queue[i] = c
  /\ asleep \in Nat
  /\ waited \in [Callers -> 0..Timeout]
  /\ tokens \in 0..Capacity
  /\ accrued \in 0..Capacity
  /\ debt \in Nat
  /\ state \in {"closed", "open", "half_open"}
  /\ failCount \in 0..FailMax
  /\ openFor \in 0..ResetTicks
  /\ trial \subseteq {c \in Callers : pc[c] = "calling"}

Lesser(m, n) == IF m < n THEN m ELSE n
Above0(n) == IF n > 0 THEN n ELSE 0

Init ==
  /\ pc = [c \in Callers |-> "idle"]
  /\ queue = <<>>
  /\ asleep = 0
  /\ waited = [c \in Callers |-> 0]
  /\ tokens = Capacity
  /\ accrued = 0
  /\ debt = 0
  /\ state = "closed"
  /\ failCount = 0
  /\ openFor = ResetTicks
  /\ trial = {}

(***************************************************************************)
(* The breaker.                                                            *)
(***************************************************************************)
(* Mutant: an open breaker lets a call through at once.                    *)
RecoveredAtOnce == state = "open"

Recovered == state = "open" /\ openFor >= ResetTicks

(* _maybe_recover and the check in front of the call.                      *)
EnterBreaker(c) ==
  \/ /\ state = "open" /\ ~Recovered
     /\ pc' = [pc EXCEPT ![c] = "idle"]
     /\ UNCHANGED breakerVars
  \/ /\ state # "open" \/ Recovered
     /\ pc' = [pc EXCEPT ![c] = "calling"]
     /\ state' = IF Recovered THEN "half_open" ELSE state
     /\ trial' = IF state' = "half_open" THEN trial \cup {c} ELSE trial
     /\ UNCHANGED <<failCount, openFor>>

Return(c) ==
  /\ pc[c] = "calling"
  /\ pc' = [pc EXCEPT ![c] = "idle"]
  /\ trial' = trial \ {c}
  /\ UNCHANGED bucketVars

(* Mutant: the failures counted so far are not forgotten.                  *)
SucceedUncounted(c) ==
  /\ Return(c)
  /\ state' = "closed"
  /\ UNCHANGED <<failCount, openFor>>

Succeed(c) ==
  /\ Return(c)
  /\ state' = "closed"
  /\ failCount' = 0
  /\ UNCHANGED openFor

(* Cancellation of the call counts as well.  failCount stops at FailMax:   *)
(* the code only asks whether it has got there.                            *)
Fail(c) ==
  /\ Return(c)
  /\ failCount' = IF state = "half_open" THEN failCount
                  ELSE Lesser(failCount + 1, FailMax)
  /\ IF state = "half_open" \/ failCount' >= FailMax
       THEN state' = "open" /\ openFor' = 0
       ELSE UNCHANGED <<state, openFor>>

(* A credential or permanent error is excluded.                            *)
FailExcluded(c) == Return(c) /\ UNCHANGED <<state, failCount, openFor>>

(***************************************************************************)
(* The bucket.                                                             *)
(***************************************************************************)
Acquire(c) ==
  /\ pc[c] = "idle"
  /\ pc' = [pc EXCEPT ![c] = "waiting"]
  /\ queue' = Append(queue, c)
  /\ waited' = [waited EXCEPT ![c] = 0]
  /\ UNCHANGED <<asleep, tokens, accrued, debt, breakerVars>>

(* Mutant: _last_refill moves on before the time is counted.               *)
NoRefill == tokens

(* Mutant: the refill is not capped.                                       *)
RefilledOver == tokens + accrued

Refilled == Lesser(Capacity, tokens + accrued)

Holds(c) == queue # <<>> /\ Head(queue) = c

(* The lock's holder refills, and takes a token or sleeps until there is   *)
(* one.  With the token it goes on to the breaker without suspending.      *)
TakeToken(c) ==
  /\ Holds(c) /\ asleep = 0
  /\ Refilled >= Unit
  /\ tokens' = Refilled - Unit
  /\ accrued' = 0
  /\ debt' = debt + Unit
  /\ queue' = Tail(queue)
  /\ UNCHANGED <<asleep, waited>>
  /\ EnterBreaker(c)

Sleep(c) ==
  /\ Holds(c) /\ asleep = 0
  /\ Refilled < Unit
  /\ tokens' = Refilled
  /\ accrued' = 0
  /\ asleep' = (Unit - Refilled + Rate - 1) \div Rate
  /\ UNCHANGED <<pc, queue, waited, debt, breakerVars>>

(* Mutant: the caller gives up without letting go of the lock.             *)
LeaveHolding(c) ==
  \E i \in DOMAIN queue :
    /\ queue[i] = c
    /\ queue' = IF Holds(c) THEN queue ELSE RemoveAt(queue, i)

Leave(c) ==
  \E i \in DOMAIN queue : queue[i] = c /\ queue' = RemoveAt(queue, i)

(* RateLimitTimeoutError: asyncio.timeout cancels the wait for the lock or *)
(* the sleep.                                                              *)
TimeOut(c) ==
  /\ pc[c] = "waiting" /\ waited[c] = Timeout
  /\ pc' = [pc EXCEPT ![c] = "idle"]
  /\ Leave(c)
  /\ asleep' = IF Holds(c) THEN 0 ELSE asleep
  /\ UNCHANGED <<waited, tokens, accrued, debt, breakerVars>>

Tick ==
  /\ asleep' = Above0(asleep - 1)
  /\ waited' = [c \in Callers |-> Lesser(waited[c] + 1, Timeout)]
  /\ accrued' = Lesser(accrued + Rate, Capacity)
  /\ debt' = Above0(debt - Rate)
  /\ openFor' = Lesser(openFor + 1, ResetTicks)
  /\ UNCHANGED <<pc, queue, tokens, state, failCount, trial>>

CallerStep(c) ==
  \/ Acquire(c) \/ TakeToken(c) \/ Sleep(c) \/ TimeOut(c)
  \/ Succeed(c) \/ Fail(c) \/ FailExcluded(c)

Next == (\E c \in Callers : CallerStep(c)) \/ Tick

Spec == Init /\ [][Next]_vars

(* Time passes and the event loop runs a task that can go on.              *)
Fairness == WF_vars(Tick) /\ \A c \in Callers : WF_vars(TakeToken(c) \/ Sleep(c))

FairSpec == Spec /\ Fairness

-----------------------------------------------------------------------------
(***************************************************************************)
(* Correctness.                                                            *)
(***************************************************************************)

(* The channel never gets more calls than the burst plus the rate allow,   *)
(* over any stretch of time: a bucket of the same capacity that drains at  *)
(* the same rate and takes a token's worth per grant never overflows.      *)
RateBound == debt <= Capacity

(* A closed breaker has seen fewer than FailMax failures since the last    *)
(* success, also when calls overlap and end in any order.                  *)
TripsInTime == state = "closed" => failCount < FailMax

(* "no caller starves under sustained pressure", however many others time  *)
(* out in front of it.                                                     *)
NotStarved == \A c \in Callers : pc[c] = "waiting" ~> pc[c] # "waiting"

-----------------------------------------------------------------------------
(***************************************************************************)
(* Promised and not kept: TLC refutes the following (README, section       *)
(* "Where the code and its documentation disagree").                       *)
(***************************************************************************)

(* A tripped breaker keeps every call away from the channel for the whole  *)
(* cooldown.  True of one caller at a time only: a call that ends late can *)
(* start a cooldown while others have passed.                              *)
CoolsDown ==
  [][\A c \in Callers : pc[c] # "calling" /\ pc'[c] = "calling" => openFor >= ResetTicks]_vars

(* "HALF_OPEN - exactly one trial call is allowed through".                *)
OneTrial == \A c, d \in trial : c = d
=============================================================================
