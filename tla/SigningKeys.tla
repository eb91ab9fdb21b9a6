---------------------------- MODULE SigningKeys ----------------------------
(***************************************************************************)
(* How a request finds the key its token is signed with                    *)
(* (libs/auth/jwks.py, libs/auth/verifier.py): the realm's key set, cached *)
(* in Redis for all processes, and fetched again when a kid is missing.    *)
(* Requests share the cache and nothing orders them: an answer of the      *)
(* realm may be stored after a younger one.                                *)
(***************************************************************************)
EXTENDS Integers

CONSTANTS
  Kids,
  Requests,
  TTL,             \* AuthConfig.jwks_cache_ttl_seconds, in ticks
  Delay            \* bound: ticks between an answer of the realm and its SET

ASSUME TTLAssumption == TTL \in Nat \ {0}
ASSUME DelayAssumption == Delay \in Nat

Horizon == TTL + Delay + 1

VARIABLES
  stage,           \* of each key of the realm
  since,           \* ticks since its withdrawal, counted up to Horizon
  cached,          \* the set under auth:jwks:<issuer>
  age,             \* ticks since its SET; at TTL Redis has dropped it
  at,              \* what each request does next
  refresh,         \* whether its load goes past the cache
  kid,             \* the kid its token names
  answer, waited,  \* what the realm told it, and how many ticks ago
  outcome,         \* of the verification
  steady           \* history: the kid has been published since it began

realmVars == <<stage, since>>
cacheVars == <<cached, age>>
answerVars == <<answer, waited>>
requestVars == <<at, refresh, kid, outcome, steady>>
vars == <<realmVars, cacheVars, answerVars, requestVars>>

Published == {k \in Kids : stage[k] = "published"}

TypeOK ==
  /\ stage \in [Kids -> {"new", "published", "withdrawn"}]
  /\ since \in [Kids -> 0..Horizon]
  /\ cached \subseteq Kids /\ age \in 0..TTL
  /\ at \in [Requests -> {"idle", "load", "fetch", "store", "decode"}]
  /\ refresh \in [Requests -> BOOLEAN]
  /\ kid \in [Requests -> Kids]
  /\ answer \in [Requests -> SUBSET Kids]
  /\ waited \in [Requests -> 0..Delay]
  /\ outcome \in [Requests -> {"none", "accepted", "rejected", "unknown", "failed"}]
  /\ steady \in [Requests -> BOOLEAN]

(* Redis is empty, as after its first start.                               *)
Init ==
  /\ stage \in [Kids -> {"new", "published"}]
  /\ since = [k \in Kids |-> 0]
  /\ cached = {} /\ age = TTL
  /\ at = [r \in Requests |-> "idle"]
  /\ refresh = [r \in Requests |-> FALSE]
  /\ kid \in [Requests -> Kids]
  /\ answer = [r \in Requests |-> {}]
  /\ waited = [r \in Requests |-> 0]
  /\ outcome = [r \in Requests |-> "none"]
  /\ steady = [r \in Requests |-> FALSE]

(***************************************************************************)
(* The realm and the clock.                                                *)
(***************************************************************************)
Rotate(k) ==
  /\ stage[k] = "new"
  /\ stage' = [stage EXCEPT ![k] = "published"]
  /\ UNCHANGED <<since, cacheVars, answerVars, requestVars>>

Withdraw(k) ==
  /\ stage[k] = "published"
  /\ stage' = [stage EXCEPT ![k] = "withdrawn"]
  /\ steady' = [r \in Requests |-> steady[r] /\ (at[r] = "idle" \/ kid[r] # k)]
  /\ UNCHANGED <<since, cacheVars, answerVars, at, refresh, kid, outcome>>

(* Mutant: SET without ex.                                                 *)
TickForEver ==
  /\ \A r \in Requests : at[r] = "store" => waited[r] < Delay
  /\ since' = [k \in Kids |->
                 IF stage[k] = "withdrawn" /\ since[k] < Horizon THEN since[k] + 1
                                                                 ELSE since[k]]
  /\ waited' = [r \in Requests |-> IF at[r] = "store" THEN waited[r] + 1 ELSE waited[r]]
  /\ UNCHANGED <<stage, cacheVars, answer, requestVars>>

(* Redis counts the age of an entry, and drops it at TTL.  Bound: no answer *)
(* is held back longer than Delay.                                         *)
Tick ==
  /\ \A r \in Requests : at[r] = "store" => waited[r] < Delay
  /\ age' = IF age < TTL THEN age + 1 ELSE age
  /\ since' = [k \in Kids |->
                 IF stage[k] = "withdrawn" /\ since[k] < Horizon THEN since[k] + 1
                                                                 ELSE since[k]]
  /\ waited' = [r \in Requests |-> IF at[r] = "store" THEN waited[r] + 1 ELSE waited[r]]
  /\ UNCHANGED <<stage, cached, answer, requestVars>>

(***************************************************************************)
(* TokenVerifier.verify and JwksClient.                                    *)
(***************************************************************************)
(* A token with a kid and a supported algorithm; any other is refused      *)
(* before a key is looked for.                                             *)
Verify(r) ==
  /\ at[r] = "idle"
  /\ \E k \in Kids :
       /\ kid' = [kid EXCEPT ![r] = k]
       /\ steady' = [steady EXCEPT ![r] = k \in Published]
  /\ at' = [at EXCEPT ![r] = "load"]
  /\ refresh' = [refresh EXCEPT ![r] = FALSE]
  /\ outcome' = [outcome EXCEPT ![r] = "none"]
  /\ UNCHANGED <<realmVars, cacheVars, answerVars>>

Goto(r, next) ==
  /\ at' = [at EXCEPT ![r] = next]
  /\ UNCHANGED <<kid, outcome, steady>>

End(r, verdict) ==
  /\ at' = [at EXCEPT ![r] = "idle"]
  /\ outcome' = [outcome EXCEPT ![r] = verdict]
  /\ UNCHANGED <<refresh, kid, steady>>

(* Mutant: a missing kid is final.                                         *)
LookUpOnce(r, keys) ==
  \/ kid[r] \in keys /\ Goto(r, "decode") /\ UNCHANGED refresh
  \/ kid[r] \notin keys /\ End(r, "unknown")

(* get_key on the set a load returned: present; missing, which is worth    *)
(* one load past the cache; or missing still.                              *)
LookUp(r, keys) ==
  \/ /\ kid[r] \in keys
     /\ Goto(r, "decode")
     /\ UNCHANGED refresh
  \/ /\ kid[r] \notin keys /\ ~refresh[r]
     /\ Goto(r, "fetch")
     /\ refresh' = [refresh EXCEPT ![r] = TRUE]
  \/ /\ kid[r] \notin keys /\ refresh[r]
     /\ End(r, "unknown")

(* The answer is a local variable of its load.                             *)
Forget(r) ==
  /\ answer' = [answer EXCEPT ![r] = {}]
  /\ waited' = [waited EXCEPT ![r] = 0]

LoadCached(r) ==
  /\ at[r] = "load"
  /\ IF age < TTL
       THEN LookUp(r, cached)
       ELSE Goto(r, "fetch") /\ UNCHANGED refresh
  /\ UNCHANGED <<realmVars, cacheVars, answerVars>>

(* The realm answers; the answer is under way from here on.                *)
Fetch(r) ==
  /\ at[r] = "fetch"
  /\ answer' = [answer EXCEPT ![r] = Published]
  /\ waited' = [waited EXCEPT ![r] = 0]
  /\ Goto(r, "store")
  /\ UNCHANGED <<refresh, realmVars, cacheVars>>

(* SET with ex: the entry lives TTL from here, whatever it replaces; the   *)
(* lookup is in the answer, not in what the cache holds by now.            *)
Store(r) ==
  /\ at[r] = "store"
  /\ cached' = answer[r] /\ age' = 0
  /\ LookUp(r, answer[r])
  /\ Forget(r)
  /\ UNCHANGED realmVars

(* jwt.decode and _to_principal: signature, issuer, audience, times and    *)
(* subject hold, or do not.                                                *)
Decode(r) ==
  /\ at[r] = "decode"
  /\ \E verdict \in {"accepted", "rejected"} : End(r, verdict)
  /\ UNCHANGED <<realmVars, cacheVars, answerVars>>

(* Redis or the realm cannot be reached: not an AuthError.                 *)
Unavailable(r) ==
  /\ at[r] \in {"load", "fetch", "store"}
  /\ End(r, "failed")
  /\ Forget(r)
  /\ UNCHANGED <<realmVars, cacheVars>>

(* Redis evicts the entry or restarts.                                     *)
Evict ==
  /\ age < TTL
  /\ age' = TTL
  /\ UNCHANGED <<cached, realmVars, answerVars, requestVars>>

Request(r) ==
  Verify(r) \/ LoadCached(r) \/ Fetch(r) \/ Store(r) \/ Decode(r) \/ Unavailable(r)

Next ==
  \/ \E k \in Kids : Rotate(k) \/ Withdraw(k)
  \/ Tick \/ Evict
  \/ \E r \in Requests : Request(r)

Spec == Init /\ [][Next]_vars

-----------------------------------------------------------------------------
(***************************************************************************)
(* Correctness.                                                            *)
(***************************************************************************)

(* "rotation heals without a restart": a key the realm has published since *)
(* before the request began is never refused as unknown, whatever the      *)
(* cache holds and whoever overwrites it meanwhile.                        *)
PublishedKeyIsKnown == \A r \in Requests : outcome[r] = "unknown" => ~steady[r]

(* A withdrawn key dies: tokens it signed are accepted for the time an     *)
(* entry lives after its SET, plus the time the answer took to get there,  *)
(* however often the entry is replaced.                                    *)
WithdrawnKeyDies ==
  [][\A r \in Requests :
       at[r] # "decode" /\ at'[r] = "decode" => since[kid[r]] < TTL + Delay]_vars
=============================================================================
