----------------------------- MODULE Reconcile -----------------------------
(***************************************************************************)
(* The reconciliation job (services/core/app/sync/reconcile.py) next to    *)
(* the dispatcher: for every listed channel it reads the hub's stock and   *)
(* price, then what the channel shows, and pushes what differs.  It runs   *)
(* in a process of its own and takes no lock, so movements, overrides and  *)
(* pushes may fall between its steps.                                      *)
(***************************************************************************)
EXTENDS ChannelSync

CONSTANT NoChannel  \* "no channel is being compared"

ASSUME NoChannelAssumption == NoChannel \notin Channels

VARIABLES
  running,         \* a run is under way
  left,            \* channels it has still to compare
  at,              \* the channel it compares
  figures,         \* build_canonical_product's stock and price for it
  drift            \* the facets it has found to differ and has not pushed

runVars == <<running, left, at, figures, drift>>
allVars == <<vars, runVars>>

ReconcileTypeOK ==
  /\ TypeOK
  /\ running \in BOOLEAN
  /\ left \subseteq Channels
  /\ at \in Channels \cup {NoChannel}
  /\ figures \in Figures
  /\ drift \subseteq Facets
  /\ drift # {} => at # NoChannel
  /\ at # NoChannel => running /\ at \notin left

NoFigures == [stock |-> 0, price |-> 0]

ReconcileInit ==
  /\ Init
  /\ running = FALSE
  /\ left = {}
  /\ at = NoChannel
  /\ figures = NoFigures
  /\ drift = {}

StartRun ==
  /\ ~running
  /\ running' = TRUE
  /\ left' = Channels
  /\ UNCHANGED <<vars, at, figures, drift>>

Eligible(c) == listing[c].status = "active" /\ published = "yes"

NextChannel == at' = NoChannel /\ figures' = NoFigures /\ drift' = {}

ReadFigures(c) ==
  /\ running /\ at = NoChannel /\ c \in left
  /\ left' = left \ {c}
  /\ IF Eligible(c)
       THEN at' = c /\ figures' = FiguresFor([kind |-> "added"])
       ELSE UNCHANGED <<at, figures>>
  /\ UNCHANGED <<vars, running, drift>>

(* Mutant: only the stock is compared.                                     *)
StockDrift(c) == {f \in {"stock"} : shown[c] # NotListed /\ shown[c][f] # figures[f]}

Drifted(c) == {f \in Facets : shown[c] # NotListed /\ shown[c][f] # figures[f]}

FetchListing(c) ==
  /\ at = c /\ drift = {}
  /\ IF Drifted(c) = {} THEN NextChannel
                        ELSE drift' = Drifted(c) /\ UNCHANGED <<at, figures>>
  /\ UNCHANGED <<vars, running, left>>

(* _repair goes on to the price whatever became of the stock.              *)
Repaired(f) == IF drift = {f} THEN NextChannel
               ELSE drift' = drift \ {f} /\ UNCHANGED <<at, figures>>

InTurn(f) == f \in drift /\ (f = "price" => "stock" \notin drift)

(* _repair pushes the figure; its answer may be lost.                      *)
Repair(c, f) ==
  /\ at = c /\ InTurn(f)
  /\ shown' = [shown EXCEPT ![c][f] = figures[f]]
  /\ Repaired(f)
  /\ UNCHANGED <<hubVars, feedVars, listingVars, landed, missed, lapsed, running, left>>

RepairFails ==
  /\ \E f \in Facets : InTurn(f) /\ Repaired(f)
  /\ UNCHANGED <<vars, running, left>>

(* A listing that cannot be fetched is skipped.                            *)
FetchFails ==
  /\ at # NoChannel /\ drift = {}
  /\ NextChannel
  /\ UNCHANGED <<vars, running, left>>

(* The job's process dies.                                                 *)
RunDies ==
  /\ running
  /\ running' = FALSE
  /\ left' = {}
  /\ NextChannel
  /\ UNCHANGED vars

EndRun ==
  /\ running /\ at = NoChannel /\ left = {}
  /\ running' = FALSE
  /\ UNCHANGED <<vars, left, at, figures, drift>>

ReconcileStep ==
  \/ StartRun
  \/ \E c \in Channels : \/ ReadFigures(c)
                         \/ FetchListing(c)
                         \/ \E f \in Facets : Repair(c, f)
  \/ FetchFails
  \/ RepairFails
  \/ RunDies
  \/ EndRun

DispatcherGoesOn(A) == A /\ UNCHANGED runVars

ReconcileNext == DispatcherGoesOn(Next) \/ ReconcileStep

ReconcileSpec == ReconcileInit /\ [][ReconcileNext]_allVars

(* The consumer goes on while there are events; it does not choose what    *)
(* channels answer.  The cron starts run after run, and neither the job    *)
(* nor a channel it asks again and again fails for ever.                   *)
ReconcileFairness ==
  /\ WF_allVars(DispatcherGoesOn(Take))
  /\ WF_allVars(DispatcherGoesOn(\E c \in Channels : Push(c)))
  /\ WF_allVars(DispatcherGoesOn(EventDone))
  /\ WF_allVars(DispatcherGoesOn(Reappear))
  /\ WF_allVars(StartRun)
  /\ WF_allVars(EndRun)
  /\ \A c \in Channels : /\ SF_allVars(ReadFigures(c))
                         /\ SF_allVars(FetchListing(c))
                         /\ \A f \in Facets : SF_allVars(Repair(c, f))

FairReconcileSpec == ReconcileSpec /\ ReconcileFairness

-----------------------------------------------------------------------------
(***************************************************************************)
(* Correctness.                                                            *)
(***************************************************************************)

(* The safety net holds: once stock and prices are at rest, every listed   *)
(* channel ends up showing what it may sell at the price in force and      *)
(* keeps showing it, whatever pushes were swallowed, given up or lost, and *)
(* whatever price changed without an event.                                *)
Converges ==
  \A c \in Channels :
    <>[](Eligible(c) => shown[c] = [stock |-> Truth(c), price |-> EffectivePrice])

-----------------------------------------------------------------------------
(***************************************************************************)
(* Promised and not kept: TLC refutes the following (README, section       *)
(* "Where the code and its documentation disagree").                       *)
(***************************************************************************)

(* A repair pushes POS truth: it never takes a channel away from the right *)
(* figure.                                                                 *)
RepairKeepsTruth ==
  [][\A c \in Channels :
       Repair(c, "stock") /\ shown[c].stock = Truth(c) => shown'[c].stock = Truth(c)]_allVars

(* A published product gets listed on every active channel in the end, a   *)
(* refused first push included ("the reconciliation cron will catch up").  *)
EventuallyListed ==
  \A c \in Channels : <>[](published = "yes" => listing[c].status = "active")
=============================================================================
