----------------------------- MODULE UnitSchedule -----------------------------
(***************************************************************************)
(* What both executors promise (toven-engine's APPLY walk and              *)
(* toven-runtime's lifecycle engine): units of a dependency graph run      *)
(* concurrently, a unit runs only after everything it depends on           *)
(* succeeded, a failure blocks every unit that depends on the failed one   *)
(* and nothing else, and no unit changes its outcome.  How waves, pools,   *)
(* groups or cancellation bring that about is left to the implementations. *)
(***************************************************************************)
EXTENDS Gate

CONSTANT Unit
VARIABLES
  deps,     \* the dependency map, fixed for a run
  phase     \* how far each unit is

vars == <<deps, phase>>

Phase == {"waiting", "active", "succeeded", "failed", "blocked", "stopped"}

TypeOK == DOMAIN deps = Unit /\ phase \in [Unit -> Phase]

Init == DOMAIN deps = Unit /\ phase = [u \in Unit |-> "waiting"]

Succeeded == {u \in Unit : phase[u] = "succeeded"}
Ready(u) == phase[u] = "waiting" /\ deps[u] \subseteq Succeeded

Start(u) ==
  /\ Ready(u)
  /\ phase' = [phase EXCEPT ![u] = "active"]
  /\ UNCHANGED deps

\* A unit is done: it ran, or an earlier result stands in for it.
Succeed(u) ==
  /\ phase[u] = "active" \/ Ready(u)
  /\ phase' = [phase EXCEPT ![u] = "succeeded"]
  /\ UNCHANGED deps

\* Everything downstream of a failure is blocked at once; none of it has started.
Fail(u) ==
  /\ phase[u] = "active"
  /\ \A v \in TransitiveDependents(deps, u) : phase[v] \in {"waiting", "blocked"}
  /\ phase' = [v \in Unit |-> IF v = u THEN "failed"
                              ELSE IF v \in TransitiveDependents(deps, u) THEN "blocked"
                              ELSE phase[v]]
  /\ UNCHANGED deps

\* A cancelled run gives up on every unit without an outcome.
StopAll ==
  /\ phase' = [u \in Unit |-> IF phase[u] \in {"waiting", "active"} THEN "stopped"
                              ELSE phase[u]]
  /\ UNCHANGED deps

Next == StopAll \/ \E u \in Unit : Start(u) \/ Succeed(u) \/ Fail(u)

Spec == Init /\ [][Next]_vars
=============================================================================
