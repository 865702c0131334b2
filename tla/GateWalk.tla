------------------------------- MODULE GateWalk -------------------------------
(***************************************************************************)
(* Gate::fail_and_block_dependents as the worklist loop it is: pop an id,  *)
(* skip it if seen, block it and push its dependents if it is Pending.     *)
(* Module Gate defines the result as a least fixed point; here the loop    *)
(* runs on every graph, cyclic ones included, interleaved with the calls   *)
(* an executor makes, and ends with that result.                           *)
(***************************************************************************)
EXTENDS Gate

CONSTANTS
  GateIds,
  DependencyMaps   \* the dependency maps the gate may be built from

ASSUME DependencyMapsAssumption == \A g \in DependencyMaps : DOMAIN g = GateIds

VARIABLES
  graph,     \* read through its reverse map
  states,    \* Gate::states
  origin,    \* the unit being failed; empty between calls
  earlier,   \* the states when the call started
  worklist,
  visited,
  returned   \* the ids the call returns

walkVars == <<graph, states, origin, earlier, worklist, visited, returned>>

WalkInit ==
  /\ graph \in DependencyMaps
  /\ states = NewGate(graph) /\ earlier = states
  /\ origin = {} /\ worklist = {} /\ visited = {} /\ returned = {}

\* Executors satisfy or fail a unit that has not settled.
CallSatisfy(u) ==
  /\ origin = {} /\ states[u] = "Pending"
  /\ states' = Satisfy(states, u)
  /\ UNCHANGED <<graph, origin, earlier, worklist, visited, returned>>

CallFail(u) ==
  /\ origin = {} /\ states[u] = "Pending"
  /\ origin' = {u} /\ earlier' = states
  /\ states' = [states EXCEPT ![u] = "Failed"]
  /\ worklist' = Dependents(graph, u)
  /\ visited' = {} /\ returned' = {}
  /\ UNCHANGED graph

VisitSeen(v) ==
  /\ v \in worklist /\ v \in visited
  /\ worklist' = worklist \ {v}
  /\ UNCHANGED <<graph, states, origin, earlier, visited, returned>>

\* Mutant: the walk goes on past units that are settled already.
VisitSettledGoesOn(v) ==
  /\ v \in worklist /\ v \notin visited /\ states[v] # "Pending"
  /\ worklist' = (worklist \ {v}) \cup Dependents(graph, v) /\ visited' = visited \cup {v}
  /\ UNCHANGED <<graph, states, origin, earlier, returned>>

VisitSettled(v) ==
  /\ v \in worklist /\ v \notin visited /\ states[v] # "Pending"
  /\ worklist' = worklist \ {v} /\ visited' = visited \cup {v}
  /\ UNCHANGED <<graph, states, origin, earlier, returned>>

\* Mutant: only direct dependents are blocked.
VisitPendingShallow(v) ==
  /\ v \in worklist /\ v \notin visited /\ states[v] = "Pending"
  /\ worklist' = worklist \ {v}
  /\ visited' = visited \cup {v}
  /\ states' = [states EXCEPT ![v] = "Blocked"]
  /\ returned' = returned \cup {v}
  /\ UNCHANGED <<graph, origin, earlier>>

VisitPending(v) ==
  /\ v \in worklist /\ v \notin visited /\ states[v] = "Pending"
  /\ worklist' = (worklist \ {v}) \cup Dependents(graph, v)
  /\ visited' = visited \cup {v}
  /\ states' = [states EXCEPT ![v] = "Blocked"]
  /\ returned' = returned \cup {v}
  /\ UNCHANGED <<graph, origin, earlier>>

Return ==
  /\ origin # {} /\ worklist = {}
  /\ origin' = {}
  /\ UNCHANGED <<graph, states, earlier, worklist, visited, returned>>

WalkNext ==
  \/ Return
  \/ \E u \in GateIds : \/ CallSatisfy(u) \/ CallFail(u)
                        \/ VisitSeen(u) \/ VisitSettled(u) \/ VisitPending(u)

WalkSpec == WalkInit /\ [][WalkNext]_walkVars
-----------------------------------------------------------------------------
WalkTypeOK ==
  /\ graph \in DependencyMaps
  /\ states \in [GateIds -> GateState] /\ earlier \in [GateIds -> GateState]
  /\ origin \subseteq GateIds /\ worklist \subseteq GateIds
  /\ visited \subseteq GateIds /\ returned \subseteq GateIds

\* When the loop ends, the states and the returned ids are those of the least
\* fixed point, whatever order the worklist was popped in: every Pending unit
\* downstream through Pending units is blocked and returned, nothing else.
WalkIsFixpoint ==
  \A u \in origin : worklist = {} =>
    /\ returned = BlockedBy(graph, earlier, u)
    /\ states = FailAndBlock(graph, earlier, u)

FailedOrBlocked(g) == {v \in GateIds : g[v] \in {"Failed", "Blocked"}}
ClosedOff(g) ==
  /\ \A v \in GateIds : g[v] = "Pending" => graph[v] \cap FailedOrBlocked(g) = {}
  /\ \A v \in GateIds : g[v] = "Blocked" => graph[v] \cap FailedOrBlocked(g) # {}

\* Between calls the gate is fail-closed: nothing downstream of a failed or
\* blocked unit is still Pending, and nothing is blocked without such a cause.
FailClosedGate == origin = {} => ClosedOff(states)

\* A call starts from such a gate.
CallInv == ClosedOff(IF origin = {} THEN states ELSE earlier)

\* The loop invariant of a walk from u: what was blocked so far is downstream
\* of u, and what is downstream is blocked or still reachable from the worklist.
LoopReach(u) == PendingUnits(earlier) \ {u}
LoopInv(u) ==
  /\ origin = {u} /\ earlier[u] = "Pending"
  /\ states = [v \in GateIds |-> IF v = u THEN "Failed"
                                 ELSE IF v \in returned THEN "Blocked" ELSE earlier[v]]
  /\ returned \subseteq LoopReach(u) /\ visited \cap LoopReach(u) \subseteq returned
  /\ \A w \in returned \cup {u} :
       Dependents(graph, w) \cap LoopReach(u) \subseteq returned \cup worklist
  /\ \A S \in SUBSET LoopReach(u) : ClosedFrom(graph, u, LoopReach(u), S) =>
       returned \cup (worklist \cap LoopReach(u)) \subseteq S
LoopHolds == /\ origin = {} => worklist = {}
             /\ \A u \in origin : LoopInv(u)
=============================================================================
