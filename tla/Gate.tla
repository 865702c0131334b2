-------------------------------- MODULE Gate --------------------------------
(***************************************************************************)
(* The fail-closed dependency gate shared by every multi-unit verb         *)
(* (toven-runtime/src/gate.rs).  A dependency map `deps` gives each unit   *)
(* the units it depends on; the gate itself is a function from units to    *)
(* GateState.  The reverse walk of the source is a worklist loop; here its *)
(* result is defined as a least fixed point, and module GateWalk shows     *)
(* that the loop computes it.                                              *)
(***************************************************************************)

GateState == {"Pending", "Satisfied", "Failed", "Blocked"}

NewGate(deps) == [u \in DOMAIN deps |-> "Pending"]

\* The units that name u among their dependencies (the `reverse` map).
Dependents(deps, u) == {v \in DOMAIN deps : u \in deps[v]}

\* S holds the dependents of u, and those of its own members, that lie in `within`.
ClosedFrom(deps, u, within, S) ==
  \A w \in S \cup {u} : Dependents(deps, w) \cap within \subseteq S

\* The units of `within` reached from u along reverse edges inside `within`.
ReachedWithin(deps, u, within) ==
  {v \in within : \A S \in SUBSET within : ClosedFrom(deps, u, within, S) => v \in S}

TransitiveDependents(deps, u) == ReachedWithin(deps, u, DOMAIN deps)

PendingUnits(gate) == {v \in DOMAIN gate : gate[v] = "Pending"}

Satisfy(gate, u) == [gate EXCEPT ![u] = "Satisfied"]

\* Mutant: units blocked earlier are returned again.
BlockedByAll(deps, gate, u) == TransitiveDependents(deps, u)

\* u is marked Failed before the walk starts, so the walk never re-enters it.
BlockedBy(deps, gate, u) == ReachedWithin(deps, u, PendingUnits(gate) \ {u})

\* Mutant: a failure blocks nothing.
FailAlone(deps, gate, u) == [gate EXCEPT ![u] = "Failed"]

FailAndBlock(deps, gate, u) ==
  [v \in DOMAIN gate |-> IF v = u THEN "Failed"
                         ELSE IF v \in BlockedBy(deps, gate, u) THEN "Blocked"
                         ELSE gate[v]]
=============================================================================
