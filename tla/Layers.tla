------------------------------- MODULE Layers -------------------------------
(***************************************************************************)
(* What the scheduler's graph walks compute, as functions of the graph: a  *)
(* graph is a function from a node to the nodes it depends on directly.    *)
(* topo.rs (closure, waves) is mapped here; the Tarjan walk of grouping.rs *)
(* is UnitWaves, checked against these definitions.                        *)
(***************************************************************************)
EXTENDS Naturals, FiniteSets

LOCAL INSTANCE FiniteSetsExt

\* Everything reachable from the nodes of from, themselves included.
Reach(deps, from) ==
  LET reach[known \in SUBSET DOMAIN deps] ==
        LET more == UNION {deps[u] : u \in known}
        IN  IF more \subseteq known THEN known ELSE reach[known \cup more]
  IN  reach[from]

\* The graph turned round: from a node to those that depend on it.
Dependents(deps) == [u \in DOMAIN deps |-> {v \in DOMAIN deps : u \in deps[v]}]

\* The nodes on a common cycle with u, and u.
Component(deps, u) == {v \in Reach(deps, {u}) : u \in Reach(deps, {v})}

\* The dependencies that are not cyclic.
Condensed(deps) ==
  LET component == [u \in DOMAIN deps |-> Component(deps, u)]
  IN  [u \in DOMAIN deps |-> {v \in deps[u] : v \notin component[u]}]

\* One level above the latest dependency of anything in the component: the
\* wave a node can first run in.
Levels(deps) ==
  LET level[u \in DOMAIN deps] ==
        LET peers == Component(deps, u)
            below == (UNION {deps[v] : v \in peers}) \ peers
        IN  IF below = {} THEN 0 ELSE Max({level[v] : v \in below}) + 1
  IN  level

\* The same for a graph without a cycle, where no node may come before the
\* level it has already.
LevelsAbove(floor, deps) ==
  LET level[u \in DOMAIN deps] == Max({floor[u]} \cup {level[v] + 1 : v \in deps[u]})
  IN  level
=============================================================================
