------------------------------ MODULE UnitWaves ------------------------------
(***************************************************************************)
(* level_units_into_waves (schedule/grouping.rs): the units of one task    *)
(* and the units each gates on become waves.  Tarjan's walk with its own   *)
(* work stack, the check that a cycle may be co-scheduled, the single      *)
(* ascending pass that levels the components and the edges it strips.      *)
(* Any graph may arrive: batching condenses an acyclic module graph into a *)
(* cyclic unit graph.                                                      *)
(***************************************************************************)
EXTENDS Naturals, Sequences, FiniteSets, Layers

LOCAL INSTANCE FiniteSetsExt
Seqs == INSTANCE SequencesExt

CONSTANT Units        \* the units, numbered in group order

ASSUME UnitsAssumption == IsFiniteSet(Units) /\ Units \subseteq Nat

VARIABLES
  gates,       \* unit -> the units its plan depends on
  phase,          \* search, check, level, done, error
  work,        \* the frames of the walk: [node, todo]
  stack,       \* scc_stack
  index, lowlink, component,   \* unit -> Nat, Unset before it has one
  nextIndex, nextComponent,
  level        \* component -> its wave, for those already levelled

search == <<work, stack, index, lowlink, component, nextIndex, nextComponent>>
walkVars == <<gates, phase, search, level>>

Unset == Cardinality(Units) + 1

\* A unit never gates on itself.
Graphs == {g \in [Units -> SUBSET Units] : \A u \in Units : u \notin g[u]}

WalkInit ==
  /\ gates \in Graphs
  /\ phase = "search" /\ work = <<>> /\ stack = <<>>
  /\ index = [u \in Units |-> Unset]
  /\ lowlink = [u \in Units |-> 0]
  /\ component = [u \in Units |-> Unset]
  /\ nextIndex = 0 /\ nextComponent = 0 /\ level = <<>>
-----------------------------------------------------------------------------
(* strongly_connected_components *)

\* The first round of a new frame.
Enter(node, frames) ==
  /\ index' = [index EXCEPT ![node] = nextIndex]
  /\ lowlink' = [lowlink EXCEPT ![node] = nextIndex]
  /\ nextIndex' = nextIndex + 1
  /\ stack' = Append(stack, node)
  /\ work' = Append(frames, [node |-> node, todo |-> gates[node]])

Start ==
  /\ phase = "search" /\ work = <<>>
  /\ \E u \in Units : index[u] = Unset
  /\ Enter(Min({u \in Units : index[u] = Unset}), <<>>)
  /\ UNCHANGED <<gates, phase, component, nextComponent, level>>

Top == Seqs!Last(work)
AllButTop == Seqs!Front(work)
Lower(low, node, bound) == [low EXCEPT ![node] = Min({@, bound})]

\* The next child, in whatever order the dependencies were first seen.
Explore(child) ==
  /\ phase = "search" /\ work # <<>> /\ child \in Top.todo
  /\ LET frames == Append(AllButTop, [Top EXCEPT !.todo = @ \ {child}])
     IN  IF index[child] = Unset THEN Enter(child, frames)
         ELSE /\ work' = frames
              /\ lowlink' = IF child \in Seqs!ToSet(stack)
                            THEN Lower(lowlink, Top.node, index[child]) ELSE lowlink
              /\ UNCHANGED <<index, nextIndex, stack>>
  /\ UNCHANGED <<gates, phase, component, nextComponent, level>>

\* The members above a root on the stack, and the root, are a component.
PopComponent(node) ==
  LET root == Seqs!SelectInSeq(stack, LAMBDA v : v = node)
  IN  /\ component' = [u \in Units |->
           IF u \in Seqs!ToSet(SubSeq(stack, root, Len(stack))) THEN nextComponent
           ELSE component[u]]
      /\ stack' = SubSeq(stack, 1, root - 1)

\* Mutant: a finished node is not reported to its parent.
FinishAlone ==
  /\ phase = "search" /\ work # <<>> /\ Top.todo = {}
  /\ IF lowlink[Top.node] = index[Top.node]
     THEN PopComponent(Top.node) /\ nextComponent' = nextComponent + 1
     ELSE UNCHANGED <<component, stack, nextComponent>>
  /\ work' = AllButTop
  /\ UNCHANGED <<gates, phase, index, lowlink, nextIndex, level>>

Finish ==
  /\ phase = "search" /\ work # <<>> /\ Top.todo = {}
  /\ IF lowlink[Top.node] = index[Top.node]
     THEN PopComponent(Top.node) /\ nextComponent' = nextComponent + 1
     ELSE UNCHANGED <<component, stack, nextComponent>>
  /\ work' = AllButTop
  /\ lowlink' = IF AllButTop = <<>> THEN lowlink
                ELSE Lower(lowlink, Seqs!Last(AllButTop).node, lowlink[Top.node])
  /\ UNCHANGED <<gates, phase, index, nextIndex, level>>

Searched ==
  /\ phase = "search" /\ work = <<>> /\ \A u \in Units : index[u] # Unset
  /\ phase' = "check"
  /\ UNCHANGED <<gates, search, level>>
-----------------------------------------------------------------------------
(* ensure_cycles_co_schedulable, level_components, strip_intra_component_edges *)

Members(c) == {u \in Units : component[u] = c}

\* Mutant: a unit without the capability is refused in any graph.
CheckUnits(closed) ==
  /\ phase = "check"
  /\ phase' = IF Units \subseteq closed THEN "level" ELSE "error"
  /\ UNCHANGED <<gates, search, level>>

\* closed: the whole-workspace units whose tool resolves its own closure.
CheckCycles(closed) ==
  /\ phase = "check"
  /\ phase' = IF \A u \in Units : Cardinality(Members(component[u])) > 1 => u \in closed
           THEN "level" ELSE "error"
  /\ UNCHANGED <<gates, search, level>>

LevelOf(c) == IF c < Len(level) THEN level[c + 1] ELSE 0

\* The next component: its dependencies have lower ids, and their level.
LevelComponent ==
  /\ phase = "level" /\ Len(level) < nextComponent
  /\ LET c == Len(level)
         below == {component[v] : v \in UNION {gates[u] : u \in Members(c)}} \ {c}
     IN  level' = Append(level, IF below = {} THEN 0 ELSE Max({LevelOf(d) : d \in below}) + 1)
  /\ UNCHANGED <<gates, phase, search>>

\* Mutant: peers of a co-scheduled cycle go on gating on each other.
StripNothing ==
  /\ phase = "level" /\ Len(level) = nextComponent
  /\ phase' = "done"
  /\ UNCHANGED <<gates, search, level>>

StripIntraComponent ==
  /\ phase = "level" /\ Len(level) = nextComponent
  /\ phase' = "done"
  /\ gates' = [u \in Units |-> {v \in gates[u] : component[v] # component[u]}]
  /\ UNCHANGED <<search, level>>
-----------------------------------------------------------------------------
WalkNext ==
  \/ Start
  \/ \E child \in Units : Explore(child)
  \/ Finish
  \/ Searched
  \/ \E closed \in SUBSET Units : CheckCycles(closed)
  \/ LevelComponent
  \/ StripIntraComponent

\* One thread computes it without waiting for anything.
WalkSpec == WalkInit /\ [][WalkNext]_walkVars /\ WF_walkVars(WalkNext)

Wave(u) == LevelOf(component[u])
Cyclic == {u \in Units : Cardinality(Component(gates, u)) > 1}
-----------------------------------------------------------------------------
\* When the walk is over, two units have one component id exactly when each
\* depends on the other, however deep and in whichever order the edges came,
\* and a unit that gates on another component has a higher id than it: the
\* pass that levels in ascending order relies on both.
ComponentsAreCycles ==
  phase = "check" => \A u, v \in Units :
    /\ component[u] = component[v] <=> v \in Component(gates, u)
    /\ v \in gates[u] => component[v] <= component[u]

\* No step of the levelling loses the waves: every unit sits exactly where the
\* longest chain of gates below its cycle puts it, and what is left of its
\* gates names units of strictly earlier waves only.
WavesAreLevels ==
  [][phase' = "done" /\ phase # "done" =>
       /\ \A u \in Units : Wave(u) = Levels(gates)[u]
       /\ gates' = Condensed(gates)]_walkVars

\* The levelling ends, with waves or with the error it owes to a cycle.
EndsWithWaves ==
  <>(phase = "done" \/ (phase = "error" /\ Cyclic # {}))
=============================================================================
