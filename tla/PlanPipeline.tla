---------------------------- MODULE PlanPipeline ----------------------------
(***************************************************************************)
(* PLAN from the discovered federation to waves of units (plan/pipeline.rs *)
(* plan_intents): the modules each task is planned on, the prerequisite    *)
(* tasks their `depends_on` pulls in, the units each task collapses into,  *)
(* the merged waves and the edges that link the tasks.  Every request is   *)
(* planned task by task, phase by phase, and any phase may give up.        *)
(*                                                                         *)
(* Module, task and unit names are values; a unit id is the record of what *)
(* it is made from.  The order inside a wave, argv, toolchains and events  *)
(* are left out; cache verdicts are in WatchSession.                       *)
(***************************************************************************)
EXTENDS Naturals, Sequences, FiniteSets, Layers

LOCAL INSTANCE FiniteSetsExt

CONSTANTS
  Modules, Tasks,
  TestTasks,      \* the tasks whose kind is Test
  Workspaces,
  Paths,          \* the paths that may change
  None,
  Families        \* the projects and requests to plan, in sets

\* A task on a module: whether the module is listed and has the capabilities,
\* and the task as the module's group overrides leave it.
EffectiveTasks == [
  eligible : BOOLEAN,
  fanOut   : {"module", "batch", "workspace"},
  closure  : BOOLEAN,                 \* workspace_closure
  ordered  : BOOLEAN,                 \* leaf-to-top
  needs    : SUBSET [task : Tasks, scope : {"module", "dependencies"}]]

Kinds == {"normal", "dev", "overlay"}

ASSUME PlanAssumption ==
  /\ IsFiniteSet(Modules) /\ IsFiniteSet(Tasks) /\ TestTasks \subseteq Tasks
  /\ None \notin Workspaces /\ None \notin EffectiveTasks
  /\ \A family \in Families : \A i \in family :
       /\ i.edges \subseteq [from : Modules, to : Modules, kind : Kinds]
       /\ i.workspace \in [Modules -> Workspaces]
       /\ DOMAIN i.override = Modules
       /\ \A t \in Tasks, m \in Modules : i.task[t][m] \in EffectiveTasks \/ i.task[t][m] = None
       /\ i.requests \in Seq(Tasks) /\ i.requests # <<>>
       /\ \A j, k \in DOMAIN i.requests : i.requests[j] = i.requests[k] => j = k
       /\ i.by \in {"all", "explicit", "changed"}
       /\ i.targets \subseteq Modules /\ i.named \subseteq i.targets
       /\ i.dependencies \in BOOLEAN /\ i.dependents \in BOOLEAN
       /\ i.changes \subseteq Paths
       /\ i.roots \in [Paths -> SUBSET Modules]
       /\ i.depth \in [Modules -> Nat]
       /\ i.global \subseteq Paths
       /\ \A p \in Paths : i.blast[p] \in Workspaces \/ i.blast[p] = None
       /\ i.external \subseteq Modules

VARIABLES
  input,      \* the federation, its configuration and the request
  pc,         \* affected, expand, schedule, link, done, error
  fault,      \* why it gave up
  requests,   \* the tasks to plan
  actives,    \* per request: [modules, named]
  needs,      \* node -> its direct prerequisite nodes
  turn,       \* the request the phase is at
  units,      \* unit id, a record of task, base and layer -> [members, deps, wave]
  skipped     \* <<task, module>> left out as not eligible

vars == <<input, pc, fault, requests, actives, needs, turn, units, skipped>>

Nodes == Tasks \X Modules
NoNeeds == [n \in Nodes |-> {}]

Init ==
  /\ \E family \in Families : input \in family
  /\ pc = "affected" /\ fault = "none"
  /\ requests = input.requests /\ actives = <<>> /\ turn = 1
  /\ needs = NoNeeds /\ units = <<>> /\ skipped = {}

Fail(reason) ==
  /\ pc' = "error" /\ fault' = reason
  /\ UNCHANGED <<input, requests, actives, needs, turn, units, skipped>>

Effective(t, m) == input.task[t][m]
Defined(t) == {m \in Modules : Effective(t, m) # None}
-----------------------------------------------------------------------------
(* Affected: the modules a task is planned on. *)

\* ownership.rs: the modules at the deepest root that contains the path.
Owners(p) == {m \in input.roots[p] : \A o \in input.roots[p] : input.depth[o] <= input.depth[m]}

\* A repo-wide input, or a path that is nobody's.
Everything(p) == p \in input.global \/ (input.blast[p] = None /\ input.roots[p] = {})

\* Mutant: the release's policy, which seeds nothing for a shared input.
SeedsFailClosed(p) ==
  IF Everything(p) \/ input.blast[p] # None THEN {} ELSE Owners(p)

\* owning_module and changed_seeds with FailOpen, of a record with one path:
\* git reports a rename as a deletion and an addition.
Seeds(p) ==
  IF Everything(p) THEN Modules
  ELSE IF input.blast[p] # None THEN {m \in Modules : input.workspace[m] = input.blast[p]}
  ELSE Owners(p)

\* dependents_filter, dependencies_filter.
Follows(t, kind) == kind \in {"normal", "overlay"} \/ (kind = "dev" /\ t \in TestTasks)
Forward(t) ==
  [m \in Modules |-> {e.to : e \in {x \in input.edges : x.from = m /\ Follows(t, x.kind)}}]

\* active_modules.
Active(t) ==
  CASE input.by = "all" -> Modules
    [] input.by = "explicit" ->
         input.targets
           \cup (IF input.dependencies THEN Reach(Forward(t), input.targets) ELSE {})
           \cup (IF input.dependents THEN Reach(Dependents(Forward(t)), input.targets) ELSE {})
    [] input.by = "changed" ->
         Reach(Dependents(Forward(t)), (UNION {Seeds(p) : p \in input.changes}) \cup input.external)

Strict == Len(input.requests) = 1

\* active_modules and restrict_to_task_defining for the next request.
AffectTask ==
  /\ pc = "affected" /\ turn <= Len(requests)
  /\ LET t == requests[turn]
         explicit == Strict /\ input.by = "explicit"
     IN  IF ~explicit /\ Active(t) # {} /\ Defined(t) = {}
         THEN Fail("unknown_task")
         ELSE /\ actives' = Append(actives,
                   [modules |-> IF explicit THEN Active(t) ELSE Active(t) \cap Defined(t),
                    named   |-> IF explicit THEN input.named ELSE {}])
              /\ turn' = turn + 1
              /\ UNCHANGED <<input, pc, fault, requests, needs, units, skipped>>

AffectedDone ==
  /\ pc = "affected" /\ turn > Len(requests)
  /\ pc' = "expand"
  /\ UNCHANGED <<input, fault, requests, actives, needs, turn, units, skipped>>
-----------------------------------------------------------------------------
(* Expand: the prerequisites of what will run. *)

DependsOn(m) == {e.to : e \in {x \in input.edges : x.from = m}}

\* What `depends_on` of a node asks for, where its ecosystem has that task.
Prerequisites(n) ==
  IF n[2] \notin Defined(n[1]) THEN {}
  ELSE UNION {{d.task} \X (Defined(d.task) \cap
                 (IF d.scope = "module" THEN {n[2]} ELSE DependsOn(n[2])))
              : d \in Effective(n[1], n[2]).needs}

Selected == UNION {{requests[i]} \X actives[i].modules : i \in DOMAIN requests}
Starts == {n \in Selected : Effective(n[1], n[2]).eligible}

\* Prerequisite-only tasks, in name order: any order will do.
Listed(tasks) == CHOOSE s \in [1 .. Cardinality(tasks) -> tasks] :
                   \A i, j \in DOMAIN s : s[i] = s[j] => i = j

Expand ==
  /\ pc = "expand"
  /\ IF \E n \in Selected : n[2] \notin Defined(n[1]) THEN Fail("undefined")
     ELSE LET graph == [n \in Nodes |-> Prerequisites(n)]
              seen  == Reach(graph, Starts)
              On(t) == {n[2] : n \in {x \in seen : x[1] = t}}
              added == Listed({n[1] : n \in seen} \ {requests[i] : i \in DOMAIN requests})
          IN  /\ needs' = [n \in Nodes |-> IF n \in seen THEN graph[n] ELSE {}]
              /\ requests' = requests \o added
              /\ actives' =
                   [i \in DOMAIN requests |-> [actives[i] EXCEPT !.modules = @ \cup On(requests[i])]]
                     \o [i \in DOMAIN added |-> [modules |-> On(added[i]), named |-> {}]]
              /\ pc' = "schedule" /\ turn' = 1
              /\ UNCHANGED <<input, fault, units, skipped>>
-----------------------------------------------------------------------------
(* Schedule: a task's modules collapse into units. *)

\* keep_edge over the modules that run the task.
Kept(t, on) ==
  [m \in on |-> {e.to : e \in {x \in input.edges :
       x.from = m /\ x.to \in on /\ (x.kind = "overlay" \/ Effective(t, m).ordered)}}]

\* Mutant: a unit gates on what its first member depends on.
CollapseFirst(deps, group) ==
  [g \in {group[m] : m \in DOMAIN deps} |->
     {group[d] : d \in deps[CHOOSE m \in DOMAIN deps : group[m] = g]} \ {g}]

\* What a grouping of the modules makes of their dependencies.
Collapse(deps, group) ==
  [g \in {group[m] : m \in DOMAIN deps} |->
     (UNION {{group[d] : d \in deps[m]} : m \in {x \in DOMAIN deps : group[x] = g}}) \ {g}]

\* group_id: never across workspaces or override declarations.
Base(t, m) ==
  IF Effective(t, m).fanOut = "module" THEN <<m>> ELSE <<input.workspace[m], input.override[m]>>

\* layered_group_ids: a batch on a cycle of groups is cut by dependency layer.
GroupIds(t, kept) ==
  LET base  == [m \in DOMAIN kept |-> Base(t, m)]
      layer == Levels(kept)
      Cut(m) == /\ Effective(t, m).fanOut = "batch"
                /\ Cardinality(Component(Collapse(kept, base), base[m])) > 1
                /\ \E x \in DOMAIN kept : base[x] = base[m] /\ layer[x] # layer[m]
  IN  [m \in DOMAIN kept |->
         [task |-> t, base |-> base[m], layer |-> IF Cut(m) THEN layer[m] ELSE None]]

\* cycle_co_schedulable.
Closed(t, m) == Effective(t, m).fanOut = "workspace" /\ Effective(t, m).closure

\* schedule, with level_units_into_waves as UnitWaves proves it to come out.
ScheduleTask ==
  /\ pc = "schedule" /\ turn <= Len(requests)
  /\ LET t       == requests[turn]
         lacking == {m \in actives[turn].modules : ~Effective(t, m).eligible}
         kept    == Kept(t, actives[turn].modules \ lacking)
         id      == GroupIds(t, kept)
         gates   == Collapse(kept, id)
     IN  IF lacking \cap actives[turn].named # {} THEN Fail("ineligible")
         ELSE IF \E m \in DOMAIN kept :
                    ~Closed(t, m) /\ Cardinality(Component(gates, id[m])) > 1
         THEN Fail("unit_cycle")
         ELSE /\ units' = [u \in DOMAIN units \cup DOMAIN gates |->
                   IF u \in DOMAIN units THEN units[u]
                   ELSE [members |-> {m \in DOMAIN kept : id[m] = u},
                         deps |-> Condensed(gates)[u], wave |-> Levels(gates)[u]]]
              /\ skipped' = skipped \cup ({t} \X lacking)
              /\ turn' = turn + 1
              /\ UNCHANGED <<input, pc, fault, requests, actives, needs>>

Scheduled ==
  /\ pc = "schedule" /\ turn > Len(requests)
  /\ pc' = "link"
  /\ UNCHANGED <<input, fault, requests, actives, needs, turn, units, skipped>>
-----------------------------------------------------------------------------
(* Link: the units of one task wait for those of another. *)

UnitsOf(n) == {u \in DOMAIN units : u.task = n[1] /\ n[2] \in units[u].members}

\* Mutant: a prerequisite whose module was skipped is forgotten.
ResolveOwn(n) == UnitsOf(n)

\* resolve: a node without a unit stands for its own prerequisites.
Resolve(n) ==
  LET through == [p \in Nodes |-> IF UnitsOf(p) = {} THEN needs[p] ELSE {}]
  IN  UNION {UnitsOf(p) : p \in Reach(through, {n})}

Targets(u) ==
  (UNION {Resolve(p) : p \in UNION {needs[<<u.task, m>>] : m \in units[u].members}}) \ {u}

\* Mutant: the units keep the waves their own task gave them.
LinkInPlace ==
  /\ pc = "link"
  /\ units' = [u \in DOMAIN units |-> [units[u] EXCEPT !.deps = @ \cup Targets(u)]]
  /\ pc' = "done"
  /\ UNCHANGED <<input, fault, requests, actives, needs, turn, skipped>>

\* link, which levels from the waves the units have, and then
\* ensure_some_task_applies.
Link ==
  /\ pc = "link"
  /\ LET deps == [u \in DOMAIN units |-> units[u].deps \cup Targets(u)]
         wave == LevelsAbove([u \in DOMAIN units |-> units[u].wave], deps)
     IN  IF \E u \in DOMAIN units : u \in Reach(deps, deps[u]) THEN Fail("link_cycle")
         ELSE IF units = <<>> /\ ~Strict /\ input.by = "explicit" THEN Fail("nothing_applies")
         ELSE /\ units' = [u \in DOMAIN units |->
                             [units[u] EXCEPT !.deps = deps[u], !.wave = wave[u]]]
              /\ pc' = "done"
              /\ UNCHANGED <<input, fault, requests, actives, needs, turn, skipped>>
-----------------------------------------------------------------------------
Next ==
  \/ AffectTask \/ AffectedDone
  \/ Expand
  \/ ScheduleTask \/ Scheduled
  \/ Link

Spec == Init /\ [][Next]_vars
-----------------------------------------------------------------------------
Planned == pc = "done"

Gates == [u \in DOMAIN units |-> units[u].deps]

\* The unit of a node that has one.
UnitOf(n) == CHOOSE u \in UnitsOf(n) : TRUE

\* What runs u only after v: one command, or a chain of gates and the wave.
Behind(u, v) == u = v \/ (units[v].wave < units[u].wave /\ v \in Reach(Gates, {u}))

\* APPLY takes the plan at its word: every (task, module) is in one unit, and a
\* unit gates on units of strictly earlier waves only, whatever was batched,
\* cut by layer, co-scheduled, merged and linked on the way.
GatesRunEarlier ==
  Planned =>
    /\ \A n \in Nodes : Cardinality(UnitsOf(n)) <= 1
    /\ \A u \in DOMAIN units : \A d \in units[u].deps :
         d \in DOMAIN units /\ units[d].wave < units[u].wave

\* Nothing is handed over too early: where a module depends on another,
\* leaf-to-top through modules that all run the task, it is in the same
\* command or behind it.  The one exception is a path into a cycle of commands
\* that resolve their own closure: it ends behind the command it enters by.
HandoffsKept ==
  Planned => \A t \in Tasks :
    LET running == {m \in Modules : UnitsOf(<<t, m>>) # {}}
        kept    == Kept(t, running)
        unit    == [m \in running |-> UnitOf(<<t, m>>)]
        whole   == Collapse(kept, unit)
        Entry(c) == Closed(t, c) /\ Cardinality(Component(whole, unit[c])) > 1
    IN  \A a \in running : \A b \in Reach(kept, {a}) :
          \/ Behind(unit[a], unit[b])
          \/ \E c \in Reach(kept, {a}) :
               Entry(c) /\ b \in Reach(kept, {c}) /\ Behind(unit[a], unit[c])

\* What must have run before a node, by the configuration alone: its
\* prerequisites, and those of any that cannot run.
Required(n) ==
  LET through == [p \in Nodes |->
        IF p[2] \in Defined(p[1]) /\ Effective(p[1], p[2]).eligible THEN {} ELSE Prerequisites(p)]
  IN  {p \in Reach(through, Prerequisites(n)) : Effective(p[1], p[2]).eligible}

\* Every prerequisite of whatever runs is in the plan and before it, also when
\* a module between them cannot run it, when the task was requested too, and
\* when the prerequisite pulls in a further one.
PrerequisitesFirst ==
  Planned => \A u \in DOMAIN units : \A m \in units[u].members :
    \A p \in Required(<<u.task, m>>) : \E v \in UnitsOf(p) : Behind(u, v)

\* "never skip a build": what a changed path may reach runs: the modules at
\* the deepest root around it, or the whole workspace or project when it is
\* shared or nobody's, and everything that depends on them.
NeverSkipABuild ==
  Planned /\ input.by = "changed" =>
    \A p \in input.changes : \A i \in DOMAIN input.requests :
      LET t == input.requests[i]
          touched == {m \in Modules :
            \/ p \in input.global
            \/ input.blast[p] = None /\ (input.roots[p] = {} \/ m \in Owners(p))
            \/ input.blast[p] = input.workspace[m]}
      IN  \A m \in Defined(t) : Reach(Forward(t), {m}) \cap touched # {} =>
            UnitsOf(<<t, m>>) # {} \/ <<t, m>> \in skipped
=============================================================================
