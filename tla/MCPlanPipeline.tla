---------------------------- MODULE MCPlanPipeline ----------------------------
(***************************************************************************)
(* PlanPipeline for TLC: every acyclic graph over three modules and one    *)
(* that stands alone, two workspaces, `build` and `test`.  Five families   *)
(* of inputs, each varied where its phases look: how a task is batched and *)
(* ordered, what whole workspaces that need each other come to (over four  *)
(* modules), what prerequisites link, what is selected.                    *)
(***************************************************************************)
EXTENDS PlanPipeline, TLC

MCModules == 1 .. 4

Above == {<<2, 1>>, <<3, 1>>, <<3, 2>>}
Edges(pairs, kind) == {[from |-> e[1], to |-> e[2], kind |-> kind] : e \in pairs}
ThreeGraphs == {Edges(pairs, "normal") : pairs \in SUBSET Above}
KindGraphs == {Edges({<<2, 1>>}, k) \cup Edges({<<3, 2>>}, l) : k, l \in Kinds}
Chain == Edges({<<2, 1>>, <<3, 2>>}, "normal")

MCWorkspaces == {"A", "B", "C"}
Layouts == {<<"A", "A", "A", "B">>, <<"A", "A", "B", "B">>, <<"A", "B", "A", "B">>}
Own == [m \in MCModules |-> None]
Overridden == [Own EXCEPT ![2] = "group"]

Up(t) == [task |-> t, scope |-> "dependencies"]
Same(t) == [task |-> t, scope |-> "module"]

\* A task every module defines in the same way, without on the modules lacking.
TaskOf(fan, closure, ordered, need, lacking) ==
  [m \in MCModules |->
     [eligible |-> m \notin lacking, fanOut |-> fan, closure |-> closure,
      ordered |-> ordered, needs |-> need]]

FanOuts == {<<"module", FALSE>>, <<"batch", FALSE>>, <<"workspace", FALSE>>, <<"workspace", TRUE>>}

MCPaths == {"inner", "outer", "ci", "lock", "readme"}
Roots == ("inner" :> {1, 2}) @@ ("outer" :> {1, 3}) @@ ("lock" :> {1})
           @@ ("ci" :> {}) @@ ("readme" :> {})
Blast == [p \in MCPaths |-> IF p = "lock" THEN "A" ELSE None]

Project(edges, layout, override, build, test, list) ==
  [edges |-> edges, workspace |-> layout, override |-> override,
   task |-> ("build" :> build) @@ ("test" :> test), requests |-> list,
   by |-> "all", targets |-> {}, named |-> {}, dependencies |-> FALSE, dependents |-> FALSE,
   changes |-> {}, roots |-> Roots, depth |-> <<1, 2, 1, 1>>, global |-> {"ci"},
   blast |-> Blast, external |-> {}]

Plain == TaskOf("module", FALSE, TRUE, {}, {})

\* One task alone: every graph, layout, override, fan-out, strategy.
Batching ==
  {Project(edges, layout, override, TaskOf(fan[1], fan[2], ordered, {}, lacking), Plain, <<"build">>)
     : edges \in ThreeGraphs \cup KindGraphs, layout \in Layouts, override \in {Own, Overridden},
       fan \in FanOuts, ordered \in BOOLEAN, lacking \in {{}, {2}}}

\* Prerequisites of one or of both tasks, requested alone or together.
Linking ==
  {Project(edges, layout, Own,
           TaskOf(fan[1], fan[2], ordered, link[1], lacking),
           TaskOf(fanTest, FALSE, FALSE, link[2], {}), list)
     : edges \in ThreeGraphs, layout \in {<<"A", "A", "B", "B">>, <<"A", "B", "A", "B">>},
       fan \in {<<"module", FALSE>>, <<"batch", FALSE>>, <<"workspace", TRUE>>},
       ordered \in BOOLEAN, lacking \in {{}, {2}}, fanTest \in {"module", "batch"},
       link \in {<<{}, {Same("build")}>>, <<{}, {Up("build")}>>, <<{Up("build")}, {}>>,
                 <<{Up("build")}, {Same("build")}>>},
       list \in {<<"test">>, <<"test", "build">>}}

\* Workspaces that need each other, on top of a fourth module or below it.
Facades ==
  {Project(Edges(pairs, "normal") \cup Edges({<<2, 1>>, <<3, 2>>}, "normal"), layout, Own,
           TaskOf(fan[1], fan[2], TRUE, {}, {}), Plain, <<"build">>)
     : pairs \in SUBSET {<<1, 4>>, <<2, 4>>, <<3, 4>>, <<3, 1>>},
       layout \in {<<"A", "B", "A", "B">>, <<"A", "B", "A", "C">>}, fan \in FanOuts}

Picked ==
  {[Project(Chain, <<"A", "A", "B", "B">>, Own, TaskOf("module", FALSE, TRUE, {Up("build")}, {2}),
            [Plain EXCEPT ![1] = None], list)
      EXCEPT !.by = "explicit", !.targets = targets, !.named = named,
             !.dependencies = down, !.dependents = up]
     : list \in {<<"build">>, <<"test">>, <<"test", "build">>},
       targets \in SUBSET {1, 2, 3}, named \in SUBSET {1, 2, 3},
       down \in BOOLEAN, up \in BOOLEAN}

Selecting ==
  {i \in Picked : i.named \subseteq i.targets}
    \cup {[Project(edges, <<"A", "B", "A", "B">>, Own, Plain, [Plain EXCEPT ![3] = None], list)
             EXCEPT !.by = "changed", !.changes = changes, !.external = external]
            : edges \in KindGraphs, list \in {<<"build">>, <<"test">>},
              changes \in {c \in SUBSET MCPaths : Cardinality(c) <= 2}, external \in {{}, {2}}}
    \cup {Project(Chain, <<"A", "A", "A", "B">>, Own, Plain, [m \in MCModules |-> None], <<"test">>)}

\* One command per module that enters a cycle of whole workspaces, and leaves it.
Ring == {<<1, 2>>, <<2, 3>>, <<4, 1>>, <<2, 4>>, <<3, 4>>, <<4, 2>>}
Acyclic(pairs) ==
  LET graph == [m \in MCModules |-> {e[2] : e \in {x \in pairs : x[1] = m}}]
  IN  \A m \in MCModules : m \notin Reach(graph, graph[m])

Entering ==
  {Project(Edges(pairs, "normal"), <<"A", "B", "A", "C">>, Own,
           [TaskOf("workspace", TRUE, TRUE, {}, {})
              EXCEPT ![4] = TaskOf(fan, TRUE, TRUE, need, {})[4]], Plain, <<"build">>)
     : pairs \in {p \in SUBSET Ring : Acyclic(p)}, fan \in {"module", "workspace"},
       need \in {{}, {Same("test")}}}

MCFamilies == {Batching, Facades, Entering, Linking, Selecting}
=============================================================================
