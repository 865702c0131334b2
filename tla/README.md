# toven in TLA+

toven is a build orchestrator for polyglot monorepos, written in Rust
(`src/crates`, 17 crates, about 132 000 lines). It discovers modules through
ecosystem adapters, plans a task as a graph of *units*, runs the plan, caches
results by content, watches for changes, drives out-of-process ecosystem
drivers and releases versions. This directory models the parts whose mistakes a
test would hardly reach: those where several actors interleave and where a step
may fail between two others.

## Inventory

Every crate is below `src/crates`. "Hard" says what makes the part hard to test;
the last column says what makes it correct.

| Part | State and operations | Interacts through | Hard | Correct when |
|---|---|---|---|---|
| Failure gate (`toven-runtime/gate.rs`) | a state per unit (Pending, Satisfied, Failed, Blocked), the reversed graph; `satisfy`, `fail_and_block_dependents` | called by both executors | a worklist over a diamond or cyclic graph, settled units in between | exactly what is downstream of a failure is blocked, in any pop order |
| APPLY walk (`toven-engine/apply/walk.rs`, `pool.rs`, `record.rs`, `entry.rs`) | immutable plan, wave, group queues, gate, workers, tokens, counters; one handler per result | worker pool, reporter, cache, cancellation token, held set, output bridge | results against Ctrl+C, fail-fast, hard errors, sink failures, at every await | fail-closed, one terminal event per unit, the summary adds up, nothing left running, it ends |
| Held services (`toven-engine/apply/persistent`) | entries with the dependents still owed, a component registry | called by the walk | services under services, dependents that settle while the service starts | up while used, stopped once, stopped on every exit path |
| Lifecycle engine (`toven-runtime/engine.rs`, `graph.rs`, `lifecycle.rs`) | the same shape without services and caching, generic over an operation | worker pool, sink, shared cancellation token | cancellation against results already on the way | every unit reported once, nothing launched while aborting, hard errors returned |
| Live-output bridge (`toven-ports/exec/output.rs`, `toven-engine/apply/options.rs`, `output/channel.rs`) | a bounded channel from the readers of every child to the walker; per-unit buffers | readers wait for room, the walker drains at each await | everyone waiting on everyone; output that arrives after the unit's end | never deadlocks, a unit's output is delivered before its terminal event |
| Content cache (`toven-engine/cache`, `source.rs`, `toven-core/plan/cache`) | markers named by content keys, stamped with the outputs' newest time; `contains`, `record` | PLAN reads, APPLY writes, tools and people change the files | files that change between PLAN, the tool and the record; sessions that die | a hit stands for outputs made from these inputs |
| Planner (`toven-core/plan`) | stages: affected, prerequisites, scheduling, linking | feeds the walk | cycles, batching, levelling, skipped nodes, edge filters | a unit is in a later wave than all it depends on; no hand-off and no prerequisite is lost; nothing a change may reach is skipped |
| Watch loop (`toven-engine/watch`) | pending changes, the running iteration | file watcher, cancellation token | changes during an iteration, overflow | each change is followed by a later iteration, cancel ends it |
| Federation and drivers (`toven-core/federation`) | members, driver children, one request at a time | framed JSON over pipes without ids, a watchdog thread | a child that wedges, dies, lags or answers nonsense, against a timeout | an answer belongs to its request, a kill is reported as such, nothing hangs and no process is left |
| Release execution (`toven-release/execution`, `planning/run.rs`) | worktrees, commits, tags, the remote, registries | git, registry commands, hosting API | failures between two members, re-runs | what is published is tagged; a re-run completes |
| Hosting (`toven-release/hosting`) | the hosted release and its assets | remote API | partial uploads | a re-run reconciles |
| Version decisions (`toven-version`, `toven-semver`, `toven-release/planning`, `versioning`) | baselines from tags and registry, levels, overrides, policies, channels; decided module by module, dependencies first | tags, registry, manifests; `bump`, `tag` and `publish` decide apart from each other | the same decision taken again after a pull request, layouts where the diff and the version have different anchors, registry outages | versions ascend, what was staged is tagged, floors exist, an untouched module is not released again |
| Coverage, doctor, health, init, output rendering | clients of the above, or linear I/O | | | |
| Adapters (`toven-rust`, `-go`, `-js`, `-command`), config, CLI, ports, model, testkit, vcs | translation of formats, no shared state | | | |

`PROJECT.json` lists the components with their files and status, and under
`hazards` the places in the code where something can go wrong, with the
properties that watch them.

## The modules

    Gate            the gate as pure operators on [Unit -> state]
      GateWalk      the code's worklist loop, one action per pop
        GateProofs  lemmas about both; the loop computes Gate!FailAndBlock
    UnitSchedule    abstract: the life of a unit in any toven executor
    ApplyWalk       the APPLY walk        EXTENDS Gate, refines UnitSchedule
      ApplyWalkProofs    types, all its invariants, the refinement
    RuntimeEngine   the lifecycle engine  EXTENDS Gate, refines UnitSchedule
      RuntimeEngineProofs    types, fail-closed, reports, the refinement
    LiveBridge      children's output on its way through the walk
    Layers          closures, components and levels as functions of a graph
      UnitWaves     the Tarjan walk and the level pass, one frame a step
      PlanPipeline  selection, prerequisites, units, waves and links of a request
        PlanningProofs   closures and levels exist; the walk finds them; what a plan keeps
    WatchSession    watch loop, cache keys, content cache and tools over one disk
      WatchSessionProofs types, honest hits
    DriverRpc       a driver connection: client, watchdog, pipes, driver
      ChannelProofs      of LiveBridge and DriverRpc: types, output before the verdict,
                         nothing lost, matched answers, reported kills
    VersionPlan     BumpPlanner over tags, registry and manifests
      VersionPlanProofs  versions ascend, runs settle, staged is tagged, floors were cut
    ReleaseRuns     release tag and publish in several clones, with failures and re-runs
      ReleaseRunsProofs  types; tags, registry and forge agree; what is published grows
    MC...           instances for TLC

### Gate and GateWalk

`Gate::states` is the function `gate` (in `GateWalk` the variable `states`),
`Gate::reverse` the operator `Dependents`. `GateWalk` models the loop of `fail_and_block_dependents` with its worklist, its
visited set and the returned ids, one action for each branch of the loop body.
The worklist is a stack in the code; the model pops any element, so what holds
does not depend on the order. `Gate!FailAndBlock` is the closed form the
executors' models use; that they agree is the theorem `LoopComputesFixpoint`.

### ApplyWalk

The walker is one async task. Between two awaits nothing else of the walk's
state changes, so one action is the code between two awaits: `StartWave`, one
`CacheHit` per hit, `StartGroups`, `FillSlot` per submission, a `Join...` per
outcome of a worker, `TearDown` per service shutdown, and the exit path
(`StopHeld`, `HeldStopped`, `PoolShutDown`, `Finish`). `pc` names the await.

| Code | Model |
|---|---|
| `Walker.plan`, `.opts` | `plan`, `options`, chosen once in `Init` |
| `Gate` | `gate` |
| the group queues and cursor of `run_wave` | `queued`, `activated` |
| `wave_parallel`, the JoinSet, the pool's tokens | `parallel`, `worker`, `cancelled`, `closed` |
| `teardown_cancelled` | `teardown` |
| `HeldSet` entries, registry order | `held`, `remaining`, `tillEnd`, `order` |
| the child of each service | `process` |
| the locals of `finish_result` | `current`, `draining`, `blocking` |
| `RunStats`, the emitted `UnitFinished` | `stats`, `verdicts` |
| keys written by `record_success` | `recorded` |

A worker's end (`WorkerEnds`) picks one of the outcomes the runner can return;
"stopped" and a cancelled error need the unit's token to have fired. The order
of groups and of units within a queue is left open. A reporter or sink that
fails inside a handler is `SinkFails`, and the actions named `...Unreported`
where the handler had changed something that outlives it before it failed.

### RuntimeEngine

`execute`, `drive`, `settle` and the sweep, with the wave's submissions, the
select loop and the shared token, over the same gate. `level_waves` is modelled
by its result: the layer of every unit, or the error for a malformed graph.

### LiveBridge

The bounded channel from the readers of every child to the walker, with both of
its ends: `Emit` is a reader that found room, `Receive` the two places that fail
the walk when the sink does, `ReceiveWaiting` the two waits (`drain_while`) that
go on without it. `pc` names the wait, `...Tail` the receive loop after its work
is done.

| Code | Model |
|---|---|
| the `mpsc` channel of `apply` | `bridge`, a sequence of unit ids |
| what a child is still to write, and whether it was signalled | `left`, `killed` |
| a worker and the outcome it returns; the process of a ready service | `worker`, `child` |
| tokens, `teardown_cancelled`, Ctrl+C | `cancelled`, `tripped`, `interrupted` |
| `HeldSet`; locals of `finish_result` | `held`, `current` |
| `output_error` of one `drain_while` | `sinkError` |

What is scheduled, and why, is `ApplyWalk`'s concern: here every unit is in flight
from the start, any handled result may release any held service, and a failure
may or may not trip fail-fast. A command that timed out is one that ended. A
service that failed to become ready gets its verdict without a drain, and late
chunks of it may follow (accepted in a comment at `walk.rs:464`);
`NothingAfterVerdict` therefore speaks of commands and of services torn down.

### Layers, UnitWaves and PlanPipeline

PLAN is pure, but not simple. `Layers` holds what its graph walks should compute:
reachability, components, the length of the longest chain below a node. `UnitWaves`
is `level_units_into_waves` as the code runs it: Tarjan's walk with its own work
stack (one action per child explored and per frame finished), the refusal of cycles
that may not share a wave, and the single pass over ascending component ids.

`PlanPipeline` composes the stages of `plan_intents` for one request, each request's
task in turn, each stage in the code's order, with its ways to give up: `AffectTask`
(attribution of changed paths, closure over dependents), `Expand` (prerequisites and
the tasks they add), the schedule (fan-out, batches, layered ids, collapsed units,
gates) and `Link`. A federation, its configuration and the request are the input; a
changed path is a value with the modules whose roots contain it. A record has one
path. Toolchains, argv, the order inside a wave and errors of tripwires are left out.

| Code | Model |
|---|---|
| `PlanIntent`s, the merged request list | `requests`, `turn` |
| `active_modules` per task | `actives` |
| `Needs` of `expand` | `needs` |
| `ExecutionUnit`s and waves | `units`: id -> members, gates, wave |
| nodes that are skipped | `skipped` |

What a chain of dependencies between modules that run a task is owed is `HandoffsKept`:
its first module runs in the command of the last or behind it. One case is excepted, in
which the code leaves the order to the tool: in a cycle of commands that resolve their own
closure (`unit.rs` checks the capability, the gates between them are stripped) all run in
one wave, so a chain into the cycle ends behind the command it enters by.

### WatchSession

`WatchSession::run` over what it composes. The sources are read at three moments: PLAN
keys them (`HashModule`, one module at a time), the tool reads them (`Launch`) and
APPLY fingerprints what was built (`Record`); an edit can fall between any two. A key
is the set of the contents of the module's closure, a marker a key with the stamp of
the outputs it was recorded for, as in `cache/fs.rs`. The waves are kept as the order
they impose. The watcher coalesces what it holds into batches of any size, may
overflow, and hears the outputs being written unless they are ignored. A session may
be interrupted, fail or die anywhere, and another one starts over the same cache.
The baseline of a session is a set of modules; a `--changed` baseline is left out.

### DriverRpc

One connection, in both of its uses: a `__serve` session (hello, prefetched calls,
live calls) and a wizard session (offer, answers). Three processes share two pipes:
the client, one step per await of `client.rs` and `wizard.rs`; the watchdog thread,
which may fire at any moment of an armed call; the driver, which answers what it
likes, wedges or dies with half a frame written. Frames carry no id: that an answer
belongs to its request rests on a client that never sends a second request before it
has drained the first one, and drops the session after any fault that leaves it in
doubt. A request larger than the pipe is written only as fast as the driver reads.

### VersionPlan

`BumpPlanner` as one function of the repository: baselines (own tag, umbrella tag,
registry over either), what changed since the tag, seeds, levels, overrides,
prerelease trains, the two policies and the cascade of floors. `Bump` stages a
decision, people merge it (on whatever was committed meanwhile), and `Cut`, `Resume`
and `NothingToRelease` are what a `tag` or `publish` decides then. A version is a
tuple <<major, minor, patch, channel, number>> in semver's order; a manifest is its
version and the floors it sets; content is a set of edits.

| Code | Model |
|---|---|
| resolved release settings of each module; `effective_channel`'s channels | `project`, its `channels` |
| `BumpOverrides` | a request: `levels`, `sets`, `named`, `channel` |
| worktree and HEAD (clean, as the guards demand) | `files` |
| tags and the commits they name; published versions | `tags`, `registry` |
| a failed registry lookup | `unseen`, one of `Outages` |
| `ReleaseBaseline` | `Anchor` (diff ref), `Baseline` (version) |
| `BumpPlan` | `Plan`: version and raised floors per module |

The history variables `cut`, `merged`, `settled` and `raised` are what the properties
compare with; a run that only resumed settles nothing. Crashes between the steps of a run are `ReleaseRuns`'s, maintainer-owned
modules and modules without a declared version are not modelled.

### ReleaseRuns

Runs of `release tag` and `release publish` in several clones of a project with
several member repositories. What clones share is the remote, the registry and the
forge; what a run leaves behind when it fails or is killed is what the next one, in
this clone or another, plans from. The action names follow the phases of
`release_run` and `release_apply_by_member`.

| Code | Model |
|---|---|
| a clone's checked-out commit, files and tags | `head`, `worktree`, `tags` |
| the remote branch and tags; clones it has left behind | `remoteHead`, `remoteTags`, `stale` |
| published artifacts, forge Releases | `registry`, `hosted` |
| `PushPolicy` of the project, `ReleaseApplyOptions` and `--set-version` | `policy`, `options` |
| `ReleasePlan` entries, `publish_needed` | `planned`, `needed` |
| `TagPreflight::Resume` | `resumed` |
| the loop over shards, the shard and the modules at hand | `left`, `at`, `todo` |
| packaged `Artifact`s | `artifact` |
| history: versions published from a resumed member's checkout | `untagged` |

The content of a module is the set of edits it includes and the version its
manifest declares: that is all that detection (differs from the tag or not) and
publication (which version, with what) see. The plan is computed as
`detect_in_order`, `resolve_bump` and `idempotency` compute it, with the baseline
on the module's own tags, patch bumps and the default cascade. A push is what git
does without `--atomic`: each ref is accepted or rejected by itself. `Stops` is
every error after which nothing is rolled back, and a kill; the two errors that
roll back are `PrepareFails` and `CommitFails`. People commit (`Edit`), merge
(`Land`), discard or clone anew (`FreshClone`) and restore (`CleanUp`) between runs.

`policy` is `Disabled` (`push = false`), `BranchAndTags` or `TagsOnly`, the same for every
member and for all runs; the code has one per member, and a maintainer may edit it. As in the code, the command line and the policy
are asked in different places: `Start` and `HasHostPhase` look at `--no-push` only, `ToHost` at the
policy only, `Pushes` at both, and `Reconcilable` at neither. A project that pushes nothing has its
tags pushed by hand, if at all; nobody does so in the model, so under `Disabled` the remote keeps
the tags it starts with. What a forge does with a Release whose tag it lacks is its own affair:
`Hosts` cuts it, and `Stops` is the refusal.

### UnitSchedule

What both promise: a unit starts after everything it depends on succeeded; a
failure blocks exactly what is downstream and still waiting; an outcome is never
revised. Each executor maps its own state to a phase per unit.

## Runs

| Run | Instance | Shows |
|---|---|---|
| `gate_walk` | all acyclic graphs of 4 units, all graphs of 3, self-loops included | the loop is the fixed point; fail-closed between calls |
| `apply_walk` | 3 plans of 4 units, limit 1 and 2, fail-fast and timeouts on and off | the invariants, the action property, that the run ends, and the refinement |
| `runtime_engine` | diamonds, chains and malformed graphs; serial and parallel | fail-closed, every unit reported once, the run ends, the refinement |
| `live_bridge` | two children of two chunks each over a channel of one: a command beside a service, or two services | nothing deadlocks, output comes before the verdict, a reported run lost nothing, shutdown and Ctrl+C end |
| `unit_waves` | all graphs of 4 units, any order of children | components are the cycles, waves are the longest chains, the pass ends with every unit in one wave or refuses |
| `plan_pipeline` | five families of inputs over four modules, see `MCPlanPipeline` | gates are in earlier waves, no hand-off, prerequisite or affected build is lost |
| `watch_session` | `app` over `lib`, two contents, two edits, one overflow, two sessions | hits are honest; the session catches up |
| `driver_rpc` | four round trips, a serve and a wizard session, large requests at each place | answers match, kills are reported, reads and drops end |
| `version_plan` | six projects of three modules, one per layout of tags and baselines and per policy; two edits, three runs | a run settles, staged is tagged, floors were cut, versions ascend |
| `release_runs` | two clones, two members, three modules, each of the three push policies | the four invariants and the action property of releases |
| `service_chain` | `toven dev` with a service that needs a service | finding 1 |
| `rerun_publish` | one clone, pushing publishes only, nothing hosted | finding 2 |

**Bounds.** Four units are the smallest number with a diamond, and with a shared
group beside a third group and a later wave. The plans of `apply_walk` are chosen
so that each has a case the others lack: two units of one group, a cache hit below
a service, a chain of services. Limits 1 and 2 make a slot scarce and shared. The
gate's own run has every graph of that size, and the theorems have every size.
In `live_bridge` each child writes more than the channel holds, so that a reader
blocks while the walker waits, which is what can deadlock; a third child only adds
another blocked reader.

`unit_waves` starts from every graph of four units: two cycles, or a cycle above and
below other units, is what the level pass could get wrong. `plan_pipeline` varies, in
each family, what its stages look at, instead of the product of everything: batching
over all acyclic graphs of three modules, workspaces that need each other over four, a
module whose own command enters such a ring from outside (`Entering`), prerequisites of
one or of both tasks, selections. In `watch_session` two edits of two
contents are an edit and its undoing around one tool, and the second session finds what
the first one left. Four round trips in `driver_rpc` are a hello, a prefetch and two
live calls, so that an answer could be taken for the next one's at each change of
phase. In `version_plan` three runs are a bump, the cut of what was merged and a run after
it, or three cuts of a train; the projects are the default layouts of Go, JavaScript
and Rust, umbrella tags alone, a dependent that only upgrades and the manifest policy. One has
two prerelease channels, without which no plan meets a tag that is there (`TagsAreFresh`
below) and `Resume` would never be taken.
Lookups fail for nobody or for one module, where a baseline reads the registry.

In `release_runs` two runs, one edit and three versions are enough for an
interrupted run and its re-run, for two runs at once, and for a plan, a
`--set-version` and a version after either. One repository holds a library and its
dependent, the other a plugin that comes between them in publish order and was
never released, so the members are visited in an order other than that of the
modules. The run options are `tag --no-push`, `publish` and `publish --set-version`.
`publish --no-push` is left out: it publishes to the registry what no tag on the
remote names, so after the local tags are discarded another clone may cut the same
version with other content, and `TagNamesArtifact`, `HostedIsPushed` and
`PublishedKeepsEdits` have no reason to hold. `push = false` is one of the three policies of the
run: there `HostedIsPushed` claims of a Release only that its version is published, because the
pre-pass does cut Releases for tags that were never pushed (see Noticed), and `TagNamesArtifact`
speaks of the tags that were on the remote before. Steps that neither read nor write what clones
share are taken before other clones' steps (`PrivateStepsFirst`), with which they
commute. The same invariants were checked with one module, two set-versions and three runs
(two edits; one with tags-only pushes) or four (none), where a resumed member publishes another
version than its tag's and later runs build on it; those runs are too long for the routine. The model stops at its
bounds, hence no deadlock check.

**Fairness.** `WF(Walker)`: the runtime keeps polling a task that is ready. A
worker whose token fired ends (`StoppedWorkersEnd`): the process runner sends
SIGTERM and after the grace period SIGKILL (`toven-exec/src/command.rs`). A command
nobody cancels may run for ever, so `RunEnds` speaks of runs that are interrupted and
of runs whose commands end. A sink that fails is owed nothing. In the bridge the select polls its
branches in random order, so none of them is starved, and the drain loop ends
when it finds the channel empty often enough (`SF`); readers are threads; a
signalled child dies; nothing makes a command end. In the engine, `RunEnds` assumes operations end, as the trait documents. In
`watch_session` the session goes on while it can and tools end (the process runner's
timeouts), nobody is obliged to edit, and the properties speak of the time after the
last edit. In `driver_rpc` the client and the watchdog thread run; of the driver
nothing is assumed.

**Mutants.** Each property has a mutated definition in its module (named after what
it gets wrong, with a comment) that breaks it under the same run: a dropped clamp, a
key recorded early, a kill that only unblocks the reader, an increment from the
declared version. The type invariants of the engine, the watch session, the driver and
the releases are theorems and no longer checked by runs of their own.

## Findings

1. `service_chain`: a service that another service depends on is torn down as soon
   as the second one is *ready*, because `finish_result` calls `drain_dependents`
   for a ready unit too. `status.rs` and `held.rs` say it goes down after its
   dependents drained.
2. `rerun_publish`: a publish that stopped between the push and the registry is not
   resumed by running it again, as `docs/commands/release.md` says. The modules are
   unchanged since their new tags, the plan is empty and the run succeeds.

## Noticed

Met while modelling, without a run of their own.

*Executors.* `Err(_) if aborting => {}` (`engine.rs:191`) drops every error of a unit in
flight, not only cancellations, and the run returns Ok; `operation.rs:80` says that an
error aborts the run, and the APPLY walk makes the distinction and tests it. A service
that becomes ready after its dependents were blocked is held to the end of the run
(`held.rs:89`: `hold` starts from the static set). `drain_live_output` runs until it
sees the channel empty, outside the select that watches the token, so a service that
never pauses keeps Ctrl+C from being observed (`walk.rs:622`; the constant `Endless` of
`LiveBridge` is empty for this reason).

*Cache.* A source edited after PLAN keyed it and before the tool read it is built, and
the result recorded under the old key (`cache/fs.rs:66`); undoing the edit then hits.
`HitsAreHonest` and `CatchesUp` name that race (`raced`) and claim the rest.

*Drivers.* `client.rs:6` says every call is bounded, but the write of a serve request is
outside the watchdog: a driver that never reads blocks a request larger than the pipe.
A driver killed on the boundary may still have answered; the next call then fails as
a transport error.

*Planner.* A link may be refused as a cycle although the module graph has none, when
units are batched without ordering edges. Leaf-to-top order is lost through a module in
the middle that is skipped or not selected. A unit whose cyclic peers are stripped does
not wait for what only the peer needs. Of a rename, only the deeper owner is selected.

*Versions.* With `tag_mode = "both"` and the `registry+umbrella` baseline (Rust's default), a module the umbrella
module does not depend on is diffed against an umbrella tag that its own release never
moves: it is released again by every run. The comment at `spine.rs:187` says that it "stays
anchored". With `Projects <- MCApart` in `MCVersionPlan.cfg` TLC finds `Settles` violated in
three states. `docs/commands/release.md:297` says that a bump stages exactly the versions a
later tag produces: that holds for what `Exact` describes. It does not for dependents that
cascaded and are configured above patch (their rewritten manifest makes them
changed), for modules never released with `--pre` or a level flag, or for an override below
the configured level. A dependent that only upgrades is changed at the next run
and gets its own release, which `raised` allows for. `--pre` on a lower channel
(`rc` to `alpha`) plans the version that exists and resumes it, although the module changed:
`docs/commands/release.md:440` says that a changed module always plans onto a fresh tag,
which is so for projects with one channel (`TagsAreFresh`). A bump of an unchanged module
with `--pre` on a lower channel and a level flag stages the version already cut, and the tag
after it releases nothing (`StagedIsTagged` is violated in `MCVersionPlan` once such a request
is added). `--set-version` is compared
with the declared version only, so with tags-only pushes it may cut below the newest
tag.

*Releases.* The pre-pass "runs only for a pushing publish (the hosted phase depends on the pushed
tag)", says `run.rs:99`, and `docs/commands/release.md:328` agrees, but `run.rs:103` asks for
`--no-push` only, and `plan_reconcile_releases` for a tag in the clone only. With `push = false` a
publish leaves a published version whose tag is local, its hosted phase is skipped
(`run.rs:166`, tested at `run.rs:379`), and the next publish asks the forge for that Release after
all, with no tag pushed. With `Disabled` as the only policy TLC finds
`\A m \in Module : \A v \in hosted[m] : remoteTags[m][v] # None` violated in eighteen states of
`MCReleaseRuns`. When the commit of one member fails, members prepared after it stay modified
(`?` at `federated/apply.rs:119`), where the document says the worktree was restored. A
run that tagged some modules of a member and stopped is not refused on the re-run as a
partial tag set, because the tagged modules drop out of the plan. A resumed member is
packaged from the checkout, not from its tags: with tags-only pushes and
`--set-version`, the Release is cut and the registry never gets the version
(`federated/apply.rs:182`). The same packaging may publish the declared version, which
no tag on the remote need name; another clone that has a tag of that name only locally
then takes the version for released and cuts its Release (four runs, tags-only pushes and
one new hosted module). Versions published by a resumed member are `untagged`, and the
invariants of the registry set them aside.

## Proofs

Assumptions: for the executors the finite set of units and, for the walk, well-formed
plans (`PlanAssumption`, what `level` in `plan/prerequisites/link.rs` guarantees and
`PlanningProofs!GatesAlways` proves of what PLAN hands over); for the gate a graph of any
shape; for the walk of the scheduler a finite set of unit numbers (`UnitsAssumption`); for
the pipeline finitely many modules and tasks, edges between modules, an effective task or
none for each, and requests that name no task twice (`PlanAssumption`: the merge of the
request list drops repetitions, `config/sets.rs:83`);
for the watch session an acyclic module graph (`GraphAssumption`); for the driver at least
two round trips; for releases `ReleaseAssumption`; for version decisions finitely many
modules with acyclic dependencies (`VersionAssumption`: modules are decided in topological
order), and the hypothesis `Covered` explained below.

* `GateProofs!LoopComputesFixpoint`. The invariant `LoopHolds` says: what the
  loop blocked is downstream of the failed unit through Pending units, and what
  is downstream is blocked already or reachable from the worklist through units
  still Pending. When the worklist is empty the two give equality. `WalkIsFixpoint`
  alone says nothing while the loop runs, so it is not inductive.
* `GateProofs!GateFailClosed`: from the fixed point, between calls.
* `ApplyWalkProofs!TypeCorrect`: every variable's type; `parallel > 0` is the clamp.
* `ApplyWalkProofs!WalkFailClosed`: a unit starts only when all it depends on is
  satisfied. The walker never looks at the dependencies, so `FailClosed` is not
  inductive: a unit could be queued early, or a wave skipped. `IInv` adds
  `GateClosed` (what is downstream of a failure is not Pending), `EarlierSettled`
  (all of the earlier waves is settled unless the walk is on its way out),
  `QueueSound` (queued units are Pending and of this wave), `TokensHalt` (after a
  trip no wave starts), `FailingSound` and `NothingForgotten` (a failure being
  handled blocks its dependents before anything else starts).
* The walk's other invariants are proved along one chain (`WalkInvStep`), each step lemma
  resting on those before it. `WalkSerializesGroups`: `SlotsSound` says that a slot about to
  be refilled is free, that its group is idle and that every group in flight is behind the
  cursor. `WalkReportsOnce`: `RInv` ties what was emitted for a unit to its gate state, to
  what is held and to what the handler is still to do, and each counter to a set of units.
  `WalkLeavesNothing`: by `ProcessSound` a service that is up has an owner, its worker's
  result or the registry's order. `WalkServesInFlight`: by `OwedSound` the dependents of a held service
  that may still run are among those it waits for; that every service above a unit in flight
  was started at all is `FailClosed` along the closure (`ServicesSatisfied`).
  `WalkRecordsSuccesses`: until an error the recorded keys are those of the reported successes.
* `ApplyWalkProofs!WalkImplementsSchedule`: the refinement, step by step. It needs that
  only a joined unit fails (`FailedRan`) and that all downstream of it waits or is blocked.

* `RuntimeEngineProofs!EngineFailClosed`, on every dependency map, malformed ones
  included. `IInv` adds `ReadySound` (what is or will be launched has all it depends on
  satisfied and stays Pending until it is joined), `GateClosed`, `WavesSettled` (the
  waves driven before have nothing left Pending unless the run was cancelled) and
  `Drained` (nothing in flight between waves and in the sweep).
* `RuntimeEngineProofs!EngineReportsAll`: each unit is reported once and the summary adds
  up. `ReportsSound` ties a unit's reports to its gate state at any moment and
  `CountersSound` the counters to the cardinality of what was reported.
* `RuntimeEngineProofs!EngineImplementsSchedule`: the refinement itself, step by step: an
  engine step is a start, an outcome or a stutter of `UnitSchedule` under the mapping
  `PhaseOf`. It needs `IInv`: the schedule starts a unit only above successes.

* `ChannelProofs!OutputBeforeVerdict` and `ReportedRunsLoseNothing`, for any
  units, capacity and amount of output. `NothingAfterVerdict` alone is not
  inductive, since nothing says that the unit about to be reported is quiet, and
  `Lossless` is not, since a loss must be remembered until the result. `IInv` adds
  `PhaseSound` (what `current` is in each wait), `CurrentQuiet` (once drained,
  nothing of the unit at hand is in the channel or still to be written),
  `ReadySound`, `HeldSound` and `WriterKnown` (which processes may still write),
  `AllJoined` (after the pool's shutdown no worker is left) and `LossKnown` (a
  lost chunk is a sink error or an error result).

* `ReleaseRunsProofs!TagsDeclareVersions`, from `ReleaseAssumption` alone, so for
  `publish --no-push` too, which the run leaves out. `TagDeclaresVersion` alone is
  not inductive, since nothing says what the commit being tagged holds. `IInv` adds,
  for every clone, `LeftSound` (the loop comes to members of the plan and, after the
  preparation, only to members that are cut), `BumpSound` (a cut member's files
  declare the planned versions from its preparation to its commit, and the commit
  does until its tags are cut), `TodoSound` (the loops over modules stay in the plan)
  and `PackageSound` (what will be published was packaged; `TypeCorrect` needs it).
  A clone in the middle of a run is disturbed by no other (`FrameKeeps`), so each
  action is examined in its own clone only.

* `ReleaseRunsProofs!ReleasesAreTagged`, `HostedReleasesArePushed` and
  `TagsNameArtifacts`. `JInv` follows what was packaged of a cut member through its
  files, its commit and its tag to the remote (`FilesSound`, `TagsSound`), which other
  clones can only add to (`RemoteGrows`). A member is resumed only if its tags are on the
  remote (`ResumeSound`): a tag only this clone has is not above the version its commit
  declares (`LocalSound`), no plan is below that version (`LevelSound`), and a plan at a
  tag's version is above it (`PlanAhead`). Then the tag of a published version is on the
  remote and names what was published (`RegistryIsTagged`), which is what reconciling
  relies on. The last two theorems assume `PublishPushes`, that no command line publishes
  with `--no-push`, which is their counterexample (see Bounds); of the policy they assume
  nothing. Where it permits no push `RegistryIsTagged` fails, and `KInv` has the converse in its
  place: the remote's tags stay, and each is of a published version (`RemoteIsPublished`). Then
  a Release is cut by the pre-pass only (`LoopSound`: the hosted phase has nothing to do),
  and `HostedIsPushed` says that its version is published.
* `ReleaseRunsProofs!PublishedVersionsGrow`, under the same assumption. `PublishedKeepsEdits`
  says nothing of a version that is pushed and not yet published, which is the one that can
  violate it next. `Out` is what is published or waits for it after its push, and
  `OrderSound` says, where the policy pushes the branch, that of two versions of a module
  that are out the higher has all edits of the lower, and that the remote branch has every version and edit that is out. A new one
  is above them and has their edits because its push made the branch its commit: the remote
  takes a branch only from a clone that has all of it. `LInv` therefore adds that a clone
  not left behind has all of the remote branch (`BranchSound`), that a run changes the
  versions of a checkout and never its edits (`CheckoutSound`), and that a cut module's commit
  is the one its tag names until the push (`AtHand`). Tags the remote took while it rejected
  the branch are not ordered, so `Out`, not the remote's tags, is what the invariant is
  about: their run publishes nothing, and what a resumed one publishes comes from its
  checkout and is set aside as `untagged`. TLC checked `LInv` on the run's instance first.

* `PlanningProofs`, first part: what the recursive functions of `Layers` come to. Induction
  over the nodes is out of reach (its theorems take an operator), so a finite graph's
  counterexample with the least rank is contradicted instead (`LeastNat`). `Reach` is the
  least closed set (`ReachIsLeast`), whatever the order in which its recursion takes the
  nodes; a function that satisfies the equation of `Levels` exists (`RankedExists`: by the
  number of nodes below) and is the only one, so each level is above those below it
  (`LevelsAboveRise`).
* `PlanningProofs!ComponentsAlways` and `WavesAlways`: Tarjan's algorithm as the code has
  it, with an explicit stack of frames. `WalkInv` says that indices are given out in the
  order of entry (`Counted`, `StackInv`, `FrameInv`), that a frame reaches what was entered
  after it and all on the stack reaches a frame entered no later (`PathInv`), that a low
  link is the index of a unit on the stack that is reached, and not above anything its segment
  has tried (`LowInv`), and that finished components are the cycles and gate on no later
  one (`ComponentInv`, `ExploreInv`). When a frame is the root of its component, what lies
  above it on the stack is that component. Then one pass in the order of the ids is enough:
  `LevelInv` says that each level given is that of `Layers`.
* `PlanningProofs!PlanAlways`: the properties of a plan speak of its end only, so `PlanInv`
  says for each phase what the next one builds on. `Covers`: the active modules include
  what a change may reach. `Expansion`: the nodes that were walked are closed under
  prerequisites and each is active in its task. `Scheduling`: each module that may run is in
  exactly one unit of its task, and units gate on units. `Handed`: each dependency that was
  kept is in the same unit, gated on, or on a cycle of commands that resolve their own
  closure; collapsing, stripping and linking keep it. `Linked`: a unit gates on what the
  needs of its members resolve to, in an earlier wave. From these `GatesAlways`,
  `PrerequisitesAlways`, `BuildsAlways` and `HandoffsAlways` follow, the last two along paths
  of any length.

* `WatchSessionProofs!CacheIsHonest`, for any modules, contents and numbers of edits and
  sessions. `HitsAreHonest` alone says nothing of a tool at work. `IInv` adds
  `StampsPast` (no output and no marker is stamped in the future, so a write invalidates
  every marker), `IdleOutsideApply` and `Keyed` (what a unit read, wrote or was spared is
  what its key says, unless an edit raced with it or below it).
* `ChannelProofs!AnswersAreMatched`: frames have no id, so the invariant is that both
  ends are in step (`InStep`): between round trips both pipes are empty (`AtRest`), within
  one either the request or its one answer is under way (`Waiting`), and after anything
  else the session is being dropped. `KillsAreReported` adds when the watchdog can
  strike (`Struck`) and that a trip is settled once (`Unsettled`).

* `VersionPlanProofs!CutsAscending`, `RunsSettle`, `StagedTagged`, `FloorsCut` and
  `TagsAreFresh`, for any modules, dependencies, levels, command lines, outages and numbers of
  edits and runs. They are theorems of the projects that are `Covered`, since they are
  false of others: either every module is diffed against its own tag and gets one
  (`OwnTags`), or all are diffed against the umbrella's and no module is released without it
  (`UmbrellaTags`; `MCApart` in Noticed is the counterexample without) and there is one
  prerelease channel at most (`OneTrain`). All six projects of the run are; the one with
  two channels has own tags. `StagedTagged` and `TagsAreFresh` assume `OneTrain` of every layout;
  Noticed has what happens without.

  No property is inductive alone: a version ascends because the baseline is the last one
  cut, and that is so because of what the tags name. `VersionInv` says that nothing is
  declared below, or published beside, what was cut (`Ahead`), that a tag names what was
  cut under its version and the last cut has one (`TagsSound`), that the tag a module is
  diffed against holds its last cut even when it is another module's (`Anchored`), that a
  floor was cut or its module is still to be released (`FloorsKept`), what holds after a run
  that came through (`Rest`), and what a bump wrote and people merged (`Staging`). On this
  rest that the baseline is the last cut whether or not the registry answers
  (`BaselineIs`), that with one channel the next version is above it at any level
  (`NextAscends`), so that no planned version has a tag (`NothingExists`), and that with
  several and own tags a plan may repeat the last cut but never be below it: its tag then
  makes the run resume or refuse, and what is cut ascends all the same (`FreshIsAbove`). `Plan` recurses
  over the dependencies; that it satisfies its own equation (`PlanIs`) is by a
  counterexample of least rank, as for `Layers`. `Covered => VersionInv` was checked by TLC
  on the run's instance before it was proved.

Only model-checked: liveness, with it that the walk of the scheduler ends
(`EndsWithWaves`) and that the bridge never stalls a shutdown (`ShutdownNeverStalls`).
Every safety invariant and action property that a passing run checks, these apart, is a
theorem.

## External

`rskit_worker::Pool` (shutdown drains within a grace, then abandons),
`rskit_component` registry (`stop_all` attempts every component, last started
first, and returns an error if one failed), `rskit_process` (cancelled children end;
dropping a ready service's handle stops it). A panic of a worker task is not modelled.

## Not modelled

Reports, `status`, `rehearse`, readiness, the human and JSON renderers, config parsing,
discovery, ecosystem adapters, artifacts (packages, SBOMs, signatures, checksums),
coverage formats, doctor and health: linear I/O, translation of formats or wording, with no
state that outlives a call and nothing for two actors to disagree about. They are most
of the code by lines, and unit tests reach them. Within modelled parts: maintainer-owned
releases, changelogs and version references, hooks, `--base` and `--offline`, the
`--changed` baseline of a watch session, provisioning and composition of members, panics
of worker tasks.

## Plan

Done: the executors, the bridge, the planner, the watch session and its cache, the
driver connection, version decisions and release runs. What would add most next:

1. Maintainer-owned releases in `VersionPlan` and `ReleaseRuns` (`verify_maintainer_tags`
   against partial releases).
2. Two watch sessions at once over one cache.
