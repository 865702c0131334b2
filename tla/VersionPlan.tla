------------------------------ MODULE VersionPlan ------------------------------
(***************************************************************************)
(* How a project's modules get their versions: BumpPlanner decides, module *)
(* by module, from tags, registry and manifests; `release bump` stages the *)
(* decision for a pull request, `release tag` and `release publish` decide *)
(* again and cut what they decided.  A run is one step here: what happens  *)
(* when it stops half way is the subject of ReleaseRuns.                   *)
(*                                                                         *)
(* Modules of one member and ecosystem, owned by Toven, whose manifest     *)
(* declares their version.                                                 *)
(***************************************************************************)
EXTENDS Naturals, Sequences, FiniteSets

CONSTANTS
  Module,
  NoModule,    \* a project without an umbrella module
  Projects,    \* the [release] configurations, see IsProject
  Requests,    \* the command lines, see IsRequest
  Outages,     \* the modules a run's registry lookups may fail for
  Stable,      \* not a prerelease: a number above every channel's
  MaxEdits,    \* bound: changes people commit
  Breaking,    \* which of them break their module's users
  MaxRuns      \* bound: runs of bump, tag and publish

\* <<major, minor, patch, channel, number>>; channels are numbered in their order.
Versions == Nat \X Nat \X Nat \X (1..Stable) \X Nat
NoVersion == <<0, 0, 0, 0, 0>>
First == <<1, 0, 0, Stable, 0>>

Less(v, w) ==
  \/ v[1] < w[1]
  \/ v[1] = w[1] /\ v[2] < w[2]
  \/ v[1] = w[1] /\ v[2] = w[2] /\ v[3] < w[3]
  \/ v[1] = w[1] /\ v[2] = w[2] /\ v[3] = w[3] /\ v[4] < w[4]
  \/ v[1] = w[1] /\ v[2] = w[2] /\ v[3] = w[3] /\ v[4] = w[4] /\ v[5] < w[5]
AtMost(v, w) == ~Less(w, v)
Highest(S) == CHOOSE v \in S \cup {NoVersion} : \A w \in S : AtMost(w, v)

Levels == {"Patch", "Minor", "Major"}

IsProject(p) ==
  /\ p.deps \subseteq Module \X Module           \* <<dependent, dependency>>, no overlay edges
  /\ \E rank \in [Module -> 0..Cardinality(Module)] :   \* decide finds an order
       \A e \in p.deps : rank[e[2]] < rank[e[1]]
  /\ p.level \in [Module -> Levels \cup {"Auto"}]
  /\ p.dependents \in [Module -> {"Bump", "Upgrade"}]   \* dependent_version
  /\ p.excluded \subseteq Module                 \* publication that never releases
  /\ p.umbrella \in Module \cup {NoModule}
  /\ p.tagMode \in {"PerModule", "Umbrella", "Both"}
  /\ p.baseline \in {"OwnTag", "UmbrellaTag", "Registry", "RegistryUmbrella"}
  /\ p.umbrella = NoModule => p.tagMode = "PerModule" /\ p.baseline \in {"OwnTag", "Registry"}
  /\ p.policy \in {"SemverCascade", "Manifest"}
  /\ p.channels \subseteq 1..Stable               \* of prereleases
  /\ p.released \subseteq Module                 \* out at the start

\* The channel is that of --pre; Stable where there is none.
IsRequest(r) ==
  /\ r.levels \in [Module -> Levels \cup {"None"}]
  /\ r.sets \in [Module -> Versions \cup {NoVersion}]
  /\ \A m \in Module : r.levels[m] = "None" \/ r.sets[m] = NoVersion
  /\ r.named \subseteq Module                    \* by a flag of their own
  /\ r.channel \in 1..Stable

ASSUME VersionAssumption ==
  /\ Stable \in Nat \ {0} /\ IsFiniteSet(Module) /\ NoModule \notin Module
  /\ \A p \in Projects : IsProject(p)
  /\ \A r \in Requests : IsRequest(r)
  /\ Outages \subseteq SUBSET Module
  /\ MaxEdits \in Nat /\ MaxRuns \in Nat

VARIABLES
  project,
  files,      \* what the branch holds of each module
  tags,       \* [of, version, commit]: the module's tag and the files it names
  registry,   \* the versions published of each module
  cut,        \* what runs cut of each module, in order
  proposal,   \* what a bump staged: the pull request nobody merged yet, or <<>>
  merged,     \* the last one merged, while nothing else happened, or <<>>
  settled,    \* the last run came through and nothing happened since
  raised,     \* modules of which it raised floors only
  edits, runs

bounds == <<edits, runs>>
vars == <<project, files, tags, registry, cut, proposal, merged, settled, raised, bounds>>

Deps(m) == {d \in Module : <<m, d>> \in project.deps}
Excluded(m) == m \in project.excluded

\* The tags a layout creates: entry_tag_selected.
Selected(p, m) == p.tagMode \in {"Both", IF m = p.umbrella THEN "Umbrella" ELSE "PerModule"}

Init ==
  /\ project \in Projects
  /\ files = [m \in Module |-> [edits |-> {}, version |-> First,
                                floors |-> [d \in Deps(m) |-> First]]]
  /\ tags = {[of |-> m, version |-> First, commit |-> files] :
               m \in {n \in project.released : Selected(project, n)}}
  /\ registry = [m \in Module |-> IF m \in project.released THEN {First} ELSE {}]
  /\ cut = [m \in Module |-> IF m \in project.released THEN <<First>> ELSE <<>>]
  /\ proposal = <<>> /\ merged = <<>> /\ settled = FALSE /\ raised = {}
  /\ edits = 0 /\ runs = 0
-----------------------------------------------------------------------------
(* next_version. *)

StableBump(v, level) ==
  CASE level = "Major" -> <<v[1] + 1, 0, 0, Stable, 0>>
    [] level = "Minor" -> <<v[1], v[2] + 1, 0, Stable, 0>>
    \* a pending prerelease is finalized
    [] level = "Patch" -> <<v[1], v[2], IF v[4] = Stable THEN v[3] + 1 ELSE v[3], Stable, 0>>

\* Mutant: every prerelease starts a train.
NextTrain(v, level, channel) ==
  LET base == StableBump(v, level) IN
  IF channel = Stable THEN base ELSE <<base[1], base[2], base[3], channel, 1>>

NextVersion(v, level, channel) ==
  LET base == StableBump(v, level)
      continuing == v[4] = channel /\ \A i \in 1..3 : base[i] = v[i]
  IN IF channel = Stable THEN base
     ELSE <<base[1], base[2], base[3], channel, IF continuing THEN v[5] + 1 ELSE 1>>
-----------------------------------------------------------------------------
(* detect_in_order: baselines and what changed since.                       *)

OnUmbrella == project.baseline \in {"UmbrellaTag", "RegistryUmbrella"}
OnRegistry == project.baseline \in {"Registry", "RegistryUmbrella"}

\* Mutant: a module is diffed against its own tags, whatever the layout.
OwnAnchor(m) ==
  LET own == {t \in tags : t.of = m}
  IN {t \in own : t.version = Highest({s.version : s \in own})}

\* The newest tag the module is diffed against; a set of one or none.
Anchor(m) ==
  LET own == {t \in tags : t.of = IF OnUmbrella THEN project.umbrella ELSE m}
  IN {t \in own : t.version = Highest({s.version : s \in own})}

\* The baseline's version; unseen are the modules whose registry lookup fails.
Baseline(m, unseen) ==
  Highest({IF OnUmbrella THEN t.commit[m].version ELSE t.version : t \in Anchor(m)}
          \cup (IF OnRegistry /\ m \notin unseen THEN registry[m] ELSE {}))

IsInitial(m, unseen) == Anchor(m) = {} /\ Baseline(m, unseen) = NoVersion

\* Without a tag to diff against, everything is unreleased.
Changed(m) == \A t \in Anchor(m) : files[m] # t.commit[m]
Broken(m) == ~ (files[m].edits \cap Breaking \subseteq UNION {t.commit[m].edits : t \in Anchor(m)})
-----------------------------------------------------------------------------
(* BumpPlanner.                                                             *)

Forces(request, m) == request.levels[m] # "None" \/ request.sets[m] # NoVersion

SeedsRelease(request, m, unseen) ==
  \/ Changed(m) \/ Forces(request, m)
  \/ /\ project.policy = "Manifest" /\ ~IsInitial(m, unseen)
     /\ Less(Baseline(m, unseen), files[m].version)

\* select_level; "None" raises floors only.
SelectLevel(request, m, seed) ==
  IF request.levels[m] # "None" THEN request.levels[m]
  ELSE IF ~seed THEN IF project.dependents[m] = "Upgrade" THEN "None" ELSE "Patch"
  ELSE IF project.level[m] # "Auto" THEN project.level[m]
  ELSE IF Broken(m) THEN "Minor" ELSE "Patch"

\* A prerelease must be of a channel the project has: effective_channel.
Recognized(channel) == channel \in project.channels \cup {Stable}

\* resolve_bump refuses: --set-version must exceed the declared version, and under the
\* manifest policy a run that tags must find the declared version ahead.
Rejects(intent, request, m, seed, unseen) ==
  LET current == files[m].version IN
  IF request.sets[m] # NoVersion THEN AtMost(request.sets[m], current)
  ELSE /\ SelectLevel(request, m, seed) # "None"
       /\ \/ ~Recognized(request.channel)
          \/ /\ project.policy = "Manifest" /\ request.levels[m] = "None" /\ intent = "Verify"
             /\ ~(IsInitial(m, unseen) /\ seed) /\ AtMost(current, Baseline(m, unseen))

\* Mutant: the increment is anchored on the declared version.
ComputedFromDeclared(m, level, channel, unseen) == NextVersion(files[m].version, level, channel)

\* The computed path: the increment is anchored on the baseline, and a manifest that
\* is ahead of the target already is cut as it is.
Computed(m, level, channel, unseen) ==
  LET current == files[m].version
      base == Baseline(m, unseen)
      anchor == IF base = NoVersion THEN current ELSE base
  IN Highest({current, NextVersion(anchor, level, channel)})

\* resolve_bump, where it does not refuse.
ResolveBump(request, m, seed, unseen) ==
  LET current == files[m].version
      level == SelectLevel(request, m, seed)
  IN IF request.sets[m] # NoVersion THEN request.sets[m]
     ELSE IF IsInitial(m, unseen) /\ seed /\ request.levels[m] = "None" /\ request.channel = Stable
     THEN current
     ELSE IF level = "None" THEN NoVersion
     ELSE IF project.policy = "Manifest" /\ request.levels[m] = "None"
     THEN IF AtMost(current, Baseline(m, unseen)) THEN NoVersion ELSE current
     ELSE Computed(m, level, request.channel, unseen)

\* The planned version of m when floors are the dependencies that get one.
OwnVersion(request, m, seed, floors, unseen) ==
  IF Excluded(m) \/ (~seed /\ floors = {}) THEN NoVersion
  ELSE ResolveBump(request, m, seed, unseen)

\* decide, dependencies first: the version and the floors to raise of each module.
Plan(request, unseen) ==
  LET decide[m \in Module] ==
        LET floors == {d \in Deps(m) : decide[d].version # NoVersion}
        IN [floors |-> floors,
            version |-> OwnVersion(request, m, SeedsRelease(request, m, unseen), floors, unseen)]
  IN [m \in Module |-> decide[m]]

Cuts(plan) == {m \in Module : plan[m].version # NoVersion}
Entries(plan) == Cuts(plan) \cup {m \in Module : plan[m].floors # {}}

\* Some decide fails, or finish: an override names a module that is not released.
Refused(intent, request, plan, unseen) ==
  \/ request.named \cap project.excluded # {}
  \/ project.policy = "Manifest" /\ request.channel # Stable
  \/ \E m \in Module \ project.excluded :
       LET seed == SeedsRelease(request, m, unseen) IN
       (seed \/ plan[m].floors # {}) /\ Rejects(intent, request, m, seed, unseen)
  \* validate_umbrella_tag_cut
  \/ /\ intent = "Verify" /\ project.tagMode = "Umbrella"
     /\ Cuts(plan) # {} /\ project.umbrella \notin Cuts(plan)
-----------------------------------------------------------------------------
(* What runs do with the plan.                                              *)

\* Mutant: floors are raised to what the dependency declared before the run.
WrittenStaleFloors(plan) == [m \in Module |->
  [files[m] EXCEPT
    !.version = IF m \in Cuts(plan) THEN plan[m].version ELSE @,
    !.floors = [d \in Deps(m) |-> IF d \in plan[m].floors THEN files[d].version ELSE @[d]]]]

\* mutate_manifests.
Written(plan) == [m \in Module |->
  [files[m] EXCEPT
    !.version = IF m \in Cuts(plan) THEN plan[m].version ELSE @,
    !.floors = [d \in Deps(m) |-> IF d \in plan[m].floors THEN plan[d].version ELSE @[d]]]]

\* preflight_tags.
Tagged(plan) == {m \in Cuts(plan) : Selected(project, m)}
Existing(plan) == {m \in Tagged(plan) : \E t \in tags : t.of = m /\ t.version = plan[m].version}

\* publish_needed, by the registry's answer.
PublishNeeded(plan, unseen) ==
  {m \in Cuts(plan) : m \in unseen \/ Less(Highest(registry[m]), plan[m].version)}
Published(verb, plan, unseen) == [m \in Module |->
  registry[m] \cup (IF verb = "publish" /\ m \in PublishNeeded(plan, unseen)
                    THEN {plan[m].version} ELSE {})]

\* What a later tag decides alike, see StagedIsTagged.
Exact(request, m, unseen) ==
  /\ SeedsRelease(request, m, unseen) /\ ~Forces(request, m)
  /\ request.channel = Stable \/ ~IsInitial(m, unseen)

\* release_bump: the decision is staged and people open a pull request, or update it.
Bump(request, plan, unseen) ==
  /\ ~Refused("Bump", request, plan, unseen) /\ Entries(plan) # {}
  /\ proposal' = [written |-> Written(plan), plan |-> plan, channel |-> request.channel,
                  exact |-> {m \in Cuts(plan) : Exact(request, m, unseen)}, intact |-> TRUE]
  /\ UNCHANGED <<files, tags, registry, cut, merged, settled, raised>>

\* release_run, under the Verify intent: manifests, commit and tags; an open pull
\* request conflicts and is closed.
Cut(verb, request, plan, unseen) ==
  /\ ~Refused("Verify", request, plan, unseen)
  /\ Entries(plan) # {} /\ Existing(plan) = {}
  /\ files' = Written(plan)
  /\ tags' = tags \cup {[of |-> m, version |-> plan[m].version, commit |-> files'] :
                          m \in Tagged(plan)}
  /\ cut' = [m \in Module |-> IF m \in Cuts(plan) THEN Append(cut[m], plan[m].version)
                              ELSE cut[m]]
  /\ registry' = Published(verb, plan, unseen)
  /\ settled' = TRUE /\ raised' = Entries(plan) \ Cuts(plan)
  /\ proposal' = <<>> /\ merged' = <<>>

\* TagPreflight::Resume: the planned tags are all there, nothing is left but to publish.
Resume(verb, request, plan, unseen) ==
  /\ ~Refused("Verify", request, plan, unseen)
  /\ Tagged(plan) # {} /\ Existing(plan) = Tagged(plan)
  /\ registry' = Published(verb, plan, unseen)
  /\ settled' = FALSE /\ raised' = {}
  /\ UNCHANGED <<files, tags, cut, proposal, merged>>

NothingToRelease(request, plan, unseen) ==
  /\ ~Refused("Verify", request, plan, unseen) /\ Entries(plan) = {}
  /\ settled' = TRUE /\ raised' = {}
  /\ UNCHANGED <<files, tags, registry, cut, proposal, merged>>

\* A publish and a failed lookup matter where baselines read the registry.
Run ==
  /\ runs < MaxRuns /\ runs' = runs + 1 /\ UNCHANGED <<project, edits>>
  /\ \E request \in Requests, unseen \in IF OnRegistry THEN Outages ELSE {{}} :
       \E plan \in {Plan(request, unseen)} :
         \/ Bump(request, plan, unseen)
         \/ NothingToRelease(request, plan, unseen)
         \/ \E verb \in IF OnRegistry THEN {"tag", "publish"} ELSE {"tag"} :
              Cut(verb, request, plan, unseen) \/ Resume(verb, request, plan, unseen)
-----------------------------------------------------------------------------
(* What people do.                                                          *)

Happened ==
  /\ merged' = <<>> /\ settled' = FALSE
  /\ proposal' = IF proposal = <<>> THEN <<>> ELSE [proposal EXCEPT !.intact = FALSE]

Edit(m) ==
  /\ edits < MaxEdits /\ edits' = edits + 1
  /\ files' = [files EXCEPT ![m].edits = @ \cup {edits'}]
  /\ Happened
  /\ UNCHANGED <<project, tags, registry, cut, raised, runs>>

\* A manifest's version is raised by hand, as the manifest policy asks.
Declare(m) ==
  /\ project.policy = "Manifest" /\ proposal = <<>>
  /\ edits < MaxEdits /\ edits' = edits + 1
  /\ files' = [files EXCEPT ![m].version = StableBump(@, "Patch")]
  /\ Happened
  /\ UNCHANGED <<project, tags, registry, cut, raised, runs>>

\* The pull request lands, on whatever was committed meanwhile.
Merge ==
  /\ proposal # <<>>
  /\ files' = [m \in Module |-> [files[m] EXCEPT !.version = proposal.written[m].version,
                                                 !.floors = proposal.written[m].floors]]
  /\ merged' = IF proposal.intact THEN proposal ELSE <<>>
  /\ proposal' = <<>> /\ settled' = FALSE
  /\ UNCHANGED <<project, tags, registry, cut, raised, bounds>>

Next ==
  \/ Run \/ Merge
  \/ \E m \in Module : Declare(m) \/ Edit(m)

Spec == Init /\ [][Next]_vars
-----------------------------------------------------------------------------
(* Properties.                                                              *)

Plain == [levels |-> [m \in Module |-> "None"], sets |-> [m \in Module |-> NoVersion],
          named |-> {}, channel |-> Stable]

\* A run that came through leaves nothing to release: whatever the layout of tags and
\* baselines, the next run seeds no module that nobody touched, except one whose floors
\* were raised without a version of its own (seeds_release, plan.rs).
Settles ==
  settled => \A unseen \in Outages, m \in Module \ project.excluded :
               SeedsRelease(Plain, m, unseen) => m \in raised

\* "The versions a bump stages are exactly the versions a later tag would produce": for
\* a module that changed and was decided by its configuration.  A cascaded or overridden
\* one is never tagged below what was staged (resolve_bump, the computed path).
StagedIsTagged ==
  merged # <<>> => \A unseen \in Outages :
    LET request == [Plain EXCEPT !.channel = merged.channel]
        plan == Plan(request, unseen)
    IN ~Refused("Verify", request, plan, unseen) =>
         \A m \in Cuts(merged.plan) :
           /\ m \in merged.exact => plan[m].version = merged.plan[m].version
           /\ AtMost(merged.plan[m].version, plan[m].version)

WasCut(m, version) == \E i \in DOMAIN cut[m] : cut[m][i] = version

\* No released manifest that is tagged asks for a version of a dependency that was never
\* cut: floors follow what was planned, and what was planned is cut (decide, plan.rs).
FloorsAreCut ==
  \A t \in tags : \A m \in IF t.of = project.umbrella THEN Module ELSE {t.of} :
    \A d \in Deps(m) \ project.excluded : WasCut(d, t.commit[m].floors[d])

\* What is cut of a module ascends, whether its baseline is its tag, the umbrella's or
\* the registry's, and whichever of them could be read (resolve_baseline, next_version).
CutsAscend ==
  \A m \in Module : \A i, j \in DOMAIN cut[m] : i < j => Less(cut[m][i], cut[m][j])
=============================================================================
