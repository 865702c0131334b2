------------------------------ MODULE ReleaseRuns ------------------------------
(***************************************************************************)
(* Runs of `release tag` and `release publish` over the members of a       *)
(* federated project, in several clones that share the remotes, the        *)
(* registry and the forge.  A run may fail or be killed between any two of *)
(* its steps, and what a later run finds is what the earlier ones left.    *)
(*                                                                         *)
(* Modules are owned by Toven, tagged one by one (tag_format per module),  *)
(* anchored on their own tags, and published to a registry.                *)
(***************************************************************************)
EXTENDS Naturals, FiniteSets
LOCAL INSTANCE Relation

CONSTANTS
  Clone,        \* checkouts of the project: a developer's, a CI job's
  Member,       \* member repositories
  Module,
  MemberOf,     \* the repository of each module
  DependsOn,    \* <<dependent, dependency>>, within one member and ecosystem
  Rank,         \* publish_ranks: the order of the plan, dependencies first
  Developed,    \* the modules people commit changes to, and in which clone
  Hosted,       \* modules whose [release].host names a forge
  PushPolicies, \* what [release] may say: push and push_branch, as PushPolicy
  Released,     \* modules whose version 1 is out at the start
  RunOptions,   \* the command lines: [publish, noPush, setVersion], 0 for unset
  MaxVersion,   \* bound: versions are 1..MaxVersion
  MaxEdits,     \* bound: edits committed over all clones
  MaxRuns       \* bound: runs started over all clones

ASSUME ReleaseAssumption ==
  /\ MemberOf \in [Module -> Member]
  /\ \A e \in DependsOn : e \in Module \X Module /\ MemberOf[e[1]] = MemberOf[e[2]]
  /\ Rank \in [Module -> Nat] /\ \A m, n \in Module : Rank[m] = Rank[n] => m = n
  /\ \A e \in DependsOn : Rank[e[2]] < Rank[e[1]]
  /\ Developed \subseteq Clone \X Module
  /\ Hosted \subseteq Module /\ Released \subseteq Module
  /\ PushPolicies \subseteq {"Disabled", "BranchAndTags", "TagsOnly"}
  /\ MaxVersion \in Nat \ {0} /\ MaxEdits \in Nat /\ MaxRuns \in Nat
  /\ RunOptions \subseteq [publish : BOOLEAN, noPush : BOOLEAN, setVersion : 0..MaxVersion]

VARIABLES
  policy,     \* the PushPolicy of the project
  head,       \* what each clone's checked-out commit holds of each module
  worktree,   \* and its files
  tags,       \* the release tags each clone has: what they name of the module
  stale,      \* members whose remote branch moved since the clone was made
  remoteHead, remoteTags,
  registry,   \* the artifact published as each version
  hosted,     \* versions with a Release on the forge
  untagged,   \* history: versions published from the checkout of a resumed member
  pc,         \* the phase of each clone's run, or how its last run ended
  options,    \* its command line
  planned,    \* the plan: the version of each module that has an entry, else 0
  needed,     \* entries with publish_needed
  resumed,    \* members in TagPreflight::Resume
  left,       \* members the current loop has not come to
  at,         \* the member being committed, tagged and pushed
  todo,       \* modules the current loop has not come to
  artifact,   \* what was packaged
  created,    \* the reconcile pre-pass created a Release
  edits, runs \* counters, for the bounds

repos == <<head, worktree, tags, stale>>
public == <<remoteHead, remoteTags, registry, hosted, untagged>>
locals == <<planned, needed, resumed, left, at, todo, artifact, created>>
counters == <<edits, runs>>
run == <<pc, options, locals>>
vars == <<policy, repos, public, run, counters>>

Version == 1..MaxVersion
\* Files: the edits they include and the version the manifest declares.
Content == [edits : SUBSET (1..MaxEdits), version : Version]
None == [edits |-> {}, version |-> 0]

First(S) == CHOOSE m \in S : \A n \in S : Rank[m] <= Rank[n]
Modules(r) == {m \in Module : MemberOf[m] = r}
Known(published) == {v \in Version : published[v] # None}
Newest(published) ==
  CHOOSE v \in 0..MaxVersion : /\ v \in Known(published) \cup {0}
                               /\ \A w \in Known(published) : w <= v

Unplanned == [m \in Module |-> 0]
Unpackaged == [m \in Module |-> None]
NoOptions == [publish |-> FALSE, noPush |-> FALSE, setVersion |-> 0]

Init ==
  /\ policy \in PushPolicies
  /\ remoteHead = [m \in Module |-> [edits |-> {}, version |-> 1]]
  /\ remoteTags = [m \in Module |-> [v \in Version |->
       IF m \in Released /\ v = 1 THEN remoteHead[m] ELSE None]]
  /\ head = [c \in Clone |-> remoteHead] /\ worktree = head
  /\ tags = [c \in Clone |-> remoteTags]
  /\ stale = [c \in Clone |-> {}]
  /\ registry = remoteTags
  /\ hosted = [m \in Module |-> IF m \in Hosted \cap Released THEN {1} ELSE {}]
  /\ untagged = [m \in Module |-> {}]
  /\ pc = [c \in Clone |-> "idle"] /\ options = [c \in Clone |-> NoOptions]
  /\ planned = [c \in Clone |-> Unplanned] /\ needed = [c \in Clone |-> {}]
  /\ resumed = [c \in Clone |-> {}] /\ left = [c \in Clone |-> {}]
  /\ at = [c \in Clone |-> {}] /\ todo = [c \in Clone |-> {}]
  /\ artifact = [c \in Clone |-> Unpackaged] /\ created = [c \in Clone |-> FALSE]
  /\ edits = 0 /\ runs = 0
-----------------------------------------------------------------------------
(* What people do between runs. *)

\* A change to a module is committed.
Edit(c, m) ==
  /\ <<c, m>> \in Developed /\ pc[c] = "idle" /\ edits < MaxEdits
  /\ worktree[c][m] = head[c][m]
  /\ edits' = edits + 1
  /\ head' = [head EXCEPT ![c][m].edits = @ \cup {edits'}]
  /\ worktree' = [worktree EXCEPT ![c][m].edits = @ \cup {edits'}]
  /\ UNCHANGED <<policy, tags, stale, public, run, runs>>

\* The remote branch of r becomes that of c: every other clone is behind.
Behind(c, r) == stale' = [d \in Clone |-> stale[d] \cup (IF d = c THEN {} ELSE {r})]
Landed(c, r) == [m \in Module |-> IF MemberOf[m] = r THEN head[c][m] ELSE remoteHead[m]]

\* The branch is pushed by hand or merged.
Land(c, r) ==
  /\ pc[c] = "idle" /\ r \notin stale[c]
  /\ Landed(c, r) # remoteHead
  /\ remoteHead' = Landed(c, r) /\ Behind(c, r)
  /\ UNCHANGED <<policy, head, worktree, tags, remoteTags, registry, hosted, untagged,
                 run, counters>>

\* A new CI checkout, or local commits and tags discarded.
FreshClone(c) ==
  /\ pc[c] = "idle"
  /\ <<head[c], worktree[c], tags[c], stale[c]>> # <<remoteHead, remoteHead, remoteTags, {}>>
  /\ head' = [head EXCEPT ![c] = remoteHead] /\ worktree' = [worktree EXCEPT ![c] = remoteHead]
  /\ tags' = [tags EXCEPT ![c] = remoteTags] /\ stale' = [stale EXCEPT ![c] = {}]
  /\ UNCHANGED <<policy, public, run, counters>>

\* git restore after a run that left its mutations behind.
CleanUp(c) ==
  /\ pc[c] = "idle" /\ worktree[c] # head[c]
  /\ worktree' = [worktree EXCEPT ![c] = head[c]]
  /\ UNCHANGED <<policy, head, tags, stale, public, run, counters>>
-----------------------------------------------------------------------------
(* The plan. *)

\* detect_in_order: the module differs from its newest tag, or never had one.
Changed(c, m) ==
  LET base == Newest(tags[c][m]) IN
  \/ base = 0 \/ head[c][m] # tags[c][m][base]
  \/ worktree[c][m] # head[c][m]

\* --set-version is refused unless it exceeds every declared version.
SetTooLow(c) == \E m \in Module : options[c].setVersion \in 1..worktree[c][m].version

\* The increment is anchored on the baseline; a manifest ahead of it is cut as it is.
Bumped(c, m) ==
  LET base == Newest(tags[c][m])  current == worktree[c][m].version IN
  IF base = 0 \/ current > base THEN current ELSE base + 1

\* A changed module, and whatever depends on one: its floors, so its own patch.
Upon == ReflexiveTransitiveClosure([m, n \in Module |-> <<m, n>> \in DependsOn], Module)

Releases(c) == LET changed == {n \in Module : Changed(c, n)}
               IN {m \in Module : \E n \in changed : Upon[m, n]}

Plan(c) ==
  LET due == Releases(c) IN
  [m \in Module |-> IF options[c].setVersion > 0 THEN options[c].setVersion
                    ELSE IF m \in due THEN Bumped(c, m) ELSE 0]

\* idempotency(): unseen are the modules whose registry lookup failed.
PublishNeeded(plan, unseen) ==
  {m \in Module : plan[m] > 0 /\ (m \in unseen \/ plan[m] > Newest(registry[m]))}

\* No version beyond the bound.
Bounded(plan) == plan \in [Module -> 0..MaxVersion]

Entries(plan) == {m \in Module : plan[m] > 0}
ShardsOf(plan) == {MemberOf[m] : m \in Entries(plan)}

\* preflight_tags, against the tags of this clone.
Existing(c, plan, r) == {m \in Modules(r) \cap Entries(plan) : tags[c][m][plan[m]] # None}
Fresh(c, plan, r) == Existing(c, plan, r) = {}
Resumes(c, plan, r) == Existing(c, plan, r) = Modules(r) \cap Entries(plan)

\* guard_clean_tree, and no member whose tags exist in part.
Admitted(c, plan) == \A r \in ShardsOf(plan) :
  /\ \A m \in Modules(r) : worktree[c][m] = head[c][m]
  /\ Fresh(c, plan, r) \/ Resumes(c, plan, r)
-----------------------------------------------------------------------------
(* release_run. *)

PermitsPush == policy # "Disabled"

Pushes(c) == PermitsPush /\ ~options[c].noPush

\* The end of a run; its locals are forgotten.
Ends(c) ==
  /\ pc' = [pc EXCEPT ![c] = "idle"] /\ options' = [options EXCEPT ![c] = NoOptions]
  /\ planned' = [planned EXCEPT ![c] = Unplanned] /\ needed' = [needed EXCEPT ![c] = {}]
  /\ resumed' = [resumed EXCEPT ![c] = {}] /\ left' = [left EXCEPT ![c] = {}]
  /\ at' = [at EXCEPT ![c] = {}] /\ todo' = [todo EXCEPT ![c] = {}]
  /\ artifact' = [artifact EXCEPT ![c] = Unpackaged] /\ created' = [created EXCEPT ![c] = FALSE]

\* plan_reconcile_releases: published, and tagged as far as this clone knows.  Neither
\* this nor Start asks what the policy is.
Reconcilable(c) ==
  {m \in Hosted : LET v == Newest(registry[m]) IN v \in Known(registry[m]) /\ tags[c][m][v] # None}

Start(c) ==
  /\ pc[c] = "idle" /\ runs < MaxRuns /\ runs' = runs + 1
  /\ \E o \in RunOptions :
       /\ options' = [options EXCEPT ![c] = o]
       /\ IF o.publish /\ ~o.noPush
          THEN /\ pc' = [pc EXCEPT ![c] = "reconcile"]
               /\ todo' = [todo EXCEPT ![c] = Reconcilable(c)]
               /\ planned' = [planned EXCEPT ![c] =
                    [m \in Module |-> IF m \in Reconcilable(c) THEN Newest(registry[m]) ELSE 0]]
          ELSE pc' = [pc EXCEPT ![c] = "plan"] /\ UNCHANGED <<todo, planned>>
  /\ UNCHANGED <<policy, repos, public, needed, resumed, left, at, artifact, created,
                 edits>>

\* ensure_release of the version at hand: a forge may refuse it (Stops), also for a tag
\* it does not have.
Hosts(c, m) ==
  /\ m \in todo[c]
  /\ hosted' = [hosted EXCEPT ![m] = @ \cup {planned[c][m]}]
  /\ todo' = [todo EXCEPT ![c] = @ \ {m}]

Reconcile(c, m) ==
  /\ pc[c] = "reconcile" /\ Hosts(c, m)
  /\ created' = [created EXCEPT ![c] = @ \/ planned[c][m] \notin hosted[m]]
  /\ UNCHANGED <<policy, repos, remoteHead, remoteTags, registry, untagged, pc, options,
                 planned, needed, resumed, left, at, artifact, counters>>

\* A Release was missing: the run is over.
Reconciled(c) ==
  /\ pc[c] = "reconcile" /\ todo[c] = {} /\ created[c]
  /\ Ends(c)
  /\ UNCHANGED <<policy, repos, public, counters>>

NothingToReconcile(c) ==
  /\ pc[c] = "reconcile" /\ todo[c] = {} /\ ~created[c]
  /\ pc' = [pc EXCEPT ![c] = "plan"] /\ planned' = [planned EXCEPT ![c] = Unplanned]
  /\ UNCHANGED <<policy, repos, public, options, needed, resumed, left, at, todo,
                 artifact, created, counters>>

NothingToRelease(c) ==
  /\ pc[c] = "plan" /\ ~SetTooLow(c) /\ Plan(c) = Unplanned
  /\ Ends(c)
  /\ UNCHANGED <<policy, repos, public, counters>>

Refused(c) ==
  /\ pc[c] = "plan"
  /\ LET plan == Plan(c) IN SetTooLow(c) \/ (Bounded(plan) /\ ~Admitted(c, plan))
  /\ Ends(c)
  /\ UNCHANGED <<policy, repos, public, counters>>

Planned(c) ==
  /\ pc[c] = "plan" /\ ~SetTooLow(c)
  /\ LET plan == Plan(c) IN
     /\ plan # Unplanned /\ Bounded(plan) /\ Admitted(c, plan)
     /\ planned' = [planned EXCEPT ![c] = plan]
     /\ \E unseen \in SUBSET {m \in Entries(plan) : Newest(registry[m]) > 0} :
          needed' = [needed EXCEPT ![c] = PublishNeeded(plan, unseen)]
     /\ resumed' = [resumed EXCEPT ![c] = {r \in ShardsOf(plan) : Resumes(c, plan, r)}]
     /\ left' = [left EXCEPT ![c] = ShardsOf(plan)]
  /\ pc' = [pc EXCEPT ![c] = "prepare"]
  /\ UNCHANGED <<policy, repos, public, options, at, todo, artifact, created, counters>>
-----------------------------------------------------------------------------
(* Prepare: every member, before any is committed. *)

Shards(c) == ShardsOf(planned[c])
InPlan(c, r) == Modules(r) \cap Entries(planned[c])

\* The shard the loop comes to next.
NextIs(c, r) == /\ r \in left[c]
                /\ r = MemberOf[First({m \in Entries(planned[c]) : MemberOf[m] \in left[c]})]

\* The members whose manifests are written: not the resumed ones.
Cut(c) == Shards(c) \ resumed[c]

\* The worktree once apply_release wrote the planned versions of r.
Written(c, r) == [m \in Module |->
  IF r \notin resumed[c] /\ m \in InPlan(c, r)
  THEN [worktree[c][m] EXCEPT !.version = planned[c][m]] ELSE worktree[c][m]]

\* The loops over members are over.
StartsPublishing(c) ==
  /\ pc' = [pc EXCEPT ![c] = "publish"]
  /\ todo' = [todo EXCEPT ![c] = IF options[c].publish THEN needed[c] ELSE {}]

\* Mutant: packaged first, written afterwards.
PackagedFirst(c, r, m) == worktree[c][m]

\* What is packaged of m: its files once written.
Packaged(c, r, m) == Written(c, r)[m]

Prepare(c, r) ==
  /\ pc[c] = "prepare" /\ NextIs(c, r)
  /\ worktree' = [worktree EXCEPT ![c] = Written(c, r)]
  /\ artifact' = [artifact EXCEPT ![c] = [m \in Module |->
       IF m \in needed[c] \cap Modules(r) THEN Packaged(c, r, m) ELSE @[m]]]
  /\ IF left[c] # {r} THEN left' = [left EXCEPT ![c] = @ \ {r}] /\ UNCHANGED <<pc, todo>>
     ELSE /\ left' = [left EXCEPT ![c] = Cut(c)]
          /\ IF Cut(c) = {} THEN StartsPublishing(c)
             ELSE pc' = [pc EXCEPT ![c] = "commit"] /\ UNCHANGED todo
  /\ UNCHANGED <<policy, head, tags, stale, public, options, planned, needed, resumed, at,
                 created, counters>>

\* Members the loops come to before r.
Earlier(c, r) == {s \in Cut(c) : Rank[First(InPlan(c, s))] < Rank[First(InPlan(c, r))]}

\* An error while r is prepared restores r, then those prepared before it from the
\* last to the first.  The first failed restore ends that; kept are not restored.
PrepareFails(c, r) ==
  /\ pc[c] = "prepare" /\ NextIs(c, r)
  /\ LET written == Cut(c) \ (left[c] \ {r}) IN
     \E kept \in SUBSET written :
       /\ \A s \in kept \ {r} : Earlier(c, s) \subseteq kept
       /\ worktree' = [worktree EXCEPT ![c] = [m \in Module |->
            IF MemberOf[m] \in written \ kept THEN head[c][m] ELSE Written(c, r)[m]]]
       /\ Ends(c)
  /\ UNCHANGED <<policy, head, tags, stale, public, counters>>
-----------------------------------------------------------------------------
(* commit_member_shard: commit, tag, push; one member after the other. *)

\* Mutant: nothing is staged, the commit is empty.
CommittedUnstaged(c, r) == head[c]

\* The rewritten manifests are staged and committed.
Committed(c, r) == [m \in Module |-> IF m \in InPlan(c, r) THEN worktree[c][m] ELSE head[c][m]]

\* A member without rewritten manifests is tagged where it stands.
Commit(c, r) ==
  /\ pc[c] = "commit" /\ NextIs(c, r)
  /\ head' = [head EXCEPT ![c] = Committed(c, r)]
  /\ left' = [left EXCEPT ![c] = @ \ {r}] /\ at' = [at EXCEPT ![c] = {r}]
  /\ todo' = [todo EXCEPT ![c] = InPlan(c, r)] /\ pc' = [pc EXCEPT ![c] = "tag"]
  /\ UNCHANGED <<policy, worktree, tags, stale, public, options, planned, needed, resumed,
                 artifact, created, counters>>

\* Only r is restored, if that: the other members stay as prepared.
CommitFails(c, r) ==
  /\ pc[c] = "commit" /\ NextIs(c, r)
  /\ \E m \in Modules(r) : worktree[c][m] # head[c][m]
  /\ \E restored \in SUBSET {r} :
       worktree' = [worktree EXCEPT ![c] = [m \in Module |->
         IF MemberOf[m] \in restored THEN head[c][m] ELSE @[m]]]
  /\ Ends(c)
  /\ UNCHANGED <<policy, head, tags, stale, public, counters>>

Tag(c, m) ==
  /\ pc[c] = "tag" /\ m \in todo[c] /\ m = First(todo[c]) /\ tags[c][m][planned[c][m]] = None
  /\ tags' = [tags EXCEPT ![c][m][planned[c][m]] = head[c][m]]
  /\ todo' = [todo EXCEPT ![c] = @ \ {m}]
  /\ pc' = IF todo[c] = {m} THEN [pc EXCEPT ![c] = "push"] ELSE pc
  /\ UNCHANGED <<policy, head, worktree, stale, public, options, planned, needed, resumed,
                 left, at, artifact, created, counters>>

NextShard(c) ==
  /\ at' = [at EXCEPT ![c] = {}]
  /\ IF left[c] = {} THEN StartsPublishing(c)
     ELSE pc' = [pc EXCEPT ![c] = "commit"] /\ UNCHANGED todo
  /\ UNCHANGED <<options, planned, needed, resumed, left, artifact, created>>

KeepLocal(c) ==
  /\ pc[c] = "push" /\ ~Pushes(c)
  /\ NextShard(c)
  /\ UNCHANGED <<policy, repos, public, counters>>

\* Mutant: the branch is left out of the refspecs.
PushesBranchNever == FALSE

PushesBranch == policy = "BranchAndTags"

\* Mutant: rejected refs do not fail the push.
PushAlwaysSucceeds(c, r, accepted) == TRUE

\* One rejected ref fails the push.
PushSucceeds(c, r, accepted) == accepted = InPlan(c, r) /\ (PushesBranch => r \notin stale[c])

\* Each ref is accepted or rejected by itself: a tag the remote has as another
\* object is rejected, and so is a branch that moved.  The same content may be
\* tagged by another object.
Acceptable(c, r) ==
  LET new == {m \in InPlan(c, r) : remoteTags[m][planned[c][m]] = None}
      same == {m \in InPlan(c, r) : remoteTags[m][planned[c][m]] = tags[c][m][planned[c][m]]}
  IN {new \cup s : s \in SUBSET same}

\* The tags of the remote once it accepted those of c for these modules.
WithTags(c, accepted) == [m \in Module |->
  IF m \notin accepted THEN remoteTags[m]
  ELSE [remoteTags[m] EXCEPT ![planned[c][m]] = tags[c][m][planned[c][m]]]]

Push(c) ==
  /\ pc[c] = "push" /\ Pushes(c)
  /\ \E r \in at[c] : \E accepted \in Acceptable(c, r) :
       /\ remoteTags' = WithTags(c, accepted)
       /\ IF PushesBranch /\ r \notin stale[c] /\ Landed(c, r) # remoteHead
          THEN remoteHead' = Landed(c, r) /\ Behind(c, r)
          ELSE UNCHANGED <<remoteHead, stale>>
       /\ IF PushSucceeds(c, r, accepted) THEN NextShard(c) ELSE Ends(c)
  /\ UNCHANGED <<policy, head, worktree, tags, registry, hosted, untagged, counters>>
-----------------------------------------------------------------------------
(* The publish tail and the hosted releases. *)

\* In dependency order.  A planned version the registry has is skipped, unless the
\* lookup fails.  The registry takes the version the artifact declares and reports
\* AlreadyPublished when it has that.
Publish(c, m) ==
  /\ pc[c] = "publish" /\ m \in todo[c] /\ m = First(todo[c])
  /\ \E skipped \in {FALSE, registry[m][planned[c][m]] # None} :
       LET a == artifact[c][m]  taken == skipped \/ registry[m][a.version] # None
       IN /\ registry' = IF taken THEN registry ELSE [registry EXCEPT ![m][a.version] = a]
          /\ untagged' = IF taken \/ MemberOf[m] \notin resumed[c] THEN untagged
                         ELSE [untagged EXCEPT ![m] = @ \cup {a.version}]
  /\ todo' = [todo EXCEPT ![c] = @ \ {m}]
  /\ UNCHANGED <<policy, repos, remoteHead, remoteTags, hosted, pc, options, planned,
                 needed, resumed, left, at, artifact, created, counters>>

HostReleases(c) == Entries(planned[c]) \cap Hosted

\* Those of the members whose policy permits a push.
ToHost(c) == {m \in HostReleases(c) : PermitsPush}

\* Mutant: the hosted phase runs whatever the command line says.
HasHostPhaseAlways(c) == TRUE

HasHostPhase(c) == options[c].publish /\ ~options[c].noPush

StartsHosting(c) ==
  /\ pc[c] = "publish" /\ todo[c] = {} /\ HasHostPhase(c)
  /\ pc' = [pc EXCEPT ![c] = "host"] /\ todo' = [todo EXCEPT ![c] = ToHost(c)]
  /\ UNCHANGED <<policy, repos, public, options, planned, needed, resumed, left, at,
                 artifact, created, counters>>

Host(c, m) ==
  /\ pc[c] = "host" /\ Hosts(c, m)
  /\ UNCHANGED <<policy, repos, remoteHead, remoteTags, registry, untagged, pc, options,
                 planned, needed, resumed, left, at, artifact, created, counters>>

Finishes(c) ==
  /\ todo[c] = {}
  /\ pc[c] = "host" \/ (pc[c] = "publish" /\ ~HasHostPhase(c))
  /\ Ends(c)
  /\ UNCHANGED <<policy, repos, public, counters>>

\* An error with no rollback, or a kill, at any point.
Stops(c) ==
  /\ pc[c] # "idle"
  /\ Ends(c)
  /\ UNCHANGED <<policy, repos, public, counters>>
-----------------------------------------------------------------------------
Run(c) ==
  \/ Start(c) \/ Reconciled(c) \/ NothingToReconcile(c)
  \/ NothingToRelease(c) \/ Refused(c) \/ Planned(c)
  \/ KeepLocal(c) \/ Push(c) \/ StartsHosting(c) \/ Finishes(c) \/ Stops(c)
  \/ \E r \in Member : Prepare(c, r) \/ PrepareFails(c, r) \/ Commit(c, r) \/ CommitFails(c, r)
  \/ \E m \in Module : Reconcile(c, m) \/ Tag(c, m) \/ Publish(c, m) \/ Host(c, m)

People(c) ==
  \/ FreshClone(c) \/ CleanUp(c)
  \/ \E m \in Module : Edit(c, m)
  \/ \E r \in Member : Land(c, r)

Next == \E c \in Clone : Run(c) \/ People(c)

Spec == Init /\ [][Next]_vars
-----------------------------------------------------------------------------
\* The types of the variables; hosted Releases are of versions that exist.
TypeOK ==
  /\ policy \in PushPolicies
  /\ head \in [Clone -> [Module -> Content]] /\ worktree \in [Clone -> [Module -> Content]]
  /\ tags \in [Clone -> [Module -> [Version -> Content \cup {None}]]]
  /\ stale \in [Clone -> SUBSET Member]
  /\ remoteHead \in [Module -> Content]
  /\ remoteTags \in [Module -> [Version -> Content \cup {None}]]
  /\ registry \in [Module -> [Version -> Content \cup {None}]]
  /\ hosted \in [Module -> SUBSET Version] /\ untagged \in [Module -> SUBSET Version]
  /\ pc \in [Clone -> {"idle", "reconcile", "plan", "prepare", "commit", "tag", "push",
                       "publish", "host"}]
  /\ options \in [Clone -> RunOptions \cup {NoOptions}]
  /\ planned \in [Clone -> [Module -> 0..MaxVersion]]
  /\ needed \in [Clone -> SUBSET Module] /\ resumed \in [Clone -> SUBSET Member]
  /\ left \in [Clone -> SUBSET Member] /\ at \in [Clone -> SUBSET Member]
  /\ todo \in [Clone -> SUBSET Module]
  /\ artifact \in [Clone -> [Module -> Content \cup {None}]]
  /\ created \in [Clone -> BOOLEAN]
  /\ edits \in 0..MaxEdits /\ runs \in 0..MaxRuns

\* What a release tag names declares the version of the tag, wherever the tag is:
\* the tag is cut on the commit that carries the bump (stage_and_commit: "a bare
\* commit would ... leave the bump dangling in the working tree").
TagDeclaresVersion == \A m \in Module, v \in Version :
  /\ \A c \in Clone : tags[c][m][v] # None => tags[c][m][v].version = v
  /\ remoteTags[m][v] # None => remoteTags[m][v].version = v

\* What a run that cut the tag publishes is the planned version and the content
\* its tag names, here and, if it pushes, on the remote (release.md: tag, push and
\* registry publication become visible in that order).
ReleasedAsTagged == [][\A c \in Clone, m \in Module, v \in Version :
    /\ pc[c] = "publish" /\ m \in todo[c] /\ m \notin todo'[c] /\ MemberOf[m] \in Cut(c)
    /\ registry'[m][v] # registry[m][v]
    => /\ v = planned[c][m] /\ registry'[m][v] = tags[c][m][v]
       /\ Pushes(c) => remoteTags[m][v] = tags[c][m][v] ]_vars

\* A resumed member is packaged from the checkout and publishes the version that
\* declares, whatever its tag says.  The versions published so are set aside.
Tagged(m) == Known(registry[m]) \ untagged[m]

\* A Release on the forge has its tag on the remote (run.rs: the hosted phase
\* "needs the pushed tag on the forge"), whoever pushed it, and whatever a clone
\* believes to be tagged when it reconciles.  Where runs push nothing it need not:
\* reconciling takes a tag that only the clone has.  There it is of a published version.
HostedIsPushed == \A m \in Module : \A v \in hosted[m] \ untagged[m] :
  IF PermitsPush THEN remoteTags[m][v] # None ELSE registry[m][v] # None

\* Where the branch is pushed with the tags, no published version lacks an edit
\* that an earlier one has, whichever clone published it.
PublishedKeepsEdits == policy = "BranchAndTags" => \A m \in Module :
  \A v, w \in Tagged(m) : v < w => registry[m][v].edits \subseteq registry[m][w].edits

\* The tag the remote has for a published version names what was published
\* (release.md: a published tag and registry version are immutable).
TagNamesArtifact == \A m \in Module : \A v \in Tagged(m) :
  remoteTags[m][v] \in {None, registry[m][v]}
-----------------------------------------------------------------------------
(* What the documents say and a run refutes. *)

Succeeds(c) == Reconciled(c) \/ NothingToRelease(c) \/ Finishes(c)

\* "Interrupted after tags were pushed but before every registry version ...
\* completed: re-running resumes" (release.md:431): when a publish succeeds, the
\* newest pushed tag of each module is in the registry.
RerunPublishes == [][\A c \in Clone : options[c].publish /\ Succeeds(c) =>
  \A m \in Module : LET v == Newest(remoteTags[m]) IN
    v > 0 /\ tags[c][m][v] = remoteTags[m][v] => registry[m][v] # None]_vars
===============================================================================
