--------------------------- MODULE ReleaseRunsProofs ---------------------------
(***************************************************************************)
(* For any clones, members, modules, command lines and bounds: the types,  *)
(* that a release tag names files which declare its version, that the      *)
(* registry, the forge and the tags on the remote agree, and that what is  *)
(* published grows.                                                        *)
(***************************************************************************)
EXTENDS ReleaseRuns, WellFoundedInduction, TLAPS

\* TypeOK in two halves: what outlives a run, and the run itself.
WorldTypes ==
  /\ policy \in PushPolicies
  /\ head \in [Clone -> [Module -> Content]] /\ worktree \in [Clone -> [Module -> Content]]
  /\ tags \in [Clone -> [Module -> [Version -> Content \cup {None}]]]
  /\ stale \in [Clone -> SUBSET Member]
  /\ remoteHead \in [Module -> Content]
  /\ remoteTags \in [Module -> [Version -> Content \cup {None}]]
  /\ registry \in [Module -> [Version -> Content \cup {None}]]
  /\ hosted \in [Module -> SUBSET Version] /\ untagged \in [Module -> SUBSET Version]
  /\ edits \in 0..MaxEdits /\ runs \in 0..MaxRuns

Phase == {"idle", "reconcile", "plan", "prepare", "commit", "tag", "push", "publish", "host"}
RunTypes ==
  /\ pc \in [Clone -> Phase]
  /\ options \in [Clone -> RunOptions \cup {NoOptions}]
  /\ planned \in [Clone -> [Module -> 0..MaxVersion]]
  /\ needed \in [Clone -> SUBSET Module] /\ resumed \in [Clone -> SUBSET Member]
  /\ left \in [Clone -> SUBSET Member] /\ at \in [Clone -> SUBSET Member]
  /\ todo \in [Clone -> SUBSET Module]
  /\ artifact \in [Clone -> [Module -> Content \cup {None}]]
  /\ created \in [Clone -> BOOLEAN]

\* Every member the loops still come to is one of the plan, and, once the plan
\* is carried out, one that is cut.
LeftSound(c) ==
  /\ pc[c] = "prepare" => left[c] \subseteq Shards(c)
  /\ pc[c] \in {"commit", "tag", "push"} => left[c] \subseteq Cut(c)

\* The files of a member between its preparation and its commit, and the commit
\* itself until its tags are cut, declare the planned versions.
BumpSound(c) == \A m \in Entries(planned[c]) :
  /\ pc[c] = "prepare" /\ MemberOf[m] \in Cut(c) \ left[c] => worktree[c][m].version = planned[c][m]
  /\ pc[c] \in {"commit", "tag", "push"} /\ MemberOf[m] \in left[c] =>
       worktree[c][m].version = planned[c][m]
  /\ pc[c] = "tag" /\ m \in todo[c] => head[c][m].version = planned[c][m]

\* A loop over modules comes to modules of the plan only.
TodoSound(c) == pc[c] \in {"reconcile", "tag", "host"} => todo[c] \subseteq Entries(planned[c])

\* What will be published was packaged.
PackageSound(c) ==
  /\ pc[c] \in {"prepare", "commit", "tag", "push"} => needed[c] \subseteq Entries(planned[c])
  /\ pc[c] = "prepare" => \A m \in needed[c] : MemberOf[m] \notin left[c] => artifact[c][m] \in Content
  /\ pc[c] \in {"commit", "tag", "push"} => \A m \in needed[c] : artifact[c][m] \in Content
  /\ pc[c] = "publish" => \A m \in todo[c] : artifact[c][m] \in Content

Sound(c) == LeftSound(c) /\ BumpSound(c) /\ TodoSound(c) /\ PackageSound(c)

IInv == TypeOK /\ TagDeclaresVersion /\ \A c \in Clone : Sound(c)
-----------------------------------------------------------------------------
(* Frames. *)

\* What Sound reads of a clone.
Frame(d) == <<pc[d], planned[d], needed[d], resumed[d], left[d], todo[d], artifact[d], worktree[d], head[d]>>

\* A clone nobody touched stays sound.
LEMMA FrameKeeps ==
  ASSUME NEW d \in Clone, Sound(d), Frame(d)' = Frame(d)
  PROVE  Sound(d)'
<1>1. /\ pc'[d] = pc[d] /\ planned'[d] = planned[d] /\ needed'[d] = needed[d]
      /\ resumed'[d] = resumed[d] /\ left'[d] = left[d] /\ todo'[d] = todo[d]
      /\ artifact'[d] = artifact[d] /\ worktree'[d] = worktree[d] /\ head'[d] = head[d]
  BY DEF Frame
<1>2. LeftSound(d)'
  BY <1>1 DEF Sound, LeftSound, Cut, Shards, ShardsOf, Entries
<1>3. BumpSound(d)'
  BY <1>1 DEF Sound, BumpSound, Cut, Shards, ShardsOf, Entries
<1>4. TodoSound(d)'
  BY <1>1 DEF Sound, TodoSound, Entries
<1>5. PackageSound(d)'
  BY <1>1 DEF Sound, PackageSound, Entries
<1> QED BY <1>2, <1>3, <1>4, <1>5 DEF Sound

\* Between runs, and before the plan, nothing is claimed.
LEMMA AtRest ==
  ASSUME NEW c \in Clone, pc'[c] \in {"idle", "plan"}
  PROVE  Sound(c)'
BY DEF Sound, LeftSound, BumpSound, TodoSound, PackageSound

\* The end of a run keeps the types and leaves the other clones alone.
LEMMA EndsRun ==
  ASSUME RunTypes, NEW c \in Clone, Ends(c)
  PROVE  /\ RunTypes' /\ pc'[c] = "idle"
         /\ \A d \in Clone \ {c} : worktree'[d] = worktree[d] /\ head'[d] = head[d] =>
              Frame(d)' = Frame(d)
<1>1. /\ Unplanned \in [Module -> 0..MaxVersion]
      /\ Unpackaged \in [Module -> Content \cup {None}]
  BY ReleaseAssumption DEF Unplanned, Unpackaged
<1>2. pc' \in [Clone -> Phase] /\ options' \in [Clone -> RunOptions \cup {NoOptions}]
  BY DEF RunTypes, Ends, Phase
<1>3. planned' \in [Clone -> [Module -> 0..MaxVersion]]
  BY <1>1 DEF RunTypes, Ends
<1>4. /\ needed' \in [Clone -> SUBSET Module] /\ resumed' \in [Clone -> SUBSET Member]
      /\ left' \in [Clone -> SUBSET Member] /\ at' \in [Clone -> SUBSET Member]
      /\ todo' \in [Clone -> SUBSET Module]
  BY DEF RunTypes, Ends
<1>5. /\ artifact' \in [Clone -> [Module -> Content \cup {None}]]
      /\ created' \in [Clone -> BOOLEAN]
  BY <1>1 DEF RunTypes, Ends
<1>6. RunTypes'
  BY <1>2, <1>3, <1>4, <1>5 DEF RunTypes
<1>7. pc'[c] = "idle"
  BY DEF RunTypes, Ends
<1>8. ASSUME NEW d \in Clone \ {c}, worktree'[d] = worktree[d], head'[d] = head[d]
      PROVE  Frame(d)' = Frame(d)
  BY <1>8 DEF RunTypes, Ends, Frame
<1> QED BY <1>6, <1>7, <1>8

LEMMA Split ==
  /\ TypeOK <=> WorldTypes /\ RunTypes
  /\ TypeOK' <=> WorldTypes' /\ RunTypes'
BY DEF TypeOK, WorldTypes, RunTypes, Phase
-----------------------------------------------------------------------------
(* People. *)

LEMMA EditStep ==
  ASSUME IInv, NEW c \in Clone, NEW m \in Module, Edit(c, m)
  PROVE  IInv'
<1> USE ReleaseAssumption DEF repos, public, locals, counters, run
<1>1. WorldTypes /\ RunTypes
  BY Split DEF IInv
<1>2. edits' \in 1..MaxEdits /\ edits' \in 0..MaxEdits
  BY <1>1 DEF Edit, WorldTypes
<1> DEFINE Edited(x) == [x EXCEPT !.edits = @ \cup {edits'}]
<1>3. \A x \in Content : Edited(x) \in Content
  BY <1>2 DEF Content
<1>4. /\ head' = [head EXCEPT ![c] = [head[c] EXCEPT ![m] = Edited(head[c][m])]]
      /\ worktree' = [worktree EXCEPT ![c] = [worktree[c] EXCEPT ![m] = Edited(worktree[c][m])]]
  BY DEF Edit
<1> HIDE DEF Edited
<1>5. head' \in [Clone -> [Module -> Content]]
  BY <1>1, <1>3, <1>4 DEF WorldTypes
<1>6. worktree' \in [Clone -> [Module -> Content]]
  BY <1>1, <1>3, <1>4 DEF WorldTypes
<1>7. WorldTypes'
  BY <1>1, <1>2, <1>5, <1>6 DEF Edit, WorldTypes
<1>8. RunTypes'
  BY <1>1 DEF Edit, RunTypes
<1>9. TagDeclaresVersion'
  BY DEF IInv, Edit, TagDeclaresVersion
<1>10. Sound(c)'
  BY AtRest DEF Edit
<1>11. \A d \in Clone \ {c} : Frame(d)' = Frame(d)
  BY <1>1 DEF Edit, Frame, WorldTypes
<1> QED BY <1>7, <1>8, <1>9, <1>10, <1>11, FrameKeeps, Split DEF IInv

LEMMA LandStep ==
  ASSUME IInv, NEW c \in Clone, NEW r \in Member, Land(c, r)
  PROVE  IInv'
<1> USE ReleaseAssumption DEF repos, public, locals, counters, run
<1>1. WorldTypes /\ RunTypes
  BY Split DEF IInv
<1>2. WorldTypes'
  BY <1>1 DEF Land, Landed, Behind, WorldTypes
<1>3. RunTypes'
  BY <1>1 DEF Land, RunTypes
<1>4. TagDeclaresVersion'
  BY DEF IInv, Land, TagDeclaresVersion
<1>5. \A d \in Clone : Frame(d)' = Frame(d)
  BY DEF Land, Frame
<1> QED BY <1>2, <1>3, <1>4, <1>5, FrameKeeps, Split DEF IInv

LEMMA FreshCloneStep ==
  ASSUME IInv, NEW c \in Clone, FreshClone(c)
  PROVE  IInv'
<1> USE ReleaseAssumption DEF repos, public, locals, counters, run
<1>1. WorldTypes /\ RunTypes
  BY Split DEF IInv
<1>2. WorldTypes'
  BY <1>1 DEF FreshClone, WorldTypes
<1>3. RunTypes'
  BY <1>1 DEF FreshClone, RunTypes
<1>4. TagDeclaresVersion'
  BY <1>1 DEF IInv, FreshClone, TagDeclaresVersion, WorldTypes
<1>5. Sound(c)'
  BY AtRest DEF FreshClone
<1>6. \A d \in Clone \ {c} : Frame(d)' = Frame(d)
  BY <1>1 DEF FreshClone, Frame, WorldTypes
<1> QED BY <1>2, <1>3, <1>4, <1>5, <1>6, FrameKeeps, Split DEF IInv

LEMMA CleanUpStep ==
  ASSUME IInv, NEW c \in Clone, CleanUp(c)
  PROVE  IInv'
<1> USE ReleaseAssumption DEF repos, public, locals, counters, run
<1>1. WorldTypes /\ RunTypes
  BY Split DEF IInv
<1>2. WorldTypes'
  BY <1>1 DEF CleanUp, WorldTypes
<1>3. RunTypes'
  BY <1>1 DEF CleanUp, RunTypes
<1>4. TagDeclaresVersion'
  BY DEF IInv, CleanUp, TagDeclaresVersion
<1>5. Sound(c)'
  BY AtRest DEF CleanUp
<1>6. \A d \in Clone \ {c} : Frame(d)' = Frame(d)
  BY <1>1 DEF CleanUp, Frame, WorldTypes
<1> QED BY <1>2, <1>3, <1>4, <1>5, <1>6, FrameKeeps, Split DEF IInv
-----------------------------------------------------------------------------
(* The run. *)

\* A run that only ends leaves the clones, the remotes and the registry as they are.
LEMMA EndingStep ==
  ASSUME IInv, NEW c \in Clone, Ends(c), UNCHANGED <<policy, repos, public, counters>>
  PROVE  IInv'
<1>1. WorldTypes /\ RunTypes
  BY Split DEF IInv
<1>2. WorldTypes'
  BY <1>1 DEF WorldTypes, repos, public, counters
<1>3. TagDeclaresVersion'
  BY DEF IInv, TagDeclaresVersion, repos, public
<1>4. RunTypes' /\ \A d \in Clone \ {c} : Frame(d)' = Frame(d)
  BY <1>1, EndsRun DEF repos
<1>5. Sound(c)'
  BY <1>1, EndsRun, AtRest
<1> QED BY <1>2, <1>3, <1>4, <1>5, FrameKeeps, Split DEF IInv

\* The newest version that exists is a version.
LEMMA NewestKnown ==
  ASSUME NEW P \in [Version -> Content \cup {None}]
  PROVE  Newest(P) \in Known(P) => Newest(P) \in Version
BY DEF Known

LEMMA StartStep ==
  ASSUME IInv, NEW c \in Clone, Start(c)
  PROVE  IInv'
<1> USE ReleaseAssumption
<1>1. WorldTypes /\ RunTypes
  BY Split DEF IInv
<1>2. /\ UNCHANGED <<policy, head, worktree, tags, stale, remoteHead, remoteTags, registry, hosted,
                     untagged, needed, resumed, left, at, artifact, created, edits>>
      /\ runs' \in 0..MaxRuns
  BY <1>1 DEF Start, repos, public, WorldTypes
<1>3. PICK o \in RunOptions :
        /\ options' = [options EXCEPT ![c] = o]
        /\ IF o.publish /\ ~o.noPush
           THEN /\ pc' = [pc EXCEPT ![c] = "reconcile"]
                /\ todo' = [todo EXCEPT ![c] = Reconcilable(c)]
                /\ planned' = [planned EXCEPT ![c] =
                     [m \in Module |-> IF m \in Reconcilable(c) THEN Newest(registry[m]) ELSE 0]]
           ELSE pc' = [pc EXCEPT ![c] = "plan"] /\ UNCHANGED <<todo, planned>>
  BY DEF Start
<1> DEFINE noted == [m \in Module |-> IF m \in Reconcilable(c) THEN Newest(registry[m]) ELSE 0]
<1>4. Reconcilable(c) \subseteq Module /\ \A m \in Reconcilable(c) : Newest(registry[m]) \in Version
  BY DEF Reconcilable, Known
<1>5. noted \in [Module -> 0..MaxVersion]
  BY <1>4 DEF Version
<1>6. Reconcilable(c) \subseteq Entries(noted)
  BY <1>4 DEF Entries, Version
<1> HIDE DEF noted
<1>7. WorldTypes'
  BY <1>1, <1>2 DEF WorldTypes
<1>8. TagDeclaresVersion'
  BY <1>2 DEF IInv, TagDeclaresVersion
<1>9. pc' \in [Clone -> Phase] /\ options' \in [Clone -> RunOptions \cup {NoOptions}]
  BY <1>1, <1>3 DEF RunTypes, Phase
<1>10. /\ planned' \in {planned, [planned EXCEPT ![c] = noted]}
       /\ todo' \in {todo, [todo EXCEPT ![c] = Reconcilable(c)]}
  BY <1>3 DEF noted
<1>11. planned' \in [Clone -> [Module -> 0..MaxVersion]] /\ todo' \in [Clone -> SUBSET Module]
  <2>1. planned' \in [Clone -> [Module -> 0..MaxVersion]]
    <3>1. planned \in [Clone -> [Module -> 0..MaxVersion]]
      BY <1>1 DEF RunTypes
    <3> QED BY <3>1, <1>5, <1>10
  <2>2. CASE todo' = todo
    BY <2>1, <2>2, <1>1 DEF RunTypes
  <2>3. CASE todo' = [todo EXCEPT ![c] = Reconcilable(c)]
    <3>1. Reconcilable(c) \in SUBSET Module /\ todo \in [Clone -> SUBSET Module]
      BY <1>1, <1>4 DEF RunTypes
    <3> QED BY <2>1, <2>3, <3>1
  <2> QED BY <1>10, <2>2, <2>3
<1>12. RunTypes'
  BY <1>1, <1>2, <1>9, <1>11 DEF RunTypes
<1>13. Sound(c)'
  <2>1. CASE o.publish /\ ~o.noPush
    <3>1. pc'[c] = "reconcile" /\ todo'[c] = Reconcilable(c) /\ planned'[c] = noted
      BY <2>1, <1>1, <1>3 DEF RunTypes, noted
    <3>2. TodoSound(c)'
      BY <3>1, <1>6 DEF TodoSound, Entries
    <3> QED BY <3>1, <3>2 DEF Sound, LeftSound, BumpSound, PackageSound
  <2>2. CASE ~(o.publish /\ ~o.noPush)
    <3>1. pc'[c] = "plan"
      BY <2>2, <1>1, <1>3 DEF RunTypes
    <3> QED BY <3>1, AtRest
  <2> QED BY <2>1, <2>2
<1>14. \A d \in Clone \ {c} : Frame(d)' = Frame(d)
  BY <1>1, <1>2, <1>3 DEF Frame, RunTypes
<1> QED BY <1>7, <1>8, <1>12, <1>13, <1>14, FrameKeeps, Split DEF IInv

LEMMA NothingToReconcileStep ==
  ASSUME IInv, NEW c \in Clone, NothingToReconcile(c)
  PROVE  IInv'
<1> USE ReleaseAssumption DEF repos, public, counters
<1>1. WorldTypes /\ RunTypes
  BY Split DEF IInv
<1>2. WorldTypes'
  BY <1>1 DEF NothingToReconcile, WorldTypes
<1>3. Unplanned \in [Module -> 0..MaxVersion]
  BY DEF Unplanned
<1>4. RunTypes'
  BY <1>1, <1>3 DEF NothingToReconcile, RunTypes, Phase
<1>5. TagDeclaresVersion'
  BY DEF IInv, NothingToReconcile, TagDeclaresVersion
<1>6. Sound(c)'
  BY <1>1, AtRest DEF NothingToReconcile, RunTypes
<1>7. \A d \in Clone \ {c} : Frame(d)' = Frame(d)
  BY <1>1 DEF NothingToReconcile, Frame, RunTypes
<1> QED BY <1>2, <1>4, <1>5, <1>6, <1>7, FrameKeeps, Split DEF IInv
-----------------------------------------------------------------------------
(* The plan and the preparation. *)

\* A planned module belongs to a member with a shard.
LEMMA ShardOfEntry ==
  ASSUME NEW p, NEW m \in Entries(p)
  PROVE  MemberOf[m] \in ShardsOf(p)
BY DEF ShardsOf

LEMMA PlannedStep ==
  ASSUME IInv, NEW c \in Clone, Planned(c)
  PROVE  IInv'
<1> USE ReleaseAssumption DEF repos, public, counters
<1>1. WorldTypes /\ RunTypes
  BY Split DEF IInv
<1> DEFINE plan == Plan(c)
<1>2. /\ plan \in [Module -> 0..MaxVersion]
      /\ planned' = [planned EXCEPT ![c] = plan]
      /\ \E unseen : needed' = [needed EXCEPT ![c] = PublishNeeded(plan, unseen)]
      /\ resumed' = [resumed EXCEPT ![c] = {r \in ShardsOf(plan) : Resumes(c, plan, r)}]
      /\ left' = [left EXCEPT ![c] = ShardsOf(plan)]
      /\ pc' = [pc EXCEPT ![c] = "prepare"]
  BY DEF Planned, Bounded
<1> HIDE DEF plan
<1>3. ShardsOf(plan) \subseteq Member
  BY DEF ShardsOf, Entries
<1>4. PICK due \in SUBSET Entries(plan) : needed' = [needed EXCEPT ![c] = due]
  BY <1>2 DEF PublishNeeded, Entries
<1>5. WorldTypes'
  BY <1>1 DEF Planned, WorldTypes
<1>6. planned' \in [Clone -> [Module -> 0..MaxVersion]]
  BY <1>1, <1>2 DEF RunTypes
<1>7. /\ needed' \in [Clone -> SUBSET Module] /\ resumed' \in [Clone -> SUBSET Member]
      /\ left' \in [Clone -> SUBSET Member] /\ pc' \in [Clone -> Phase]
  BY <1>1, <1>2, <1>3, <1>4 DEF RunTypes, Entries, Phase
<1>8. RunTypes'
  BY <1>1, <1>6, <1>7 DEF RunTypes, Planned
<1>9. TagDeclaresVersion'
  BY DEF IInv, Planned, TagDeclaresVersion
<1>10. /\ pc'[c] = "prepare" /\ planned'[c] = plan /\ needed'[c] \subseteq Entries(plan)
       /\ left'[c] = ShardsOf(plan)
  BY <1>1, <1>2, <1>4 DEF RunTypes
<1>11. Sound(c)'
  <2>1. LeftSound(c)'
    BY <1>10 DEF LeftSound, Shards, ShardsOf, Entries
  <2>2. BumpSound(c)'
    BY <1>10 DEF BumpSound, Cut, Shards, ShardsOf, Entries
  <2>3. TodoSound(c)'
    BY <1>10 DEF TodoSound
  <2>4. PackageSound(c)'
    BY <1>10 DEF PackageSound, ShardsOf, Entries
  <2> QED BY <2>1, <2>2, <2>3, <2>4 DEF Sound
<1>12. \A d \in Clone \ {c} : Frame(d)' = Frame(d)
  BY <1>1, <1>2, <1>4 DEF Planned, Frame, RunTypes
<1> QED BY <1>5, <1>8, <1>9, <1>11, <1>12, FrameKeeps, Split DEF IInv

\* A rewritten manifest is a manifest and declares the version of the plan.
LEMMA WrittenTypes ==
  ASSUME IInv, NEW c \in Clone, NEW r \in Member
  PROVE  /\ Written(c, r) \in [Module -> Content]
         /\ \A m \in InPlan(c, r) : r \notin resumed[c] => Written(c, r)[m].version = planned[c][m]
         /\ \A m \in Module : MemberOf[m] # r => Written(c, r)[m] = worktree[c][m]
<1>1. worktree[c] \in [Module -> Content] /\ planned[c] \in [Module -> 0..MaxVersion]
  BY DEF IInv, TypeOK
<1>2. \A m \in InPlan(c, r) : m \in Module /\ MemberOf[m] = r /\ planned[c][m] \in Version
  BY <1>1, ReleaseAssumption DEF InPlan, Modules, Entries, Version
<1>3. \A x \in Content, v \in Version :
        /\ [x EXCEPT !.version = v] \in Content /\ [x EXCEPT !.version = v].version = v
  BY DEF Content
<1> QED BY <1>1, <1>2, <1>3 DEF Written

\* Where a loop over members ends, everything to publish was packaged.
LEMMA StartsPublishingRun ==
  ASSUME IInv, NEW c \in Clone, StartsPublishing(c), planned'[c] = planned[c],
         artifact' \in [Clone -> [Module -> Content \cup {None}]],
         \A m \in needed[c] : artifact'[c][m] \in Content
  PROVE  /\ pc' \in [Clone -> Phase] /\ todo' \in [Clone -> SUBSET Module] /\ Sound(c)'
<1>1. RunTypes
  BY Split DEF IInv
<1>2. pc' \in [Clone -> Phase] /\ todo' \in [Clone -> SUBSET Module]
  BY <1>1 DEF StartsPublishing, RunTypes, Phase
<1>3. pc'[c] = "publish" /\ todo'[c] \subseteq needed[c]
  BY <1>1 DEF StartsPublishing, RunTypes
<1>4. PackageSound(c)'
  BY <1>3 DEF PackageSound
<1> QED BY <1>2, <1>3, <1>4 DEF Sound, LeftSound, BumpSound, TodoSound

LEMMA PrepareStep ==
  ASSUME IInv, NEW c \in Clone, NEW r \in Member, Prepare(c, r)
  PROVE  IInv'
<1> USE ReleaseAssumption DEF repos, public, counters
<1>1. WorldTypes /\ RunTypes /\ Sound(c)
  BY Split DEF IInv
<1> DEFINE W == Written(c, r)
           packed == [m \in Module |-> IF m \in needed[c] \cap Modules(r) THEN W[m]
                                       ELSE artifact[c][m]]
<1>2. /\ W \in [Module -> Content]
      /\ \A m \in InPlan(c, r) : r \notin resumed[c] => W[m].version = planned[c][m]
      /\ \A m \in Module : MemberOf[m] # r => W[m] = worktree[c][m]
  BY WrittenTypes
<1>3. worktree' = [worktree EXCEPT ![c] = W] /\ artifact' = [artifact EXCEPT ![c] = packed]
  BY DEF Prepare, Packaged
<1>4. UNCHANGED <<policy, head, tags, stale, public, options, planned, needed, resumed, at,
                  created, counters>>
  BY DEF Prepare
<1> HIDE DEF W
<1>5. packed \in [Module -> Content \cup {None}]
  BY <1>1, <1>2 DEF RunTypes
<1>6. \A m \in needed[c] : MemberOf[m] = r \/ MemberOf[m] \notin left[c] => packed[m] \in Content
  BY <1>1, <1>2 DEF Sound, PackageSound, Prepare, Modules, RunTypes
<1> HIDE DEF packed
<1>7. /\ worktree' \in [Clone -> [Module -> Content]] /\ worktree'[c] = W
      /\ artifact' \in [Clone -> [Module -> Content \cup {None}]] /\ artifact'[c] = packed
  BY <1>1, <1>2, <1>3, <1>5 DEF WorldTypes, RunTypes
<1>8. WorldTypes'
  BY <1>1, <1>4, <1>7 DEF WorldTypes
<1>9. TagDeclaresVersion'
  BY <1>4 DEF IInv, TagDeclaresVersion
\* Whatever is prepared is written, r included.
<1>10. \A m \in Entries(planned[c]) : MemberOf[m] \in Cut(c) \ (left[c] \ {r}) =>
         W[m].version = planned[c][m]
  <2> SUFFICES ASSUME NEW m \in Entries(planned[c]), MemberOf[m] \in Cut(c) \ (left[c] \ {r})
               PROVE  W[m].version = planned[c][m]
    OBVIOUS
  <2>1. CASE MemberOf[m] = r
    BY <2>1, <1>2 DEF InPlan, Modules, Cut, Entries
  <2>2. CASE MemberOf[m] # r
    BY <2>2, <1>1, <1>2 DEF Sound, BumpSound, Prepare, Entries
  <2> QED BY <2>1, <2>2
<1>11. /\ pc' \in [Clone -> Phase] /\ todo' \in [Clone -> SUBSET Module]
       /\ left' \in [Clone -> SUBSET Member] /\ Sound(c)'
       /\ \A d \in Clone \ {c} : left'[d] = left[d] /\ pc'[d] = pc[d] /\ todo'[d] = todo[d]
  <2>1. CASE left[c] # {r}
    <3>1. left' = [left EXCEPT ![c] = @ \ {r}] /\ UNCHANGED <<pc, todo>>
      BY <2>1 DEF Prepare
    <3>2. pc[c] = "prepare" /\ pc'[c] = "prepare" /\ left'[c] = left[c] \ {r}
      BY <1>1, <3>1 DEF Prepare, RunTypes
    <3>3. LeftSound(c)'
      BY <1>1, <1>4, <3>2 DEF Sound, LeftSound, Shards, ShardsOf, Entries
    <3>4. BumpSound(c)'
      BY <1>4, <1>7, <1>10, <3>2 DEF BumpSound, Cut, Shards, ShardsOf, Entries
    <3>5. PackageSound(c)'
      BY <1>1, <1>4, <1>6, <1>7, <3>2 DEF Sound, PackageSound, Entries
    <3>6. Sound(c)'
      BY <3>2, <3>3, <3>4, <3>5 DEF Sound, TodoSound
    <3> QED BY <1>1, <3>1, <3>6 DEF RunTypes
  <2>2. CASE left[c] = {r} /\ Cut(c) = {}
    <3>1. left' = [left EXCEPT ![c] = Cut(c)] /\ StartsPublishing(c)
      BY <2>2 DEF Prepare
    <3>2. \A m \in needed[c] : artifact'[c][m] \in Content
      BY <1>6, <1>7, <2>2
    <3>3. pc' \in [Clone -> Phase] /\ todo' \in [Clone -> SUBSET Module] /\ Sound(c)'
      BY <1>4, <1>7, <3>1, <3>2, StartsPublishingRun
    <3>4. left' \in [Clone -> SUBSET Member]
      BY <1>1, <2>2, <3>1 DEF RunTypes
    <3> QED BY <1>1, <3>1, <3>3, <3>4 DEF RunTypes, StartsPublishing
  <2>3. CASE left[c] = {r} /\ Cut(c) # {}
    <3>1. left' = [left EXCEPT ![c] = Cut(c)] /\ pc' = [pc EXCEPT ![c] = "commit"] /\ todo' = todo
      BY <2>3 DEF Prepare
    <3>2. Cut(c) \subseteq Member
      BY DEF Cut, Shards, ShardsOf, Entries
    <3>3. pc[c] = "prepare" /\ pc'[c] = "commit" /\ left'[c] = Cut(c)
      BY <1>1, <3>1 DEF RunTypes, Prepare
    <3>4. Cut(c)' = Cut(c)
      BY <1>4 DEF Cut, Shards, ShardsOf, Entries
    <3>5. LeftSound(c)'
      BY <3>3, <3>4 DEF LeftSound
    <3>6. BumpSound(c)'
      BY <1>4, <1>7, <1>10, <2>3, <3>3 DEF BumpSound, Entries
    <3>7. PackageSound(c)'
      BY <1>1, <1>4, <1>6, <1>7, <2>3, <3>3 DEF Sound, PackageSound, Entries
    <3>8. Sound(c)'
      BY <3>3, <3>5, <3>6, <3>7 DEF Sound, TodoSound
    <3> QED BY <1>1, <3>1, <3>2, <3>8 DEF RunTypes, Phase
  <2> QED BY <2>1, <2>2, <2>3
<1>12. RunTypes'
  BY <1>1, <1>4, <1>7, <1>11 DEF RunTypes
<1>13. \A d \in Clone \ {c} : Frame(d)' = Frame(d)
  BY <1>1, <1>3, <1>4, <1>11 DEF Frame, RunTypes, WorldTypes
<1> QED BY <1>8, <1>9, <1>11, <1>12, <1>13, FrameKeeps, Split DEF IInv

\* A run that ends by rewriting files leaves files.
LEMMA FailingStep ==
  ASSUME IInv, NEW c \in Clone, Ends(c), NEW files \in [Module -> Content],
         worktree' = [worktree EXCEPT ![c] = files],
         UNCHANGED <<policy, head, tags, stale, public, counters>>
  PROVE  IInv'
<1>1. WorldTypes /\ RunTypes
  BY Split DEF IInv
<1>2. WorldTypes'
  BY <1>1 DEF WorldTypes, public, counters
<1>3. TagDeclaresVersion'
  BY DEF IInv, TagDeclaresVersion, public
<1>4. \A d \in Clone \ {c} : worktree'[d] = worktree[d] /\ head'[d] = head[d]
  BY <1>1 DEF WorldTypes
<1>5. RunTypes' /\ \A d \in Clone \ {c} : Frame(d)' = Frame(d)
  BY <1>1, <1>4, EndsRun
<1>6. Sound(c)'
  BY <1>1, EndsRun, AtRest
<1> QED BY <1>2, <1>3, <1>5, <1>6, FrameKeeps, Split DEF IInv

LEMMA PrepareFailsStep ==
  ASSUME IInv, NEW c \in Clone, NEW r \in Member, PrepareFails(c, r)
  PROVE  IInv'
<1>1. PICK restored : worktree' = [worktree EXCEPT ![c] = [m \in Module |->
        IF MemberOf[m] \in restored THEN head[c][m] ELSE Written(c, r)[m]]]
  BY DEF PrepareFails
<1>2. [m \in Module |-> IF MemberOf[m] \in restored THEN head[c][m] ELSE Written(c, r)[m]]
        \in [Module -> Content]
  BY WrittenTypes DEF IInv, TypeOK
<1> QED BY <1>1, <1>2, FailingStep DEF PrepareFails

LEMMA CommitFailsStep ==
  ASSUME IInv, NEW c \in Clone, NEW r \in Member, CommitFails(c, r)
  PROVE  IInv'
<1>1. PICK restored : worktree' = [worktree EXCEPT ![c] = [m \in Module |->
        IF MemberOf[m] \in restored THEN head[c][m] ELSE worktree[c][m]]]
  BY DEF CommitFails, IInv, TypeOK
<1>2. [m \in Module |-> IF MemberOf[m] \in restored THEN head[c][m] ELSE worktree[c][m]]
        \in [Module -> Content]
  BY DEF IInv, TypeOK
<1> QED BY <1>1, <1>2, FailingStep DEF CommitFails
-----------------------------------------------------------------------------
(* Commit, tag, push. *)

LEMMA CommitStep ==
  ASSUME IInv, NEW c \in Clone, NEW r \in Member, Commit(c, r)
  PROVE  IInv'
<1> USE ReleaseAssumption DEF repos, public, counters
<1>1. WorldTypes /\ RunTypes /\ Sound(c)
  BY Split DEF IInv
<1> DEFINE H == Committed(c, r)
<1>2. /\ pc[c] = "commit" /\ r \in left[c]
      /\ head' = [head EXCEPT ![c] = H] /\ left' = [left EXCEPT ![c] = @ \ {r}]
      /\ at' = [at EXCEPT ![c] = {r}] /\ todo' = [todo EXCEPT ![c] = InPlan(c, r)]
      /\ pc' = [pc EXCEPT ![c] = "tag"]
      /\ UNCHANGED <<policy, worktree, tags, stale, public, options, planned, needed, resumed,
                     artifact, created, counters>>
  BY DEF Commit, NextIs
<1>3. /\ InPlan(c, r) \subseteq Module /\ InPlan(c, r) \subseteq Entries(planned[c])
      /\ \A m \in InPlan(c, r) : MemberOf[m] = r
  BY DEF InPlan, Modules
<1>4. H \in [Module -> Content] /\ \A m \in InPlan(c, r) : H[m] = worktree[c][m]
  BY <1>1, <1>3 DEF WorldTypes, Committed
<1> HIDE DEF H
<1>5. WorldTypes'
  BY <1>1, <1>2, <1>4 DEF WorldTypes
<1>6. RunTypes'
  BY <1>1, <1>2, <1>3 DEF RunTypes, Phase
<1>7. TagDeclaresVersion'
  BY <1>2 DEF IInv, TagDeclaresVersion
<1>8. /\ pc'[c] = "tag" /\ left'[c] = left[c] \ {r} /\ todo'[c] = InPlan(c, r) /\ head'[c] = H
  BY <1>1, <1>2 DEF RunTypes, WorldTypes
<1>9. LeftSound(c)'
  BY <1>1, <1>2, <1>8 DEF Sound, LeftSound, Cut, Shards, ShardsOf, Entries
<1>10. BumpSound(c)'
  <2>1. \A m \in InPlan(c, r) : worktree[c][m].version = planned[c][m]
    BY <1>1, <1>2, <1>3 DEF Sound, BumpSound
  <2>2. \A m \in Entries(planned[c]) : MemberOf[m] \in left'[c] =>
          worktree[c][m].version = planned[c][m]
    BY <1>1, <1>2, <1>8 DEF Sound, BumpSound
  <2> QED BY <2>1, <2>2, <1>2, <1>4, <1>8 DEF BumpSound, Entries
<1>11. TodoSound(c)' /\ PackageSound(c)'
  BY <1>1, <1>2, <1>3, <1>8 DEF Sound, TodoSound, PackageSound, Entries
<1>12. \A d \in Clone \ {c} : Frame(d)' = Frame(d)
  BY <1>1, <1>2 DEF Frame, RunTypes, WorldTypes
<1>13. Sound(c)'
  BY <1>9, <1>10, <1>11 DEF Sound
<1> QED BY <1>5, <1>6, <1>7, <1>12, <1>13, FrameKeeps, Split DEF IInv

LEMMA TagStep ==
  ASSUME IInv, NEW c \in Clone, NEW m \in Module, Tag(c, m)
  PROVE  IInv'
<1> USE ReleaseAssumption DEF repos, public, counters
<1>1. WorldTypes /\ RunTypes /\ Sound(c)
  BY Split DEF IInv
<1> DEFINE v == planned[c][m]
<1>2. /\ pc[c] = "tag" /\ m \in todo[c]
      /\ tags' = [tags EXCEPT ![c] = [tags[c] EXCEPT ![m] = [tags[c][m] EXCEPT ![v] = head[c][m]]]]
      /\ todo' = [todo EXCEPT ![c] = @ \ {m}]
      /\ pc' \in {pc, [pc EXCEPT ![c] = "push"]}
      /\ UNCHANGED <<policy, head, worktree, stale, public, options, planned, needed, resumed,
                     left, at, artifact, created, counters>>
  BY DEF Tag
<1>3. v \in Version /\ head[c][m].version = v
  BY <1>1, <1>2 DEF RunTypes, Sound, TodoSound, BumpSound, Entries, Version
<1> HIDE DEF v
<1>4. tags' \in [Clone -> [Module -> [Version -> Content \cup {None}]]]
  <2>1. [tags[c][m] EXCEPT ![v] = head[c][m]] \in [Version -> Content \cup {None}]
    BY <1>1, <1>3 DEF WorldTypes
  <2>2. [tags[c] EXCEPT ![m] = [tags[c][m] EXCEPT ![v] = head[c][m]]]
          \in [Module -> [Version -> Content \cup {None}]]
    BY <1>1, <2>1 DEF WorldTypes
  <2> QED BY <1>1, <1>2, <2>2 DEF WorldTypes
<1>5. WorldTypes'
  BY <1>1, <1>2, <1>4 DEF WorldTypes
<1>6. RunTypes'
  BY <1>1, <1>2 DEF RunTypes, Phase
<1>7. TagDeclaresVersion'
  <2>1. ASSUME NEW d \in Clone, NEW n \in Module, NEW w \in Version,
               ~(d = c /\ n = m /\ w = v)
        PROVE  tags'[d][n][w] = tags[d][n][w]
    BY <1>1, <1>2, <1>3, <2>1 DEF WorldTypes
  <2>2. tags'[c][m][v] = head[c][m]
    BY <1>1, <1>2, <1>3 DEF WorldTypes
  <2> QED BY <1>2, <1>3, <2>1, <2>2 DEF IInv, TagDeclaresVersion
<1>8. pc'[c] \in {"tag", "push"} /\ todo'[c] \subseteq todo[c]
  BY <1>1, <1>2 DEF RunTypes
<1>9. LeftSound(c)'
  BY <1>1, <1>2, <1>8 DEF Sound, LeftSound, Cut, Shards, ShardsOf, Entries
<1>10. BumpSound(c)'
  BY <1>1, <1>2, <1>8 DEF Sound, BumpSound, Entries
<1>11. TodoSound(c)' /\ PackageSound(c)'
  BY <1>1, <1>2, <1>8 DEF Sound, TodoSound, PackageSound, Entries
<1>12. \A d \in Clone \ {c} : Frame(d)' = Frame(d)
  BY <1>1, <1>2 DEF Frame, RunTypes
<1>13. Sound(c)'
  BY <1>9, <1>10, <1>11 DEF Sound
<1> QED BY <1>5, <1>6, <1>7, <1>12, <1>13, FrameKeeps, Split DEF IInv

\* From one member to the next, or to publication.
LEMMA NextShardRun ==
  ASSUME IInv, NEW c \in Clone, pc[c] = "push", NextShard(c),
         worktree' = worktree, head' = head
  PROVE  RunTypes' /\ Sound(c)' /\ \A d \in Clone \ {c} : Frame(d)' = Frame(d)
<1>1. RunTypes /\ Sound(c)
  BY Split DEF IInv
<1>2. UNCHANGED <<options, planned, needed, resumed, left, artifact, created>>
  BY DEF NextShard
<1>3. at' \in [Clone -> SUBSET Member]
  BY <1>1 DEF NextShard, RunTypes
<1>4. /\ pc' \in [Clone -> Phase] /\ todo' \in [Clone -> SUBSET Module] /\ Sound(c)'
      /\ \A d \in Clone \ {c} : pc'[d] = pc[d] /\ todo'[d] = todo[d]
  <2>1. CASE left[c] = {}
    <3>1. StartsPublishing(c)
      BY <2>1 DEF NextShard
    <3>2. \A m \in needed[c] : artifact'[c][m] \in Content
      BY <1>1, <1>2 DEF Sound, PackageSound
    <3>3. pc' \in [Clone -> Phase] /\ todo' \in [Clone -> SUBSET Module] /\ Sound(c)'
      BY <1>1, <1>2, <3>1, <3>2, StartsPublishingRun DEF RunTypes
    <3> QED BY <1>1, <3>1, <3>3 DEF StartsPublishing, RunTypes
  <2>2. CASE left[c] # {}
    <3>1. pc' = [pc EXCEPT ![c] = "commit"] /\ todo' = todo
      BY <2>2 DEF NextShard
    <3>2. pc'[c] = "commit"
      BY <1>1, <3>1 DEF RunTypes
    <3>3. LeftSound(c)'
      BY <1>1, <1>2, <3>2 DEF Sound, LeftSound, Cut, Shards, ShardsOf, Entries
    <3>4. BumpSound(c)'
      BY <1>1, <1>2, <3>1, <3>2 DEF Sound, BumpSound, Entries
    <3>5. PackageSound(c)' /\ TodoSound(c)'
      BY <1>1, <1>2, <3>1, <3>2 DEF Sound, PackageSound, TodoSound, Entries
    <3> QED BY <1>1, <3>1, <3>3, <3>4, <3>5 DEF Sound, RunTypes, Phase
  <2> QED BY <2>1, <2>2
<1>5. RunTypes'
  BY <1>1, <1>2, <1>3, <1>4 DEF RunTypes
<1> QED BY <1>2, <1>4, <1>5 DEF Frame

LEMMA KeepLocalStep ==
  ASSUME IInv, NEW c \in Clone, KeepLocal(c)
  PROVE  IInv'
<1>1. /\ pc[c] = "push" /\ NextShard(c) /\ UNCHANGED <<policy, repos, public, counters>>
  BY DEF KeepLocal
<1>2. WorldTypes'
  BY <1>1, Split DEF IInv, WorldTypes, repos, public, counters
<1>3. TagDeclaresVersion'
  BY <1>1 DEF IInv, TagDeclaresVersion, repos, public
<1>4. RunTypes' /\ Sound(c)' /\ \A d \in Clone \ {c} : Frame(d)' = Frame(d)
  BY <1>1, NextShardRun DEF repos
<1> QED BY <1>2, <1>3, <1>4, FrameKeeps, Split DEF IInv

\* What is accepted is planned, and new or the same.
LEMMA AcceptablePlanned ==
  ASSUME NEW c, NEW r, NEW accepted \in Acceptable(c, r)
  PROVE  /\ accepted \subseteq InPlan(c, r)
         /\ \A m \in accepted : \/ remoteTags[m][planned[c][m]] = None
                               \/ remoteTags[m][planned[c][m]] = tags[c][m][planned[c][m]]
BY DEF Acceptable

LEMMA PushStep ==
  ASSUME IInv, NEW c \in Clone, Push(c)
  PROVE  IInv'
<1> USE ReleaseAssumption DEF counters
<1>1. WorldTypes /\ RunTypes /\ Sound(c)
  BY Split DEF IInv
<1>a. PICK r \in at[c] : \E accepted \in Acceptable(c, r) :
        /\ remoteTags' = WithTags(c, accepted)
        /\ IF PushesBranch /\ r \notin stale[c] /\ Landed(c, r) # remoteHead
           THEN remoteHead' = Landed(c, r) /\ Behind(c, r)
           ELSE UNCHANGED <<remoteHead, stale>>
        /\ IF PushSucceeds(c, r, accepted) THEN NextShard(c) ELSE Ends(c)
  BY DEF Push
<1>2. PICK accepted \in Acceptable(c, r) :
        /\ remoteTags' = WithTags(c, accepted)
        /\ IF PushesBranch /\ r \notin stale[c] /\ Landed(c, r) # remoteHead
           THEN remoteHead' = Landed(c, r) /\ Behind(c, r)
           ELSE UNCHANGED <<remoteHead, stale>>
        /\ IF PushSucceeds(c, r, accepted) THEN NextShard(c) ELSE Ends(c)
  BY <1>a
<1>3. pc[c] = "push" /\ UNCHANGED <<policy, head, worktree, tags, registry, hosted, untagged, counters>>
  BY DEF Push
<1>4. r \in Member
  BY <1>1 DEF RunTypes
<1>5. \A m \in accepted : m \in Module /\ planned[c][m] \in Version
  <2>1. \A m \in accepted : m \in Module /\ planned[c][m] > 0
    BY <1>2, AcceptablePlanned DEF InPlan, Entries
  <2> QED BY <1>1, <2>1 DEF Version, RunTypes
<1>6. remoteTags' \in [Module -> [Version -> Content \cup {None}]]
  <2>1. \A m \in accepted : [remoteTags[m] EXCEPT ![planned[c][m]] = tags[c][m][planned[c][m]]]
          \in [Version -> Content \cup {None}]
    BY <1>1, <1>5 DEF WorldTypes
  <2> QED BY <1>1, <1>2, <2>1 DEF WorldTypes, WithTags
<1>7. Landed(c, r) \in [Module -> Content]
  BY <1>1 DEF Landed, WorldTypes
<1>8. remoteHead' \in [Module -> Content] /\ stale' \in [Clone -> SUBSET Member]
  BY <1>1, <1>2, <1>4, <1>7 DEF Behind, WorldTypes
<1>9. WorldTypes'
  BY <1>1, <1>3, <1>6, <1>8 DEF WorldTypes
<1>10. TagDeclaresVersion'
  <2>1. ASSUME NEW m \in Module, NEW v \in Version
        PROVE  remoteTags'[m][v] \in {remoteTags[m][v], tags[c][m][v]}
    BY <1>1, <1>2, <1>5 DEF WorldTypes, WithTags
  <2> QED BY <1>3, <2>1 DEF IInv, TagDeclaresVersion
<1>11. RunTypes' /\ Sound(c)' /\ \A d \in Clone \ {c} : Frame(d)' = Frame(d)
  <2>1. CASE NextShard(c)
    BY <1>3, <2>1, NextShardRun
  <2>2. CASE Ends(c)
    BY <1>1, <1>3, <2>2, EndsRun, AtRest
  <2> QED BY <1>2, <2>1, <2>2
<1> QED BY <1>9, <1>10, <1>11, FrameKeeps, Split DEF IInv
-----------------------------------------------------------------------------
(* Publication and the hosted releases. *)

LEMMA PublishStep ==
  ASSUME IInv, NEW c \in Clone, NEW m \in Module, Publish(c, m)
  PROVE  IInv'
<1> USE ReleaseAssumption DEF repos, counters
<1>1. WorldTypes /\ RunTypes /\ Sound(c)
  BY Split DEF IInv
<1> DEFINE a == artifact[c][m]
<1>2. /\ pc[c] = "publish" /\ m \in todo[c]
      /\ registry' \in {registry,
           [registry EXCEPT ![m] = [registry[m] EXCEPT ![a.version] = a]]}
      /\ untagged' \in {untagged, [untagged EXCEPT ![m] = untagged[m] \cup {a.version}]}
      /\ todo' = [todo EXCEPT ![c] = @ \ {m}]
      /\ UNCHANGED <<policy, repos, remoteHead, remoteTags, hosted, pc, options, planned,
                     needed, resumed, left, at, artifact, created, counters>>
  BY DEF Publish
<1>3. a \in Content
  BY <1>1, <1>2 DEF Sound, PackageSound
<1> HIDE DEF a
<1>4. registry \in [Module -> [Version -> Content \cup {None}]]
  BY <1>1 DEF WorldTypes
<1>5. registry' \in [Module -> [Version -> Content \cup {None}]]
  <2>1. [registry[m] EXCEPT ![a.version] = a] \in [Version -> Content \cup {None}]
    BY <1>3, <1>4
  <2> QED BY <1>2, <1>4, <2>1
<1>6. WorldTypes'
  <2>1. a.version \in Version
    BY <1>3 DEF Content
  <2>2. untagged \in [Module -> SUBSET Version]
    BY <1>1 DEF WorldTypes
  <2>3. untagged[m] \cup {a.version} \in SUBSET Version
    BY <2>1, <2>2
  <2>4. untagged' \in [Module -> SUBSET Version]
    BY <1>2, <2>2, <2>3
  <2> QED BY <1>1, <1>2, <1>5, <2>4 DEF WorldTypes
<1>7. RunTypes'
  BY <1>1, <1>2 DEF RunTypes
<1>8. TagDeclaresVersion'
  BY <1>2 DEF IInv, TagDeclaresVersion
<1>9. Sound(c)'
  BY <1>1, <1>2 DEF Sound, LeftSound, BumpSound, TodoSound, PackageSound, RunTypes
<1>10. \A d \in Clone \ {c} : Frame(d)' = Frame(d)
  BY <1>1, <1>2 DEF Frame, RunTypes
<1> QED BY <1>6, <1>7, <1>8, <1>9, <1>10, FrameKeeps, Split DEF IInv

\* Either loop over the Releases.
LEMMA HostsStep ==
  ASSUME IInv, NEW c \in Clone, NEW m \in Module, pc[c] \in {"reconcile", "host"},
         Hosts(c, m), created' \in [Clone -> BOOLEAN],
         UNCHANGED <<policy, repos, remoteHead, remoteTags, registry, untagged, pc, options, planned,
                     needed, resumed, left, at, artifact, counters>>
  PROVE  IInv'
<1> USE ReleaseAssumption DEF repos, counters
<1>1. WorldTypes /\ RunTypes /\ Sound(c)
  BY Split DEF IInv
<1>2. /\ m \in todo[c] /\ todo' = [todo EXCEPT ![c] = @ \ {m}]
      /\ hosted' = [hosted EXCEPT ![m] = @ \cup {planned[c][m]}]
  BY DEF Hosts
<1>3. planned[c][m] \in Version
  BY <1>1, <1>2 DEF Sound, TodoSound, Entries, RunTypes, Version
<1>4. hosted' \in [Module -> SUBSET Version]
  BY <1>1, <1>2, <1>3 DEF WorldTypes
<1>5. WorldTypes'
  BY <1>1, <1>4 DEF WorldTypes
<1>6. RunTypes'
  BY <1>1, <1>2 DEF RunTypes
<1>7. TagDeclaresVersion'
  BY DEF IInv, TagDeclaresVersion
<1>8. todo'[c] \subseteq todo[c]
  BY <1>1, <1>2 DEF RunTypes
<1>9. TodoSound(c)'
  BY <1>1, <1>8 DEF Sound, TodoSound, Entries
<1>10. Sound(c)'
  BY <1>9 DEF Sound, LeftSound, BumpSound, PackageSound
<1>11. \A d \in Clone \ {c} : Frame(d)' = Frame(d)
  BY <1>1, <1>2 DEF Frame, RunTypes
<1> QED BY <1>5, <1>6, <1>7, <1>10, <1>11, FrameKeeps, Split DEF IInv

LEMMA StartsHostingStep ==
  ASSUME IInv, NEW c \in Clone, StartsHosting(c)
  PROVE  IInv'
<1> USE ReleaseAssumption DEF repos, public, counters
<1>1. WorldTypes /\ RunTypes /\ Sound(c)
  BY Split DEF IInv
<1>2. /\ pc' = [pc EXCEPT ![c] = "host"] /\ todo' = [todo EXCEPT ![c] = ToHost(c)]
      /\ UNCHANGED <<policy, repos, public, options, planned, needed, resumed, left, at,
                     artifact, created, counters>>
  BY DEF StartsHosting
<1>3. ToHost(c) \subseteq Entries(planned[c]) /\ ToHost(c) \subseteq Module
  BY DEF ToHost, HostReleases, Entries
<1>4. WorldTypes'
  BY <1>1, <1>2 DEF WorldTypes
<1>5. RunTypes'
  BY <1>1, <1>2, <1>3 DEF RunTypes, Phase
<1>6. TagDeclaresVersion'
  BY <1>2 DEF IInv, TagDeclaresVersion
<1>7. pc'[c] = "host" /\ todo'[c] = ToHost(c)
  BY <1>1, <1>2 DEF RunTypes
<1>8. TodoSound(c)'
  BY <1>2, <1>3, <1>7 DEF TodoSound, Entries
<1>9. Sound(c)'
  BY <1>7, <1>8 DEF Sound, LeftSound, BumpSound, PackageSound
<1>10. \A d \in Clone \ {c} : Frame(d)' = Frame(d)
  BY <1>1, <1>2 DEF Frame, RunTypes
<1> QED BY <1>4, <1>5, <1>6, <1>9, <1>10, FrameKeeps, Split DEF IInv
-----------------------------------------------------------------------------
(* The invariant. *)

LEMMA InitSound == Init => IInv
<1> SUFFICES ASSUME Init PROVE IInv
  OBVIOUS
<1> USE ReleaseAssumption
<1> DEFINE one == [edits |-> {}, version |-> 1]
<1>1. one \in Content /\ 1 \in Version /\ one.version = 1
  BY DEF Content, Version
<1> HIDE DEF one
<1>2. remoteHead = [m \in Module |-> one]
  BY DEF Init, one
<1>3. remoteTags = [m \in Module |-> [v \in Version |->
        IF m \in Released /\ v = 1 THEN one ELSE None]]
  BY <1>2 DEF Init
<1>4. /\ remoteHead \in [Module -> Content]
      /\ remoteTags \in [Module -> [Version -> Content \cup {None}]]
      /\ \A m \in Module, v \in Version :
           remoteTags[m][v] # None => remoteTags[m][v].version = v
  BY <1>1, <1>2, <1>3
<1>5. /\ head \in [Clone -> [Module -> Content]] /\ worktree \in [Clone -> [Module -> Content]]
      /\ tags \in [Clone -> [Module -> [Version -> Content \cup {None}]]]
      /\ registry \in [Module -> [Version -> Content \cup {None}]]
      /\ stale \in [Clone -> SUBSET Member]
  BY <1>4 DEF Init
<1>6. hosted \in [Module -> SUBSET Version] /\ untagged \in [Module -> SUBSET Version]
  BY <1>1 DEF Init
<1>7. WorldTypes
  BY <1>4, <1>5, <1>6 DEF Init, WorldTypes
<1>8. Unplanned \in [Module -> 0..MaxVersion] /\ Unpackaged \in [Module -> Content \cup {None}]
  BY DEF Unplanned, Unpackaged
<1>9. RunTypes
  BY <1>8 DEF Init, RunTypes, Phase
<1>10. TagDeclaresVersion
  BY <1>4 DEF Init, TagDeclaresVersion
<1>11. \A c \in Clone : Sound(c)
  BY DEF Init, Sound, LeftSound, BumpSound, TodoSound, PackageSound
<1> QED BY <1>7, <1>9, <1>10, <1>11, Split DEF IInv

LEMMA StutterSound == ASSUME IInv, UNCHANGED vars PROVE IInv'
BY FrameKeeps, Split DEF IInv, vars, repos, public, run, locals, counters, WorldTypes, RunTypes,
   TagDeclaresVersion, Frame

\* Every operation of the tool and of people keeps it.
LEMMA StepSound == ASSUME IInv, [Next]_vars PROVE IInv'
<1>1. ASSUME NEW c \in Clone, Run(c) PROVE IInv'
  <2>1. CASE Reconciled(c) \/ NothingToRelease(c) \/ Refused(c) \/ Finishes(c) \/ Stops(c)
    BY <2>1, EndingStep DEF Reconciled, NothingToRelease, Refused, Finishes, Stops
  <2>2. CASE Start(c)
    BY <2>2, StartStep
  <2>3. CASE NothingToReconcile(c)
    BY <2>3, NothingToReconcileStep
  <2>4. CASE Planned(c)
    BY <2>4, PlannedStep
  <2>5. CASE KeepLocal(c)
    BY <2>5, KeepLocalStep
  <2>6. CASE Push(c)
    BY <2>6, PushStep
  <2>7. CASE StartsHosting(c)
    BY <2>7, StartsHostingStep
  <2>8. ASSUME NEW r \in Member,
               Prepare(c, r) \/ PrepareFails(c, r) \/ Commit(c, r) \/ CommitFails(c, r)
        PROVE  IInv'
    BY <2>8, PrepareStep, PrepareFailsStep, CommitStep, CommitFailsStep
  <2>9. ASSUME NEW m \in Module, Tag(c, m) \/ Publish(c, m) PROVE IInv'
    BY <2>9, TagStep, PublishStep
  <2>10. ASSUME NEW m \in Module, Reconcile(c, m) PROVE IInv'
    <3>1. created' \in [Clone -> BOOLEAN]
      BY <2>10 DEF Reconcile, IInv, TypeOK
    <3> QED BY <2>10, <3>1, HostsStep DEF Reconcile
  <2>11. ASSUME NEW m \in Module, Host(c, m) PROVE IInv'
    <3>1. created' \in [Clone -> BOOLEAN]
      BY <2>11 DEF Host, IInv, TypeOK
    <3> QED BY <2>11, <3>1, HostsStep DEF Host
  <2> QED BY <1>1, <2>1, <2>2, <2>3, <2>4, <2>5, <2>6, <2>7, <2>8, <2>9, <2>10, <2>11 DEF Run
<1>2. ASSUME NEW c \in Clone, People(c) PROVE IInv'
  BY <1>2, EditStep, LandStep, FreshCloneStep, CleanUpStep DEF People
<1> QED BY <1>1, <1>2, StutterSound DEF Next

\* The inductive invariant holds throughout.
LEMMA Invariance == Spec => []IInv
BY InitSound, StepSound, PTL DEF Spec

\* The variables have their types: in particular what is published was packaged, and
\* a Release is cut for a version that exists.
THEOREM TypeCorrect == Spec => []TypeOK
<1>1. IInv => TypeOK
  BY DEF IInv
<1> QED BY <1>1, Invariance, PTL

\* Wherever a release tag is, in a clone or on the remote, what it names declares
\* the version of the tag: whichever clones cut it, and whatever run was killed,
\* failed or restored its files before.
THEOREM TagsDeclareVersions == Spec => []TagDeclaresVersion
<1>1. IInv => TagDeclaresVersion
  BY DEF IInv
<1> QED BY <1>1, Invariance, PTL
-----------------------------------------------------------------------------
(* What is published is what was tagged and pushed. *)

\* The phases after the preparation.
Carried == {"commit", "tag", "push", "publish", "host"}

\* No member is at hand between the members, one that is cut is while it is tagged
\* and pushed, and only what is needed is published, if the command publishes.
LoopSound(c) ==
  /\ pc[c] \notin {"tag", "push"} => at[c] = {}
  /\ pc[c] \in {"tag", "push"} => \E r \in Cut(c) \ left[c] : at[c] = {r}
  /\ pc[c] = "tag" => \A m \in todo[c] : MemberOf[m] \in at[c]
  /\ pc[c] \in {"publish", "host"} => left[c] = {}
  /\ pc[c] = "publish" => todo[c] \subseteq needed[c] /\ (todo[c] # {} => options[c].publish)
  /\ pc[c] \in Carried => needed[c] \subseteq Entries(planned[c])
  /\ pc[c] = "host" => HasHostPhase(c) /\ todo[c] \subseteq ToHost(c)

\* The tag of m is cut.
IsTagged(c, m) ==
  /\ pc[c] \in Carried /\ MemberOf[m] \in Cut(c) \ left[c]
  /\ pc[c] = "tag" => m \notin todo[c]

\* What was packaged of a member that is cut is its files, then its commit ...
FilesSound(c) == \A m \in needed[c] :
  /\ pc[c] = "prepare" /\ MemberOf[m] \in Cut(c) \ left[c] => artifact[c][m] = worktree[c][m]
  /\ pc[c] \in {"commit", "tag", "push"} /\ MemberOf[m] \in left[c] =>
       artifact[c][m] = worktree[c][m]
  /\ pc[c] = "tag" /\ m \in todo[c] => artifact[c][m] = head[c][m]

\* ... and then its tag, which is on the remote when the run goes on.
TagsSound(c) == \A m \in Entries(planned[c]) : IsTagged(c, m) =>
  LET v == planned[c][m] IN
  /\ tags[c][m][v] # None
  /\ m \in needed[c] => artifact[c][m] = tags[c][m][v]
  /\ Pushes(c) /\ MemberOf[m] \notin at[c] => remoteTags[m][v] = tags[c][m][v]

\* A tag that only this clone has is not above the version its commit declares ...
LocalSound(c) == \A m \in Module, v \in Version :
  tags[c][m][v] # None /\ remoteTags[m][v] = None => v <= head[c][m].version

\* ... which no member is cut below ...
LevelSound(c) == \A m \in Entries(planned[c]) :
  \/ pc[c] = "prepare" /\ MemberOf[m] \in Cut(c)
  \/ pc[c] \in {"commit", "tag", "push"} /\ MemberOf[m] \in left[c]
  => head[c][m].version <= planned[c][m]

\* ... so a member is resumed only if its tags are on the remote.
ResumeSound(c) == pc[c] \in {"prepare"} \cup Carried =>
  \A m \in Entries(planned[c]) : MemberOf[m] \in resumed[c] => remoteTags[m][planned[c][m]] # None

\* What is reconciled was published.
LookupSound(c) == pc[c] = "reconcile" => \A m \in todo[c] : planned[c][m] \in Known(registry[m])

Traced(c) == /\ LoopSound(c) /\ FilesSound(c) /\ TagsSound(c)
             /\ LocalSound(c) /\ LevelSound(c) /\ ResumeSound(c) /\ LookupSound(c)
JInv == \A c \in Clone : Traced(c)

\* No command line publishes with --no-push.
PublishPushes == \A o \in RunOptions : o.publish => ~o.noPush

\* A published version has its tag on the remote, which names what was published.
RegistryIsTagged == \A m \in Module : \A v \in Tagged(m) : remoteTags[m][v] = registry[m][v]

\* A tag on the remote is of a published version, and names what was published.
RemoteIsPublished == \A m \in Module, v \in Version :
  remoteTags[m][v] # None => registry[m][v] = remoteTags[m][v]

\* The remote runs ahead of the registry where runs push, and behind it where they do not.
KInv == /\ PermitsPush => RegistryIsTagged
        /\ ~PermitsPush => RemoteIsPublished
        /\ HostedIsPushed

\* Tags stay on the remote and versions in the registry.
RemoteGrows == \A m \in Module, v \in Version :
  remoteTags[m][v] # None => remoteTags'[m][v] = remoteTags[m][v]
RegistryGrows == \A m \in Module, v \in Version :
  registry[m][v] # None => registry'[m][v] = registry[m][v]

LEMMA PushGrows ==
  ASSUME TypeOK, NEW c \in Clone, Push(c)
  PROVE  RemoteGrows
<1>a. PICK r \in at[c] : \E accepted \in Acceptable(c, r) : remoteTags' = WithTags(c, accepted)
  BY DEF Push
<1>1. PICK accepted \in Acceptable(c, r) : remoteTags' = WithTags(c, accepted)
  BY <1>a
<1>2. SUFFICES ASSUME NEW m \in Module, NEW v \in Version, remoteTags[m][v] # None
               PROVE  remoteTags'[m][v] = remoteTags[m][v]
  BY DEF RemoteGrows
<1>3. CASE m \in accepted /\ v = planned[c][m]
  <2>1. tags[c][m][v] = remoteTags[m][v]
    BY <1>2, <1>3, AcceptablePlanned
  <2>2. remoteTags'[m] = [remoteTags[m] EXCEPT ![v] = tags[c][m][v]]
    BY <1>1, <1>3 DEF WithTags
  <2>3. remoteTags[m] \in [Version -> Content \cup {None}]
    BY DEF TypeOK
  <2> QED BY <2>1, <2>2, <2>3
<1>4. CASE ~(m \in accepted /\ v = planned[c][m])
  BY <1>1, <1>2, <1>4 DEF TypeOK, WithTags
<1> QED BY <1>3, <1>4

LEMMA PublishGrows ==
  ASSUME TypeOK, NEW c \in Clone, NEW m \in Module, Publish(c, m)
  PROVE  RegistryGrows
<1> DEFINE a == artifact[c][m]
<1>1. \/ registry' = registry
      \/ /\ registry[m][a.version] = None
         /\ registry' = [registry EXCEPT ![m] = [registry[m] EXCEPT ![a.version] = a]]
  BY DEF Publish
<1> HIDE DEF a
<1>2. SUFFICES ASSUME NEW n \in Module, NEW v \in Version, registry[n][v] # None
               PROVE  registry'[n][v] = registry[n][v]
  BY DEF RegistryGrows
<1>3. CASE n = m /\ v = a.version
  BY <1>1, <1>2, <1>3
<1>4. CASE ~(n = m /\ v = a.version)
  BY <1>1, <1>2, <1>4 DEF TypeOK
<1> QED BY <1>3, <1>4

\* What Traced reads of a clone.
Trace(d) == <<Frame(d), tags[d], at[d], options[d]>>

\* The policy is the project's.
LEMMA PolicyStays ==
  ASSUME NEW c \in Clone, Run(c) \/ People(c)
  PROVE  policy' = policy
<1>1. CASE \/ Start(c) \/ Reconciled(c) \/ NothingToReconcile(c)
           \/ NothingToRelease(c) \/ Refused(c) \/ Planned(c)
           \/ KeepLocal(c) \/ Push(c) \/ StartsHosting(c) \/ Finishes(c) \/ Stops(c)
  BY <1>1 DEF Start, Reconciled, NothingToReconcile, NothingToRelease, Refused, Planned, KeepLocal,
              Push, StartsHosting, Finishes, Stops
<1>2. CASE \E r \in Member : Prepare(c, r) \/ PrepareFails(c, r) \/ Commit(c, r) \/ CommitFails(c, r)
  BY <1>2 DEF Prepare, PrepareFails, Commit, CommitFails
<1>3. CASE \E m \in Module : Reconcile(c, m) \/ Tag(c, m) \/ Publish(c, m) \/ Host(c, m)
  BY <1>3 DEF Reconcile, Tag, Publish, Host
<1>4. CASE People(c)
  BY <1>4 DEF People, FreshClone, CleanUp, Edit, Land
<1> QED BY <1>1, <1>2, <1>3, <1>4 DEF Run

\* A step is of one clone, and takes nothing away that is public.
LEMMA StepOfOne ==
  ASSUME TypeOK, NEW c \in Clone, Run(c) \/ People(c)
  PROVE  /\ \A d \in Clone \ {c} : Trace(d)' = Trace(d)
         /\ policy' = policy /\ RemoteGrows /\ RegistryGrows
<1> DEFINE Alone == /\ \A d \in Clone \ {c} : Trace(d)' = Trace(d)
                    /\ RemoteGrows /\ RegistryGrows
<1>0. SUFFICES Alone
  BY PolicyStays
<1> USE DEF repos, public, locals, counters, run
<1>1. ASSUME Ends(c), UNCHANGED <<head, tags, remoteTags, registry>>,
             \A d \in Clone \ {c} : worktree'[d] = worktree[d]
      PROVE  Alone
  BY <1>1 DEF Ends, TypeOK, Trace, Frame, RemoteGrows, RegistryGrows
<1>2. CASE Reconciled(c) \/ NothingToRelease(c) \/ Refused(c) \/ Finishes(c) \/ Stops(c)
  BY <1>1, <1>2 DEF Reconciled, NothingToRelease, Refused, Finishes, Stops
<1>3. ASSUME NEW r \in Member, PrepareFails(c, r) \/ CommitFails(c, r)
      PROVE  Alone
  <2>1. Ends(c) /\ UNCHANGED <<head, tags, remoteTags, registry>>
    BY <1>3 DEF PrepareFails, CommitFails
  <2>2. \A d \in Clone \ {c} : worktree'[d] = worktree[d]
    BY <1>3 DEF PrepareFails, CommitFails, TypeOK
  <2> QED BY <1>1, <2>1, <2>2
<1>4. CASE Start(c) \/ NothingToReconcile(c) \/ Planned(c) \/ StartsHosting(c)
  <2>1. UNCHANGED <<head, worktree, tags, remoteTags, registry, at, artifact>>
    BY <1>4 DEF Start, NothingToReconcile, Planned, StartsHosting
  <2>2. \A d \in Clone \ {c} :
          /\ pc'[d] = pc[d] /\ options'[d] = options[d] /\ planned'[d] = planned[d]
          /\ needed'[d] = needed[d] /\ resumed'[d] = resumed[d] /\ left'[d] = left[d]
          /\ todo'[d] = todo[d]
    <3>1. CASE Start(c)
      BY <3>1 DEF Start, TypeOK
    <3>2. CASE NothingToReconcile(c) \/ StartsHosting(c)
      BY <3>2 DEF NothingToReconcile, StartsHosting, TypeOK
    <3>3. CASE Planned(c)
      BY <3>3 DEF Planned, TypeOK
    <3> QED BY <1>4, <3>1, <3>2, <3>3
  <2> QED BY <2>1, <2>2 DEF Trace, Frame, RemoteGrows, RegistryGrows
<1>5. CASE KeepLocal(c) \/ Push(c)
  <2>1. RemoteGrows
    BY <1>5, PushGrows DEF KeepLocal, RemoteGrows
  <2>2. UNCHANGED <<head, worktree, tags, registry>> /\ (NextShard(c) \/ Ends(c))
    BY <1>5 DEF KeepLocal, Push
  <2>3. CASE NextShard(c)
    BY <2>1, <2>2, <2>3 DEF NextShard, StartsPublishing, TypeOK, Trace, Frame, RegistryGrows
  <2>4. CASE Ends(c)
    BY <2>1, <2>2, <2>4 DEF Ends, TypeOK, Trace, Frame, RegistryGrows
  <2> QED BY <2>2, <2>3, <2>4
<1>6. ASSUME NEW r \in Member, Prepare(c, r)
      PROVE  Alone
  <2>1. UNCHANGED <<head, tags, remoteTags, registry, at, options, planned, needed, resumed>>
    BY <1>6 DEF Prepare
  <2>2. \A d \in Clone \ {c} : worktree'[d] = worktree[d] /\ artifact'[d] = artifact[d]
    BY <1>6 DEF Prepare, TypeOK
  <2>3. \A d \in Clone \ {c} : pc'[d] = pc[d] /\ left'[d] = left[d] /\ todo'[d] = todo[d]
    BY <1>6 DEF Prepare, StartsPublishing, TypeOK
  <2> QED BY <2>1, <2>2, <2>3 DEF Trace, Frame, RemoteGrows, RegistryGrows
<1>7. ASSUME NEW r \in Member, Commit(c, r)
      PROVE  Alone
  BY <1>7 DEF Commit, TypeOK, Trace, Frame, RemoteGrows, RegistryGrows
<1>8. ASSUME NEW m \in Module, Reconcile(c, m) \/ Host(c, m)
      PROVE  Alone
  BY <1>8 DEF Reconcile, Host, Hosts, TypeOK, Trace, Frame, RemoteGrows, RegistryGrows
<1>9. ASSUME NEW m \in Module, Tag(c, m)
      PROVE  Alone
  <2>1. UNCHANGED <<head, worktree, remoteTags, registry, options, planned, needed, resumed,
                    left, at, artifact>>
    BY <1>9 DEF Tag
  <2>2. \A d \in Clone \ {c} : pc'[d] = pc[d] /\ todo'[d] = todo[d] /\ tags'[d] = tags[d]
    BY <1>9 DEF Tag, TypeOK
  <2> QED BY <2>1, <2>2 DEF Trace, Frame, RemoteGrows, RegistryGrows
<1>10. ASSUME NEW m \in Module, Publish(c, m)
       PROVE  Alone
  BY <1>10, PublishGrows DEF Publish, TypeOK, Trace, Frame, RemoteGrows
<1>11. CASE FreshClone(c) \/ CleanUp(c)
  BY <1>11 DEF FreshClone, CleanUp, TypeOK, Trace, Frame, RemoteGrows, RegistryGrows
<1>12. ASSUME NEW m \in Module, Edit(c, m)
       PROVE  Alone
  BY <1>12 DEF Edit, TypeOK, Trace, Frame, RemoteGrows, RegistryGrows
<1>13. ASSUME NEW r \in Member, Land(c, r)
       PROVE  Alone
  BY <1>13 DEF Land, Trace, Frame, RemoteGrows, RegistryGrows
<1> QED BY <1>2, <1>3, <1>4, <1>5, <1>6, <1>7, <1>8, <1>9, <1>10, <1>11, <1>12, <1>13 DEF Run, People

\* Any step that is not its own keeps what is claimed of a clone.
LEMMA TraceKeeps ==
  ASSUME TypeOK, NEW d \in Clone, Traced(d), Trace(d)' = Trace(d), policy' = policy,
         RemoteGrows, RegistryGrows, pc[d] = "reconcile" => todo[d] \subseteq Module
  PROVE  Traced(d)'
<1>1. /\ pc'[d] = pc[d] /\ planned'[d] = planned[d] /\ needed'[d] = needed[d]
      /\ resumed'[d] = resumed[d] /\ left'[d] = left[d] /\ todo'[d] = todo[d]
      /\ artifact'[d] = artifact[d] /\ worktree'[d] = worktree[d] /\ head'[d] = head[d]
      /\ tags'[d] = tags[d] /\ at'[d] = at[d] /\ options'[d] = options[d]
  BY DEF Trace, Frame
<1>2. \A m \in Entries(planned[d]) : m \in Module /\ planned[d][m] \in Version
  BY ReleaseAssumption DEF Entries, Version, TypeOK
<1>3. LoopSound(d)'
  BY <1>1 DEF Traced, LoopSound, Cut, Shards, ShardsOf, Entries, HasHostPhase, ToHost, HostReleases, PermitsPush
<1>4. FilesSound(d)'
  BY <1>1 DEF Traced, FilesSound, Cut, Shards, ShardsOf, Entries
<1>5. TagsSound(d)'
  <2>1. SUFFICES ASSUME NEW m \in Entries(planned[d]), IsTagged(d, m)'
                 PROVE  LET v == planned[d][m] IN
                        /\ tags[d][m][v] # None
                        /\ m \in needed[d] => artifact[d][m] = tags[d][m][v]
                        /\ Pushes(d) /\ MemberOf[m] \notin at[d] => remoteTags'[m][v] = tags[d][m][v]
    BY <1>1 DEF TagsSound, Entries, Pushes, PermitsPush
  <2>2. IsTagged(d, m)
    BY <1>1, <2>1 DEF IsTagged, Cut, Shards, ShardsOf, Entries
  <2> QED BY <1>2, <2>2 DEF Traced, TagsSound, RemoteGrows
<1>6. LocalSound(d)'
  BY <1>1 DEF Traced, LocalSound, RemoteGrows
<1>7. LevelSound(d)'
  BY <1>1 DEF Traced, LevelSound, Cut, Shards, ShardsOf, Entries
<1>8. ResumeSound(d)'
  BY <1>1, <1>2 DEF Traced, ResumeSound, Entries, RemoteGrows
<1>9. LookupSound(d)'
  <2>1. SUFFICES ASSUME pc[d] = "reconcile", NEW m \in todo[d]
                 PROVE  planned[d][m] \in Version /\ registry'[m][planned[d][m]] # None
    BY <1>1 DEF LookupSound, Known
  <2>2. m \in Module /\ planned[d][m] \in Version /\ registry[m][planned[d][m]] # None
    BY <2>1 DEF Traced, LookupSound, Known
  <2> QED BY <2>2 DEF RegistryGrows
<1> QED BY <1>3, <1>4, <1>5, <1>6, <1>7, <1>8, <1>9 DEF Traced

\* Between runs, and before the plan, only the tags matter.
LEMMA RestTraced ==
  ASSUME NEW c \in Clone, pc'[c] \in {"idle", "plan"}, at'[c] = {}, LocalSound(c)'
  PROVE  Traced(c)'
BY DEF Traced, LoopSound, FilesSound, TagsSound, IsTagged, Carried, LevelSound, ResumeSound,
       LookupSound

\* No new tag, and no lower version.
LEMMA LocalKeeps ==
  ASSUME NEW c \in Clone, LocalSound(c), TypeOK, TypeOK', RemoteGrows,
         \A m \in Module, v \in Version : tags'[c][m][v] # None => tags[c][m][v] # None,
         \A m \in Module : head[c][m].version <= head'[c][m].version
  PROVE  LocalSound(c)'
<1>1. SUFFICES ASSUME NEW m \in Module, NEW v \in Version,
                      tags'[c][m][v] # None, remoteTags'[m][v] = None
               PROVE  v <= head'[c][m].version
  BY DEF LocalSound
<1>2. v <= head[c][m].version
  BY <1>1 DEF LocalSound, RemoteGrows
<1>3. head[c][m].version \in Nat /\ head'[c][m].version \in Nat /\ v \in Nat
  BY ReleaseAssumption DEF TypeOK, Content, Version
<1> QED BY <1>1, <1>2, <1>3

\* A run that is over.
LEMMA EndTraced ==
  ASSUME NEW c \in Clone, TypeOK, TypeOK', Traced(c), Ends(c), RemoteGrows, UNCHANGED <<head, tags>>
  PROVE  Traced(c)'
<1>1. pc'[c] = "idle" /\ at'[c] = {}
  BY DEF Ends, TypeOK
<1>2. \A m \in Module : head[c][m].version \in Nat
  BY ReleaseAssumption DEF TypeOK, Content, Version
<1>3. LocalSound(c)'
  BY <1>2, LocalKeeps DEF Traced
<1> QED BY <1>1, <1>3, RestTraced

LEMMA PeopleTraced ==
  ASSUME IInv, IInv', NEW c \in Clone, People(c), Traced(c), RemoteGrows, RegistryGrows
  PROVE  Traced(c)'
<1> USE DEF repos, public, locals, counters, run
<1>1. TypeOK /\ TypeOK' /\ LocalSound(c) /\ LoopSound(c)
  BY DEF IInv, Traced
<1>2. \A m \in Module : head[c][m].version \in Nat
  BY <1>1, ReleaseAssumption DEF TypeOK, Content, Version
<1>3. CASE FreshClone(c)
  <2>1. pc'[c] = "idle" /\ at'[c] = {} /\ tags'[c] = remoteTags' 
    BY <1>1, <1>3 DEF FreshClone, LoopSound, TypeOK
  <2> QED BY <2>1, RestTraced DEF LocalSound
<1>4. CASE CleanUp(c)
  <2>1. pc'[c] = "idle" /\ at'[c] = {} /\ UNCHANGED <<head, tags>>
    BY <1>1, <1>4 DEF CleanUp, LoopSound
  <2> QED BY <1>1, <1>2, <2>1, RestTraced, LocalKeeps
<1>5. ASSUME NEW m \in Module, Edit(c, m) PROVE Traced(c)'
  <2>1. pc'[c] = "idle" /\ at'[c] = {} /\ UNCHANGED tags
    BY <1>1, <1>5 DEF Edit, LoopSound
  <2>2. \A n \in Module : head'[c][n].version = head[c][n].version
    BY <1>1, <1>5 DEF Edit, TypeOK, Content
  <2> QED BY <1>1, <1>2, <2>1, <2>2, RestTraced, LocalKeeps
<1>6. ASSUME NEW r \in Member, Land(c, r) PROVE Traced(c)'
  <2>1. Trace(c)' = Trace(c) /\ policy' = policy /\ pc[c] = "idle"
    BY <1>6 DEF Land, Trace, Frame
  <2> QED BY <1>1, <2>1, TraceKeeps
<1> QED BY <1>3, <1>4, <1>5, <1>6 DEF People

\* The newest version is one that exists, or 0, and none is newer.
LEMMA NewestIsNewest ==
  ASSUME NEW P \in [Version -> Content \cup {None}]
  PROVE  Newest(P) \in Known(P) \cup {0} /\ \A w \in Known(P) : w <= Newest(P)
<1> USE ReleaseAssumption
<1> DEFINE K == Known(P) \cup {0}
           below == {MaxVersion - v : v \in K}
           R == {p \in Nat \X Nat : p[1] < p[2]}
<1>1. K \subseteq 0..MaxVersion /\ 0 \in K
  BY DEF Known, Version
<1>2. below \subseteq Nat /\ below # {}
  BY <1>1
<1>3. PICK x \in below : \A y \in below : ~ (<<y, x>> \in R)
  <2>1. IsWellFoundedOn(R, Nat)
    BY NatLessThanWellFounded DEF OpToRel
  <2> HIDE DEF below, R
  <2> QED BY <1>2, <2>1, WFMin
<1>4. \A y \in below : ~ (y < x)
  BY <1>2, <1>3
<1>5. PICK v \in K : x = MaxVersion - v
  BY <1>3
<1>6. \A w \in K : w <= v
  <2> SUFFICES ASSUME NEW w \in K PROVE w <= v
    OBVIOUS
  <2>1. ~ (MaxVersion - w < MaxVersion - v)
    BY <1>4, <1>5
  <2> QED BY <1>1, <2>1
<1>7. \E n \in 0..MaxVersion : n \in Known(P) \cup {0} /\ \A w \in Known(P) : w <= n
  BY <1>1, <1>6
<1> QED BY <1>7 DEF Newest

LEMMA StartTraced ==
  ASSUME TypeOK, TypeOK', NEW c \in Clone, Start(c), Traced(c), RemoteGrows
  PROVE  Traced(c)'
<1>1. pc[c] = "idle" /\ UNCHANGED <<head, tags, registry, at>>
  BY DEF Start, repos, public
<1>2. \A m \in Module : head[c][m].version \in Nat
  BY ReleaseAssumption DEF TypeOK, Content, Version
<1>3. LocalSound(c)' /\ at'[c] = {}
  BY <1>1, <1>2, LocalKeeps DEF Traced, LoopSound
<1>4. CASE pc'[c] = "plan"
  BY <1>3, <1>4, RestTraced
<1>5. CASE pc'[c] # "plan"
  <2>1. /\ pc' = [pc EXCEPT ![c] = "reconcile"]
        /\ todo' = [todo EXCEPT ![c] = Reconcilable(c)]
        /\ planned' = [planned EXCEPT ![c] =
             [m \in Module |-> IF m \in Reconcilable(c) THEN Newest(registry[m]) ELSE 0]]
    BY <1>5 DEF Start, TypeOK
  <2>2. /\ pc'[c] = "reconcile" /\ todo'[c] = Reconcilable(c)
        /\ \A m \in Module : planned'[c][m] = IF m \in Reconcilable(c) THEN Newest(registry[m]) ELSE 0
    BY <2>1 DEF TypeOK
  <2>3. \A m \in Reconcilable(c) : m \in Module /\ Newest(registry[m]) \in Known(registry[m])
    BY ReleaseAssumption DEF Reconcilable
  <2>4. LookupSound(c)'
    BY <1>1, <2>2, <2>3 DEF LookupSound, Known
  <2> QED BY <1>3, <2>2, <2>4 DEF Traced, LoopSound, FilesSound, TagsSound, IsTagged, Carried,
                                  LevelSound, ResumeSound
<1> QED BY <1>4, <1>5

LEMMA NothingToReconcileTraced ==
  ASSUME TypeOK, TypeOK', NEW c \in Clone, NothingToReconcile(c), Traced(c), RemoteGrows
  PROVE  Traced(c)'
<1>1. pc[c] = "reconcile" /\ pc'[c] = "plan" /\ UNCHANGED <<head, tags, at>>
  BY DEF NothingToReconcile, repos, TypeOK
<1>2. \A m \in Module : head[c][m].version \in Nat
  BY ReleaseAssumption DEF TypeOK, Content, Version
<1>3. LocalSound(c)' /\ at'[c] = {}
  BY <1>1, <1>2, LocalKeeps DEF Traced, LoopSound
<1> QED BY <1>1, <1>3, RestTraced

\* No plan is below the version a member declares; one at a version that has a tag
\* here was set above the declared one, or the tag is the newest.
LEMMA PlanAhead ==
  ASSUME TypeOK, NEW c \in Clone, ~SetTooLow(c), NEW m \in Module,
         Plan(c)[m] > 0, Plan(c)[m] \in Version
  PROVE  /\ worktree[c][m].version <= Plan(c)[m]
         /\ tags[c][m][Plan(c)[m]] # None => worktree[c][m].version < Plan(c)[m]
<1> USE ReleaseAssumption
<1> DEFINE base == Newest(tags[c][m])
           current == worktree[c][m].version
<1>1. current \in Nat /\ options[c].setVersion \in 0..MaxVersion
  BY DEF TypeOK, Content, Version, NoOptions
<1>2. base \in Nat /\ \A w \in Known(tags[c][m]) : w <= base
  <2>1. tags[c][m] \in [Version -> Content \cup {None}]
    BY DEF TypeOK
  <2>2. base \in Known(tags[c][m]) \cup {0} /\ \A w \in Known(tags[c][m]) : w <= base
    BY <2>1, NewestIsNewest
  <2> HIDE DEF base
  <2> QED BY <2>2 DEF Known, Version
<1>3. CASE options[c].setVersion > 0
  <2>1. Plan(c)[m] = options[c].setVersion
    BY <1>3 DEF Plan
  <2>2. options[c].setVersion \notin 1..current
    BY DEF SetTooLow
  <2> QED BY <1>1, <1>3, <2>1, <2>2
<1>4. CASE ~(options[c].setVersion > 0)
  <2>1. Plan(c)[m] = IF base = 0 \/ current > base THEN current ELSE base + 1
    BY <1>4 DEF Plan, Bumped
  <2>2. tags[c][m][Plan(c)[m]] # None => Plan(c)[m] <= base
    BY <1>2 DEF Known
  <2> HIDE DEF base, current
  <2>3. current <= Plan(c)[m]
    BY <1>1, <1>2, <2>1
  <2>4. tags[c][m][Plan(c)[m]] # None => current < Plan(c)[m]
    BY <1>1, <1>2, <2>1, <2>2
  <2> QED BY <2>3, <2>4 DEF current
<1> QED BY <1>3, <1>4

LEMMA PlannedTraced ==
  ASSUME TypeOK, TypeOK', NEW c \in Clone, Planned(c), Traced(c), RemoteGrows
  PROVE  Traced(c)'
<1> USE ReleaseAssumption
<1> DEFINE plan == Plan(c)
<1>1. /\ pc[c] = "plan" /\ ~SetTooLow(c) /\ Admitted(c, plan)
      /\ planned' = [planned EXCEPT ![c] = plan]
      /\ resumed' = [resumed EXCEPT ![c] = {r \in ShardsOf(plan) : Resumes(c, plan, r)}]
      /\ left' = [left EXCEPT ![c] = ShardsOf(plan)]
      /\ pc' = [pc EXCEPT ![c] = "prepare"]
      /\ UNCHANGED <<head, tags, remoteTags, at>>
  BY DEF Planned, repos, public
<1>2. PICK unseen : needed' = [needed EXCEPT ![c] = PublishNeeded(plan, unseen)]
  BY DEF Planned
<1> HIDE DEF plan
<1>3. /\ pc'[c] = "prepare" /\ planned'[c] = plan /\ left'[c] = ShardsOf(plan)
      /\ resumed'[c] = {r \in ShardsOf(plan) : Resumes(c, plan, r)}
      /\ needed'[c] = PublishNeeded(plan, unseen)
  BY <1>1, <1>2 DEF TypeOK
<1>4. plan \in [Module -> 0..MaxVersion]
  BY <1>3 DEF TypeOK
<1>5. LoopSound(c)'
  BY <1>1, <1>3 DEF Traced, LoopSound, Carried
<1>6. FilesSound(c)'
  BY <1>3 DEF FilesSound, Cut, Shards, ShardsOf, Entries
<1>7. TagsSound(c)'
  BY <1>3 DEF TagsSound, IsTagged, Carried
<1>8. LocalSound(c)'
  BY <1>1 DEF Traced, LocalSound
<1>9. ASSUME NEW m \in Entries(plan)
      PROVE  /\ m \in Module /\ plan[m] \in Version /\ worktree[c][m] = head[c][m]
             /\ worktree[c][m].version <= plan[m]
             /\ tags[c][m][plan[m]] # None => worktree[c][m].version < plan[m]
  <2>1. m \in Module /\ plan[m] > 0 /\ plan[m] \in Version
    BY <1>4 DEF Entries, Version
  <2>2. worktree[c][m] = head[c][m]
    BY <1>1, <2>1 DEF Admitted, ShardsOf, Modules
  <2> QED BY <1>1, <2>1, <2>2, PlanAhead DEF plan
<1>10. LevelSound(c)'
  BY <1>1, <1>3, <1>9 DEF LevelSound, Entries
<1>11. ResumeSound(c)'
  <2> SUFFICES ASSUME NEW m \in Entries(plan), MemberOf[m] \in resumed'[c], remoteTags[m][plan[m]] = None
               PROVE  FALSE
    BY <1>1, <1>3 DEF ResumeSound, Entries
  <2>1. Resumes(c, plan, MemberOf[m])
    BY <1>3
  <2>2. tags[c][m][plan[m]] # None
    BY <1>9, <2>1 DEF Resumes, Existing, Modules
  <2>3. plan[m] <= head[c][m].version /\ head[c][m].version < plan[m]
    BY <1>9, <2>2 DEF Traced, LocalSound
  <2>4. head[c][m] \in Content /\ plan[m] \in Version
    BY <1>9 DEF TypeOK
  <2>5. head[c][m].version \in Nat /\ plan[m] \in Nat
    BY <2>4 DEF Content, Version
  <2> QED BY <2>3, <2>5
<1>12. LookupSound(c)'
  BY <1>3 DEF LookupSound
<1> QED BY <1>5, <1>6, <1>7, <1>8, <1>10, <1>11, <1>12 DEF Traced

\* Where the loops over members end, those that are cut are tagged and pushed.
LEMMA PublishingTraced ==
  ASSUME TypeOK, NEW c \in Clone, StartsPublishing(c), at'[c] = {}, left'[c] = {},
         needed'[c] \subseteq Entries(planned'[c]), UNCHANGED <<options, needed>>,
         TagsSound(c)', LocalSound(c)', ResumeSound(c)'
  PROVE  Traced(c)'
<1>1. pc'[c] = "publish" /\ todo'[c] = IF options[c].publish THEN needed[c] ELSE {}
  BY DEF StartsPublishing, TypeOK
<1>2. LoopSound(c)'
  BY <1>1 DEF LoopSound
<1> QED BY <1>1, <1>2 DEF Traced, FilesSound, LevelSound, LookupSound

LEMMA PrepareTraced ==
  ASSUME IInv, TypeOK', NEW c \in Clone, NEW r \in Member, Prepare(c, r), Traced(c)
  PROVE  Traced(c)'
<1> USE DEF repos, public
<1>1. TypeOK /\ Sound(c)
  BY DEF IInv
<1>2. /\ pc[c] = "prepare" /\ r \in left[c]
      /\ worktree' = [worktree EXCEPT ![c] = Written(c, r)]
      /\ artifact' = [artifact EXCEPT ![c] = [m \in Module |->
           IF m \in needed[c] \cap Modules(r) THEN Written(c, r)[m] ELSE artifact[c][m]]]
      /\ UNCHANGED <<head, tags, remoteTags, options, planned, needed, resumed, at>>
  BY <1>1 DEF Prepare, NextIs, Packaged, TypeOK
<1>3. worktree'[c] = Written(c, r)
  BY <1>1, <1>2 DEF TypeOK
<1>4. ASSUME NEW m \in needed[c], MemberOf[m] \in Cut(c) \ (left[c] \ {r})
      PROVE  artifact'[c][m] = worktree'[c][m]
  <2>1. m \in Module
    BY <1>1 DEF TypeOK
  <2>2. artifact'[c][m] = IF m \in needed[c] \cap Modules(r) THEN Written(c, r)[m] ELSE artifact[c][m]
    BY <1>1, <1>2, <2>1 DEF TypeOK
  <2>3. CASE MemberOf[m] = r
    BY <1>3, <2>1, <2>2, <2>3 DEF Modules
  <2>4. CASE MemberOf[m] # r
    <3>1. artifact[c][m] = worktree[c][m]
      BY <1>2, <1>4, <2>4 DEF Traced, FilesSound
    <3>2. Written(c, r)[m] = worktree[c][m]
      BY <2>1, <2>4 DEF Written, InPlan, Modules
    <3> QED BY <1>3, <2>2, <2>4, <3>1, <3>2 DEF Modules
  <2> QED BY <2>3, <2>4
<1>5. /\ Cut(c)' = Cut(c) /\ needed[c] \subseteq Entries(planned[c])
      /\ at'[c] = {} /\ LocalSound(c)' /\ ResumeSound(c)
  BY <1>1, <1>2 DEF Cut, Shards, ShardsOf, Entries, Sound, PackageSound, Traced, LoopSound, LocalSound
<1>6. pc'[c] \in {"prepare", "commit", "publish"} => ResumeSound(c)'
  BY <1>2, <1>5 DEF ResumeSound, Entries, Carried
<1>7. CASE left[c] # {r}
  <2>1. pc'[c] = "prepare" /\ left'[c] = left[c] \ {r}
    BY <1>1, <1>2, <1>7 DEF Prepare, TypeOK
  <2>2. FilesSound(c)'
    BY <1>2, <1>4, <1>5, <2>1 DEF FilesSound
  <2>3. LevelSound(c)'
    BY <1>2, <1>5, <2>1 DEF Traced, LevelSound, Entries
  <2> QED BY <1>5, <1>6, <2>1, <2>2, <2>3 DEF Traced, LoopSound, TagsSound, IsTagged, Carried, LookupSound
<1>8. CASE left[c] = {r} /\ Cut(c) # {}
  <2>1. pc'[c] = "commit" /\ left'[c] = Cut(c)
    BY <1>1, <1>8 DEF Prepare, TypeOK
  <2>2. FilesSound(c)'
    BY <1>2, <1>4, <1>8, <2>1 DEF FilesSound
  <2>3. LevelSound(c)'
    BY <1>2, <1>5, <2>1 DEF Traced, LevelSound, Entries
  <2>4. LoopSound(c)'
    BY <1>2, <1>5, <2>1 DEF LoopSound, Entries
  <2>5. TagsSound(c)'
    BY <1>5, <2>1 DEF TagsSound, IsTagged
  <2> QED BY <1>5, <1>6, <2>1, <2>2, <2>3, <2>4, <2>5 DEF Traced, LookupSound
<1>9. CASE left[c] = {r} /\ Cut(c) = {}
  <2>1. StartsPublishing(c) /\ pc'[c] = "publish" /\ left'[c] = {}
    BY <1>1, <1>9 DEF Prepare, StartsPublishing, TypeOK
  <2>2. TagsSound(c)'
    BY <1>5, <1>9 DEF TagsSound, IsTagged
  <2>3. needed'[c] \subseteq Entries(planned'[c])
    BY <1>2, <1>5
  <2> QED BY <1>1, <1>2, <1>5, <1>6, <2>1, <2>2, <2>3, PublishingTraced
<1> QED BY <1>7, <1>8, <1>9

LEMMA CommitTraced ==
  ASSUME IInv, TypeOK', NEW c \in Clone, NEW r \in Member, Commit(c, r), Traced(c)
  PROVE  Traced(c)'
<1> USE DEF repos, public
<1>1. TypeOK /\ Sound(c)
  BY DEF IInv
<1>2. /\ pc[c] = "commit" /\ r \in left[c] /\ head' = [head EXCEPT ![c] = Committed(c, r)]
      /\ pc'[c] = "tag" /\ left'[c] = left[c] \ {r} /\ at'[c] = {r} /\ todo'[c] = InPlan(c, r)
      /\ UNCHANGED <<policy, worktree, tags, remoteTags, options, planned, needed, resumed,
                     artifact>>
  BY <1>1 DEF Commit, NextIs, TypeOK
<1>3. \A m \in Module : head'[c][m] = IF m \in InPlan(c, r) THEN worktree[c][m] ELSE head[c][m]
  BY <1>1, <1>2 DEF Committed, TypeOK
<1>4. Cut(c)' = Cut(c) /\ r \in Cut(c)
  BY <1>1, <1>2 DEF Cut, Shards, ShardsOf, Entries, Sound, LeftSound
<1>5. \A m \in Entries(planned[c]) : m \in Module /\ (m \in InPlan(c, r) <=> MemberOf[m] = r)
  BY DEF InPlan, Modules, Entries
<1>6. LoopSound(c)'
  <2>1. \A m \in InPlan(c, r) : MemberOf[m] = r
    BY DEF InPlan, Modules
  <2>2. needed[c] \subseteq Entries(planned[c])
    BY <1>2 DEF Traced, LoopSound, Carried
  <2> QED BY <1>2, <1>4, <2>1, <2>2 DEF LoopSound, Entries
<1>7. FilesSound(c)'
  <2>1. \A m \in needed[c] : MemberOf[m] \in left[c] => artifact[c][m] = worktree[c][m]
    BY <1>2 DEF Traced, FilesSound
  <2>2. \A m \in InPlan(c, r) : m \in Module /\ MemberOf[m] \in left[c] /\ head'[c][m] = worktree[c][m]
    BY <1>2, <1>3 DEF InPlan, Modules
  <2> QED BY <1>2, <2>1, <2>2 DEF FilesSound
<1>8. TagsSound(c)'
  <2>1. SUFFICES ASSUME NEW m \in Entries(planned[c]), IsTagged(c, m)'
                 PROVE  IsTagged(c, m) /\ MemberOf[m] \notin at'[c] /\ MemberOf[m] \notin at[c]
    BY <1>2 DEF Traced, TagsSound, Entries, Pushes, PermitsPush
  <2>2. MemberOf[m] \in Cut(c) \ left'[c] /\ MemberOf[m] # r
    BY <1>2, <1>4, <1>5, <2>1 DEF IsTagged
  <2>3. at[c] = {}
    BY <1>2 DEF Traced, LoopSound
  <2> QED BY <1>2, <2>2, <2>3 DEF IsTagged, Carried
<1>9. \A m \in InPlan(c, r) : /\ m \in Module /\ head'[c][m].version = planned[c][m]
                              /\ head[c][m].version <= planned[c][m]
  <2> SUFFICES ASSUME NEW m \in InPlan(c, r)
               PROVE  /\ m \in Module /\ head'[c][m].version = planned[c][m]
                      /\ head[c][m].version <= planned[c][m]
    OBVIOUS
  <2>1. m \in Entries(planned[c]) /\ m \in Module /\ MemberOf[m] \in left[c]
    BY <1>2 DEF InPlan, Modules
  <2>2. worktree[c][m].version = planned[c][m]
    BY <1>1, <1>2, <2>1 DEF Sound, BumpSound
  <2>3. head[c][m].version <= planned[c][m]
    BY <1>2, <2>1 DEF Traced, LevelSound
  <2> QED BY <1>3, <2>1, <2>2, <2>3
<1>10. LocalSound(c)'
  <2>1. \A m \in Module : head[c][m].version <= head'[c][m].version
    <3>1. \A m \in Module : head[c][m].version \in Nat
      BY <1>1, ReleaseAssumption DEF TypeOK, Content, Version
    <3> QED BY <1>3, <1>9, <3>1
  <2>2. RemoteGrows
    BY <1>2 DEF RemoteGrows
  <2> QED BY <1>1, <1>2, <2>1, <2>2, LocalKeeps DEF Traced
<1>11. LevelSound(c)'
  <2>1. SUFFICES ASSUME NEW m \in Entries(planned[c]), MemberOf[m] \in left[c] \ {r}
                 PROVE  head'[c][m].version <= planned[c][m]
    BY <1>2 DEF LevelSound, Entries
  <2>2. head'[c][m] = head[c][m]
    BY <1>3, <1>5, <2>1
  <2> QED BY <1>2, <2>1, <2>2 DEF Traced, LevelSound
<1>12. ResumeSound(c)' /\ LookupSound(c)'
  BY <1>2 DEF Traced, ResumeSound, LookupSound, Entries, Carried
<1> QED BY <1>6, <1>7, <1>8, <1>10, <1>11, <1>12 DEF Traced

LEMMA TagTraced ==
  ASSUME IInv, TypeOK', NEW c \in Clone, NEW m \in Module, Tag(c, m), Traced(c)
  PROVE  Traced(c)'
<1> USE DEF repos, public
<1>1. TypeOK /\ Sound(c)
  BY DEF IInv
<1> DEFINE v == planned[c][m]
<1>2. /\ pc[c] = "tag" /\ m \in todo[c]
      /\ tags' = [tags EXCEPT ![c] = [tags[c] EXCEPT ![m] = [tags[c][m] EXCEPT ![v] = head[c][m]]]]
      /\ todo'[c] = todo[c] \ {m}
      /\ pc'[c] = IF todo[c] = {m} THEN "push" ELSE "tag"
      /\ UNCHANGED <<policy, head, worktree, remoteTags, options, planned, needed, resumed, left,
                     at, artifact>>
  BY <1>1 DEF Tag, TypeOK
<1>3. v \in Version /\ head[c][m].version = v /\ m \in Entries(planned[c])
  BY <1>1, <1>2, ReleaseAssumption DEF Sound, TodoSound, BumpSound, Entries, Version, TypeOK
<1> HIDE DEF v
<1>4. /\ tags'[c][m][v] = head[c][m]
      /\ \A n \in Module, w \in Version : ~(n = m /\ w = v) => tags'[c][n][w] = tags[c][n][w]
  BY <1>1, <1>2, <1>3 DEF TypeOK
<1>5. Cut(c)' = Cut(c)
  BY <1>2 DEF Cut, Shards, ShardsOf, Entries
<1>6. LoopSound(c)'
  BY <1>2, <1>5 DEF Traced, LoopSound, Carried
<1>7. FilesSound(c)'
  BY <1>2 DEF Traced, FilesSound
<1>8. TagsSound(c)'
  <2>1. SUFFICES ASSUME NEW n \in Entries(planned[c]), IsTagged(c, n)'
                 PROVE  LET w == planned[c][n] IN
                        /\ tags'[c][n][w] # None
                        /\ n \in needed[c] => artifact[c][n] = tags'[c][n][w]
                        /\ Pushes(c) /\ MemberOf[n] \notin at[c] => remoteTags[n][w] = tags'[c][n][w]
    BY <1>2 DEF TagsSound, Entries, Pushes, PermitsPush
  <2>2. CASE n = m
    <3>1. head[c][m] # None
      BY <1>3, ReleaseAssumption DEF None, Version
    <3>2. m \in needed[c] => artifact[c][m] = head[c][m]
      BY <1>2 DEF Traced, FilesSound
    <3>3. MemberOf[m] \in at[c]
      BY <1>2 DEF Traced, LoopSound
    <3> QED BY <1>4, <2>2, <3>1, <3>2, <3>3 DEF v
  <2>3. CASE n # m
    <3>1. IsTagged(c, n)
      BY <1>2, <1>5, <2>1, <2>3 DEF IsTagged, Carried
    <3>2. n \in Module /\ planned[c][n] \in Version
      BY <1>1, ReleaseAssumption DEF Entries, Version, TypeOK
    <3>3. tags'[c][n][planned[c][n]] = tags[c][n][planned[c][n]]
      BY <1>4, <2>3, <3>2
    <3> QED BY <3>1, <3>3 DEF Traced, TagsSound
  <2> QED BY <2>2, <2>3
<1>9. LocalSound(c)'
  <2>1. SUFFICES ASSUME NEW n \in Module, NEW w \in Version,
                        tags'[c][n][w] # None, remoteTags[n][w] = None
                 PROVE  w <= head[c][n].version
    BY <1>2 DEF LocalSound
  <2>2. CASE n = m /\ w = v
    BY <1>3, <2>2, ReleaseAssumption DEF Version
  <2>3. CASE ~(n = m /\ w = v)
    BY <1>4, <2>1, <2>3 DEF Traced, LocalSound
  <2> QED BY <2>2, <2>3
<1>10. LevelSound(c)' /\ ResumeSound(c)' /\ LookupSound(c)'
  BY <1>2 DEF Traced, LevelSound, ResumeSound, LookupSound, Entries, Carried
<1> QED BY <1>6, <1>7, <1>8, <1>9, <1>10 DEF Traced

\* The loop goes on once the member at hand is on the remote, or is to stay local.
LEMMA NextShardTraced ==
  ASSUME TypeOK, TypeOK', NEW c \in Clone, NextShard(c), pc[c] = "push", Traced(c), RemoteGrows,
         UNCHANGED <<policy, head, worktree, tags>>,
         Pushes(c) => \A m \in Entries(planned[c]) : MemberOf[m] \in at[c] =>
           remoteTags'[m][planned[c][m]] = tags[c][m][planned[c][m]]
  PROVE  Traced(c)'
<1>1. /\ at'[c] = {}
      /\ UNCHANGED <<options, planned, needed, resumed, left, artifact>>
  BY DEF NextShard, TypeOK
<1>2. \A m \in Entries(planned[c]) : m \in Module /\ planned[c][m] \in Version
  BY ReleaseAssumption DEF Entries, Version, TypeOK
<1>3. pc'[c] \in {"commit", "publish"} /\ needed[c] \subseteq Entries(planned[c])
  BY DEF NextShard, StartsPublishing, TypeOK, Traced, LoopSound, Carried
<1>4. TagsSound(c)'
  <2>1. SUFFICES ASSUME NEW m \in Entries(planned[c]), IsTagged(c, m)'
                 PROVE  LET v == planned[c][m] IN
                        /\ tags[c][m][v] # None
                        /\ m \in needed[c] => artifact[c][m] = tags[c][m][v]
                        /\ Pushes(c) => remoteTags'[m][v] = tags[c][m][v]
    BY <1>1 DEF TagsSound, Entries, Pushes, PermitsPush
  <2>2. IsTagged(c, m)
    BY <1>1, <2>1 DEF IsTagged, Carried, Cut, Shards, ShardsOf, Entries
  <2>3. Pushes(c) /\ MemberOf[m] \notin at[c] =>
          remoteTags'[m][planned[c][m]] = tags[c][m][planned[c][m]]
    BY <1>2, <2>2 DEF Traced, TagsSound, RemoteGrows
  <2> QED BY <2>1, <2>2, <2>3 DEF Traced, TagsSound
<1>5. LocalSound(c)'
  BY DEF Traced, LocalSound, RemoteGrows
<1>6. ResumeSound(c)'
  BY <1>1, <1>2 DEF Traced, ResumeSound, RemoteGrows, Entries, Carried
<1>7. CASE left[c] = {}
  <2>1. StartsPublishing(c) /\ left'[c] = {} /\ needed'[c] \subseteq Entries(planned'[c])
    BY <1>1, <1>3, <1>7 DEF NextShard
  <2> QED BY <1>1, <1>4, <1>5, <1>6, <2>1, PublishingTraced
<1>8. CASE left[c] # {}
  <2>1. pc'[c] = "commit"
    BY <1>8 DEF NextShard, TypeOK
  <2>2. LoopSound(c)'
    BY <1>1, <1>3, <2>1 DEF LoopSound, Entries
  <2>3. FilesSound(c)' /\ LevelSound(c)' /\ LookupSound(c)'
    BY <1>1, <2>1 DEF Traced, FilesSound, LevelSound, LookupSound, Entries
  <2> QED BY <1>4, <1>5, <1>6, <2>2, <2>3 DEF Traced
<1> QED BY <1>7, <1>8

LEMMA PushTraced ==
  ASSUME TypeOK, TypeOK', NEW c \in Clone, Push(c), Traced(c), RemoteGrows
  PROVE  Traced(c)'
<1>1. pc[c] = "push" /\ UNCHANGED <<policy, head, worktree, tags>>
  BY DEF Push
<1>a. PICK r \in at[c] : \E accepted \in Acceptable(c, r) :
        /\ remoteTags' = WithTags(c, accepted)
        /\ IF PushSucceeds(c, r, accepted) THEN NextShard(c) ELSE Ends(c)
  BY DEF Push
<1>2. PICK accepted \in Acceptable(c, r) :
        /\ remoteTags' = WithTags(c, accepted)
        /\ IF PushSucceeds(c, r, accepted) THEN NextShard(c) ELSE Ends(c)
  BY <1>a
<1>3. CASE PushSucceeds(c, r, accepted)
  <2>1. NextShard(c) /\ accepted = InPlan(c, r)
    BY <1>2, <1>3 DEF PushSucceeds
  <2>2. at[c] = {r}
    BY <1>1 DEF Traced, LoopSound
  <2>3. ASSUME NEW m \in Entries(planned[c]), MemberOf[m] \in at[c]
        PROVE  remoteTags'[m][planned[c][m]] = tags[c][m][planned[c][m]]
    <3>1. m \in Module /\ m \in accepted /\ planned[c][m] \in Version
      BY <2>1, <2>2, <2>3, ReleaseAssumption DEF InPlan, Modules, Entries, Version, TypeOK
    <3>2. remoteTags'[m] = [remoteTags[m] EXCEPT ![planned[c][m]] = tags[c][m][planned[c][m]]]
      BY <1>2, <3>1 DEF WithTags
    <3>3. remoteTags[m] \in [Version -> Content \cup {None}]
      BY <3>1 DEF TypeOK
    <3> QED BY <3>1, <3>2, <3>3
  <2> QED BY <1>1, <2>1, <2>3, NextShardTraced
<1>4. CASE ~PushSucceeds(c, r, accepted)
  BY <1>1, <1>2, <1>4, EndTraced
<1> QED BY <1>3, <1>4

\* In the loops over modules only the loop moves.
LEMMA LoopTraced ==
  ASSUME TypeOK, NEW c \in Clone, pc[c] \in {"reconcile", "publish", "host"}, Traced(c),
         todo'[c] \subseteq todo[c], pc[c] = "reconcile" => todo[c] \subseteq Module, RegistryGrows,
         UNCHANGED <<policy, head, worktree, tags, remoteTags, pc, options, planned, needed,
                     resumed, left, at, artifact>>
  PROVE  Traced(c)'
<1>1. LoopSound(c)'
  BY DEF Traced, LoopSound, Entries, HasHostPhase, ToHost, HostReleases, PermitsPush
<1>2. FilesSound(c)' /\ LocalSound(c)' /\ LevelSound(c)' /\ ResumeSound(c)'
  BY DEF Traced, FilesSound, LocalSound, LevelSound, ResumeSound, Entries
<1>3. TagsSound(c)'
  BY DEF Traced, TagsSound, IsTagged, Cut, Shards, ShardsOf, Entries, Pushes, PermitsPush
<1>4. LookupSound(c)'
  BY DEF Traced, LookupSound, Known, RegistryGrows
<1> QED BY <1>1, <1>2, <1>3, <1>4 DEF Traced

LEMMA StartsHostingTraced ==
  ASSUME TypeOK, NEW c \in Clone, StartsHosting(c), Traced(c)
  PROVE  Traced(c)'
<1>1. /\ pc[c] = "publish" /\ pc'[c] = "host" /\ HasHostPhase(c) /\ todo'[c] = ToHost(c)
      /\ UNCHANGED <<policy, head, worktree, tags, remoteTags, options, planned, needed, resumed,
                     left, at, artifact>>
  BY DEF StartsHosting, repos, public, TypeOK
<1>2. LoopSound(c)'
  BY <1>1 DEF Traced, LoopSound, Carried, HasHostPhase, ToHost, HostReleases, PermitsPush, Entries
<1>3. FilesSound(c)' /\ LocalSound(c)' /\ LevelSound(c)' /\ ResumeSound(c)' /\ LookupSound(c)'
  BY <1>1 DEF Traced, FilesSound, LocalSound, LevelSound, ResumeSound, LookupSound, Entries, Carried
<1>4. TagsSound(c)'
  BY <1>1 DEF Traced, TagsSound, IsTagged, Cut, Shards, ShardsOf, Entries, Pushes, PermitsPush, Carried
<1> QED BY <1>2, <1>3, <1>4 DEF Traced

\* Every step of a run keeps what is claimed of its clone.
LEMMA RunTraced ==
  ASSUME IInv, IInv', NEW c \in Clone, Run(c), Traced(c), RemoteGrows, RegistryGrows
  PROVE  Traced(c)'
<1> USE DEF repos, public
<1>1. TypeOK /\ TypeOK' /\ (pc[c] = "reconcile" => todo[c] \subseteq Module)
  BY DEF IInv, TypeOK
<1>2. CASE Reconciled(c) \/ NothingToRelease(c) \/ Refused(c) \/ Finishes(c) \/ Stops(c)
  BY <1>1, <1>2, EndTraced DEF Reconciled, NothingToRelease, Refused, Finishes, Stops
<1>3. CASE Start(c) \/ NothingToReconcile(c) \/ Planned(c) \/ Push(c) \/ StartsHosting(c)
  BY <1>1, <1>3, StartTraced, NothingToReconcileTraced, PlannedTraced, PushTraced, StartsHostingTraced
<1>4. CASE KeepLocal(c)
  BY <1>1, <1>4, NextShardTraced DEF KeepLocal
<1>5. ASSUME NEW r \in Member, Prepare(c, r) \/ Commit(c, r)
      PROVE  Traced(c)'
  BY <1>1, <1>5, PrepareTraced, CommitTraced
<1>6. ASSUME NEW r \in Member, PrepareFails(c, r) \/ CommitFails(c, r)
      PROVE  Traced(c)'
  BY <1>1, <1>6, EndTraced DEF PrepareFails, CommitFails
<1>7. ASSUME NEW m \in Module, Tag(c, m)
      PROVE  Traced(c)'
  BY <1>1, <1>7, TagTraced
<1>8. ASSUME NEW m \in Module, Reconcile(c, m) \/ Publish(c, m) \/ Host(c, m)
      PROVE  Traced(c)'
  <2>1. pc[c] \in {"reconcile", "publish", "host"} /\ todo'[c] \subseteq todo[c]
    BY <1>1, <1>8 DEF Reconcile, Publish, Host, Hosts, TypeOK
  <2>2. UNCHANGED <<policy, head, worktree, tags, remoteTags, pc, options, planned, needed,
                    resumed, left, at, artifact>>
    BY <1>8 DEF Reconcile, Publish, Host
  <2> QED BY <1>1, <2>1, <2>2, LoopTraced
<1> QED BY <1>2, <1>3, <1>4, <1>5, <1>6, <1>7, <1>8 DEF Run

LEMMA InitTraced == Init => JInv
<1> SUFFICES ASSUME Init, NEW c \in Clone PROVE Traced(c)
  BY DEF JInv
<1>1. pc[c] = "idle" /\ at[c] = {} /\ tags[c] = remoteTags
  BY DEF Init
<1> QED BY <1>1 DEF Traced, LoopSound, FilesSound, TagsSound, IsTagged, Carried, LocalSound,
                    LevelSound, ResumeSound, LookupSound

LEMMA StepTraced == ASSUME IInv, IInv', JInv, [Next]_vars PROVE JInv'
<1>1. TypeOK
  BY DEF IInv
<1>2. ASSUME NEW c \in Clone, Run(c) \/ People(c) PROVE JInv'
  <2>1. /\ \A d \in Clone \ {c} : Trace(d)' = Trace(d)
        /\ policy' = policy /\ RemoteGrows /\ RegistryGrows
    BY <1>1, <1>2, StepOfOne
  <2>2. Traced(c)'
    BY <1>2, <2>1, RunTraced, PeopleTraced DEF JInv
  <2>3. \A d \in Clone \ {c} : Traced(d)'
    BY <1>1, <2>1, TraceKeeps DEF JInv, TypeOK
  <2> QED BY <2>2, <2>3 DEF JInv
<1>3. CASE UNCHANGED vars
  <2>1. /\ \A d \in Clone : Trace(d)' = Trace(d)
        /\ policy' = policy /\ RemoteGrows /\ RegistryGrows
    BY <1>3 DEF vars, repos, public, run, locals, Trace, Frame, RemoteGrows, RegistryGrows
  <2> QED BY <1>1, <2>1, TraceKeeps DEF JInv, TypeOK
<1> QED BY <1>2, <1>3 DEF Next

LEMMA Tracing == Spec => [](IInv /\ JInv)
<1>1. JInv /\ IInv /\ IInv' /\ [Next]_vars => JInv'
  BY StepTraced
<1> QED BY <1>1, InitTraced, Invariance, PTL DEF Spec

\* What a member that is cut publishes is what its tag names, at the planned version,
\* here and, if the run pushes, on the remote.
LEMMA PublishesItsTag ==
  ASSUME IInv, NEW c \in Clone, Traced(c), pc[c] = "publish", NEW m \in todo[c],
         MemberOf[m] \in Cut(c)
  PROVE  /\ m \in Module /\ planned[c][m] \in Version
         /\ artifact[c][m] = tags[c][m][planned[c][m]] /\ artifact[c][m] # None
         /\ artifact[c][m].version = planned[c][m]
         /\ Pushes(c) => remoteTags[m][planned[c][m]] = artifact[c][m]
<1>1. m \in needed[c] /\ m \in Entries(planned[c]) /\ at[c] = {}
  BY DEF Traced, LoopSound, Carried
<1>2. m \in Module /\ planned[c][m] \in Version
  BY <1>1, ReleaseAssumption DEF Entries, Version, IInv, TypeOK
<1>3. IsTagged(c, m)
  BY DEF IsTagged, Carried, Traced, LoopSound
<1>4. /\ tags[c][m][planned[c][m]] # None /\ artifact[c][m] = tags[c][m][planned[c][m]]
      /\ Pushes(c) => remoteTags[m][planned[c][m]] = tags[c][m][planned[c][m]]
  BY <1>1, <1>3 DEF Traced, TagsSound
<1> QED BY <1>2, <1>4 DEF IInv, TagDeclaresVersion

\* Only a publication changes the registry.
LEMMA RegistryMoves ==
  ASSUME NEW c \in Clone, Run(c) \/ People(c), ~ \E m \in Module : Publish(c, m)
  PROVE  UNCHANGED <<registry, untagged>>
<1> USE DEF repos, public
<1>1. CASE \/ Start(c) \/ Reconciled(c) \/ NothingToReconcile(c)
           \/ NothingToRelease(c) \/ Refused(c) \/ Planned(c)
           \/ KeepLocal(c) \/ Push(c) \/ StartsHosting(c) \/ Finishes(c) \/ Stops(c)
  BY <1>1 DEF Start, Reconciled, NothingToReconcile, NothingToRelease, Refused, Planned, KeepLocal,
              Push, StartsHosting, Finishes, Stops
<1>2. CASE \E r \in Member : Prepare(c, r) \/ PrepareFails(c, r) \/ Commit(c, r) \/ CommitFails(c, r)
  BY <1>2 DEF Prepare, PrepareFails, Commit, CommitFails
<1>3. CASE \E m \in Module : Reconcile(c, m) \/ Tag(c, m) \/ Host(c, m)
  BY <1>3 DEF Reconcile, Tag, Host
<1>4. CASE People(c)
  BY <1>4 DEF People, FreshClone, CleanUp, Edit, Land
<1> QED BY <1>1, <1>2, <1>3, <1>4 DEF Run

\* Only the loops over the Releases cut one.
LEMMA HostedMoves ==
  ASSUME NEW c \in Clone, Run(c) \/ People(c), ~ \E m \in Module : Reconcile(c, m) \/ Host(c, m)
  PROVE  UNCHANGED hosted
<1> USE DEF repos, public
<1>1. CASE \/ Start(c) \/ Reconciled(c) \/ NothingToReconcile(c)
           \/ NothingToRelease(c) \/ Refused(c) \/ Planned(c)
           \/ KeepLocal(c) \/ Push(c) \/ StartsHosting(c) \/ Finishes(c) \/ Stops(c)
  BY <1>1 DEF Start, Reconciled, NothingToReconcile, NothingToRelease, Refused, Planned, KeepLocal,
              Push, StartsHosting, Finishes, Stops
<1>2. CASE \E r \in Member : Prepare(c, r) \/ PrepareFails(c, r) \/ Commit(c, r) \/ CommitFails(c, r)
  BY <1>2 DEF Prepare, PrepareFails, Commit, CommitFails
<1>3. CASE \E m \in Module : Tag(c, m) \/ Publish(c, m)
  BY <1>3 DEF Tag, Publish
<1>4. CASE People(c)
  BY <1>4 DEF People, FreshClone, CleanUp, Edit, Land
<1> QED BY <1>1, <1>2, <1>3, <1>4 DEF Run

\* A publication adds the artifact under the version it declares, or nothing.
LEMMA PublishAdds ==
  ASSUME TypeOK, NEW c \in Clone, NEW m \in Module, Publish(c, m),
         NEW n \in Module, NEW v \in Version, registry'[n][v] # registry[n][v]
  PROVE  /\ n = m /\ v = artifact[c][m].version /\ registry'[n][v] = artifact[c][m]
         /\ MemberOf[m] \in resumed[c] => v \in untagged'[m]
<1> DEFINE a == artifact[c][m]
           taken(skipped) == skipped \/ registry[m][a.version] # None
<1>1. PICK skipped \in BOOLEAN :
      /\ registry' = IF taken(skipped) THEN registry
                     ELSE [registry EXCEPT ![m] = [registry[m] EXCEPT ![a.version] = a]]
      /\ untagged' = IF taken(skipped) \/ MemberOf[m] \notin resumed[c] THEN untagged
                     ELSE [untagged EXCEPT ![m] = untagged[m] \cup {a.version}]
  BY DEF Publish, TypeOK
<1> HIDE DEF taken, a
<1>2. /\ ~taken(skipped) /\ registry' = [registry EXCEPT ![m] = [registry[m] EXCEPT ![a.version] = a]]
      /\ registry \in [Module -> [Version -> Content \cup {None}]]
      /\ untagged \in [Module -> SUBSET Version]
  BY <1>1 DEF TypeOK
<1>3. n = m /\ v = a.version
  BY <1>2
<1>4. registry'[n][v] = a
  BY <1>2, <1>3
<1>5. MemberOf[m] \in resumed[c] => v \in untagged'[m]
  BY <1>1, <1>2, <1>3
<1> QED BY <1>3, <1>4, <1>5 DEF a

\* Whatever other clones do, what a run publishes of a member it cut is the planned
\* version, with the content its tag names, and only once a pushing run has the tag on
\* the remote.
THEOREM ReleasesAreTagged == Spec => ReleasedAsTagged
<1>1. IInv /\ JInv /\ [Next]_vars =>
        [\A c \in Clone, m \in Module, v \in Version :
           /\ pc[c] = "publish" /\ m \in todo[c] /\ m \notin todo'[c] /\ MemberOf[m] \in Cut(c)
           /\ registry'[m][v] # registry[m][v]
           => /\ v = planned[c][m] /\ registry'[m][v] = tags[c][m][v]
              /\ Pushes(c) => remoteTags[m][v] = tags[c][m][v] ]_vars
  <2> SUFFICES ASSUME IInv, JInv, Next, NEW c \in Clone, NEW m \in Module, NEW v \in Version,
                      pc[c] = "publish", m \in todo[c], m \notin todo'[c], MemberOf[m] \in Cut(c),
                      registry'[m][v] # registry[m][v]
               PROVE  /\ v = planned[c][m] /\ registry'[m][v] = tags[c][m][v]
                      /\ Pushes(c) => remoteTags[m][v] = tags[c][m][v]
    OBVIOUS
  <2>1. TypeOK
    BY DEF IInv
  <2>2. PICK d \in Clone : Run(d) \/ People(d)
    BY DEF Next
  <2>3. d = c
    BY <2>1, <2>2, StepOfOne DEF Trace, Frame
  <2>4. PICK n \in Module : Publish(c, n)
    BY <2>2, <2>3, RegistryMoves
  <2>5. v = artifact[c][m].version /\ registry'[m][v] = artifact[c][m]
    BY <2>1, <2>4, PublishAdds
  <2> QED BY <2>5, PublishesItsTag DEF JInv
<1> QED BY <1>1, Tracing, PTL DEF Spec, ReleasedAsTagged
-----------------------------------------------------------------------------
(* What is public agrees, where no command line publishes with --no-push.  *)

LEMMA InitPublic == Init => KInv
<1> SUFFICES ASSUME Init PROVE KInv
  OBVIOUS
<1>1. RegistryIsTagged /\ RemoteIsPublished
  BY DEF Init, RegistryIsTagged, RemoteIsPublished, Tagged
<1>2. HostedIsPushed
  <2> SUFFICES ASSUME NEW m \in Module, NEW v \in hosted[m]
               PROVE  remoteTags[m][v] # None /\ registry = remoteTags
    BY DEF HostedIsPushed
  <2>1. m \in Released /\ v = 1 /\ 1 \in Version
    BY ReleaseAssumption DEF Init, Version
  <2>2. remoteTags[m][1] = [edits |-> {}, version |-> 1] /\ registry = remoteTags
    BY <2>1 DEF Init
  <2> QED BY <2>1, <2>2 DEF None
<1> QED BY <1>1, <1>2 DEF KInv

\* Only a push changes the tags of the remote.
LEMMA RemoteMoves ==
  ASSUME NEW c \in Clone, Run(c) \/ People(c), ~ Push(c)
  PROVE  UNCHANGED remoteTags
<1> USE DEF repos, public
<1>1. CASE \/ Start(c) \/ Reconciled(c) \/ NothingToReconcile(c)
           \/ NothingToRelease(c) \/ Refused(c) \/ Planned(c)
           \/ KeepLocal(c) \/ StartsHosting(c) \/ Finishes(c) \/ Stops(c)
  BY <1>1 DEF Start, Reconciled, NothingToReconcile, NothingToRelease, Refused, Planned, KeepLocal,
              StartsHosting, Finishes, Stops
<1>2. CASE \E r \in Member : Prepare(c, r) \/ PrepareFails(c, r) \/ Commit(c, r) \/ CommitFails(c, r)
  BY <1>2 DEF Prepare, PrepareFails, Commit, CommitFails
<1>3. CASE \E m \in Module : Reconcile(c, m) \/ Tag(c, m) \/ Publish(c, m) \/ Host(c, m)
  BY <1>3 DEF Reconcile, Tag, Publish, Host
<1>4. CASE People(c)
  BY <1>4 DEF People, FreshClone, CleanUp, Edit, Land
<1> QED BY <1>1, <1>2, <1>3, <1>4 DEF Run

\* What was published untagged was.
LEMMA UntaggedGrows ==
  ASSUME TypeOK, NEW c \in Clone, Run(c) \/ People(c)
  PROVE  \A m \in Module : untagged[m] \subseteq untagged'[m]
<1>1. CASE ~ \E m \in Module : Publish(c, m)
  BY <1>1, RegistryMoves
<1>2. ASSUME NEW n \in Module, Publish(c, n)
      PROVE  \A m \in Module : untagged[m] \subseteq untagged'[m]
  <2> DEFINE v == artifact[c][n].version
  <2>1. untagged' \in {untagged, [untagged EXCEPT ![n] = untagged[n] \cup {v}]}
    BY <1>2 DEF Publish
  <2>2. untagged \in [Module -> SUBSET Version]
    BY DEF TypeOK
  <2> HIDE DEF v
  <2> QED BY <2>1, <2>2
<1> QED BY <1>1, <1>2

LEMMA RegistryStep ==
  ASSUME PublishPushes, PermitsPush, IInv, JInv, RegistryIsTagged,
         NEW c \in Clone, Run(c) \/ People(c)
  PROVE  RegistryIsTagged'
<1>1. TypeOK /\ RemoteGrows /\ RegistryGrows
  BY StepOfOne DEF IInv
<1>2. \A m \in Module : untagged[m] \subseteq untagged'[m]
  BY <1>1, UntaggedGrows
<1>3. SUFFICES ASSUME NEW m \in Module, NEW v \in Version, registry'[m][v] # None, v \notin untagged'[m]
               PROVE  remoteTags'[m][v] = registry'[m][v]
  BY DEF RegistryIsTagged, Tagged, Known
<1>4. CASE registry'[m][v] = registry[m][v]
  <2>1. v \in Tagged(m)
    BY <1>2, <1>3, <1>4 DEF Tagged, Known
  <2> QED BY <1>1, <1>3, <1>4, <2>1 DEF RegistryIsTagged, RemoteGrows
<1>5. CASE registry'[m][v] # registry[m][v]
  <2>1. PICK n \in Module : Publish(c, n)
    BY <1>5, RegistryMoves
  <2>2. /\ n = m /\ v = artifact[c][m].version /\ registry'[m][v] = artifact[c][m]
        /\ MemberOf[m] \notin resumed[c]
    BY <1>1, <1>3, <1>5, <2>1, PublishAdds
  <2>3. /\ pc[c] = "publish" /\ m \in todo[c] /\ remoteTags' = remoteTags
        /\ m \in Entries(planned[c]) /\ options[c].publish
    BY <2>1, <2>2 DEF Publish, JInv, Traced, LoopSound, Carried
  <2>4. MemberOf[m] \in Cut(c)
    BY <2>2, <2>3 DEF Cut, Shards, ShardsOf
  <2>5. Pushes(c)
    BY <1>1, <2>3 DEF Pushes, PermitsPush, PublishPushes, NoOptions, TypeOK
  <2> QED BY <2>2, <2>3, <2>4, <2>5, PublishesItsTag DEF JInv
<1> QED BY <1>4, <1>5

\* Where nothing is pushed the remote stays, and the registry only grows.
LEMMA RemoteStep ==
  ASSUME TypeOK, ~PermitsPush, RemoteIsPublished, NEW c \in Clone, Run(c) \/ People(c)
  PROVE  RemoteIsPublished'
<1>1. RegistryGrows
  BY StepOfOne
<1>2. UNCHANGED remoteTags
  BY RemoteMoves DEF Push, Pushes
<1> QED BY <1>1, <1>2 DEF RemoteIsPublished, RegistryGrows

LEMMA HostedStep ==
  ASSUME IInv, JInv, KInv, NEW c \in Clone, Run(c) \/ People(c)
  PROVE  HostedIsPushed'
<1>1. TypeOK /\ policy' = policy /\ RemoteGrows /\ RegistryGrows
  BY StepOfOne DEF IInv
<1>2. \A m \in Module : untagged[m] \subseteq untagged'[m]
  BY <1>1, UntaggedGrows
<1>3. SUFFICES ASSUME NEW m \in Module, NEW v \in hosted'[m], v \notin untagged'[m]
               PROVE  IF PermitsPush THEN remoteTags'[m][v] # None ELSE registry'[m][v] # None
  BY <1>1 DEF HostedIsPushed, PermitsPush
<1>4. CASE v \in hosted[m]
  <2>1. v \in Version /\ (IF PermitsPush THEN remoteTags[m][v] # None ELSE registry[m][v] # None)
    BY <1>1, <1>2, <1>3, <1>4 DEF KInv, HostedIsPushed, TypeOK
  <2> QED BY <1>1, <2>1 DEF RemoteGrows, RegistryGrows
<1>5. CASE v \notin hosted[m]
  <2>1. PICK n \in Module : Reconcile(c, n) \/ Host(c, n)
    BY <1>3, <1>5, HostedMoves
  <2>2. Hosts(c, n) /\ UNCHANGED <<remoteTags, registry, untagged>>
    BY <2>1 DEF Reconcile, Host
  <2>3. n = m /\ v = planned[c][m] /\ m \in todo[c]
    BY <1>1, <1>3, <1>5, <2>2 DEF Hosts, TypeOK
  <2>4. CASE Reconcile(c, n)
    <3>1. v \in Tagged(m) /\ registry[m][v] # None
      BY <1>3, <2>2, <2>3, <2>4 DEF Reconcile, JInv, Traced, LookupSound, Tagged, Known
    <3>2. PermitsPush => remoteTags[m][v] # None
      BY <3>1 DEF KInv, RegistryIsTagged
    <3> QED BY <2>2, <3>1, <3>2
  <2>5. CASE Host(c, n)
    <3>1. pc[c] = "host" /\ m \in Entries(planned[c]) /\ PermitsPush
      BY <2>3, <2>5 DEF Host, JInv, Traced, LoopSound, ToHost, HostReleases
    <3>2. CASE MemberOf[m] \in resumed[c]
      BY <2>2, <2>3, <3>1, <3>2 DEF JInv, Traced, ResumeSound, Carried
    <3>3. CASE MemberOf[m] \notin resumed[c]
      <4>1. /\ left[c] = {} /\ at[c] = {} /\ Pushes(c)
        BY <3>1 DEF JInv, Traced, LoopSound, HasHostPhase, Pushes
      <4>2. IsTagged(c, m)
        BY <3>1, <3>3, <4>1 DEF IsTagged, Carried, Cut, Shards, ShardsOf
      <4> QED BY <2>2, <2>3, <3>1, <4>1, <4>2 DEF JInv, Traced, TagsSound
    <3> QED BY <3>2, <3>3
  <2> QED BY <2>1, <2>4, <2>5
<1> QED BY <1>4, <1>5

LEMMA StepPublic == ASSUME PublishPushes, IInv, JInv, KInv, [Next]_vars PROVE KInv'
<1>1. CASE UNCHANGED vars
  BY <1>1 DEF vars, public, KInv, RegistryIsTagged, RemoteIsPublished, Tagged, HostedIsPushed, PermitsPush
<1>2. CASE Next
  <2>1. PICK c \in Clone : Run(c) \/ People(c)
    BY <1>2 DEF Next
  <2>2. PermitsPush' = PermitsPush
    BY <2>1, PolicyStays DEF PermitsPush
  <2>3. PermitsPush => RegistryIsTagged'
    BY <2>1, RegistryStep DEF KInv
  <2>4. ~PermitsPush => RemoteIsPublished'
    BY <2>1, RemoteStep DEF KInv, IInv
  <2>5. HostedIsPushed'
    BY <2>1, HostedStep
  <2> QED BY <2>2, <2>3, <2>4, <2>5 DEF KInv
<1> QED BY <1>1, <1>2

LEMMA PublicHolds == ASSUME PublishPushes PROVE Spec => []KInv
<1>1. IInv /\ JInv /\ KInv /\ [Next]_vars => KInv'
  BY StepPublic
<1> QED BY <1>1, InitPublic, Tracing, PTL DEF Spec

\* Where runs push, no Release is on the forge without its tag on the remote: whatever was
\* pushed in part, resumed, reconciled or published elsewhere.  With push = false it is of
\* a published version, and no more than that.  Unless a command line publishes with
\* --no-push; and apart from the versions of resumed members.
THEOREM HostedReleasesArePushed == ASSUME PublishPushes PROVE Spec => []HostedIsPushed
<1>1. KInv => HostedIsPushed
  BY DEF KInv
<1> QED BY <1>1, PublicHolds, PTL

\* Under the same condition the tag the remote has for a published version names what
\* was published, whatever the policy.
THEOREM TagsNameArtifacts == ASSUME PublishPushes PROVE Spec => []TagNamesArtifact
<1>1. RegistryIsTagged => TagNamesArtifact
  BY DEF RegistryIsTagged, TagNamesArtifact
<1>2. TypeOK /\ RemoteIsPublished => TagNamesArtifact
  BY DEF TypeOK, RemoteIsPublished, TagNamesArtifact, Tagged, Known
<1>3. IInv /\ KInv => TagNamesArtifact
  BY <1>1, <1>2 DEF KInv, IInv
<1> QED BY <1>3, Invariance, PublicHolds, PTL
-----------------------------------------------------------------------------
(* What is published grows, where the branch is pushed with the tags.       *)

\* y has all that x has.
Within(x, y) == x.edits \subseteq y.edits /\ x.version <= y.version

\* A clone has what the remote branch has, unless that moved since.
BranchSound(c) == \A m \in Module : MemberOf[m] \notin stale[c] => Within(remoteHead[m], head[c][m])

\* A run changes the versions of files, never what they include ...
CheckoutSound(c) == \A m \in Module : worktree[c][m].edits = head[c][m].edits

\* ... and from the tag to the push the commit stays the one that was tagged.
AtHand(c) == \A m \in Entries(planned[c]) :
  pc[c] \in {"tag", "push"} /\ MemberOf[m] \in at[c] /\ IsTagged(c, m) =>
    tags[c][m][planned[c][m]] = head[c][m]

\* Pushed, and perhaps to be published.
Awaits(c, m) ==
  m \in Entries(planned[c]) /\ IsTagged(c, m) /\ Pushes(c) /\ MemberOf[m] \notin at[c]

\* The versions of m that were published or may be.
Out(m) == Tagged(m) \cup {planned[c][m] : c \in {d \in Clone : Awaits(d, m)}}

\* The branch has all that any of them has, and they have what the lower ones have.
OrderSound == \A m \in Module : \A v \in Out(m) :
  /\ remoteTags[m][v] # None /\ Within(remoteTags[m][v], remoteHead[m])
  /\ \A w \in Out(m) : v < w => remoteTags[m][v].edits \subseteq remoteTags[m][w].edits

Grown(c) == BranchSound(c) /\ CheckoutSound(c) /\ AtHand(c)
LInv == (\A c \in Clone : Grown(c)) /\ (policy = "BranchAndTags" => OrderSound)

LEMMA ContentIs ==
  ASSUME NEW x \in Content
  PROVE  x.version \in Nat /\ x \in [edits : SUBSET (1..MaxEdits), version : Version]
BY ReleaseAssumption DEF Content, Version

LEMMA WithinTransitive ==
  ASSUME NEW x \in Content, NEW y \in Content, NEW z \in Content, Within(x, y), Within(y, z)
  PROVE  Within(x, z)
BY ContentIs DEF Within

LEMMA WithinItself ==
  ASSUME NEW x \in Content
  PROVE  Within(x, x)
BY ContentIs DEF Within

\* A clone whose files are those of its commit, but for the versions.
LEMMA WrittenEdits ==
  ASSUME TypeOK, NEW c \in Clone, CheckoutSound(c), NEW r \in Member
  PROVE  \A m \in Module : Written(c, r)[m].edits = head[c][m].edits
<1> SUFFICES ASSUME NEW m \in Module PROVE Written(c, r)[m].edits = head[c][m].edits
  OBVIOUS
<1>1. worktree[c][m] \in Content
  BY DEF TypeOK
<1>2. [worktree[c][m] EXCEPT !.version = planned[c][m]].edits = worktree[c][m].edits
  BY <1>1 DEF Content
<1> QED BY <1>2 DEF Written, CheckoutSound

\* A clone's commit gains and never loses, but for a fresh checkout.
LEMMA HeadGrows ==
  ASSUME IInv, NEW c \in Clone, Traced(c), CheckoutSound(c), Run(c) \/ People(c), ~FreshClone(c)
  PROVE  \A m \in Module : Within(head[c][m], head'[c][m])
<1>1. TypeOK /\ \A m \in Module : head[c][m] \in Content /\ worktree[c][m] \in Content
  BY DEF IInv, TypeOK
<1> USE DEF repos, public
<1>2. CASE head' = head
  BY <1>1, <1>2, WithinItself
<1>3. ASSUME NEW r \in Member, Commit(c, r)
      PROVE  \A m \in Module : Within(head[c][m], head'[c][m])
  <2> SUFFICES ASSUME NEW m \in Module PROVE Within(head[c][m], head'[c][m])
    OBVIOUS
  <2>1. pc[c] = "commit" /\ r \in left[c] /\ head'[c] = Committed(c, r)
    BY <1>1, <1>3 DEF Commit, NextIs, TypeOK
  <2>2. CASE m \notin InPlan(c, r)
    BY <1>1, <2>1, <2>2, WithinItself DEF Committed
  <2>3. CASE m \in InPlan(c, r)
    <3>1. m \in Entries(planned[c]) /\ MemberOf[m] \in left[c] /\ head'[c][m] = worktree[c][m]
      BY <2>1, <2>3 DEF InPlan, Modules, Committed
    <3>2. worktree[c][m].version = planned[c][m] /\ head[c][m].version <= planned[c][m]
      BY <2>1, <3>1 DEF IInv, Sound, BumpSound, Traced, LevelSound
    <3>3. worktree[c][m].edits = head[c][m].edits
      BY DEF CheckoutSound
    <3> QED BY <3>1, <3>2, <3>3 DEF Within
  <2> QED BY <2>2, <2>3
<1>4. ASSUME NEW n \in Module, Edit(c, n)
      PROVE  \A m \in Module : Within(head[c][m], head'[c][m])
  <2> SUFFICES ASSUME NEW m \in Module PROVE Within(head[c][m], head'[c][m])
    OBVIOUS
  <2>1. head' = [head EXCEPT ![c] = [head[c] EXCEPT ![n] =
                   [head[c][n] EXCEPT !.edits = head[c][n].edits \cup {edits'}]]]
    BY <1>4 DEF Edit
  <2>2. CASE m # n
    BY <1>1, <2>1, <2>2, WithinItself DEF TypeOK
  <2>3. CASE m = n
    <3>1. head'[c][m] = [head[c][m] EXCEPT !.edits = head[c][m].edits \cup {edits'}]
      BY <1>1, <2>1, <2>3 DEF TypeOK
    <3>2. /\ head'[c][m].edits = head[c][m].edits \cup {edits'}
          /\ head'[c][m].version = head[c][m].version
      BY <1>1, <3>1 DEF Content
    <3> QED BY <1>1, <3>2, ContentIs DEF Within
  <2> QED BY <2>2, <2>3
<1>5. CASE \/ Start(c) \/ Reconciled(c) \/ NothingToReconcile(c)
           \/ NothingToRelease(c) \/ Refused(c) \/ Planned(c)
           \/ KeepLocal(c) \/ Push(c) \/ StartsHosting(c) \/ Finishes(c) \/ Stops(c)
  BY <1>2, <1>5 DEF Start, Reconciled, NothingToReconcile, NothingToRelease, Refused, Planned, KeepLocal,
              Push, StartsHosting, Finishes, Stops
<1>6. CASE \E r \in Member : Prepare(c, r) \/ PrepareFails(c, r) \/ CommitFails(c, r)
  BY <1>2, <1>6 DEF Prepare, PrepareFails, CommitFails
<1>7. CASE \E m \in Module : Reconcile(c, m) \/ Tag(c, m) \/ Publish(c, m) \/ Host(c, m)
  BY <1>2, <1>7 DEF Reconcile, Tag, Publish, Host
<1>8. CASE CleanUp(c) \/ \E r \in Member : Land(c, r)
  BY <1>2, <1>8 DEF CleanUp, Land
<1> QED BY <1>3, <1>4, <1>5, <1>6, <1>7, <1>8 DEF Run, People

\* The branch moves by what one clone lands, which is then ahead of every other.
Advances(c, r) == /\ r \notin stale[c] /\ remoteHead' = Landed(c, r) /\ Behind(c, r)
                  /\ UNCHANGED head

LEMMA BranchMoves ==
  ASSUME TypeOK, NEW c \in Clone, Run(c) \/ People(c)
  PROVE  \/ \E r \in Member : Advances(c, r)
         \/ remoteHead' = remoteHead /\ \A d \in Clone : stale'[d] = stale[d]
         \/ FreshClone(c)
<1> USE DEF repos, public
<1>1. CASE \/ Start(c) \/ Reconciled(c) \/ NothingToReconcile(c)
           \/ NothingToRelease(c) \/ Refused(c) \/ Planned(c)
           \/ KeepLocal(c) \/ StartsHosting(c) \/ Finishes(c) \/ Stops(c)
  BY <1>1 DEF Start, Reconciled, NothingToReconcile, NothingToRelease, Refused, Planned, KeepLocal,
              StartsHosting, Finishes, Stops
<1>2. CASE \E r \in Member : Prepare(c, r) \/ PrepareFails(c, r) \/ Commit(c, r) \/ CommitFails(c, r)
  BY <1>2 DEF Prepare, PrepareFails, Commit, CommitFails
<1>3. CASE \E m \in Module : Reconcile(c, m) \/ Tag(c, m) \/ Publish(c, m) \/ Host(c, m)
  BY <1>3 DEF Reconcile, Tag, Publish, Host
<1>4. CASE CleanUp(c) \/ \E m \in Module : Edit(c, m)
  BY <1>4 DEF CleanUp, Edit
<1>5. ASSUME NEW r \in Member, Land(c, r)
      PROVE  Advances(c, r)
  BY <1>5 DEF Land, Advances
<1>6. CASE Push(c)
  <2>1. PICK r \in at[c] :
          IF PushesBranch /\ r \notin stale[c] /\ Landed(c, r) # remoteHead
          THEN remoteHead' = Landed(c, r) /\ Behind(c, r)
          ELSE UNCHANGED <<remoteHead, stale>>
    BY <1>6 DEF Push
  <2>2. r \in Member /\ UNCHANGED head
    BY <1>6 DEF Push, TypeOK
  <2> QED BY <2>1, <2>2 DEF Advances
<1> QED BY <1>1, <1>2, <1>3, <1>4, <1>5, <1>6 DEF Run, People

\* Nothing that is on the branch is taken from it.
LEMMA BranchGrows ==
  ASSUME TypeOK, NEW c \in Clone, BranchSound(c), Run(c) \/ People(c)
  PROVE  \A m \in Module : Within(remoteHead[m], remoteHead'[m])
<1>1. \A m \in Module : remoteHead[m] \in Content
  BY DEF TypeOK
<1>2. CASE remoteHead' = remoteHead
  BY <1>1, <1>2, WithinItself
<1>3. ASSUME NEW r \in Member, Advances(c, r)
      PROVE  \A m \in Module : Within(remoteHead[m], remoteHead'[m])
  <2>1. \A m \in Module : remoteHead'[m] = IF MemberOf[m] = r THEN head[c][m] ELSE remoteHead[m]
    BY <1>3 DEF Advances, Landed
  <2> QED BY <1>1, <1>3, <2>1, WithinItself DEF BranchSound, Advances
<1> QED BY <1>2, <1>3, BranchMoves DEF FreshClone, public

LEMMA BranchStep ==
  ASSUME IInv, IInv', NEW c \in Clone, Traced(c), Run(c) \/ People(c), \A d \in Clone : Grown(d)
  PROVE  \A d \in Clone : BranchSound(d)'
<1>1. /\ TypeOK /\ BranchSound(c) /\ CheckoutSound(c)
      /\ \A d \in Clone \ {c} : head'[d] = head[d]
  BY StepOfOne DEF IInv, Grown, Trace, Frame
<1>2. \A m \in Module : /\ remoteHead[m] \in Content /\ remoteHead'[m] \in Content
                        /\ head[c][m] \in Content /\ head'[c][m] \in Content
  BY DEF IInv, TypeOK
<1>3. CASE FreshClone(c)
  <2>1. head'[c] = remoteHead /\ remoteHead' = remoteHead
    BY <1>1, <1>3 DEF FreshClone, public, TypeOK
  <2>2. \A d \in Clone \ {c} : stale'[d] = stale[d]
    BY <1>1, <1>3 DEF FreshClone, TypeOK
  <2>3. BranchSound(c)'
    BY <1>2, <2>1, WithinItself DEF BranchSound
  <2> QED BY <1>1, <2>1, <2>2, <2>3 DEF Grown, BranchSound
<1>4. CASE ~FreshClone(c) /\ remoteHead' = remoteHead /\ \A d \in Clone : stale'[d] = stale[d]
  <2>1. BranchSound(c)'
    <3> SUFFICES ASSUME NEW m \in Module, MemberOf[m] \notin stale'[c]
                 PROVE  Within(remoteHead[m], head'[c][m])
      BY <1>4 DEF BranchSound
    <3>1. Within(remoteHead[m], head[c][m])
      BY <1>1, <1>4 DEF BranchSound
    <3>2. Within(head[c][m], head'[c][m])
      BY <1>1, <1>4, HeadGrows
    <3> QED BY <1>2, <3>1, <3>2, WithinTransitive
  <2> QED BY <1>1, <1>4, <2>1 DEF Grown, BranchSound
<1>5. ASSUME NEW r \in Member, Advances(c, r)
      PROVE  \A d \in Clone : BranchSound(d)'
  <2>1. /\ \A m \in Module : remoteHead'[m] = IF MemberOf[m] = r THEN head[c][m] ELSE remoteHead[m]
        /\ \A d \in Clone : stale'[d] = stale[d] \cup (IF d = c THEN {} ELSE {r})
        /\ head' = head
    BY <1>5 DEF Advances, Landed, Behind
  <2> SUFFICES ASSUME NEW d \in Clone, NEW m \in Module, MemberOf[m] \notin stale'[d]
               PROVE  Within(remoteHead'[m], head'[d][m])
    BY DEF BranchSound
  <2>2. CASE MemberOf[m] = r
    <3>1. d = c
      BY <2>1, <2>2
    <3> QED BY <1>2, <2>1, <2>2, <3>1, WithinItself
  <2>3. CASE MemberOf[m] # r
    BY <2>1, <2>3 DEF Grown, BranchSound
  <2> QED BY <2>2, <2>3
<1> QED BY <1>1, <1>3, <1>4, <1>5, BranchMoves

LEMMA CheckoutStep ==
  ASSUME IInv, NEW c \in Clone, CheckoutSound(c), Run(c) \/ People(c)
  PROVE  CheckoutSound(c)'
<1>1. TypeOK /\ \A m \in Module : head[c][m] \in Content /\ worktree[c][m] \in Content
  BY DEF IInv, TypeOK
<1> USE DEF repos, public
<1>2. CASE UNCHANGED <<head, worktree>>
  BY <1>2 DEF CheckoutSound
<1>3. ASSUME NEW r \in Member, Prepare(c, r)
      PROVE  CheckoutSound(c)'
  <2>1. worktree'[c] = Written(c, r) /\ head' = head
    BY <1>1, <1>3 DEF Prepare, TypeOK
  <2> QED BY <1>1, <2>1, WrittenEdits DEF CheckoutSound
<1>4. ASSUME NEW r \in Member, PrepareFails(c, r)
      PROVE  CheckoutSound(c)'
  <2>1. head' = head
    BY <1>4 DEF PrepareFails
  <2>2. \A m \in Module : worktree'[c][m] \in {head[c][m], Written(c, r)[m]}
    BY <1>1, <1>4 DEF PrepareFails, TypeOK
  <2> QED BY <1>1, <2>1, <2>2, WrittenEdits DEF CheckoutSound
<1>5. ASSUME NEW r \in Member, CommitFails(c, r)
      PROVE  CheckoutSound(c)'
  <2>1. head' = head
    BY <1>5 DEF CommitFails
  <2>2. \A m \in Module : worktree'[c][m] \in {head[c][m], worktree[c][m]}
    BY <1>1, <1>5 DEF CommitFails, TypeOK
  <2> QED BY <2>1, <2>2 DEF CheckoutSound
<1>6. ASSUME NEW r \in Member, Commit(c, r)
      PROVE  CheckoutSound(c)'
  <2>1. head'[c] = Committed(c, r) /\ worktree' = worktree
    BY <1>1, <1>6 DEF Commit, TypeOK
  <2> QED BY <2>1 DEF CheckoutSound, Committed
<1>7. ASSUME NEW n \in Module, Edit(c, n)
      PROVE  CheckoutSound(c)'
  <2> SUFFICES ASSUME NEW m \in Module PROVE worktree'[c][m].edits = head'[c][m].edits
    BY DEF CheckoutSound
  <2>1. /\ head' = [head EXCEPT ![c] = [head[c] EXCEPT ![n] =
                     [head[c][n] EXCEPT !.edits = head[c][n].edits \cup {edits'}]]]
        /\ worktree' = [worktree EXCEPT ![c] = [worktree[c] EXCEPT ![n] =
                         [worktree[c][n] EXCEPT !.edits = worktree[c][n].edits \cup {edits'}]]]
        /\ worktree[c][n] = head[c][n]
    BY <1>7 DEF Edit
  <2>2. CASE m # n
    BY <1>1, <2>1, <2>2 DEF TypeOK, CheckoutSound
  <2>3. CASE m = n
    BY <1>1, <2>1, <2>3 DEF TypeOK
  <2> QED BY <2>2, <2>3
<1>8. CASE FreshClone(c) \/ CleanUp(c)
  BY <1>1, <1>8 DEF FreshClone, CleanUp, CheckoutSound, TypeOK
<1>9. CASE \/ Start(c) \/ Reconciled(c) \/ NothingToReconcile(c)
           \/ NothingToRelease(c) \/ Refused(c) \/ Planned(c)
           \/ KeepLocal(c) \/ Push(c) \/ StartsHosting(c) \/ Finishes(c) \/ Stops(c)
  BY <1>2, <1>9 DEF Start, Reconciled, NothingToReconcile, NothingToRelease, Refused, Planned, KeepLocal,
              Push, StartsHosting, Finishes, Stops
<1>10. CASE \/ \E m \in Module : Reconcile(c, m) \/ Tag(c, m) \/ Publish(c, m) \/ Host(c, m)
            \/ \E r \in Member : Land(c, r)
  BY <1>2, <1>10 DEF Reconcile, Tag, Publish, Host, Land
<1> QED BY <1>3, <1>4, <1>5, <1>6, <1>7, <1>8, <1>9, <1>10 DEF Run, People

\* What a member at hand has tagged is its commit.
LEMMA AtHandStep ==
  ASSUME IInv, NEW c \in Clone, Traced(c), AtHand(c), Run(c) \/ People(c)
  PROVE  AtHand(c)'
<1>1. TypeOK /\ Sound(c)
  BY DEF IInv
<1> USE DEF repos, public
<1>2. CASE pc'[c] \notin {"tag", "push"}
  BY <1>2 DEF AtHand
<1>3. ASSUME NEW r \in Member, Commit(c, r)
      PROVE  AtHand(c)'
  <2>1. /\ pc'[c] = "tag" /\ at'[c] = {r} /\ todo'[c] = InPlan(c, r) /\ planned' = planned
    BY <1>1, <1>3 DEF Commit, TypeOK
  <2>2. \A m \in Entries(planned[c]) : MemberOf[m] = r => m \in todo'[c]
    BY <2>1 DEF InPlan, Modules, Entries
  <2> QED BY <2>1, <2>2 DEF AtHand, IsTagged, Entries
<1>4. ASSUME NEW m \in Module, Tag(c, m)
      PROVE  AtHand(c)'
  <2> DEFINE v == planned[c][m]
  <2>1. /\ pc[c] = "tag" /\ m \in todo[c]
        /\ tags' = [tags EXCEPT ![c] = [tags[c] EXCEPT ![m] = [tags[c][m] EXCEPT ![v] = head[c][m]]]]
        /\ todo'[c] = todo[c] \ {m}
        /\ pc'[c] = IF todo[c] = {m} THEN "push" ELSE "tag"
        /\ UNCHANGED <<head, planned, resumed, left, at>>
    BY <1>1, <1>4 DEF Tag, TypeOK
  <2>2. v \in Version /\ m \in Entries(planned[c])
    BY <1>1, <2>1, ReleaseAssumption DEF Sound, TodoSound, Entries, Version, TypeOK
  <2> HIDE DEF v
  <2>3. /\ tags'[c][m][v] = head[c][m]
        /\ \A n \in Module, w \in Version : ~(n = m /\ w = v) => tags'[c][n][w] = tags[c][n][w]
    BY <1>1, <2>1, <2>2 DEF TypeOK
  <2> SUFFICES ASSUME NEW n \in Entries(planned[c]), MemberOf[n] \in at[c], IsTagged(c, n)'
               PROVE  tags'[c][n][planned[c][n]] = head[c][n]
    BY <2>1 DEF AtHand, Entries
  <2>4. CASE n = m
    BY <2>3, <2>4 DEF v
  <2>5. CASE n # m
    <3>1. IsTagged(c, n)
      BY <2>1, <2>5 DEF IsTagged, Carried, Cut, Shards, ShardsOf, Entries
    <3>2. n \in Module /\ planned[c][n] \in Version
      BY <1>1, ReleaseAssumption DEF Entries, Version, TypeOK
    <3> QED BY <2>1, <2>3, <2>5, <3>1, <3>2 DEF AtHand
  <2> QED BY <2>4, <2>5
<1>5. CASE \/ Start(c) \/ Reconciled(c) \/ NothingToReconcile(c)
           \/ NothingToRelease(c) \/ Refused(c) \/ Planned(c)
           \/ StartsHosting(c) \/ Finishes(c) \/ Stops(c)
  <2>1. CASE Ends(c)
    BY <1>1, <1>2, <2>1 DEF Ends, TypeOK
  <2>2. CASE Start(c) \/ NothingToReconcile(c) \/ Planned(c) \/ StartsHosting(c)
    BY <1>1, <1>2, <2>2 DEF Start, NothingToReconcile, Planned, StartsHosting, TypeOK
  <2> QED BY <1>5, <2>1, <2>2 DEF Reconciled, NothingToRelease, Refused, Finishes, Stops
<1>6. CASE KeepLocal(c) \/ Push(c)
  <2>1. NextShard(c) \/ Ends(c)
    BY <1>6 DEF KeepLocal, Push
  <2> QED BY <1>1, <1>2, <2>1 DEF NextShard, StartsPublishing, Ends, TypeOK
<1>7. ASSUME NEW r \in Member, Prepare(c, r) \/ PrepareFails(c, r) \/ CommitFails(c, r)
      PROVE  AtHand(c)'
  BY <1>1, <1>2, <1>7 DEF Prepare, StartsPublishing, PrepareFails, CommitFails, Ends, TypeOK
<1>8. ASSUME NEW m \in Module, Reconcile(c, m) \/ Publish(c, m) \/ Host(c, m)
      PROVE  AtHand(c)'
  BY <1>2, <1>8 DEF Reconcile, Publish, Host
<1>9. CASE People(c)
  BY <1>2, <1>9 DEF People, FreshClone, CleanUp, Edit, Land, run
<1> QED BY <1>3, <1>4, <1>5, <1>6, <1>7, <1>8, <1>9 DEF Run

\* A push that succeeds brings m, and the branch if that is pushed.
Lands(c, m) ==
  /\ pc[c] = "push" /\ MemberOf[m] \in at[c] /\ m \in Entries(planned[c]) /\ IsTagged(c, m)
  /\ remoteTags'[m][planned[c][m]] = tags[c][m][planned[c][m]]
  /\ PushesBranch => MemberOf[m] \notin stale[c] /\ remoteHead'[m] = head[c][m]

LEMMA PushLands ==
  ASSUME TypeOK, NEW c \in Clone, Traced(c), Push(c), NEW m \in Module, Awaits(c, m)'
  PROVE  planned'[c][m] = planned[c][m] /\ (Awaits(c, m) \/ Lands(c, m))
<1>1. pc[c] = "push" /\ Pushes(c) /\ UNCHANGED <<policy, head, tags>>
  BY DEF Push
<1>a. PICK r \in at[c] : \E accepted \in Acceptable(c, r) :
        /\ remoteTags' = WithTags(c, accepted)
        /\ IF PushesBranch /\ r \notin stale[c] /\ Landed(c, r) # remoteHead
           THEN remoteHead' = Landed(c, r) /\ Behind(c, r)
           ELSE UNCHANGED <<remoteHead, stale>>
        /\ IF PushSucceeds(c, r, accepted) THEN NextShard(c) ELSE Ends(c)
  BY DEF Push
<1>2. PICK accepted \in Acceptable(c, r) :
        /\ remoteTags' = WithTags(c, accepted)
        /\ IF PushesBranch /\ r \notin stale[c] /\ Landed(c, r) # remoteHead
           THEN remoteHead' = Landed(c, r) /\ Behind(c, r)
           ELSE UNCHANGED <<remoteHead, stale>>
        /\ IF PushSucceeds(c, r, accepted) THEN NextShard(c) ELSE Ends(c)
  BY <1>a
<1>3. ~Ends(c)
  BY DEF Ends, Awaits, IsTagged, Carried, TypeOK
<1>4. PushSucceeds(c, r, accepted) /\ NextShard(c)
  BY <1>2, <1>3
<1>5. /\ UNCHANGED <<options, planned, resumed, left>> /\ at[c] = {r}
  BY <1>1, <1>4 DEF NextShard, Traced, LoopSound
<1>6. m \in Entries(planned[c]) /\ IsTagged(c, m)
  BY <1>1, <1>5 DEF Awaits, IsTagged, Carried, Cut, Shards, ShardsOf, Entries
<1>7. CASE MemberOf[m] # r
  BY <1>1, <1>5, <1>6, <1>7 DEF Awaits
<1>8. CASE MemberOf[m] = r
  <2>1. m \in accepted /\ planned[c][m] \in Version
    BY <1>4, <1>6, <1>8, ReleaseAssumption DEF PushSucceeds, InPlan, Modules, Entries, Version, TypeOK
  <2>2. remoteTags'[m] = [remoteTags[m] EXCEPT ![planned[c][m]] = tags[c][m][planned[c][m]]]
    BY <1>2, <2>1 DEF WithTags
  <2>3. remoteTags'[m][planned[c][m]] = tags[c][m][planned[c][m]]
    BY <2>1, <2>2 DEF TypeOK
  <2>4. PushesBranch => r \notin stale[c] /\ remoteHead' = Landed(c, r)
    BY <1>2, <1>4 DEF PushSucceeds
  <2> QED BY <1>1, <1>5, <1>6, <1>8, <2>3, <2>4 DEF Lands, Landed
<1> QED BY <1>5, <1>7, <1>8

\* Nothing else is new to be published.
LEMMA AwaitsKeeps ==
  ASSUME IInv, NEW c \in Clone, Traced(c), Run(c) \/ People(c), NEW m \in Module, Awaits(c, m)'
  PROVE  planned'[c][m] = planned[c][m] /\ (Awaits(c, m) \/ (Push(c) /\ Lands(c, m)))
<1>1. TypeOK /\ Sound(c)
  BY DEF IInv
<1> USE DEF repos, public
<1>2. pc'[c] \in Carried
  BY DEF Awaits, IsTagged
<1>3. ~Ends(c)
  BY <1>1, <1>2 DEF Ends, Carried, TypeOK
<1>0. policy' = policy
  BY PolicyStays
<1>4. CASE UNCHANGED <<options, planned, resumed, left, at>> /\ pc[c] \in Carried
           /\ (pc[c] = "tag" => MemberOf[m] \in at[c] \/ m \notin todo[c])
  <2>1. /\ Cut(c)' = Cut(c) /\ Entries(planned[c])' = Entries(planned[c])
        /\ Pushes(c)' = Pushes(c)
    BY <1>0, <1>4 DEF Cut, Shards, ShardsOf, Entries, Pushes, PermitsPush
  <2> QED BY <1>4, <2>1 DEF Awaits, IsTagged
<1>5. CASE Push(c)
  BY <1>1, <1>5, PushLands
<1>6. ASSUME NEW r \in Member, Commit(c, r)
      PROVE  planned'[c][m] = planned[c][m] /\ Awaits(c, m)
  <2>1. /\ pc[c] = "commit" /\ left'[c] = left[c] \ {r} /\ at'[c] = {r} /\ at[c] = {}
        /\ UNCHANGED <<options, planned, resumed>>
    BY <1>1, <1>6 DEF Commit, TypeOK, Traced, LoopSound
  <2> QED BY <1>0, <2>1 DEF Awaits, IsTagged, Carried, Cut, Shards, ShardsOf, Entries, Pushes, PermitsPush
<1>7. ASSUME NEW n \in Module, Tag(c, n)
      PROVE  planned'[c][m] = planned[c][m] /\ (Awaits(c, m) \/ (Push(c) /\ Lands(c, m)))
  <2>1. /\ UNCHANGED <<options, planned, resumed, left, at>> /\ pc[c] = "tag"
        /\ \A k \in todo[c] : MemberOf[k] \in at[c]
    BY <1>7 DEF Tag, Traced, LoopSound
  <2> QED BY <1>4, <2>1 DEF Carried
<1>8. ~ KeepLocal(c)
  BY <1>0, <1>1 DEF KeepLocal, NextShard, Awaits, Pushes, PermitsPush
<1>9. ~ \E r \in Member : Prepare(c, r)
  <2> SUFFICES ASSUME NEW r \in Member, Prepare(c, r) PROVE FALSE
    OBVIOUS
  <2>1. Cut(c)' = Cut(c) /\ (pc'[c] # "prepare" => Cut(c) = {} \/ left'[c] = Cut(c))
    BY <1>1 DEF Prepare, StartsPublishing, Cut, Shards, ShardsOf, Entries, TypeOK
  <2> QED BY <1>2, <2>1 DEF Awaits, IsTagged, Carried
<1>10. ~ (Start(c) \/ NothingToReconcile(c) \/ Planned(c))
  BY <1>1, <1>2 DEF Start, NothingToReconcile, Planned, Carried, TypeOK
<1>11. CASE StartsHosting(c) \/ \E n \in Module : Publish(c, n) \/ Host(c, n)
  BY <1>4, <1>11 DEF StartsHosting, Publish, Host, Carried
<1>12. ~ \E n \in Module : Reconcile(c, n)
  BY <1>2 DEF Reconcile, Carried
<1>13. ~ People(c)
  BY <1>2 DEF People, FreshClone, CleanUp, Edit, Land, run, Carried
<1>14. ~ (Reconciled(c) \/ NothingToRelease(c) \/ Refused(c) \/ Finishes(c) \/ Stops(c))
  BY <1>3 DEF Reconciled, NothingToRelease, Refused, Finishes, Stops
<1>15. ~ \E r \in Member : PrepareFails(c, r) \/ CommitFails(c, r)
  BY <1>3 DEF PrepareFails, CommitFails
<1> QED BY <1>5, <1>6, <1>7, <1>8, <1>9, <1>10, <1>11, <1>12, <1>13, <1>14, <1>15 DEF Run

\* A version that is out, or goes out with this step.
LEMMA OutGrows ==
  ASSUME PublishPushes, PermitsPush, IInv, JInv, NEW c \in Clone, Run(c) \/ People(c),
         NEW m \in Module, NEW v \in Out(m)'
  PROVE  v \in Out(m) \/ (Push(c) /\ Lands(c, m) /\ v = planned[c][m])
<1>1. TypeOK /\ Traced(c)
  BY DEF IInv, JInv
<1>2. CASE v \in Tagged(m)'
  <2>1. v \in Version /\ registry'[m][v] # None /\ v \notin untagged'[m] /\ v \notin untagged[m]
    BY <1>1, <1>2, UntaggedGrows DEF Tagged, Known
  <2>2. CASE registry'[m][v] = registry[m][v]
    BY <2>1, <2>2 DEF Out, Tagged, Known
  <2>3. CASE registry'[m][v] # registry[m][v]
    <3>1. PICK n \in Module : Publish(c, n)
      BY <2>3, RegistryMoves
    <3>2. n = m /\ v = artifact[c][m].version /\ MemberOf[m] \notin resumed[c]
      BY <1>1, <2>1, <2>3, <3>1, PublishAdds
    <3>3. /\ pc[c] = "publish" /\ m \in todo[c] /\ m \in Entries(planned[c])
          /\ options[c].publish /\ left[c] = {} /\ at[c] = {}
      BY <1>1, <3>1, <3>2 DEF Publish, Traced, LoopSound, Carried
    <3>4. MemberOf[m] \in Cut(c)
      BY <3>2, <3>3 DEF Cut, Shards, ShardsOf
    <3>5. v = planned[c][m]
      BY <1>1, <3>2, <3>3, <3>4, PublishesItsTag
    <3>6. Pushes(c)
      BY <1>1, <3>3 DEF Pushes, PermitsPush, PublishPushes, NoOptions, TypeOK
    <3>7. Awaits(c, m)
      BY <3>3, <3>4, <3>6 DEF Awaits, IsTagged, Carried
    <3> QED BY <3>5, <3>7 DEF Out
  <2> QED BY <2>2, <2>3
<1>3. CASE v \notin Tagged(m)'
  <2>1. PICK d \in Clone : Awaits(d, m)' /\ v = planned'[d][m]
    BY <1>3 DEF Out
  <2>2. CASE d = c
    BY <1>1, <2>1, <2>2, AwaitsKeeps DEF Out
  <2>3. CASE d # c
    <3>1. Trace(d)' = Trace(d) /\ policy' = policy
      BY <1>1, <2>3, StepOfOne
    <3>2. Awaits(d, m) /\ v = planned[d][m]
      BY <2>1, <3>1 DEF Trace, Frame, Awaits, IsTagged, Cut, Shards, ShardsOf, Entries, Pushes, PermitsPush
    <3> QED BY <3>2 DEF Out
  <2> QED BY <2>2, <2>3
<1> QED BY <1>2, <1>3

LEMMA OutTypes ==
  ASSUME TypeOK, NEW m \in Module
  PROVE  Out(m) \subseteq Version
BY ReleaseAssumption DEF Out, Tagged, Known, Awaits, Entries, TypeOK, Version

\* Whatever goes out has all that is out already.
LEMMA OrderStep ==
  ASSUME PublishPushes, IInv, IInv', JInv, policy = "BranchAndTags", OrderSound,
         NEW c \in Clone, Grown(c), Run(c) \/ People(c)
  PROVE  OrderSound'
<1>1. TypeOK /\ TypeOK' /\ RemoteGrows
  BY StepOfOne DEF IInv
<1>2. SUFFICES ASSUME NEW m \in Module
               PROVE  \A v \in Out(m)' :
                        /\ remoteTags'[m][v] # None /\ Within(remoteTags'[m][v], remoteHead'[m])
                        /\ \A w \in Out(m)' : v < w => remoteTags'[m][v].edits \subseteq remoteTags'[m][w].edits
  BY DEF OrderSound
<1>3. /\ remoteHead[m] \in Content /\ remoteHead'[m] \in Content /\ head[c][m] \in Content
      /\ Within(remoteHead[m], remoteHead'[m])
  BY <1>1, BranchGrows DEF TypeOK, Grown
<1>4. ASSUME NEW v \in Out(m)
      PROVE  /\ v \in Version /\ remoteTags'[m][v] = remoteTags[m][v]
             /\ remoteTags[m][v] \in Content /\ remoteTags[m][v].version = v
             /\ Within(remoteTags[m][v], remoteHead[m])
  <2>1. v \in Version /\ remoteTags[m][v] # None /\ Within(remoteTags[m][v], remoteHead[m])
    BY <1>1, OutTypes DEF OrderSound
  <2> QED BY <1>1, <2>1 DEF RemoteGrows, TypeOK, IInv, TagDeclaresVersion
<1>5. ASSUME NEW v \in Out(m)
      PROVE  remoteTags'[m][v] # None /\ Within(remoteTags'[m][v], remoteHead'[m])
  <2>1. Within(remoteTags[m][v], remoteHead'[m])
    BY <1>3, <1>4, WithinTransitive
  <2> QED BY <1>4, <2>1 DEF OrderSound
<1>6. ASSUME NEW v \in Out(m), NEW w \in Out(m), v < w
      PROVE  remoteTags'[m][v].edits \subseteq remoteTags'[m][w].edits
  BY <1>4, <1>6 DEF OrderSound
<1>7. CASE Out(m)' \subseteq Out(m)
  BY <1>5, <1>6, <1>7
<1>8. CASE ~ (Out(m)' \subseteq Out(m))
  <2> DEFINE new == planned[c][m]
  <2>1. Lands(c, m) /\ \A v \in Out(m)' : v \in Out(m) \/ v = new
    BY <1>8, OutGrows DEF PermitsPush
  <2>2. /\ remoteTags'[m][new] = head[c][m] /\ remoteHead'[m] = head[c][m]
        /\ Within(remoteHead[m], head[c][m])
    BY <2>1 DEF Lands, Grown, AtHand, BranchSound, PushesBranch
  <2>3. new \in Version /\ tags[c][m][new] # None /\ tags[c][m][new] = head[c][m]
    BY <1>1, <2>1, ReleaseAssumption
    DEF Lands, Grown, AtHand, JInv, Traced, TagsSound, Entries, Version, TypeOK
  <2>4. head[c][m].version = new /\ head[c][m] # None
    BY <2>3 DEF IInv, TagDeclaresVersion
  <2> HIDE DEF new
  <2>5. remoteTags'[m][new] # None /\ Within(remoteTags'[m][new], remoteHead'[m])
    BY <1>3, <2>2, <2>4, WithinItself
  <2>6. ASSUME NEW v \in Out(m)
        PROVE  v <= new /\ remoteTags'[m][v].edits \subseteq remoteTags'[m][new].edits
    <3>1. Within(remoteTags[m][v], head[c][m])
      BY <1>3, <1>4, <2>2, WithinTransitive
    <3> QED BY <1>4, <2>2, <2>4, <3>1 DEF Within
  <2>7. ASSUME NEW v \in Out(m)', NEW w \in Out(m)', v < w
        PROVE  remoteTags'[m][v].edits \subseteq remoteTags'[m][w].edits
    <3>1. v \in Version /\ w \in Version /\ v \in Nat /\ w \in Nat
      BY <1>4, <2>1, <2>3, ReleaseAssumption DEF Version
    <3>2. CASE v \in Out(m) /\ w \in Out(m)
      BY <1>6, <2>7, <3>2
    <3>3. CASE w = new
      BY <2>1, <2>6, <2>7, <3>1, <3>3
    <3>4. CASE v = new /\ w \in Out(m)
      BY <2>6, <2>7, <3>1, <3>4
    <3> QED BY <2>1, <3>2, <3>3, <3>4
  <2> QED BY <1>5, <2>1, <2>5, <2>7
<1> QED BY <1>7, <1>8

LEMMA InitGrows == Init => LInv
<1> SUFFICES ASSUME Init PROVE LInv
  OBVIOUS
<1>1. ASSUME NEW c \in Clone
      PROVE  pc[c] = "idle" /\ head[c] = remoteHead /\ worktree[c] = head[c] /\ ~ \E m \in Module : Awaits(c, m)
  BY DEF Init, Awaits, IsTagged, Carried
<1>2. \A m \in Module : remoteHead[m] \in Content /\ remoteHead[m].version = 1
  BY ReleaseAssumption DEF Init, Content, Version
<1>3. ASSUME NEW c \in Clone PROVE Grown(c)
  BY <1>1, <1>2, WithinItself DEF Grown, BranchSound, CheckoutSound, AtHand
<1>4. ASSUME NEW m \in Module, NEW v \in Out(m)
      PROVE  v = 1 /\ remoteTags[m][v] = remoteHead[m]
  <2>1. v \in Version /\ registry[m][v] # None
    BY <1>1 DEF Out, Tagged, Known
  <2> QED BY <2>1 DEF Init
<1>5. OrderSound
  <2> SUFFICES ASSUME NEW m \in Module, NEW v \in Out(m)
               PROVE  /\ remoteTags[m][v] # None /\ Within(remoteTags[m][v], remoteHead[m])
                      /\ \A w \in Out(m) : v < w => remoteTags[m][v].edits \subseteq remoteTags[m][w].edits
    BY DEF OrderSound
  <2>1. remoteTags[m][v] # None
    BY <1>2, <1>4 DEF None
  <2> QED BY <1>2, <1>4, <2>1, WithinItself
<1> QED BY <1>3, <1>5 DEF LInv

LEMMA StepGrows == ASSUME PublishPushes, IInv, IInv', JInv, LInv, [Next]_vars PROVE LInv'
<1>1. ASSUME NEW c \in Clone, Run(c) \/ People(c) PROVE LInv'
  <2>1. TypeOK /\ Traced(c) /\ Grown(c) /\ policy' = policy
    BY <1>1, PolicyStays DEF IInv, JInv, LInv
  <2>2. \A d \in Clone : BranchSound(d)'
    BY <1>1, <2>1, BranchStep DEF LInv
  <2>3. CheckoutSound(c)' /\ AtHand(c)'
    BY <1>1, <2>1, CheckoutStep, AtHandStep DEF Grown
  <2>4. ASSUME NEW d \in Clone, d # c
        PROVE  CheckoutSound(d)' /\ AtHand(d)'
    <3>1. Trace(d)' = Trace(d)
      BY <1>1, <2>1, <2>4, StepOfOne
    <3>2. CheckoutSound(d) /\ AtHand(d)
      BY DEF LInv, Grown
    <3>3. CheckoutSound(d)'
      BY <3>1, <3>2 DEF Trace, Frame, CheckoutSound
    <3>4. AtHand(d)'
      BY <3>1, <3>2 DEF Trace, Frame, AtHand, IsTagged, Cut, Shards, ShardsOf, Entries
    <3> QED BY <3>3, <3>4
  <2>5. policy = "BranchAndTags" => OrderSound'
    BY <1>1, <2>1, OrderStep DEF LInv
  <2> QED BY <2>1, <2>2, <2>3, <2>4, <2>5 DEF LInv, Grown
<1>2. CASE UNCHANGED vars
  <2>1. ASSUME NEW c \in Clone PROVE Grown(c)'
    <3>1. Grown(c)
      BY DEF LInv
    <3> QED BY <1>2, <3>1 DEF vars, repos, public, run, locals, Grown, BranchSound, CheckoutSound, AtHand,
                              IsTagged, Cut, Shards, ShardsOf, Entries
  <2>2. \A m \in Module : Out(m)' = Out(m)
    <3>1. \A m \in Module, c \in Clone : Awaits(c, m)' <=> Awaits(c, m)
      BY <1>2 DEF vars, repos, public, run, locals, Awaits, IsTagged, Cut, Shards, ShardsOf, Entries, Pushes, PermitsPush
    <3>2. \A m \in Module : Tagged(m)' = Tagged(m)
      BY <1>2 DEF vars, public, Tagged, Known
    <3> QED BY <1>2, <3>1, <3>2 DEF vars, run, locals, Out
  <2>3. OrderSound => OrderSound'
    BY <1>2, <2>2 DEF vars, public, OrderSound
  <2> QED BY <1>2, <2>1, <2>3 DEF LInv, vars
<1> QED BY <1>1, <1>2 DEF Next

LEMMA GrowthHolds == ASSUME PublishPushes PROVE Spec => []LInv
<1>1. IInv /\ IInv' /\ JInv /\ LInv /\ [Next]_vars => LInv'
  BY StepGrows
<1> QED BY <1>1, InitGrows, Tracing, PTL DEF Spec

\* Where the branch is pushed with the tags, a published version has every edit that a
\* lower one has: whichever clones published them, from however old a checkout, and
\* whatever was rejected or killed in between.  What a resumed member publishes is set
\* aside, as in the property.
THEOREM PublishedVersionsGrow == ASSUME PublishPushes PROVE Spec => []PublishedKeepsEdits
<1>1. KInv /\ LInv => PublishedKeepsEdits
  BY DEF KInv, PermitsPush, RegistryIsTagged, LInv, OrderSound, Out, PublishedKeepsEdits
<1> QED BY <1>1, PublicHolds, GrowthHolds, PTL
=============================================================================
