--------------------------- MODULE VersionPlanProofs ---------------------------
(***************************************************************************)
(* For any modules, dependencies, levels, requests and outages: what a     *)
(* project's tags and channels must be for its versions to ascend, to      *)
(* settle, to be tagged as they were staged and to ask for what was cut.   *)
(***************************************************************************)
EXTENDS VersionPlan, WellFoundedInduction, SequenceTheorems, FiniteSetTheorems, TLAPS

\* What the theorems ask of a project's tags.  Either every module is diffed against
\* its own tag, and gets one; or all are diffed against the umbrella's, and no module
\* is released without the umbrella, because only the umbrella is tagged or because
\* it depends on every other.  What is out at the start depends on what is out.
OwnTags(p) ==
  /\ p.baseline \in {"OwnTag", "Registry"}
  /\ \A m \in Module \ p.excluded : Selected(p, m)
  /\ \A e \in p.deps : {e[1], p.umbrella} \cap p.released # {} => e[2] \in p.released \cup p.excluded
UmbrellaTags(p) ==
  /\ p.baseline \in {"UmbrellaTag", "RegistryUmbrella"}
  /\ p.umbrella \in Module \ p.excluded /\ Selected(p, p.umbrella)
  /\ \/ p.tagMode = "Umbrella"
     \/ /\ p.dependents[p.umbrella] = "Bump"
        /\ \A m \in Module \ p.excluded : m # p.umbrella => <<p.umbrella, m>> \in p.deps
  /\ p.released = {} \/ Module \ p.excluded \subseteq p.released

\* The channels its versions may be on, and that there is one of prereleases at most.
Channels(p) ==
  p.channels \cup {Stable}
  \cup {c \in 1..Stable : \E r \in Requests, m \in Module : r.sets[m] # NoVersion /\ r.sets[m][4] = c}
OneTrain(p) == \A c, d \in Channels(p) \ {Stable} : c = d

Covered == OwnTags(project) \/ (UmbrellaTags(project) /\ OneTrain(project))
-----------------------------------------------------------------------------
(***************************************************************************)
(* The order of versions.                                                  *)
(***************************************************************************)

AnyVersion == Nat \X Nat \X Nat \X Nat \X Nat

\* The order compares five numbers, one after the other.
LEMMA LessIsTotal ==
  ASSUME NEW v \in AnyVersion, NEW w \in AnyVersion
  PROVE  /\ Less(v, w) \/ Less(w, v) \/ v = w
         /\ ~(Less(v, w) /\ Less(w, v)) /\ ~Less(v, v)
<1>1. /\ v[1] \in Nat /\ v[2] \in Nat /\ v[3] \in Nat /\ v[4] \in Nat /\ v[5] \in Nat
      /\ w[1] \in Nat /\ w[2] \in Nat /\ w[3] \in Nat /\ w[4] \in Nat /\ w[5] \in Nat
  BY DEF AnyVersion
<1>2. v[1] = w[1] /\ v[2] = w[2] /\ v[3] = w[3] /\ v[4] = w[4] /\ v[5] = w[5] => v = w
  BY DEF AnyVersion
<1> QED BY <1>1, <1>2 DEF Less

LEMMA LessIsTransitive ==
  ASSUME NEW u \in AnyVersion, NEW v \in AnyVersion, NEW w \in AnyVersion
  PROVE  /\ Less(u, v) /\ AtMost(v, w) => Less(u, w)
         /\ AtMost(u, v) /\ Less(v, w) => Less(u, w)
         /\ AtMost(u, v) /\ AtMost(v, w) => AtMost(u, w)
<1>1. /\ u[1] \in Nat /\ u[2] \in Nat /\ u[3] \in Nat /\ u[4] \in Nat /\ u[5] \in Nat
      /\ v[1] \in Nat /\ v[2] \in Nat /\ v[3] \in Nat /\ v[4] \in Nat /\ v[5] \in Nat
      /\ w[1] \in Nat /\ w[2] \in Nat /\ w[3] \in Nat /\ w[4] \in Nat /\ w[5] \in Nat
  BY DEF AnyVersion
<1> QED BY <1>1 DEF Less, AtMost

\* Every version is one of these, and above no version.
LEMMA VersionsAny ==
  /\ Versions \subseteq AnyVersion /\ NoVersion \in AnyVersion /\ NoVersion \notin Versions
  /\ First \in Versions /\ \A v \in Versions : Less(NoVersion, v) /\ v[4] \in 1..Stable
<1>1. Stable \in Nat \ {0}
  BY VersionAssumption
<1>2. \A v \in Versions : v[4] \in 1..Stable
  BY DEF Versions
<1>3. Versions \subseteq AnyVersion /\ NoVersion \in AnyVersion
  BY <1>1 DEF Versions, AnyVersion, NoVersion
<1>4. NoVersion \notin Versions
  BY <1>1, <1>2 DEF NoVersion
<1>5. First \in Versions
  BY <1>1 DEF First, Versions
<1>6. ASSUME NEW v \in Versions PROVE Less(NoVersion, v)
  <2>1. v[1] \in Nat /\ v[2] \in Nat /\ v[3] \in Nat /\ v[5] \in Nat /\ v[4] \in 1..Stable
    BY DEF Versions
  <2> QED BY <1>1, <2>1 DEF Less, NoVersion
<1> QED BY <1>2, <1>3, <1>4, <1>5, <1>6

\* A highest version is the only one.
LEMMA HighestIs ==
  ASSUME NEW S \in SUBSET AnyVersion, NEW top \in S, \A v \in S : AtMost(v, top)
  PROVE  Highest(S) = top
<1>1. \A w \in AnyVersion : AtMost(NoVersion, w)
  BY DEF AtMost, Less, NoVersion, AnyVersion
<1>2. ASSUME NEW v \in S \cup {NoVersion}, \A w \in S : AtMost(w, v) PROVE v = top
  <2>1. v \in AnyVersion /\ top \in AnyVersion /\ AtMost(top, v) /\ AtMost(v, top)
    BY <1>1, <1>2, VersionsAny
  <2> QED BY <2>1, LessIsTotal DEF AtMost
<1> QED BY <1>2 DEF Highest

\* The higher of two.
LEMMA HighestOfTwo ==
  ASSUME NEW v \in AnyVersion, NEW w \in AnyVersion
  PROVE  /\ Highest({v, w}) = IF Less(v, w) THEN w ELSE v
         /\ Highest({v, w}) \in {v, w}
         /\ AtMost(v, Highest({v, w})) /\ AtMost(w, Highest({v, w}))
<1>1. AtMost(v, v) /\ AtMost(w, w) /\ (Less(v, w) => AtMost(v, w))
  BY LessIsTotal DEF AtMost
<1>2. CASE Less(v, w)
  <2>1. \A x \in {v, w} : AtMost(x, w)
    BY <1>1, <1>2
  <2>2. Highest({v, w}) = w
    BY <2>1, HighestIs
  <2> QED BY <1>1, <1>2, <2>2
<1>3. CASE ~Less(v, w)
  <2>1. AtMost(w, v)
    BY <1>3 DEF AtMost
  <2>2. \A x \in {v, w} : AtMost(x, v)
    BY <1>1, <2>1
  <2>3. Highest({v, w}) = v
    BY <2>2, HighestIs
  <2> QED BY <1>1, <1>3, <2>1, <2>3
<1> QED BY <1>2, <1>3
-----------------------------------------------------------------------------
(***************************************************************************)
(* The next version.                                                       *)
(***************************************************************************)

Train(p) == {v \in Versions : v[4] \in Channels(p)}

\* A stable bump is a version of the train, above the one it starts from.
LEMMA StableBumpAscends ==
  ASSUME NEW v \in Versions, NEW level \in Levels
  PROVE  /\ StableBump(v, level) \in Versions /\ StableBump(v, level)[4] = Stable
         /\ Less(v, StableBump(v, level))
<1>1. /\ v[1] \in Nat /\ v[2] \in Nat /\ v[3] \in Nat /\ v[4] \in 1..Stable /\ v[5] \in Nat
      /\ Stable \in Nat \ {0}
  BY VersionAssumption DEF Versions
<1>2. CASE level = "Major"
  <2>1. StableBump(v, level) = <<v[1] + 1, 0, 0, Stable, 0>>
    BY <1>2 DEF StableBump
  <2> QED BY <1>1, <2>1 DEF Versions, Less
<1>3. CASE level = "Minor"
  <2>1. StableBump(v, level) = <<v[1], v[2] + 1, 0, Stable, 0>>
    BY <1>3 DEF StableBump
  <2> QED BY <1>1, <2>1 DEF Versions, Less
<1>4. CASE level = "Patch"
  <2>1. StableBump(v, level) = <<v[1], v[2], IF v[4] = Stable THEN v[3] + 1 ELSE v[3], Stable, 0>>
    BY <1>4 DEF StableBump
  <2> QED BY <1>1, <2>1 DEF Versions, Less
<1> QED BY <1>2, <1>3, <1>4 DEF Levels

\* With one prerelease channel every next version is above the one it starts from.
LEMMA NextAscends ==
  ASSUME NEW p, p.channels \subseteq 1..Stable,
         NEW v \in Train(p), NEW level \in Levels, NEW channel \in Channels(p)
  PROVE  /\ NextVersion(v, level, channel) \in Train(p)
         /\ OneTrain(p) => Less(v, NextVersion(v, level, channel))
<1> DEFINE base == StableBump(v, level)
           same == v[4] = channel /\ \A i \in 1..3 : base[i] = v[i]
           number == IF same THEN v[5] + 1 ELSE 1
<1>1. v \in Versions /\ v[4] \in Channels(p)
  BY DEF Train
<1>2. base \in Versions /\ base[4] = Stable /\ Less(v, base)
  BY <1>1, StableBumpAscends
<1>3. /\ v[1] \in Nat /\ v[2] \in Nat /\ v[3] \in Nat /\ v[4] \in 1..Stable /\ v[5] \in Nat
      /\ base[1] \in Nat /\ base[2] \in Nat /\ base[3] \in Nat /\ Stable \in Nat \ {0}
  BY <1>1, <1>2, VersionAssumption DEF Versions
<1>4. channel \in 1..Stable
  BY <1>3 DEF Channels
<1>5. CASE channel = Stable
  <2>1. NextVersion(v, level, channel) = base
    BY <1>5 DEF NextVersion
  <2> QED BY <1>2, <2>1 DEF Train, Channels
<1>6. CASE channel # Stable
  <2>1. NextVersion(v, level, channel) = <<base[1], base[2], base[3], channel, number>>
    BY <1>6 DEF NextVersion
  <2>2. number \in Nat
    BY <1>3
  <2>3. <<base[1], base[2], base[3], channel, number>> \in Train(p)
    <3> HIDE DEF base, number
    <3> QED BY <1>3, <1>4, <2>2 DEF Train, Versions
  <2>4. ASSUME OneTrain(p) PROVE Less(v, <<base[1], base[2], base[3], channel, number>>)
    <3>1. CASE base[1] = v[1] /\ base[2] = v[2] /\ base[3] = v[3]
      <4>1. v[4] # Stable
        BY <1>2, <1>3, <3>1 DEF StableBump, Less, Levels
      <4>2. v[4] = channel
        BY <1>1, <1>6, <2>4, <4>1 DEF OneTrain
      <4>3. number = v[5] + 1
        <5>1. 1..3 = {1, 2, 3}
          OBVIOUS
        <5> HIDE DEF base
        <5> QED BY <3>1, <4>2, <5>1
      <4> HIDE DEF base, number
      <4> QED BY <1>3, <3>1, <4>2, <4>3 DEF Less
    <3>2. CASE ~(base[1] = v[1] /\ base[2] = v[2] /\ base[3] = v[3])
      <4> HIDE DEF base, number
      <4> QED BY <1>2, <1>3, <3>2 DEF Less
    <3> QED BY <3>1, <3>2
  <2> HIDE DEF base, number
  <2> QED BY <2>1, <2>3, <2>4
<1> QED BY <1>5, <1>6
-----------------------------------------------------------------------------
(***************************************************************************)
(* What decide comes to: the dependencies of a project have no cycle, so   *)
(* the recursion of Plan has a solution, and Plan is one.                  *)
(***************************************************************************)

\* What is decided of m where f is decided of its dependencies.
Raises(f, m) == {d \in Deps(m) : f[d].version # NoVersion}
Decided(f, request, unseen, m) ==
  [floors |-> Raises(f, m),
   version |-> OwnVersion(request, m, SeedsRelease(request, m, unseen), Raises(f, m), unseen)]

\* A set of numbers that is not empty has a least one.
LEMMA LeastNat ==
  ASSUME NEW S \in SUBSET Nat, S # {}
  PROVE  \E n \in S : \A m \in S : n <= m
<1> DEFINE R == OpToRel(<, Nat)
<1>1. IsWellFoundedOn(R, Nat)
  BY NatLessThanWellFounded
<1>2. PICK n \in S : \A m \in S : ~ (<<m, n>> \in R)
  BY <1>1, WFMin
<1>3. \A m \in S : ~ (m < n)
  BY <1>2 DEF OpToRel
<1> QED BY <1>3

\* Modules can be ranked, dependencies below their dependents.
LEMMA RankExists ==
  ASSUME project \in Projects
  PROVE  \E rank \in [Module -> 0..Cardinality(Module)] :
           \A m \in Module : \A d \in Deps(m) : rank[d] < rank[m]
<1>1. IsProject(project)
  BY VersionAssumption
<1>2. PICK rank \in [Module -> 0..Cardinality(Module)] : \A e \in project.deps : rank[e[2]] < rank[e[1]]
  BY <1>1 DEF IsProject
<1>3. ASSUME NEW m \in Module, NEW d \in Deps(m) PROVE rank[d] < rank[m]
  <2>1. <<m, d>> \in project.deps
    BY DEF Deps
  <2> QED BY <1>2, <2>1
<1> QED BY <1>3

\* What is decided of m depends on what is decided of its dependencies only.
LEMMA DecidedAgrees ==
  ASSUME NEW f, NEW g, NEW request, NEW unseen, NEW m \in Module, \A d \in Deps(m) : f[d] = g[d]
  PROVE  Decided(f, request, unseen, m) = Decided(g, request, unseen, m)
<1>1. Raises(f, m) = Raises(g, m)
  BY DEF Raises
<1> QED BY <1>1 DEF Decided

LEMMA DecideExists ==
  ASSUME project \in Projects, NEW request, NEW unseen
  PROVE  \E f : f = [m \in Module |-> Decided(f, request, unseen, m)]
<1>1. PICK rank \in [Module -> 0..Cardinality(Module)] :
           \A m \in Module : \A d \in Deps(m) : rank[d] < rank[m]
  BY RankExists
<1>2. Cardinality(Module) \in Nat
  BY VersionAssumption, FS_CardinalityType
<1> DEFINE Below(n) == \E f : \A m \in Module : rank[m] < n => f[m] = Decided(f, request, unseen, m)
           Bad == {n \in Nat : ~Below(n)}
<1>3. Bad = {}
  <2> SUFFICES ASSUME Bad # {} PROVE FALSE
    OBVIOUS
  <2>1. Bad \in SUBSET Nat
    OBVIOUS
  <2>2. PICK n \in Bad : \A k \in Bad : n <= k
    <3> HIDE DEF Bad
    <3> QED BY <2>1, LeastNat
  <2>3. n # 0
    <3>1. \A m \in Module : ~(rank[m] < 0)
      BY <1>1, <1>2
    <3> QED BY <3>1
  <2>4. Below(n - 1)
    <3>1. n \in Nat /\ n - 1 \in Nat /\ n - 1 < n
      BY <2>3
    <3>2. n - 1 \notin Bad
      <4> HIDE DEF Bad
      <4> QED BY <2>2, <3>1
    <3> QED BY <3>1, <3>2
  <2>5. PICK f : \A m \in Module : rank[m] < n - 1 => f[m] = Decided(f, request, unseen, m)
    BY <2>4
  <2> DEFINE g == [m \in Module |-> Decided(f, request, unseen, m)]
  <2>6. ASSUME NEW m \in Module, rank[m] < n PROVE g[m] = Decided(g, request, unseen, m)
    <3>1. ASSUME NEW d \in Deps(m) PROVE f[d] = g[d]
      <4>1. d \in Module /\ rank[d] < rank[m]
        BY <1>1 DEF Deps
      <4>2. rank[d] < n - 1
        BY <1>1, <1>2, <2>1, <2>2, <2>6, <4>1
      <4> QED BY <2>5, <4>1, <4>2
    <3>2. Decided(f, request, unseen, m) = Decided(g, request, unseen, m)
      <4> HIDE DEF g
      <4> QED BY <3>1, DecidedAgrees
    <3> QED BY <3>2
  <2>7. Below(n)
    <3> HIDE DEF g
    <3> QED BY <2>6
  <2> QED BY <2>2, <2>7
<1>4. Below(Cardinality(Module) + 1)
  BY <1>2, <1>3
<1>5. PICK f : \A m \in Module : f[m] = Decided(f, request, unseen, m)
  <2>1. \A m \in Module : rank[m] < Cardinality(Module) + 1
    BY <1>1, <1>2
  <2>2. PICK f : \A m \in Module : rank[m] < Cardinality(Module) + 1 => f[m] = Decided(f, request, unseen, m)
    BY <1>4
  <2> QED BY <2>1, <2>2
<1> DEFINE g == [m \in Module |-> Decided(f, request, unseen, m)]
<1>6. ASSUME NEW m \in Module PROVE Decided(g, request, unseen, m) = g[m]
  <2>1. \A d \in Deps(m) : f[d] = g[d]
    BY <1>5 DEF Deps
  <2>2. Decided(f, request, unseen, m) = Decided(g, request, unseen, m)
    <3> HIDE DEF g
    <3> QED BY <2>1, DecidedAgrees
  <2> QED BY <2>2
<1>7. g = [m \in Module |-> Decided(g, request, unseen, m)]
  <2>1. g = [m \in Module |-> g[m]]
    OBVIOUS
  <2> HIDE DEF g
  <2> QED BY <1>6, <2>1
<1> HIDE DEF g
<1> QED BY <1>7

\* A plan decides each module from what it decides of the module's dependencies.
LEMMA PlanIs ==
  ASSUME project \in Projects, NEW request, NEW unseen
  PROVE  \A m \in Module : Plan(request, unseen)[m] = Decided(Plan(request, unseen), request, unseen, m)
<1> DEFINE decide == CHOOSE f : f = [m \in Module |-> Decided(f, request, unseen, m)]
<1>1. decide = [m \in Module |-> Decided(decide, request, unseen, m)]
  BY DecideExists
<1>2. Plan(request, unseen) = [m \in Module |-> decide[m]]
  BY DEF Plan, Decided, Raises
<1> HIDE DEF decide
<1>3. \A m \in Module : \A d \in Deps(m) : Plan(request, unseen)[d] = decide[d]
  BY <1>2 DEF Deps
<1>4. \A m \in Module : Decided(Plan(request, unseen), request, unseen, m) = Decided(decide, request, unseen, m)
  BY <1>3, DecidedAgrees
<1> QED BY <1>1, <1>2, <1>4
-----------------------------------------------------------------------------
(***************************************************************************)
(* The invariant.                                                          *)
(***************************************************************************)

Releasing == Module \ project.excluded

\* The module whose tags m is diffed against.
Base(m) == IF OnUmbrella THEN project.umbrella ELSE m

\* What was cut of m, and the last of it.
CutOf(m) == {cut[m][i] : i \in DOMAIN cut[m]}
Top(m) == IF cut[m] = <<>> THEN NoVersion ELSE cut[m][Len(cut[m])]

\* What the branch may hold of a module.
File(f, m) ==
  /\ f = [edits |-> f.edits, version |-> f.version, floors |-> f.floors]
  /\ f.edits \subseteq 1..edits /\ f.version \in Train(project)
  /\ f.floors = [d \in Deps(m) |-> f.floors[d]]

Types ==
  /\ project \in Projects /\ edits \in Nat
  /\ files = [m \in Module |-> files[m]] /\ \A m \in Module : File(files[m], m)
  /\ cut \in [Module -> Seq(Train(project))]
  /\ registry = [m \in Module |-> registry[m]]
  /\ \A t \in tags : t.of \in Module /\ \A m \in Module : t.commit[m].edits \subseteq 1..edits

\* Nothing is declared below what was cut, or published that was not.
Ahead == \A m \in Module : AtMost(Top(m), files[m].version) /\ registry[m] \subseteq CutOf(m)

\* A tag names what was cut under its version, once; and the last cut has one where
\* the layout tags the module.
TagsSound ==
  /\ \A t \in tags : t.version \in CutOf(t.of) /\ t.commit[t.of].version = t.version
  /\ \A s, t \in tags : s.of = t.of /\ s.version = t.version => s = t
  /\ \A m \in Module : Selected(project, m) /\ cut[m] # <<>> =>
       \E t \in tags : t.of = m /\ t.version = Top(m)

\* The tag that m is diffed against holds the last cut of m.
Anchored == \A m \in Releasing :
  /\ cut[m] = <<>> <=> cut[Base(m)] = <<>>
  /\ \A t \in tags : t.of = Base(m) /\ t.version = Top(Base(m)) => t.commit[m].version = Top(m)

\* A floor was cut, or its module declares a version that is about to be.
FloorsKept == \A m \in Module : \A d \in Deps(m) \ project.excluded :
  WasCut(d, files[m].floors[d]) \/ files[d].version # Top(d)

\* After a run that came through.
Rest == settled => \A m \in Releasing \ raised :
  ~Changed(m) /\ (project.policy = "Manifest" => AtMost(files[m].version, Top(m)))

\* The versions of a plan are not below what was cut, and floors follow them.  A lower
\* channel than that of the last cut plans the last cut again.
Follows(v, w) == AtMost(v, w) /\ (OneTrain(project) => Less(v, w))
PlanSound(plan) == \A m \in Module :
  /\ plan[m].floors = Raises(plan, m)
  /\ m \in Cuts(plan) => m \in Releasing /\ plan[m].version \in Train(project) /\ Follows(Top(m), plan[m].version)

\* What a bump wrote, of files that only people's edits have changed since.
ProposalSound == proposal # <<>> => \A m \in Module :
  LET written == proposal.written[m]  plan == proposal.plan IN
  /\ m \in Cuts(plan) => written.version = plan[m].version /\ AtMost(files[m].version, written.version)
  /\ m \notin Cuts(plan) => written.version = files[m].version
  /\ written.floors = [d \in Deps(m) |-> IF d \in plan[m].floors THEN plan[d].version
                                         ELSE files[m].floors[d]]

\* Deciding again what was decided by a module's configuration gives the same.
Repeats(staged) ==
  /\ staged.channel \in 1..Stable
  /\ \A m \in Cuts(staged.plan) \cap staged.exact :
       /\ cut[m] = <<>> => staged.channel = Stable
       /\ cut[m] # <<>> /\ project.policy # "Manifest" /\ staged.channel \in Channels(project) =>
            AtMost(NextVersion(Top(m), SelectLevel(Plain, m, TRUE), staged.channel), staged.plan[m].version)

Staging ==
  /\ ProposalSound
  /\ proposal # <<>> => PlanSound(proposal.plan) /\ (proposal.intact => Repeats(proposal))
  /\ merged # <<>> => /\ PlanSound(merged.plan) /\ Repeats(merged)
                      /\ \A m \in Cuts(merged.plan) : files[m].version = merged.plan[m].version

Cutting == Types /\ Ahead /\ CutsAscend /\ TagsSound /\ Anchored
VersionInv == Covered /\ Cutting /\ FloorsKept /\ FloorsAreCut /\ Rest /\ Staging
-----------------------------------------------------------------------------
(***************************************************************************)
(* What a module is diffed against.                                        *)
(***************************************************************************)

\* What the assumption says of the project.
LEMMA ProjectType ==
  ASSUME project \in Projects
  PROVE  /\ project.deps \subseteq Module \X Module
         /\ project.level \in [Module -> Levels \cup {"Auto"}]
         /\ project.dependents \in [Module -> {"Bump", "Upgrade"}]
         /\ project.excluded \subseteq Module /\ project.released \subseteq Module
         /\ project.umbrella \in Module \cup {NoModule} /\ NoModule \notin Module
         /\ project.channels \subseteq 1..Stable /\ project.policy \in {"SemverCascade", "Manifest"}
  BY VersionAssumption DEF IsProject

\* The last cut of a module is its highest.
LEMMA TopIsHighest ==
  ASSUME Types, CutsAscend, NEW m \in Module
  PROVE  /\ CutOf(m) \subseteq Train(project) /\ Top(m) \in AnyVersion
         /\ cut[m] = <<>> => CutOf(m) = {} /\ Top(m) = NoVersion
         /\ cut[m] # <<>> => Top(m) \in CutOf(m) /\ Top(m) # NoVersion
         /\ \A v \in CutOf(m) : AtMost(v, Top(m))
<1>1. cut[m] \in Seq(Train(project)) /\ Train(project) \subseteq Versions
  BY DEF Types, Train
<1>2. PICK s \in Seq(Train(project)) : s = cut[m]
  BY <1>1
<1>3. Len(s) \in Nat /\ DOMAIN s = 1..Len(s) /\ \A i \in 1..Len(s) : s[i] \in Train(project)
  BY <1>2
<1>4. CutOf(m) \subseteq Train(project)
  BY <1>2, <1>3 DEF CutOf
<1>5. CASE s = <<>>
  BY <1>2, <1>4, <1>5, VersionsAny DEF Top, CutOf
<1>6. CASE s # <<>>
  <2>1. Len(s) \in 1..Len(s)
    BY <1>3, <1>6
  <2>2. Top(m) = s[Len(s)]
    BY <1>2, <1>6 DEF Top
  <2>3. Top(m) \in CutOf(m) /\ Top(m) \in Versions
    BY <1>1, <1>2, <1>3, <2>1, <2>2 DEF CutOf
  <2>4. ASSUME NEW v \in CutOf(m) PROVE AtMost(v, Top(m))
    <3>1. PICK i \in 1..Len(s) : v = s[i]
      BY <1>2, <1>3 DEF CutOf
    <3>2. v \in AnyVersion /\ Top(m) \in AnyVersion
      BY <1>1, <1>4, <2>3, VersionsAny
    <3>3. CASE i = Len(s)
      BY <2>2, <3>1, <3>2, <3>3, LessIsTotal DEF AtMost
    <3>4. CASE i < Len(s)
      <4>1. Less(v, Top(m))
        BY <1>2, <1>3, <2>1, <2>2, <3>1, <3>4 DEF CutsAscend
      <4> QED BY <3>2, <4>1, LessIsTotal DEF AtMost
    <3>5. PICK n \in Nat : n = Len(s)
      BY <1>3
    <3>6. i = n \/ i < n
      BY <3>5
    <3> QED BY <3>3, <3>4, <3>5, <3>6
  <2> QED BY <1>2, <1>4, <1>6, <2>3, <2>4, VersionsAny
<1> QED BY <1>5, <1>6

\* A module that releases is diffed against the tags of one that the layout tags.
LEMMA BaseTagged ==
  ASSUME Covered, NEW m \in Releasing
  PROVE  Base(m) \in Releasing /\ Base(m) \in Module /\ Selected(project, Base(m))
  BY DEF Covered, OwnTags, UmbrellaTags, Base, OnUmbrella, Releasing

\* It is diffed against the tag of the last cut, and that is its baseline whatever
\* the registry answers.
LEMMA AnchorIs ==
  ASSUME Covered, Cutting, NEW m \in Releasing
  PROVE  /\ cut[m] = <<>> => Anchor(m) = {}
         /\ cut[m] # <<>> => \E t \in tags : /\ Anchor(m) = {t}
                                             /\ t.of = Base(m) /\ t.version = Top(Base(m))
                                             /\ t.commit[m].version = Top(m)
<1> DEFINE own == {t \in tags : t.of = Base(m)}
           versions == {t.version : t \in own}
<1>1. Base(m) \in Module /\ Selected(project, Base(m)) /\ m \in Module
  BY BaseTagged DEF Releasing
<1>2. Anchor(m) = {t \in own : t.version = Highest(versions)}
  BY DEF Anchor, Base
<1>3. versions \subseteq CutOf(Base(m))
  BY DEF Cutting, TagsSound
<1>4. cut[m] = <<>> <=> cut[Base(m)] = <<>>
  BY DEF Cutting, Anchored
<1>5. CASE cut[m] = <<>>
  <2>1. CutOf(Base(m)) = {}
    BY <1>1, <1>4, <1>5, TopIsHighest DEF Cutting
  <2>2. own = {}
    BY <1>3, <2>1
  <2> QED BY <1>2, <1>5, <2>2
<1>6. CASE cut[m] # <<>>
  <2>1. PICK t \in tags : t.of = Base(m) /\ t.version = Top(Base(m))
    BY <1>1, <1>4, <1>6 DEF Cutting, TagsSound
  <2>2. versions \subseteq AnyVersion /\ \A v \in versions : AtMost(v, Top(Base(m)))
    <3>1. CutOf(Base(m)) \subseteq Train(project) /\ \A v \in CutOf(Base(m)) : AtMost(v, Top(Base(m)))
      BY <1>1, TopIsHighest DEF Cutting
    <3>2. Train(project) \subseteq AnyVersion
      BY VersionsAny DEF Train
    <3> HIDE DEF versions
    <3> QED BY <1>3, <3>1, <3>2
  <2>3. Top(Base(m)) \in versions
    BY <2>1
  <2>4. Highest(versions) = Top(Base(m))
    <3> HIDE DEF versions
    <3> QED BY <2>2, <2>3, HighestIs
  <2>5. \A s \in own : s.version = Top(Base(m)) => s = t
    BY <2>1 DEF Cutting, TagsSound
  <2>6. Anchor(m) = {t}
    <3> HIDE DEF versions
    <3> QED BY <1>2, <2>1, <2>4, <2>5
  <2>7. t.commit[m].version = Top(m)
    BY <2>1 DEF Cutting, Anchored
  <2> QED BY <1>6, <2>1, <2>6, <2>7
<1> QED BY <1>5, <1>6

LEMMA BaselineIs ==
  ASSUME Covered, Cutting, NEW m \in Releasing, NEW unseen
  PROVE  Baseline(m, unseen) = Top(m) /\ (IsInitial(m, unseen) <=> cut[m] = <<>>)
<1> DEFINE named == {IF OnUmbrella THEN t.commit[m].version ELSE t.version : t \in Anchor(m)}
           listed == IF OnRegistry /\ m \notin unseen THEN registry[m] ELSE {}
<1>1. /\ CutOf(m) \subseteq Train(project) /\ Top(m) \in AnyVersion
      /\ cut[m] = <<>> => CutOf(m) = {} /\ Top(m) = NoVersion
      /\ cut[m] # <<>> => Top(m) \in CutOf(m) /\ Top(m) # NoVersion
      /\ \A v \in CutOf(m) : AtMost(v, Top(m))
  BY TopIsHighest DEF Cutting, Releasing
<1>2. listed \subseteq CutOf(m)
  BY DEF Cutting, Ahead, Releasing
<1>3. Baseline(m, unseen) = Highest(named \cup listed)
  BY DEF Baseline
<1>4. CASE cut[m] = <<>>
  <2>1. Anchor(m) = {}
    BY <1>4, AnchorIs
  <2>2. named \cup listed = {}
    BY <1>1, <1>2, <1>4, <2>1
  <2>3. Highest({}) = NoVersion
    BY DEF Highest
  <2> HIDE DEF named, listed
  <2> QED BY <1>1, <1>3, <1>4, <2>1, <2>2, <2>3 DEF IsInitial
<1>5. CASE cut[m] # <<>>
  <2>1. PICK t \in tags : /\ Anchor(m) = {t} /\ t.of = Base(m) /\ t.version = Top(Base(m))
                          /\ t.commit[m].version = Top(m)
    BY <1>5, AnchorIs
  <2>2. named = {Top(m)}
    BY <2>1 DEF Base
  <2>3. named \cup listed \subseteq CutOf(m) /\ Top(m) \in named \cup listed
    <3> HIDE DEF named, listed
    <3> QED BY <1>1, <1>2, <1>5, <2>2
  <2>4. CutOf(m) \subseteq AnyVersion
    BY <1>1, VersionsAny DEF Train
  <2>5. Highest(named \cup listed) = Top(m)
    <3> HIDE DEF named, listed
    <3> QED BY <1>1, <2>3, <2>4, HighestIs
  <2> HIDE DEF named, listed
  <2> QED BY <1>1, <1>3, <1>5, <2>1, <2>5 DEF IsInitial
<1> QED BY <1>4, <1>5

\* A module that releases changed, unless its files are those of the tag.
LEMMA ChangedIs ==
  ASSUME Covered, Cutting, NEW m \in Releasing
  PROVE  /\ files[m].version # Top(m) => Changed(m)
         /\ cut[m] = <<>> => Changed(m)
<1>1. CASE cut[m] = <<>>
  BY <1>1, AnchorIs DEF Changed
<1>2. CASE cut[m] # <<>>
  BY <1>2, AnchorIs DEF Changed
<1> QED BY <1>1, <1>2
-----------------------------------------------------------------------------
(***************************************************************************)
(* What a plan decides.                                                    *)
(***************************************************************************)

\* The requests of a run, and the plain ones of a later tag.
Request(r) ==
  /\ r.levels \in [Module -> Levels \cup {"None"}]
  /\ \A m \in Module : r.sets[m] = NoVersion \/ r.sets[m] \in Train(project)
  /\ r.channel \in 1..Stable

LEMMA RequestIs ==
  ASSUME project \in Projects
  PROVE  /\ \A r \in Requests : Request(r)
         /\ \A c \in 1..Stable : Request([Plain EXCEPT !.channel = c])
<1>1. ASSUME NEW r \in Requests PROVE Request(r)
  <2>1. IsRequest(r)
    BY VersionAssumption
  <2>2. ASSUME NEW m \in Module, r.sets[m] # NoVersion
        PROVE  r.sets[m] \in Versions /\ r.sets[m][4] \in Channels(project)
    <3>1. r.sets[m] \in Versions
      BY <2>1, <2>2 DEF IsRequest
    <3> QED BY <2>2, <3>1, VersionsAny DEF Channels
  <2> QED BY <2>1, <2>2 DEF IsRequest, Request, Train
<1>2. ASSUME NEW c \in 1..Stable PROVE Request([Plain EXCEPT !.channel = c])
  BY DEF Request, Plain
<1> QED BY <1>1, <1>2

\* A level is selected of every module but a dependent that upgrades.
LEMMA LevelIs ==
  ASSUME project \in Projects, NEW r, Request(r), NEW m \in Module, NEW seed \in BOOLEAN
  PROVE  /\ SelectLevel(r, m, seed) \in Levels \cup {"None"}
         /\ SelectLevel(r, m, seed) = "None" =>
              r.levels[m] = "None" /\ ~seed /\ project.dependents[m] = "Upgrade"
<1>1. r.levels[m] \in Levels \cup {"None"} /\ project.level[m] \in Levels \cup {"Auto"}
  BY ProjectType DEF Request
<1> QED BY <1>1 DEF SelectLevel, Levels

\* What is above follows.
LEMMA LessFollows ==
  ASSUME NEW v \in AnyVersion, NEW w \in AnyVersion, Less(v, w)
  PROVE  Follows(v, w)
BY LessIsTotal DEF Follows, AtMost

\* The computed version is no lower than the declared one, and follows the last cut.
LEMMA ComputedIs ==
  ASSUME Covered, Cutting, NEW m \in Releasing, NEW level \in Levels, NEW c \in Channels(project),
         NEW unseen
  PROVE  LET v == Computed(m, level, c, unseen) IN
         /\ v \in Train(project) /\ Follows(Top(m), v) /\ AtMost(files[m].version, v)
         /\ v = files[m].version \/ v = NextVersion(IF cut[m] = <<>> THEN files[m].version ELSE Top(m), level, c)
         /\ cut[m] # <<>> => /\ AtMost(NextVersion(Top(m), level, c), v)
                             /\ AtMost(NextVersion(Top(m), level, c), files[m].version) => v = files[m].version
<1> DEFINE anchor == IF cut[m] = <<>> THEN files[m].version ELSE Top(m)
           next == NextVersion(anchor, level, c)
           v == Computed(m, level, c, unseen)
<1>1. m \in Module /\ project \in Projects /\ files[m].version \in Train(project)
  BY DEF Cutting, Types, File, Releasing
<1>2. Baseline(m, unseen) = Top(m)
  BY BaselineIs
<1>3. /\ Top(m) \in AnyVersion /\ AtMost(Top(m), files[m].version)
      /\ cut[m] = <<>> => Top(m) = NoVersion
      /\ cut[m] # <<>> => Top(m) \in Train(project) /\ Top(m) # NoVersion
  BY <1>1, TopIsHighest DEF Cutting, Ahead
<1>4. anchor \in Train(project) /\ (Top(m) = NoVersion <=> cut[m] = <<>>)
  BY <1>1, <1>3
<1>5. next \in Train(project) /\ (OneTrain(project) => Less(anchor, next))
  <2>1. project.channels \subseteq 1..Stable
    BY <1>1, ProjectType
  <2> HIDE DEF anchor
  <2> QED BY <1>4, <2>1, NextAscends
<1>6. v = Highest({files[m].version, next})
  BY <1>2, <1>4 DEF Computed
<1>7. Train(project) \subseteq AnyVersion /\ Train(project) \subseteq Versions
  BY VersionsAny DEF Train
<1> HIDE DEF next, v
<1>8. /\ v = IF Less(files[m].version, next) THEN next ELSE files[m].version
      /\ v \in {files[m].version, next} /\ AtMost(files[m].version, v) /\ AtMost(next, v)
  BY <1>1, <1>5, <1>6, <1>7, HighestOfTwo
<1>9. Follows(Top(m), v)
  <2>1. AtMost(Top(m), v)
    BY <1>1, <1>3, <1>5, <1>7, <1>8, LessIsTransitive
  <2>2. ASSUME OneTrain(project) PROVE Less(Top(m), v)
    <3>1. CASE cut[m] = <<>>
      BY <1>1, <1>3, <1>5, <1>7, <1>8, <3>1, VersionsAny
    <3>2. CASE cut[m] # <<>>
      <4>1. Less(Top(m), next)
        BY <1>5, <2>2, <3>2
      <4> QED BY <1>1, <1>3, <1>5, <1>7, <1>8, <4>1, LessIsTransitive
    <3> QED BY <3>1, <3>2
  <2> QED BY <2>1, <2>2 DEF Follows
<1>10. cut[m] # <<>> => next = NextVersion(Top(m), level, c)
  BY DEF next
<1>11. AtMost(next, files[m].version) => v = files[m].version
  BY <1>8 DEF AtMost
<1> QED BY <1>1, <1>5, <1>8, <1>9, <1>10, <1>11 DEF v, next

\* Where resolve_bump does not refuse it either has no version for the module, or one
\* that follows what was cut and is no lower than what is declared.
LEMMA ResolvedIs ==
  ASSUME Covered, Cutting, NEW r, Request(r), NEW m \in Releasing, NEW seed \in BOOLEAN,
         NEW unseen, NEW intent \in {"Bump", "Verify"},
         ~Rejects(intent, r, m, seed, unseen),
         project.policy = "Manifest" => r.channel = Stable
  PROVE  LET v == ResolveBump(r, m, seed, unseen) IN
         /\ v # NoVersion => v \in Train(project) /\ Follows(Top(m), v) /\ AtMost(files[m].version, v)
         /\ v = NoVersion => \/ r.levels[m] = "None" /\ ~seed /\ project.dependents[m] = "Upgrade"
                             \/ intent = "Bump"
<1> DEFINE v == ResolveBump(r, m, seed, unseen)
           current == files[m].version
           level == SelectLevel(r, m, seed)
<1>1. m \in Module /\ project \in Projects /\ current \in Train(project)
  BY DEF Cutting, Types, File, Releasing
<1>2. Baseline(m, unseen) = Top(m) /\ (IsInitial(m, unseen) <=> cut[m] = <<>>)
  BY BaselineIs
<1>3. /\ Top(m) \in AnyVersion /\ AtMost(Top(m), current) /\ (cut[m] = <<>> => Top(m) = NoVersion)
  BY <1>1, TopIsHighest DEF Cutting, Ahead
<1>4. Train(project) \subseteq AnyVersion /\ Train(project) \subseteq Versions /\ NoVersion \notin Train(project)
  BY VersionsAny DEF Train
<1>5. AtMost(current, current)
  BY <1>1, <1>4, LessIsTotal DEF AtMost
<1>6. level \in Levels \cup {"None"} /\ (level = "None" =>
              r.levels[m] = "None" /\ ~seed /\ project.dependents[m] = "Upgrade")
  BY <1>1, LevelIs
<1>7. CASE r.sets[m] # NoVersion
  <2>1. v = r.sets[m] /\ v \in Train(project)
    BY <1>1, <1>7 DEF ResolveBump, Request
  <2>2. Less(current, v)
    BY <1>7, <2>1 DEF Rejects, AtMost
  <2>3. Follows(Top(m), v)
    <3>1. Less(Top(m), v)
      BY <1>1, <1>3, <1>4, <2>1, <2>2, LessIsTransitive
    <3> QED BY <1>3, <1>4, <2>1, <3>1, LessFollows
  <2>4. AtMost(current, v)
    BY <1>1, <1>4, <2>1, <2>2, LessIsTotal DEF AtMost
  <2> QED BY <1>4, <2>1, <2>3, <2>4
<1>8. CASE r.sets[m] = NoVersion /\ cut[m] = <<>> /\ seed /\ r.levels[m] = "None" /\ r.channel = Stable
  <2>1. v = current
    BY <1>2, <1>8 DEF ResolveBump
  <2>2. Less(Top(m), current)
    BY <1>1, <1>3, <1>4, <1>8, VersionsAny
  <2>3. Follows(Top(m), v)
    BY <1>1, <1>3, <1>4, <2>1, <2>2, LessFollows
  <2> QED BY <1>1, <1>4, <1>5, <2>1, <2>3
<1>9. CASE /\ r.sets[m] = NoVersion /\ level = "None"
           /\ ~(cut[m] = <<>> /\ seed /\ r.levels[m] = "None" /\ r.channel = Stable)
  <2>1. v = NoVersion
    BY <1>2, <1>9 DEF ResolveBump
  <2> QED BY <1>6, <1>9, <2>1
<1>10. CASE /\ r.sets[m] = NoVersion /\ level # "None" /\ project.policy = "Manifest" /\ r.levels[m] = "None"
            /\ ~(cut[m] = <<>> /\ seed /\ r.levels[m] = "None" /\ r.channel = Stable)
  <2>1. v = IF AtMost(current, Top(m)) THEN NoVersion ELSE current
    BY <1>2, <1>10 DEF ResolveBump
  <2>2. intent = "Verify" => ~AtMost(current, Top(m))
    BY <1>2, <1>10 DEF Rejects
  <2>3. CASE AtMost(current, Top(m))
    BY <2>1, <2>2, <2>3
  <2>4. CASE ~AtMost(current, Top(m))
    <3>1. Less(Top(m), current)
      BY <2>4 DEF AtMost
    <3>2. v = current
      BY <2>1, <2>4
    <3>3. Follows(Top(m), v)
      BY <1>1, <1>3, <1>4, <3>1, <3>2, LessFollows
    <3> QED BY <1>1, <1>4, <1>5, <3>2, <3>3
  <2> QED BY <2>3, <2>4
<1>11. CASE /\ r.sets[m] = NoVersion /\ level # "None" /\ ~(project.policy = "Manifest" /\ r.levels[m] = "None")
            /\ ~(cut[m] = <<>> /\ seed /\ r.levels[m] = "None" /\ r.channel = Stable)
  <2>1. v = Computed(m, level, r.channel, unseen)
    BY <1>2, <1>11 DEF ResolveBump
  <2>2. r.channel \in Channels(project)
    BY <1>11 DEF Rejects, Recognized, Channels
  <2>3. level \in Levels
    BY <1>6, <1>11
  <2>4. v \in Train(project) /\ Follows(Top(m), v) /\ AtMost(current, v)
    <3> HIDE DEF level, v
    <3> QED BY <2>1, <2>2, <2>3, ComputedIs
  <2> QED BY <1>4, <2>4
<1> QED BY <1>7, <1>8, <1>9, <1>10, <1>11

\* A plan no command refuses is sound; a run that tags cuts every module that seeds a
\* release, and the umbrella with any other where modules are diffed against its tag.
LEMMA PlanFacts ==
  ASSUME Covered, Cutting, NEW r, Request(r), NEW unseen, NEW intent \in {"Bump", "Verify"},
         NEW plan, plan = Plan(r, unseen), ~Refused(intent, r, plan, unseen)
  PROVE  /\ PlanSound(plan)
         /\ \A m \in Cuts(plan) : /\ AtMost(files[m].version, plan[m].version)
                                  /\ plan[m].version = ResolveBump(r, m, SeedsRelease(r, m, unseen), unseen)
                                  /\ ~Rejects(intent, r, m, SeedsRelease(r, m, unseen), unseen)
         /\ intent = "Verify" =>
              /\ \A m \in Releasing : SeedsRelease(r, m, unseen) => m \in Cuts(plan)
              /\ OnUmbrella /\ Entries(plan) # {} => project.umbrella \in Cuts(plan)
<1>1. project \in Projects
  BY DEF Cutting, Types
<1>2. ASSUME NEW m \in Module
      PROVE  /\ plan[m].floors = Raises(plan, m)
             /\ plan[m].version = OwnVersion(r, m, SeedsRelease(r, m, unseen), Raises(plan, m), unseen)
  <2>1. plan[m] = Decided(plan, r, unseen, m)
    BY <1>1, PlanIs
  <2> QED BY <2>1 DEF Decided
<1>3. project.policy = "Manifest" => r.channel = Stable
  BY DEF Refused
<1> DEFINE seed(m) == SeedsRelease(r, m, unseen)
<1>4. ASSUME NEW m \in Module PROVE seed(m) \in BOOLEAN
  BY DEF SeedsRelease
<1>5. ASSUME NEW m \in Releasing, seed(m) \/ Raises(plan, m) # {}
      PROVE  /\ plan[m].version = ResolveBump(r, m, seed(m), unseen)
             /\ ~Rejects(intent, r, m, seed(m), unseen)
  <2>1. m \in Module /\ m \notin project.excluded
    BY DEF Releasing
  <2>2. plan[m].version = ResolveBump(r, m, seed(m), unseen)
    BY <1>2, <1>5, <2>1 DEF OwnVersion, Excluded
  <2>3. ~Rejects(intent, r, m, seed(m), unseen)
    BY <1>2, <1>5, <2>1 DEF Refused
  <2> QED BY <2>2, <2>3
<1>6. ASSUME NEW m \in Cuts(plan) PROVE m \in Releasing /\ (seed(m) \/ Raises(plan, m) # {})
  <2>1. m \in Module /\ plan[m].version # NoVersion
    BY DEF Cuts
  <2> QED BY <1>2, <2>1 DEF OwnVersion, Excluded, Releasing
<1>7. ASSUME NEW m \in Releasing, seed(m) \/ Raises(plan, m) # {}
      PROVE  /\ plan[m].version # NoVersion =>
                  /\ plan[m].version \in Train(project) /\ Follows(Top(m), plan[m].version)
                  /\ AtMost(files[m].version, plan[m].version)
             /\ plan[m].version = NoVersion => \/ r.levels[m] = "None" /\ ~seed(m) /\ project.dependents[m] = "Upgrade"
                                               \/ intent = "Bump"
  <2>1. m \in Module
    BY DEF Releasing
  <2> HIDE DEF seed
  <2> QED BY <1>3, <1>4, <1>5, <1>7, <2>1, ResolvedIs
<1>8. PlanSound(plan)
  BY <1>2, <1>6, <1>7 DEF PlanSound, Cuts
<1>9. \A m \in Cuts(plan) : /\ AtMost(files[m].version, plan[m].version)
                            /\ plan[m].version = ResolveBump(r, m, seed(m), unseen)
                            /\ ~Rejects(intent, r, m, seed(m), unseen)
  BY <1>5, <1>6, <1>7 DEF Cuts
<1>10. ASSUME intent = "Verify", NEW m \in Releasing, seed(m) PROVE m \in Cuts(plan)
  <2>1. plan[m].version # NoVersion
    BY <1>7, <1>10
  <2> QED BY <2>1 DEF Cuts, Releasing
<1>11. ASSUME intent = "Verify", OnUmbrella, Entries(plan) # {} PROVE project.umbrella \in Cuts(plan)
  <2>1. Cuts(plan) # {}
    <3>1. PICK m \in Entries(plan) : TRUE
      BY <1>11
    <3>2. CASE m \in Cuts(plan)
      BY <3>2
    <3>3. CASE m \notin Cuts(plan)
      <4>1. m \in Module /\ plan[m].floors # {}
        BY <3>1, <3>3 DEF Entries
      <4>2. PICK d \in Deps(m) : plan[d].version # NoVersion
        BY <1>2, <4>1 DEF Raises
      <4>3. d \in Cuts(plan)
        BY <4>2 DEF Cuts, Deps
      <4> QED BY <4>3
    <3> QED BY <3>2, <3>3
  <2>2. UmbrellaTags(project)
    BY <1>11 DEF Covered, OwnTags, OnUmbrella
  <2>3. CASE project.tagMode = "Umbrella"
    BY <1>11, <2>1, <2>3 DEF Refused
  <2>4. CASE project.tagMode # "Umbrella"
    <3> DEFINE u == project.umbrella
    <3>1. /\ u \in Releasing /\ project.dependents[u] = "Bump"
          /\ \A m \in Releasing : m # u => <<u, m>> \in project.deps
      BY <2>2, <2>4 DEF UmbrellaTags, Releasing
    <3>2. SUFFICES ASSUME u \notin Cuts(plan) PROVE FALSE
      OBVIOUS
    <3>3. PICK m \in Cuts(plan) : m # u
      BY <2>1, <3>2
    <3>4. m \in Releasing /\ m \in Module /\ plan[m].version # NoVersion
      BY <1>6 DEF Cuts
    <3>5. m \in Raises(plan, u)
      BY <3>1, <3>3, <3>4 DEF Raises, Deps
    <3>6. plan[u].version = NoVersion
      BY <3>1, <3>2 DEF Cuts, Releasing
    <3> HIDE DEF u
    <3>7. project.dependents[u] = "Upgrade"
      BY <1>7, <1>11, <3>1, <3>5, <3>6
    <3> QED BY <3>1, <3>7
  <2> QED BY <2>3, <2>4
<1> QED BY <1>8, <1>9, <1>10, <1>11

\* With one channel what was cut is not planned again: no planned tag exists.
LEMMA NothingExists ==
  ASSUME Cutting, OneTrain(project), NEW plan, PlanSound(plan)
  PROVE  Existing(plan) = {}
<1> SUFFICES ASSUME NEW m \in Existing(plan) PROVE FALSE
  OBVIOUS
<1>1. m \in Module /\ m \in Cuts(plan)
  BY DEF Existing, Tagged, Cuts
<1>2. PICK t \in tags : t.of = m /\ t.version = plan[m].version
  BY DEF Existing
<1>3. plan[m].version \in CutOf(m)
  BY <1>2 DEF Cutting, TagsSound
<1>4. AtMost(plan[m].version, Top(m))
  BY <1>1, <1>3, TopIsHighest DEF Cutting
<1>5. Less(Top(m), plan[m].version)
  BY <1>1 DEF PlanSound, Follows
<1> QED BY <1>4, <1>5 DEF AtMost

\* With more than one, the tag of the last cut shows that it was planned again: what a
\* run cuts that finds no planned tag is above what was cut.
LEMMA FreshIsAbove ==
  ASSUME Covered, Cutting, NEW plan, PlanSound(plan), Existing(plan) = {}, NEW m \in Cuts(plan)
  PROVE  Less(Top(m), plan[m].version)
<1>1. m \in Module /\ m \in Releasing /\ plan[m].version \in Train(project) /\ Follows(Top(m), plan[m].version)
  BY DEF PlanSound, Cuts
<1>2. CASE OneTrain(project)
  BY <1>1, <1>2 DEF Follows
<1>3. CASE OwnTags(project)
  <2>1. Selected(project, m) /\ m \in Tagged(plan)
    BY <1>1, <1>3 DEF OwnTags, Releasing, Tagged
  <2>2. Top(m) \in AnyVersion /\ plan[m].version \in AnyVersion /\ plan[m].version \in Versions
    BY <1>1, TopIsHighest, VersionsAny DEF Cutting, Train
  <2>3. CASE cut[m] = <<>>
    BY <1>1, <2>2, <2>3, VersionsAny DEF Top
  <2>4. CASE cut[m] # <<>>
    <3>1. PICK t \in tags : t.of = m /\ t.version = Top(m)
      BY <1>1, <2>1, <2>4 DEF Cutting, TagsSound
    <3>2. plan[m].version # Top(m)
      BY <2>1, <3>1 DEF Existing
    <3> QED BY <1>1, <2>2, <3>2, LessIsTotal DEF Follows, AtMost
  <2> QED BY <2>3, <2>4
<1> QED BY <1>2, <1>3 DEF Covered
-----------------------------------------------------------------------------
(***************************************************************************)
(* Steps.                                                                  *)
(***************************************************************************)

\* The project stays.
LEMMA ProjectKeeps ==
  ASSUME project' = project
  PROVE  /\ Covered' = Covered /\ Releasing' = Releasing /\ (OnUmbrella <=> OnUmbrella')
         /\ Train(project)' = Train(project)
         /\ \A m \in Module : Deps(m)' = Deps(m) /\ Base(m)' = Base(m)
<1>1. Covered' = Covered
  BY DEF Covered, OwnTags, UmbrellaTags, OneTrain, Channels, Selected
<1>2. Releasing' = Releasing /\ (OnUmbrella <=> OnUmbrella')
  BY DEF Releasing, OnUmbrella
<1>3. \A m \in Module : Deps(m)' = Deps(m)
  BY DEF Deps
<1>4. \A m \in Module : Base(m)' = Base(m)
  BY DEF Base, OnUmbrella
<1>5. Train(project)' = Train(project)
  BY DEF Train, Channels
<1> QED BY <1>1, <1>2, <1>3, <1>4, <1>5

\* Without a cut, what was cut and what modules are diffed against stays.
LEMMA CutsKeep ==
  ASSUME project' = project, tags' = tags, cut' = cut
  PROVE  /\ \A m \in Module : Top(m)' = Top(m) /\ CutOf(m)' = CutOf(m) /\ Anchor(m)' = Anchor(m)
         /\ \A m \in Module : \A v : WasCut(m, v)' <=> WasCut(m, v)
         /\ CutsAscend' = CutsAscend /\ TagsSound' = TagsSound /\ Anchored' = Anchored
         /\ FloorsAreCut' = FloorsAreCut
         /\ \A plan : PlanSound(plan) => PlanSound(plan)'
<1>1. \A m \in Module : Top(m)' = Top(m) /\ CutOf(m)' = CutOf(m)
  BY DEF Top, CutOf
<1>2. \A m \in Module : Anchor(m)' = Anchor(m)
  BY DEF Anchor, OnUmbrella
<1>3. \A m \in Module : \A v : WasCut(m, v)' <=> WasCut(m, v)
  BY DEF WasCut
<1>4. CutsAscend' = CutsAscend
  BY DEF CutsAscend
<1>5. TagsSound' = TagsSound
  BY DEF TagsSound, CutOf, Top, Selected
<1>6. Anchored' = Anchored
  BY DEF Anchored, Releasing, Base, OnUmbrella, Top
<1>7. FloorsAreCut' = FloorsAreCut
  BY DEF FloorsAreCut, Deps, WasCut
<1>8. \A plan : PlanSound(plan) => PlanSound(plan)'
  <2>1. Train(project)' = Train(project) /\ (OneTrain(project)' <=> OneTrain(project))
    BY DEF Train, Channels, OneTrain
  <2> QED BY <1>1, <2>1 DEF PlanSound, Follows, Raises, Deps, Cuts, Releasing
<1> QED BY <1>1, <1>2, <1>3, <1>4, <1>5, <1>6, <1>7, <1>8

\* Without an edit either, a decision that repeats still does.
LEMMA RepeatsKeep ==
  ASSUME project' = project, tags' = tags, cut' = cut,
         \A m \in Module : files'[m].edits = files[m].edits, NEW staged, Repeats(staged)
  PROVE  Repeats(staged)'
<1>1. \A m \in Module : Top(m)' = Top(m) /\ Anchor(m)' = Anchor(m)
  BY CutsKeep
<1>2. ASSUME NEW m \in Module PROVE SelectLevel(Plain, m, TRUE)' = SelectLevel(Plain, m, TRUE)
  <2>1. Broken(m)' = Broken(m)
    BY <1>1 DEF Broken
  <2> QED BY <2>1 DEF SelectLevel, Plain
<1>3. Cuts(staged.plan) \subseteq Module
  BY DEF Cuts
<1> QED BY <1>1, <1>2, <1>3 DEF Repeats, Cuts, Channels

\* Nothing to release: the files are those of the tags.
LEMMA NothingKeeps ==
  ASSUME VersionInv, NEW r, Request(r), NEW unseen, NEW plan, plan = Plan(r, unseen),
         NothingToRelease(r, plan, unseen), project' = project, edits' = edits
  PROVE  VersionInv'
<1>1. Covered /\ Cutting
  BY DEF VersionInv
<1>2. /\ ~Refused("Verify", r, plan, unseen) /\ Entries(plan) = {} /\ settled' = TRUE /\ raised' = {}
      /\ UNCHANGED <<files, tags, registry, cut, proposal, merged>>
  BY DEF NothingToRelease
<1>3. Covered' /\ Releasing' = Releasing
  BY <1>1, ProjectKeeps
<1>4. Types' /\ Ahead'
  <2>1. Train(project)' = Train(project)
    BY ProjectKeeps
  <2> QED BY <1>1, <1>2, <2>1 DEF Cutting, Types, File, Deps, Ahead, Top, CutOf
<1>5. Cutting'
  BY <1>1, <1>2, <1>4, CutsKeep DEF Cutting
<1>6. FloorsKept' /\ FloorsAreCut'
  BY <1>2, CutsKeep DEF VersionInv, FloorsKept, Deps, WasCut, Top
<1>7. ASSUME NEW m \in Releasing
      PROVE  ~Changed(m)' /\ (project.policy = "Manifest" => AtMost(files[m].version, Top(m)))
  <2>1. m \notin Cuts(plan)
    BY <1>2 DEF Entries
  <2>2. ~SeedsRelease(r, m, unseen)
    BY <1>1, <1>2, <2>1, PlanFacts
  <2>3. ~Changed(m) /\ (project.policy = "Manifest" => IsInitial(m, unseen) \/ ~Less(Baseline(m, unseen), files[m].version))
    BY <2>2 DEF SeedsRelease
  <2>4. Changed(m)' = Changed(m)
    BY <1>2, CutsKeep DEF Changed, Releasing, Anchor, OnUmbrella
  <2>5. cut[m] # <<>>
    BY <1>1, <2>3, ChangedIs
  <2> QED BY <1>1, <2>3, <2>4, <2>5, BaselineIs DEF AtMost
<1>8. Rest'
  <2>1. \A m \in Module : Top(m)' = Top(m)
    BY <1>2, CutsKeep
  <2> QED BY <1>2, <1>3, <1>7, <2>1 DEF Rest, Releasing
<1>9. Staging'
  <2>1. ProposalSound'
    BY <1>2 DEF VersionInv, Staging, ProposalSound, Cuts, Deps
  <2>2. proposal # <<>> => PlanSound(proposal.plan)' /\ (proposal.intact => Repeats(proposal)')
    BY <1>2, CutsKeep, RepeatsKeep DEF VersionInv, Staging
  <2>3. merged # <<>> => PlanSound(merged.plan)' /\ Repeats(merged)'
    BY <1>2, CutsKeep, RepeatsKeep DEF VersionInv, Staging
  <2>4. merged # <<>> => \A m \in Cuts(merged.plan) : files[m].version = merged.plan[m].version
    BY DEF VersionInv, Staging
  <2> QED BY <1>2, <2>1, <2>2, <2>3, <2>4 DEF Staging, PlanSound, Repeats, Cuts
<1> QED BY <1>3, <1>5, <1>6, <1>8, <1>9 DEF VersionInv

\* What Written writes of a module.
WrittenFloors(plan, m) ==
  [d \in Deps(m) |-> IF d \in plan[m].floors THEN plan[d].version ELSE files[m].floors[d]]

LEMMA WrittenFloor ==
  ASSUME NEW plan, NEW m \in Module, NEW d \in Deps(m)
  PROVE  WrittenFloors(plan, m)[d] = IF d \in plan[m].floors THEN plan[d].version ELSE files[m].floors[d]
  BY DEF WrittenFloors

LEMMA WrittenIs ==
  ASSUME Types, NEW plan, NEW m \in Module
  PROVE  /\ Written(plan)[m] = [edits |-> Written(plan)[m].edits, version |-> Written(plan)[m].version,
                                floors |-> Written(plan)[m].floors]
         /\ Written(plan)[m].edits = files[m].edits
         /\ Written(plan)[m].version = IF m \in Cuts(plan) THEN plan[m].version ELSE files[m].version
         /\ Written(plan)[m].floors = WrittenFloors(plan, m)
<1>1. files[m] = [edits |-> files[m].edits, version |-> files[m].version, floors |-> files[m].floors]
  BY DEF Types, File
<1>2. Written(plan)[m] = [files[m] EXCEPT
        !.version = IF m \in Cuts(plan) THEN plan[m].version ELSE files[m].version,
        !.floors = WrittenFloors(plan, m)]
  BY DEF Written, WrittenFloors
<1> QED BY <1>1, <1>2

\* A file of the branch is one of the next, if its version is and its floors are those
\* of its dependencies.
LEMMA FileKeeps ==
  ASSUME project' = project, NEW m \in Module,
         files'[m] = [edits |-> files'[m].edits, version |-> files'[m].version, floors |-> files'[m].floors],
         files'[m].edits \subseteq 1..edits', files'[m].version \in Train(project),
         files'[m].floors = [d \in Deps(m) |-> files'[m].floors[d]]
  PROVE  File(files[m], m)'
<1>1. Deps(m)' = Deps(m)
  BY ProjectKeeps
<1>2. Train(project)' = Train(project)
  BY DEF Train, Channels
<1> QED BY <1>1, <1>2 DEF File

\* A bump stages a plan that a later tag decides alike.
LEMMA BumpKeeps ==
  ASSUME VersionInv, NEW r, Request(r), NEW unseen, NEW plan, plan = Plan(r, unseen),
         Bump(r, plan, unseen), project' = project, edits' = edits
  PROVE  VersionInv'
<1>1. Covered /\ Cutting
  BY DEF VersionInv
<1>2. /\ ~Refused("Bump", r, plan, unseen)
      /\ proposal' = [written |-> Written(plan), plan |-> plan, channel |-> r.channel,
                      exact |-> {m \in Cuts(plan) : Exact(r, m, unseen)}, intact |-> TRUE]
      /\ UNCHANGED <<files, tags, registry, cut, merged, settled, raised>>
  BY DEF Bump
<1>3. Covered' /\ Releasing' = Releasing
  BY <1>1, ProjectKeeps
<1>4. Types' /\ Ahead'
  <2>1. Train(project)' = Train(project)
    BY ProjectKeeps
  <2> QED BY <1>1, <1>2, <2>1 DEF Cutting, Types, File, Deps, Ahead, Top, CutOf
<1>5. Cutting'
  BY <1>1, <1>2, <1>4, CutsKeep DEF Cutting
<1>6. FloorsKept' /\ FloorsAreCut' /\ Rest'
  <2>1. FloorsKept'
    BY <1>2 DEF VersionInv, FloorsKept, Deps, WasCut, Top
  <2>2. FloorsAreCut'
    BY <1>2, CutsKeep DEF VersionInv
  <2>3. Rest'
    BY <1>2 DEF VersionInv, Rest, Releasing, Changed, Anchor, OnUmbrella, Top
  <2> QED BY <2>1, <2>2, <2>3
<1>7. /\ PlanSound(plan)
      /\ \A m \in Cuts(plan) : /\ AtMost(files[m].version, plan[m].version)
                               /\ plan[m].version = ResolveBump(r, m, SeedsRelease(r, m, unseen), unseen)
                               /\ ~Rejects("Bump", r, m, SeedsRelease(r, m, unseen), unseen)
  BY <1>1, <1>2, PlanFacts
<1>8. ASSUME NEW m \in Cuts(plan), Exact(r, m, unseen)
      PROVE  /\ cut[m] = <<>> => r.channel = Stable
             /\ cut[m] # <<>> /\ project.policy # "Manifest" /\ r.channel \in Channels(project) =>
                  AtMost(NextVersion(Top(m), SelectLevel(Plain, m, TRUE), r.channel), plan[m].version)
  <2>1. m \in Releasing /\ m \in Module
    BY <1>7 DEF PlanSound, Cuts
  <2>2. /\ SeedsRelease(r, m, unseen) /\ r.levels[m] = "None" /\ r.sets[m] = NoVersion
        /\ r.channel = Stable \/ ~IsInitial(m, unseen)
    BY <1>8 DEF Exact, Forces
  <2>3. IsInitial(m, unseen) <=> cut[m] = <<>>
    BY <1>1, <2>1, BaselineIs
  <2>4. ASSUME cut[m] # <<>>, project.policy # "Manifest", r.channel \in Channels(project)
        PROVE  AtMost(NextVersion(Top(m), SelectLevel(Plain, m, TRUE), r.channel), plan[m].version)
    <3> DEFINE level == SelectLevel(r, m, TRUE)
    <3>1. plan[m].version = ResolveBump(r, m, TRUE, unseen)
      <4>1. SeedsRelease(r, m, unseen) = TRUE
        BY <2>2 DEF SeedsRelease
      <4> QED BY <1>7, <4>1
    <3>2. level = SelectLevel(Plain, m, TRUE)
      BY <2>1, <2>2 DEF SelectLevel, Plain
    <3>3. level \in Levels
      <4>1. project \in Projects
        BY <1>1 DEF Cutting, Types
      <4> QED BY <2>1, <4>1, LevelIs
    <3>4. level # "None"
      BY <3>3 DEF Levels
    <3>5. plan[m].version = Computed(m, level, r.channel, unseen)
      BY <2>2, <2>3, <2>4, <3>1, <3>4 DEF ResolveBump
    <3>6. AtMost(NextVersion(Top(m), level, r.channel), Computed(m, level, r.channel, unseen))
      <4> HIDE DEF level
      <4> QED BY <1>1, <2>1, <2>4, <3>3, ComputedIs
    <3> QED BY <3>2, <3>5, <3>6
  <2> QED BY <2>2, <2>3, <2>4
<1> PICK staged : staged = [written |-> Written(plan), plan |-> plan, channel |-> r.channel,
                            exact |-> {m \in Cuts(plan) : Exact(r, m, unseen)}, intact |-> TRUE]
  OBVIOUS
<1>9. Repeats(staged)'
  <2>1. Repeats(staged)
    BY <1>8 DEF Repeats, Request, Cuts
  <2> QED BY <1>2, <2>1, RepeatsKeep
<1>10. ProposalSound'
  <2>1. ASSUME NEW m \in Module
        PROVE  /\ m \in Cuts(plan) => /\ Written(plan)[m].version = plan[m].version
                                      /\ AtMost(files[m].version, Written(plan)[m].version)
               /\ m \notin Cuts(plan) => Written(plan)[m].version = files[m].version
               /\ Written(plan)[m].floors = [d \in Deps(m) |-> IF d \in plan[m].floors THEN plan[d].version
                                                               ELSE files[m].floors[d]]
    <3>1. Types
      BY <1>1 DEF Cutting
    <3>2. /\ Written(plan)[m].version = IF m \in Cuts(plan) THEN plan[m].version ELSE files[m].version
          /\ Written(plan)[m].floors = WrittenFloors(plan, m)
      BY <3>1, WrittenIs
    <3>3. m \in Cuts(plan) => AtMost(files[m].version, plan[m].version)
      BY <1>7
    <3>4. WrittenFloors(plan, m) = [d \in Deps(m) |-> IF d \in plan[m].floors THEN plan[d].version
                                                     ELSE files[m].floors[d]]
      BY DEF WrittenFloors
    <3> QED BY <3>2, <3>3, <3>4
  <2>2. \A m \in Module : Deps(m)' = Deps(m)
    BY ProjectKeeps
  <2>3. /\ proposal'.written = Written(plan) /\ proposal'.plan = plan /\ files' = files
        /\ Cuts(plan)' = Cuts(plan)
    BY <1>2 DEF Cuts
  <2> QED BY <2>1, <2>2, <2>3 DEF ProposalSound
<1>11. Staging'
  <2>1. PlanSound(plan)'
    BY <1>2, <1>7, CutsKeep
  <2>2. merged # <<>> => PlanSound(merged.plan)' /\ Repeats(merged)'
    BY <1>2, CutsKeep, RepeatsKeep DEF VersionInv, Staging
  <2>3. merged # <<>> => \A m \in Cuts(merged.plan) : files[m].version = merged.plan[m].version
    BY DEF VersionInv, Staging
  <2>4. proposal' = staged /\ staged.plan = plan
    BY <1>2
  <2>5. proposal # <<>> => PlanSound(proposal.plan) /\ (proposal.intact => Repeats(proposal))
    BY DEF VersionInv, Staging
  <2>6. merged' = merged /\ files' = files /\ \A p : Cuts(p)' = Cuts(p)
    BY <1>2 DEF Cuts
  <2>7. /\ proposal' # <<>> => PlanSound(proposal.plan)' /\ (proposal'.intact => Repeats(proposal)')
    <3> HIDE DEF Repeats
    <3> QED BY <1>9, <2>1, <2>4
  <2> QED BY <1>10, <2>2, <2>3, <2>6, <2>7 DEF Staging
<1> QED BY <1>3, <1>5, <1>6, <1>11 DEF VersionInv

\* An edit changes its module.
LEMMA EditKeeps ==
  ASSUME VersionInv, NEW n \in Module, Edit(n)
  PROVE  VersionInv'
<1>1. Covered /\ Cutting /\ Types
  BY DEF VersionInv, Cutting
<1>2. /\ edits' = edits + 1 /\ files' = [files EXCEPT ![n].edits = @ \cup {edits'}]
      /\ merged' = <<>> /\ settled' = FALSE
      /\ proposal' = IF proposal = <<>> THEN <<>> ELSE [proposal EXCEPT !.intact = FALSE]
      /\ UNCHANGED <<project, tags, registry, cut, raised, runs>>
  BY DEF Edit, Happened
<1>3. Covered' /\ Releasing' = Releasing
  BY <1>1, <1>2, ProjectKeeps
<1>4. /\ files' = [m \in Module |-> files'[m]] /\ edits \in Nat /\ edits' \in Nat
      /\ edits' \in 1..edits' /\ 1..edits \subseteq 1..edits' /\ edits' \notin 1..edits
  <2>1. edits \in Nat /\ edits' = edits + 1
    BY <1>1, <1>2 DEF Types
  <2>2. files = [k \in Module |-> files[k]]
    BY <1>1 DEF Types
  <2>3. files' = [m \in Module |-> files'[m]]
    BY <1>2, <2>2
  <2> QED BY <2>1, <2>3
<1>5. ASSUME NEW m \in Module
      PROVE  /\ files'[m].version = files[m].version /\ files'[m].floors = files[m].floors
             /\ files'[m] = [edits |-> files'[m].edits, version |-> files'[m].version, floors |-> files'[m].floors]
             /\ files'[m].edits = IF m = n THEN files[m].edits \cup {edits'} ELSE files[m].edits
  <2>1. files[m] = [edits |-> files[m].edits, version |-> files[m].version, floors |-> files[m].floors]
    BY <1>1 DEF Types, File
  <2>2. files = [k \in Module |-> files[k]]
    BY <1>1 DEF Types
  <2>3. CASE m = n
    <3>1. files'[m] = [files[m] EXCEPT !.edits = @ \cup {edits'}]
      BY <1>2, <2>2, <2>3
    <3> QED BY <2>1, <2>3, <3>1
  <2>4. CASE m # n
    <3>1. files'[m] = files[m]
      BY <1>2, <2>2, <2>4
    <3> QED BY <2>1, <2>4, <3>1
  <2> QED BY <2>3, <2>4
<1>6. Types'
  <2>1. ASSUME NEW m \in Module PROVE File(files[m], m)'
    <3>1. File(files[m], m)
      BY <1>1 DEF Types
    <3>2. files'[m].edits \subseteq 1..edits'
      <4>1. files[m].edits \subseteq 1..edits
        BY <3>1 DEF File
      <4>2. files'[m].edits \subseteq files[m].edits \cup {edits'}
        BY <1>5
      <4> QED BY <1>4, <4>1, <4>2
    <3>3. /\ files'[m].version \in Train(project)
          /\ files'[m].floors = [d \in Deps(m) |-> files'[m].floors[d]]
      BY <1>5, <3>1 DEF File
    <3>4. files'[m] = [edits |-> files'[m].edits, version |-> files'[m].version, floors |-> files'[m].floors]
      BY <1>5
    <3> QED BY <1>2, <3>2, <3>3, <3>4, FileKeeps
  <2>2. \A t \in tags : t.of \in Module /\ \A m \in Module : t.commit[m].edits \subseteq 1..edits'
    BY <1>1, <1>4 DEF Types
  <2> QED BY <1>1, <1>2, <1>4, <2>1, <2>2 DEF Types, Train, Channels
<1>7. Cutting'
  <2>1. Ahead'
    BY <1>1, <1>2, <1>5 DEF Cutting, Ahead, Top, CutOf
  <2> QED BY <1>1, <1>2, <1>6, <2>1, CutsKeep DEF Cutting
<1>8. FloorsKept'
  <2>1. \A m \in Module : Deps(m)' = Deps(m) /\ Deps(m) \subseteq Module /\ Top(m)' = Top(m)
    BY <1>2, ProjectKeeps, CutsKeep DEF Deps
  <2> QED BY <1>2, <1>5, <2>1 DEF VersionInv, FloorsKept, WasCut
<1>9. FloorsAreCut' /\ Rest'
  BY <1>2, CutsKeep DEF VersionInv, Rest
<1>10. Staging'
  <2>1. CASE proposal = <<>>
    BY <1>2, <2>1 DEF Staging, ProposalSound
  <2>2. CASE proposal # <<>> /\ proposal' # <<>>
    <3>1. /\ proposal'.plan = proposal.plan /\ proposal'.written = proposal.written
          /\ ~proposal'.intact
      BY <1>2, <2>2
    <3>2. PlanSound(proposal.plan)'
      BY <1>2, <2>2, CutsKeep DEF VersionInv, Staging
    <3>3. ProposalSound'
      <4>1. ProposalSound
        BY DEF VersionInv, Staging
      <4>2. \A m \in Module : Deps(m)' = Deps(m)
        BY <1>2, ProjectKeeps
      <4>3. /\ proposal'.plan = proposal.plan /\ proposal'.written = proposal.written
            /\ Cuts(proposal.plan)' = Cuts(proposal'.plan)
        BY <3>1 DEF Cuts
      <4>4. /\ \A m \in Module : files'[m].version = files[m].version
            /\ \A m \in Module : files'[m].floors = files[m].floors
        BY <1>5
      <4>5. Cuts(proposal'.plan) = Cuts(proposal.plan)
        BY <3>1
      <4> QED BY <2>2, <4>1, <4>2, <4>3, <4>4, <4>5 DEF ProposalSound
    <3> QED BY <1>2, <3>1, <3>2, <3>3 DEF Staging
  <2>3. CASE proposal # <<>> /\ proposal' = <<>>
    BY <1>2, <2>3 DEF Staging, ProposalSound
  <2> QED BY <2>1, <2>2, <2>3
<1> QED BY <1>3, <1>7, <1>8, <1>9, <1>10 DEF VersionInv

\* A version declared by hand is above the last cut.
LEMMA DeclareKeeps ==
  ASSUME VersionInv, NEW n \in Module, Declare(n)
  PROVE  VersionInv'
<1>1. Covered /\ Cutting /\ Types
  BY DEF VersionInv, Cutting
<1>2. /\ edits' = edits + 1 /\ files' = [files EXCEPT ![n].version = StableBump(@, "Patch")]
      /\ merged' = <<>> /\ settled' = FALSE /\ proposal' = <<>>
      /\ UNCHANGED <<project, tags, registry, cut, raised, runs>>
  BY DEF Declare, Happened
<1>3. Covered' /\ Releasing' = Releasing
  BY <1>1, <1>2, ProjectKeeps
<1>4. /\ files' = [m \in Module |-> files'[m]] /\ edits \in Nat /\ edits' \in Nat
      /\ 1..edits \subseteq 1..edits'
  <2>1. edits \in Nat /\ edits' = edits + 1
    BY <1>1, <1>2 DEF Types
  <2>2. files = [k \in Module |-> files[k]]
    BY <1>1 DEF Types
  <2>3. files' = [m \in Module |-> files'[m]]
    BY <1>2, <2>2
  <2> QED BY <2>1, <2>3
<1>5. ASSUME NEW m \in Module
      PROVE  /\ files'[m].edits = files[m].edits /\ files'[m].floors = files[m].floors
             /\ files'[m] = [edits |-> files'[m].edits, version |-> files'[m].version, floors |-> files'[m].floors]
             /\ m = n => files'[m].version = StableBump(files[m].version, "Patch")
             /\ m # n => files'[m] = files[m]
  <2>1. files[m] = [edits |-> files[m].edits, version |-> files[m].version, floors |-> files[m].floors]
    BY <1>1 DEF Types, File
  <2>2. files = [k \in Module |-> files[k]]
    BY <1>1 DEF Types
  <2>3. CASE m = n
    <3>1. files'[m] = [files[m] EXCEPT !.version = StableBump(@, "Patch")]
      BY <1>2, <2>2, <2>3
    <3> QED BY <2>1, <2>3, <3>1
  <2>4. CASE m # n
    <3>1. files'[m] = files[m]
      BY <1>2, <2>2, <2>4
    <3> QED BY <2>1, <2>4, <3>1
  <2> QED BY <2>3, <2>4
<1>6. ASSUME NEW m \in Module
      PROVE  /\ files[m].version \in Train(project) /\ files'[m].version \in Train(project)
             /\ AtMost(Top(m), files'[m].version)
             /\ m = n => files'[m].version # Top(m)
  <2>1. files[m].version \in Train(project) /\ AtMost(Top(m), files[m].version)
    BY <1>1 DEF Cutting, Types, File, Ahead
  <2>2. Top(m) \in AnyVersion
    BY <1>1, TopIsHighest DEF Cutting
  <2>3. CASE m = n
    <3>1. /\ files'[m].version \in Versions /\ files'[m].version[4] = Stable
          /\ Less(files[m].version, files'[m].version)
      <4>1. files[m].version \in Versions /\ "Patch" \in Levels
        BY <2>1 DEF Train, Levels
      <4>2. files'[m].version = StableBump(files[m].version, "Patch")
        BY <1>5, <2>3
      <4> QED BY <4>1, <4>2, StableBumpAscends
    <3>2. files'[m].version \in Train(project)
      BY <3>1 DEF Train, Channels
    <3>3. Less(Top(m), files'[m].version)
      BY <2>1, <2>2, <3>1, VersionsAny, LessIsTransitive DEF Train
    <3>4. AtMost(Top(m), files'[m].version) /\ files'[m].version # Top(m)
      BY <2>2, <3>1, <3>3, VersionsAny, LessIsTotal DEF AtMost
    <3> QED BY <2>1, <3>2, <3>4
  <2>4. CASE m # n
    BY <1>5, <2>1, <2>4
  <2> QED BY <2>3, <2>4
<1>7. Types'
  <2>1. ASSUME NEW m \in Module PROVE File(files[m], m)'
    <3>1. File(files[m], m)
      BY <1>1 DEF Types
    <3>2. files'[m].edits \subseteq 1..edits'
      <4>1. files[m].edits \subseteq 1..edits
        BY <3>1 DEF File
      <4>2. files'[m].edits = files[m].edits
        BY <1>5
      <4> QED BY <1>4, <4>1, <4>2
    <3>3. files'[m].floors = [d \in Deps(m) |-> files'[m].floors[d]]
      BY <1>5, <3>1 DEF File
    <3>4. files'[m] = [edits |-> files'[m].edits, version |-> files'[m].version, floors |-> files'[m].floors]
      BY <1>5
    <3> QED BY <1>2, <1>6, <3>2, <3>3, <3>4, FileKeeps
  <2>2. \A t \in tags : t.of \in Module /\ \A m \in Module : t.commit[m].edits \subseteq 1..edits'
    BY <1>1, <1>4 DEF Types
  <2> QED BY <1>1, <1>2, <1>4, <2>1, <2>2 DEF Types, Train, Channels
<1>8. Cutting'
  <2>1. Ahead'
    BY <1>1, <1>2, <1>6 DEF Cutting, Ahead, Top, CutOf
  <2> QED BY <1>1, <1>2, <1>7, <2>1, CutsKeep DEF Cutting
<1>9. FloorsKept'
  <2>1. \A m \in Module : Deps(m)' = Deps(m) /\ Deps(m) \subseteq Module /\ Top(m)' = Top(m)
    BY <1>2, ProjectKeeps, CutsKeep DEF Deps
  <2>2. \A m \in Module : files[m].version # Top(m) => files'[m].version # Top(m)
    BY <1>5, <1>6
  <2> QED BY <1>2, <1>5, <2>1, <2>2 DEF VersionInv, FloorsKept, WasCut
<1>10. FloorsAreCut' /\ Rest' /\ Staging'
  BY <1>2, CutsKeep DEF VersionInv, Rest, Staging, ProposalSound
<1> QED BY <1>3, <1>8, <1>9, <1>10 DEF VersionInv

\* What a merge raises is about to be cut.
LEMMA MergeKeeps ==
  ASSUME VersionInv, Merge
  PROVE  VersionInv'
<1>1. Covered /\ Cutting /\ Types
  BY DEF VersionInv, Cutting
<1> PICK plan : plan = proposal.plan
  OBVIOUS
<1>2. /\ proposal # <<>>
      /\ files' = [m \in Module |-> [files[m] EXCEPT !.version = proposal.written[m].version,
                                                     !.floors = proposal.written[m].floors]]
      /\ merged' = IF proposal.intact THEN proposal ELSE <<>>
      /\ proposal' = <<>> /\ settled' = FALSE
      /\ UNCHANGED <<project, tags, registry, cut, raised, edits, runs>>
  BY DEF Merge, bounds
<1>3. Covered' /\ Releasing' = Releasing
  BY <1>1, <1>2, ProjectKeeps
<1>4. PlanSound(plan) /\ (proposal.intact => Repeats(proposal)) /\ ProposalSound
  BY <1>2 DEF VersionInv, Staging
<1>5. ASSUME NEW m \in Module
      PROVE  /\ files'[m] = [edits |-> files'[m].edits, version |-> files'[m].version, floors |-> files'[m].floors]
             /\ files'[m].edits = files[m].edits
             /\ m \in Cuts(plan) => files'[m].version = plan[m].version
             /\ m \notin Cuts(plan) => files'[m].version = files[m].version
             /\ files'[m].floors = WrittenFloors(plan, m)
  <2>1. files[m] = [edits |-> files[m].edits, version |-> files[m].version, floors |-> files[m].floors]
    BY <1>1 DEF Types, File
  <2>2. files'[m] = [files[m] EXCEPT !.version = proposal.written[m].version,
                                     !.floors = proposal.written[m].floors]
    BY <1>2
  <2>3. /\ files'[m] = [edits |-> files'[m].edits, version |-> files'[m].version, floors |-> files'[m].floors]
        /\ files'[m].edits = files[m].edits /\ files'[m].version = proposal.written[m].version
        /\ files'[m].floors = proposal.written[m].floors
    BY <2>1, <2>2
  <2>4. /\ m \in Cuts(plan) => proposal.written[m].version = plan[m].version
        /\ m \notin Cuts(plan) => proposal.written[m].version = files[m].version
        /\ proposal.written[m].floors = WrittenFloors(plan, m)
    BY <1>2, <1>4 DEF ProposalSound, WrittenFloors
  <2> QED BY <2>3, <2>4
<1>6. ASSUME NEW m \in Module
      PROVE  /\ files'[m].version \in Train(project) /\ AtMost(Top(m), files'[m].version)
             /\ files[m].version # Top(m) => files'[m].version # Top(m)
             /\ m \in Cuts(plan) => plan[m].version \in CutOf(m) \/ files'[m].version # Top(m)
  <2>1. files[m].version \in Train(project) /\ AtMost(Top(m), files[m].version)
    BY <1>1 DEF Cutting, Types, File, Ahead
  <2>2. /\ Top(m) \in AnyVersion /\ Train(project) \subseteq AnyVersion /\ NoVersion \notin Train(project)
        /\ Top(m) \notin CutOf(m) => Top(m) = NoVersion
    BY <1>1, TopIsHighest, VersionsAny DEF Cutting, Train
  <2>3. m \in Cuts(plan) => /\ plan[m].version \in Train(project) /\ AtMost(Top(m), plan[m].version)
                            /\ AtMost(files[m].version, plan[m].version)
    BY <1>2, <1>4 DEF PlanSound, ProposalSound, Follows
  <2>4. AtMost(files[m].version, files'[m].version)
    <3>1. AtMost(files[m].version, files[m].version)
      BY <2>1, <2>2, LessIsTotal DEF AtMost
    <3> QED BY <1>5, <2>3, <3>1
  <2>5. files'[m].version \in Train(project) /\ AtMost(Top(m), files'[m].version)
    BY <1>5, <2>1, <2>3
  <2>6. ASSUME files[m].version # Top(m) PROVE files'[m].version # Top(m)
    <3>1. Less(Top(m), files[m].version)
      BY <2>1, <2>2, <2>6, LessIsTotal DEF AtMost
    <3>2. Less(Top(m), files'[m].version)
      BY <2>1, <2>2, <2>4, <2>5, <3>1, LessIsTransitive
    <3> QED BY <2>2, <3>2, LessIsTotal
  <2>7. m \in Cuts(plan) => plan[m].version \in CutOf(m) \/ files'[m].version # Top(m)
    BY <1>5, <2>2, <2>3
  <2> QED BY <2>5, <2>6, <2>7
<1>7. Types'
  <2>1. ASSUME NEW m \in Module PROVE File(files[m], m)'
    <3>1. File(files[m], m)
      BY <1>1 DEF Types
    <3>2. WrittenFloors(plan, m) = [d \in Deps(m) |-> WrittenFloors(plan, m)[d]]
      BY DEF WrittenFloors
    <3>4. files'[m].floors = [d \in Deps(m) |-> files'[m].floors[d]]
      BY <1>5, <3>2
    <3>5. files'[m].edits \subseteq 1..edits
      BY <1>5, <3>1 DEF File
    <3>6. files'[m] = [edits |-> files'[m].edits, version |-> files'[m].version, floors |-> files'[m].floors]
      BY <1>5
    <3> QED BY <1>2, <1>6, <3>4, <3>5, <3>6, FileKeeps
  <2>2. files' = [m \in Module |-> files'[m]]
    BY <1>2
  <2> QED BY <1>1, <1>2, <2>1, <2>2 DEF Types, Train, Channels
<1>8. Cutting'
  <2>1. Ahead'
    <3>1. \A m \in Module : Top(m)' = Top(m) /\ CutOf(m)' = CutOf(m)
      BY <1>2, CutsKeep
    <3>2. \A m \in Module : registry'[m] \subseteq CutOf(m)
      BY <1>1, <1>2 DEF Cutting, Ahead
    <3> QED BY <1>6, <3>1, <3>2 DEF Ahead
  <2> QED BY <1>1, <1>2, <1>7, <2>1, CutsKeep DEF Cutting
<1>9. FloorsKept'
  <2>1. ASSUME NEW m \in Module, NEW d \in Deps(m) \ project.excluded
        PROVE  files'[m].floors[d] \in CutOf(d) \/ files'[d].version # Top(d)
    <3>1. d \in Module /\ files'[m].floors = WrittenFloors(plan, m)
      BY <1>5 DEF Deps
    <3>2. CASE d \in Cuts(plan)
      <4>1. d \in plan[m].floors
        BY <1>4, <3>2 DEF PlanSound, Raises, Cuts
      <4>2. files'[m].floors[d] = plan[d].version
        BY <3>1, <4>1, WrittenFloor
      <4> QED BY <1>6, <3>1, <3>2, <4>2
    <3>3. CASE d \notin Cuts(plan)
      <4>1. d \notin plan[m].floors
        BY <1>4, <3>1, <3>3 DEF PlanSound, Raises, Cuts
      <4>2. files'[m].floors[d] = files[m].floors[d]
        BY <3>1, <4>1, WrittenFloor
      <4>3. files[m].floors[d] \in CutOf(d) \/ files[d].version # Top(d)
        BY DEF VersionInv, FloorsKept, WasCut, CutOf
      <4> QED BY <1>6, <3>1, <4>2, <4>3
    <3> QED BY <3>2, <3>3
  <2>2. \A m \in Module : Deps(m)' = Deps(m) /\ Deps(m) \subseteq Module /\ Top(m)' = Top(m)
    BY <1>2, ProjectKeeps, CutsKeep DEF Deps
  <2>3. \A m \in Module : \A d \in Deps(m) \ project.excluded :
          WasCut(d, files'[m].floors[d]) \/ files'[d].version # Top(d)
    BY <2>1 DEF WasCut, CutOf
  <2> QED BY <1>2, <2>2, <2>3 DEF FloorsKept, WasCut
<1>10. FloorsAreCut' /\ Rest'
  BY <1>2, CutsKeep DEF VersionInv, Rest
<1>11. Staging'
  <2>1. CASE ~proposal.intact
    BY <1>2, <2>1 DEF Staging, ProposalSound
  <2>2. CASE proposal.intact
    <3> PICK staged : staged = proposal
      OBVIOUS
    <3>1. PlanSound(plan)'
      BY <1>2, <1>4, CutsKeep
    <3>2. Repeats(staged)'
      BY <1>2, <1>4, <1>5, <2>2, RepeatsKeep
    <3>3. \A m \in Cuts(plan) : files'[m].version = plan[m].version
      BY <1>5 DEF Cuts
    <3>4. merged' = staged /\ staged.plan = plan /\ proposal' = <<>>
      BY <1>2, <2>2
    <3> QED BY <3>1, <3>2, <3>3, <3>4 DEF Staging, ProposalSound, PlanSound, Repeats, Cuts
  <2> QED BY <2>1, <2>2
<1> QED BY <1>3, <1>8, <1>9, <1>10, <1>11 DEF VersionInv

\* What AnchorIs says of every module, of this state and of the next.
AnchorsAre ==
  \A m \in Releasing : cut[m] # <<>> =>
    \E t \in tags : Anchor(m) = {t} /\ t.of = Base(m) /\ t.version = Top(Base(m))
LEMMA AnchorsHold == Covered /\ Cutting => AnchorsAre
  BY AnchorIs DEF AnchorsAre

\* What a run cuts of each module.
LEMMA CutTops ==
  ASSUME Covered, Cutting, NEW plan, PlanSound(plan), project' = project,
         \A m \in Cuts(plan) : Less(Top(m), plan[m].version),
         cut' = [m \in Module |-> IF m \in Cuts(plan) THEN Append(cut[m], plan[m].version)
                                  ELSE cut[m]]
  PROVE  /\ cut' \in [Module -> Seq(Train(project))] /\ CutsAscend'
         /\ \A m \in Cuts(plan) : /\ Top(m)' = plan[m].version /\ cut'[m] # <<>>
                                  /\ CutOf(m)' = CutOf(m) \cup {plan[m].version}
         /\ \A m \in Module \ Cuts(plan) : Top(m)' = Top(m) /\ cut'[m] = cut[m] /\ CutOf(m)' = CutOf(m)
<1>1. ASSUME NEW m \in Cuts(plan)
      PROVE  /\ cut'[m] \in Seq(Train(project)) /\ Top(m)' = plan[m].version /\ cut'[m] # <<>>
             /\ CutOf(m)' = CutOf(m) \cup {plan[m].version}
             /\ \A i, j \in DOMAIN cut'[m] : i < j => Less(cut'[m][i], cut'[m][j])
  <2> DEFINE v == plan[m].version
  <2>1. m \in Module /\ v \in Train(project) /\ Less(Top(m), v)
    BY DEF PlanSound, Cuts
  <2>2. PICK s \in Seq(Train(project)) : s = cut[m]
    BY <2>1 DEF Cutting, Types
  <2>3. PICK n \in Nat : n = Len(s)
    BY <2>2
  <2>4. /\ DOMAIN s = 1..n /\ \A i \in 1..n : s[i] \in Train(project)
        /\ Append(s, v) \in Seq(Train(project)) /\ Len(Append(s, v)) = n + 1
        /\ DOMAIN Append(s, v) = 1..(n + 1) /\ Append(s, v)[n + 1] = v
        /\ \A i \in 1..n : Append(s, v)[i] = s[i]
    BY <2>1, <2>2, <2>3
  <2>5. cut'[m] = Append(s, v) /\ Append(s, v) # <<>>
    <3>1. cut'[m] = Append(cut[m], v)
      BY <2>1
    <3>2. Append(s, v) # <<>>
      BY <2>3, <2>4
    <3> QED BY <2>2, <3>1, <3>2
  <2>6. Top(m)' = v
    BY <2>4, <2>5 DEF Top
  <2>7. CutOf(m) = {s[i] : i \in 1..n} /\ CutOf(m)' = {Append(s, v)[i] : i \in 1..(n + 1)}
    <3>1. CutOf(m) = {s[i] : i \in 1..n}
      BY <2>2, <2>4 DEF CutOf
    <3>2. DOMAIN cut'[m] = 1..(n + 1) /\ cut'[m] = Append(s, v)
      BY <2>4, <2>5
    <3>3. CutOf(m)' = {cut'[m][i] : i \in DOMAIN cut'[m]}
      BY DEF CutOf
    <3> QED BY <3>1, <3>2, <3>3
  <2>8. CutOf(m)' = CutOf(m) \cup {v}
    <3>1. 1..(n + 1) = (1..n) \cup {n + 1}
      BY <2>3
    <3> QED BY <2>4, <2>7, <3>1
  <2>9. ASSUME NEW i \in 1..(n + 1), NEW j \in 1..(n + 1), i < j
        PROVE  Less(Append(s, v)[i], Append(s, v)[j])
    <3>1. i \in 1..n /\ Append(s, v)[i] = s[i]
      BY <2>3, <2>4, <2>9
    <3>2. CASE j \in 1..n
      <4>1. Append(s, v)[j] = s[j]
        BY <2>4, <3>2
      <4> QED BY <2>1, <2>2, <2>4, <2>9, <3>1, <3>2, <4>1 DEF Cutting, CutsAscend
    <3>3. CASE j = n + 1
      <4>1. s[i] \in CutOf(m)
        BY <2>7, <3>1
      <4>2. /\ AtMost(s[i], Top(m)) /\ s[i] \in AnyVersion /\ Top(m) \in AnyVersion
            /\ v \in AnyVersion
        BY <2>1, <4>1, TopIsHighest, VersionsAny DEF Cutting, Train
      <4>3. Less(s[i], v)
        BY <2>1, <4>2, LessIsTransitive
      <4> QED BY <2>4, <3>1, <3>3, <4>3
    <3>4. j \in 1..n \/ j = n + 1
      BY <2>3
    <3> QED BY <3>2, <3>3, <3>4
  <2> QED BY <2>4, <2>5, <2>6, <2>8, <2>9
<1>2. ASSUME NEW m \in Module \ Cuts(plan)
      PROVE  Top(m)' = Top(m) /\ cut'[m] = cut[m] /\ CutOf(m)' = CutOf(m)
  BY DEF Top, CutOf
<1>3. cut' \in [Module -> Seq(Train(project))]
  <2>1. \A m \in Module : cut'[m] \in Seq(Train(project))
    <3>1. \A m \in Module \ Cuts(plan) : cut[m] \in Seq(Train(project))
      BY DEF Cutting, Types
    <3> QED BY <1>1, <1>2, <3>1
  <2>2. cut' = [m \in Module |-> cut'[m]]
    OBVIOUS
  <2> QED BY <2>1, <2>2
<1>4. CutsAscend'
  <2>1. \A m \in Module \ Cuts(plan) : \A i, j \in DOMAIN cut'[m] : i < j => Less(cut'[m][i], cut'[m][j])
    BY <1>2 DEF Cutting, CutsAscend
  <2> QED BY <1>1, <2>1 DEF CutsAscend
<1> QED BY <1>1, <1>2, <1>3, <1>4

\* A run cuts what changed, and what was cut is not changed.
LEMMA CutKeeps ==
  ASSUME VersionInv, NEW verb, NEW r, Request(r), NEW unseen, NEW plan, plan = Plan(r, unseen),
         Cut(verb, r, plan, unseen), project' = project, edits' = edits
  PROVE  VersionInv'
<1>1. Covered /\ Cutting /\ Types
  BY DEF VersionInv, Cutting
<1>2. /\ ~Refused("Verify", r, plan, unseen) /\ Entries(plan) # {} /\ Existing(plan) = {}
      /\ files' = Written(plan)
      /\ tags' = tags \cup {[of |-> m, version |-> plan[m].version, commit |-> files'] : m \in Tagged(plan)}
      /\ cut' = [m \in Module |-> IF m \in Cuts(plan) THEN Append(cut[m], plan[m].version) ELSE cut[m]]
      /\ registry' = Published(verb, plan, unseen)
      /\ settled' = TRUE /\ raised' = Entries(plan) \ Cuts(plan)
      /\ proposal' = <<>> /\ merged' = <<>>
  BY DEF Cut
<1>3. /\ Covered' /\ Releasing' = Releasing /\ (OnUmbrella <=> OnUmbrella')
      /\ \A m \in Module : Deps(m)' = Deps(m) /\ Base(m)' = Base(m)
      /\ Train(project)' = Train(project)
  BY <1>1, ProjectKeeps DEF Train, Channels
<1>4. /\ PlanSound(plan)
      /\ \A m \in Releasing : SeedsRelease(r, m, unseen) => m \in Cuts(plan)
      /\ OnUmbrella => project.umbrella \in Cuts(plan)
  BY <1>1, <1>2, PlanFacts
<1>a. \A m \in Cuts(plan) : Less(Top(m), plan[m].version)
  BY <1>1, <1>2, <1>4, FreshIsAbove
<1>5. /\ cut' \in [Module -> Seq(Train(project))] /\ CutsAscend'
      /\ \A m \in Cuts(plan) : /\ Top(m)' = plan[m].version /\ cut'[m] # <<>>
                               /\ CutOf(m)' = CutOf(m) \cup {plan[m].version}
      /\ \A m \in Module \ Cuts(plan) : Top(m)' = Top(m) /\ cut'[m] = cut[m] /\ CutOf(m)' = CutOf(m)
  <2> HIDE DEF Cutting
  <2> QED BY <1>1, <1>2, <1>4, <1>a, CutTops
<1>6. ASSUME NEW m \in Module
      PROVE  /\ files'[m] = [edits |-> files'[m].edits, version |-> files'[m].version, floors |-> files'[m].floors]
             /\ files'[m].edits = files[m].edits
             /\ files'[m].version = IF m \in Cuts(plan) THEN plan[m].version ELSE files[m].version
             /\ files'[m].floors = WrittenFloors(plan, m)
  BY <1>1, <1>2, WrittenIs
\* What is not cut is not changed.
<1>7. ASSUME NEW m \in Releasing \ Cuts(plan)
      PROVE  ~Changed(m) /\ files[m].version = Top(m) /\ cut[m] # <<>>
  <2>1. ~SeedsRelease(r, m, unseen)
    BY <1>4
  <2>2. ~Changed(m)
    BY <2>1 DEF SeedsRelease
  <2> QED BY <1>1, <2>2, ChangedIs
<1>8. ASSUME NEW m \in Releasing PROVE OnUmbrella => Base(m) \in Cuts(plan)
  BY <1>4 DEF Base
<1>9. \A m \in Module : CutOf(m) \subseteq CutOf(m)' /\ (m \in Cuts(plan) => plan[m].version \in CutOf(m)')
  BY <1>5
<1>10. ASSUME NEW m \in Cuts(plan) PROVE plan[m].version \notin CutOf(m) /\ m \in Releasing /\ m \in Module
  <2>1. m \in Module /\ m \in Releasing /\ Less(Top(m), plan[m].version)
    BY <1>4, <1>a DEF PlanSound, Cuts
  <2> QED BY <1>1, <2>1, TopIsHighest DEF Cutting, AtMost
<1>11. Tagged(plan) \subseteq Cuts(plan) /\ \A m \in Cuts(plan) : m \in Tagged(plan) <=> Selected(project, m)
  BY DEF Tagged
<1>12. ASSUME NEW t \in tags'
       PROVE  \/ t \in tags
              \/ \E m \in Tagged(plan) : t.of = m /\ t.version = plan[m].version /\ t.commit = files'
  BY <1>2
<1>13. Types'
  <2>1. ASSUME NEW m \in Module PROVE File(files[m], m)'
    <3>1. File(files[m], m)
      BY <1>1 DEF Types
    <3>2. WrittenFloors(plan, m) = [d \in Deps(m) |-> WrittenFloors(plan, m)[d]]
      BY DEF WrittenFloors
    <3>3. files'[m].floors = [d \in Deps(m) |-> files'[m].floors[d]]
      BY <1>6, <3>2
    <3>4. files'[m].edits \subseteq 1..edits
      BY <1>6, <3>1 DEF File
    <3>5. files'[m].version \in Train(project)
      BY <1>4, <1>6, <3>1 DEF File, PlanSound
    <3>6. files'[m] = [edits |-> files'[m].edits, version |-> files'[m].version, floors |-> files'[m].floors]
      BY <1>6
    <3> QED BY <3>3, <3>4, <3>5, <3>6, FileKeeps
  <2>2. files' = [m \in Module |-> files'[m]] /\ registry' = [m \in Module |-> registry'[m]]
    BY <1>2 DEF Written, Published
  <2>3. \A t \in tags' : t.of \in Module /\ \A m \in Module : t.commit[m].edits \subseteq 1..edits
    <3>1. \A t \in tags : t.of \in Module /\ \A m \in Module : t.commit[m].edits \subseteq 1..edits
      BY <1>1 DEF Types
    <3>2. \A m \in Module : files'[m].edits \subseteq 1..edits
      BY <1>1, <1>6 DEF Types, File
    <3> QED BY <1>10, <1>11, <1>12, <3>1, <3>2
  <2>4. project \in Projects /\ edits \in Nat
    BY <1>1 DEF Types
  <2> QED BY <1>3, <1>5, <2>1, <2>2, <2>3, <2>4 DEF Types
<1>14. Ahead'
  <2>1. ASSUME NEW m \in Module PROVE AtMost(Top(m), files[m].version)'
    <3>1. CASE m \in Cuts(plan)
      <4>1. plan[m].version \in AnyVersion
        BY <1>4, <3>1, VersionsAny DEF PlanSound, Train
      <4>2. AtMost(plan[m].version, plan[m].version)
        BY <4>1, LessIsTotal DEF AtMost
      <4> QED BY <1>5, <1>6, <3>1, <4>2
    <3>2. CASE m \notin Cuts(plan)
      <4>1. AtMost(Top(m), files[m].version)
        BY <1>1 DEF Cutting, Ahead
      <4> QED BY <1>5, <1>6, <3>2, <4>1
    <3> QED BY <3>1, <3>2
  <2>2. ASSUME NEW m \in Module PROVE registry'[m] \subseteq CutOf(m)'
    <3>1. registry[m] \subseteq CutOf(m)
      BY <1>1 DEF Cutting, Ahead
    <3>2. registry'[m] \subseteq registry[m] \cup (IF m \in Cuts(plan) THEN {plan[m].version} ELSE {})
      BY <1>2 DEF Published, PublishNeeded
    <3> QED BY <1>9, <3>1, <3>2
  <2> QED BY <2>1, <2>2 DEF Ahead
<1>15. TagsSound'
  <2>1. \A t \in tags : t.of \in Module /\ t.version \in CutOf(t.of) /\ t.commit[t.of].version = t.version
    BY <1>1 DEF Cutting, TagsSound, Types
  <2>2. ASSUME NEW t \in tags' PROVE t.version \in CutOf(t.of)' /\ t.commit[t.of].version = t.version
    <3>1. CASE t \in tags
      BY <1>9, <2>1, <3>1
    <3>2. CASE t \notin tags
      <4>1. PICK m \in Tagged(plan) : t.of = m /\ t.version = plan[m].version /\ t.commit = files'
        BY <1>12, <3>2
      <4> QED BY <1>6, <1>9, <1>10, <1>11, <4>1
    <3> QED BY <3>1, <3>2
  <2>3. ASSUME NEW s \in tags', NEW t \in tags', s.of = t.of, s.version = t.version PROVE s = t
    <3>1. CASE s \in tags /\ t \in tags
      BY <1>1, <2>3, <3>1 DEF Cutting, TagsSound
    <3>2. ASSUME NEW old \in tags, NEW m \in Tagged(plan), old.of = m, old.version = plan[m].version
          PROVE  FALSE
      BY <1>10, <1>11, <2>1, <3>2
    <3>3. CASE s \notin tags /\ t \notin tags
      BY <1>2, <2>3, <3>3
    <3>4. CASE s \in tags /\ t \notin tags
      BY <1>12, <2>3, <3>2, <3>4
    <3>5. CASE s \notin tags /\ t \in tags
      BY <1>12, <2>3, <3>2, <3>5
    <3> QED BY <3>1, <3>3, <3>4, <3>5
  <2>4. ASSUME NEW m \in Module, Selected(project, m), cut'[m] # <<>>
        PROVE  \E t \in tags' : t.of = m /\ t.version = Top(m)'
    <3>1. CASE m \in Cuts(plan)
      <4>1. [of |-> m, version |-> plan[m].version, commit |-> files'] \in tags'
        BY <1>2, <1>11, <2>4, <3>1
      <4> QED BY <1>5, <3>1, <4>1
    <3>2. CASE m \notin Cuts(plan)
      BY <1>1, <1>2, <1>5, <2>4, <3>2 DEF Cutting, TagsSound
    <3> QED BY <3>1, <3>2
  <2>5. \A m \in Module : Selected(project, m)' = Selected(project, m)
    BY DEF Selected
  <2>6. TagsSound' = (/\ \A t \in tags' : t.version \in CutOf(t.of)' /\ t.commit[t.of].version = t.version
                      /\ \A s, t \in tags' : s.of = t.of /\ s.version = t.version => s = t
                      /\ \A m \in Module : Selected(project, m)' /\ cut'[m] # <<>> =>
                           \E t \in tags' : t.of = m /\ t.version = Top(m)')
    BY DEF TagsSound
  <2> QED BY <2>2, <2>3, <2>4, <2>5, <2>6
<1>16. Anchored'
  <2>1. ASSUME NEW m \in Releasing PROVE cut'[m] = <<>> <=> cut'[Base(m)] = <<>>
    <3>1. CASE OnUmbrella
      <4>1. m \in Module /\ Base(m) \in Cuts(plan) /\ (m \notin Cuts(plan) => cut'[m] # <<>>)
        BY <1>5, <1>7, <1>8, <3>1 DEF Releasing
      <4> QED BY <1>5, <4>1
    <3>2. CASE ~OnUmbrella
      BY <3>2 DEF Base
    <3> QED BY <3>1, <3>2
  <2>2. ASSUME NEW m \in Releasing, NEW t \in tags', t.of = Base(m), t.version = Top(Base(m))'
        PROVE  t.commit[m].version = Top(m)'
    <3>1. m \in Module /\ Base(m) \in Module /\ Base(m)' = Base(m)
      BY <1>1, <1>3, BaseTagged DEF Releasing
    <3>2. CASE t \in tags /\ Base(m) \in Cuts(plan)
      <4>1. t.version \in CutOf(Base(m))
        BY <1>1, <2>2, <3>2 DEF Cutting, TagsSound
      <4>2. Top(Base(m))' = plan[Base(m)].version
        BY <1>5, <3>1, <3>2
      <4> QED BY <1>10, <2>2, <3>2, <4>1, <4>2
    <3>3. CASE t \in tags /\ Base(m) \notin Cuts(plan)
      <4>1. Base(m) = m
        BY <1>8, <3>3 DEF Base
      <4>2. Top(m)' = Top(m) /\ t.version = Top(m)
        BY <1>5, <2>2, <3>1, <3>3, <4>1
      <4>3. \A s \in tags : s.of = Base(m) /\ s.version = Top(Base(m)) => s.commit[m].version = Top(m)
        BY <1>1 DEF Cutting, Anchored
      <4> QED BY <2>2, <3>3, <4>1, <4>2, <4>3
    <3>4. CASE t \notin tags
      <4>1. t.commit = files' /\ Base(m) \in Cuts(plan)
        BY <1>11, <1>12, <2>2, <3>4
      <4>2. m \in Cuts(plan) => files'[m].version = Top(m)'
        BY <1>5, <1>6, <3>1
      <4>3. m \notin Cuts(plan) => files'[m].version = Top(m)'
        <5>1. ASSUME m \notin Cuts(plan) PROVE files'[m].version = Top(m)'
          <6>1. files'[m].version = files[m].version /\ Top(m)' = Top(m)
            BY <1>5, <1>6, <3>1, <5>1
          <6>2. files[m].version = Top(m)
            BY <1>7, <5>1
          <6> QED BY <6>1, <6>2
        <5> QED BY <5>1
      <4> QED BY <4>1, <4>2, <4>3
    <3> QED BY <3>2, <3>3, <3>4
  <2>3. \A m \in Releasing : Base(m) \in Module /\ m \in Module
    BY <1>1, BaseTagged DEF Releasing
  <2> QED BY <1>3, <2>1, <2>2, <2>3 DEF Anchored
<1>17. Cutting'
  BY <1>5, <1>13, <1>14, <1>15, <1>16 DEF Cutting
<1>18. ASSUME NEW m \in Module, NEW d \in Deps(m) \ project.excluded
       PROVE  WasCut(d, files[m].floors[d])'
  <2>1. d \in Module /\ d \in Releasing
    BY DEF Deps, Releasing
  <2>2. files'[m].floors[d] \in CutOf(d)'
    <3>1. CASE d \in plan[m].floors
      <4>1. d \in Cuts(plan)
        BY <1>4, <2>1, <3>1 DEF PlanSound, Raises, Cuts
      <4>2. files'[m].floors[d] = plan[d].version
        <5>1. files'[m].floors = WrittenFloors(plan, m)
          BY <1>6
        <5> QED BY <3>1, <5>1, WrittenFloor
      <4> QED BY <1>9, <2>1, <4>1, <4>2
    <3>2. CASE d \notin plan[m].floors
      <4>1. d \notin Cuts(plan)
        BY <1>4, <3>2 DEF PlanSound, Raises, Cuts
      <4>2. files'[m].floors[d] = files[m].floors[d]
        <5>1. files'[m].floors = WrittenFloors(plan, m)
          BY <1>6
        <5> QED BY <3>2, <5>1, WrittenFloor
      <4>3. files[d].version = Top(d)
        BY <1>7, <2>1, <4>1
      <4>4. files[m].floors[d] \in CutOf(d)
        BY <4>3 DEF VersionInv, FloorsKept, WasCut, CutOf
      <4> QED BY <1>9, <2>1, <4>2, <4>4
    <3> QED BY <3>1, <3>2
  <2> QED BY <2>2 DEF CutOf, WasCut
<1>19. FloorsKept'
  BY <1>3, <1>18 DEF FloorsKept
<1>20. FloorsAreCut'
  <2>1. ASSUME NEW t \in tags', NEW m \in IF t.of = project.umbrella THEN Module ELSE {t.of},
               NEW d \in Deps(m) \ project.excluded
        PROVE  t.commit[m].floors[d] \in CutOf(d)'
    <3>1. d \in Module /\ m \in Module
      <4>1. t.of \in Module
        BY <1>13 DEF Types
      <4> QED BY <4>1 DEF Deps
    <3>2. CASE t \in tags
      <4>1. t.commit[m].floors[d] \in CutOf(d)
        BY <3>2 DEF VersionInv, FloorsAreCut, WasCut, CutOf
      <4> QED BY <1>9, <3>1, <4>1
    <3>3. CASE t \notin tags
      <4>1. t.commit = files'
        BY <1>12, <3>3
      <4>2. files'[m].floors[d] \in CutOf(d)'
        BY <1>18, <3>1 DEF WasCut, CutOf
      <4> QED BY <4>1, <4>2
    <3> QED BY <3>2, <3>3
  <2>2. \A t \in tags' : \A m \in IF t.of = project.umbrella THEN Module ELSE {t.of} :
          m \in Module /\ Deps(m)' = Deps(m)
    <3>1. \A t \in tags' : t.of \in Module
      BY <1>13 DEF Types
    <3> QED BY <1>3, <3>1
  <2> QED BY <2>1, <2>2 DEF FloorsAreCut, WasCut, CutOf
<1>21. ASSUME NEW m \in Releasing, m \in Cuts(plan) \/ m \notin Entries(plan)
       PROVE  ~Changed(m)' /\ AtMost(files[m].version, Top(m))'
  <2>1. m \in Module /\ Base(m) \in Module /\ Base(m) \in Releasing /\ Selected(project, Base(m))
    BY <1>1, BaseTagged DEF Releasing
  <2>2. AtMost(files[m].version, Top(m))'
    <3>1. files'[m].version = Top(m)'
      <4>1. CASE m \in Cuts(plan)
        BY <1>5, <1>6, <2>1, <4>1
      <4>2. CASE m \notin Cuts(plan)
        <5>1. files'[m].version = files[m].version /\ Top(m)' = Top(m)
          BY <1>5, <1>6, <2>1, <4>2
        <5>2. files[m].version = Top(m)
          BY <1>7, <4>2
        <5> QED BY <5>1, <5>2
      <4> QED BY <4>1, <4>2
    <3>2. Top(m)' \in AnyVersion
      <4>1. CASE m \in Cuts(plan)
        <5>1. plan[m].version \in AnyVersion
          BY <1>4, <2>1, <4>1, VersionsAny DEF PlanSound, Train
        <5> QED BY <1>5, <4>1, <5>1
      <4>2. CASE m \notin Cuts(plan)
        BY <1>1, <1>5, <2>1, <4>2, TopIsHighest DEF Cutting
      <4> QED BY <4>1, <4>2
    <3> QED BY <3>1, <3>2, LessIsTotal DEF AtMost
  <2>3. \E t \in tags' : t \in Anchor(m)' /\ t.commit[m] = files'[m]
    <3>1. CASE Base(m) \in Cuts(plan)
      <4> PICK t : t = [of |-> Base(m), version |-> plan[Base(m)].version, commit |-> files']
        OBVIOUS
      <4>1. t \in tags' /\ t.of = Base(m) /\ t.version = Top(Base(m))' /\ t.commit = files'
        <5>1. t \in tags' /\ t.of = Base(m) /\ t.version = plan[Base(m)].version /\ t.commit = files'
          BY <1>2, <1>11, <2>1, <3>1
        <5>2. Base(m)' = Base(m)
          BY <1>3, <2>1
        <5>3. Top(Base(m))' = plan[Base(m)].version
          BY <1>5, <3>1, <5>2
        <5> QED BY <5>1, <5>3
      <4>2. cut'[m] # <<>>
        BY <1>5, <1>7, <2>1
      <4>3. AnchorsAre'
        BY <1>3, <1>17, AnchorsHold, PTL
      <4>4. PICK s \in tags' : Anchor(m)' = {s} /\ s.of = Base(m)' /\ s.version = Top(Base(m))'
        BY <1>3, <4>2, <4>3 DEF AnchorsAre
      <4>5. s = t
        BY <1>3, <1>15, <2>1, <4>1, <4>4 DEF TagsSound
      <4> QED BY <4>1, <4>4, <4>5
    <3>2. CASE Base(m) \notin Cuts(plan)
      <4>1. ~OnUmbrella /\ Base(m) = m
        BY <1>8, <3>2 DEF Base
      <4>2. m \notin Cuts(plan) /\ plan[m].floors = {}
        BY <1>21, <2>1, <3>2, <4>1 DEF Entries
      <4>3. PICK t \in Anchor(m) : files[m] = t.commit[m]
        BY <1>7, <4>2 DEF Changed
      <4>4. files'[m] = files[m]
        <5>1. files[m] = [edits |-> files[m].edits, version |-> files[m].version, floors |-> files[m].floors]
              /\ files[m].floors = [e \in Deps(m) |-> files[m].floors[e]]
          BY <1>1, <2>1 DEF Types, File
        <5>2. WrittenFloors(plan, m) = files[m].floors
          BY <4>2, <5>1 DEF WrittenFloors
        <5>3. /\ files'[m].edits = files[m].edits /\ files'[m].version = files[m].version
              /\ files'[m].floors = WrittenFloors(plan, m)
          BY <1>6, <2>1, <4>2
        <5>4. files'[m] = [edits |-> files'[m].edits, version |-> files'[m].version,
                           floors |-> files'[m].floors]
          BY <1>6, <2>1
        <5> QED BY <5>1, <5>2, <5>3, <5>4
      <4>5. {s \in tags' : s.of = m} = {s \in tags : s.of = m}
        BY <1>2, <1>11, <4>2
      <4>6. Anchor(m)' = Anchor(m)
        BY <1>3, <4>1, <4>5 DEF Anchor
      <4>7. t \in tags
        BY <4>3 DEF Anchor
      <4> QED BY <1>2, <4>3, <4>4, <4>6, <4>7
    <3> QED BY <3>1, <3>2
  <2>4. ~Changed(m)'
    BY <2>3 DEF Changed
  <2> QED BY <2>2, <2>4
<1>22. Rest'
  <2>1. \A m \in Releasing \ raised' : m \in Cuts(plan) \/ m \notin Entries(plan)
    BY <1>2
  <2> QED BY <1>3, <1>21, <2>1 DEF Rest
<1>23. Staging'
  BY <1>2 DEF Staging, ProposalSound
<1> QED BY <1>3, <1>17, <1>19, <1>20, <1>22, <1>23 DEF VersionInv

\* A run that finds all planned tags publishes what was cut.
LEMMA ResumeKeeps ==
  ASSUME VersionInv, NEW verb, NEW r, Request(r), NEW unseen, NEW plan, plan = Plan(r, unseen),
         Resume(verb, r, plan, unseen), project' = project, edits' = edits
  PROVE  VersionInv'
<1>1. Covered /\ Cutting
  BY DEF VersionInv
<1>2. /\ ~Refused("Verify", r, plan, unseen) /\ Tagged(plan) # {} /\ Existing(plan) = Tagged(plan)
      /\ registry' = Published(verb, plan, unseen) /\ settled' = FALSE
      /\ UNCHANGED <<files, tags, cut, proposal, merged>>
  BY DEF Resume
<1>3. Covered' /\ Releasing' = Releasing
  BY <1>1, ProjectKeeps
<1>4. PlanSound(plan)
  BY <1>1, <1>2, PlanFacts
<1>5. OwnTags(project)
  BY <1>1, <1>2, <1>4, NothingExists DEF Covered
<1>6. ASSUME NEW m \in Cuts(plan) PROVE plan[m].version \in CutOf(m)
  <2>1. m \in Releasing /\ m \in Tagged(plan)
    BY <1>4, <1>5 DEF PlanSound, Cuts, Releasing, OwnTags, Tagged
  <2>2. PICK t \in tags : t.of = m /\ t.version = plan[m].version
    BY <1>2, <2>1 DEF Existing
  <2> QED BY <1>1, <2>2 DEF Cutting, TagsSound
<1>7. ASSUME NEW m \in Module PROVE registry'[m] \subseteq CutOf(m)
  <2>1. registry[m] \subseteq CutOf(m)
    BY <1>1 DEF Cutting, Ahead
  <2>2. registry'[m] \subseteq registry[m] \cup (IF m \in Cuts(plan) THEN {plan[m].version} ELSE {})
    BY <1>2 DEF Published, PublishNeeded
  <2> QED BY <1>6, <2>1, <2>2
<1>8. Cutting'
  <2>1. Types'
    <3>1. registry' = [m \in Module |-> registry'[m]] /\ Train(project)' = Train(project)
      BY <1>2, ProjectKeeps DEF Published
    <3> QED BY <1>1, <1>2, <3>1 DEF Cutting, Types, File, Deps
  <2>2. Ahead'
    BY <1>1, <1>2, <1>7 DEF Cutting, Ahead, Top, CutOf
  <2> QED BY <1>1, <1>2, <2>1, <2>2, CutsKeep DEF Cutting
<1>9. FloorsKept' /\ FloorsAreCut' /\ Rest'
  BY <1>2, CutsKeep DEF VersionInv, FloorsKept, Deps, WasCut, Top, Rest
<1>10. Staging'
  <2>1. ProposalSound'
    BY <1>2 DEF VersionInv, Staging, ProposalSound, Cuts, Deps
  <2>2. proposal # <<>> => PlanSound(proposal.plan)' /\ (proposal.intact => Repeats(proposal)')
    BY <1>2, CutsKeep, RepeatsKeep DEF VersionInv, Staging
  <2>3. merged # <<>> => PlanSound(merged.plan)' /\ Repeats(merged)'
    BY <1>2, CutsKeep, RepeatsKeep DEF VersionInv, Staging
  <2>4. merged # <<>> => \A m \in Cuts(merged.plan) : files[m].version = merged.plan[m].version
    BY DEF VersionInv, Staging
  <2> QED BY <1>2, <2>1, <2>2, <2>3, <2>4 DEF Staging, PlanSound, Repeats, Cuts
<1> QED BY <1>3, <1>8, <1>9, <1>10 DEF VersionInv

\* The project at the start.
LEMMA VersionInit ==
  ASSUME Init, Covered
  PROVE  VersionInv
<1>1. /\ project \in Projects
      /\ files = [m \in Module |-> [edits |-> {}, version |-> First, floors |-> [d \in Deps(m) |-> First]]]
      /\ tags = {[of |-> m, version |-> First, commit |-> files] :
                   m \in {n \in project.released : Selected(project, n)}}
      /\ registry = [m \in Module |-> IF m \in project.released THEN {First} ELSE {}]
      /\ cut = [m \in Module |-> IF m \in project.released THEN <<First>> ELSE <<>>]
      /\ proposal = <<>> /\ merged = <<>> /\ settled = FALSE /\ edits = 0
  BY DEF Init
<1>2. project.released \subseteq Module /\ project.deps \subseteq Module \X Module
  BY <1>1, ProjectType
<1>3. First \in Train(project) /\ First \in AnyVersion /\ Less(NoVersion, First)
  BY VersionsAny DEF Train, Channels, First
<1>4. ASSUME NEW m \in project.released PROVE cut[m] = <<First>> /\ Top(m) = First /\ CutOf(m) = {First}
  <2>1. cut[m] = <<First>>
    BY <1>1, <1>2
  <2>2. Len(<<First>>) = 1 /\ DOMAIN <<First>> = {1} /\ <<First>>[1] = First /\ <<First>> # <<>>
    OBVIOUS
  <2> QED BY <2>1, <2>2 DEF Top, CutOf
<1>5. ASSUME NEW m \in Module \ project.released
      PROVE  cut[m] = <<>> /\ Top(m) = NoVersion /\ CutOf(m) = {}
  <2>1. cut[m] = <<>>
    BY <1>1
  <2> QED BY <2>1 DEF Top, CutOf
<1>6. ASSUME NEW m \in Module
      PROVE  /\ files[m].version = First /\ files[m].edits = {}
             /\ files[m].floors = [d \in Deps(m) |-> First] /\ File(files[m], m)
  <2>1. files[m] = [edits |-> {}, version |-> First, floors |-> [d \in Deps(m) |-> First]]
    BY <1>1
  <2>2. files[m].version = First /\ files[m].edits = {} /\ files[m].floors = [d \in Deps(m) |-> First]
    BY <2>1
  <2>3. files[m].floors = [d \in Deps(m) |-> files[m].floors[d]]
    BY <2>2
  <2> QED BY <1>3, <2>1, <2>2, <2>3 DEF File
<1>7. ASSUME NEW t \in tags
      PROVE  /\ t.of \in project.released /\ t.version = First /\ t.commit = files
             /\ t = [of |-> t.of, version |-> First, commit |-> files]
  <2>1. PICK m \in {n \in project.released : Selected(project, n)} :
          t = [of |-> m, version |-> First, commit |-> files]
    BY <1>1
  <2> QED BY <2>1
<1>8. Types
  <2>1. cut \in [Module -> Seq(Train(project))]
    <3>1. <<First>> \in Seq(Train(project)) /\ <<>> \in Seq(Train(project))
      BY <1>3
    <3> QED BY <1>1, <3>1
  <2>2. files = [m \in Module |-> files[m]] /\ registry = [m \in Module |-> registry[m]] /\ edits \in Nat
    BY <1>1
  <2>3. \A t \in tags : t.of \in Module /\ \A m \in Module : t.commit[m].edits \subseteq 1..edits
    BY <1>2, <1>6, <1>7
  <2> QED BY <1>1, <1>6, <2>1, <2>2, <2>3 DEF Types
<1>9. Ahead
  <2>1. AtMost(First, First) /\ AtMost(NoVersion, First)
    BY <1>3, VersionsAny, LessIsTotal DEF AtMost
  <2>2. \A m \in Module : registry[m] \subseteq CutOf(m)
    BY <1>1, <1>4, <1>5
  <2>3. \A m \in Module : AtMost(Top(m), files[m].version)
    BY <1>4, <1>5, <1>6, <2>1
  <2> QED BY <2>2, <2>3 DEF Ahead
<1>10. CutsAscend
  <2>1. \A m \in Module : cut[m] = <<First>> \/ cut[m] = <<>>
    BY <1>4, <1>5
  <2>2. DOMAIN <<First>> = {1} /\ DOMAIN <<>> = {}
    OBVIOUS
  <2> QED BY <2>1, <2>2 DEF CutsAscend
<1>11. TagsSound
  <2>1. \A t \in tags : t.version \in CutOf(t.of) /\ t.commit[t.of].version = t.version
    <3>1. ASSUME NEW t \in tags PROVE t.version \in CutOf(t.of) /\ t.commit[t.of].version = t.version
      <4>1. t.of \in project.released /\ t.of \in Module /\ t.version = First /\ t.commit = files
        BY <1>2, <1>7
      <4>2. files[t.of].version = First
        BY <1>6, <4>1
      <4> QED BY <1>4, <4>1, <4>2
    <3> QED BY <3>1
  <2>2. \A s, t \in tags : s.of = t.of => s = t
    <3>1. \A t \in tags : t = [of |-> t.of, version |-> First, commit |-> files]
      BY <1>7
    <3> QED BY <3>1
  <2>3. ASSUME NEW m \in Module, Selected(project, m), cut[m] # <<>>
        PROVE  \E t \in tags : t.of = m /\ t.version = Top(m)
    <3>1. m \in project.released
      BY <1>5, <2>3
    <3>2. [of |-> m, version |-> First, commit |-> files] \in tags
      BY <1>1, <2>3, <3>1
    <3> QED BY <1>4, <3>1, <3>2
  <2> QED BY <2>1, <2>2, <2>3 DEF TagsSound
<1>12. Anchored
  <2>1. ASSUME NEW m \in Releasing PROVE m \in project.released <=> Base(m) \in project.released
    BY <1>2 DEF Covered, OwnTags, UmbrellaTags, Base, OnUmbrella, Releasing
  <2>2. ASSUME NEW m \in Releasing PROVE m \in Module /\ Base(m) \in Module
    BY BaseTagged DEF Releasing
  <2>3. \A m \in Module : cut[m] = <<>> <=> m \notin project.released
    <3>1. <<First>> # <<>>
      OBVIOUS
    <3> QED BY <1>4, <1>5, <3>1
  <2>4. ASSUME NEW m \in Releasing, NEW t \in tags, t.of = Base(m)
        PROVE  t.commit[m].version = Top(m)
    <3>1. m \in project.released
      BY <1>7, <2>1, <2>4
    <3>2. t.commit[m].version = First
      <4>1. t.commit = files
        BY <1>7
      <4> QED BY <1>6, <2>2, <4>1
    <3> QED BY <1>4, <3>1, <3>2
  <2>5. \A m \in Releasing : cut[m] = <<>> <=> cut[Base(m)] = <<>>
    BY <2>1, <2>2, <2>3
  <2> QED BY <2>4, <2>5 DEF Anchored
<1>13. Cutting
  BY <1>8, <1>9, <1>10, <1>11, <1>12 DEF Cutting
<1>14. FloorsKept
  <2>1. ASSUME NEW m \in Module, NEW d \in Deps(m) \ project.excluded
        PROVE  WasCut(d, files[m].floors[d]) \/ files[d].version # Top(d)
    <3>1. d \in Module /\ files[d].version = First /\ files[m].floors[d] = First
      BY <1>6 DEF Deps
    <3>2. CASE d \in project.released
      BY <1>4, <3>1, <3>2 DEF WasCut, CutOf
    <3>3. CASE d \notin project.released
      BY <1>5, <3>1, <3>3, VersionsAny
    <3> QED BY <3>2, <3>3
  <2> QED BY <2>1 DEF FloorsKept
<1>15. FloorsAreCut
  <2>1. ASSUME NEW t \in tags, NEW m \in IF t.of = project.umbrella THEN Module ELSE {t.of},
               NEW d \in Deps(m) \ project.excluded
        PROVE  WasCut(d, t.commit[m].floors[d])
    <3>1. t.of \in project.released /\ m \in Module /\ d \in Module /\ <<m, d>> \in project.deps
      BY <1>2, <1>7 DEF Deps
    <3>2. t.commit[m].floors[d] = First
      <4>1. t.commit = files
        BY <1>7
      <4>2. files[m].floors = [e \in Deps(m) |-> First]
        BY <1>6, <3>1
      <4> QED BY <4>1, <4>2
    <3>3. d \in project.released
      <4>1. CASE OwnTags(project)
        <5>1. {m, project.umbrella} \cap project.released # {}
          BY <3>1
        <5>2. d \in project.released \cup project.excluded
          BY <3>1, <4>1, <5>1 DEF OwnTags
        <5> QED BY <5>2
      <4>2. CASE UmbrellaTags(project)
        BY <3>1, <4>2 DEF UmbrellaTags
      <4> QED BY <4>1, <4>2 DEF Covered
    <3> QED BY <1>4, <3>2, <3>3 DEF WasCut, CutOf
  <2> QED BY <2>1 DEF FloorsAreCut
<1>16. Rest /\ Staging
  BY <1>1 DEF Rest, Staging, ProposalSound
<1> QED BY <1>13, <1>14, <1>15, <1>16 DEF VersionInv

LEMMA VersionStep ==
  ASSUME VersionInv, [Next]_vars
  PROVE  VersionInv'
<1>1. CASE UNCHANGED vars
  <2>1. /\ UNCHANGED <<project, files, tags, registry, cut>>
        /\ UNCHANGED <<proposal, merged, settled, raised, edits>>
    BY <1>1 DEF vars, bounds
  <2>2. Covered' /\ Types' /\ Ahead'
    <3>1. Covered' = Covered /\ Train(project)' = Train(project)
      BY <2>1, ProjectKeeps
    <3> QED BY <2>1, <3>1 DEF VersionInv, Cutting, Types, File, Deps, Ahead, Top, CutOf
  <2>3. Cutting' /\ FloorsAreCut'
    BY <2>1, <2>2, CutsKeep DEF VersionInv, Cutting
  <2>4. FloorsKept' /\ Rest'
    <3>1. FloorsKept'
      BY <2>1 DEF VersionInv, FloorsKept, Deps, WasCut, Top
    <3>2. Rest'
      BY <2>1 DEF VersionInv, Rest, Changed, Anchor, OnUmbrella, Releasing, Top
    <3> QED BY <3>1, <3>2
  <2>5. Staging'
    <3>1. ProposalSound'
      BY <2>1 DEF VersionInv, Staging, ProposalSound, Cuts, Deps
    <3>2. proposal # <<>> => PlanSound(proposal.plan)' /\ (proposal.intact => Repeats(proposal)')
      BY <2>1, CutsKeep, RepeatsKeep DEF VersionInv, Staging
    <3>3. merged # <<>> => PlanSound(merged.plan)' /\ Repeats(merged)'
      BY <2>1, CutsKeep, RepeatsKeep DEF VersionInv, Staging
    <3>4. merged # <<>> => \A m \in Cuts(merged.plan) : files[m].version = merged.plan[m].version
      BY DEF VersionInv, Staging
    <3> QED BY <2>1, <3>1, <3>2, <3>3, <3>4 DEF Staging, PlanSound, Repeats, Cuts
  <2> QED BY <2>2, <2>3, <2>4, <2>5 DEF VersionInv
<1>2. ASSUME NEW n \in Module, Declare(n) \/ Edit(n) PROVE VersionInv'
  BY <1>2, DeclareKeeps, EditKeeps
<1>3. CASE Merge
  BY <1>3, MergeKeeps
<1>4. CASE Run
  <2>1. project' = project /\ edits' = edits
    BY <1>4 DEF Run
  <2>2. PICK r \in Requests, unseen \in IF OnRegistry THEN Outages ELSE {{}} :
          \/ Bump(r, Plan(r, unseen), unseen)
          \/ NothingToRelease(r, Plan(r, unseen), unseen)
          \/ \E verb \in {"tag", "publish"} :
               Cut(verb, r, Plan(r, unseen), unseen) \/ Resume(verb, r, Plan(r, unseen), unseen)
    BY <1>4 DEF Run
  <2>3. Request(r)
    BY RequestIs DEF VersionInv, Cutting, Types
  <2> PICK plan : plan = Plan(r, unseen)
    OBVIOUS
  <2>4. CASE Bump(r, plan, unseen)
    BY <2>1, <2>3, <2>4, BumpKeeps
  <2>5. CASE NothingToRelease(r, plan, unseen)
    BY <2>1, <2>3, <2>5, NothingKeeps
  <2>6. ASSUME NEW verb \in {"tag", "publish"}, Cut(verb, r, plan, unseen) PROVE VersionInv'
    BY <2>1, <2>3, <2>6, CutKeeps
  <2>7. ASSUME NEW verb \in {"tag", "publish"}, Resume(verb, r, plan, unseen) PROVE VersionInv'
    BY <2>1, <2>3, <2>7, ResumeKeeps
  <2> QED BY <2>2, <2>4, <2>5, <2>6, <2>7
<1> QED BY <1>1, <1>2, <1>3, <1>4 DEF Next

LEMMA ProjectStays == [Next]_vars => project' = project
BY DEF Next, Run, Merge, Edit, Declare, vars

LEMMA VersionInvariance == Spec /\ Covered => []VersionInv
<1>1. Init /\ Covered => VersionInv
  BY VersionInit
<1>2. VersionInv /\ [Next]_vars => VersionInv'
  BY VersionStep
<1> QED BY <1>1, <1>2, PTL DEF Spec

LEMMA OneTrainStays == Spec /\ OneTrain(project) => []OneTrain(project)
<1>1. OneTrain(project) /\ [Next]_vars => OneTrain(project)'
  BY ProjectStays DEF OneTrain, Channels
<1> QED BY <1>1, PTL DEF Spec
-----------------------------------------------------------------------------
(***************************************************************************)
(* The theorems.                                                           *)
(***************************************************************************)

\* What is cut of a module ascends, whichever registry answers, whoever declares a version
\* by hand and, with own tags, on whatever channels (resolve_baseline, next_version).
THEOREM CutsAscending == Spec /\ Covered => []CutsAscend
<1>1. VersionInv => CutsAscend
  BY DEF VersionInv, Cutting
<1> QED BY <1>1, VersionInvariance, PTL

\* No tag names a manifest that asks for a version nobody cut (decide, mutate_manifests).
THEOREM FloorsCut == Spec /\ Covered => []FloorsAreCut
<1>1. VersionInv => FloorsAreCut
  BY DEF VersionInv
<1> QED BY <1>1, VersionInvariance, PTL

\* After a run that came through the next one seeds nothing (seeds_release).
THEOREM RunsSettle == Spec /\ Covered => []Settles
<1>1. ASSUME VersionInv, settled, NEW unseen \in Outages, NEW m \in Module \ project.excluded,
             SeedsRelease(Plain, m, unseen), m \notin raised
      PROVE  FALSE
  <2>1. Covered /\ Cutting /\ m \in Releasing /\ m \in Module
    BY <1>1 DEF VersionInv, Releasing
  <2>2. ~Changed(m) /\ (project.policy = "Manifest" => AtMost(files[m].version, Top(m)))
    BY <1>1, <2>1 DEF VersionInv, Rest
  <2>3. ~Forces(Plain, m)
    BY DEF Forces, Plain
  <2>4. project.policy = "Manifest" /\ Less(Baseline(m, unseen), files[m].version)
    BY <1>1, <2>2, <2>3 DEF SeedsRelease
  <2> QED BY <2>1, <2>2, <2>4, BaselineIs DEF AtMost
<1>2. VersionInv => Settles
  BY <1>1 DEF Settles
<1> QED BY <1>2, VersionInvariance, PTL

\* With one channel a later tag cuts what a bump staged, or what is above it
\* (BumpPlanner::decide).
THEOREM StagedTagged == Spec /\ Covered /\ OneTrain(project) => []StagedIsTagged
<1>1. ASSUME VersionInv, OneTrain(project), merged # <<>>, NEW unseen, NEW r, r = [Plain EXCEPT !.channel = merged.channel],
             NEW plan, plan = Plan(r, unseen), ~Refused("Verify", r, plan, unseen),
             NEW m \in Cuts(merged.plan)
      PROVE  /\ m \in merged.exact => plan[m].version = merged.plan[m].version
             /\ AtMost(merged.plan[m].version, plan[m].version)
  <2>1. /\ Covered /\ Cutting /\ PlanSound(merged.plan) /\ Repeats(merged)
        /\ files[m].version = merged.plan[m].version /\ m \in Module /\ project \in Projects
    BY <1>1 DEF VersionInv, Staging, Cuts, Cutting, Types
  <2>2. /\ m \in Releasing /\ Less(Top(m), files[m].version)
        /\ Top(m) \in AnyVersion /\ files[m].version \in AnyVersion
    <3>1. m \in Releasing /\ merged.plan[m].version \in Train(project) /\ Less(Top(m), merged.plan[m].version)
      BY <1>1, <2>1 DEF PlanSound, Follows
    <3> QED BY <2>1, <3>1, TopIsHighest, VersionsAny DEF Cutting, Train
  <2>3. Changed(m)
    <3>1. files[m].version # Top(m)
      BY <2>2, LessIsTotal
    <3> QED BY <2>1, <2>2, <3>1, ChangedIs
  <2>4. SeedsRelease(r, m, unseen) = TRUE
    BY <2>3 DEF SeedsRelease
  <2>5. Request(r) /\ r.channel = merged.channel /\ r.levels[m] = "None" /\ r.sets[m] = NoVersion
    <3>1. merged.channel \in 1..Stable
      BY <2>1 DEF Repeats
    <3> QED BY <1>1, <2>1, <3>1, RequestIs DEF Plain
  <2>6. /\ m \in Cuts(plan) /\ AtMost(files[m].version, plan[m].version)
        /\ plan[m].version = ResolveBump(r, m, TRUE, unseen) /\ ~Rejects("Verify", r, m, TRUE, unseen)
    <3>1. /\ \A k \in Releasing : SeedsRelease(r, k, unseen) => k \in Cuts(plan)
          /\ \A k \in Cuts(plan) : /\ AtMost(files[k].version, plan[k].version)
                                   /\ plan[k].version = ResolveBump(r, k, SeedsRelease(r, k, unseen), unseen)
                                   /\ ~Rejects("Verify", r, k, SeedsRelease(r, k, unseen), unseen)
      BY <1>1, <2>1, <2>5, PlanFacts
    <3> QED BY <2>2, <2>4, <3>1
  <2>7. ASSUME m \in merged.exact PROVE plan[m].version = files[m].version
    <3> DEFINE level == SelectLevel(r, m, TRUE)
    <3>1. Baseline(m, unseen) = Top(m) /\ (IsInitial(m, unseen) <=> cut[m] = <<>>)
      BY <2>1, <2>2, BaselineIs
    <3>2. /\ cut[m] = <<>> => r.channel = Stable
          /\ cut[m] # <<>> /\ project.policy # "Manifest" /\ r.channel \in Channels(project) =>
               AtMost(NextVersion(Top(m), SelectLevel(Plain, m, TRUE), r.channel), files[m].version)
      BY <2>1, <2>5, <2>7 DEF Repeats
    <3>3. level \in Levels /\ level # "None" /\ level = SelectLevel(Plain, m, TRUE)
      <4>1. level \in Levels
        <5>1. SelectLevel(r, m, TRUE) \in Levels \cup {"None"} /\ SelectLevel(r, m, TRUE) # "None"
          BY <2>1, <2>5, LevelIs
        <5> QED BY <5>1
      <4>2. level = SelectLevel(Plain, m, TRUE)
        <5>1. Plain.levels[m] = "None" /\ r.levels[m] = "None"
          BY <2>1, <2>5 DEF Plain
        <5> QED BY <5>1 DEF SelectLevel
      <4> QED BY <4>1, <4>2 DEF Levels
    <3>4. CASE cut[m] = <<>>
      BY <2>5, <2>6, <3>1, <3>2, <3>4 DEF ResolveBump
    <3>5. CASE cut[m] # <<>> /\ project.policy = "Manifest"
      BY <2>2, <2>5, <2>6, <3>1, <3>3, <3>5 DEF ResolveBump, AtMost
    <3>6. CASE cut[m] # <<>> /\ project.policy # "Manifest"
      <4>1. plan[m].version = Computed(m, level, r.channel, unseen)
        BY <2>5, <2>6, <3>1, <3>3, <3>6 DEF ResolveBump
      <4>2. r.channel \in Channels(project)
        BY <2>5, <2>6, <3>3 DEF Rejects, Recognized, Channels
      <4>3. AtMost(NextVersion(Top(m), level, r.channel), files[m].version)
        BY <3>2, <3>3, <3>6, <4>2
      <4>4. Computed(m, level, r.channel, unseen) = files[m].version
        <5> HIDE DEF level
        <5> QED BY <2>1, <2>2, <3>3, <3>6, <4>2, <4>3, ComputedIs
      <4> QED BY <4>1, <4>4
    <3> QED BY <3>4, <3>5, <3>6
  <2> QED BY <2>1, <2>6, <2>7
<1>2. VersionInv /\ OneTrain(project) => StagedIsTagged
  BY <1>1 DEF StagedIsTagged
<1> QED BY <1>2, VersionInvariance, OneTrainStays, PTL

\* "A changed module always plans onto a fresh tag" (docs/commands/release.md): no run
\* that tags plans a version whose tag is there.  So it is with one channel.
FreshTags ==
  \A request \in Requests, unseen \in SUBSET Module :
    ~Refused("Verify", request, Plan(request, unseen), unseen) => Existing(Plan(request, unseen)) = {}

THEOREM TagsAreFresh == Spec /\ Covered /\ OneTrain(project) => []FreshTags
<1>1. ASSUME VersionInv, OneTrain(project), NEW r \in Requests, NEW unseen \in SUBSET Module,
             ~Refused("Verify", r, Plan(r, unseen), unseen)
      PROVE  Existing(Plan(r, unseen)) = {}
  <2> PICK plan : plan = Plan(r, unseen)
    OBVIOUS
  <2>1. Covered /\ Cutting /\ Request(r)
    BY <1>1, RequestIs DEF VersionInv, Cutting, Types
  <2>2. PlanSound(plan)
    BY <1>1, <2>1, PlanFacts
  <2> QED BY <1>1, <2>1, <2>2, NothingExists
<1>2. VersionInv /\ OneTrain(project) => FreshTags
  BY <1>1 DEF FreshTags
<1> QED BY <1>2, VersionInvariance, OneTrainStays, PTL
=============================================================================
