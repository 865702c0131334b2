---------------------------- MODULE PlanningProofs ----------------------------
(***************************************************************************)
(* From a task's modules to linked waves, for every finite graph, project  *)
(* and request.  Three parts: what the recursive definitions of Layers     *)
(* come to (the reached nodes are the least closed set, the levels exist   *)
(* and rise along the edges); the walk of UnitWaves finds the components   *)
(* and gives every unit the wave Layers defines; the plan of PlanPipeline  *)
(* keeps its gates, its prerequisites, its handoffs and its builds.        *)
(***************************************************************************)
EXTENDS UnitWaves, PlanPipeline,
        FiniteSetTheorems, SequenceTheorems, WellFoundedInduction, TLAPS

LOCAL INSTANCE FiniteSetsExt

\* A set of nodes with everything its members depend on.
ClosedUnder(deps, S) == \A u \in S : deps[u] \subseteq S

\* The intersection of the closed sets around from.
Closure(deps, from) ==
  {v \in DOMAIN deps : \A S \in SUBSET DOMAIN deps :
     from \subseteq S /\ ClosedUnder(deps, S) => v \in S}

\* The closure is closed, and the least of the closed sets around from.
LEMMA ClosureIsLeast ==
  ASSUME NEW D, NEW deps \in [D -> SUBSET D], NEW from \in SUBSET D
  PROVE  /\ Closure(deps, from) \in SUBSET D
         /\ from \subseteq Closure(deps, from)
         /\ ClosedUnder(deps, Closure(deps, from))
         /\ \A S \in SUBSET D : from \subseteq S /\ ClosedUnder(deps, S)
              => Closure(deps, from) \subseteq S
<1>1. DOMAIN deps = D
  OBVIOUS
<1>2. ASSUME NEW u \in Closure(deps, from), NEW v \in deps[u] PROVE v \in Closure(deps, from)
  <2>1. u \in D /\ v \in D
    BY <1>1 DEF Closure
  <2>2. ASSUME NEW S \in SUBSET D, from \subseteq S, ClosedUnder(deps, S) PROVE v \in S
    <3>1. u \in S
      BY <1>1, <2>2 DEF Closure
    <3> QED BY <2>2, <3>1 DEF ClosedUnder
  <2> QED BY <1>1, <2>1, <2>2 DEF Closure
<1>3. ClosedUnder(deps, Closure(deps, from))
  BY <1>2 DEF ClosedUnder
<1> QED BY <1>1, <1>3 DEF Closure

\* A set with one more step has the same closure, and a closed set is its own.
LEMMA ClosureSteps ==
  ASSUME NEW D, NEW deps \in [D -> SUBSET D], NEW from \in SUBSET D
  PROVE  /\ UNION {deps[u] : u \in from} \subseteq from => Closure(deps, from) = from
         /\ from \cup UNION {deps[u] : u \in from} \in SUBSET D
         /\ Closure(deps, from \cup UNION {deps[u] : u \in from}) = Closure(deps, from)
<1> DEFINE more == UNION {deps[u] : u \in from}
<1>1. more \subseteq from => ClosedUnder(deps, from)
  BY DEF ClosedUnder
<1>2. more \subseteq from => Closure(deps, from) = from
  BY <1>1, ClosureIsLeast
<1>3. from \cup more \in SUBSET D
  OBVIOUS
<1>4. from \cup more \subseteq Closure(deps, from)
  <2>1. from \subseteq Closure(deps, from) /\ ClosedUnder(deps, Closure(deps, from))
    BY ClosureIsLeast
  <2> QED BY <2>1 DEF ClosedUnder
<1>5. Closure(deps, from \cup more) \subseteq Closure(deps, from)
  <2> HIDE DEF more
  <2>1. Closure(deps, from) \in SUBSET D /\ ClosedUnder(deps, Closure(deps, from))
    BY ClosureIsLeast
  <2> QED BY <1>3, <1>4, <2>1, ClosureIsLeast
<1>6. Closure(deps, from) \subseteq Closure(deps, from \cup more)
  <2> HIDE DEF more
  <2>1. /\ Closure(deps, from \cup more) \in SUBSET D
        /\ from \cup more \subseteq Closure(deps, from \cup more)
        /\ ClosedUnder(deps, Closure(deps, from \cup more))
    BY <1>3, ClosureIsLeast
  <2>2. from \subseteq Closure(deps, from \cup more)
    BY <2>1
  <2>3. \A S \in SUBSET D : from \subseteq S /\ ClosedUnder(deps, S)
          => Closure(deps, from) \subseteq S
    BY ClosureIsLeast
  <2> QED BY <2>1, <2>2, <2>3
<1> QED BY <1>2, <1>3, <1>5, <1>6

\* What is not known yet gets smaller with every step: a step of the recursion
\* towards a smaller number.
LEMMA UnknownShrinks ==
  ASSUME NEW D, IsFiniteSet(D), NEW from \in SUBSET D, NEW wider \in SUBSET D,
         from \subseteq wider, wider # from
  PROVE  /\ Cardinality(D \ from) \in Nat /\ Cardinality(D \ wider) \in Nat
         /\ Cardinality(D \ wider) < Cardinality(D \ from)
<1>1. IsFiniteSet(D \ from) /\ IsFiniteSet(D \ wider)
  BY FS_Subset
<1>2. D \ wider \subseteq D \ from /\ D \ wider # D \ from
  OBVIOUS
<1> QED BY <1>1, <1>2, FS_Subset, FS_CardinalityType

\* A set of numbers that is not empty has a least one.
LEMMA LeastNat ==
  ASSUME NEW S \in SUBSET Nat, S # {}
  PROVE  \E n \in S : \A m \in S : n <= m
<1> DEFINE R == OpToRel(<, Nat)
<1>1. IsWellFoundedOn(R, Nat)
  BY NatLessThanWellFounded
<1>2. PICK n \in S : \A m \in S : ~ (<<m, n>> \in R)
  BY <1>1, WFMin
<1>3. \A m \in S : ~ (m < n)
  BY <1>2 DEF OpToRel
<1> QED BY <1>3

\* The recursion of Reach has one solution over a finite graph, the closure.
LEMMA ReachIsClosure ==
  ASSUME NEW D, IsFiniteSet(D), NEW deps \in [D -> SUBSET D], NEW from \in SUBSET D
  PROVE  Reach(deps, from) = Closure(deps, from)
<1> DEFINE More(known) == UNION {deps[u] : u \in known}
           Step(f) == [known \in SUBSET D |->
                         IF More(known) \subseteq known THEN known ELSE f[known \cup More(known)]]
           closure == [known \in SUBSET D |-> Closure(deps, known)]
           reach == CHOOSE f : f = Step(f)
<1>1. ASSUME NEW known \in SUBSET D
      PROVE  closure[known] = Step(closure)[known]
  <2>1. known \cup More(known) \in SUBSET D
    BY ClosureSteps
  <2>2. closure[known \cup More(known)] = Closure(deps, known)
    BY <2>1, ClosureSteps
  <2>3. More(known) \subseteq known => Closure(deps, known) = known
    BY ClosureSteps
  <2> QED BY <2>2, <2>3
<1>2. closure = Step(closure)
  <2>1. closure = [known \in SUBSET D |-> closure[known]]
    OBVIOUS
  <2>2. Step(closure) = [known \in SUBSET D |-> Step(closure)[known]]
    OBVIOUS
  <2> HIDE DEF closure, Step
  <2> QED BY <1>1, <2>1, <2>2
<1>3. reach = Step(reach)
  <2> HIDE DEF closure, Step
  <2> QED BY <1>2
<1>4. \A known \in SUBSET D : reach[known] = Closure(deps, known)
  <2> DEFINE Wrong == {known \in SUBSET D : reach[known] # Closure(deps, known)}
             Unknown == {Cardinality(D \ known) : known \in Wrong}
  <2> SUFFICES ASSUME Wrong # {} PROVE FALSE
    OBVIOUS
  <2>1. Unknown \in SUBSET Nat /\ Unknown # {}
    <3>1. \A known \in SUBSET D : Cardinality(D \ known) \in Nat
      BY FS_Subset, FS_CardinalityType
    <3> HIDE DEF reach
    <3> QED BY <3>1
  <2>2. PICK n \in Unknown : \A m \in Unknown : n <= m
    <3> HIDE DEF Unknown
    <3> QED BY <2>1, LeastNat
  <2>3. PICK known \in Wrong : n = Cardinality(D \ known)
    OBVIOUS
  <2> DEFINE wider == known \cup More(known)
  <2>4. wider \in SUBSET D /\ Closure(deps, wider) = Closure(deps, known)
    BY ClosureSteps
  <2>5. reach[known] = IF More(known) \subseteq known THEN known ELSE reach[wider]
    <3> HIDE DEF reach
    <3> QED BY <1>3
  <2>6. ~ (More(known) \subseteq known)
    <3> HIDE DEF reach
    <3> QED BY <2>5, ClosureSteps
  <2>7. wider \in Wrong
    <3> HIDE DEF reach
    <3> QED BY <2>4, <2>5, <2>6
  <2>8. Cardinality(D \ wider) < n /\ Cardinality(D \ wider) \in Nat
    <3>1. known \in SUBSET D /\ wider # known /\ known \subseteq wider
      BY <2>6
    <3> HIDE DEF reach, wider
    <3> QED BY <2>3, <2>4, <3>1, UnknownShrinks
  <2>9. Cardinality(D \ wider) \in Unknown
    BY <2>7
  <2> HIDE DEF Unknown, wider
  <2> QED BY <2>1, <2>2, <2>8, <2>9
<1>5. Reach(deps, from) = reach[from]
  BY DEF Reach
<1> HIDE DEF reach
<1> QED BY <1>4, <1>5

\* What holds of the reached nodes, without their definition.
LEMMA ReachIsLeast ==
  ASSUME NEW D, IsFiniteSet(D), NEW deps \in [D -> SUBSET D], NEW from \in SUBSET D
  PROVE  /\ Reach(deps, from) \in SUBSET D
         /\ from \subseteq Reach(deps, from)
         /\ ClosedUnder(deps, Reach(deps, from))
         /\ \A S \in SUBSET D : from \subseteq S /\ ClosedUnder(deps, S)
              => Reach(deps, from) \subseteq S
  BY ReachIsClosure, ClosureIsLeast

\* There is a path, perhaps without an edge.
Path(deps, u, v) == v \in Reach(deps, {u})

\* A path leads from a node to itself and to what it depends on, and stays among
\* the nodes.
LEMMA PathStarts ==
  ASSUME NEW D, IsFiniteSet(D), NEW deps \in [D -> SUBSET D], NEW u \in D
  PROVE  /\ Path(deps, u, u)
         /\ \A v \in deps[u] : Path(deps, u, v)
         /\ \A v : Path(deps, u, v) => v \in D
  BY ReachIsLeast DEF Path, ClosedUnder

\* Two paths make one.
LEMMA PathJoins ==
  ASSUME NEW D, IsFiniteSet(D), NEW deps \in [D -> SUBSET D],
         NEW u \in D, NEW v \in D, NEW w \in D, Path(deps, u, v), Path(deps, v, w)
  PROVE  Path(deps, u, w)
<1>1. ClosedUnder(deps, Reach(deps, {u})) /\ Reach(deps, {u}) \in SUBSET D
  BY ReachIsLeast
<1>2. {v} \subseteq Reach(deps, {u}) /\ {v} \in SUBSET D
  BY DEF Path
<1>3. Reach(deps, {v}) \subseteq Reach(deps, {u})
  BY <1>1, <1>2, ReachIsLeast
<1> QED BY <1>3 DEF Path

\* A path leaves no closed set.
LEMMA PathStays ==
  ASSUME NEW D, IsFiniteSet(D), NEW deps \in [D -> SUBSET D], NEW S \in SUBSET D,
         ClosedUnder(deps, S), NEW u \in S, NEW v, Path(deps, u, v)
  PROVE  v \in S
<1>1. {u} \in SUBSET D /\ {u} \subseteq S
  OBVIOUS
<1>2. Reach(deps, {u}) \subseteq S
  BY <1>1, ReachIsLeast
<1> QED BY <1>2 DEF Path

\* Two nodes are in one component when there is a path either way.
LEMMA ComponentIsPaths ==
  ASSUME NEW D, IsFiniteSet(D), NEW deps \in [D -> SUBSET D], NEW u \in D, NEW v \in D
  PROVE  v \in Component(deps, u) <=> Path(deps, u, v) /\ Path(deps, v, u)
  BY DEF Component, Path
\* What a component gates on outside of itself.
Below(deps, u) == (UNION {deps[v] : v \in Component(deps, u)}) \ Component(deps, u)

\* One above the highest of these.
LevelAt(f, deps, u) ==
  IF Below(deps, u) = {} THEN 0 ELSE Max({f[v] : v \in Below(deps, u)}) + 1

\* Levels satisfy one equation; where what a node waits for ranks below it, no
\* other function does.
LEMMA LevelsAreUnique ==
  ASSUME NEW D, NEW deps \in [D -> SUBSET D], NEW rank \in [D -> Nat], NEW f,
         f = [u \in D |-> LevelAt(f, deps, u)],
         \A u \in D : \A v \in Below(deps, u) : v \in D /\ rank[v] < rank[u]
  PROVE  Levels(deps) = f
<1> DEFINE Step(g) == [u \in D |-> LevelAt(g, deps, u)]
           levels == CHOOSE g : g = Step(g)
<1>1. Levels(deps) = levels
  BY DEF Levels, Below, LevelAt
<1>2. levels = Step(levels)
  <2>1. f = Step(f)
    OBVIOUS
  <2> HIDE DEF Step
  <2> QED BY <2>1
<1> HIDE DEF levels
<1>3. ASSUME NEW u \in D, levels[u] # f[u] PROVE FALSE
  <2> DEFINE Wrong == {v \in D : levels[v] # f[v]}
             Ranks == {rank[v] : v \in Wrong}
  <2>1. Ranks \in SUBSET Nat /\ Ranks # {}
    <3>1. \A v \in Wrong : v \in D /\ rank[v] \in Nat
      OBVIOUS
    <3>2. u \in Wrong
      BY <1>3
    <3> HIDE DEF Wrong
    <3> QED BY <3>1, <3>2
  <2>2. PICK n \in Ranks : \A m \in Ranks : n <= m
    <3> HIDE DEF Ranks
    <3> QED BY <2>1, LeastNat
  <2>3. PICK w \in Wrong : n = rank[w]
    OBVIOUS
  <2>4. \A v \in Below(deps, w) : levels[v] = f[v]
    <3> SUFFICES ASSUME NEW v \in Below(deps, w), levels[v] # f[v] PROVE FALSE
      OBVIOUS
    <3>1. v \in D /\ rank[v] < rank[w] /\ rank[v] \in Ranks
      OBVIOUS
    <3>2. n <= rank[v]
      BY <2>2, <3>1
    <3>3. rank[v] \in Nat /\ rank[w] \in Nat
      BY <3>1
    <3> QED BY <2>3, <3>1, <3>2, <3>3
  <2> DEFINE Values(g) == {g[v] : v \in Below(deps, w)}
  <2>5. Values(levels) = Values(f)
    BY <2>4
  <2>6. ASSUME NEW g, g = Step(g)
        PROVE  g[w] = IF Below(deps, w) = {} THEN 0 ELSE Max(Values(g)) + 1
    <3>1. Step(g)[w] = IF Below(deps, w) = {} THEN 0 ELSE Max(Values(g)) + 1
      BY DEF LevelAt
    <3> HIDE DEF Step, Values
    <3> QED BY <2>6, <3>1
  <2>7. f = Step(f)
    OBVIOUS
  <2>8. levels[w] # f[w]
    OBVIOUS
  <2> HIDE DEF Step, Values, Wrong
  <2> QED BY <1>2, <2>5, <2>6, <2>7, <2>8
<1>4. f = [u \in D |-> f[u]] /\ levels = [u \in D |-> levels[u]]
  <2>1. levels = [u \in D |-> levels[u]]
    BY <1>2
  <2> QED BY <2>1
<1>5. \A u \in D : levels[u] = f[u]
  BY <1>3
<1>6. levels = f
  BY <1>4, <1>5
<1> QED BY <1>1, <1>6

\* A finite set of numbers that is not empty has a greatest one.
LEMMA FiniteMax ==
  ASSUME NEW S \in SUBSET Nat, IsFiniteSet(S), S # {}
  PROVE  Max(S) \in S /\ \A x \in S : x <= Max(S)
<1> DEFINE Topped(T) == \E x \in T : \A y \in T : y <= x
           Open == {T \in SUBSET S : T # {} /\ ~Topped(T)}
           Sizes == {Cardinality(T) : T \in Open}
<1>1. \A T \in SUBSET S : IsFiniteSet(T) /\ Cardinality(T) \in Nat
  BY FS_Subset, FS_CardinalityType
<1>2. Open = {}
  <2> SUFFICES ASSUME Open # {} PROVE FALSE
    OBVIOUS
  <2>1. Sizes \in SUBSET Nat /\ Sizes # {}
    <3> HIDE DEF Topped
    <3> QED BY <1>1
  <2>2. \E n \in Sizes : \A m \in Sizes : n <= m
    <3> HIDE DEF Sizes
    <3> QED BY <2>1, LeastNat
  <2>3. PICK T \in Open : \A U \in Open : Cardinality(T) <= Cardinality(U)
    <3> HIDE DEF Open
    <3> QED BY <2>2
  <2>4. PICK x \in T : TRUE
    OBVIOUS
  <2> DEFINE U == T \ {x}
  <2>5. T \in SUBSET Nat /\ U \in SUBSET S /\ T \in SUBSET S
    OBVIOUS
  <2>6. Cardinality(U) = Cardinality(T) - 1 /\ Cardinality(T) \in Nat
    BY <1>1, <2>4, <2>5, FS_RemoveElement
  <2>7. U \notin Open
    <3> HIDE DEF Open, U
    <3> QED BY <2>3, <2>6
  <2>8. CASE U = {}
    <3>1. T = {x}
      BY <2>4, <2>8
    <3>2. x <= x
      BY <2>4, <2>5
    <3> QED BY <3>1, <3>2
  <2>9. CASE U # {}
    <3>1. PICK y \in U : \A z \in U : z <= y
      BY <2>5, <2>7, <2>9
    <3>2. CASE x <= y
      <4>1. \A z \in T : z <= y
        BY <3>1, <3>2
      <4> QED BY <3>1, <4>1
    <3>3. CASE y <= x
      <4>1. \A z \in U : z <= x
        BY <2>4, <2>5, <3>1, <3>3
      <4>2. x <= x
        BY <2>4, <2>5
      <4> QED BY <2>4, <4>1, <4>2
    <3> QED BY <2>4, <2>5, <3>1, <3>2, <3>3
  <2> QED BY <2>8, <2>9
<1>3. Topped(S)
  BY <1>2
<1> QED BY <1>3 DEF Max

\* The values of a function on a finite set are finitely many.
LEMMA ImageIsFinite ==
  ASSUME NEW S, IsFiniteSet(S), NEW f
  PROVE  IsFiniteSet({f[x] : x \in S})
<1> DEFINE Image(T) == {f[x] : x \in T}
           Open == {T \in SUBSET S : ~IsFiniteSet(Image(T))}
           Sizes == {Cardinality(T) : T \in Open}
<1>1. \A T \in SUBSET S : IsFiniteSet(T) /\ Cardinality(T) \in Nat
  BY FS_Subset, FS_CardinalityType
<1> SUFFICES ASSUME Open # {} PROVE FALSE
  <2> HIDE DEF Image
  <2> QED BY DEF Image
<1>2. Sizes \in SUBSET Nat /\ Sizes # {}
  <2> HIDE DEF Image
  <2> QED BY <1>1
<1>3. \E n \in Sizes : \A m \in Sizes : n <= m
  <2> HIDE DEF Sizes
  <2> QED BY <1>2, LeastNat
<1>4. PICK T \in Open : \A U \in Open : Cardinality(T) <= Cardinality(U)
  <2> HIDE DEF Open
  <2> QED BY <1>3
<1>5. T # {}
  <2>1. T = {} => Image(T) = {}
    OBVIOUS
  <2> HIDE DEF Image
  <2> QED BY <2>1, FS_EmptySet
<1>6. PICK x \in T : TRUE
  BY <1>5
<1> DEFINE U == T \ {x}
<1>7. Image(T) = Image(U) \cup {f[x]}
  BY <1>6
<1>8. Cardinality(U) = Cardinality(T) - 1 /\ Cardinality(T) \in Nat /\ U \in SUBSET S
  <2> HIDE DEF Image
  <2> QED BY <1>1, <1>6, FS_RemoveElement
<1> HIDE DEF Image
<1>9. U \notin Open
  <2> HIDE DEF Open, U
  <2> QED BY <1>4, <1>8
<1>10. IsFiniteSet(Image(U))
  BY <1>8, <1>9
<1>11. IsFiniteSet(Image(T))
  <2> HIDE DEF U
  <2> QED BY <1>7, <1>10, FS_AddElement
<1> QED BY <1>11

\* One above the highest of these, and no lower than the floor.
Highest(floor, below, g, u) == Max({floor[u]} \cup {g[v] + 1 : v \in below[u]})

\* The height over a floor and what lies below is a number, no lower than the
\* floor and above everything below.
LEMMA HighestIsNat ==
  ASSUME NEW D, IsFiniteSet(D), NEW below \in [D -> SUBSET D], NEW floor \in [D -> Nat],
         NEW g \in [D -> Nat], NEW u \in D
  PROVE  /\ Highest(floor, below, g, u) \in Nat /\ floor[u] <= Highest(floor, below, g, u)
         /\ \A v \in below[u] : g[v] < Highest(floor, below, g, u)
<1> DEFINE next == [v \in D |-> g[v] + 1]
           above == {next[v] : v \in below[u]}
           S == {floor[u]} \cup above
<1>1. IsFiniteSet(below[u])
  BY FS_Subset
<1>2. IsFiniteSet(above)
  <2> HIDE DEF next
  <2> QED BY <1>1, ImageIsFinite
<1>3. IsFiniteSet(S)
  <2> HIDE DEF above
  <2>1. S = above \cup {floor[u]}
    OBVIOUS
  <2> HIDE DEF S
  <2> QED BY <1>2, <2>1, FS_AddElement
<1>4. S \in SUBSET Nat /\ S # {}
  <2>1. \A v \in below[u] : next[v] \in Nat
    OBVIOUS
  <2> QED BY <2>1
<1>5. Max(S) \in S /\ \A x \in S : x <= Max(S)
  <2> HIDE DEF S
  <2> QED BY <1>3, <1>4, FiniteMax
<1>6. Highest(floor, below, g, u) = Max(S)
  <2>1. above = {g[v] + 1 : v \in below[u]}
    OBVIOUS
  <2> QED BY <2>1 DEF Highest
<1>7. \A v \in below[u] : next[v] <= Max(S) /\ next[v] = g[v] + 1 /\ g[v] \in Nat
  <2>1. \A v \in below[u] : next[v] \in S
    OBVIOUS
  <2> HIDE DEF S
  <2> QED BY <1>5, <2>1
<1>8. floor[u] \in S
  OBVIOUS
<1> HIDE DEF S
<1>9. Max(S) \in Nat /\ floor[u] <= Max(S)
  BY <1>4, <1>5, <1>8
<1>10. \A v \in below[u] : g[v] < Max(S)
  <2> HIDE DEF next
  <2> QED BY <1>7, <1>9
<1> QED BY <1>6, <1>9, <1>10

\* The levels exist wherever what a node waits for ranks below it.
LEMMA RankedExists ==
  ASSUME NEW D, IsFiniteSet(D), NEW below \in [D -> SUBSET D], NEW floor \in [D -> Nat],
         NEW rank \in [D -> Nat], NEW top \in Nat, \A u \in D : rank[u] < top,
         \A u \in D : \A v \in below[u] : rank[v] < rank[u]
  PROVE  \E g \in [D -> Nat] : \A u \in D : g[u] = Highest(floor, below, g, u)
<1> DEFINE Up(n) == \E g \in [D -> Nat] : \A u \in D :
                       rank[u] < n => g[u] = Highest(floor, below, g, u)
           Bad == {n \in Nat : ~Up(n)}
<1> SUFFICES Up(top)
  OBVIOUS
<1> SUFFICES ASSUME Bad # {} PROVE FALSE
  OBVIOUS
<1>1. PICK n \in Bad : \A m \in Bad : n <= m
  <2>1. Bad \in SUBSET Nat
    OBVIOUS
  <2> HIDE DEF Bad
  <2> QED BY <2>1, LeastNat
<1>2. n # 0
  <2>1. \A u \in D : ~(rank[u] < 0)
    OBVIOUS
  <2>2. floor \in [D -> Nat]
    OBVIOUS
  <2>3. Up(0)
    BY <2>1, <2>2
  <2> QED BY <2>3
<1>3. n \in Nat /\ n - 1 \in Nat /\ n - 1 < n
  BY <1>2
<1>4. Up(n - 1)
  <2> HIDE DEF Up
  <2> QED BY <1>1, <1>3
<1>5. PICK g \in [D -> Nat] : \A u \in D : rank[u] < n - 1 => g[u] = Highest(floor, below, g, u)
  BY <1>4
<1> DEFINE h == [u \in D |-> IF rank[u] < n - 1 THEN g[u] ELSE Highest(floor, below, g, u)]
<1>6. h \in [D -> Nat]
  BY HighestIsNat
<1>7. ASSUME NEW u \in D, rank[u] < n PROVE h[u] = Highest(floor, below, h, u)
  <2>1. \A v \in below[u] : v \in D /\ h[v] = g[v]
    <3>1. \A v \in below[u] : v \in D /\ rank[v] < rank[u] /\ rank[v] \in Nat /\ rank[u] \in Nat
      OBVIOUS
    <3>2. \A v \in below[u] : rank[v] < n - 1
      BY <1>3, <1>7, <3>1
    <3> QED BY <3>1, <3>2
  <2>2. Highest(floor, below, h, u) = Highest(floor, below, g, u)
    <3>1. {h[v] + 1 : v \in below[u]} = {g[v] + 1 : v \in below[u]}
      <4> HIDE DEF h
      <4> QED BY <2>1
    <3> QED BY <3>1 DEF Highest
  <2>3. h[u] = Highest(floor, below, g, u)
    BY <1>5
  <2> QED BY <2>2, <2>3
<1>8. Up(n)
  <2> HIDE DEF h
  <2> QED BY <1>6, <1>7
<1> QED BY <1>8

\* The values of a function on a set.
ValuesOf(f, S) == {f[x] : x \in S}

\* What the levels of a node is when it is not a component's.
LEMMA HighestIsOne ==
  ASSUME NEW D, IsFiniteSet(D), NEW below \in [D -> SUBSET D], NEW g \in [D -> Nat], NEW u \in D,
         NEW zero, zero = [v \in D |-> 0]
  PROVE  /\ below[u] = {} => Highest(zero, below, g, u) = 0
         /\ below[u] # {} => Highest(zero, below, g, u) = Max(ValuesOf(g, below[u])) + 1
<1> DEFINE B == {g[v] : v \in below[u]}
           H == Highest(zero, below, g, u)
           S == {zero[u]} \cup {g[v] + 1 : v \in below[u]}
<1>1. zero \in [D -> Nat] /\ zero[u] = 0
  OBVIOUS
<1>2. CASE below[u] = {}
  <2>1. S = {0}
    BY <1>2
  <2>2. Max({0}) = 0
    BY DEF Max
  <2> QED BY <1>2, <2>1, <2>2 DEF Highest
<1>3. CASE below[u] # {}
  <2>1. B \in SUBSET Nat /\ B # {}
    BY <1>3
  <2>2. IsFiniteSet(B)
    <3>1. IsFiniteSet(below[u])
      BY FS_Subset
    <3> QED BY <3>1, ImageIsFinite
  <2>3. Max(B) \in B /\ \A x \in B : x <= Max(B)
    <3> HIDE DEF B
    <3> QED BY <2>1, <2>2, FiniteMax
  <2>4. Max(B) + 1 \in S /\ Max(B) \in Nat
    BY <2>3
  <2>5. \A x \in S : x <= Max(B) + 1 /\ x \in Nat
    <3>1. \A v \in below[u] : g[v] <= Max(B) /\ g[v] \in Nat
      <4>1. \A v \in below[u] : g[v] \in B /\ g[v] \in Nat
        OBVIOUS
      <4> HIDE DEF B
      <4> QED BY <2>3, <4>1
    <3> HIDE DEF B
    <3> QED BY <1>1, <2>4, <3>1
  <2>6. Max(S) = Max(B) + 1
    <3> HIDE DEF S, B
    <3>1. Max(S) = CHOOSE x \in S : \A y \in S : x >= y
      BY DEF Max
    <3>2. \A y \in S : Max(B) + 1 >= y
      BY <2>4, <2>5
    <3>3. Max(S) \in S /\ \A y \in S : Max(S) >= y
      BY <2>4, <3>1, <3>2
    <3>4. Max(S) >= Max(B) + 1 /\ Max(S) <= Max(B) + 1 /\ Max(S) \in Nat
      BY <2>4, <2>5, <3>3
    <3> QED BY <2>4, <3>4
  <2>7. ValuesOf(g, below[u]) = B
    BY DEF ValuesOf
  <2> QED BY <1>3, <2>6, <2>7 DEF Highest
<1> QED BY <1>2, <1>3

\* Strictly below means strictly less is reached.
LEMMA BelowReachesLess ==
  ASSUME NEW D, IsFiniteSet(D), NEW deps \in [D -> SUBSET D], NEW u \in D,
         NEW v \in Reach(deps, {u}), u \notin Reach(deps, {v})
  PROVE  /\ Cardinality(Reach(deps, {v})) < Cardinality(Reach(deps, {u}))
         /\ Cardinality(Reach(deps, {u})) \in Nat
         /\ Cardinality(Reach(deps, {u})) < Cardinality(D) + 1 /\ Cardinality(D) \in Nat
<1> DEFINE R == Reach(deps, {u})
           S == Reach(deps, {v})
<1>1. R \in SUBSET D /\ u \in R /\ ClosedUnder(deps, R)
  BY ReachIsLeast
<1>2. v \in R /\ v \in D
  BY <1>1
<1>3. S \in SUBSET R
  BY <1>1, <1>2, ReachIsLeast
<1>4. S # R
  BY <1>1
<1>5. IsFiniteSet(R) /\ Cardinality(R) <= Cardinality(D) /\ Cardinality(D) \in Nat
  <2> HIDE DEF R
  <2> QED BY <1>1, FS_Subset, FS_CardinalityType
<1>6. /\ Cardinality(S) <= Cardinality(R) /\ Cardinality(S) # Cardinality(R)
      /\ Cardinality(R) \in Nat /\ Cardinality(S) \in Nat
  <2> HIDE DEF R, S
  <2> QED BY <1>3, <1>4, <1>5, FS_Subset, FS_CardinalityType
<1> HIDE DEF R, S
<1>7. Cardinality(S) < Cardinality(R) /\ Cardinality(R) < Cardinality(D) + 1
  BY <1>5, <1>6
<1> QED BY <1>5, <1>6, <1>7 DEF R, S

\* Every finite graph has its levels, cyclic or not.
LEMMA LevelsAreNat ==
  ASSUME NEW D, IsFiniteSet(D), NEW deps \in [D -> SUBSET D]
  PROVE  Levels(deps) \in [D -> Nat]
<1> DEFINE below == [u \in D |-> Below(deps, u)]
           floor == [u \in D |-> 0]
           rank == [u \in D |-> Cardinality(Reach(deps, {u}))]
           top == Cardinality(D) + 1
<1>1. ASSUME NEW u \in D, NEW v \in Below(deps, u)
      PROVE  v \in Reach(deps, {u}) /\ u \notin Reach(deps, {v}) /\ v \in D
  <2>1. PICK w \in Component(deps, u) : v \in deps[w]
    BY DEF Below
  <2>2. w \in D /\ v \in D /\ Path(deps, u, w) /\ Path(deps, w, u)
    <3>1. w \in D
      BY ReachIsLeast DEF Component
    <3> QED BY <2>1, <3>1, ComponentIsPaths
  <2>3. Path(deps, w, v)
    BY <2>1, <2>2, PathStarts
  <2>4. Path(deps, u, v)
    BY <2>2, <2>3, PathJoins
  <2>5. v \notin Component(deps, u)
    BY DEF Below
  <2>6. ~Path(deps, v, u)
    BY <2>2, <2>4, <2>5, ComponentIsPaths
  <2> QED BY <2>2, <2>4, <2>6 DEF Path
<1>2. Cardinality(D) \in Nat /\ top \in Nat
  BY FS_CardinalityType
<1>3. ASSUME NEW u \in D PROVE rank[u] \in Nat /\ rank[u] < top
  <2>1. Reach(deps, {u}) \in SUBSET D
    BY ReachIsLeast
  <2>2. /\ Cardinality(Reach(deps, {u})) \in Nat
        /\ Cardinality(Reach(deps, {u})) <= Cardinality(D)
    BY <2>1, FS_Subset, FS_CardinalityType
  <2> QED BY <1>2, <2>2
<1>4. below \in [D -> SUBSET D] /\ floor \in [D -> Nat] /\ rank \in [D -> Nat]
  BY <1>1, <1>3
<1>5. \A u \in D : \A v \in below[u] : rank[v] < rank[u]
  BY <1>1, BelowReachesLess
<1>6. \E g \in [D -> Nat] : \A u \in D : g[u] = Highest(floor, below, g, u)
  <2>1. \A u \in D : rank[u] < top
    BY <1>3
  <2> HIDE DEF below, floor, rank, top
  <2>2. top \in Nat
    BY <1>2
  <2> QED BY <1>4, <1>5, <2>1, <2>2, RankedExists
<1>7. PICK g \in [D -> Nat] : \A u \in D : g[u] = Highest(floor, below, g, u)
  BY <1>6
<1>8. ASSUME NEW u \in D PROVE g[u] = LevelAt(g, deps, u)
  <2>1. Highest(floor, below, g, u)
          = IF below[u] = {} THEN 0 ELSE Max(ValuesOf(g, below[u])) + 1
    <3>1. floor = [v \in D |-> 0]
      OBVIOUS
    <3> HIDE DEF below, floor, rank, top
    <3>2. /\ below[u] = {} => Highest(floor, below, g, u) = 0
          /\ below[u] # {} => Highest(floor, below, g, u) = Max(ValuesOf(g, below[u])) + 1
      BY <1>4, <3>1, HighestIsOne
    <3> QED BY <3>2
  <2>2. ValuesOf(g, below[u]) = {g[v] : v \in Below(deps, u)}
    BY DEF ValuesOf
  <2> QED BY <1>7, <2>1, <2>2 DEF LevelAt
<1>9. g = [u \in D |-> LevelAt(g, deps, u)]
  <2>1. g = [u \in D |-> g[u]]
    OBVIOUS
  <2> QED BY <1>8, <2>1
<1>10. \A u \in D : \A v \in Below(deps, u) : v \in D /\ rank[v] < rank[u]
  BY <1>1, <1>5
<1>11. Levels(deps) = g
  <2> HIDE DEF rank
  <2> QED BY <1>4, <1>9, <1>10, LevelsAreUnique
<1> QED BY <1>11

\* Where no node reaches itself, every one is above its dependencies and not
\* below its floor.
LEMMA LevelsAboveRise ==
  ASSUME NEW D, IsFiniteSet(D), NEW deps \in [D -> SUBSET D], NEW floor \in [D -> Nat],
         \A u \in D : u \notin Reach(deps, deps[u])
  PROVE  /\ LevelsAbove(floor, deps) \in [D -> Nat]
         /\ \A u \in D : /\ floor[u] <= LevelsAbove(floor, deps)[u]
                         /\ \A v \in deps[u] :
                              LevelsAbove(floor, deps)[v] < LevelsAbove(floor, deps)[u]
<1> DEFINE rank == [u \in D |-> Cardinality(Reach(deps, {u}))]
           top == Cardinality(D) + 1
           Step(g) == [u \in D |-> Highest(floor, deps, g, u)]
           levels == CHOOSE g : g = Step(g)
<1>1. ASSUME NEW u \in D, NEW v \in deps[u]
      PROVE  v \in Reach(deps, {u}) /\ u \notin Reach(deps, {v}) /\ v \in D
  <2>1. v \in D /\ Path(deps, u, v)
    BY PathStarts
  <2>2. Reach(deps, {v}) \subseteq Reach(deps, deps[u])
    <3>1. deps[u] \in SUBSET D /\ {v} \in SUBSET D /\ {v} \subseteq deps[u]
      BY <2>1
    <3>2. /\ Reach(deps, deps[u]) \in SUBSET D /\ ClosedUnder(deps, Reach(deps, deps[u]))
          /\ {v} \subseteq Reach(deps, deps[u])
      BY <3>1, ReachIsLeast
    <3> QED BY <3>1, <3>2, ReachIsLeast
  <2> QED BY <2>1, <2>2 DEF Path
<1>2. Cardinality(D) \in Nat /\ top \in Nat
  BY FS_CardinalityType
<1>3. ASSUME NEW u \in D PROVE rank[u] \in Nat /\ rank[u] < top
  <2>1. Reach(deps, {u}) \in SUBSET D
    BY ReachIsLeast
  <2>2. /\ Cardinality(Reach(deps, {u})) \in Nat
        /\ Cardinality(Reach(deps, {u})) <= Cardinality(D)
    BY <2>1, FS_Subset, FS_CardinalityType
  <2> QED BY <1>2, <2>2
<1>4. rank \in [D -> Nat]
  BY <1>3
<1>5. \A u \in D : \A v \in deps[u] : rank[v] < rank[u]
  BY <1>1, BelowReachesLess
<1>6. PICK g \in [D -> Nat] : \A u \in D : g[u] = Highest(floor, deps, g, u)
  <2> HIDE DEF rank, top
  <2> QED BY <1>2, <1>3, <1>4, <1>5, RankedExists
<1>7. g = Step(g)
  <2>1. g = [u \in D |-> g[u]]
    OBVIOUS
  <2> QED BY <1>6, <2>1
<1>8. levels = Step(levels)
  <2> HIDE DEF Step
  <2> QED BY <1>7
<1>9. LevelsAbove(floor, deps) = levels
  BY DEF LevelsAbove, Highest
<1> HIDE DEF levels
<1>10. levels = [u \in D |-> levels[u]] /\ \A u \in D : levels[u] = Highest(floor, deps, levels, u)
  BY <1>8
<1>11. \A u \in D : levels[u] = g[u]
  <2> DEFINE Wrong == {u \in D : levels[u] # g[u]}
             Ranks == {rank[u] : u \in Wrong}
  <2> SUFFICES ASSUME Wrong # {} PROVE FALSE
    OBVIOUS
  <2>1. Ranks \in SUBSET Nat /\ Ranks # {}
    <3> HIDE DEF rank
    <3> QED BY <1>4
  <2>2. \E n \in Ranks : \A m \in Ranks : n <= m
    <3> HIDE DEF Ranks
    <3> QED BY <2>1, LeastNat
  <2>3. PICK u \in Wrong : \A v \in Wrong : rank[u] <= rank[v]
    <3> HIDE DEF Wrong, rank
    <3> QED BY <2>2
  <2> HIDE DEF rank
  <2>4. \A v \in deps[u] : levels[v] = g[v]
    BY <1>4, <1>5, <2>3
  <2>5. {levels[v] + 1 : v \in deps[u]} = {g[v] + 1 : v \in deps[u]}
    BY <2>4
  <2>6. Highest(floor, deps, levels, u) = Highest(floor, deps, g, u)
    BY <2>5 DEF Highest
  <2> QED BY <1>6, <1>10, <2>6
<1>12. levels = g
  <2>1. g = [u \in D |-> g[u]]
    OBVIOUS
  <2> QED BY <1>10, <1>11, <2>1
<1>13. \A u \in D : floor[u] <= g[u] /\ \A v \in deps[u] : g[v] < g[u]
  BY <1>6, HighestIsNat
<1> QED BY <1>9, <1>12, <1>13

\* A path the other way round.
LEMMA PathTurned ==
  ASSUME NEW D, IsFiniteSet(D), NEW deps \in [D -> SUBSET D], NEW u \in D, NEW v \in D,
         Path(deps, u, v)
  PROVE  Path(Dependents(deps), v, u)
<1> DEFINE back == Dependents(deps)
           S == {w \in D : Path(back, w, u)}
<1>1. back \in [D -> SUBSET D] /\ \A w \in D : back[w] = {x \in D : w \in deps[x]}
  BY DEF Dependents
<1> HIDE DEF back
<1>2. u \in S
  BY <1>1, PathStarts
<1>3. ASSUME NEW w \in S, NEW x \in deps[w] PROVE x \in S
  <2>1. x \in D /\ w \in back[x]
    BY <1>1
  <2>2. Path(back, x, w)
    BY <1>1, <2>1, PathStarts
  <2> QED BY <1>1, <2>1, <2>2, PathJoins
<1>4. ClosedUnder(deps, S) /\ S \in SUBSET D
  BY <1>3 DEF ClosedUnder
<1>5. v \in S
  <2> HIDE DEF S
  <2> QED BY <1>2, <1>4, PathStays
<1> QED BY <1>5 DEF back

\* What is reached from a member is reached from the set.
LEMMA ReachGrows ==
  ASSUME NEW D, IsFiniteSet(D), NEW deps \in [D -> SUBSET D], NEW S \in SUBSET D,
         NEW u \in S, NEW v, Path(deps, u, v)
  PROVE  v \in Reach(deps, S)
<1>1. /\ Reach(deps, S) \in SUBSET D /\ ClosedUnder(deps, Reach(deps, S))
      /\ u \in Reach(deps, S)
  BY ReachIsLeast
<1> QED BY <1>1, PathStays
-----------------------------------------------------------------------------
(***************************************************************************)
(* The invariant of the walk.                                              *)
(***************************************************************************)
OnStack == Seqs!ToSet(stack)
Visited == {u \in Units : index[u] # Unset}
Done == {u \in Units : component[u] # Unset}
Frame == [node : Units, todo : SUBSET Units]
Frames == 1 .. Len(work)
Node(j) == work[j].node

SearchType ==
  /\ gates \in [Units -> SUBSET Units]
  /\ work \in Seq(Frame) /\ stack \in Seq(Units)
  /\ index \in [Units -> Nat] /\ lowlink \in [Units -> Nat] /\ component \in [Units -> Nat]
  /\ nextIndex \in Nat /\ nextComponent \in Nat

\* Indices and component ids are given out in turn; Unset is never one of them.
Counted ==
  /\ nextIndex = Cardinality(Visited)
  /\ nextComponent <= Cardinality(Done)
  /\ \A u \in Visited : index[u] < nextIndex
  /\ \A u \in Done : component[u] < nextComponent

\* On the stack is what was entered and has no component yet, in that order.
StackInv ==
  /\ OnStack = Visited \ Done /\ Done \subseteq Visited
  /\ \A i, j \in 1 .. Len(stack) : i < j => index[stack[i]] < index[stack[j]]

FrameInv ==
  /\ \A j \in Frames : Node(j) \in OnStack /\ work[j].todo \subseteq gates[Node(j)]
  /\ \A i, j \in Frames : i < j => index[Node(i)] < index[Node(j)]

Untried(u, v) == \E j \in Frames : Node(j) = u /\ v \in work[j].todo

\* A gate of an entered unit is entered or still to be tried, and no component
\* that is complete gates on one that is not, or on a later one.
ExploreInv ==
  /\ \A u \in Visited : \A v \in gates[u] : v \in Visited \/ Untried(u, v)
  /\ \A u \in Done : \A v \in gates[u] : v \in Done /\ component[v] <= component[u]

\* A unit in work reaches what was entered after it, and whatever is on the
\* stack reaches a unit in work that was entered no later.
PathInv ==
  /\ \A j \in Frames : \A u \in OnStack :
       index[Node(j)] <= index[u] => Path(gates, Node(j), u)
  /\ \A u \in OnStack : \E j \in Frames :
       index[Node(j)] <= index[u] /\ Path(gates, u, Node(j))

\* What was entered from the frame j and not from a later one.
Segment(j) ==
  {u \in OnStack : /\ index[Node(j)] <= index[u]
                   /\ j < Len(work) => index[u] < index[Node(j + 1)]}

\* A low link is the index of a unit on the stack that is reached, and nothing
\* that the segment has tried lies lower.
LowInv ==
  \A j \in Frames :
    /\ lowlink[Node(j)] <= index[Node(j)]
    /\ \E u \in OnStack : lowlink[Node(j)] = index[u] /\ Path(gates, Node(j), u)
    /\ \A u \in Segment(j) : \A v \in gates[u] \cap OnStack :
         ~ Untried(u, v) => lowlink[Node(j)] <= index[v]

ComponentInv ==
  \A u, v \in Done :
    component[u] = component[v] <=> Path(gates, u, v) /\ Path(gates, v, u)

WalkInv ==
  /\ SearchType /\ Counted /\ StackInv /\ FrameInv
  /\ ExploreInv /\ PathInv /\ LowInv /\ ComponentInv

SearchInv == phase = "search" => WalkInv
-----------------------------------------------------------------------------
(***************************************************************************)
(* Sequences.                                                              *)
(***************************************************************************)
\* A prefix has the elements of its sequence.
LEMMA PrefixFacts ==
  ASSUME NEW R, NEW s \in Seq(R), NEW n \in Nat, n <= Len(s)
  PROVE  /\ SubSeq(s, 1, n) \in Seq(R) /\ Len(SubSeq(s, 1, n)) = n
         /\ \A i \in 1 .. n : SubSeq(s, 1, n)[i] = s[i]
<1>1. SubSeq(s, 1, n) \in Seq(R)
  OBVIOUS
<1>2. Len(SubSeq(s, 1, n)) = n
  OBVIOUS
<1>3. \A i \in 1 .. n : SubSeq(s, 1, n)[i] = s[i]
  OBVIOUS
<1> QED BY <1>1, <1>2, <1>3

\* The top of a worklist, and the worklist without it.
LEMMA LastAndFront ==
  ASSUME NEW R, NEW s \in Seq(R), s # <<>>
  PROVE  /\ Len(s) \in Nat /\ Len(s) >= 1 /\ Len(s) \in 1 .. Len(s)
         /\ Seqs!Last(s) = s[Len(s)] /\ Seqs!Last(s) \in R
         /\ Seqs!Front(s) \in Seq(R) /\ Len(Seqs!Front(s)) = Len(s) - 1
         /\ \A i \in 1 .. Len(s) - 1 : Seqs!Front(s)[i] = s[i]
         /\ Seqs!Front(s) = <<>> <=> Len(s) = 1
<1>1. Len(s) \in Nat /\ Len(s) # 0
  OBVIOUS
<1>2. Len(s) \in 1 .. Len(s) /\ Seqs!Last(s) = s[Len(s)]
  BY <1>1 DEF Seqs!Last
<1>3. Seqs!Front(s) = SubSeq(s, 1, Len(s) - 1)
  BY DEF Seqs!Front
<1>4. /\ Seqs!Front(s) \in Seq(R) /\ Len(Seqs!Front(s)) = Len(s) - 1
      /\ \A i \in 1 .. Len(s) - 1 : Seqs!Front(s)[i] = s[i]
  <2>1. Len(s) - 1 \in Nat /\ Len(s) - 1 <= Len(s)
    BY <1>1
  <2> DEFINE n == Len(s) - 1
  <2> HIDE DEF n
  <2>2. n \in Nat /\ n <= Len(s)
    BY <2>1 DEF n
  <2>3. /\ SubSeq(s, 1, n) \in Seq(R) /\ Len(SubSeq(s, 1, n)) = n
        /\ \A i \in 1 .. n : SubSeq(s, 1, n)[i] = s[i]
    BY <2>2, PrefixFacts
  <2> QED BY <1>3, <2>3 DEF n
<1>5. Seqs!Front(s) = <<>> <=> Len(s) = 1
  BY <1>1, <1>4
<1> QED BY <1>1, <1>2, <1>4, <1>5

\* What stands where after a push.
LEMMA AppendElements ==
  ASSUME NEW R, NEW s \in Seq(R), NEW x \in R
  PROVE  /\ Append(s, x) \in Seq(R) /\ Len(Append(s, x)) = Len(s) + 1 /\ Len(s) \in Nat
         /\ \A i \in 1 .. Len(s) : Append(s, x)[i] = s[i]
         /\ Append(s, x)[Len(s) + 1] = x
  OBVIOUS

\* A push adds one member.
LEMMA AppendMembers ==
  ASSUME NEW R, NEW s \in Seq(R), NEW x \in R
  PROVE  Seqs!ToSet(Append(s, x)) = Seqs!ToSet(s) \cup {x}
<1>1. DOMAIN s = 1 .. Len(s) /\ DOMAIN Append(s, x) = 1 .. Len(s) + 1 /\ Len(s) \in Nat
  OBVIOUS
<1>2. /\ \A i \in 1 .. Len(s) : Append(s, x)[i] = s[i]
      /\ Append(s, x)[Len(s) + 1] = x
  OBVIOUS
<1> QED BY <1>1, <1>2 DEF Seqs!ToSet

\* The members of a stack are what stands at its positions.
LEMMA StackMembers ==
  ASSUME NEW R, NEW s \in Seq(R)
  PROVE  /\ Seqs!ToSet(s) \in SUBSET R
         /\ \A i \in 1 .. Len(s) : s[i] \in Seqs!ToSet(s)
         /\ \A u \in Seqs!ToSet(s) : \E i \in 1 .. Len(s) : s[i] = u
  BY DEF Seqs!ToSet
-----------------------------------------------------------------------------
(* Entering a unit. *)

\* The units are finitely many numbers, and Unset is larger than their count.
LEMMA UnitsFacts ==
  /\ IsFiniteSet(Units) /\ Units \subseteq Nat
  /\ Cardinality(Units) \in Nat /\ Unset \in Nat /\ Unset = Cardinality(Units) + 1
  /\ \A S \in SUBSET Units : IsFiniteSet(S) /\ Cardinality(S) \in Nat
                             /\ Cardinality(S) <= Cardinality(Units)
<1>1. IsFiniteSet(Units) /\ Units \subseteq Nat /\ Cardinality(Units) \in Nat
  BY UnitsAssumption, FS_CardinalityType
<1>2. \A S \in SUBSET Units : IsFiniteSet(S) /\ Cardinality(S) \in Nat
                             /\ Cardinality(S) <= Cardinality(Units)
  BY <1>1, FS_Subset, FS_CardinalityType
<1> QED BY <1>1, <1>2 DEF Unset

\* One more member is one more in the count, and a proper subset counts less.
LEMMA OneMore ==
  ASSUME NEW S \in SUBSET Units, NEW u \in Units \ S
  PROVE  /\ Cardinality(S \cup {u}) = Cardinality(S) + 1
         /\ Cardinality(S) < Cardinality(Units)
<1>1. IsFiniteSet(S) /\ Cardinality(S) \in Nat /\ Cardinality(Units) \in Nat
  BY UnitsFacts
<1>2. Cardinality(S \cup {u}) = Cardinality(S) + 1
  BY <1>1, FS_AddElement
<1>3. Cardinality(S \cup {u}) <= Cardinality(Units)
  BY UnitsFacts
<1> QED BY <1>1, <1>2, <1>3

\* The frames with the child taken from the last one's list.
Advanced(frames, child) ==
  /\ frames \in Seq(Frame) /\ Len(frames) = Len(work)
  /\ \A j \in Frames : /\ frames[j].node = Node(j)
                       /\ frames[j].todo = IF j = Len(work) THEN work[j].todo \ {child}
                                           ELSE work[j].todo

\* What entering a unit comes to, in terms of the invariant.
Entered(node) ==
  /\ Visited' = Visited \cup {node} /\ Done' = Done /\ OnStack' = OnStack \cup {node}
  /\ node \notin Visited /\ node \notin OnStack
  /\ nextIndex < Unset /\ nextIndex' = nextIndex + 1
  /\ index'[node] = nextIndex /\ lowlink'[node] = nextIndex
  /\ \A u \in Units \ {node} : index'[u] = index[u] /\ lowlink'[u] = lowlink[u]
  /\ Len(work) \in Nat
  /\ Len(work') = Len(work) + 1 /\ Frames' = Frames \cup {Len(work) + 1}
  /\ work'[Len(work) + 1].node = node /\ work'[Len(work) + 1].todo = gates[node]
  /\ \A j \in Frames : /\ j # Len(work) + 1 /\ work'[j].node = work[j].node
                       /\ work'[j].todo = IF j = Len(work) THEN work[j].todo \ {node}
                                          ELSE work[j].todo
  /\ stack' = Append(stack, node)
  /\ UNCHANGED <<gates, component, nextComponent>>

\* The step that enters a unit does what Entered says, from Start and from
\* Explore alike.
LEMMA EnterFacts ==
  ASSUME SearchType, Counted, StackInv, NEW node \in Units, index[node] = Unset,
         NEW frames, Advanced(frames, node), Enter(node, frames),
         UNCHANGED <<gates, component, nextComponent>>
  PROVE  SearchType' /\ Entered(node)
<1> USE DEF SearchType
<1>1. Visited \in SUBSET Units /\ node \notin Visited
  BY DEF Visited
<1>2. nextIndex < Unset
  BY <1>1, OneMore, UnitsFacts DEF Counted
<1>3. SearchType'
  <2>1. [node |-> node, todo |-> gates[node]] \in Frame
    BY DEF Frame
  <2>2. work' \in Seq(Frame) /\ stack' \in Seq(Units)
    BY <2>1 DEF Enter, Advanced
  <2> QED BY <2>2 DEF Enter
<1>4. /\ index'[node] = nextIndex /\ lowlink'[node] = nextIndex
      /\ \A u \in Units \ {node} : index'[u] = index[u] /\ lowlink'[u] = lowlink[u]
      /\ nextIndex' = nextIndex + 1
  BY DEF Enter
<1>5. Unset' = Unset
  BY DEF Unset
<1>6. Visited' = Visited \cup {node}
  <2>1. \A u \in Units \ {node} : u \in Visited' <=> u \in Visited
    BY <1>4, <1>5 DEF Visited
  <2>2. node \in Visited'
    BY <1>2, <1>4, <1>5 DEF Visited
  <2>3. Visited' \subseteq Units /\ Visited \subseteq Units
    BY DEF Visited
  <2> QED BY <2>1, <2>2, <2>3
<1>7. OnStack' = OnStack \cup {node}
  BY AppendMembers DEF OnStack, Enter
<1>8. Done' = Done
  BY <1>5 DEF Done
<1>9. /\ Len(work') = Len(work) + 1 /\ Len(work) \in Nat
      /\ work'[Len(work) + 1] = [node |-> node, todo |-> gates[node]]
      /\ \A j \in Frames : work'[j] = frames[j]
  BY DEF Enter, Advanced, Frames
<1>10. Frames' = Frames \cup {Len(work) + 1} /\ \A j \in Frames : j # Len(work) + 1
  BY <1>9 DEF Frames
<1>11. node \notin OnStack
  <2>1. OnStack \subseteq Visited
    BY DEF StackInv
  <2> QED BY <1>1, <2>1
<1>12. work'[Len(work) + 1].node = node /\ work'[Len(work) + 1].todo = gates[node]
  BY <1>9 DEF Node
<1>13. \A j \in Frames : /\ j # Len(work) + 1 /\ Node(j)' = Node(j)
                         /\ work'[j].todo = IF j = Len(work) THEN work[j].todo \ {node}
                                            ELSE work[j].todo
  BY <1>9, <1>10 DEF Node, Advanced
<1>14. stack' = Append(stack, node)
  BY DEF Enter
<1> QED
  BY <1>1, <1>2, <1>3, <1>4, <1>6, <1>7, <1>8, <1>9, <1>10, <1>11, <1>12, <1>13, <1>14 DEF Entered, Node

\* A unit on the stack, or with a component, has been entered.
LEMMA EnteredOnes ==
  ASSUME SearchType, Counted, StackInv
  PROVE  /\ OnStack \subseteq Visited /\ Visited \subseteq Units /\ Done \subseteq Visited
         /\ OnStack \cap Done = {}
         /\ \A u \in Visited : index[u] \in Nat /\ index[u] < nextIndex
         /\ \A i \in 1 .. Len(stack) : stack[i] \in OnStack
<1>1. OnStack = Visited \ Done /\ Done \subseteq Visited
  BY DEF StackInv
<1>2. Visited \subseteq Units
  BY DEF Visited
<1>3. \A u \in Visited : index[u] \in Nat /\ index[u] < nextIndex
  BY <1>2 DEF SearchType, Counted
<1>4. \A i \in 1 .. Len(stack) : stack[i] \in OnStack
  BY StackMembers DEF SearchType, OnStack
<1> QED BY <1>1, <1>2, <1>3, <1>4

\* Entering a unit gives it the next index and the top of the stack.
LEMMA EnterCounts ==
  ASSUME SearchType, Counted, StackInv, NEW node \in Units, Entered(node)
  PROVE  Counted' /\ StackInv'
<1> USE DEF SearchType, Entered
<1>1. Unset' = Unset
  BY DEF Unset
<1>2. Counted'
  <2>0. Visited' = Visited \cup {node} /\ node \notin Visited /\ nextIndex' = nextIndex + 1
    OBVIOUS
  <2>1. nextIndex' = Cardinality(Visited')
    <3>1. Visited \in SUBSET Units /\ node \in Units \ Visited
      BY <2>0, EnteredOnes
    <3>2. Cardinality(Visited \cup {node}) = Cardinality(Visited) + 1
      BY <3>1, OneMore
    <3>3. nextIndex = Cardinality(Visited)
      BY DEF Counted
    <3> QED BY <2>0, <3>2, <3>3
  <2>2. \A u \in Visited' : index'[u] < nextIndex'
    <3>1. \A u \in Visited : u \in Units \ {node} /\ index[u] \in Nat /\ index[u] < nextIndex
      BY <2>0, EnteredOnes
    <3>2. nextIndex \in Nat /\ index'[node] = nextIndex
      OBVIOUS
    <3>3. \A u \in Visited : index'[u] = index[u]
      BY <3>1
    <3> HIDE DEF SearchType, Entered
    <3> QED BY <2>0, <3>1, <3>2, <3>3
  <2>3. nextComponent' <= Cardinality(Done') /\ \A u \in Done' : component'[u] < nextComponent'
    BY DEF Counted
  <2> QED BY <2>1, <2>2, <2>3 DEF Counted
<1>3. OnStack' = Visited' \ Done' /\ Done' \subseteq Visited'
  <2>1. OnStack = Visited \ Done /\ node \notin Done /\ Done \subseteq Visited
    BY EnteredOnes DEF StackInv
  <2> QED BY <2>1
<1>4. ASSUME NEW i \in 1 .. Len(stack'), NEW j \in 1 .. Len(stack'), i < j
      PROVE  index'[stack'[i]] < index'[stack'[j]]
  <2>1. Len(stack') = Len(stack) + 1 /\ Len(stack) \in Nat
    OBVIOUS
  <2>0. i \in 1 .. Len(stack)
    <3> HIDE DEF SearchType, Entered
    <3> QED BY <1>4, <2>1
  <2>2. i \in 1 .. Len(stack) /\ stack'[i] = stack[i]
    BY <2>0, AppendElements
  <2>3. stack[i] \in OnStack /\ stack[i] \in Units \ {node}
    BY <2>2, EnteredOnes
  <2>4. CASE j = Len(stack) + 1
    <3>1. stack'[j] = node
      BY <2>4, AppendElements
    <3>2. index[stack[i]] < nextIndex
      BY <2>3, EnteredOnes
    <3>3. index'[stack[i]] = index[stack[i]] /\ index'[node] = nextIndex
      BY <2>3
    <3> HIDE DEF SearchType, Entered
    <3> QED BY <2>2, <3>1, <3>2, <3>3
  <2>5. CASE j # Len(stack) + 1
    <3>0. j \in 1 .. Len(stack)
      <4> HIDE DEF SearchType, Entered
      <4> QED BY <1>4, <2>1, <2>5
    <3>1. j \in 1 .. Len(stack) /\ stack'[j] = stack[j]
      BY <3>0, AppendElements
    <3>2. stack[j] \in Units \ {node}
      BY <3>1, EnteredOnes
    <3>3. index[stack[i]] < index[stack[j]]
      BY <1>4, <2>2, <3>1 DEF StackInv
    <3>4. index'[stack[i]] = index[stack[i]] /\ index'[stack[j]] = index[stack[j]]
      BY <2>3, <3>2
    <3> HIDE DEF SearchType, Entered
    <3> QED BY <2>2, <3>1, <3>3, <3>4
  <2> QED BY <2>4, <2>5
<1> QED BY <1>2, <1>3, <1>4 DEF StackInv

\* Entering a unit opens a frame for it above the others.
LEMMA EnterFrames ==
  ASSUME SearchType, Counted, StackInv, FrameInv, ExploreInv, NEW node \in Units, Entered(node)
  PROVE  FrameInv' /\ ExploreInv'
<1> USE DEF Node
<1>1. ASSUME NEW j \in Frames PROVE Node(j) \in OnStack /\ Node(j) \in Units \ {node}
  BY EnteredOnes DEF FrameInv, Entered
<1>2. ASSUME NEW j \in Frames'
      PROVE  work'[j].node \in OnStack' /\ work'[j].todo \subseteq gates'[work'[j].node]
  <2>1. CASE j \in Frames
    BY <1>1, <2>1 DEF Entered, FrameInv
  <2>2. CASE j = Len(work) + 1
    BY <2>2 DEF Entered
  <2> QED BY <2>1, <2>2 DEF Entered
<1>3. ASSUME NEW i \in Frames', NEW j \in Frames', i < j
      PROVE  index'[work'[i].node] < index'[work'[j].node]
  <2>1. i \in Frames
    BY <1>3 DEF Entered, Frames
  <2>2. index'[work'[i].node] = index[Node(i)] /\ index[Node(i)] < nextIndex
    BY <1>1, <2>1, EnteredOnes DEF Entered
  <2>3. CASE j \in Frames
    <3>1. index[Node(i)] < index[Node(j)]
      BY <1>3, <2>1, <2>3 DEF FrameInv
    <3>2. work'[j].node = Node(j)
      BY <2>3 DEF Entered
    <3>3. index'[Node(j)] = index[Node(j)]
      BY <1>1, <2>3 DEF Entered
    <3> HIDE DEF Node
    <3> QED BY <2>2, <3>1, <3>2, <3>3
  <2>4. CASE j = Len(work) + 1
    BY <2>2, <2>4 DEF Entered
  <2> QED BY <2>3, <2>4 DEF Entered
<1>4. ASSUME NEW u \in Visited', NEW v \in gates'[u], v \notin Visited'
      PROVE  Untried(u, v)'
  <2>1. CASE u = node
    BY <1>4, <2>1 DEF Entered, Untried
  <2>2. CASE u # node
    <3>1. Untried(u, v) /\ v # node
      BY <1>4, <2>2 DEF Entered, ExploreInv
    <3>2. PICK j \in Frames : Node(j) = u /\ v \in work[j].todo
      BY <3>1 DEF Untried
    <3> QED BY <3>1, <3>2 DEF Entered, Untried
  <2> QED BY <2>1, <2>2
<1>5. \A u \in Done' : \A v \in gates'[u] : v \in Done' /\ component'[v] <= component'[u]
  BY DEF Entered, ExploreInv
<1> QED BY <1>2, <1>3, <1>4, <1>5 DEF FrameInv, ExploreInv

\* Paths along the gates start, and join.
LEMMA GatePaths ==
  ASSUME gates \in [Units -> SUBSET Units]
  PROVE  /\ \A u \in Units : Path(gates, u, u) /\ \A v \in gates[u] : Path(gates, u, v)
         /\ \A u, v, w \in Units : Path(gates, u, v) /\ Path(gates, v, w) => Path(gates, u, w)
  BY UnitsFacts, PathStarts, PathJoins

\* The unit in work that is tried from is reached from every other one.
LEMMA WorkReachesLast ==
  ASSUME SearchType, FrameInv, PathInv, NEW j \in Frames
  PROVE  /\ Len(work) \in Nat /\ Len(work) \in Frames /\ Node(Len(work)) \in OnStack
         /\ Path(gates, Node(j), Node(Len(work)))
<1>1. Len(work) \in Nat /\ Len(work) \in Frames /\ j <= Len(work) /\ j \in Nat
  BY DEF SearchType, Frames
<1>2. Node(Len(work)) \in OnStack /\ Node(j) \in OnStack /\ OnStack \subseteq Units
  BY <1>1, StackMembers DEF FrameInv, SearchType, OnStack
<1>3. index[Node(j)] <= index[Node(Len(work))]
  <2>1. CASE j = Len(work)
    BY <1>2, <2>1 DEF SearchType
  <2>2. CASE j # Len(work)
    <3>1. j < Len(work)
      BY <1>1, <2>2
    <3>2. index[Node(j)] < index[Node(Len(work))]
      BY <1>1, <3>1 DEF FrameInv
    <3> QED BY <1>2, <3>2 DEF SearchType
  <2> QED BY <2>1, <2>2
<1> QED BY <1>1, <1>2, <1>3 DEF PathInv

\* The unit that is entered is reached from every frame, and reaches its own.
LEMMA EnterPaths ==
  ASSUME SearchType, Counted, StackInv, FrameInv, PathInv, NEW node \in Units, Entered(node),
         work # <<>> => node \in gates[Node(Len(work))]
  PROVE  PathInv'
<1>1. gates \in [Units -> SUBSET Units] /\ gates' = gates
  BY DEF SearchType, Entered
<1>2. ASSUME NEW j \in Frames PROVE Node(j) \in OnStack /\ Node(j) \in Units \ {node}
  BY EnteredOnes DEF FrameInv, Entered
<1>3. ASSUME NEW j \in Frames', NEW u \in OnStack', index'[work'[j].node] <= index'[u]
      PROVE  Path(gates, work'[j].node, u)
  <2>1. CASE j \in Frames /\ u # node
    <3>1. work'[j].node = Node(j) /\ u \in OnStack /\ index[Node(j)] <= index[u]
      <4>1. work'[j].node = Node(j)
        BY <2>1 DEF Entered, Node
      <4>2. u \in OnStack
        BY <1>3, <2>1 DEF Entered
      <4>3. u \in Units \ {node}
        BY <2>1, <4>2, EnteredOnes
      <4>4. index'[Node(j)] = index[Node(j)] /\ index'[u] = index[u]
        BY <1>2, <2>1, <4>3 DEF Entered
      <4> QED BY <1>3, <4>1, <4>2, <4>4
    <3> QED BY <2>1, <3>1 DEF PathInv
  <2>2. CASE j \in Frames /\ u = node
    <3>1. work # <<>> /\ work'[j].node = Node(j)
      <4>1. Frames # {}
        BY <2>2
      <4>2. work # <<>>
        BY <4>1 DEF Frames
      <4> QED BY <2>2, <4>2 DEF Entered, Node
    <3>2. Path(gates, Node(j), Node(Len(work))) /\ Node(Len(work)) \in Units
      BY <2>2, WorkReachesLast, EnteredOnes
    <3>3. Path(gates, Node(Len(work)), u)
      BY <1>1, <2>2, <3>1, <3>2, GatePaths
    <3> QED BY <1>1, <1>2, <2>2, <3>1, <3>2, <3>3, GatePaths
  <2>3. CASE j = Len(work) + 1
    <3>1. work'[j].node = node /\ index'[work'[j].node] = nextIndex
      BY <2>3 DEF Entered
    <3>2. u = node
      <4> SUFFICES ASSUME u # node PROVE FALSE
        OBVIOUS
      <4>1. u \in OnStack /\ index'[u] = index[u] /\ index[u] < nextIndex /\ index[u] \in Nat
        BY EnteredOnes DEF Entered
      <4> QED BY <1>3, <3>1, <4>1 DEF SearchType
    <3> QED BY <1>1, <3>1, <3>2, GatePaths
  <2> QED BY <2>1, <2>2, <2>3 DEF Entered
<1>4. ASSUME NEW u \in OnStack'
      PROVE  \E j \in Frames' : index'[work'[j].node] <= index'[u] /\ Path(gates, u, work'[j].node)
  <2>1. CASE u = node
    <3>1. Len(work) + 1 \in Frames' /\ work'[Len(work) + 1].node = u /\ index'[u] = nextIndex
      BY <2>1 DEF Entered
    <3>2. Path(gates, u, work'[Len(work) + 1].node)
      BY <1>1, <2>1, <3>1, GatePaths
    <3>3. index'[work'[Len(work) + 1].node] <= index'[u]
      BY <3>1 DEF SearchType
    <3> QED BY <3>1, <3>2, <3>3
  <2>2. CASE u # node
    <3>1. u \in OnStack /\ u \in Units \ {node}
      BY <2>2, EnteredOnes DEF Entered
    <3>2. PICK j \in Frames : index[Node(j)] <= index[u] /\ Path(gates, u, Node(j))
      BY <3>1 DEF PathInv
    <3>3. j \in Frames' /\ work'[j].node = Node(j)
      BY DEF Entered, Node
    <3> QED BY <1>2, <3>1, <3>2, <3>3 DEF Entered
  <2> QED BY <2>1, <2>2
<1> QED BY <1>1, <1>3, <1>4 DEF PathInv, Node

\* Entering a unit starts a segment of its own, with its index for a low link.
LEMMA EnterLow ==
  ASSUME SearchType, Counted, StackInv, FrameInv, LowInv, NEW node \in Units, Entered(node)
  PROVE  LowInv' /\ (ComponentInv => ComponentInv')
<1>1. gates \in [Units -> SUBSET Units] /\ gates' = gates
  BY DEF SearchType, Entered
<1>2. ASSUME NEW j \in Frames
      PROVE  /\ Node(j) \in OnStack /\ Node(j) \in Units \ {node} /\ Node(j)' = Node(j)
             /\ index[Node(j)] \in Nat /\ index[Node(j)] < nextIndex
             /\ index'[Node(j)] = index[Node(j)] /\ lowlink'[Node(j)] = lowlink[Node(j)]
             /\ lowlink[Node(j)] \in Nat /\ lowlink[Node(j)] < nextIndex
  <2>1. Node(j) \in OnStack /\ Node(j) \in Units \ {node} /\ Node(j)' = Node(j)
    BY EnteredOnes DEF FrameInv, Entered, Node
  <2>2. index[Node(j)] \in Nat /\ index[Node(j)] < nextIndex /\ lowlink[Node(j)] \in Nat
    BY <2>1, EnteredOnes DEF SearchType
  <2>3. lowlink[Node(j)] <= index[Node(j)]
    BY DEF LowInv
  <2> QED BY <2>1, <2>2, <2>3 DEF Entered, SearchType
<1>3. \A u \in OnStack : u \in Units \ {node} /\ index[u] < nextIndex /\ index[u] \in Nat
                         /\ index'[u] = index[u]
  BY EnteredOnes DEF Entered
<1>4. ASSUME NEW u, NEW v \in Units \ {node}, Untried(u, v) PROVE Untried(u, v)'
  <2>1. PICK j \in Frames : Node(j) = u /\ v \in work[j].todo
    BY <1>4 DEF Untried
  <2>2. j \in Frames' /\ Node(j)' = u /\ v \in work'[j].todo
    BY <1>2, <2>1 DEF Entered
  <2> QED BY <2>2 DEF Untried
<1>5. ASSUME NEW j \in Frames
      PROVE  /\ lowlink'[Node(j)'] <= index'[Node(j)']
             /\ \E u \in OnStack' : lowlink'[Node(j)'] = index'[u] /\ Path(gates, Node(j)', u)
             /\ \A u \in Segment(j)' : \A v \in gates[u] \cap OnStack' :
                  ~ Untried(u, v)' => lowlink'[Node(j)'] <= index'[v]
  <2>1. lowlink[Node(j)] <= index[Node(j)]
    BY DEF LowInv
  <2>2. PICK w \in OnStack : lowlink[Node(j)] = index[w] /\ Path(gates, Node(j), w)
    BY DEF LowInv
  <2>3. ASSUME NEW u \in Segment(j)' PROVE u \in Segment(j)
    <3>1. j \in Nat /\ Len(work) \in Nat /\ j <= Len(work) /\ Len(work') = Len(work) + 1
      BY DEF Frames, Entered
    <3>2. index'[u] < index'[Node(j + 1)'] /\ u \in OnStack' /\ index'[Node(j)'] <= index'[u]
      BY <3>1 DEF Segment
    <3>3. CASE j = Len(work)
      <4>1. Node(j + 1)' = node /\ index'[node] = nextIndex
        BY <3>3 DEF Node, Entered
      <4>2. u # node
        BY <3>2, <4>1 DEF SearchType
      <4>3. u \in OnStack
        BY <3>2, <4>2 DEF Entered
      <4> QED BY <1>2, <1>3, <3>1, <3>2, <3>3, <4>3 DEF Segment
    <3>4. CASE j # Len(work)
      <4>1. j + 1 \in Frames /\ j < Len(work)
        BY <3>1, <3>4 DEF Frames
      <4>2. /\ Node(j + 1)' = Node(j + 1) /\ index'[Node(j + 1)] = index[Node(j + 1)]
            /\ index[Node(j + 1)] < nextIndex /\ index[Node(j + 1)] \in Nat
        BY <1>2, <4>1
      <4>3. u # node
        BY <3>2, <4>2 DEF Entered, SearchType
      <4>4. u \in OnStack
        BY <3>2, <4>3 DEF Entered
      <4> QED BY <1>2, <1>3, <3>2, <4>1, <4>2, <4>4 DEF Segment
    <3> QED BY <3>3, <3>4
  <2>4. ASSUME NEW u \in Segment(j)', NEW v \in gates[u] \cap OnStack', ~ Untried(u, v)'
        PROVE  lowlink'[Node(j)'] <= index'[v]
    <3>1. CASE v = node
      BY <1>2, <3>1 DEF Entered, SearchType
    <3>2. CASE v # node
      <4>1. v \in OnStack /\ v \in Units \ {node}
        BY <2>4, <3>2, EnteredOnes DEF Entered
      <4>2. ~ Untried(u, v)
        BY <1>4, <2>4, <4>1
      <4>3. lowlink[Node(j)] <= index[v]
        BY <2>3, <2>4, <4>1, <4>2 DEF LowInv
      <4> QED BY <1>2, <1>3, <4>1, <4>3
    <3> QED BY <3>1, <3>2
  <2>5. lowlink'[Node(j)'] = index'[w] /\ Path(gates, Node(j)', w) /\ w \in OnStack'
    BY <1>2, <1>3, <2>2 DEF Entered
  <2>6. lowlink'[Node(j)'] <= index'[Node(j)']
    BY <1>2, <2>1
  <2> QED BY <2>4, <2>5, <2>6
<1>6. ASSUME NEW j \in Nat, j = Len(work) + 1
      PROVE  /\ lowlink'[Node(j)'] <= index'[Node(j)']
             /\ \E u \in OnStack' : lowlink'[Node(j)'] = index'[u] /\ Path(gates, Node(j)', u)
             /\ \A u \in Segment(j)' : \A v \in gates[u] \cap OnStack' :
                  ~ Untried(u, v)' => lowlink'[Node(j)'] <= index'[v]
  <2>1. work'[j].node = node /\ lowlink'[node] = nextIndex /\ index'[node] = nextIndex
        /\ nextIndex \in Nat /\ node \in OnStack'
    BY <1>6 DEF Entered, SearchType
  <2>2. ASSUME NEW u \in Segment(j)', NEW v \in gates[u] PROVE Untried(u, v)'
    <3>1. u \in OnStack' /\ nextIndex <= index'[u]
      BY <2>1 DEF Segment, Node
    <3>2. u = node
      BY <1>3, <3>1 DEF Entered, SearchType
    <3>3. j \in Frames' /\ work'[j].todo = gates[node]
      BY <1>6 DEF Entered
    <3> QED BY <2>1, <2>2, <3>2, <3>3 DEF Untried, Node
  <2> QED BY <1>1, <2>1, <2>2, GatePaths DEF Node
<1>7. LowInv'
  <2>1. Frames' = Frames \cup {Len(work) + 1}
    BY DEF Entered
  <2>2. Len(work) + 1 \in Nat
    BY DEF Entered
  <2>3. ASSUME NEW j \in Frames'
        PROVE  /\ lowlink'[Node(j)'] <= index'[Node(j)']
               /\ \E u \in OnStack' : lowlink'[Node(j)'] = index'[u] /\ Path(gates, Node(j)', u)
               /\ \A u \in Segment(j)' : \A v \in gates[u] \cap OnStack' :
                    ~ Untried(u, v)' => lowlink'[Node(j)'] <= index'[v]
    <3>1. CASE j \in Frames
      BY <1>5, <3>1
    <3>2. CASE j = Len(work) + 1
      BY <1>6, <2>2, <3>2
    <3> QED BY <2>1, <3>1, <3>2
  <2> QED BY <1>1, <2>3 DEF LowInv
<1>8. ComponentInv => ComponentInv'
  BY DEF ComponentInv, Entered
<1> QED BY <1>7, <1>8

-----------------------------------------------------------------------------
(* Trying a gate that has been entered already. *)

\* The lesser of two numbers.
LEMMA MinOfTwo ==
  ASSUME NEW a \in Nat, NEW b \in Nat
  PROVE  Min({a, b}) = IF a <= b THEN a ELSE b
<1> DEFINE least == IF a <= b THEN a ELSE b
<1>1. least \in {a, b} /\ \A y \in {a, b} : least <= y
  OBVIOUS
<1>2. Min({a, b}) \in {a, b} /\ \A y \in {a, b} : Min({a, b}) <= y
  BY <1>1 DEF Min
<1> QED BY <1>2

\* What it comes to.
Tried(child) ==
  /\ work # <<>> /\ child \in Visited /\ child \in gates[Node(Len(work))]
  /\ Advanced(work', child)
  /\ IF child \in OnStack
     THEN /\ lowlink'[Node(Len(work))] = IF lowlink[Node(Len(work))] <= index[child]
                                         THEN lowlink[Node(Len(work))] ELSE index[child]
          /\ \A u \in Units \ {Node(Len(work))} : lowlink'[u] = lowlink[u]
     ELSE lowlink' = lowlink
  /\ UNCHANGED <<gates, component, nextComponent, index, nextIndex, stack>>

\* The frames of a step that explores.
LEMMA ExploreFacts ==
  ASSUME SearchType, NEW child \in Units, child \in Top.todo, work # <<>>
  PROVE  Advanced(Append(AllButTop, [Top EXCEPT !.todo = @ \ {child}]), child)
<1>1. work \in Seq(Frame) /\ work # <<>>
  BY DEF SearchType
<1>2. /\ Len(work) \in Nat /\ Len(work) >= 1 /\ Top = work[Len(work)] /\ Top \in Frame
      /\ AllButTop \in Seq(Frame) /\ Len(AllButTop) = Len(work) - 1
      /\ \A i \in 1 .. Len(work) - 1 : AllButTop[i] = work[i]
  BY <1>1, LastAndFront DEF Top, AllButTop
<1> DEFINE top == [Top EXCEPT !.todo = @ \ {child}]
           frames == Append(AllButTop, top)
<1>3. top \in Frame /\ top.node = Top.node /\ top.todo = Top.todo \ {child}
  BY <1>2 DEF Frame
<1>4. frames \in Seq(Frame)
  BY <1>2, <1>3
<1>5. Len(frames) = Len(work) /\ frames[Len(work)] = top
      /\ \A i \in 1 .. Len(work) - 1 : frames[i] = work[i]
  <2> HIDE DEF top
  <2> QED BY <1>2, <1>3
<1>6. \A j \in Frames : j = Len(work) \/ j \in 1 .. Len(work) - 1
  BY <1>2 DEF Frames
<1> HIDE DEF top, frames
<1>7. ASSUME NEW j \in Frames
      PROVE  /\ frames[j].node = Node(j)
             /\ frames[j].todo = IF j = Len(work) THEN work[j].todo \ {child} ELSE work[j].todo
  <2>1. CASE j = Len(work)
    BY <1>2, <1>3, <1>5, <2>1 DEF Node
  <2>2. CASE j \in 1 .. Len(work) - 1
    <3>1. j # Len(work)
      BY <1>2, <2>2
    <3> QED BY <1>5, <2>2, <3>1 DEF Node
  <2> QED BY <1>6, <2>1, <2>2
<1> QED BY <1>4, <1>5, <1>7 DEF Advanced, frames, top


\* Trying a gate that was entered before does what Tried says.
LEMMA TryFacts ==
  ASSUME SearchType, Counted, StackInv, FrameInv, NEW child \in Units, Explore(child),
         index[child] # Unset
  PROVE  SearchType' /\ Tried(child)
<1> DEFINE frames == Append(AllButTop, [Top EXCEPT !.todo = @ \ {child}])
<1>1. /\ work # <<>> /\ child \in Top.todo /\ work' = frames
      /\ lowlink' = IF child \in Seqs!ToSet(stack)
                    THEN Lower(lowlink, Top.node, index[child]) ELSE lowlink
      /\ UNCHANGED <<index, nextIndex, stack, gates, component, nextComponent>>
  BY DEF Explore
<1>2. Advanced(frames, child)
  BY <1>1, ExploreFacts
<1> HIDE DEF frames
<1>3. Len(work) \in Frames /\ Top = work[Len(work)] /\ Top.node = Node(Len(work))
  BY <1>1, LastAndFront DEF SearchType, Frames, Top, Node
<1>4. /\ Node(Len(work)) \in OnStack /\ child \in gates[Node(Len(work))]
  BY <1>1, <1>3 DEF FrameInv
<1>5. Node(Len(work)) \in Units /\ lowlink[Node(Len(work))] \in Nat /\ index[child] \in Nat
  BY <1>4, EnteredOnes DEF SearchType
<1>6. Lower(lowlink, Top.node, index[child])
        = [lowlink EXCEPT ![Node(Len(work))] = IF @ <= index[child] THEN @ ELSE index[child]]
  BY <1>3, <1>5, MinOfTwo DEF Lower
<1>7. lowlink' \in [Units -> Nat]
  BY <1>1, <1>5, <1>6 DEF SearchType
<1>8. SearchType'
  BY <1>1, <1>2, <1>7 DEF SearchType, Advanced, Frame
<1>9. Tried(child)
  <2>1. child \in Visited
    BY DEF Visited
  <2>2. IF child \in OnStack
        THEN /\ lowlink'[Node(Len(work))] = IF lowlink[Node(Len(work))] <= index[child]
                                            THEN lowlink[Node(Len(work))] ELSE index[child]
             /\ \A u \in Units \ {Node(Len(work))} : lowlink'[u] = lowlink[u]
        ELSE lowlink' = lowlink
    BY <1>1, <1>5, <1>6 DEF OnStack, SearchType
  <2> QED BY <1>1, <1>2, <1>4, <2>1, <2>2 DEF Tried
<1> QED BY <1>8, <1>9

\* Trying a gate that was entered before keeps the invariant: it lowers the low
\* link to an index on the stack and no further.
LEMMA TryKeeps ==
  ASSUME WalkInv, NEW child \in Units, Tried(child)
  PROVE  /\ Counted' /\ StackInv' /\ FrameInv' /\ ExploreInv' /\ PathInv' /\ LowInv'
         /\ ComponentInv'
<1> USE DEF WalkInv
<1> DEFINE last == Len(work)
<1>1. UNCHANGED <<gates, component, nextComponent, index, nextIndex, stack>>
  BY DEF Tried
<1>2. /\ Unset' = Unset /\ Visited' = Visited /\ Done' = Done /\ OnStack' = OnStack
  BY <1>1 DEF Unset, Visited, Done, OnStack
<1>3. /\ last \in Frames /\ Len(work') = Len(work) /\ Frames' = Frames /\ last \in Nat
      /\ \A j \in Frames : j \in Nat /\ j <= last
  BY DEF Tried, Advanced, Frames, SearchType
<1>4. ASSUME NEW j \in Frames
      PROVE  /\ Node(j)' = Node(j)
             /\ work'[j].todo = IF j = last THEN work[j].todo \ {child} ELSE work[j].todo
             /\ Node(j) \in OnStack /\ Node(j) \in Units
             /\ j # last => index[Node(j)] < index[Node(last)] /\ Node(j) # Node(last)
  <2>1. Node(j) \in OnStack /\ Node(j) \in Units
    BY EnteredOnes DEF FrameInv
  <2>2. j # last => index[Node(j)] < index[Node(last)]
    BY <1>3 DEF FrameInv
  <2>3. index[Node(j)] \in Nat
    BY <2>1 DEF SearchType
  <2>4. /\ work'[j].node = Node(j)
        /\ work'[j].todo = IF j = last THEN work[j].todo \ {child} ELSE work[j].todo
    BY DEF Tried, Advanced
  <2>5. j # last => Node(j) # Node(last)
    BY <2>2, <2>3
  <2>6. Node(j)' = Node(j)
    BY <2>4 DEF Node
  <2> QED BY <2>1, <2>2, <2>4, <2>5, <2>6
<1>5. ASSUME NEW u, NEW v, Untried(u, v), ~ Untried(u, v)' PROVE u = Node(last) /\ v = child
  <2>1. PICK j \in Frames : Node(j) = u /\ v \in work[j].todo
    BY <1>5 DEF Untried
  <2>2. Node(j)' = u /\ j \in Frames' /\ v \notin work'[j].todo
    BY <1>3, <1>4, <1>5, <2>1 DEF Untried, Node
  <2> QED BY <1>4, <2>1, <2>2
<1>6. Counted' /\ StackInv'
  BY <1>1, <1>2 DEF Counted, StackInv
<1>7. FrameInv'
  <2>1. \A j \in Frames : Node(j)' \in OnStack' /\ work'[j].todo \subseteq gates'[Node(j)']
    BY <1>1, <1>2, <1>4 DEF FrameInv
  <2>2. \A i, j \in Frames : i < j => index'[Node(i)'] < index'[Node(j)']
    BY <1>1, <1>4 DEF FrameInv
  <2> QED BY <1>3, <2>1, <2>2 DEF FrameInv, Node
<1>8. ExploreInv'
  <2>1. \A u \in Visited : \A v \in gates[u] : v \in Visited \/ Untried(u, v)'
    BY <1>5 DEF ExploreInv, Tried
  <2> QED BY <1>1, <1>2, <2>1 DEF ExploreInv
<1>9. PathInv'
  <2>1. \A j \in Frames : \A u \in OnStack :
          index[Node(j)'] <= index[u] => Path(gates, Node(j)', u)
    BY <1>4 DEF PathInv
  <2>2. \A u \in OnStack : \E j \in Frames :
          index[Node(j)'] <= index[u] /\ Path(gates, u, Node(j)')
    BY <1>4 DEF PathInv
  <2> QED BY <1>1, <1>2, <1>3, <2>1, <2>2 DEF PathInv, Node
<1>10. ASSUME NEW j \in Frames PROVE Segment(j)' = Segment(j)
  <2>1. j < last => j + 1 \in Frames /\ Node(j + 1)' = Node(j + 1)
    <3>1. j < last => j + 1 \in Frames
      BY <1>3 DEF Frames
    <3> QED BY <1>4, <3>1
  <2> QED BY <1>1, <1>2, <1>3, <1>4, <2>1 DEF Segment
<1>11. ASSUME NEW j \in Frames
       PROVE  /\ lowlink'[Node(j)] <= index[Node(j)]
              /\ \E u \in OnStack : lowlink'[Node(j)] = index[u] /\ Path(gates, Node(j), u)
              /\ \A u \in Segment(j) : \A v \in gates[u] \cap OnStack :
                   ~ Untried(u, v)' => lowlink'[Node(j)] <= index[v]
  <2>0. /\ lowlink[Node(j)] <= index[Node(j)]
        /\ \E u \in OnStack : lowlink[Node(j)] = index[u] /\ Path(gates, Node(j), u)
        /\ \A u \in Segment(j) : \A v \in gates[u] \cap OnStack :
             ~ Untried(u, v) => lowlink[Node(j)] <= index[v]
    BY DEF LowInv
  <2>1. CASE j # last
    <3>1. lowlink'[Node(j)] = lowlink[Node(j)]
      BY <1>4, <2>1 DEF Tried
    <3>2. ASSUME NEW u \in Segment(j), NEW v, Untried(u, v) PROVE Untried(u, v)'
      <4>1. j < last /\ j + 1 \in Frames
        BY <1>3, <2>1 DEF Frames
      <4>2. index[u] < index[Node(j + 1)] /\ index[u] \in Nat
        BY <4>1, EnteredOnes DEF Segment
      <4>3. index[Node(j + 1)] <= index[Node(last)] /\ index[Node(j + 1)] \in Nat
            /\ index[Node(last)] \in Nat
        <5>1. Node(j + 1) \in Units /\ Node(last) \in Units
          BY <1>3, <1>4, <4>1
        <5>2. index[Node(j + 1)] \in Nat /\ index[Node(last)] \in Nat
          BY <5>1 DEF SearchType
        <5>3. j + 1 # last => index[Node(j + 1)] < index[Node(last)]
          BY <1>4, <4>1
        <5> QED BY <5>2, <5>3
      <4>4. u # Node(last)
        BY <4>2, <4>3
      <4> QED BY <1>5, <3>2, <4>4
    <3> QED BY <2>0, <3>1, <3>2
  <2>2. CASE j = last
    <3>1. /\ index[child] \in Nat /\ lowlink[Node(j)] \in Nat /\ index[Node(j)] \in Nat
          /\ \A v \in OnStack : index[v] \in Nat
      BY <1>4, EnteredOnes DEF SearchType
    <3>2. child \in gates[Node(j)] /\ Path(gates, Node(j), child)
      BY <1>4, <2>2, GatePaths DEF Tried, SearchType
    <3>3. ASSUME NEW u \in Segment(j), NEW v \in gates[u] \cap OnStack, ~ Untried(u, v)'
          PROVE  lowlink'[Node(j)] <= index[v]
      <4>1. CASE ~ Untried(u, v)
        <5>1. lowlink[Node(j)] <= index[v]
          BY <2>0, <3>3, <4>1
        <5> QED BY <2>2, <3>1, <5>1 DEF Tried
      <4>2. CASE Untried(u, v)
        <5>1. v = child
          BY <1>5, <3>3, <4>2
        <5> QED BY <2>2, <3>1, <5>1 DEF Tried
      <4> QED BY <4>1, <4>2
    <3>4. \E u \in OnStack : lowlink'[Node(j)] = index[u] /\ Path(gates, Node(j), u)
      BY <2>0, <2>2, <3>2 DEF Tried
    <3>5. lowlink'[Node(j)] <= index[Node(j)]
      BY <2>0, <2>2, <3>1 DEF Tried
    <3> QED BY <3>3, <3>4, <3>5
  <2> QED BY <2>1, <2>2
<1>12. LowInv'
  <2>1. \A j \in Frames : Segment(j)' = Segment(j) /\ Node(j)' = Node(j)
    BY <1>4, <1>10
  <2> QED BY <1>1, <1>2, <1>3, <1>11, <2>1 DEF LowInv
<1>13. ComponentInv'
  BY <1>1, <1>2 DEF ComponentInv
<1> QED BY <1>6, <1>7, <1>8, <1>9, <1>12, <1>13

-----------------------------------------------------------------------------
(* Finishing a unit. *)

\* What is popped for a root are the units on the stack from it upwards.
LEMMA PopFacts ==
  ASSUME SearchType, Counted, StackInv, NEW node \in OnStack, PopComponent(node)
  PROVE  /\ OnStack' = {u \in OnStack : index[u] < index[node]}
         /\ \A u \in Units : component'[u] = IF u \in OnStack /\ index[node] <= index[u]
                                             THEN nextComponent ELSE component[u]
         /\ component' \in [Units -> Nat] /\ stack' \in Seq(Units)
         /\ \A i, j \in 1 .. Len(stack') : i < j => index[stack'[i]] < index[stack'[j]]
<1>1. PICK root \in 1 .. Len(stack) : stack[root] = node
  BY StackMembers DEF SearchType, OnStack
<1>2. /\ stack \in Seq(Units) /\ Len(stack) \in Nat /\ root \in Nat /\ root >= 1
      /\ DOMAIN stack = 1 .. Len(stack)
  BY <1>1 DEF SearchType
<1>3. \A i \in 1 .. Len(stack) : stack[i] \in OnStack /\ index[stack[i]] \in Nat
  BY EnteredOnes
<1>4. ASSUME NEW i \in 1 .. Len(stack)
      PROVE  /\ i < root => index[stack[i]] < index[node]
             /\ root <= i => index[node] <= index[stack[i]]
             /\ stack[i] = node => i = root
  <2>1. i < root => index[stack[i]] < index[node]
    BY <1>1 DEF StackInv
  <2>2. root < i => index[node] < index[stack[i]]
    BY <1>1 DEF StackInv
  <2>3. index[node] \in Nat /\ index[stack[i]] \in Nat
    BY <1>1, <1>3
  <2> QED BY <1>1, <1>2, <2>1, <2>2, <2>3
<1>5. Seqs!SelectInSeq(stack, LAMBDA v : v = node) = root
  <2>1. {i \in 1 .. Len(stack) : stack[i] = node} = {root}
    BY <1>1, <1>4
  <2>2. Seqs!Min({root}) = root
    <3>1. \A y \in {root} : root <= y
      BY <1>2
    <3> QED BY <3>1 DEF Seqs!Min
  <2> QED BY <2>1, <2>2 DEF Seqs!SelectInSeq
<1> DEFINE upper == SubSeq(stack, root, Len(stack))
<1>6. Seqs!ToSet(upper) = {stack[i] : i \in root .. Len(stack)}
  <2>1. Len(upper) = Len(stack) - root + 1 /\ DOMAIN upper = 1 .. Len(stack) - root + 1
    BY <1>1, <1>2
  <2>2. \A i \in 1 .. Len(stack) - root + 1 : upper[i] = stack[root + i - 1]
    BY <1>1, <1>2
  <2>3. \A i \in root .. Len(stack) :
          i - root + 1 \in 1 .. Len(stack) - root + 1 /\ root + (i - root + 1) - 1 = i
    BY <1>2
  <2>4. \A i \in 1 .. Len(stack) - root + 1 : root + i - 1 \in root .. Len(stack)
    BY <1>2
  <2> HIDE DEF upper
  <2>5. Seqs!ToSet(upper) = {upper[i] : i \in 1 .. Len(stack) - root + 1}
    BY <2>1 DEF Seqs!ToSet
  <2>6. ASSUME NEW i \in root .. Len(stack)
        PROVE  stack[i] \in {upper[k] : k \in 1 .. Len(stack) - root + 1}
    BY <2>2, <2>3
  <2>7. ASSUME NEW i \in 1 .. Len(stack) - root + 1
        PROVE  upper[i] \in {stack[k] : k \in root .. Len(stack)}
    BY <2>2, <2>4
  <2> QED BY <2>5, <2>6, <2>7
<1> HIDE DEF upper
<1>7. ASSUME NEW u PROVE u \in Seqs!ToSet(upper) <=> u \in OnStack /\ index[node] <= index[u]
  <2>1. ASSUME u \in OnStack, index[node] <= index[u] PROVE u \in Seqs!ToSet(upper)
    <3>1. PICK i \in 1 .. Len(stack) : stack[i] = u
      BY <2>1, <1>2, StackMembers DEF OnStack
    <3>2. ~ (i < root)
      BY <1>1, <1>3, <1>4, <2>1, <3>1
    <3>3. i \in root .. Len(stack)
      BY <1>2, <3>1, <3>2
    <3> QED BY <1>6, <3>1, <3>3
  <2>2. ASSUME u \in Seqs!ToSet(upper) PROVE u \in OnStack /\ index[node] <= index[u]
    <3>1. PICK i \in root .. Len(stack) : u = stack[i]
      BY <1>6, <2>2
    <3>2. i \in 1 .. Len(stack) /\ root <= i
      BY <1>2, <3>1
    <3> QED BY <1>3, <1>4, <3>1, <3>2
  <2> QED BY <2>1, <2>2
<1>8. component' = [u \in Units |-> IF u \in Seqs!ToSet(upper) THEN nextComponent ELSE component[u]]
  BY <1>5 DEF PopComponent, upper
<1>9. /\ \A u \in Units : component'[u] = IF u \in OnStack /\ index[node] <= index[u]
                                          THEN nextComponent ELSE component[u]
      /\ component' \in [Units -> Nat]
  <2>1. \A u \in Units : component[u] \in Nat /\ nextComponent \in Nat
    BY DEF SearchType
  <2>2. \A u \in Units :
          component'[u] = IF u \in Seqs!ToSet(upper) THEN nextComponent ELSE component[u]
    BY <1>8
  <2>3. component' \in [Units -> Nat]
    BY <1>8, <2>1
  <2>4. ASSUME NEW u \in Units
        PROVE  component'[u] = IF u \in OnStack /\ index[node] <= index[u]
                               THEN nextComponent ELSE component[u]
    <3>1. u \in Seqs!ToSet(upper) <=> u \in OnStack /\ index[node] <= index[u]
      BY <1>7
    <3> QED BY <2>2, <3>1
  <2> QED BY <2>3, <2>4
<1>10. /\ stack' = SubSeq(stack, 1, root - 1) /\ root - 1 \in Nat /\ root - 1 <= Len(stack)
  <2>1. stack' = SubSeq(stack, 1, root - 1)
    BY <1>5 DEF PopComponent
  <2>2. root - 1 \in Nat /\ root - 1 <= Len(stack)
    BY <1>1, <1>2
  <2> QED BY <2>1, <2>2
<1>11. /\ stack' \in Seq(Units) /\ Len(stack') = root - 1
       /\ \A i \in 1 .. root - 1 : stack'[i] = stack[i]
  BY <1>2, <1>10, PrefixFacts
<1>12. \A i \in 1 .. root - 1 : i \in 1 .. Len(stack) /\ i < root
  BY <1>1, <1>2
<1>13. ASSUME NEW i \in 1 .. Len(stack'), NEW j \in 1 .. Len(stack'), i < j
       PROVE  index[stack'[i]] < index[stack'[j]]
  BY <1>11, <1>12, <1>13 DEF StackInv
<1>14. OnStack' = {u \in OnStack : index[u] < index[node]}
  <2>1. ASSUME NEW u \in OnStack' PROVE u \in OnStack /\ index[u] < index[node]
    <3>1. PICK i \in 1 .. Len(stack') : stack'[i] = u
      BY <1>11, StackMembers DEF OnStack
    <3> QED BY <1>3, <1>4, <1>11, <1>12, <3>1
  <2>2. ASSUME NEW u \in OnStack, index[u] < index[node] PROVE u \in OnStack'
    <3>1. PICK i \in 1 .. Len(stack) : stack[i] = u
      BY <1>2, StackMembers DEF OnStack
    <3>2. i < root
      BY <1>1, <1>2, <1>3, <1>4, <2>2, <3>1
    <3>3. i \in 1 .. Len(stack') /\ stack'[i] = u
      BY <1>2, <1>11, <3>1, <3>2
    <3> QED BY <1>11, <3>3, StackMembers DEF OnStack
  <2> QED BY <2>1, <2>2
<1> QED BY <1>9, <1>11, <1>13, <1>14


\* The last frame is gone, and its low link went to the one below.
Retired ==
  LET n == Len(work) IN
  /\ n \in Nat /\ n >= 1 /\ n \in Frames /\ work[n].todo = {}
  /\ Len(work') = n - 1 /\ Frames' = Frames \ {n}
  /\ \A j \in Frames : j \in Nat /\ j <= n
  /\ \A j \in Frames \ {n} : work'[j] = work[j]
  /\ n = 1 => lowlink' = lowlink
  /\ n # 1 => /\ n - 1 \in Frames
              /\ \A u \in Units \ {Node(n - 1)} : lowlink'[u] = lowlink[u]
              /\ lowlink'[Node(n - 1)] = IF lowlink[Node(n - 1)] <= lowlink[Node(n)]
                                         THEN lowlink[Node(n - 1)] ELSE lowlink[Node(n)]
  /\ UNCHANGED <<gates, index, nextIndex>>

Root == lowlink[Node(Len(work))] = index[Node(Len(work))]

\* Finish retires the top frame and pops a component when the frame is its root.
LEMMA FinishFacts ==
  ASSUME SearchType, Counted, StackInv, FrameInv, Finish
  PROVE  /\ SearchType' /\ Retired
         /\ Root => PopComponent(Node(Len(work))) /\ nextComponent' = nextComponent + 1
         /\ ~ Root => UNCHANGED <<component, stack, nextComponent>>
<1> DEFINE n == Len(work)
<1>1. work \in Seq(Frame) /\ work # <<>>
  BY DEF SearchType, Finish
<1>2. /\ n \in Nat /\ n >= 1 /\ Top = work[n] /\ Top \in Frame
      /\ AllButTop \in Seq(Frame) /\ Len(AllButTop) = n - 1
      /\ \A i \in 1 .. n - 1 : AllButTop[i] = work[i]
      /\ AllButTop = <<>> <=> n = 1
  BY <1>1, LastAndFront DEF Top, AllButTop
<1>3. /\ Top.todo = {} /\ work' = AllButTop /\ Top.node = Node(n)
      /\ UNCHANGED <<gates, index, nextIndex>>
  BY <1>2 DEF Finish, Node
<1>4. \A j \in Frames : j \in Nat /\ j <= n /\ Node(j) \in OnStack /\ Node(j) \in Units
  BY <1>2, EnteredOnes DEF FrameInv, Frames
<1>5. n \in Frames /\ (n # 1 => n - 1 \in Frames) /\ Frames' = 1 .. n - 1
  BY <1>2, <1>3 DEF Frames
<1>6. \A j \in Frames \ {n} : work'[j] = work[j]
  BY <1>2, <1>3 DEF Frames
<1>7. Frames' = Frames \ {n}
  BY <1>2, <1>5 DEF Frames
<1>8. n = 1 => lowlink' = lowlink
  BY <1>2 DEF Finish
<1>9. ASSUME n # 1
      PROVE  /\ \A u \in Units \ {Node(n - 1)} : lowlink'[u] = lowlink[u]
             /\ lowlink'[Node(n - 1)] = IF lowlink[Node(n - 1)] <= lowlink[Node(n)]
                                        THEN lowlink[Node(n - 1)] ELSE lowlink[Node(n)]
             /\ lowlink' \in [Units -> Nat]
  <2>1. AllButTop # <<>> /\ Seqs!Last(AllButTop) = work[n - 1]
    <3>1. AllButTop # <<>> /\ n - 1 \in 1 .. n - 1
      BY <1>2, <1>9
    <3> QED BY <1>2, <3>1, LastAndFront
  <2>2. lowlink' = Lower(lowlink, Node(n - 1), lowlink[Node(n)])
    BY <1>3, <2>1 DEF Finish, Node
  <2>3. /\ Node(n - 1) \in Units /\ Node(n) \in Units
        /\ lowlink[Node(n - 1)] \in Nat /\ lowlink[Node(n)] \in Nat
    BY <1>4, <1>5, <1>9 DEF SearchType
  <2>4. Lower(lowlink, Node(n - 1), lowlink[Node(n)])
          = [lowlink EXCEPT ![Node(n - 1)] = IF @ <= lowlink[Node(n)] THEN @
                                             ELSE lowlink[Node(n)]]
    BY <2>3, MinOfTwo DEF Lower
  <2> QED BY <2>2, <2>3, <2>4 DEF SearchType
<1>10. lowlink' \in [Units -> Nat]
  BY <1>8, <1>9 DEF SearchType
<1>11. /\ Root => PopComponent(Node(n)) /\ nextComponent' = nextComponent + 1
       /\ ~ Root => UNCHANGED <<component, stack, nextComponent>>
  BY <1>3 DEF Finish, Root
<1>12. component' \in [Units -> Nat] /\ stack' \in Seq(Units) /\ nextComponent' \in Nat
  <2>1. CASE Root
    BY <1>4, <1>5, <1>11, <2>1, PopFacts DEF SearchType
  <2>2. CASE ~ Root
    BY <1>11, <2>2 DEF SearchType
  <2> QED BY <2>1, <2>2
<1>13. SearchType'
  BY <1>2, <1>3, <1>10, <1>12 DEF SearchType
<1>14. Retired
  BY <1>2, <1>3, <1>4, <1>5, <1>6, <1>7, <1>8, <1>9 DEF Retired
<1> QED BY <1>11, <1>13, <1>14

\* Whether a gate is untried does not depend on a frame with nothing to try.
LEMMA RetireFrames ==
  ASSUME SearchType, Counted, StackInv, FrameInv, Retired
  PROVE  /\ \A u, v : Untried(u, v)' <=> Untried(u, v)
         /\ \A j \in Frames : Node(j) \in OnStack /\ Node(j) \in Units /\ index[Node(j)] \in Nat
         /\ \A j \in Frames' : /\ j \in Frames /\ j \in Nat /\ j < Len(work)
                               /\ Node(j)' = Node(j) /\ work'[j] = work[j]
                               /\ index[Node(j)] < index[Node(Len(work))]
<1> DEFINE n == Len(work)
<1>1. \A j \in Frames' : j \in Frames /\ j \in Nat /\ j < n /\ work'[j] = work[j]
  BY DEF Retired
<1>2. \A j \in Frames : Node(j) \in OnStack /\ Node(j) \in Units /\ index[Node(j)] \in Nat
  BY EnteredOnes DEF FrameInv
<1>3. \A j \in Frames' : Node(j)' = Node(j) /\ index[Node(j)] < index[Node(n)]
  BY <1>1 DEF Node, FrameInv, Retired
<1>4. ASSUME NEW u, NEW v PROVE Untried(u, v)' <=> Untried(u, v)
  <2>1. Untried(u, v)' => Untried(u, v)
    BY <1>1, <1>3 DEF Untried
  <2>2. ASSUME Untried(u, v) PROVE Untried(u, v)'
    <3>1. PICK j \in Frames : Node(j) = u /\ v \in work[j].todo
      BY <2>2 DEF Untried
    <3>2. j # n /\ j \in Frames'
      BY <3>1 DEF Retired
    <3>3. Node(j)' = u /\ v \in work'[j].todo
      BY <1>1, <1>3, <3>1, <3>2
    <3> QED BY <3>2, <3>3 DEF Untried
  <2> QED BY <2>1, <2>2
<1> QED BY <1>1, <1>2, <1>3, <1>4


\* A unit that is not the root of its component stays on the stack: what it
\* reaches of it is what its parent reaches.
LEMMA FinishMember ==
  ASSUME WalkInv, Retired, ~ Root, UNCHANGED <<component, stack, nextComponent>>
  PROVE  /\ Counted' /\ StackInv' /\ FrameInv' /\ ExploreInv' /\ PathInv' /\ LowInv'
         /\ ComponentInv'
<1> USE DEF WalkInv
<1> DEFINE n == Len(work)
<1>1. UNCHANGED <<gates, index, nextIndex, component, stack, nextComponent>>
      /\ gates \in [Units -> SUBSET Units]
  BY DEF Retired, SearchType
<1>2. /\ Unset' = Unset /\ Visited' = Visited /\ Done' = Done /\ OnStack' = OnStack
  BY <1>1 DEF Unset, Visited, Done, OnStack
<1>3. /\ \A u, v : Untried(u, v)' <=> Untried(u, v)
      /\ \A j \in Frames : Node(j) \in OnStack /\ Node(j) \in Units /\ index[Node(j)] \in Nat
      /\ \A j \in Frames' : /\ j \in Frames /\ j \in Nat /\ j < n
                            /\ Node(j)' = Node(j) /\ work'[j] = work[j]
                            /\ index[Node(j)] < index[Node(n)]
  BY RetireFrames
<1>4. Counted' /\ StackInv' /\ ComponentInv'
  BY <1>1, <1>2 DEF Counted, StackInv, ComponentInv
<1>5. FrameInv' /\ ExploreInv'
  <2>1. FrameInv'
    BY <1>1, <1>2, <1>3 DEF FrameInv
  <2>2. ExploreInv'
    BY <1>1, <1>2, <1>3 DEF ExploreInv
  <2> QED BY <2>1, <2>2
<1>6. n \in Frames /\ n \in Nat /\ n >= 1 /\ Frames' = Frames \ {n} /\ Len(work') = n - 1
      /\ \A j \in Frames : j \in Nat /\ j <= n
  BY DEF Retired
<1>7. \A u \in OnStack : u \in Units /\ index[u] \in Nat
  BY EnteredOnes
<1>8. PICK w \in OnStack : lowlink[Node(n)] = index[w] /\ Path(gates, Node(n), w)
  BY <1>6 DEF LowInv
<1>9. index[w] < index[Node(n)]
  <2>1. lowlink[Node(n)] <= index[Node(n)]
    BY <1>6 DEF LowInv
  <2> QED BY <1>3, <1>6, <1>7, <1>8, <2>1 DEF Root
<1>10. PICK g \in Frames : index[Node(g)] <= index[w] /\ Path(gates, w, Node(g))
  BY <1>8 DEF PathInv
<1>11. g \in Frames' /\ n # 1 /\ Path(gates, Node(n), Node(g))
  <2>1. g # n
    BY <1>3, <1>6, <1>7, <1>9, <1>10
  <2>2. n # 1
    BY <1>6, <2>1 DEF Frames
  <2> QED BY <1>1, <1>3, <1>6, <1>7, <1>8, <1>10, <2>1, <2>2, GatePaths
<1>12. PathInv'
  <2>1. ASSUME NEW j \in Frames', NEW u \in OnStack, index[Node(j)] <= index[u]
        PROVE  Path(gates, Node(j), u)
    BY <1>3, <2>1 DEF PathInv
  <2>2. ASSUME NEW u \in OnStack
        PROVE  \E j \in Frames' : index[Node(j)] <= index[u] /\ Path(gates, u, Node(j))
    <3>1. PICK j \in Frames : index[Node(j)] <= index[u] /\ Path(gates, u, Node(j))
      BY DEF PathInv
    <3>2. CASE j # n
      BY <1>6, <3>1, <3>2
    <3>3. CASE j = n
      <4>1. index[Node(g)] <= index[u]
        BY <1>3, <1>6, <1>7, <1>8, <1>9, <1>10, <3>1, <3>3
      <4>2. Path(gates, u, Node(g))
        BY <1>1, <1>3, <1>6, <1>7, <1>11, <3>1, <3>3, GatePaths
      <4> QED BY <1>11, <4>1, <4>2
    <3> QED BY <3>2, <3>3
  <2> QED BY <1>1, <1>2, <1>3, <2>1, <2>2 DEF PathInv
<1>0. PICK p \in Nat : p = n - 1
  BY <1>6
<1>13. /\ p \in Frames /\ p \in Frames' /\ p \in Nat /\ p + 1 = n
       /\ \A u \in Units \ {Node(p)} : lowlink'[u] = lowlink[u]
       /\ lowlink'[Node(p)] = IF lowlink[Node(p)] <= lowlink[Node(n)]
                              THEN lowlink[Node(p)] ELSE lowlink[Node(n)]
  BY <1>0, <1>6, <1>11 DEF Retired
<1>14. \A j \in Frames' : j # p => j < p /\ j + 1 \in Frames' /\ Node(j) # Node(p)
  <2>1. ASSUME NEW j \in Frames', j # p PROVE j < p /\ j + 1 \in Frames' /\ Node(j) # Node(p)
    <3>1. j < p /\ j + 1 \in Frames'
      BY <1>0, <1>3, <1>6, <2>1 DEF Frames
    <3>2. index[Node(j)] < index[Node(p)]
      BY <1>3, <1>13, <3>1 DEF FrameInv
    <3> QED BY <1>3, <1>13, <3>1, <3>2
  <2> QED BY <2>1
<1>15. ASSUME NEW j \in Frames', j # p
       PROVE  /\ lowlink'[Node(j)] <= index[Node(j)]
              /\ \E u \in OnStack : lowlink'[Node(j)] = index[u] /\ Path(gates, Node(j), u)
              /\ \A u \in Segment(j)' : \A v \in gates[u] \cap OnStack :
                   ~ Untried(u, v) => lowlink'[Node(j)] <= index[v]
  <2>1. lowlink'[Node(j)] = lowlink[Node(j)]
    BY <1>3, <1>13, <1>14, <1>15
  <2>2. Segment(j)' = Segment(j)
    <3>1. j < Len(work) /\ j < Len(work') /\ Node(j)' = Node(j) /\ Node(j + 1)' = Node(j + 1)
      BY <1>3, <1>0, <1>6, <1>14, <1>15
    <3> QED BY <1>1, <1>2, <3>1 DEF Segment
  <2> QED BY <1>3, <2>1, <2>2 DEF LowInv
<1>16. ASSUME NEW u \in Segment(p)' PROVE u \in Segment(p) \/ u \in Segment(n)
  <2>1. u \in OnStack /\ index[Node(p)] <= index[u] /\ index[u] \in Nat
    BY <1>0, <1>1, <1>2, <1>3, <1>7, <1>13 DEF Segment
  <2>2. Segment(n) = {x \in OnStack : index[Node(n)] <= index[x]}
    BY <1>6 DEF Segment
  <2>3. index[Node(n)] \in Nat
    BY <1>3, <1>6
  <2> QED BY <1>13, <2>1, <2>2, <2>3 DEF Segment
<1>17. /\ lowlink'[Node(p)] <= index[Node(p)]
       /\ \E u \in OnStack : lowlink'[Node(p)] = index[u] /\ Path(gates, Node(p), u)
       /\ \A u \in Segment(p)' : \A v \in gates[u] \cap OnStack :
            ~ Untried(u, v) => lowlink'[Node(p)] <= index[v]
  <2>1. lowlink[Node(p)] \in Nat /\ lowlink[Node(n)] \in Nat /\ index[Node(p)] \in Nat
    BY <1>3, <1>6, <1>13 DEF SearchType
  <2>2. /\ lowlink[Node(p)] <= index[Node(p)]
        /\ \E u \in OnStack : lowlink[Node(p)] = index[u] /\ Path(gates, Node(p), u)
        /\ \A u \in Segment(p) : \A v \in gates[u] \cap OnStack :
             ~ Untried(u, v) => lowlink[Node(p)] <= index[v]
        /\ \A u \in Segment(n) : \A v \in gates[u] \cap OnStack :
             ~ Untried(u, v) => lowlink[Node(n)] <= index[v]
    BY <1>6, <1>13 DEF LowInv
  <2>3. Path(gates, Node(p), w)
    <3>1. Path(gates, Node(p), Node(n))
      BY <1>13, WorkReachesLast
    <3> QED BY <1>1, <1>3, <1>6, <1>7, <1>8, <1>13, <3>1, GatePaths
  <2>4. \E u \in OnStack : lowlink'[Node(p)] = index[u] /\ Path(gates, Node(p), u)
    BY <1>8, <1>13, <2>2, <2>3
  <2>5. lowlink'[Node(p)] <= index[Node(p)]
    BY <1>13, <2>1, <2>2
  <2>6. ASSUME NEW u \in Segment(p)', NEW v \in gates[u] \cap OnStack, ~ Untried(u, v)
        PROVE  lowlink'[Node(p)] <= index[v]
    <3>1. index[v] \in Nat
      BY <1>7
    <3>2. lowlink[Node(p)] <= index[v] \/ lowlink[Node(n)] <= index[v]
      BY <1>16, <2>2, <2>6
    <3> QED BY <1>13, <2>1, <3>1, <3>2
  <2> QED BY <2>4, <2>5, <2>6
<1>18. LowInv'
  <2>1. ASSUME NEW j \in Frames'
        PROVE  /\ lowlink'[Node(j)] <= index[Node(j)]
               /\ \E u \in OnStack : lowlink'[Node(j)] = index[u] /\ Path(gates, Node(j), u)
               /\ \A u \in Segment(j)' : \A v \in gates[u] \cap OnStack :
                    ~ Untried(u, v) => lowlink'[Node(j)] <= index[v]
    <3>1. CASE j = p
      BY <1>17, <3>1
    <3>2. CASE j # p
      BY <1>15, <3>2
    <3> QED BY <3>1, <3>2
  <2> QED BY <1>1, <1>2, <1>3, <2>1 DEF LowInv
<1> QED BY <1>4, <1>5, <1>12, <1>18

\* What was entered from a root is a component: its gates lead nowhere else
\* than to complete components, and it is joined both ways.
LEMMA SegmentIsComponent ==
  ASSUME WalkInv, Retired, Root, NEW top, top = Node(Len(work)),
         NEW S, S = {u \in OnStack : index[top] <= index[u]}
  PROVE  /\ top \in S /\ S \in SUBSET Units
         /\ \A u \in S : \A v \in gates[u] : v \in S \/ v \in Done
         /\ \A u, v \in S : Path(gates, u, v)
         /\ \A u \in S : \A v \in Done : ~ Path(gates, v, u)
<1> USE DEF WalkInv
<1>1. gates \in [Units -> SUBSET Units] /\ IsFiniteSet(Units)
  BY UnitsFacts DEF SearchType
<1>2. /\ Len(work) \in Frames /\ work[Len(work)].todo = {}
      /\ \A j \in Frames : j \in Nat /\ j <= Len(work)
  BY DEF Retired
<1>3. \A u \in OnStack : u \in Units /\ u \in Visited /\ u \notin Done /\ index[u] \in Nat
  BY EnteredOnes
<1>4. \A j \in Frames : Node(j) \in OnStack
  BY DEF FrameInv
<1>5. top \in S /\ S \in SUBSET Units
  BY <1>2, <1>3, <1>4
<1>6. ASSUME NEW u \in S, NEW v \in gates[u] PROVE v \in S \/ v \in Done
  <2>1. ~ Untried(u, v)
    <3> SUFFICES ASSUME NEW j \in Frames, Node(j) = u, v \in work[j].todo PROVE FALSE
      BY DEF Untried
    <3>1. j # Len(work) /\ j < Len(work)
      BY <1>2
    <3>2. index[Node(j)] < index[top]
      BY <1>2, <3>1 DEF FrameInv
    <3> QED BY <1>3, <1>5, <3>2
  <2>2. v \in Visited
    BY <1>3, <2>1 DEF ExploreInv
  <2>3. CASE v \notin Done
    <3>1. v \in OnStack
      BY <2>2, <2>3 DEF StackInv
    <3>2. u \in Segment(Len(work))
      BY <1>2 DEF Segment, Retired
    <3>3. lowlink[Node(Len(work))] <= index[v]
      BY <1>2, <2>1, <3>1, <3>2 DEF LowInv
    <3> QED BY <3>1, <3>3 DEF Root
  <2> QED BY <2>3
<1>7. Done \in SUBSET Units /\ ClosedUnder(gates, Done)
  BY DEF ExploreInv, ClosedUnder, Done
<1>8. S \cup Done \in SUBSET Units /\ ClosedUnder(gates, S \cup Done)
  BY <1>5, <1>6, <1>7 DEF ClosedUnder
<1>9. ASSUME NEW u \in S PROVE Path(gates, top, u) /\ Path(gates, u, top)
  <2>1. Path(gates, top, u)
    BY <1>2 DEF PathInv
  <2>2. PICK j \in Frames : index[Node(j)] <= index[u] /\ Path(gates, u, Node(j))
    BY DEF PathInv
  <2>3. Node(j) \in S
    <3>1. Node(j) \in S \cup Done
      BY <1>1, <1>8, <2>2, PathStays
    <3> QED BY <1>3, <1>4, <3>1
  <2>4. j = Len(work)
    <3> SUFFICES ASSUME j # Len(work) PROVE FALSE
      OBVIOUS
    <3>1. index[Node(j)] < index[top]
      BY <1>2 DEF FrameInv
    <3> QED BY <1>3, <1>5, <2>3, <3>1
  <2> QED BY <2>1, <2>2, <2>4
<1>10. \A u, v \in S : Path(gates, u, v)
  BY <1>1, <1>5, <1>9, GatePaths
<1>11. ASSUME NEW u \in S, NEW v \in Done PROVE ~ Path(gates, v, u)
  <2>1. Path(gates, v, u) => u \in Done
    BY <1>1, <1>7, PathStays
  <2> QED BY <1>3, <2>1
<1> QED BY <1>5, <1>6, <1>10, <1>11

\* The root of a component takes it off the stack.
LEMMA FinishRoot ==
  ASSUME WalkInv, Retired, Root, PopComponent(Node(Len(work))),
         nextComponent' = nextComponent + 1
  PROVE  /\ Counted' /\ StackInv' /\ FrameInv' /\ ExploreInv' /\ PathInv' /\ LowInv'
         /\ ComponentInv'
<1> USE DEF WalkInv
<1>1. UNCHANGED <<gates, index, nextIndex>> /\ gates \in [Units -> SUBSET Units]
  BY DEF Retired, SearchType
<1>2. /\ \A u, v : Untried(u, v)' <=> Untried(u, v)
      /\ \A j \in Frames : Node(j) \in OnStack /\ Node(j) \in Units /\ index[Node(j)] \in Nat
      /\ \A j \in Frames' : /\ j \in Frames /\ j \in Nat /\ j < Len(work)
                            /\ Node(j)' = Node(j) /\ work'[j] = work[j]
                            /\ index[Node(j)] < index[Node(Len(work))]
  BY RetireFrames
<1>3. PICK n \in Nat : n = Len(work)
  BY DEF Retired
<1>4. n \in Frames /\ n >= 1 /\ Frames' = Frames \ {n} /\ Len(work') = n - 1
      /\ \A j \in Frames : j \in Nat /\ j <= n
  BY <1>3 DEF Retired
<1>5. PICK top \in OnStack : top = Node(Len(work))
  BY <1>2, <1>3, <1>4
<1>6. PICK S : S = {u \in OnStack : index[top] <= index[u]}
  OBVIOUS
<1>7. /\ top \in S /\ S \in SUBSET Units
      /\ \A u \in S : \A v \in gates[u] : v \in S \/ v \in Done
      /\ \A u, v \in S : Path(gates, u, v)
      /\ \A u \in S : \A v \in Done : ~ Path(gates, v, u)
  BY <1>5, <1>6, SegmentIsComponent
<1>8. /\ OnStack' = {u \in OnStack : index[u] < index[top]}
      /\ \A u \in Units : component'[u] = IF u \in OnStack /\ index[top] <= index[u]
                                          THEN nextComponent ELSE component[u]
      /\ component' \in [Units -> Nat] /\ stack' \in Seq(Units)
      /\ \A i, j \in 1 .. Len(stack') : i < j => index[stack'[i]] < index[stack'[j]]
  BY <1>5, PopFacts
<1>9. \A u \in OnStack : u \in Units /\ u \in Visited /\ u \notin Done /\ index[u] \in Nat
  BY EnteredOnes
<1>10. OnStack' = OnStack \ S /\ S \subseteq OnStack
  BY <1>6, <1>8, <1>9
<1>11. \A u \in Units : component'[u] = IF u \in S THEN nextComponent ELSE component[u]
  BY <1>6, <1>8
<1>12. Unset' = Unset /\ Visited' = Visited
  BY <1>1 DEF Unset, Visited
<1>13. /\ Done \in SUBSET Units /\ top \in Units \ Done /\ nextComponent \in Nat
       /\ Cardinality(Done) \in Nat /\ nextComponent < Unset
  <2>1. Done \in SUBSET Units /\ top \in Units \ Done /\ nextComponent \in Nat
    BY <1>9 DEF Done, SearchType
  <2>2. Cardinality(Done) \in Nat /\ Cardinality(Units) \in Nat /\ Unset = Cardinality(Units) + 1
    BY <2>1, UnitsFacts
  <2>3. Cardinality(Done) < Cardinality(Units) /\ nextComponent <= Cardinality(Done)
    BY <2>1, OneMore DEF Counted
  <2> QED BY <2>1, <2>2, <2>3
<1>14. Done' = Done \cup S
  <2>1. \A u \in Units : u \in Done' <=> u \in Done \cup S
    <3>1. nextComponent # Unset
      BY <1>13, UnitsFacts
    <3> QED BY <1>11, <1>12, <3>1 DEF Done
  <2>2. Done' \subseteq Units
    BY DEF Done
  <2> QED BY <1>7, <1>13, <2>1, <2>2
<1>15. Counted'
  <2>1. nextIndex' = Cardinality(Visited') /\ \A u \in Visited' : index'[u] < nextIndex'
    BY <1>1, <1>12 DEF Counted
  <2>2. nextComponent' <= Cardinality(Done')
    <3>1. Cardinality(Done \cup {top}) = Cardinality(Done) + 1
      BY <1>13, OneMore
    <3>2. Done \cup {top} \subseteq Done' /\ IsFiniteSet(Done') /\ Cardinality(Done') \in Nat
      <4>1. Done' \in SUBSET Units
        BY <1>7, <1>13, <1>14
      <4> QED BY <1>7, <1>14, <4>1, UnitsFacts
    <3>3. Cardinality(Done \cup {top}) <= Cardinality(Done')
      BY <3>2, FS_Subset
    <3>4. nextComponent <= Cardinality(Done)
      BY DEF Counted
    <3> QED BY <1>13, <3>1, <3>2, <3>3, <3>4
  <2>3. ASSUME NEW u \in Done' PROVE component'[u] < nextComponent'
    <3>1. CASE u \in S
      BY <1>7, <1>11, <1>13, <3>1
    <3>2. CASE u \notin S
      <4>1. u \in Done /\ u \in Units /\ component[u] \in Nat /\ component[u] < nextComponent
        BY <1>13, <1>14, <3>2 DEF Counted, SearchType
      <4> QED BY <1>11, <1>13, <3>2, <4>1
    <3> QED BY <3>1, <3>2
  <2> QED BY <2>1, <2>2, <2>3 DEF Counted
<1>16. StackInv'
  <2>1. OnStack' = Visited' \ Done' /\ Done' \subseteq Visited'
    <3>1. OnStack = Visited \ Done /\ Done \subseteq Visited
      BY DEF StackInv
    <3> QED BY <1>10, <1>12, <1>14, <3>1
  <2> QED BY <1>1, <1>8, <2>1 DEF StackInv
<1>17. \A j \in Frames' : Node(j) \in OnStack'
  BY <1>2, <1>5, <1>8
<1>18. FrameInv'
  <2>1. \A j \in Frames' : Node(j)' \in OnStack' /\ work'[j].todo \subseteq gates'[Node(j)']
    BY <1>1, <1>2, <1>17 DEF FrameInv
  <2>2. \A i, j \in Frames' : i < j => index'[Node(i)'] < index'[Node(j)']
    BY <1>1, <1>2 DEF FrameInv
  <2> QED BY <2>1, <2>2 DEF FrameInv
<1>19. ExploreInv'
  <2>1. \A u \in Visited' : \A v \in gates'[u] : v \in Visited' \/ Untried(u, v)'
    BY <1>1, <1>2, <1>12 DEF ExploreInv
  <2>2. ASSUME NEW u \in Done', NEW v \in gates[u]
        PROVE  v \in Done' /\ component'[v] <= component'[u]
    <3>1. CASE u \in Done
      <4>1. v \in Done /\ component[v] <= component[u]
        BY <3>1 DEF ExploreInv
      <4> QED BY <1>9, <1>10, <1>11, <1>13, <1>14, <3>1, <4>1
    <3>2. CASE u \in S
      <4>1. u \in Units /\ component'[u] = nextComponent
        BY <1>7, <1>11, <3>2
      <4>2. CASE v \in S
        BY <1>7, <1>11, <1>13, <1>14, <4>1, <4>2
      <4>3. CASE v \in Done
        <5>1. v \in Units /\ v \notin S /\ component[v] < nextComponent /\ component[v] \in Nat
          BY <1>9, <1>10, <1>13, <4>3 DEF Counted, SearchType
        <5> QED BY <1>11, <1>13, <1>14, <4>1, <4>3, <5>1
      <4> QED BY <1>7, <3>2, <4>2, <4>3
    <3> QED BY <1>14, <3>1, <3>2
  <2> QED BY <1>1, <2>1, <2>2 DEF ExploreInv
<1>20. PathInv'
  <2>1. ASSUME NEW j \in Frames', NEW u \in OnStack', index[Node(j)] <= index[u]
        PROVE  Path(gates, Node(j), u)
    BY <1>2, <1>10, <2>1 DEF PathInv
  <2>2. ASSUME NEW u \in OnStack'
        PROVE  \E j \in Frames' : index[Node(j)] <= index[u] /\ Path(gates, u, Node(j))
    <3>1. u \in OnStack /\ index[u] < index[top]
      BY <1>8
    <3>2. PICK j \in Frames : index[Node(j)] <= index[u] /\ Path(gates, u, Node(j))
      BY <3>1 DEF PathInv
    <3>3. j # n
      BY <1>2, <1>3, <1>5, <1>9, <3>1, <3>2
    <3> QED BY <1>4, <3>2, <3>3
  <2> QED BY <1>1, <1>2, <2>1, <2>2 DEF PathInv
<1>21. ASSUME NEW j \in Frames'
       PROVE  /\ lowlink'[Node(j)] = lowlink[Node(j)]
              /\ lowlink[Node(j)] <= index[Node(j)] /\ lowlink[Node(j)] \in Nat
  <2>1. /\ lowlink[Node(j)] <= index[Node(j)] /\ lowlink[Node(j)] \in Nat
        /\ index[Node(j)] \in Nat /\ index[Node(j)] < index[top] /\ Node(j) \in Units
    BY <1>2, <1>5 DEF LowInv, SearchType
  <2>2. n # 1 /\ n - 1 \in Nat
    BY <1>2, <1>3, <1>4 DEF Frames
  <2>3. /\ \A u \in Units \ {Node(n - 1)} : lowlink'[u] = lowlink[u]
        /\ lowlink'[Node(n - 1)] = IF lowlink[Node(n - 1)] <= lowlink[Node(n)]
                                   THEN lowlink[Node(n - 1)] ELSE lowlink[Node(n)]
    BY <1>3, <2>2 DEF Retired
  <2>4. lowlink[Node(n)] = index[top] /\ index[top] \in Nat
    BY <1>3, <1>5, <1>9 DEF Root
  <2>5. CASE Node(j) = Node(n - 1)
    BY <2>1, <2>3, <2>4, <2>5
  <2>6. CASE Node(j) # Node(n - 1)
    BY <2>1, <2>3, <2>6
  <2> QED BY <2>1, <2>5, <2>6
<1>22. ASSUME NEW j \in Frames', NEW u \in Segment(j)' PROVE u \in Segment(j)
  <2>1. j < n /\ j \in Frames /\ Len(work) = n
    BY <1>2, <1>3
  <2>2. /\ u \in OnStack /\ index[u] < index[top] /\ index[Node(j)] <= index[u]
        /\ j < n - 1 => index[u] < index'[Node(j + 1)']
    BY <1>1, <1>2, <1>4, <1>8 DEF Segment
  <2>3. CASE j = n - 1
    <3>1. Node(j + 1) = top
      BY <1>3, <1>5, <2>3
    <3> QED BY <2>2, <3>1 DEF Segment
  <2>4. CASE j # n - 1
    <3>1. j < n - 1 /\ j + 1 \in Frames'
      BY <1>2, <1>4, <2>1, <2>4 DEF Frames
    <3>2. index'[Node(j + 1)'] = index[Node(j + 1)]
      BY <1>1, <1>2, <3>1
    <3> QED BY <2>2, <3>1, <3>2 DEF Segment
  <2> QED BY <2>3, <2>4
<1>23. LowInv'
  <2>1. ASSUME NEW j \in Frames'
        PROVE  /\ lowlink'[Node(j)] <= index[Node(j)]
               /\ \E u \in OnStack' : lowlink'[Node(j)] = index[u] /\ Path(gates, Node(j), u)
               /\ \A u \in Segment(j)' : \A v \in gates[u] \cap OnStack' :
                    ~ Untried(u, v) => lowlink'[Node(j)] <= index[v]
    <3>1. j \in Frames /\ index[Node(j)] < index[top] /\ index[Node(j)] \in Nat
      BY <1>2, <1>5
    <3>2. PICK u \in OnStack : lowlink[Node(j)] = index[u] /\ Path(gates, Node(j), u)
      BY <3>1 DEF LowInv
    <3>3. u \in OnStack'
      <4>1. index[u] < index[top]
        BY <1>5, <1>9, <1>21, <3>1, <3>2
      <4> QED BY <1>8, <4>1
    <3>4. ASSUME NEW x \in Segment(j)', NEW v \in gates[x] \cap OnStack', ~ Untried(x, v)
          PROVE  lowlink'[Node(j)] <= index[v]
      <4>1. x \in Segment(j) /\ v \in gates[x] \cap OnStack
        BY <1>10, <1>22
      <4> QED BY <1>21, <3>1, <3>4, <4>1 DEF LowInv
    <3> QED BY <1>21, <3>2, <3>3, <3>4
  <2> QED BY <1>1, <1>2, <2>1 DEF LowInv
<1>24. ComponentInv'
  <2>1. ASSUME NEW u \in Done', NEW v \in Done'
        PROVE  component'[u] = component'[v] <=> Path(gates, u, v) /\ Path(gates, v, u)
    <3>1. \A x \in Done : /\ x \in Units /\ x \notin S /\ component'[x] = component[x]
                          /\ component[x] \in Nat /\ component[x] < nextComponent
      BY <1>9, <1>10, <1>11, <1>13 DEF Counted, SearchType
    <3>2. \A x \in S : component'[x] = nextComponent
      BY <1>7, <1>11
    <3>3. CASE u \in Done /\ v \in Done
      BY <3>1, <3>3 DEF ComponentInv
    <3>4. CASE u \in S /\ v \in S
      BY <1>7, <3>2, <3>4
    <3>5. CASE u \in S /\ v \in Done
      BY <1>7, <1>13, <3>1, <3>2, <3>5
    <3>6. CASE u \in Done /\ v \in S
      BY <1>7, <1>13, <3>1, <3>2, <3>6
    <3> QED BY <1>14, <3>3, <3>4, <3>5, <3>6
  <2> QED BY <1>1, <2>1 DEF ComponentInv
<1> QED BY <1>15, <1>16, <1>18, <1>19, <1>20, <1>23, <1>24

-----------------------------------------------------------------------------
(* The walk, step by step. *)

\* Starting from a unit that was not entered keeps the invariant.
LEMMA StartKeeps ==
  ASSUME WalkInv, Start
  PROVE  WalkInv'
<1> USE DEF WalkInv
<1> DEFINE fresh == {u \in Units : index[u] = Unset}
           node == Min(fresh)
<1>1. node \in fresh
  <2>1. fresh \in SUBSET Nat /\ fresh # {}
    BY UnitsFacts DEF Start
  <2>2. \E u \in fresh : \A v \in fresh : u <= v
    <3> HIDE DEF fresh
    <3> QED BY <2>1, LeastNat
  <2> HIDE DEF fresh
  <2> QED BY <2>2 DEF Min
<1>2. /\ Enter(node, <<>>) /\ work = <<>>
      /\ UNCHANGED <<gates, component, nextComponent>>
  BY DEF Start
<1>3. node \in Units /\ index[node] = Unset
  BY <1>1
<1> HIDE DEF node
<1>4. Advanced(<<>>, node)
  BY <1>2 DEF Advanced, Frames
<1>5. SearchType' /\ Entered(node)
  BY <1>2, <1>3, <1>4, EnterFacts
<1>6. Counted' /\ StackInv'
  BY <1>3, <1>5, EnterCounts
<1>7. FrameInv' /\ ExploreInv'
  BY <1>3, <1>5, EnterFrames
<1>8. PathInv'
  BY <1>2, <1>3, <1>5, EnterPaths
<1>9. LowInv' /\ ComponentInv'
  BY <1>3, <1>5, EnterLow
<1> QED BY <1>5, <1>6, <1>7, <1>8, <1>9

\* Following one gate keeps it.
LEMMA ExploreKeeps ==
  ASSUME WalkInv, NEW child \in Units, Explore(child)
  PROVE  WalkInv'
<1> USE DEF WalkInv
<1>1. CASE index[child] = Unset
  <2> DEFINE frames == Append(AllButTop, [Top EXCEPT !.todo = @ \ {child}])
  <2>1. /\ Enter(child, frames) /\ work # <<>> /\ child \in Top.todo
        /\ UNCHANGED <<gates, component, nextComponent>>
    BY <1>1 DEF Explore
  <2>2. Advanced(frames, child)
    BY <2>1, ExploreFacts
  <2>3. child \in gates[Node(Len(work))]
    <3>1. Len(work) \in Frames /\ Top = work[Len(work)]
      BY <2>1, LastAndFront DEF SearchType, Frames, Top
    <3> QED BY <2>1, <3>1 DEF FrameInv
  <2> HIDE DEF frames
  <2>4. SearchType' /\ Entered(child)
    BY <1>1, <2>1, <2>2, EnterFacts
  <2>5. Counted' /\ StackInv'
    BY <2>4, EnterCounts
  <2>6. FrameInv' /\ ExploreInv'
    BY <2>4, EnterFrames
  <2>7. PathInv'
    BY <2>3, <2>4, EnterPaths
  <2>8. LowInv' /\ ComponentInv'
    BY <2>4, EnterLow
  <2> QED BY <2>4, <2>5, <2>6, <2>7, <2>8
<1>2. CASE index[child] # Unset
  <2>1. SearchType' /\ Tried(child)
    BY <1>2, TryFacts
  <2> QED BY <2>1, TryKeeps
<1> QED BY <1>1, <1>2

\* Finishing a unit keeps it, whether or not it is the root of a component.
LEMMA FinishKeeps ==
  ASSUME WalkInv, Finish
  PROVE  WalkInv'
<1>1. /\ SearchType' /\ Retired
      /\ Root => PopComponent(Node(Len(work))) /\ nextComponent' = nextComponent + 1
      /\ ~ Root => UNCHANGED <<component, stack, nextComponent>>
  BY FinishFacts DEF WalkInv
<1>2. /\ Counted' /\ StackInv' /\ FrameInv' /\ ExploreInv' /\ PathInv' /\ LowInv'
      /\ ComponentInv'
  BY <1>1, FinishRoot, FinishMember
<1> QED BY <1>1, <1>2 DEF WalkInv

\* What the walk leaves: every unit has a component, the units of one are those
\* on a common cycle, and the ids ascend along the gates.
Ordered ==
  /\ gates \in [Units -> SUBSET Units]
  /\ component \in [Units -> Nat] /\ nextComponent \in Nat
  /\ \A u \in Units : component[u] < nextComponent
  /\ \A u, v \in Units :
       component[u] = component[v] <=> Path(gates, u, v) /\ Path(gates, v, u)
  /\ \A u \in Units : \A v \in gates[u] : component[v] <= component[u]

\* When the search is over every unit has a component, the ids are those of the
\* cycles, and no gate leads to a later id.
LEMMA SearchedIsOrdered ==
  ASSUME WalkInv, Searched
  PROVE  Ordered
<1> USE DEF WalkInv
<1>1. work = <<>> /\ Visited = Units
  BY DEF Searched, Visited
<1>2. OnStack = {}
  <2>1. Frames = {}
    BY <1>1 DEF Frames
  <2> QED BY <2>1 DEF PathInv
<1>3. Done = Units
  BY <1>1, <1>2, EnteredOnes DEF StackInv
<1> QED BY <1>3 DEF Ordered, SearchType, Counted, ComponentInv, ExploreInv

\* The walk starts in the invariant: nothing is entered.
LEMMA InitWalk ==
  WalkInit => WalkInv
<1> SUFFICES ASSUME WalkInit PROVE WalkInv
  OBVIOUS
<1> USE DEF WalkInit
<1>1. Unset \in Nat
  BY UnitsFacts
<1>2. Frames = {} /\ OnStack = {} /\ Visited = {} /\ Done = {} /\ Len(stack) = 0
  BY DEF Frames, OnStack, Seqs!ToSet, Visited, Done
<1>3. SearchType
  BY <1>1 DEF SearchType, Graphs
<1>4. Counted
  BY <1>2, FS_EmptySet DEF Counted
<1>5. StackInv /\ FrameInv /\ ExploreInv /\ PathInv /\ LowInv /\ ComponentInv
  BY <1>2 DEF StackInv, FrameInv, ExploreInv, PathInv, LowInv, ComponentInv
<1> QED BY <1>3, <1>4, <1>5 DEF WalkInv
-----------------------------------------------------------------------------
(* The levels. *)

\* The components that the component c gates on.
Beneath(c) == {component[v] : v \in UNION {gates[u] : u \in Members(c)}} \ {c}

LevelInv ==
  /\ level \in Seq(Nat) /\ Len(level) <= nextComponent
  /\ \A c \in 0 .. Len(level) - 1 :
       /\ LevelOf(c) <= c
       /\ LevelOf(c) = IF Beneath(c) = {} THEN 0
                       ELSE Max({LevelOf(d) : d \in Beneath(c)}) + 1

Walked ==
  /\ phase \in {"search", "check"} => level = <<>>
  /\ phase = "search" => WalkInv
  /\ phase \in {"check", "level"} => Ordered
  /\ phase = "level" => LevelInv

\* A set of numbers with a bound has a greatest one.
LEMMA GreatestNat ==
  ASSUME NEW S \in SUBSET Nat, S # {}, NEW b \in Nat, \A x \in S : x <= b
  PROVE  Max(S) \in S /\ \A x \in S : x <= Max(S)
<1> DEFINE below == {b - x : x \in S}
<1>1. below \in SUBSET Nat /\ below # {}
  <2>1. \A x \in S : b - x \in Nat
    OBVIOUS
  <2> QED BY <2>1
<1>2. \E n \in below : \A m \in below : n <= m
  <2> HIDE DEF below
  <2> QED BY <1>1, LeastNat
<1>3. PICK y \in S : \A x \in S : b - y <= b - x
  BY <1>2
<1>4. \A x \in S : y >= x
  BY <1>3
<1> QED BY <1>4 DEF Max

\* Beneath a component lie lower ids only.
LEMMA LowerIds ==
  ASSUME Ordered, NEW c \in Nat
  PROVE  \A d \in Beneath(c) : d \in Nat /\ d < c
  BY DEF Ordered, Beneath, Members

\* Levelling a component after those beneath it keeps the level of each what the
\* longest chain of components makes it.
LEMMA LevelKeeps ==
  ASSUME Ordered, LevelInv, LevelComponent
  PROVE  LevelInv'
<1>1. PICK n \in Nat : n = Len(level)
  BY DEF LevelInv
<1> DEFINE wave == IF Beneath(n) = {} THEN 0 ELSE Max({LevelOf(d) : d \in Beneath(n)}) + 1
<1>2. n < nextComponent /\ nextComponent \in Nat /\ level \in Seq(Nat) /\ n \in 0 .. n
  BY <1>1 DEF Ordered, LevelComponent, LevelInv
<1>3. UNCHANGED <<gates, component, nextComponent>>
  BY DEF LevelComponent, search
<1>4. level' = Append(level, wave)
  BY <1>1 DEF LevelComponent, Beneath
<1>5. ASSUME NEW c \in Nat, c < n PROVE LevelOf(c) \in Nat /\ LevelOf(c) <= c
  <2>1. LevelOf(c) \in Nat
    BY <1>1, <1>2, <1>5 DEF LevelOf
  <2>2. c \in 0 .. Len(level) - 1
    BY <1>1, <1>5
  <2> QED BY <2>1, <2>2 DEF LevelInv
<1>6. \A d \in Beneath(n) : d \in Nat /\ d < n /\ LevelOf(d) \in Nat /\ LevelOf(d) <= d
  BY <1>5, LowerIds
<1>7. wave \in Nat /\ wave <= n
  <2> DEFINE waves == {LevelOf(d) : d \in Beneath(n)}
  <2>1. CASE Beneath(n) = {}
    BY <2>1
  <2>2. CASE Beneath(n) # {}
    <3>1. waves \in SUBSET Nat /\ waves # {} /\ \A x \in waves : x <= n
      BY <1>6, <2>2
    <3>2. Max(waves) \in waves
      <4> HIDE DEF waves
      <4> QED BY <3>1, GreatestNat
    <3>3. PICK d \in Beneath(n) : Max(waves) = LevelOf(d)
      BY <3>2
    <3> QED BY <1>6, <2>2, <3>3
  <2> QED BY <2>1, <2>2
<1> HIDE DEF wave
<1>8. /\ level' \in Seq(Nat) /\ Len(level') = n + 1 /\ level'[n + 1] = wave
      /\ \A i \in 1 .. n : level'[i] = level[i]
  BY <1>1, <1>2, <1>4, <1>7
<1>9. /\ LevelOf(n)' = wave
      /\ \A c \in Nat : c < n => LevelOf(c)' = LevelOf(c) /\ Beneath(c)' = Beneath(c)
      /\ Beneath(n)' = Beneath(n)
  <2>1. LevelOf(n)' = wave
    BY <1>8 DEF LevelOf
  <2>2. ASSUME NEW c \in Nat, c < n PROVE LevelOf(c)' = LevelOf(c)
    <3>1. c + 1 \in 1 .. n /\ c < Len(level') /\ c < Len(level)
      BY <1>1, <1>8, <2>2
    <3> QED BY <1>8, <3>1 DEF LevelOf
  <2>3. \A c \in Nat : Beneath(c)' = Beneath(c)
    BY <1>3 DEF Beneath, Members
  <2> QED BY <2>1, <2>2, <2>3
<1>10. ASSUME NEW c \in Nat, c <= n
       PROVE  {LevelOf(d)' : d \in Beneath(c)} = {LevelOf(d) : d \in Beneath(c)}
  <2>1. \A d \in Beneath(c) : d \in Nat /\ d < n
    BY <1>10, LowerIds
  <2> QED BY <1>9, <2>1
<1>11. ASSUME NEW c \in 0 .. n
       PROVE  /\ LevelOf(c)' <= c
              /\ LevelOf(c)' = IF Beneath(c) = {} THEN 0
                               ELSE Max({LevelOf(d)' : d \in Beneath(c)}) + 1
  <2>1. {LevelOf(d)' : d \in Beneath(c)} = {LevelOf(d) : d \in Beneath(c)}
    BY <1>10
  <2>2. CASE c = n
    <3>1. LevelOf(c)' = wave
      BY <1>9, <2>2
    <3> QED BY <1>7, <2>1, <2>2, <3>1 DEF wave
  <2>3. CASE c # n
    <3>1. c \in Nat /\ c < n /\ c \in 0 .. Len(level) - 1 /\ LevelOf(c)' = LevelOf(c)
      BY <1>1, <1>9, <2>3
    <3>2. /\ LevelOf(c) <= c
          /\ LevelOf(c) = IF Beneath(c) = {} THEN 0
                          ELSE Max({LevelOf(d) : d \in Beneath(c)}) + 1
      BY <3>1 DEF LevelInv
    <3> QED BY <2>1, <3>1, <3>2
  <2> QED BY <2>2, <2>3
<1>12. \A c \in 0 .. n : c \in Nat /\ Beneath(c)' = Beneath(c)
  BY <1>9
<1>13. Len(level') <= nextComponent' /\ 0 .. Len(level') - 1 = 0 .. n
  BY <1>2, <1>3, <1>8
<1> QED BY <1>8, <1>11, <1>12, <1>13 DEF LevelInv

\* The walk, the check and the pass keep what they rely on.
LEMMA WalkedSteps ==
  /\ WalkInit => Walked
  /\ Walked /\ [WalkNext]_walkVars => Walked'
<1>1. WalkInit => Walked
  BY InitWalk DEF WalkInit, Walked
<1>2. ASSUME Walked, [WalkNext]_walkVars PROVE Walked'
  <2>1. CASE Start
    BY <1>2, <2>1, StartKeeps DEF Start, Walked
  <2>2. CASE \E child \in Units : Explore(child)
    BY <1>2, <2>2, ExploreKeeps DEF Explore, Walked
  <2>3. CASE Finish
    BY <1>2, <2>3, FinishKeeps DEF Finish, Walked
  <2>4. CASE Searched
    <3>1. Ordered /\ phase' = "check" /\ level' = <<>>
          /\ UNCHANGED <<gates, component, nextComponent>>
      BY <1>2, <2>4, SearchedIsOrdered DEF Searched, Walked, search
    <3>2. Ordered'
      BY <3>1 DEF Ordered
    <3> QED BY <3>1, <3>2 DEF Walked
  <2>5. CASE \E closed \in SUBSET Units : CheckCycles(closed)
    <3>1. /\ Ordered /\ level = <<>> /\ level' = <<>> /\ phase' \in {"level", "error"}
          /\ UNCHANGED <<gates, component, nextComponent>>
      BY <1>2, <2>5 DEF CheckCycles, Walked, search
    <3>2. Ordered'
      BY <3>1 DEF Ordered
    <3>3. LevelInv'
      <4>1. Len(level') = 0 /\ level' \in Seq(Nat) /\ nextComponent' \in Nat
        BY <3>1 DEF Ordered
      <4> QED BY <4>1 DEF LevelInv
    <3> QED BY <3>1, <3>2, <3>3 DEF Walked
  <2>6. CASE LevelComponent
    <3>1. /\ Ordered /\ phase = "level" /\ phase' = "level" /\ LevelInv'
          /\ UNCHANGED <<gates, component, nextComponent>>
      BY <1>2, <2>6, LevelKeeps DEF LevelComponent, Walked, search
    <3>2. Ordered'
      BY <3>1 DEF Ordered
    <3> QED BY <3>1, <3>2 DEF Walked
  <2>7. CASE StripIntraComponent
    BY <1>2, <2>7 DEF StripIntraComponent, Walked
  <2>8. CASE UNCHANGED walkVars
    <3>1. UNCHANGED <<gates, phase, work, stack, index, lowlink, component, nextIndex,
                      nextComponent, level>>
      BY <2>8 DEF walkVars, search
    <3>2. WalkInv => WalkInv'
      <4>1. Unset' = Unset /\ Visited' = Visited /\ Done' = Done /\ OnStack' = OnStack
        BY <3>1 DEF Unset, Visited, Done, OnStack
      <4>2. Frames' = Frames /\ \A j \in Frames : Node(j)' = Node(j) /\ Segment(j)' = Segment(j)
        BY <3>1, <4>1 DEF Frames, Node, Segment
      <4>3. \A u, v : Untried(u, v)' <=> Untried(u, v)
        BY <3>1 DEF Untried, Frames, Node
      <4>4. (SearchType => SearchType') /\ (Counted => Counted') /\ (StackInv => StackInv')
        BY <3>1, <4>1 DEF SearchType, Counted, StackInv
      <4>5. (FrameInv => FrameInv') /\ (ExploreInv => ExploreInv') /\ (PathInv => PathInv')
        BY <3>1 DEF FrameInv, ExploreInv, PathInv, OnStack, Frames, Node, Visited, Done, Unset, Untried
      <4>6. (LowInv => LowInv') /\ (ComponentInv => ComponentInv')
        BY <3>1 DEF LowInv, ComponentInv, OnStack, Frames, Node, Segment, Done, Unset, Untried
      <4> QED BY <4>4, <4>5, <4>6 DEF WalkInv
    <3>3. (Ordered => Ordered') /\ (LevelInv => LevelInv')
      <4>1. Ordered => Ordered'
        BY <3>1 DEF Ordered
      <4>2. \A c : LevelOf(c)' = LevelOf(c) /\ Beneath(c)' = Beneath(c)
        BY <3>1 DEF LevelOf, Beneath, Members
      <4>3. \A c : {LevelOf(d)' : d \in Beneath(c)'} = {LevelOf(d) : d \in Beneath(c)}
        BY <4>2
      <4>4. LevelInv => LevelInv'
        BY <3>1, <4>2, <4>3 DEF LevelInv
      <4> QED BY <4>1, <4>4
    <3> QED BY <1>2, <3>1, <3>2, <3>3 DEF Walked
  <2> QED BY <1>2, <2>1, <2>2, <2>3, <2>4, <2>5, <2>6, <2>7, <2>8 DEF WalkNext
<1> QED BY <1>1, <1>2

\* The invariant of the walk and of the pass.
THEOREM WalkedAlways ==
  WalkSpec => []Walked
<1>1. WalkInit => Walked
  BY WalkedSteps
<1>2. Walked /\ [WalkNext]_walkVars => Walked'
  BY WalkedSteps
<1> QED BY <1>1, <1>2, PTL DEF WalkSpec

\* For every finite graph the component ids name the cycles, and they ascend
\* along the gates.
THEOREM ComponentsAlways ==
  WalkSpec => []ComponentsAreCycles
<1>1. Walked => ComponentsAreCycles
  <2> SUFFICES ASSUME Walked, phase = "check", NEW u \in Units, NEW v \in Units
               PROVE  /\ component[u] = component[v] <=> v \in Component(gates, u)
                      /\ v \in gates[u] => component[v] <= component[u]
    BY DEF ComponentsAreCycles
  <2>1. Ordered
    BY DEF Walked
  <2>2. v \in Component(gates, u) <=> Path(gates, u, v) /\ Path(gates, v, u)
    BY <2>1, UnitsFacts, ComponentIsPaths DEF Ordered
  <2> QED BY <2>1, <2>2 DEF Ordered
<1> QED BY <1>1, WalkedAlways, PTL

\* In an ordered state the members of a component are the cycle of each.
LEMMA MembersAreComponent ==
  ASSUME Ordered, NEW u \in Units
  PROVE  /\ Members(component[u]) = Component(gates, u)
         /\ \A v \in Units : v \in Component(gates, u) <=> component[v] = component[u]
<1>1. gates \in [Units -> SUBSET Units] /\ IsFiniteSet(Units)
  BY UnitsFacts DEF Ordered
<1>2. \A v \in Units : v \in Component(gates, u) <=> component[v] = component[u]
  BY <1>1, ComponentIsPaths DEF Ordered
<1>3. Component(gates, u) \subseteq Units
  BY <1>1, PathStarts DEF Component, Path
<1> QED BY <1>2, <1>3 DEF Members

\* The waves that are given out are the levels of the graph.
THEOREM WavesAlways ==
  WalkSpec => WavesAreLevels
<1>1. ASSUME Walked, WalkNext, phase' = "done", phase # "done"
      PROVE  (\A u \in Units : Wave(u) = Levels(gates)[u]) /\ gates' = Condensed(gates)
  <2>1. phase = "level" /\ StripIntraComponent
    BY <1>1 DEF WalkNext, Start, Explore, Finish, Searched, CheckCycles, LevelComponent,
                StripIntraComponent
  <2>2. Ordered /\ LevelInv /\ Len(level) = nextComponent
    BY <1>1, <2>1 DEF Walked, StripIntraComponent
  <2>3. DOMAIN gates = Units /\ gates \in [Units -> SUBSET Units] /\ IsFiniteSet(Units)
    BY <2>2, UnitsFacts DEF Ordered
  <2>4. gates' = Condensed(gates)
    <3>1. gates' = [u \in Units |-> {v \in gates[u] : component[v] # component[u]}]
      BY <2>1 DEF StripIntraComponent
    <3>2. Condensed(gates) = [u \in Units |-> {v \in gates[u] : v \notin Component(gates, u)}]
      BY <2>3 DEF Condensed
    <3>3. \A u \in Units : \A v \in gates[u] :
            v \notin Component(gates, u) <=> component[v] # component[u]
      BY <2>2, <2>3, MembersAreComponent
    <3> QED BY <3>1, <3>2, <3>3
  <2> DEFINE wave == [u \in Units |-> Wave(u)]
  <2>5. ASSUME NEW u \in Units
        PROVE  /\ component[u] \in Nat /\ component[u] \in 0 .. Len(level) - 1
               /\ \A v \in Below(gates, u) : v \in Units /\ component[v] < component[u]
               /\ Beneath(component[u]) = {component[v] : v \in Below(gates, u)}
    <3>1. component[u] \in Nat /\ component[u] \in 0 .. Len(level) - 1
      BY <2>2 DEF Ordered
    <3>2. /\ Members(component[u]) = Component(gates, u)
          /\ \A v \in Units : v \in Component(gates, u) <=> component[v] = component[u]
      BY <2>2, MembersAreComponent
    <3>3. Members(component[u]) \subseteq Units
      BY DEF Members
    <3>4. \A v \in UNION {gates[x] : x \in Component(gates, u)} : v \in Units
      BY <2>3, <3>2, <3>3
    <3>5. Beneath(component[u]) = {component[v] : v \in Below(gates, u)}
      <4> DEFINE G == UNION {gates[x] : x \in Component(gates, u)}
      <4>1. Beneath(component[u]) = {component[v] : v \in G} \ {component[u]}
        BY <3>2 DEF Beneath
      <4>2. Below(gates, u) = G \ Component(gates, u)
        BY DEF Below
      <4>3. \A v \in G : v \in Component(gates, u) <=> component[v] = component[u]
        BY <3>2, <3>4
      <4> HIDE DEF G
      <4> QED BY <4>1, <4>2, <4>3
    <3>6. \A d \in Beneath(component[u]) : d < component[u]
      BY <2>2, <3>1, LowerIds
    <3> QED BY <3>1, <3>4, <3>5, <3>6 DEF Below
  <2>6. ASSUME NEW u \in Units
        PROVE  wave[u] = LevelAt(wave, gates, u)
    <3>1. {LevelOf(d) : d \in Beneath(component[u])} = {wave[v] : v \in Below(gates, u)}
      BY <2>5 DEF Wave
    <3>2. Beneath(component[u]) = {} <=> Below(gates, u) = {}
      <4>1. Beneath(component[u]) = {component[v] : v \in Below(gates, u)}
        BY <2>5
      <4> QED BY <4>1
    <3>3. wave[u] = LevelOf(component[u])
      BY DEF Wave
    <3>4. LevelOf(component[u]) = IF Beneath(component[u]) = {} THEN 0
            ELSE Max({LevelOf(d) : d \in Beneath(component[u])}) + 1
      BY <2>2, <2>5 DEF LevelInv
    <3> HIDE DEF wave
    <3> QED BY <3>1, <3>2, <3>3, <3>4 DEF LevelAt
  <2>7. Levels(gates) = wave
    <3>1. wave = [u \in Units |-> wave[u]]
      OBVIOUS
    <3> HIDE DEF wave
    <3>2. wave = [u \in Units |-> LevelAt(wave, gates, u)]
      BY <2>6, <3>1
    <3>3. component \in [Units -> Nat] /\ gates \in [Units -> SUBSET Units]
      BY <2>2 DEF Ordered
    <3>4. \A u \in Units : \A v \in Below(gates, u) : v \in Units /\ component[v] < component[u]
      BY <2>5
    <3> QED BY <3>2, <3>3, <3>4, LevelsAreUnique
  <2>8. \A u \in Units : Wave(u) = Levels(gates)[u]
    BY <2>7
  <2> QED BY <2>4, <2>8
<1> QED BY <1>1, WalkedAlways, PTL DEF WalkSpec, WavesAreLevels
-----------------------------------------------------------------------------
(***************************************************************************)
(* The invariant of the pipeline, phase by phase.                          *)
(***************************************************************************)

Indices == 1 .. Len(requests)

\* The modules a request is scheduled on.
On(i) == {m \in actives[i].modules : Effective(requests[i], m).eligible}

\* The input is one the program may be given.
Given == \E family \in Families : input \in family

\* A request of a change covers what the change may reach and defines the task.
Covers ==
  input.by = "changed" =>
    \A i \in DOMAIN input.requests :
      i \in DOMAIN actives =>
        Active(input.requests[i]) \cap Defined(input.requests[i]) \subseteq actives[i].modules

Affecting ==
  /\ requests = input.requests /\ turn \in Nat
  /\ actives \in Seq([modules : SUBSET Modules, named : SUBSET Modules])
  /\ Len(actives) = turn - 1 /\ turn <= Len(requests) + 1
  /\ needs = NoNeeds /\ units = <<>> /\ skipped = {}
  /\ Covers

\* The nodes the expansion walked: closed under prerequisites, each on an
\* active module, and everything that is active and may run among them.
Expansion(seen) ==
  /\ needs = [n \in Nodes |-> IF n \in seen THEN Prerequisites(n) ELSE {}]
  /\ \A n \in seen :
       /\ n[2] \in Defined(n[1]) /\ Prerequisites(n) \subseteq seen
       /\ \E i \in Indices : requests[i] = n[1] /\ n[2] \in actives[i].modules
  /\ \A i \in Indices : \A m \in On(i) : <<requests[i], m>> \in seen

Expanded ==
  /\ requests \in Seq(Tasks) /\ turn \in 1 .. Len(requests) + 1
  /\ \A i, j \in Indices : requests[i] = requests[j] => i = j
  /\ actives \in Seq([modules : SUBSET Modules, named : SUBSET Modules])
  /\ Len(actives) = Len(requests)
  /\ Len(input.requests) <= Len(requests)
  /\ \A i \in DOMAIN input.requests : requests[i] = input.requests[i]
  /\ Covers
  /\ \E seen \in SUBSET Nodes : Expansion(seen)

\* The units of the tasks scheduled so far: one for every module that may run.
Scheduling ==
  /\ IsFiniteSet(DOMAIN units)
  /\ \A u \in DOMAIN units :
       /\ units[u] = [members |-> units[u].members, deps |-> units[u].deps, wave |-> units[u].wave]
       /\ units[u].deps \subseteq DOMAIN units /\ units[u].wave \in Nat
       /\ \E i \in 1 .. turn - 1 : u.task = requests[i] /\ units[u].members \subseteq On(i)
  /\ \A u, v \in DOMAIN units :
       u.task = v.task /\ units[u].members \cap units[v].members # {} => u = v
  /\ \A i \in 1 .. turn - 1 :
       /\ \A m \in On(i) : UnitsOf(<<requests[i], m>>) # {}
       /\ {requests[i]} \X (actives[i].modules \ On(i)) \subseteq skipped

\* A dependency of a module is in its command, gated on, or on a cycle of
\* commands that resolve their own closure.
Handed(t, on) ==
  LET kept  == Kept(t, on)
      unit  == [m \in on |-> UnitOf(<<t, m>>)]
  IN  \A m \in on : \A d \in kept[m] :
        \/ unit[d] = unit[m]
        \/ unit[d] \in units[unit[m]].deps
        \/ Closed(t, m) /\ Cardinality(Component(Collapse(kept, unit), unit[m])) > 1

EdgesHanded == \A i \in 1 .. turn - 1 : Handed(requests[i], On(i))

Linked ==
  \A u \in DOMAIN units :
    /\ Targets(u) \subseteq units[u].deps
    /\ \A d \in units[u].deps : units[d].wave < units[u].wave

PlanInv ==
  /\ Given /\ pc \in {"affected", "expand", "schedule", "link", "done", "error"}
  /\ pc \in {"affected", "expand"} => Affecting
  /\ pc = "expand" => turn = Len(requests) + 1
  /\ pc \in {"schedule", "link", "done"} => Expanded /\ Scheduling /\ EdgesHanded
  /\ pc \in {"link", "done"} => turn = Len(requests) + 1
  /\ pc = "done" => Linked
-----------------------------------------------------------------------------
(* The types of what the input decides, which no step changes. *)

\* What a project and a request hold, as PlanAssumption says it.
LEMMA InputType ==
  ASSUME Given
  PROVE  /\ input.edges \subseteq [from : Modules, to : Modules, kind : Kinds]
         /\ \A t \in Tasks, m \in Modules : Effective(t, m) \in EffectiveTasks \/ Effective(t, m) = None
         /\ input.requests \in Seq(Tasks) /\ input.requests # <<>>
         /\ \A j, k \in DOMAIN input.requests : input.requests[j] = input.requests[k] => j = k
         /\ input.targets \subseteq Modules /\ input.named \subseteq input.targets
         /\ input.changes \subseteq Paths /\ input.external \subseteq Modules
         /\ input.roots \in [Paths -> SUBSET Modules]
         /\ \A p \in Paths : input.blast[p] \in Workspaces \/ input.blast[p] = None
<1>1. PICK family \in Families : input \in family
  BY DEF Given
<1> QED BY <1>1, PlanAssumption DEF Effective

\* There are finitely many modules, and nodes of a task and a module.
LEMMA FiniteNodes == IsFiniteSet(Modules) /\ IsFiniteSet(Nodes)
<1>1. IsFiniteSet(Modules) /\ IsFiniteSet(Tasks)
  BY PlanAssumption
<1>2. IsFiniteSet(Tasks \X Modules)
  BY <1>1, FS_Product
<1> QED BY <1>1, <1>2 DEF Nodes

\* A prerequisite is a node whose module defines its task.
LEMMA PrerequisitesType ==
  ASSUME Given, NEW n \in Nodes
  PROVE  /\ Prerequisites(n) \subseteq Nodes
         /\ \A p \in Prerequisites(n) : p[2] \in Defined(p[1])
<1> SUFFICES ASSUME NEW p \in Prerequisites(n) PROVE p \in Nodes /\ p[2] \in Defined(p[1])
  OBVIOUS
<1>1. n[1] \in Tasks /\ n[2] \in Modules /\ n[2] \in Defined(n[1])
  BY DEF Nodes, Prerequisites
<1>2. Effective(n[1], n[2]) \in EffectiveTasks
  BY <1>1, InputType DEF Defined
<1>3. PICK d \in Effective(n[1], n[2]).needs :
        p \in {d.task} \X (Defined(d.task) \cap
                 (IF d.scope = "module" THEN {n[2]} ELSE DependsOn(n[2])))
  BY <1>1 DEF Prerequisites
<1>4. d.task \in Tasks
  BY <1>2, <1>3 DEF EffectiveTasks
<1>5. p = <<d.task, p[2]>> /\ p[1] = d.task /\ p[2] \in Defined(d.task)
  BY <1>3
<1>6. p[2] \in Modules
  BY <1>5 DEF Defined
<1> QED BY <1>4, <1>5, <1>6 DEF Nodes

\* The edges the selection follows, and their reverse, are graphs of modules.
LEMMA ForwardType ==
  ASSUME Given, NEW t
  PROVE  /\ Forward(t) \in [Modules -> SUBSET Modules]
         /\ Dependents(Forward(t)) \in [Modules -> SUBSET Modules]
<1>1. \A x \in input.edges : x.to \in Modules
  BY InputType
<1>2. Forward(t) \in [Modules -> SUBSET Modules]
  BY <1>1 DEF Forward
<1> HIDE DEF Forward
<1> QED BY <1>2 DEF Dependents, Forward

\* The dependencies that scheduling keeps are a graph of the modules that run.
LEMMA KeptType ==
  ASSUME NEW t, NEW on
  PROVE  Kept(t, on) \in [on -> SUBSET on]
  BY DEF Kept

\* The seeds of a change are modules, and so are the active ones of any request.
LEMMA SeedsType ==
  ASSUME Given
  PROVE  (UNION {Seeds(p) : p \in input.changes}) \cup input.external \in SUBSET Modules
<1>1. ASSUME NEW p \in input.changes PROVE Seeds(p) \subseteq Modules
  <2>1. input.roots[p] \subseteq Modules
    BY InputType
  <2> QED BY <2>1 DEF Seeds, Owners
<1> HIDE DEF Seeds
<1> QED BY <1>1, InputType

\* The active modules are modules.
LEMMA ActiveType ==
  ASSUME Given, NEW t
  PROVE  Active(t) \subseteq Modules
<1>1. IsFiniteSet(Modules)
  BY FiniteNodes
<1>2. \A S \in SUBSET Modules : /\ Reach(Forward(t), S) \subseteq Modules
                                /\ Reach(Dependents(Forward(t)), S) \subseteq Modules
  BY <1>1, ForwardType, ReachIsLeast
<1>3. CASE input.by = "all"
  BY <1>3 DEF Active
<1>4. CASE input.by = "explicit"
  <2>1. input.targets \in SUBSET Modules
    BY InputType
  <2> QED BY <1>2, <1>4, <2>1 DEF Active
<1>5. CASE input.by = "changed"
  <2>1. Active(t) = Reach(Dependents(Forward(t)),
                          (UNION {Seeds(p) : p \in input.changes}) \cup input.external)
    BY <1>5 DEF Active
  <2> QED BY <1>2, <2>1, SeedsType
<1>6. input.by \in {"all", "explicit", "changed"}
  BY PlanAssumption DEF Given
<1> QED BY <1>3, <1>4, <1>5, <1>6

\* While the input stands, whatever is computed from it does.
LEMMA InputKeeps ==
  ASSUME UNCHANGED input
  PROVE  /\ Given' = Given
         /\ \A t, m : Effective(t, m)' = Effective(t, m)
         /\ \A t : Defined(t)' = Defined(t)
         /\ \A t : Active(t)' = Active(t)
         /\ \A n : Prerequisites(n)' = Prerequisites(n)
         /\ \A t, on : Kept(t, on)' = Kept(t, on)
         /\ \A t, m : Closed(t, m)' = Closed(t, m)
<1>1. \A t, m : Effective(t, m)' = Effective(t, m)
  BY DEF Effective
<1>2. \A t : Defined(t)' = Defined(t)
  BY <1>1 DEF Defined
<1>3. \A m : DependsOn(m)' = DependsOn(m)
  BY DEF DependsOn
<1>4. \A t : Forward(t)' = Forward(t)
  BY DEF Forward, Follows
<1>5. \A p : Everything(p)' = Everything(p) /\ Owners(p)' = Owners(p)
  BY DEF Everything, Owners
<1>6. \A p : Seeds(p)' = Seeds(p)
  BY <1>5 DEF Seeds
<1>7. \A t : Active(t)' = Active(t)
  BY <1>4, <1>6 DEF Active
<1>8. \A n : Prerequisites(n)' = Prerequisites(n)
  BY <1>1, <1>2, <1>3 DEF Prerequisites
<1>9. \A t, on : Kept(t, on)' = Kept(t, on)
  BY <1>1 DEF Kept
<1> QED BY <1>1, <1>2, <1>7, <1>8, <1>9 DEF Given, Closed
-----------------------------------------------------------------------------
\* A plan starts in the invariant: no task was selected.
LEMMA InitPlan == Init => PlanInv
<1> SUFFICES ASSUME Init PROVE PlanInv
  OBVIOUS
<1>1. Given
  BY DEF Init, Given
<1>2. input.requests \in Seq(Tasks)
  BY <1>1, InputType
<1>3. Affecting
  BY <1>2 DEF Init, Affecting, Covers
<1> QED BY <1>1, <1>3 DEF Init, PlanInv

\* A task on the next request.
LEMMA AffectKeeps ==
  ASSUME PlanInv, AffectTask
  PROVE  PlanInv'
<1> DEFINE t == requests[turn]
           explicit == Strict /\ input.by = "explicit"
           active == [modules |-> IF explicit THEN Active(t) ELSE Active(t) \cap Defined(t),
                      named   |-> IF explicit THEN input.named ELSE {}]
<1>1. Given /\ Affecting /\ pc = "affected" /\ turn \in 1 .. Len(requests)
  BY DEF AffectTask, PlanInv, Affecting
<1>2. CASE Fail("unknown_task")
  <2>1. Given'
    BY <1>1, <1>2, InputKeeps DEF Fail
  <2> QED BY <1>2, <2>1 DEF Fail, PlanInv
<1>3. CASE /\ actives' = Append(actives, active) /\ turn' = turn + 1
           /\ UNCHANGED <<input, pc, fault, requests, needs, units, skipped>>
  <2>1. Given' /\ Covers
    BY <1>1, <1>3, InputKeeps DEF Affecting
  <2>2. active \in [modules : SUBSET Modules, named : SUBSET Modules]
    <3>1. Active(t) \subseteq Modules /\ input.named \subseteq Modules
      BY <1>1, ActiveType, InputType
    <3> QED BY <3>1
  <2>3. actives \in Seq([modules : SUBSET Modules, named : SUBSET Modules])
        /\ Len(actives) = turn - 1 /\ turn \in Nat
    BY <1>1 DEF Affecting
  <2>4. /\ actives' \in Seq([modules : SUBSET Modules, named : SUBSET Modules])
        /\ Len(actives') = turn /\ turn' - 1 = turn /\ turn' \in Nat /\ turn' <= Len(requests') + 1
        /\ \A i \in 1 .. turn - 1 : actives'[i] = actives[i]
        /\ actives'[turn] = active
    <3> HIDE DEF active
    <3> QED BY <1>1, <1>3, <2>2, <2>3
  <2>5. Covers'
    <3> SUFFICES ASSUME input.by = "changed", NEW i \in DOMAIN input.requests, i \in DOMAIN actives'
                 PROVE  Active(input.requests[i]) \cap Defined(input.requests[i])
                          \subseteq actives'[i].modules
      BY <1>3, InputKeeps DEF Covers
    <3>1. i \in 1 .. turn
      BY <2>4
    <3>2. CASE i = turn
      <4>1. t = input.requests[i]
        BY <1>1, <3>2 DEF Affecting
      <4>2. actives'[i].modules = Active(t) \cap Defined(t)
        BY <2>4, <3>2
      <4> QED BY <4>1, <4>2
    <3>3. CASE i \in 1 .. turn - 1
      BY <2>1, <2>3, <2>4, <3>3 DEF Covers
    <3> QED BY <2>3, <3>1, <3>2, <3>3
  <2>6. Affecting'
    <3> HIDE DEF active
    <3>1. /\ requests' = input'.requests
          /\ needs' = NoNeeds /\ units' = <<>> /\ skipped' = {}
      BY <1>1, <1>3 DEF Affecting
    <3> QED BY <2>4, <2>5, <3>1 DEF Affecting
  <2> QED BY <1>1, <1>3, <2>1, <2>6 DEF PlanInv
<1>4. Fail("unknown_task") \/ ( /\ actives' = Append(actives, active) /\ turn' = turn + 1
           /\ UNCHANGED <<input, pc, fault, requests, needs, units, skipped>>)
  BY DEF AffectTask
<1> QED BY <1>2, <1>3, <1>4

\* The end of the selection keeps it: some task has a module.
LEMMA AffectedKeeps ==
  ASSUME PlanInv, AffectedDone
  PROVE  PlanInv'
<1>1. Given /\ Affecting /\ Given'
  BY InputKeeps DEF AffectedDone, PlanInv
<1>2. UNCHANGED <<input, requests, actives, needs, turn, units, skipped>> /\ pc' = "expand"
  BY DEF AffectedDone
<1>3. Affecting'
  BY <1>1, <1>2, InputKeeps DEF Affecting, Covers, NoNeeds
<1>4. turn = Len(requests) + 1
  BY <1>1 DEF Affecting, AffectedDone
<1> QED BY <1>1, <1>2, <1>3, <1>4 DEF PlanInv
-----------------------------------------------------------------------------
(* Expansion. *)

\* A finite set can be counted off without a repetition.
LEMMA FiniteIsListed ==
  ASSUME NEW T, IsFiniteSet(T)
  PROVE  \E f \in [1 .. Cardinality(T) -> T] :
           \A i, j \in 1 .. Cardinality(T) : f[i] = f[j] => i = j
<1> DEFINE Lists(S, f) == /\ f \in [1 .. Cardinality(S) -> S]
                          /\ \A i, j \in 1 .. Cardinality(S) : f[i] = f[j] => i = j
           Open == {S \in SUBSET T : ~ \E f : Lists(S, f)}
           Sizes == {Cardinality(S) : S \in Open}
<1>1. \A S \in SUBSET T : IsFiniteSet(S) /\ Cardinality(S) \in Nat
  BY FS_Subset, FS_CardinalityType
<1>2. Open = {}
  <2> SUFFICES ASSUME Open # {} PROVE FALSE
    OBVIOUS
  <2>1. Sizes \in SUBSET Nat /\ Sizes # {}
    <3> HIDE DEF Lists
    <3> QED BY <1>1
  <2>2. \E n \in Sizes : \A m \in Sizes : n <= m
    <3> HIDE DEF Sizes
    <3> QED BY <2>1, LeastNat
  <2>3. PICK S \in Open : \A U \in Open : Cardinality(S) <= Cardinality(U)
    <3> HIDE DEF Open
    <3> QED BY <2>2
  <2>4. PICK n \in Nat : n = Cardinality(S)
    BY <1>1
  <2>5. n # 0
    <3> SUFFICES ASSUME n = 0 PROVE FALSE
      OBVIOUS
    <3>1. 1 .. Cardinality(S) = {}
      BY <2>4
    <3>2. [i \in {} |-> 0] \in [{} -> S]
      OBVIOUS
    <3>3. Lists(S, [i \in {} |-> 0])
      BY <3>1, <3>2
    <3> HIDE DEF Lists
    <3> QED BY <3>3
  <2>6. PICK x \in S : TRUE
    <3>1. IsFiniteSet(S)
      BY <1>1
    <3> HIDE DEF Open
    <3> QED BY <2>4, <2>5, <3>1, FS_EmptySet
  <2> DEFINE U == S \ {x}
  <2>7. Cardinality(U) = n - 1 /\ U \in SUBSET T /\ n - 1 \in Nat
    <3>1. IsFiniteSet(S)
      BY <1>1
    <3>2. Cardinality(S \ {x}) = Cardinality(S) - 1
      <4> HIDE DEF Open
      <4> QED BY <2>6, <3>1, FS_RemoveElement
    <3>3. U \in SUBSET T
      OBVIOUS
    <3> QED BY <2>4, <2>5, <3>2, <3>3
  <2>8. U \notin Open
    <3> HIDE DEF Open, U
    <3> QED BY <2>3, <2>4, <2>7
  <2>9. PICK f : Lists(U, f)
    <3> HIDE DEF Lists
    <3> QED BY <2>7, <2>8
  <2> DEFINE g == [i \in 1 .. n |-> IF i = n THEN x ELSE f[i]]
  <2>10. f \in [1 .. n - 1 -> U] /\ \A i, j \in 1 .. n - 1 : f[i] = f[j] => i = j
    BY <2>7, <2>9
  <2>11. g \in [1 .. n -> S] /\ \A i, j \in 1 .. n : g[i] = g[j] => i = j
    <3>1. \A i \in 1 .. n : i # n => i \in 1 .. n - 1
      OBVIOUS
    <3>2. \A i \in 1 .. n : i # n => g[i] = f[i] /\ f[i] \in S /\ f[i] # x
      BY <2>10, <3>1
    <3>3. n \in 1 .. n /\ g[n] = x
      BY <2>5
    <3>4. \A i \in 1 .. n : g[i] \in S
      BY <2>6, <3>2, <3>3
    <3>5. ASSUME NEW i \in 1 .. n, NEW j \in 1 .. n, g[i] = g[j] PROVE i = j
      <4>1. CASE i # n /\ j # n
        <5>1. f[i] = f[j] /\ i \in 1 .. n - 1 /\ j \in 1 .. n - 1
          BY <3>1, <3>2, <3>5, <4>1
        <5> QED BY <2>10, <5>1
      <4>2. CASE i = n \/ j = n
        <5> HIDE DEF g
        <5> QED BY <3>2, <3>3, <3>5, <4>2
      <4> QED BY <4>1, <4>2
    <3> QED BY <3>4, <3>5
  <2>12. Lists(S, g)
    <3> HIDE DEF g
    <3> QED BY <2>4, <2>11
  <2> HIDE DEF Lists, g
  <2> QED BY <2>12
<1> HIDE DEF Lists
<1>3. \E f : Lists(T, f)
  BY <1>2
<1> QED BY <1>3 DEF Lists

\* An element of a sequence is one of the set it is over.
LEMMA ElementOf ==
  ASSUME NEW S, NEW s \in Seq(S), NEW i \in 1 .. Len(s)
  PROVE  s[i] \in S
  OBVIOUS

\* What stands where in a concatenation.
LEMMA Joined ==
  ASSUME NEW S, NEW s \in Seq(S), NEW r \in Seq(S), NEW k \in Nat, NEW l \in Nat,
         k = Len(s), l = Len(r)
  PROVE  /\ s \o r \in Seq(S) /\ Len(s \o r) = k + l
         /\ \A i \in 1 .. k : (s \o r)[i] = s[i]
         /\ \A i \in 1 .. l : (s \o r)[k + i] = r[i]
  OBVIOUS

\* The listing of a finite set names every element once.
LEMMA ListedNamesAll ==
  ASSUME NEW T, IsFiniteSet(T)
  PROVE  /\ Listed(T) \in [1 .. Cardinality(T) -> T]
         /\ \A i, j \in 1 .. Cardinality(T) : Listed(T)[i] = Listed(T)[j] => i = j
         /\ \A x \in T : \E i \in 1 .. Cardinality(T) : Listed(T)[i] = x
         /\ Cardinality(T) \in Nat
<1> DEFINE n == Cardinality(T)
           s == Listed(T)
<1>1. n \in Nat
  BY FS_CardinalityType
<1> HIDE DEF n
<1>2. \E f \in [1 .. n -> T] : \A i, j \in DOMAIN f : f[i] = f[j] => i = j
  <2>1. PICK f \in [1 .. n -> T] : \A i, j \in 1 .. n : f[i] = f[j] => i = j
    BY FiniteIsListed DEF n
  <2> QED BY <2>1
<1>3. s \in [1 .. n -> T] /\ \A i, j \in 1 .. n : s[i] = s[j] => i = j
  <2>1. s \in [1 .. n -> T] /\ \A i, j \in DOMAIN s : s[i] = s[j] => i = j
    BY <1>2 DEF Listed, n
  <2> HIDE DEF s
  <2> QED BY <2>1
<1> HIDE DEF s
<1>4. ASSUME NEW x \in T, \A i \in 1 .. n : s[i] # x
      PROVE  FALSE
  <2> DEFINE rest == T \ {x}
  <2>1. s \in [1 .. n -> rest]
    BY <1>3, <1>4
  <2>2. IsFiniteSet(rest) /\ Cardinality(rest) = n - 1
    BY FS_RemoveElement DEF n
  <2>3. IsFiniteSet(1 .. n) /\ Cardinality(1 .. n) = n
    BY <1>1, FS_Interval
  <2>4. Cardinality(rest) < Cardinality(1 .. n)
    BY <1>1, <2>2, <2>3
  <2> HIDE DEF rest
  <2>5. \E i, j \in 1 .. n : i # j /\ s[i] = s[j]
    BY <2>1, <2>2, <2>3, <2>4, FS_PigeonHole
  <2> QED BY <1>3, <2>5
<1> QED BY <1>1, <1>3, <1>4 DEF n, s

Graph == [n \in Nodes |-> Prerequisites(n)]
Seen == Reach(Graph, Starts)
SeenOn(t) == {n[2] : n \in {x \in Seen : x[1] = t}}
Added == Listed({n[1] : n \in Seen} \ {requests[i] : i \in DOMAIN requests})

\* The nodes the expansion reaches are closed under prerequisites and defined.
LEMMA SeenNodes ==
  ASSUME PlanInv, pc = "expand", \A n \in Selected : n[2] \in Defined(n[1])
  PROVE  /\ Seen \in SUBSET Nodes /\ Starts \subseteq Seen
         /\ \A n \in Seen : n[2] \in Defined(n[1]) /\ Prerequisites(n) \subseteq Seen
<1>1. Given /\ Affecting
  BY DEF PlanInv
<1>2. Graph \in [Nodes -> SUBSET Nodes]
  BY <1>1, PrerequisitesType DEF Graph
<1>3. Selected \in SUBSET Nodes
  <2>1. requests \in Seq(Tasks) /\ Len(actives) = Len(requests)
    BY <1>1, InputType DEF Affecting, PlanInv
  <2>2. ASSUME NEW i \in DOMAIN requests PROVE requests[i] \in Tasks /\ actives[i].modules \subseteq Modules
    <3>1. actives \in Seq([modules : SUBSET Modules, named : SUBSET Modules]) /\ i \in DOMAIN actives
      BY <1>1, <2>1 DEF Affecting
    <3>2. i \in 1 .. Len(actives)
      BY <2>1
    <3>3. actives[i] \in [modules : SUBSET Modules, named : SUBSET Modules]
      BY <3>1, <3>2, ElementOf
    <3> QED BY <2>1, <3>3
  <2> QED BY <2>2 DEF Selected, Nodes
<1>4. Starts \in SUBSET Nodes
  BY <1>3 DEF Starts
<1>5. /\ Seen \in SUBSET Nodes /\ Starts \subseteq Seen /\ ClosedUnder(Graph, Seen)
      /\ \A S \in SUBSET Nodes : Starts \subseteq S /\ ClosedUnder(Graph, S) => Seen \subseteq S
  BY <1>2, <1>4, FiniteNodes, ReachIsLeast DEF Seen
<1> DEFINE S == {n \in Nodes : n[2] \in Defined(n[1])}
<1>6. Starts \subseteq S
  BY <1>4 DEF Starts
<1>7. ClosedUnder(Graph, S)
  BY <1>1, PrerequisitesType DEF ClosedUnder, Graph
<1>8. Seen \subseteq S
  BY <1>5, <1>6, <1>7
<1>9. \A n \in Seen : Prerequisites(n) \subseteq Seen
  BY <1>5 DEF ClosedUnder, Graph
<1> QED BY <1>5, <1>8, <1>9

\* The expansion keeps the invariant: the tasks it adds follow the requested ones
\* and each node it reached is active in its task.
LEMMA ExpandKeeps ==
  ASSUME PlanInv, Expand
  PROVE  PlanInv'
<1>1. Given /\ Affecting /\ pc = "expand" /\ turn = Len(requests) + 1
  BY DEF Expand, PlanInv
<1>2. CASE Fail("undefined")
  <2>1. Given'
    BY <1>1, <1>2, InputKeeps DEF Fail
  <2> QED BY <1>2, <2>1 DEF Fail, PlanInv
<1>3. ASSUME ~ \E n \in Selected : n[2] \notin Defined(n[1]) PROVE PlanInv'
  <2>1. /\ needs' = [n \in Nodes |-> IF n \in Seen THEN Graph[n] ELSE {}]
        /\ requests' = requests \o Added
        /\ actives' = [i \in DOMAIN requests |-> [actives[i] EXCEPT !.modules = @ \cup SeenOn(requests[i])]]
                        \o [i \in DOMAIN Added |-> [modules |-> SeenOn(Added[i]), named |-> {}]]
        /\ pc' = "schedule" /\ turn' = 1 /\ UNCHANGED <<input, fault, units, skipped>>
    BY <1>3 DEF Expand, Graph, Seen, SeenOn, Added
  <2>2. /\ Seen \in SUBSET Nodes /\ Starts \subseteq Seen
        /\ \A n \in Seen : n[2] \in Defined(n[1]) /\ Prerequisites(n) \subseteq Seen
    BY <1>1, <1>3, SeenNodes
  <2>3. PICK k \in Nat : k = Len(requests)
    BY <1>1, InputType DEF Affecting
  <2> DEFINE T == {n[1] : n \in Seen} \ {requests[i] : i \in DOMAIN requests}
  <2>4. T \in SUBSET Tasks /\ IsFiniteSet(T)
    <3>1. T \in SUBSET Tasks
      BY <2>2 DEF Nodes
    <3> QED BY <3>1, PlanAssumption, FS_Subset
  <2>5. PICK l \in Nat : l = Cardinality(T)
    <3> HIDE DEF T
    <3> QED BY <2>4, FS_CardinalityType
  <2>6. /\ Added \in [1 .. l -> T]
        /\ \A i, j \in 1 .. l : Added[i] = Added[j] => i = j
        /\ \A x \in T : \E i \in 1 .. l : Added[i] = x
    <3>1. Added = Listed(T)
      BY DEF Added
    <3> HIDE DEF T
    <3> QED BY <2>4, <2>5, <3>1, ListedNamesAll
  <2>7. requests \in Seq(Tasks) /\ requests = input.requests
    BY <1>1, InputType DEF Affecting
  <2>8. Added \in Seq(Tasks) /\ Len(Added) = l
    <3> HIDE DEF T
    <3> QED BY <2>4, <2>6
  <2>9. /\ requests' \in Seq(Tasks) /\ Len(requests') = k + l
        /\ \A i \in 1 .. k : requests'[i] = requests[i]
        /\ \A i \in 1 .. l : requests'[k + i] = Added[i]
    <3> HIDE DEF T
    <3>1. PICK a \in Seq(Tasks) : a = requests /\ k = Len(a)
      BY <2>3, <2>7
    <3>2. PICK b \in Seq(Tasks) : b = Added /\ l = Len(b)
      BY <2>8
    <3>3. requests' = a \o b
      BY <2>1, <3>1, <3>2
    <3>4. /\ a \o b \in Seq(Tasks) /\ Len(a \o b) = k + l
          /\ \A i \in 1 .. k : (a \o b)[i] = a[i]
          /\ \A i \in 1 .. l : (a \o b)[k + i] = b[i]
      BY <2>3, <2>5, <3>1, <3>2, Joined
    <3> QED BY <3>1, <3>2, <3>3, <3>4
  <2> DEFINE Active1 == [i \in DOMAIN requests |-> [actives[i] EXCEPT !.modules = @ \cup SeenOn(requests[i])]]
             Active2 == [i \in DOMAIN Added |-> [modules |-> SeenOn(Added[i]), named |-> {}]]
             Act == [modules : SUBSET Modules, named : SUBSET Modules]
  <2>10. \A t : SeenOn(t) \subseteq Modules
    BY <2>2 DEF SeenOn, Nodes
  <2>11. actives \in Seq(Act) /\ Len(actives) = k
    BY <1>1, <2>3 DEF Affecting
  <2>12. Active1 \in Seq(Act) /\ Len(Active1) = k
    <3>1. ASSUME NEW i \in 1 .. k PROVE Active1[i] \in Act
      <4>1. i \in DOMAIN requests /\ actives[i] \in Act
        <5> HIDE DEF Act
        <5> QED BY <2>3, <2>7, <2>11, ElementOf
      <4> QED BY <2>10, <4>1
    <3>2. DOMAIN Active1 = 1 .. k
      BY <2>3, <2>7
    <3> HIDE DEF Act
    <3> QED BY <3>1, <3>2
  <2>13. Active2 \in Seq(Act) /\ Len(Active2) = l
    <3>1. ASSUME NEW i \in 1 .. l PROVE Active2[i] \in Act
      BY <2>8, <2>10
    <3>2. DOMAIN Active2 = 1 .. l
      BY <2>8
    <3> HIDE DEF Act
    <3> QED BY <3>1, <3>2
  <2>14. /\ actives' \in Seq(Act) /\ Len(actives') = k + l
         /\ \A i \in 1 .. k : actives'[i] = Active1[i]
         /\ \A i \in 1 .. l : actives'[k + i] = Active2[i]
    <3>1. actives' = Active1 \o Active2
      BY <2>1
    <3> HIDE DEF Active1, Active2, Act
    <3>2. PICK first, second, act : first = Active1 /\ second = Active2 /\ act = Act
      OBVIOUS
    <3>3. first \in Seq(act) /\ second \in Seq(act) /\ k = Len(first) /\ l = Len(second)
      BY <2>12, <2>13, <3>2
    <3>4. /\ first \o second \in Seq(act) /\ Len(first \o second) = k + l
          /\ \A i \in 1 .. k : (first \o second)[i] = first[i]
          /\ \A i \in 1 .. l : (first \o second)[k + i] = second[i]
      BY ONLY k \in Nat, l \in Nat, <3>3, Joined
    <3> QED BY <3>1, <3>2, <3>4
  <2>15. /\ \A i \in 1 .. k : actives'[i].modules = actives[i].modules \cup SeenOn(requests[i])
         /\ \A i \in 1 .. l : actives'[k + i].modules = SeenOn(Added[i])
    <3>1. \A i \in 1 .. k : i \in DOMAIN requests /\ actives[i] \in Act
      <4> HIDE DEF Act
      <4> QED BY <2>3, <2>7, <2>11, ElementOf
    <3>2. \A i \in 1 .. k : Active1[i].modules = actives[i].modules \cup SeenOn(requests[i])
      BY <3>1
    <3>3. \A i \in 1 .. l : Active2[i].modules = SeenOn(Added[i])
      BY <2>8
    <3> HIDE DEF Active1, Active2
    <3> QED BY <2>14, <3>2, <3>3
  <2> HIDE DEF Active1, Active2, Act
  <2>16. \A i \in 1 .. k + l : i \in 1 .. k \/ \E j \in 1 .. l : i = k + j
    <3>1. \A i \in 1 .. k + l : i \in 1 .. k \/ (i - k \in 1 .. l /\ i = k + (i - k))
      OBVIOUS
    <3> QED BY <3>1
  <2>17. /\ Indices' = 1 .. k + l
         /\ \A i \in Indices' : i \in 1 .. k \/ \E j \in 1 .. l : i = k + j
         /\ \A i \in 1 .. k : i \in Indices' /\ i \in Indices
         /\ \A j \in 1 .. l : k + j \in Indices'
    <3>1. Indices' = 1 .. k + l /\ Indices = 1 .. k
      BY <2>3, <2>9 DEF Indices
    <3>2. (\A i \in 1 .. k : i \in 1 .. k + l) /\ \A j \in 1 .. l : k + j \in 1 .. k + l
      OBVIOUS
    <3> QED BY <2>16, <3>1, <3>2
  <2>18. \A i, j \in Indices' : requests'[i] = requests'[j] => i = j
    <3>1. \A i, j \in 1 .. k : requests[i] = requests[j] => i = j
      BY <1>1, <2>3, <2>7, InputType
    <3>2. \A i \in 1 .. k : \A j \in 1 .. l : requests[i] # Added[j]
      BY <2>3, <2>6, <2>7
    <3> HIDE DEF T
    <3>3. SUFFICES ASSUME NEW i \in Indices', NEW j \in Indices', requests'[i] = requests'[j]
                   PROVE  i = j
      OBVIOUS
    <3>4. CASE i \in 1 .. k /\ j \in 1 .. k
      BY <2>9, <3>1, <3>3, <3>4
    <3>5. CASE \E a, b \in 1 .. l : i = k + a /\ j = k + b
      <4>1. PICK a \in 1 .. l, b \in 1 .. l : i = k + a /\ j = k + b
        BY <3>5
      <4>2. Added[a] = Added[b]
        BY <2>9, <3>3, <4>1
      <4> QED BY <2>6, <4>1, <4>2
    <3>6. CASE i \in 1 .. k /\ \E b \in 1 .. l : j = k + b
      BY <2>9, <3>2, <3>3, <3>6
    <3>7. CASE j \in 1 .. k /\ \E b \in 1 .. l : i = k + b
      BY <2>9, <3>2, <3>3, <3>7
    <3> QED BY <2>17, <3>4, <3>5, <3>6, <3>7
  <2>19. Given' /\ \A n : Prerequisites(n)' = Prerequisites(n)
    BY <1>1, <2>1, InputKeeps
  <2>20. Covers'
    <3> SUFFICES ASSUME input.by = "changed", NEW i \in DOMAIN input.requests, i \in DOMAIN actives'
                 PROVE  Active(input.requests[i]) \cap Defined(input.requests[i])
                          \subseteq actives'[i].modules
      BY <2>1, InputKeeps DEF Covers
    <3>1. i \in 1 .. k /\ i \in DOMAIN actives
      BY <2>3, <2>7, <2>11
    <3> QED BY <1>1, <2>15, <3>1 DEF Affecting, Covers
  <2>21. ASSUME NEW n \in Seen
         PROVE  (\E i \in Indices : requests[i] = n[1] /\ n[2] \in actives[i].modules)'
    <3> SUFFICES \E i \in Indices' : requests'[i] = n[1] /\ n[2] \in actives'[i].modules
      OBVIOUS
    <3>1. n[2] \in SeenOn(n[1])
      BY DEF SeenOn
    <3>2. CASE n[1] \in T
      <4>1. PICK j \in 1 .. l : Added[j] = n[1]
        <5> HIDE DEF T
        <5> QED BY <2>6, <3>2
      <4> QED BY <2>9, <2>15, <2>17, <3>1, <4>1
    <3>3. CASE n[1] \notin T
      <4>1. PICK i \in 1 .. k : requests[i] = n[1]
        BY <2>3, <2>7, <3>3
      <4> QED BY <2>9, <2>15, <2>17, <3>1, <4>1
    <3> QED BY <3>2, <3>3
  <2>22. ASSUME NEW i \in Indices', NEW m \in On(i)'
         PROVE  <<requests'[i], m>> \in Seen
    <3>1. m \in actives'[i].modules /\ Effective(requests'[i], m).eligible
      BY <2>1, InputKeeps DEF On
    <3>2. ASSUME NEW t, m \in SeenOn(t) PROVE <<t, m>> \in Seen
      <4>1. PICK n \in Seen : n[1] = t /\ n[2] = m
        BY <3>2 DEF SeenOn
      <4>2. n = <<n[1], n[2]>>
        BY <2>2 DEF Nodes
      <4> QED BY <4>1, <4>2
    <3>3. CASE i \in 1 .. k
      <4>1. CASE m \in SeenOn(requests[i])
        BY <2>9, <3>2, <3>3, <4>1
      <4>2. CASE m \in actives[i].modules
        <5>1. <<requests[i], m>> \in Selected
          BY <2>3, <2>7, <3>3, <4>2 DEF Selected
        <5>2. <<requests[i], m>> \in Starts
          BY <2>9, <3>1, <3>3, <5>1 DEF Starts
        <5> QED BY <2>2, <2>9, <3>3, <5>2
      <4> QED BY <2>15, <3>1, <3>3, <4>1, <4>2
    <3>4. ASSUME NEW j \in 1 .. l, i = k + j PROVE <<requests'[i], m>> \in Seen
      BY <2>9, <2>15, <3>1, <3>2, <3>4
    <3> QED BY <2>17, <3>3, <3>4
  <2>23. PICK walked \in SUBSET Nodes : walked = Seen
    BY <2>2
  <2>24. Expansion(walked)'
    <3>1. needs' = [n \in Nodes |-> IF n \in walked THEN Prerequisites(n)' ELSE {}]
      BY <2>23, <2>1, <2>19 DEF Graph
    <3>2. \A n \in walked : n[2] \in Defined(n[1])' /\ Prerequisites(n)' \subseteq walked
      BY <2>23, <2>1, <2>2, <2>19, InputKeeps
    <3>3. \A i \in Indices' : \A m \in On(i)' : <<requests'[i], m>> \in walked
      BY <2>23, <2>22
    <3>4. \A n \in walked : (\E i \in Indices : requests[i] = n[1] /\ n[2] \in actives[i].modules)'
      BY <2>23, <2>21
    <3> HIDE DEF T
    <3> QED BY <3>1, <3>2, <3>3, <3>4 DEF Expansion
  <2>25. Expanded'
    <3>1. (\E seen \in SUBSET Nodes : Expansion(seen))'
      BY <2>24
    <3>2. turn' \in 1 .. Len(requests') + 1
      BY <2>1, <2>9
    <3>3. /\ Len(input.requests) <= Len(requests')
          /\ \A i \in DOMAIN input.requests : requests'[i] = input.requests[i]
      <4>1. Len(input.requests) = k /\ DOMAIN input.requests = 1 .. k
        BY <2>3, <2>7
      <4>2. k <= Len(requests') /\ \A i \in 1 .. k : requests'[i] = input.requests[i]
        BY <2>7, <2>9
      <4> QED BY <4>1, <4>2
    <3>4. actives' \in Seq([modules : SUBSET Modules, named : SUBSET Modules])
      BY <2>14 DEF Act
    <3> QED BY <2>1, <2>9, <2>14, <2>18, <2>20, <3>1, <3>2, <3>3, <3>4 DEF Expanded
  <2>26. Scheduling' /\ EdgesHanded'
    <3>1. units' = <<>> /\ turn' = 1
      BY <1>1, <2>1 DEF Affecting
    <3>2. DOMAIN units' = {}
      BY <3>1
    <3>3. IsFiniteSet(DOMAIN units')
      BY <3>2, FS_EmptySet
    <3>4. 1 .. turn' - 1 = {}
      BY <3>1
    <3> QED BY <3>2, <3>3, <3>4 DEF Scheduling, EdgesHanded
  <2> QED BY <2>1, <2>19, <2>25, <2>26 DEF PlanInv
<1> QED BY <1>2, <1>3 DEF Expand
-----------------------------------------------------------------------------
(* Scheduling. *)

Ids(id, on) == {id[m] : m \in on}

\* Collapsing modules into commands gives a graph of commands, with an edge for
\* each edge between two of them.
LEMMA CollapseType ==
  ASSUME NEW on, NEW deps \in [on -> SUBSET on], NEW id
  PROVE  /\ Collapse(deps, id) \in [Ids(id, on) -> SUBSET Ids(id, on)]
         /\ \A m \in on : \A d \in deps[m] :
              id[d] # id[m] => id[d] \in Collapse(deps, id)[id[m]]
<1> DEFINE U == {id[m] : m \in on}
           Out(g) == (UNION {{id[d] : d \in deps[m]} : m \in {x \in on : id[x] = g}}) \ {g}
<1>1. Collapse(deps, id) = [g \in U |-> Out(g)]
  BY DEF Collapse
<1>2. \A g \in U : Out(g) \in SUBSET U
  OBVIOUS
<1>3. \A m \in on : \A d \in deps[m] : id[d] # id[m] => id[d] \in Out(id[m]) /\ id[m] \in U
  OBVIOUS
<1>4. U = Ids(id, on)
  BY DEF Ids
<1> HIDE DEF Out, U
<1> QED BY <1>1, <1>2, <1>3, <1>4

\* A set with two members counts more than one.
LEMMA TwoMembers ==
  ASSUME NEW S, IsFiniteSet(S), NEW x \in S, NEW y \in S, x # y
  PROVE  Cardinality(S) > 1
<1>1. /\ IsFiniteSet(S \ {x}) /\ Cardinality(S \ {x}) = Cardinality(S) - 1
      /\ Cardinality(S) \in Nat /\ Cardinality(S \ {x}) \in Nat
  BY FS_RemoveElement, FS_CardinalityType
<1>2. S \ {x} # {}
  OBVIOUS
<1>3. Cardinality(S \ {x}) # 0
  BY <1>1, <1>2, FS_EmptySet
<1> QED BY <1>1, <1>3

\* A command is of the task it is grouped for.
LEMMA GroupIdsType ==
  ASSUME NEW t, NEW kept
  PROVE  /\ GroupIds(t, kept) = [m \in DOMAIN kept |-> GroupIds(t, kept)[m]]
         /\ \A m \in DOMAIN kept : GroupIds(t, kept)[m].task = t
  BY DEF GroupIds

\* The modules a request is scheduled on.
LEMMA OnType ==
  ASSUME Expanded, NEW i \in Indices
  PROVE  On(i) \subseteq Modules /\ requests[i] \in Tasks /\ On(i) \subseteq actives[i].modules
<1>1. i \in 1 .. Len(actives) /\ actives \in Seq([modules : SUBSET Modules, named : SUBSET Modules])
  BY DEF Expanded, Indices
<1>2. actives[i] \in [modules : SUBSET Modules, named : SUBSET Modules]
  BY <1>1, ElementOf
<1>3. requests[i] \in Tasks
  BY ElementOf DEF Expanded, Indices
<1> QED BY <1>2, <1>3 DEF On

\* Nothing after the expansion changes what it found.
LEMMA ExpandedStays ==
  ASSUME Expanded, UNCHANGED <<input, requests, actives, needs>>, turn' \in 1 .. Len(requests) + 1
  PROVE  Expanded'
<1>1. \A i : On(i)' = On(i)
  BY InputKeeps DEF On
<1>2. Indices' = Indices
  BY DEF Indices
<1>3. PICK seen \in SUBSET Nodes : Expansion(seen)
  BY DEF Expanded
<1>4. Expansion(seen)'
  BY <1>1, <1>2, <1>3, InputKeeps DEF Expansion
<1>5. Covers'
  BY InputKeeps DEF Expanded, Covers
<1> QED BY <1>2, <1>4, <1>5 DEF Expanded

\* What holds of a task and its walked modules after a step holds of the
\* request that names them then.
LEMMA HandedAt ==
  ASSUME NEW i, NEW s, NEW ran, requests'[i] = s, On(i)' = ran, Handed(s, ran)'
  PROVE  Handed(requests[i], On(i))'
  BY DEF Handed

\* A task that is scheduled keeps its hand-offs while its units stand and gain
\* dependencies.
LEMMA HandedStays ==
  ASSUME NEW t, NEW on, Handed(t, on), UNCHANGED input,
         \A m \in on : UnitsOf(<<t, m>>)' = UnitsOf(<<t, m>>) /\ UnitsOf(<<t, m>>) # {},
         \A u \in DOMAIN units : units[u].deps \subseteq units'[u].deps
  PROVE  Handed(t, on)'
<1> DEFINE kept == Kept(t, on)
           unit == [m \in on |-> UnitOf(<<t, m>>)]
<1>1. Kept(t, on)' = kept
  BY InputKeeps
<1>2. \A m \in on : UnitOf(<<t, m>>)' = UnitOf(<<t, m>>) /\ UnitOf(<<t, m>>) \in DOMAIN units
  <2>1. \A m \in on : UnitOf(<<t, m>>)' = UnitOf(<<t, m>>)
    BY DEF UnitOf
  <2>2. \A m \in on : UnitOf(<<t, m>>) \in UnitsOf(<<t, m>>)
    BY DEF UnitOf
  <2> QED BY <2>1, <2>2 DEF UnitsOf
<1>3. [m \in on |-> UnitOf(<<t, m>>)'] = unit
  BY <1>2
<1>4. \A m \in on : Closed(t, m)' = Closed(t, m)
  BY InputKeeps
<1>5. ASSUME NEW m \in on, NEW d \in kept[m]
      PROVE  \/ unit[d] = unit[m]
             \/ unit[d] \in units'[unit[m]].deps
             \/ Closed(t, m)' /\ Cardinality(Component(Collapse(kept, unit), unit[m])) > 1
  <2>1. \/ unit[d] = unit[m]
        \/ unit[d] \in units[unit[m]].deps
        \/ Closed(t, m) /\ Cardinality(Component(Collapse(kept, unit), unit[m])) > 1
    BY DEF Handed
  <2>2. unit[m] \in DOMAIN units
    BY <1>2
  <2> QED BY <1>4, <2>1, <2>2
<1> HIDE DEF unit, kept
<1> QED BY <1>1, <1>3, <1>5 DEF Handed

\* Scheduling one task keeps the invariant: each module that may run is in one
\* command, and each of its edges stays in the command, is gated on, or lies on a
\* cycle of commands that resolve their own closure.
LEMMA ScheduleKeeps ==
  ASSUME PlanInv, ScheduleTask
  PROVE  PlanInv'
<1>1. /\ Given /\ Expanded /\ Scheduling /\ EdgesHanded /\ pc = "schedule"
      /\ turn \in 1 .. Len(requests) /\ turn \in Indices
  <2>1. pc = "schedule" /\ turn <= Len(requests)
    BY DEF ScheduleTask
  <2>2. Given /\ Expanded /\ Scheduling /\ EdgesHanded
    BY <2>1 DEF PlanInv
  <2>3. Len(requests) \in Nat /\ turn \in 1 .. Len(requests) + 1
    BY <2>2 DEF Expanded
  <2> QED BY <2>1, <2>2, <2>3 DEF Indices
<1>0. PICK k \in 1 .. Len(requests) : k = turn
  BY <1>1
<1>2. PICK t \in Tasks : t = requests[turn]
  BY <1>1, OnType
<1>3. PICK on \in SUBSET Modules : on = On(turn)
  BY <1>1, OnType
<1>4. actives[turn].modules \ {m \in actives[turn].modules : ~Effective(t, m).eligible} = on
  BY <1>2, <1>3 DEF On
<1>5. PICK kept \in [on -> SUBSET on] : kept = Kept(t, on)
  BY KeptType
<1>6. PICK id : id = GroupIds(t, kept)
  OBVIOUS
<1> DEFINE U == {id[m] : m \in on}
<1>7. PICK gated \in [U -> SUBSET U] : gated = Collapse(kept, id)
  <2>1. Collapse(kept, id) \in [U -> SUBSET U]
    <3>1. U = Ids(id, on)
      BY DEF Ids
    <3> HIDE DEF U
    <3> QED BY <3>1, CollapseType
  <2> HIDE DEF U
  <2> QED BY <2>1
<1>8. \A m \in on : \A d \in kept[m] : id[d] # id[m] => id[d] \in gated[id[m]]
  BY <1>7, CollapseType
<1>9. id = [m \in on |-> id[m]] /\ \A m \in on : id[m].task = t
  BY <1>5, <1>6, GroupIdsType
<1>10. IsFiniteSet(on) /\ IsFiniteSet(U)
  <2>1. IsFiniteSet(on)
    BY FiniteNodes, FS_Subset
  <2> QED BY <2>1, ImageIsFinite
<1>11. \A u \in U : /\ Condensed(gated)[u] \subseteq gated[u]
                    /\ \A v \in gated[u] : v \notin Component(gated, u) => v \in Condensed(gated)[u]
  BY DEF Condensed
<1>12. Levels(gated) \in [U -> Nat]
  <2> HIDE DEF U
  <2> QED BY <1>10, LevelsAreNat
<1> DEFINE fresh == [u \in U |-> [members |-> {m \in on : id[m] = u},
                                  deps |-> Condensed(gated)[u], wave |-> Levels(gated)[u]]]
           lacking == {m \in actives[turn].modules : ~Effective(t, m).eligible}
<1>13. ASSUME Fail("ineligible") \/ Fail("unit_cycle") PROVE PlanInv'
  <2>1. Given'
    BY <1>1, <1>13, InputKeeps DEF Fail
  <2> QED BY <1>13, <2>1 DEF Fail, PlanInv
<1>14. ASSUME /\ \A m \in on : Closed(t, m) \/ ~(Cardinality(Component(gated, id[m])) > 1)
              /\ units' = [u \in DOMAIN units \cup U |-> IF u \in DOMAIN units THEN units[u] ELSE fresh[u]]
              /\ skipped' = skipped \cup ({t} \X lacking)
              /\ turn' = turn + 1
              /\ UNCHANGED <<input, pc, fault, requests, actives, needs>>
       PROVE  PlanInv'
  <2>1. Given' /\ Expanded'
    <3>1. turn' \in 1 .. Len(requests) + 1
      BY <1>1, <1>14 DEF Expanded
    <3> QED BY <1>1, <1>14, <3>1, InputKeeps, ExpandedStays
  <2>2. DOMAIN units \cap U = {}
    <3> SUFFICES ASSUME NEW u \in DOMAIN units, u \in U PROVE FALSE
      OBVIOUS
    <3>1. u.task = t
      BY <1>9
    <3>2. PICK i \in 1 .. turn - 1 : u.task = requests[i]
      BY <1>1 DEF Scheduling
    <3>3. i \in Indices /\ i # turn
      BY <1>1, <3>2 DEF Indices
    <3> QED BY <1>1, <1>2, <3>1, <3>2, <3>3 DEF Expanded
  <2>3. /\ DOMAIN units' = DOMAIN units \cup U
        /\ \A u \in DOMAIN units : units'[u] = units[u]
        /\ \A u \in U : units'[u] = fresh[u]
    <3>2. DOMAIN fresh = U
      OBVIOUS
    <3> HIDE DEF fresh, U
    <3> QED BY <1>14, <2>2, <3>2
  <2>4. \A u \in U : /\ units'[u].members = {m \in on : id[m] = u}
                     /\ units'[u].deps = Condensed(gated)[u] /\ units'[u].wave = Levels(gated)[u]
                     /\ units'[u] = [members |-> units'[u].members, deps |-> units'[u].deps,
                                     wave |-> units'[u].wave]
                     /\ u.task = t
    <3>1. \A u \in U : u.task = t
      BY <1>9
    <3> HIDE DEF U
    <3> QED BY <2>3, <3>1
  <2> HIDE DEF fresh
  <2>5. /\ \A i \in 1 .. turn - 1 : i \in Indices /\ requests[i] # t
        /\ 1 .. turn' - 1 = (1 .. turn - 1) \cup {turn}
    <3>1. turn \in Nat /\ turn # 0 /\ Len(requests) \in Nat /\ turn <= Len(requests)
      BY <1>1 DEF Expanded
    <3>2. \A i \in 1 .. turn - 1 : i \in Indices /\ i # turn
      BY <3>1 DEF Indices
    <3>3. 1 .. turn' - 1 = (1 .. turn - 1) \cup {turn}
      BY <1>14, <3>1
    <3> QED BY <1>1, <1>2, <3>2, <3>3 DEF Expanded
  <2>6. \A i : On(i)' = On(i)
    BY <1>14, InputKeeps DEF On
  <2>7. ASSUME NEW i \in 1 .. turn - 1, NEW m PROVE UnitsOf(<<requests[i], m>>)' = UnitsOf(<<requests[i], m>>)
    <3>1. requests'[i] = requests[i] /\ requests[i] # t
      BY <1>14, <2>5
    <3>2. \A u \in DOMAIN units' : u.task = requests[i] => u \in DOMAIN units
      BY <2>3, <2>4, <3>1
    <3> HIDE DEF U
    <3> QED BY <2>3, <3>1, <3>2 DEF UnitsOf
  <2>8. ASSUME NEW m \in on PROVE UnitsOf(<<t, m>>)' = {id[m]}
    <3>1. \A u \in DOMAIN units : u.task # t
      BY <1>1, <2>5 DEF Scheduling
    <3>2. id[m] \in U
      OBVIOUS
    <3> HIDE DEF U
    <3>3. \A u \in DOMAIN units' : u.task = t /\ m \in units'[u].members <=> u = id[m]
      BY <2>3, <2>4, <3>1, <3>2
    <3> QED BY <2>3, <3>2, <3>3 DEF UnitsOf
  <2>9. Scheduling'
    <3>1. IsFiniteSet(DOMAIN units')
      <4>1. IsFiniteSet(DOMAIN units)
        BY <1>1 DEF Scheduling
      <4> HIDE DEF U
      <4>2. IsFiniteSet(DOMAIN units \cup U)
        BY <1>10, <4>1, FS_Union
      <4> QED BY <2>3, <4>2
    <3>2. ASSUME NEW u \in DOMAIN units'
          PROVE  /\ units'[u] = [members |-> units'[u].members, deps |-> units'[u].deps,
                                 wave |-> units'[u].wave]
                 /\ units'[u].deps \subseteq DOMAIN units' /\ units'[u].wave \in Nat
                 /\ \E i \in 1 .. turn' - 1 : u.task = requests'[i] /\ units'[u].members \subseteq On(i)'
      <4>1. CASE u \in DOMAIN units
        <5>1. units'[u] = units[u]
          BY <2>3, <4>1
        <5>2. PICK i \in 1 .. turn - 1 : u.task = requests[i] /\ units[u].members \subseteq On(i)
          BY <1>1, <4>1 DEF Scheduling
        <5>3. i \in 1 .. turn' - 1 /\ u.task = requests'[i] /\ units'[u].members \subseteq On(i)'
          BY <1>14, <2>5, <2>6, <5>1, <5>2
        <5>4. /\ units[u].deps \subseteq DOMAIN units /\ units[u].wave \in Nat
              /\ units[u] = [members |-> units[u].members, deps |-> units[u].deps,
                             wave |-> units[u].wave]
          BY <1>1, <4>1 DEF Scheduling
        <5> HIDE DEF U
        <5> QED BY <2>3, <5>1, <5>3, <5>4
      <4>2. CASE u \in U
        <5>1. k \in 1 .. turn' - 1 /\ requests'[k] = t /\ on = On(k)'
          BY <1>0, <1>2, <1>3, <1>14, <2>5, <2>6
        <5>2. units'[u].members \subseteq on
          BY <2>4, <4>2
        <5>3. Condensed(gated)[u] \subseteq U
          BY <1>11, <4>2
        <5> HIDE DEF U
        <5>4. /\ units'[u].deps \subseteq DOMAIN units' /\ units'[u].wave \in Nat
              /\ units'[u] = [members |-> units'[u].members, deps |-> units'[u].deps,
                              wave |-> units'[u].wave]
          BY <1>12, <2>3, <2>4, <4>2, <5>3
        <5>5. u.task = t
          BY <2>4, <4>2
        <5> QED BY <5>1, <5>2, <5>4, <5>5
      <4> QED BY <2>3, <4>1, <4>2
    <3>3. ASSUME NEW u \in DOMAIN units', NEW v \in DOMAIN units', u.task = v.task,
                 units'[u].members \cap units'[v].members # {}
          PROVE  u = v
      <4>1. CASE u \in DOMAIN units /\ v \in DOMAIN units
        <5>1. units'[u] = units[u] /\ units'[v] = units[v]
          BY <2>3, <4>1
        <5> QED BY <1>1, <3>3, <4>1, <5>1 DEF Scheduling
      <4>2. CASE u \in U /\ v \in U
        <5>1. PICK m : m \in units'[u].members /\ m \in units'[v].members
          BY <3>3
        <5>2. /\ m \in units'[u].members => id[m] = u
              /\ m \in units'[v].members => id[m] = v
          <6> HIDE DEF U
          <6>1. units'[u].members = {x \in on : id[x] = u}
            BY <2>4, <4>2
          <6>2. units'[v].members = {x \in on : id[x] = v}
            BY <2>4, <4>2
          <6> QED BY <6>1, <6>2
        <5> QED BY <5>1, <5>2
      <4>3. \A w \in DOMAIN units : w.task # t
        BY <1>1, <2>5 DEF Scheduling
      <4>4. \A w \in U : w.task = t
        BY <2>4
      <4> HIDE DEF U
      <4> QED BY <2>3, <3>3, <4>1, <4>2, <4>3, <4>4
    <3>4. ASSUME NEW i \in 1 .. turn' - 1
          PROVE  /\ \A m \in On(i)' : UnitsOf(<<requests[i], m>>)' # {}
                 /\ {requests'[i]} \X (actives'[i].modules \ On(i)') \subseteq skipped'
      <4>1. CASE i \in 1 .. turn - 1
        <5>1. /\ \A m \in On(i) : UnitsOf(<<requests[i], m>>) # {}
              /\ {requests[i]} \X (actives[i].modules \ On(i)) \subseteq skipped
          BY <1>1, <4>1 DEF Scheduling
        <5>2. skipped \subseteq skipped' /\ requests'[i] = requests[i] /\ actives'[i] = actives[i]
          BY <1>14
        <5>3. \A m \in On(i)' : UnitsOf(<<requests[i], m>>)' # {}
          BY <2>6, <2>7, <4>1, <5>1
        <5> QED BY <2>6, <5>1, <5>2, <5>3
      <4>2. CASE i = turn
        <5>1. \A m \in on : UnitsOf(<<t, m>>)' # {}
          BY <2>8
        <5>2. t = requests'[i] /\ On(i)' = on /\ t = requests[i]
          BY <1>2, <1>3, <1>14, <2>6, <4>2
        <5>3. \A m : UnitsOf(<<requests[i], m>>)' = UnitsOf(<<t, m>>)'
          BY <1>14, <5>2 DEF UnitsOf
        <5>4. actives'[i].modules \ on \subseteq lacking /\ {t} \X lacking \subseteq skipped'
          BY <1>4, <1>14, <4>2
        <5> QED BY <5>1, <5>2, <5>3, <5>4
      <4> QED BY <2>5, <4>1, <4>2
    <3> QED BY <3>1, <3>2, <3>3, <3>4 DEF Scheduling
  <2>10. ASSUME NEW i \in 1 .. turn' - 1 PROVE Handed(requests[i], On(i))'
    <3>1. CASE i \in 1 .. turn - 1
      <4>1. PICK s, ran : s = requests[i] /\ ran = On(i)
        OBVIOUS
      <4>2. Handed(s, ran)
        BY <1>1, <3>1, <4>1 DEF EdgesHanded
      <4>3. ASSUME NEW m \in ran
            PROVE  UnitsOf(<<s, m>>)' = UnitsOf(<<s, m>>) /\ UnitsOf(<<s, m>>) # {}
        <5>1. UnitsOf(<<requests[i], m>>)' = UnitsOf(<<requests[i], m>>)
          BY <2>7, <3>1
        <5>2. UnitsOf(<<requests[i], m>>)' = UnitsOf(<<s, m>>)'
          BY <1>14, <4>1 DEF UnitsOf
        <5> QED BY <1>1, <3>1, <4>1, <5>1, <5>2 DEF Scheduling
      <4>4. Handed(s, ran)'
        BY <1>14, <2>3, <4>2, <4>3, HandedStays
      <4>5. requests'[i] = s /\ On(i)' = ran
        BY <1>14, <2>6, <4>1
      <4> QED BY <4>4, <4>5, HandedAt
    <3>2. CASE i = turn
      <4>1. requests'[i] = t /\ On(i)' = on
        BY <1>2, <1>3, <1>14, <2>6, <3>2
      <4>2. Handed(t, on)'
        <5>1. Kept(t, on)' = kept
          BY <1>5, <1>14, InputKeeps
        <5>2. \A m \in on : UnitOf(<<t, m>>)' = id[m]
          BY <2>8 DEF UnitOf
        <5>3. [m \in on |-> UnitOf(<<t, m>>)'] = id
          BY <1>9, <5>2
        <5>4. ASSUME NEW m \in on, NEW d \in kept[m], id[d] # id[m], id[d] \notin units'[id[m]].deps
              PROVE  Closed(t, m)' /\ Cardinality(Component(gated, id[m])) > 1
          <6>1. id[m] \in U /\ id[d] \in U
            OBVIOUS
          <6>2. id[d] \in gated[id[m]]
            BY <1>8, <5>4
          <6>3. id[d] \in Component(gated, id[m])
            BY <1>11, <2>4, <5>4, <6>1, <6>2
          <6> HIDE DEF U
          <6>4. id[m] \in Component(gated, id[m])
            BY <1>10, <6>1, ComponentIsPaths, PathStarts
          <6>5. Component(gated, id[m]) \in SUBSET U
            BY <1>10, <6>1, ReachIsLeast DEF Component
          <6>6. Cardinality(Component(gated, id[m])) > 1
            BY <1>10, <5>4, <6>3, <6>4, <6>5, FS_Subset, TwoMembers
          <6> QED BY <1>14, <6>6, InputKeeps
        <5>5. Collapse(kept, id) = gated
          BY <1>7
        <5> HIDE DEF U
        <5> QED BY <5>1, <5>2, <5>3, <5>4, <5>5 DEF Handed
      <4> QED BY <4>1, <4>2, HandedAt
    <3> QED BY <2>5, <3>1, <3>2
  <2> QED BY <1>1, <1>14, <2>1, <2>9, <2>10 DEF PlanInv, EdgesHanded
<1>15. \/ Fail("ineligible") \/ Fail("unit_cycle")
       \/ /\ \A m \in on : Closed(t, m) \/ ~(Cardinality(Component(gated, id[m])) > 1)
          /\ units' = [u \in DOMAIN units \cup U |-> IF u \in DOMAIN units THEN units[u] ELSE fresh[u]]
          /\ skipped' = skipped \cup ({t} \X lacking)
          /\ turn' = turn + 1
          /\ UNCHANGED <<input, pc, fault, requests, actives, needs>>
  <2> DEFINE T == requests[turn]
             lack  == {m \in actives[turn].modules : ~Effective(T, m).eligible}
             keptT == Kept(T, actives[turn].modules \ lack)
             idT   == GroupIds(T, keptT)
             gatesT == Collapse(keptT, idT)
  <2>1. \/ Fail("ineligible") \/ Fail("unit_cycle")
        \/ /\ ~ \E m \in DOMAIN keptT :
                    ~Closed(T, m) /\ Cardinality(Component(gatesT, idT[m])) > 1
           /\ units' = [u \in DOMAIN units \cup DOMAIN gatesT |->
                          IF u \in DOMAIN units THEN units[u]
                          ELSE [members |-> {m \in DOMAIN keptT : idT[m] = u},
                                deps |-> Condensed(gatesT)[u], wave |-> Levels(gatesT)[u]]]
           /\ skipped' = skipped \cup ({T} \X lack)
           /\ turn' = turn + 1
           /\ UNCHANGED <<input, pc, fault, requests, actives, needs>>
    BY DEF ScheduleTask
  <2>2. T = t /\ lack = lacking /\ keptT = kept
    BY <1>2, <1>4, <1>5
  <2>3. idT = id
    BY <1>6, <2>2
  <2>4. gatesT = gated /\ DOMAIN kept = on /\ DOMAIN gated = U
    BY <1>7, <2>2, <2>3
  <2> HIDE DEF T, lack, keptT, idT, gatesT, U, lacking
  <2>5. CASE /\ ~ \E m \in on : ~Closed(t, m) /\ Cardinality(Component(gated, id[m])) > 1
             /\ units' = [u \in DOMAIN units \cup U |->
                            IF u \in DOMAIN units THEN units[u]
                            ELSE [members |-> {m \in on : id[m] = u},
                                  deps |-> Condensed(gated)[u], wave |-> Levels(gated)[u]]]
             /\ skipped' = skipped \cup ({t} \X lacking)
             /\ turn' = turn + 1
             /\ UNCHANGED <<input, pc, fault, requests, actives, needs>>
    <3>1. units' = [u \in DOMAIN units \cup U |-> IF u \in DOMAIN units THEN units[u] ELSE fresh[u]]
      BY <2>5
    <3> HIDE DEF fresh
    <3> QED BY <2>5, <3>1
  <2> HIDE DEF fresh
  <2> QED BY <2>1, <2>2, <2>3, <2>4, <2>5
<1> QED BY <1>13, <1>14, <1>15
-----------------------------------------------------------------------------
(* Linking. *)

\* What more edges and other waves leave as it was.
LEMMA UnitsStay ==
  ASSUME Expanded, Scheduling, EdgesHanded,
         UNCHANGED <<input, requests, actives, needs, turn, skipped>>,
         DOMAIN units' = DOMAIN units,
         \A u \in DOMAIN units :
           /\ units'[u] = [members |-> units'[u].members, deps |-> units'[u].deps,
                           wave |-> units'[u].wave]
           /\ units'[u].members = units[u].members /\ units'[u].wave \in Nat
           /\ units[u].deps \subseteq units'[u].deps /\ units'[u].deps \subseteq DOMAIN units
  PROVE  Expanded' /\ Scheduling' /\ EdgesHanded' /\ \A n : UnitsOf(n)' = UnitsOf(n)
<1>1. Expanded'
  BY ExpandedStays DEF Expanded
<1>2. \A i : On(i)' = On(i)
  BY InputKeeps DEF On
<1>3. \A n : UnitsOf(n)' = UnitsOf(n)
  BY DEF UnitsOf
<1>4. Scheduling'
  <2>1. IsFiniteSet(DOMAIN units')
    BY DEF Scheduling
  <2>2. ASSUME NEW u \in DOMAIN units'
        PROVE  \E i \in 1 .. turn' - 1 : u.task = requests'[i] /\ units'[u].members \subseteq On(i)'
    BY <1>2 DEF Scheduling
  <2>3. ASSUME NEW u \in DOMAIN units', NEW v \in DOMAIN units', u.task = v.task,
               units'[u].members \cap units'[v].members # {}
        PROVE  u = v
    BY <2>3 DEF Scheduling
  <2>4. ASSUME NEW i \in 1 .. turn' - 1
        PROVE  /\ \A m \in On(i)' : UnitsOf(<<requests[i], m>>)' # {}
               /\ {requests'[i]} \X (actives'[i].modules \ On(i)') \subseteq skipped'
    <3>1. \A m : UnitsOf(<<requests[i], m>>)' = UnitsOf(<<requests[i], m>>)
      BY DEF UnitsOf
    <3> QED BY <1>2, <3>1 DEF Scheduling
  <2> QED BY <2>1, <2>2, <2>3, <2>4 DEF Scheduling
<1>5. ASSUME NEW i \in 1 .. turn' - 1 PROVE Handed(requests[i], On(i))'
  <2>1. PICK s, ran : s = requests[i] /\ ran = On(i)
    OBVIOUS
  <2>2. Handed(s, ran)
    BY <2>1 DEF EdgesHanded
  <2>3. \A m \in ran : UnitsOf(<<s, m>>)' = UnitsOf(<<s, m>>) /\ UnitsOf(<<s, m>>) # {}
    BY <1>3, <2>1 DEF Scheduling
  <2>4. Handed(s, ran)'
    BY <2>2, <2>3, HandedStays
  <2>5. requests'[i] = s /\ On(i)' = ran
    BY <1>2, <2>1
  <2> QED BY <2>4, <2>5 DEF Handed
<1> QED BY <1>1, <1>3, <1>4, <1>5 DEF EdgesHanded

\* The end of the scheduling keeps it.
LEMMA ScheduledKeeps ==
  ASSUME PlanInv, Scheduled
  PROVE  PlanInv'
<1>1. /\ Given /\ Expanded /\ Scheduling /\ EdgesHanded
      /\ UNCHANGED <<input, fault, requests, actives, needs, turn, units, skipped>> /\ pc' = "link"
  BY DEF Scheduled, PlanInv
<1>2. Expanded' /\ Scheduling' /\ EdgesHanded'
  <2>1. \A u \in DOMAIN units :
           /\ units'[u] = [members |-> units'[u].members, deps |-> units'[u].deps,
                           wave |-> units'[u].wave]
           /\ units'[u].wave \in Nat /\ units'[u].deps \subseteq DOMAIN units
    BY <1>1 DEF Scheduling
  <2> QED BY <1>1, <2>1, UnitsStay
<1>3. Given'
  BY <1>1, InputKeeps
<1>4. turn = Len(requests) + 1
  BY <1>1 DEF Scheduled, Expanded
<1> QED BY <1>1, <1>2, <1>3, <1>4 DEF PlanInv

\* What a node resolves to stays while its prerequisites and the units do.
LEMMA ResolveStays ==
  ASSUME UNCHANGED needs, \A n : UnitsOf(n)' = UnitsOf(n)
  PROVE  \A n : Resolve(n)' = Resolve(n)
<1> DEFINE through == [p \in Nodes |-> IF UnitsOf(p) = {} THEN needs[p] ELSE {}]
<1>1. through' = through
  OBVIOUS
<1>2. ASSUME NEW n PROVE (UNION {UnitsOf(p) : p \in Reach(through, {n})})'
                           = UNION {UnitsOf(p) : p \in Reach(through, {n})}
  <2> HIDE DEF through
  <2> QED BY <1>1
<1> QED BY <1>2 DEF Resolve

\* A unit is linked to units of the plan.
LEMMA TargetsType == \A u : Targets(u) \subseteq DOMAIN units
<1>1. \A n : UnitsOf(n) \subseteq DOMAIN units
  BY DEF UnitsOf
<1>2. \A n : Resolve(n) \subseteq DOMAIN units
  BY <1>1 DEF Resolve
<1> QED BY <1>2 DEF Targets

Wanted(u) == UNION {needs[<<u.task, m>>] : m \in units[u].members}

\* What a unit is linked to does not change as units are linked.
LEMMA TargetsStay ==
  ASSUME NEW u, UNCHANGED needs, units'[u].members = units[u].members,
         \A n : Resolve(n)' = Resolve(n)
  PROVE  Targets(u)' = Targets(u)
<1>1. Wanted(u)' = Wanted(u)
  BY DEF Wanted
<1>2. Targets(u) = (UNION {Resolve(p) : p \in Wanted(u)}) \ {u}
  BY DEF Targets, Wanted
<1>3. Targets(u)' = (UNION {Resolve(p)' : p \in Wanted(u)'}) \ {u}
  BY DEF Targets, Wanted
<1>4. {Resolve(p)' : p \in Wanted(u)'} = {Resolve(p) : p \in Wanted(u)}
  BY <1>1
<1> QED BY <1>2, <1>3, <1>4

\* Linking and levelling keep it: gates are added, never taken away, and the waves
\* are the levels of all of them.
LEMMA LinkKeeps ==
  ASSUME PlanInv, Link
  PROVE  PlanInv'
<1> DEFINE D == DOMAIN units
           deps == [u \in DOMAIN units |-> units[u].deps \cup Targets(u)]
           floor == [u \in DOMAIN units |-> units[u].wave]
           wave == LevelsAbove(floor, deps)
<1>1. Given /\ Expanded /\ Scheduling /\ EdgesHanded /\ turn = Len(requests) + 1
  BY DEF Link, PlanInv
<1>2. \/ Fail("link_cycle") \/ Fail("nothing_applies")
      \/ /\ \A u \in DOMAIN units : u \notin Reach(deps, deps[u])
         /\ units' = [u \in DOMAIN units |-> [units[u] EXCEPT !.deps = deps[u], !.wave = wave[u]]]
         /\ pc' = "done"
         /\ UNCHANGED <<input, fault, requests, actives, needs, turn, skipped>>
  BY DEF Link
<1>3. CASE Fail("link_cycle") \/ Fail("nothing_applies")
  <2>1. Given'
    BY <1>1, <1>3, InputKeeps DEF Fail
  <2> QED BY <1>3, <2>1 DEF Fail, PlanInv
<1>4. CASE /\ \A u \in DOMAIN units : u \notin Reach(deps, deps[u])
           /\ units' = [u \in DOMAIN units |-> [units[u] EXCEPT !.deps = deps[u], !.wave = wave[u]]]
           /\ pc' = "done"
           /\ UNCHANGED <<input, fault, requests, actives, needs, turn, skipped>>
  <2>1. PICK d : d = DOMAIN units
    OBVIOUS
  <2>2. PICK g \in [d -> SUBSET d] : g = deps
    BY <1>1, <2>1, TargetsType DEF Scheduling
  <2>3. PICK f \in [d -> Nat] : f = floor
    BY <1>1, <2>1 DEF Scheduling
  <2>4. /\ LevelsAbove(f, g) \in [d -> Nat]
        /\ \A u \in d : \A v \in g[u] : LevelsAbove(f, g)[v] < LevelsAbove(f, g)[u]
    <3>1. IsFiniteSet(d) /\ \A u \in d : u \notin Reach(g, g[u])
      BY <1>1, <1>4, <2>1, <2>2 DEF Scheduling
    <3> QED BY <3>1, LevelsAboveRise
  <2>5. PICK w \in [d -> Nat] : w = LevelsAbove(f, g)
    BY <2>4
  <2>6. units' = [u \in d |-> [units[u] EXCEPT !.deps = g[u], !.wave = w[u]]]
    BY <1>4, <2>1, <2>2, <2>3, <2>5
  <2> HIDE DEF deps, floor, wave
  <2>7. ASSUME NEW u \in d
        PROVE  /\ units'[u] = [members |-> units[u].members, deps |-> g[u], wave |-> w[u]]
               /\ units'[u].members = units[u].members /\ units'[u].deps = g[u] /\ units'[u].wave = w[u]
    <3>1. units[u] = [members |-> units[u].members, deps |-> units[u].deps, wave |-> units[u].wave]
      BY <1>1, <2>1 DEF Scheduling
    <3>2. units'[u] = [units[u] EXCEPT !.deps = g[u], !.wave = w[u]]
      BY <2>6
    <3> QED BY <3>1, <3>2
  <2>8. \A u \in d : units[u].deps \subseteq g[u] /\ Targets(u) \subseteq g[u] /\ g[u] \subseteq d
    BY <2>1, <2>2 DEF deps
  <2>9. DOMAIN units' = d
    BY <2>6
  <2>10. Expanded' /\ Scheduling' /\ EdgesHanded' /\ \A n : UnitsOf(n)' = UnitsOf(n)
    <3>1. \A u \in DOMAIN units :
            /\ units'[u] = [members |-> units'[u].members, deps |-> units'[u].deps,
                            wave |-> units'[u].wave]
            /\ units'[u].members = units[u].members /\ units'[u].wave \in Nat
            /\ units[u].deps \subseteq units'[u].deps /\ units'[u].deps \subseteq DOMAIN units
      BY <2>1, <2>7, <2>8
    <3> QED BY <1>1, <1>4, <2>1, <2>9, <3>1, UnitsStay
  <2>11. ASSUME NEW u \in d PROVE Targets(u)' = Targets(u)
    <3>1. \A n : Resolve(n)' = Resolve(n)
      BY <1>4, <2>10, ResolveStays
    <3>2. units'[u].members = units[u].members
      BY <2>7
    <3> QED BY <1>4, <3>1, <3>2, TargetsStay
  <2>12. Linked'
    <3>1. ASSUME NEW u \in d
          PROVE  Targets(u)' \subseteq units'[u].deps
                 /\ \A v \in units'[u].deps : units'[v].wave < units'[u].wave
      <4>1. units'[u].deps = g[u] /\ g[u] \subseteq d
        BY <2>7, <2>8
      <4>2. \A v \in g[u] : w[v] < w[u]
        BY <2>4, <2>5
      <4>3. \A v \in g[u] : units'[v].wave = w[v] /\ units'[u].wave = w[u]
        BY <2>7, <4>1
      <4> QED BY <2>8, <2>11, <4>1, <4>2, <4>3
    <3> QED BY <2>9, <3>1 DEF Linked
  <2>13. Given'
    BY <1>1, <1>4, InputKeeps
  <2> QED BY <1>1, <1>4, <2>10, <2>12, <2>13 DEF PlanInv
<1> QED BY <1>2, <1>3, <1>4

\* Every phase of the pipeline keeps the invariant.
LEMMA PlanKeeps == PlanInv /\ [Next]_vars => PlanInv'
<1> SUFFICES ASSUME PlanInv, [Next]_vars PROVE PlanInv'
  OBVIOUS
<1>1. CASE UNCHANGED vars
  <2>1. UNCHANGED <<input, pc, fault, requests, actives, needs, turn, units, skipped>>
    BY <1>1 DEF vars
  <2>2. Given'
    BY <2>1, InputKeeps DEF PlanInv
  <2>3. pc \in {"affected", "expand"} => Affecting'
    BY <2>1, InputKeeps DEF PlanInv, Affecting, Covers, NoNeeds
  <2>4. pc \in {"schedule", "link", "done"} => Expanded' /\ Scheduling' /\ EdgesHanded' /\ \A n : UnitsOf(n)' = UnitsOf(n)
    <3> SUFFICES ASSUME Expanded, Scheduling, EdgesHanded
                 PROVE  Expanded' /\ Scheduling' /\ EdgesHanded' /\ \A n : UnitsOf(n)' = UnitsOf(n)
      BY DEF PlanInv
    <3>1. \A u \in DOMAIN units :
             /\ units'[u] = [members |-> units'[u].members, deps |-> units'[u].deps,
                             wave |-> units'[u].wave]
             /\ units'[u].wave \in Nat /\ units'[u].deps \subseteq DOMAIN units
      BY <2>1 DEF Scheduling
    <3> QED BY <2>1, <3>1, UnitsStay
  <2>5. pc = "done" => Linked'
    <3> SUFFICES ASSUME pc = "done" PROVE Linked'
      OBVIOUS
    <3>1. Linked
      BY DEF PlanInv
    <3>2. \A n : Resolve(n)' = Resolve(n)
      BY <2>1, <2>4, ResolveStays
    <3>3. \A u : Targets(u)' = Targets(u)
      BY <2>1, <3>2, TargetsStay
    <3> QED BY <2>1, <3>1, <3>3 DEF Linked
  <2> QED BY <2>1, <2>2, <2>3, <2>4, <2>5 DEF PlanInv
<1>2. CASE Next
  BY <1>2, AffectKeeps, AffectedKeeps, ExpandKeeps, ScheduleKeeps, ScheduledKeeps, LinkKeeps DEF Next
<1> QED BY <1>1, <1>2

\* The invariant of the pipeline, for every project and request: what the phases
\* hand each other from selection to linked waves.
THEOREM PlanAlways == Spec => []PlanInv
  BY InitPlan, PlanKeeps, PTL DEF Spec
-----------------------------------------------------------------------------
\* A set whose members are all the same has at most one.
LEMMA AtMostOne ==
  ASSUME NEW S, \A x, y \in S : x = y
  PROVE  Cardinality(S) <= 1
<1>1. CASE S = {}
  BY <1>1, FS_EmptySet
<1>2. CASE S # {}
  <2>1. PICK x : S = {x}
    BY <1>2
  <2> QED BY <2>1, FS_Singleton
<1> QED BY <1>1, <1>2

\* Every (task, module) is in one unit at most.
LEMMA OneUnit ==
  ASSUME Scheduling, NEW n \in Nodes
  PROVE  \A u, v \in UnitsOf(n) : u = v
  BY DEF Scheduling, UnitsOf

\* What the invariant says of a plan.
LEMMA PlannedInv ==
  ASSUME PlanInv, Planned
  PROVE  Given /\ Expanded /\ Scheduling /\ EdgesHanded /\ Linked /\ turn = Len(requests) + 1
<1>1. pc = "done"
  BY DEF Planned
<1>2. pc = "done" => Given /\ Expanded /\ Scheduling /\ EdgesHanded /\ Linked /\ turn = Len(requests) + 1
  BY DEF PlanInv
<1> QED BY <1>1, <1>2

\* A unit gated on units of strictly earlier waves only.
LEMMA InvGatesRunEarlier == PlanInv => GatesRunEarlier
<1> SUFFICES ASSUME PlanInv, Planned PROVE GatesRunEarlier
  BY DEF GatesRunEarlier
<1>1. Scheduling /\ Linked
  BY PlannedInv
<1>2. \A n \in Nodes : Cardinality(UnitsOf(n)) <= 1
  BY <1>1, OneUnit, AtMostOne
<1>3. \A u \in DOMAIN units : \A d \in units[u].deps :
         d \in DOMAIN units /\ units[d].wave < units[u].wave
  BY <1>1 DEF Scheduling, Linked
<1> QED BY <1>2, <1>3 DEF GatesRunEarlier

\* Every gate of a plan that APPLY gets is a unit of the plan, in an earlier wave.
THEOREM GatesAlways == Spec => []GatesRunEarlier
  BY PlanAlways, InvGatesRunEarlier, PTL
-----------------------------------------------------------------------------
(* What runs only after what. *)

\* The gates of the units are a finite graph, the one the waves level.
LEMMA GatesType ==
  ASSUME Scheduling
  PROVE  /\ IsFiniteSet(DOMAIN units)
         /\ Gates \in [DOMAIN units -> SUBSET DOMAIN units]
         /\ \A u \in DOMAIN units : Gates[u] = units[u].deps /\ units[u].wave \in Nat
  BY DEF Scheduling, Gates

\* A unit runs behind each of its gates.
LEMMA BehindGate ==
  ASSUME Scheduling, Linked, NEW u \in DOMAIN units, NEW v \in units[u].deps
  PROVE  Behind(u, v)
<1>1. v \in Reach(Gates, {u})
  BY GatesType, PathStarts DEF Path
<1> QED BY <1>1 DEF Behind, Linked

\* To run behind is transitive.
LEMMA BehindJoins ==
  ASSUME Scheduling, NEW u \in DOMAIN units, NEW v \in DOMAIN units, NEW w \in DOMAIN units,
         Behind(u, v), Behind(v, w)
  PROVE  Behind(u, w)
<1>1. CASE u = v \/ v = w
  BY <1>1
<1>2. CASE u # v /\ v # w
  <2>1. Path(Gates, u, v) /\ Path(Gates, v, w)
    BY <1>2 DEF Behind, Path
  <2>2. Path(Gates, u, w)
    BY <2>1, GatesType, PathJoins
  <2>3. units[w].wave < units[u].wave
    BY <1>2, GatesType DEF Behind
  <2> QED BY <2>2, <2>3 DEF Behind, Path
<1> QED BY <1>1, <1>2

\* A node the expansion walked has a unit exactly when it may run.
LEMMA SeenRuns ==
  ASSUME Given, Expanded, Scheduling, turn = Len(requests) + 1,
         NEW seen \in SUBSET Nodes, Expansion(seen), NEW n \in seen
  PROVE  UnitsOf(n) # {} <=> Effective(n[1], n[2]).eligible
<1>1. PICK i \in Indices : requests[i] = n[1] /\ n[2] \in actives[i].modules
  BY DEF Expansion
<1>2. i \in 1 .. turn - 1
  BY <1>1 DEF Expanded, Indices
<1>3. n = <<requests[i], n[2]>>
  BY <1>1 DEF Nodes
<1>4. ASSUME Effective(n[1], n[2]).eligible PROVE UnitsOf(n) # {}
  <2>1. n[2] \in On(i)
    BY <1>1, <1>4 DEF On
  <2> QED BY <1>2, <1>3, <2>1 DEF Scheduling
<1>5. ASSUME NEW u \in UnitsOf(n) PROVE Effective(n[1], n[2]).eligible
  <2>1. u \in DOMAIN units /\ u.task = n[1] /\ n[2] \in units[u].members
    BY DEF UnitsOf
  <2>2. PICK j \in 1 .. turn - 1 : u.task = requests[j] /\ units[u].members \subseteq On(j)
    BY <2>1 DEF Scheduling
  <2> QED BY <2>1, <2>2 DEF On
<1> QED BY <1>4, <1>5

\* The member of a unit was walked.
LEMMA MembersAreSeen ==
  ASSUME Expanded, Scheduling, turn = Len(requests) + 1,
         NEW seen \in SUBSET Nodes, Expansion(seen),
         NEW u \in DOMAIN units, NEW m \in units[u].members
  PROVE  <<u.task, m>> \in seen
<1>1. PICK i \in 1 .. turn - 1 : u.task = requests[i] /\ units[u].members \subseteq On(i)
  BY DEF Scheduling
<1>2. i \in Indices
  BY <1>1 DEF Expanded, Indices
<1> QED BY <1>1, <1>2 DEF Expansion

\* The invariant implies that prerequisites run first: each is found where it runs,
\* or further back through the nodes that have no unit, and gated on.
LEMMA InvPrerequisitesFirst == PlanInv => PrerequisitesFirst
<1> SUFFICES ASSUME PlanInv, Planned, NEW u \in DOMAIN units, NEW m \in units[u].members,
                    NEW p \in Required(<<u.task, m>>)
             PROVE  \E v \in UnitsOf(p) : Behind(u, v)
  BY DEF PrerequisitesFirst
<1>1. Given /\ Expanded /\ Scheduling /\ Linked /\ turn = Len(requests) + 1
  BY PlannedInv
<1>2. PICK seen \in SUBSET Nodes : Expansion(seen)
  BY <1>1 DEF Expanded
<1>3. PICK n \in seen : n = <<u.task, m>>
  BY <1>1, <1>2, MembersAreSeen
<1>4. PICK before \in SUBSET Nodes : before = Prerequisites(n)
  BY <1>1, PrerequisitesType
<1>5. before \subseteq seen /\ needs[n] = before
  BY <1>2, <1>4 DEF Expansion
<1> DEFINE config == [x \in Nodes |->
                        IF x[2] \in Defined(x[1]) /\ Effective(x[1], x[2]).eligible
                        THEN {} ELSE Prerequisites(x)]
           linked == [x \in Nodes |-> IF UnitsOf(x) = {} THEN needs[x] ELSE {}]
<1>6. PICK through \in [Nodes -> SUBSET Nodes] : through = config
  BY <1>1, PrerequisitesType
<1>7. PICK link \in [Nodes -> SUBSET Nodes] : link = linked
  <2>1. \A x \in Nodes : needs[x] \subseteq Nodes
    BY <1>1, <1>2, PrerequisitesType DEF Expansion
  <2> QED BY <2>1
<1>8. \A x \in seen : through[x] = link[x] /\ through[x] \subseteq seen
  <2> SUFFICES ASSUME NEW x \in seen PROVE through[x] = link[x] /\ through[x] \subseteq seen
    OBVIOUS
  <2>1. x[2] \in Defined(x[1]) /\ needs[x] = Prerequisites(x) /\ Prerequisites(x) \subseteq seen
    BY <1>2 DEF Expansion
  <2>2. UnitsOf(x) # {} <=> Effective(x[1], x[2]).eligible
    BY <1>1, <1>2, SeenRuns
  <2> QED BY <1>6, <1>7, <2>1, <2>2
<1>9. p \in Reach(through, before) /\ Effective(p[1], p[2]).eligible
  BY <1>3, <1>4, <1>6 DEF Required
<1> DEFINE S == {x \in seen : \E q \in before : Path(link, q, x)}
<1>10. S \in SUBSET Nodes /\ before \subseteq S
  BY <1>5, FiniteNodes, PathStarts
<1>11. ClosedUnder(through, S)
  <2> SUFFICES ASSUME NEW x \in S, NEW y \in through[x] PROVE y \in S
    BY DEF ClosedUnder
  <2>1. y \in link[x] /\ y \in seen /\ x \in Nodes /\ y \in Nodes
    BY <1>8
  <2>2. PICK q \in before : Path(link, q, x)
    OBVIOUS
  <2>3. Path(link, x, y)
    BY <2>1, FiniteNodes, PathStarts
  <2>4. Path(link, q, y)
    BY <2>1, <2>2, <2>3, FiniteNodes, PathJoins
  <2> QED BY <2>1, <2>4
<1>12. p \in S
  <2> HIDE DEF S
  <2>1. Reach(through, before) \subseteq S
    BY <1>10, <1>11, FiniteNodes, ReachIsLeast
  <2> QED BY <1>9, <2>1
<1>13. PICK q \in before : Path(link, q, p)
  BY <1>12
<1>14. PICK v \in UnitsOf(p) : TRUE
  BY <1>1, <1>2, <1>9, <1>12, SeenRuns
<1>15. v \in Resolve(q)
  <2>1. p \in Reach(linked, {q})
    BY <1>7, <1>13 DEF Path
  <2> HIDE DEF linked
  <2>2. Resolve(q) = UNION {UnitsOf(x) : x \in Reach(linked, {q})}
    BY DEF Resolve, linked
  <2> QED BY <1>14, <2>1, <2>2
<1>16. v \in Targets(u) \/ v = u
  <2>1. q \in needs[<<u.task, m>>]
    BY <1>3, <1>5
  <2> QED BY <1>15, <2>1 DEF Targets
<1>17. CASE v = u
  BY <1>14, <1>17 DEF Behind
<1>18. CASE v \in Targets(u)
  <2>1. v \in units[u].deps
    BY <1>1, <1>18 DEF Linked
  <2> QED BY <1>1, <1>14, <2>1, BehindGate
<1> QED BY <1>16, <1>17, <1>18

\* Whatever a task of a module needs, itself or through nodes that run nothing, runs
\* in an earlier wave that it is gated on.
THEOREM PrerequisitesAlways == Spec => []PrerequisitesFirst
  BY PlanAlways, InvPrerequisitesFirst, PTL
-----------------------------------------------------------------------------
(* What a change may reach. *)

\* The invariant implies that a change is planned for: what it reaches is active,
\* and what is active runs or is reported as skipped.
LEMMA InvNeverSkipABuild == PlanInv => NeverSkipABuild
<1> SUFFICES ASSUME PlanInv, Planned, input.by = "changed",
                    NEW p \in input.changes, NEW i \in DOMAIN input.requests,
                    NEW touched, touched = {x \in Modules :
                      \/ p \in input.global
                      \/ input.blast[p] = None /\ (input.roots[p] = {} \/ x \in Owners(p))
                      \/ input.blast[p] = input.workspace[x]},
                    NEW m \in Defined(input.requests[i]),
                    Reach(Forward(input.requests[i]), {m}) \cap touched # {}
             PROVE  UnitsOf(<<input.requests[i], m>>) # {} \/ <<input.requests[i], m>> \in skipped
  BY DEF NeverSkipABuild
<1>1. Given /\ Expanded /\ Scheduling /\ turn = Len(requests) + 1
  BY PlannedInv
<1>2. PICK t : t = input.requests[i]
  OBVIOUS
<1>3. m \in Modules /\ IsFiniteSet(Modules)
  BY FiniteNodes DEF Defined
<1>4. PICK deps \in [Modules -> SUBSET Modules] : deps = Forward(t)
  BY <1>1, ForwardType
<1>5. PICK x \in touched : Path(deps, m, x)
  BY <1>2, <1>4 DEF Path
<1>6. PICK from \in SUBSET Modules : from = (UNION {Seeds(q) : q \in input.changes}) \cup input.external
  BY <1>1, SeedsType
<1>7. x \in Modules /\ x \in from
  <2>1. x \in Seeds(p)
    <3>1. \A y \in Modules : input.workspace[y] # None
      BY <1>1, PlanAssumption DEF Given
    <3>2. p \in Paths
      BY <1>1, InputType
    <3> QED BY <1>5, <3>1, <3>2 DEF Seeds, Everything
  <2> QED BY <1>5, <1>6, <2>1
<1>8. Path(Dependents(deps), x, m)
  BY <1>3, <1>5, <1>7, PathTurned
<1>9. Dependents(deps) \in [Modules -> SUBSET Modules]
  BY DEF Dependents
<1>10. m \in Reach(Dependents(deps), from)
  BY <1>3, <1>7, <1>8, <1>9, ReachGrows
<1>11. m \in Active(t) \cap Defined(t)
  BY <1>2, <1>4, <1>6, <1>10 DEF Active
<1>12. i \in Indices /\ i \in DOMAIN actives /\ requests[i] = t /\ i \in 1 .. turn - 1
  BY <1>1, <1>2, InputType DEF Expanded, Indices
<1>13. m \in actives[i].modules
  BY <1>1, <1>2, <1>11, <1>12 DEF Expanded, Covers
<1>14. CASE m \in On(i)
  BY <1>1, <1>2, <1>12, <1>14 DEF Scheduling
<1>15. CASE m \notin On(i)
  <2>1. <<requests[i], m>> \in {requests[i]} \X (actives[i].modules \ On(i))
    BY <1>13, <1>15
  <2> QED BY <1>1, <1>2, <1>12, <2>1 DEF Scheduling
<1> QED BY <1>14, <1>15

\* Whatever path changed, each module the change may reach is planned, unless its
\* task has nothing to run there.
THEOREM BuildsAlways == Spec => []NeverSkipABuild
  BY PlanAlways, InvNeverSkipABuild, PTL
-----------------------------------------------------------------------------
(* What a module hands to its dependents. *)

\* The invariant implies the hand-offs: along a path of dependencies each step stays
\* in its command or goes behind, up to the first cycle of commands it enters.
LEMMA InvHandoffsKept == PlanInv => HandoffsKept
<1> SUFFICES ASSUME PlanInv, Planned, NEW t \in Tasks,
                    NEW running, running = {m \in Modules : UnitsOf(<<t, m>>) # {}},
                    NEW kept, kept = Kept(t, running),
                    NEW unit, unit = [m \in running |-> UnitOf(<<t, m>>)],
                    NEW whole, whole = Collapse(kept, unit),
                    NEW a \in running, NEW b \in Reach(kept, {a})
             PROVE  \/ Behind(unit[a], unit[b])
                    \/ \E c \in Reach(kept, {a}) :
                         /\ Closed(t, c) /\ Cardinality(Component(whole, unit[c])) > 1
                         /\ b \in Reach(kept, {c}) /\ Behind(unit[a], unit[c])
  BY DEF HandoffsKept
<1>1. /\ Given /\ Expanded /\ Scheduling /\ EdgesHanded /\ Linked /\ turn = Len(requests) + 1
  BY PlannedInv
<1>2. ASSUME NEW m \in running
      PROVE  \E i \in 1 .. turn - 1 : requests[i] = t /\ m \in On(i)
  <2>1. PICK u \in DOMAIN units : u.task = t /\ m \in units[u].members
    BY DEF UnitsOf
  <2> QED BY <1>1, <2>1 DEF Scheduling
<1>3. PICK i \in 1 .. turn - 1 : requests[i] = t /\ a \in On(i)
  BY <1>2
<1>4. i \in Indices /\ On(i) \subseteq Modules
  BY <1>1, <1>3, OnType DEF Expanded, Indices
<1>5. running = On(i)
  <2>1. ASSUME NEW m \in running PROVE m \in On(i)
    <3>1. PICK j \in 1 .. turn - 1 : requests[j] = t /\ m \in On(j)
      BY <1>2
    <3>2. j \in Indices
      BY <1>1, <3>1 DEF Expanded, Indices
    <3>3. i = j
      BY <1>1, <1>3, <1>4, <3>1, <3>2 DEF Expanded
    <3> QED BY <3>1, <3>3
  <2>2. ASSUME NEW m \in On(i) PROVE m \in running
    BY <1>1, <1>3, <1>4 DEF Scheduling
  <2> QED BY <2>1, <2>2
<1>6. Handed(t, running)
  BY <1>1, <1>3, <1>5 DEF EdgesHanded
<1>7. IsFiniteSet(running) /\ kept \in [running -> SUBSET running]
  <2>1. running \in SUBSET Modules
    OBVIOUS
  <2> QED BY <2>1, FiniteNodes, FS_Subset, KeptType
<1>8. \A m \in running : unit[m] \in DOMAIN units
  BY DEF UnitOf, UnitsOf
<1> DEFINE Entry(c) == Closed(t, c) /\ Cardinality(Component(whole, unit[c])) > 1
           Kept2(x) == \/ Behind(unit[a], unit[x])
                       \/ \E c \in Reach(kept, {a}) :
                            Entry(c) /\ x \in Reach(kept, {c}) /\ Behind(unit[a], unit[c])
           S == {x \in running : x \in Reach(kept, {a}) /\ Kept2(x)}
<1>9. \A m \in running : \A d \in kept[m] :
        \/ unit[d] = unit[m] \/ unit[d] \in units[unit[m]].deps \/ Entry(m)
  BY <1>6 DEF Handed
<1>10. a \in S
  <2>1. Behind(unit[a], unit[a]) /\ a \in Reach(kept, {a})
    BY <1>7, PathStarts DEF Behind, Path
  <2> QED BY <2>1
<1>11. ASSUME NEW x \in S, NEW d \in kept[x] PROVE d \in S
  <2>1. x \in running /\ d \in running /\ Path(kept, a, x) /\ Path(kept, x, d)
    BY <1>7, PathStarts DEF Path
  <2>2. d \in Reach(kept, {a})
    BY <1>7, <2>1, PathJoins DEF Path
  <2>3. CASE Behind(unit[a], unit[x]) /\ (unit[d] = unit[x] \/ unit[d] \in units[unit[x]].deps)
    <3>1. Behind(unit[x], unit[d])
      BY <1>1, <1>8, <2>1, <2>3, BehindGate DEF Behind
    <3>2. Behind(unit[a], unit[d])
      BY <1>1, <1>8, <2>1, <2>3, <3>1, BehindJoins
    <3> QED BY <2>1, <2>2, <3>2
  <2>4. CASE Behind(unit[a], unit[x]) /\ Entry(x)
    <3>1. x \in Reach(kept, {a}) /\ d \in Reach(kept, {x})
      BY <2>1 DEF Path
    <3> HIDE DEF Entry
    <3> QED BY <2>1, <2>2, <2>4, <3>1
  <2>5. ASSUME NEW c \in Reach(kept, {a}), Entry(c), x \in Reach(kept, {c}), Behind(unit[a], unit[c])
        PROVE  d \in S
    <3>1. c \in running /\ Path(kept, c, x)
      BY <1>7, <2>5, PathStarts DEF Path
    <3>2. d \in Reach(kept, {c})
      BY <1>7, <2>1, <3>1, PathJoins DEF Path
    <3> HIDE DEF Entry
    <3> QED BY <2>1, <2>2, <2>5, <3>2
  <2> HIDE DEF Entry
  <2> QED BY <1>9, <2>1, <2>3, <2>4, <2>5
<1>12. b \in S
  <2>1. S \in SUBSET running /\ ClosedUnder(kept, S) /\ Path(kept, a, b)
    <3>1. S \in SUBSET running
      OBVIOUS
    <3> HIDE DEF S
    <3> QED BY <1>11, <3>1 DEF ClosedUnder, Path
  <2> HIDE DEF S
  <2> QED BY <1>7, <1>10, <2>1, PathStays
<1> QED BY <1>12

\* A module runs in the command of what it depends on or behind it, through any
\* number of modules between, but for the cycles of commands that resolve their
\* own closure.
THEOREM HandoffsAlways == Spec => []HandoffsKept
  BY PlanAlways, InvHandoffsKept, PTL
=============================================================================
