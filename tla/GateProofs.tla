------------------------------ MODULE GateProofs ------------------------------
(***************************************************************************)
(* The gate, for every dependency map.  First the operators of module      *)
(* Gate: the set reached by a reverse walk is the least closed set, and    *)
(* failing a unit leaves a gate in which nothing Pending lies below a      *)
(* failure.  Then the worklist loop of GateWalk: it computes that set on   *)
(* every graph and leaves the gate fail-closed.                            *)
(***************************************************************************)
EXTENDS GateWalk, TLAPS

\* The walk stays inside the units it may enter.
LEMMA ReachedSubset ==
  ASSUME NEW deps, NEW u, NEW within
  PROVE  ReachedWithin(deps, u, within) \subseteq within
  BY DEF ReachedWithin

\* The reached set is itself closed: one more step along reverse edges adds nothing.
LEMMA ReachedClosed ==
  ASSUME NEW deps, NEW u, NEW within
  PROVE  ClosedFrom(deps, u, within, ReachedWithin(deps, u, within))
<1> DEFINE R == ReachedWithin(deps, u, within)
<1> SUFFICES ASSUME NEW w \in R \cup {u}, NEW v \in Dependents(deps, w) \cap within
             PROVE  v \in R
    BY DEF ClosedFrom
<1>1. ASSUME NEW S \in SUBSET within, ClosedFrom(deps, u, within, S)
      PROVE  v \in S
  <2>1. w \in S \cup {u}
    BY <1>1 DEF ReachedWithin
  <2> QED BY <1>1, <2>1 DEF ClosedFrom
<1> QED BY <1>1 DEF ReachedWithin

\* And it is the least one: a closed set contains it.
LEMMA ReachedLeast ==
  ASSUME NEW deps, NEW u, NEW within, NEW S \in SUBSET within,
         ClosedFrom(deps, u, within, S)
  PROVE  ReachedWithin(deps, u, within) \subseteq S
  BY DEF ReachedWithin

\* A set that is closed and lies below every closed set is the reached one.
LEMMA ReachedUnique ==
  ASSUME NEW deps, NEW u, NEW within, NEW S \in SUBSET within,
         ClosedFrom(deps, u, within, S),
         \A T \in SUBSET within : ClosedFrom(deps, u, within, T) => S \subseteq T
  PROVE  S = ReachedWithin(deps, u, within)
<1>1. ReachedWithin(deps, u, within) \subseteq S
  BY ReachedLeast
<1>2. ReachedWithin(deps, u, within) \in SUBSET within
  BY ReachedSubset
<1>3. S \subseteq ReachedWithin(deps, u, within)
  BY <1>2, ReachedClosed
<1> QED BY <1>1, <1>3

\* Whatever is reached is reached from somewhere: from u or from another member.
LEMMA ReachedHasCause ==
  ASSUME NEW deps, NEW u, NEW within, NEW v \in ReachedWithin(deps, u, within)
  PROVE  \E w \in ReachedWithin(deps, u, within) \cup {u} : v \in Dependents(deps, w)
<1> DEFINE R == ReachedWithin(deps, u, within)
<1> SUFFICES ASSUME \A w \in R \cup {u} : v \notin Dependents(deps, w)
             PROVE  FALSE
    OBVIOUS
<1>1. R \ {v} \in SUBSET within
  BY ReachedSubset
<1>2. ClosedFrom(deps, u, within, R \ {v})
  BY ReachedClosed DEF ClosedFrom
<1> QED BY <1>1, <1>2, ReachedLeast

\* Failing a unit yields a gate over the same units.
LEMMA FailAndBlockType ==
  ASSUME NEW Units, NEW deps, NEW gate \in [Units -> GateState], NEW u \in Units
  PROVE  FailAndBlock(deps, gate, u) \in [Units -> GateState]
  BY DEF FailAndBlock, GateState

\* Everything newly blocked was Pending, and is not the failed unit.
LEMMA BlockedWerePending ==
  ASSUME NEW deps, NEW gate, NEW u
  PROVE  BlockedBy(deps, gate, u) \subseteq PendingUnits(gate) \ {u}
  BY ReachedSubset DEF BlockedBy

\* What is still Pending afterwards depends neither on the failed unit nor on
\* a blocked one: the gate is fail-closed.
LEMMA PendingClearOfFailure ==
  ASSUME NEW Units, NEW deps, DOMAIN deps = Units,
         NEW gate \in [Units -> GateState], NEW u \in Units,
         NEW v \in PendingUnits(FailAndBlock(deps, gate, u))
  PROVE  /\ v \in PendingUnits(gate) \ {u}
         /\ u \notin deps[v]
         /\ deps[v] \cap BlockedBy(deps, gate, u) = {}
<1> DEFINE within == PendingUnits(gate) \ {u}
           R == BlockedBy(deps, gate, u)
<1>1. v \in within /\ v \notin R
  BY DEF PendingUnits, FailAndBlock
<1>2. ClosedFrom(deps, u, within, R)
  BY ReachedClosed DEF BlockedBy
<1>3. ASSUME NEW w \in R \cup {u}, w \in deps[v]
      PROVE  FALSE
  <2>1. v \in Dependents(deps, w) \cap within
    BY <1>1, <1>3 DEF Dependents, PendingUnits
  <2> QED BY <1>1, <1>2, <2>1 DEF ClosedFrom
<1> QED BY <1>1, <1>3
-----------------------------------------------------------------------------
\* Every state of the gate and of a walk is well-typed.
THEOREM GateTypeCorrect == WalkSpec => []WalkTypeOK
<1>1. WalkInit => WalkTypeOK
  BY DependencyMapsAssumption DEF WalkInit, WalkTypeOK, NewGate, GateState
<1>2. WalkTypeOK /\ [WalkNext]_walkVars => WalkTypeOK'
  <2> SUFFICES ASSUME WalkTypeOK, [WalkNext]_walkVars PROVE WalkTypeOK'
    OBVIOUS
  <2> USE DEF WalkTypeOK, GateState
  <2>0. \A w : Dependents(graph, w) \subseteq GateIds
    BY DependencyMapsAssumption DEF Dependents
  <2>1. CASE Return
    BY <2>1 DEF Return
  <2>2. ASSUME NEW u \in GateIds, CallSatisfy(u) PROVE WalkTypeOK'
    BY <2>2 DEF CallSatisfy, Satisfy
  <2>3. ASSUME NEW u \in GateIds, CallFail(u) PROVE WalkTypeOK'
    BY <2>0, <2>3 DEF CallFail
  <2>4. ASSUME NEW u \in GateIds, VisitSeen(u) PROVE WalkTypeOK'
    BY <2>4 DEF VisitSeen
  <2>5. ASSUME NEW u \in GateIds, VisitSettled(u) PROVE WalkTypeOK'
    BY <2>5 DEF VisitSettled
  <2>6. ASSUME NEW u \in GateIds, VisitPending(u) PROVE WalkTypeOK'
    BY <2>0, <2>6 DEF VisitPending
  <2>7. CASE UNCHANGED walkVars
    BY <2>7 DEF walkVars
  <2> QED BY <2>1, <2>2, <2>3, <2>4, <2>5, <2>6, <2>7 DEF WalkNext
<1> QED BY <1>1, <1>2, PTL DEF WalkSpec

\* A call to fail a unit establishes the loop invariant.
LEMMA CallEstablishesInv ==
  ASSUME WalkTypeOK, LoopHolds, NEW u \in GateIds, CallFail(u)
  PROVE  LoopHolds'
<1> USE DEF WalkTypeOK, CallFail
<1>1. origin' = {u} /\ earlier'[u] = "Pending" /\ returned' = {} /\ visited' = {}
  OBVIOUS
<1>2. states' = [v \in GateIds |-> IF v = u THEN "Failed" ELSE earlier'[v]]
  OBVIOUS
<1>3. \A S \in SUBSET LoopReach(u)' : ClosedFrom(graph, u, LoopReach(u)', S)
        => Dependents(graph, u) \cap LoopReach(u)' \subseteq S
  BY DEF ClosedFrom
<1>4. LoopInv(u)'
  BY <1>1, <1>2, <1>3 DEF LoopInv
<1> QED BY <1>1, <1>4 DEF LoopHolds

\* One visit of the worklist keeps it.
LEMMA VisitKeepsInv ==
  ASSUME WalkTypeOK, LoopHolds, NEW v \in GateIds,
         VisitSeen(v) \/ VisitSettled(v) \/ VisitPending(v)
  PROVE  LoopHolds'
<1>1. UNCHANGED <<graph, origin, earlier>>
  BY DEF VisitSeen, VisitSettled, VisitPending
<1>0. origin # {}
  BY DEF VisitSeen, VisitSettled, VisitPending, LoopHolds
<1> SUFFICES ASSUME NEW u \in origin, LoopInv(u) PROVE LoopInv(u)'
  BY <1>0, <1>1 DEF LoopHolds
<1>2. LoopReach(u)' = LoopReach(u)
  BY <1>1 DEF LoopReach
<1>3. LoopReach(u) \subseteq GateIds /\ \A w \in GateIds : w \in LoopReach(u) <=> w # u /\ earlier[w] = "Pending"
  BY DEF LoopReach, PendingUnits, WalkTypeOK
<1>4. CASE VisitSeen(v)
  BY <1>1, <1>2, <1>4 DEF VisitSeen, LoopInv
<1>5. CASE VisitSettled(v)
  <2>1. v \in LoopReach(u) => v \in returned
    BY <1>3, <1>5 DEF VisitSettled, LoopInv
  <2> QED BY <1>1, <1>2, <1>5, <2>1 DEF VisitSettled, LoopInv
<1>6. CASE VisitPending(v)
  <2>1. v \in LoopReach(u)
    BY <1>3, <1>6 DEF VisitPending, LoopInv
  <2>2. states' = [w \in GateIds |-> IF w = u THEN "Failed" ELSE IF w \in returned' THEN "Blocked"
                               ELSE earlier[w]]
    BY <1>3, <1>6, <2>1 DEF VisitPending, LoopInv, WalkTypeOK
  <2>3. \A w \in returned' \cup {u} :
          Dependents(graph, w) \cap LoopReach(u) \subseteq returned' \cup worklist'
    BY <1>6 DEF VisitPending, LoopInv
  <2>4. ASSUME NEW S \in SUBSET LoopReach(u), ClosedFrom(graph, u, LoopReach(u), S)
        PROVE  returned' \cup (worklist' \cap LoopReach(u)) \subseteq S
    <3>1. returned \cup (worklist \cap LoopReach(u)) \subseteq S
      BY <2>4 DEF LoopInv
    <3>2. v \in S
      BY <1>6, <2>1, <3>1 DEF VisitPending
    <3>3. Dependents(graph, v) \cap LoopReach(u) \subseteq S
      BY <2>4, <3>2 DEF ClosedFrom
    <3> QED BY <1>6, <3>1, <3>2, <3>3 DEF VisitPending
  <2>5. returned' \subseteq LoopReach(u) /\ visited' \cap LoopReach(u) \subseteq returned'
    BY <1>6, <2>1 DEF VisitPending, LoopInv
  <2> QED BY <1>1, <1>2, <2>2, <2>3, <2>4, <2>5 DEF LoopInv
<1> QED BY <1>4, <1>5, <1>6

\* The loop invariant holds in every reachable state.
THEOREM LoopInvariant == WalkSpec => []LoopHolds
<1>1. WalkInit => LoopHolds
  BY DEF WalkInit, LoopHolds
<1>2. WalkTypeOK /\ LoopHolds /\ [WalkNext]_walkVars => LoopHolds'
  <2> SUFFICES ASSUME WalkTypeOK, LoopHolds, [WalkNext]_walkVars PROVE LoopHolds'
    OBVIOUS
  <2>1. CASE Return
    BY <2>1 DEF Return, LoopHolds
  <2>2. ASSUME NEW u \in GateIds, CallSatisfy(u) PROVE LoopHolds'
    BY <2>2 DEF CallSatisfy, LoopHolds
  <2>3. ASSUME NEW u \in GateIds, CallFail(u) PROVE LoopHolds'
    BY <2>3, CallEstablishesInv
  <2>4. ASSUME NEW u \in GateIds, VisitSeen(u) \/ VisitSettled(u) \/ VisitPending(u)
        PROVE  LoopHolds'
    BY <2>4, VisitKeepsInv
  <2>5. CASE UNCHANGED walkVars
    <3>1. \A u : LoopReach(u)' = LoopReach(u)
      BY <2>5 DEF walkVars, LoopReach
    <3>2. \A u : LoopInv(u) => LoopInv(u)'
      BY <2>5, <3>1 DEF walkVars, LoopInv
    <3> QED BY <2>5, <3>2 DEF walkVars, LoopHolds
  <2> QED BY <2>1, <2>2, <2>3, <2>4, <2>5 DEF WalkNext
<1> QED BY <1>1, <1>2, GateTypeCorrect, PTL DEF WalkSpec

\* When the worklist is empty the loop has computed the least fixed point.
THEOREM LoopComputesFixpoint == WalkSpec => []WalkIsFixpoint
<1>1. WalkTypeOK /\ LoopHolds => WalkIsFixpoint
  <2> SUFFICES ASSUME WalkTypeOK, NEW u \in origin, LoopInv(u), worklist = {}
               PROVE  /\ returned = BlockedBy(graph, earlier, u)
                      /\ states = FailAndBlock(graph, earlier, u)
    BY DEF LoopHolds, WalkIsFixpoint
  <2>1. ClosedFrom(graph, u, LoopReach(u), returned)
    BY DEF LoopInv, ClosedFrom
  <2>2. returned = BlockedBy(graph, earlier, u)
    <3>1. returned \in SUBSET LoopReach(u)
      BY DEF LoopInv
    <3>2. ASSUME NEW S \in SUBSET LoopReach(u), ClosedFrom(graph, u, LoopReach(u), S)
          PROVE  returned \subseteq S
      BY <3>2 DEF LoopInv
    <3>3. returned = ReachedWithin(graph, u, LoopReach(u))
      BY <2>1, <3>1, <3>2, ReachedUnique
    <3> QED BY <3>3 DEF BlockedBy, LoopReach
  <2>3. states = FailAndBlock(graph, earlier, u)
    BY <2>2 DEF LoopInv, FailAndBlock, WalkTypeOK
  <2> QED BY <2>2, <2>3
<1> QED BY <1>1, GateTypeCorrect, LoopInvariant, PTL

\* Failing a Pending unit of a fail-closed gate leaves it fail-closed.
LEMMA FailKeepsClosed ==
  ASSUME WalkTypeOK, NEW u \in GateIds, earlier[u] = "Pending", ClosedOff(earlier),
         states = FailAndBlock(graph, earlier, u)
  PROVE  ClosedOff(states)
<1> DEFINE R == BlockedBy(graph, earlier, u)
<1>1. /\ \A v \in GateIds : states[v] = IF v = u THEN "Failed" ELSE IF v \in R THEN "Blocked"
                                 ELSE earlier[v]
      /\ R \subseteq PendingUnits(earlier) \ {u}
  BY BlockedWerePending DEF FailAndBlock, WalkTypeOK
<1>2. FailedOrBlocked(states) = FailedOrBlocked(earlier) \cup R \cup {u}
  BY <1>1 DEF FailedOrBlocked, PendingUnits, WalkTypeOK, GateState
<1>3. ASSUME NEW v \in GateIds, states[v] = "Pending"
      PROVE  graph[v] \cap FailedOrBlocked(states) = {}
  <2>1. v \in PendingUnits(FailAndBlock(graph, earlier, u))
    BY <1>3 DEF PendingUnits, WalkTypeOK
  <2>2. u \notin graph[v] /\ graph[v] \cap R = {}
    BY <2>1, PendingClearOfFailure, DependencyMapsAssumption DEF WalkTypeOK
  <2>3. graph[v] \cap FailedOrBlocked(earlier) = {}
    BY <1>1, <1>3 DEF ClosedOff
  <2> QED BY <1>2, <2>2, <2>3
<1>4. ASSUME NEW v \in GateIds, states[v] = "Blocked"
      PROVE  graph[v] \cap FailedOrBlocked(states) # {}
  <2>1. CASE v \in R
    <3>1. PICK w \in R \cup {u} : v \in Dependents(graph, w)
      BY <2>1, ReachedHasCause DEF BlockedBy
    <3> QED BY <1>2, <3>1 DEF Dependents
  <2>2. CASE v \notin R
    BY <1>1, <1>2, <1>4, <2>2 DEF ClosedOff
  <2> QED BY <2>1, <2>2
<1> QED BY <1>3, <1>4 DEF ClosedOff

\* Between any two calls, in whatever order units are satisfied and failed, no
\* Pending unit depends on a failed or blocked one.
THEOREM GateFailClosed == WalkSpec => []FailClosedGate
<1>1. WalkInit => CallInv
  BY DependencyMapsAssumption DEF WalkInit, CallInv, ClosedOff, FailedOrBlocked, NewGate
<1>2. WalkTypeOK /\ WalkIsFixpoint /\ LoopHolds /\ CallInv /\ [WalkNext]_walkVars => CallInv'
  <2> SUFFICES ASSUME WalkTypeOK, WalkIsFixpoint, LoopHolds, CallInv, [WalkNext]_walkVars
               PROVE  CallInv'
    OBVIOUS
  <2>1. CASE Return
    <3>1. PICK u \in origin : TRUE
      BY <2>1 DEF Return
    <3>2. earlier[u] = "Pending" /\ states = FailAndBlock(graph, earlier, u) /\ ClosedOff(earlier)
      BY <2>1, <3>1 DEF Return, WalkIsFixpoint, LoopHolds, LoopInv, CallInv
    <3>3. ClosedOff(states)
      BY <3>1, <3>2, FailKeepsClosed DEF WalkTypeOK
    <3> QED BY <2>1, <3>3 DEF Return, CallInv, ClosedOff, FailedOrBlocked
  <2>2. ASSUME NEW u \in GateIds, CallSatisfy(u) PROVE CallInv'
    BY <2>2 DEF CallSatisfy, Satisfy, CallInv, ClosedOff, FailedOrBlocked, WalkTypeOK
  <2>3. ASSUME NEW u \in GateIds, CallFail(u) PROVE CallInv'
    BY <2>3 DEF CallFail, CallInv, ClosedOff, FailedOrBlocked
  <2>4. ASSUME NEW u \in GateIds, VisitSeen(u) \/ VisitSettled(u) \/ VisitPending(u)
        PROVE  CallInv'
    <3>1. origin # {} /\ UNCHANGED <<graph, origin, earlier>>
      BY <2>4 DEF VisitSeen, VisitSettled, VisitPending, LoopHolds
    <3> QED BY <3>1 DEF CallInv, ClosedOff, FailedOrBlocked
  <2>5. CASE UNCHANGED walkVars
    BY <2>5 DEF walkVars, CallInv, ClosedOff, FailedOrBlocked
  <2> QED BY <2>1, <2>2, <2>3, <2>4, <2>5 DEF WalkNext
<1>3. CallInv => FailClosedGate
  BY DEF CallInv, FailClosedGate
<1> QED BY <1>1, <1>2, <1>3, GateTypeCorrect, LoopInvariant, LoopComputesFixpoint, PTL
        DEF WalkSpec
=============================================================================
