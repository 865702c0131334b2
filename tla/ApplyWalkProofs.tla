---------------------------- MODULE ApplyWalkProofs ----------------------------
(***************************************************************************)
(* Every safety invariant of the wave walk, for every plan, every set of   *)
(* options and every interleaving of workers, results and Ctrl+C.          *)
(***************************************************************************)
EXTENDS ApplyWalk, GateProofs, FiniteSetTheorems, SequenceTheorems

\* What the assumption says of the plan and the options of a run.
LEMMA PlanFacts ==
  ASSUME TypeOK
  PROVE  /\ WellFormed(plan) /\ IsOptions(options)
         /\ plan.group \in [Unit -> Group] /\ plan.wave \in [Unit -> Nat \ {0}]
         /\ plan.deps \in [Unit -> SUBSET Unit] /\ DOMAIN plan.deps = Unit
  BY PlanAssumption DEF TypeOK, WellFormed

\* The reverse walk of the plan stays within the plan.
LEMMA DependentsInPlan ==
  ASSUME TypeOK, NEW u
  PROVE  /\ TransitiveDependents(plan.deps, u) \subseteq Unit
         /\ BlockedBy(plan.deps, gate, u) \subseteq Unit
<1>1. PendingUnits(gate) \subseteq Unit
  BY DEF PendingUnits, TypeOK
<1> QED BY <1>1, PlanFacts, ReachedSubset, BlockedWerePending DEF TransitiveDependents

\* The number of groups of a wave is a number: the plan is finite.
LEMMA GroupsFinite ==
  ASSUME TypeOK, NEW S \in SUBSET Unit
  PROVE  Cardinality({plan.group[u] : u \in S}) \in Nat
<1>1. IsFiniteSet(S)
  BY PlanAssumption, FS_Subset
<1> DEFINE f == [u \in S |-> plan.group[u]]
           T == {plan.group[u] : u \in S}
<1>2. f \in Surjection(S, T)
  BY DEF Surjection
<1>3. IsFiniteSet(T)
  BY <1>1, <1>2, FS_Surjection
<1> QED BY <1>3, FS_CardinalityType

\* Every variable of the walk keeps its type.
THEOREM TypeCorrect == Spec => []TypeOK
<1> USE DEF setup, scheduler, tokens, services, handler, report, vars
<1>1. Init => TypeOK
  <2> SUFFICES ASSUME Init PROVE TypeOK
    OBVIOUS
  <2>1. gate \in [Unit -> GateState]
    BY PlanAssumption DEF Init, WellFormed, NewGate, GateState
  <2>2. /\ worker \in [Unit -> {"idle", "running", "joined", "abandoned"} \cup Outcome]
        /\ process \in [Unit -> {"none", "up", "stopped", "stuck", "dropped"}]
        /\ stats \in [Counter -> Nat] /\ verdicts \in [Unit -> Seq(Status)]
        /\ order \in Seq(Unit) /\ remaining \in [Unit -> SUBSET Unit]
    BY DEF Init
  <2>3. current \in [unit : SUBSET Unit, fails : BOOLEAN, failed : BOOLEAN,
                    next : {"waves", "collect", "joined", "abort"}]
    BY DEF Init, Idle
  <2>4. interrupted \in BOOLEAN /\ closed \in BOOLEAN /\ teardown \in BOOLEAN
    BY DEF Init
  <2>5. wave \in Nat \ {0} /\ parallel \in Nat \ {0}
    BY DEF Init
  <2> QED BY <2>1, <2>2, <2>3, <2>4, <2>5 DEF Init, TypeOK
<1>2. TypeOK /\ [Next]_vars => TypeOK'
  <2> SUFFICES ASSUME TypeOK, [Next]_vars PROVE TypeOK'
    OBVIOUS
  <2> USE DEF TypeOK
  <2>a. \A u \in Unit : Satisfy(gate, u) \in [Unit -> GateState]
    BY DEF Satisfy, GateState
  <2>b. \A c \in Counter : [stats EXCEPT ![c] = @ + 1] \in [Counter -> Nat]
    OBVIOUS
  <2>c. \A u \in Unit, v \in Status : [verdicts EXCEPT ![u] = Append(@, v)] \in [Unit -> Seq(Status)]
    OBVIOUS
  <2>d. \A u, T : /\ [h \in Unit |-> IF h \in T THEN remaining[h] \ {u} ELSE remaining[h]]
                       \in [Unit -> SUBSET Unit]
    OBVIOUS
  <2>1. CASE EndWaves \/ StartWave \/ SlotsFilled \/ EndWave
    <3>1. CASE EndWaves \/ SlotsFilled
      BY <3>1 DEF EndWaves, SlotsFilled
    <3>2. CASE StartWave
      BY <3>2 DEF StartWave
    <3>3. CASE EndWave
      BY <3>3 DEF EndWave
    <3> QED BY <2>1, <3>1, <3>2, <3>3
  <2>22. CASE ObserveInterrupt
    BY <2>22 DEF ObserveInterrupt, TripPool, InFlight
  <2>2. CASE StartGroups
    <3> DEFINE runnable == {u \in Pending : plan.wave[u] = wave}
               groups == {plan.group[u] : u \in runnable}
    <3>1. runnable \subseteq Unit
      BY DEF Pending, PendingUnits
    <3>2. Cardinality(groups) \in Nat
      BY <3>1, GroupsFinite
    <3>3. Smaller(options.maxParallel, Cardinality(groups)) \in Nat
      BY <3>2, PlanFacts DEF Smaller, IsOptions
    <3> HIDE DEF groups
    <3>4. parallel' \in Nat \ {0}
      BY <2>2, <3>3 DEF StartGroups, groups
    <3> QED BY <2>2, <3>1, <3>4 DEF StartGroups
  <2>3. ASSUME NEW u \in Unit, CacheHit(u) PROVE TypeOK'
    BY <2>3, <2>a, <2>b, <2>c, <2>d DEF CacheHit, Count, Emit, Settle, DependentFinished, Counter, Status
  <2>4. ASSUME NEW u \in Unit, FillSlot(u) \/ Refill(u) PROVE TypeOK'
    <3>1. queued \ {u} \subseteq Unit /\ activated \cup {plan.group[u]} \subseteq Group
      BY PlanFacts
    <3>2. CASE FillSlot(u)
      BY <3>1, <3>2 DEF FillSlot, Submit
    <3>3. CASE Refill(u)
      BY <3>1, <3>3 DEF Refill, Submit
    <3> QED BY <2>4, <3>2, <3>3
  <2>24. ASSUME NEW u \in Unit, SubmitUnreported(u) PROVE TypeOK'
    <3>1. queued \ {u} \subseteq Unit /\ activated \cup {plan.group[u]} \subseteq Group
      BY PlanFacts
    <3> QED BY <2>24, <3>1 DEF SubmitUnreported, Submit, Abort
  <2>5. ASSUME NEW u \in Unit, JoinSucceeded(u) PROVE TypeOK'
    BY <2>5, <2>a, <2>b, <2>c, <2>d DEF JoinSucceeded, Join, Count, Emit, Settle, DependentFinished,
      Counter, Status
  <2>6. ASSUME NEW u \in Unit, CacheWriteFails(u) PROVE TypeOK'
    BY <2>6 DEF CacheWriteFails, Join, Abort
  <2>25. ASSUME NEW u \in Unit, SucceededUnreported(u) PROVE TypeOK'
    BY <2>25 DEF SucceededUnreported, Join, Abort
  <2>7. ASSUME NEW u \in Unit, NEW o \in {"failure", "timedOut", "notReady"}, JoinFailed(u, o)
        PROVE  TypeOK'
    <3>1. Tally[o] \in Counter /\ Verdict[o] \in Status
      BY DEF Tally, Verdict, Counter, Status
    <3> QED BY <2>7, <2>b, <2>c, <2>d, <3>1 DEF JoinFailed, Join, Count, Emit, Settle, DependentFinished
  <2>8. ASSUME NEW u \in Unit, JoinError(u) PROVE TypeOK'
    BY <2>8, <2>b, <2>c, <2>d DEF JoinError, Join, Count, Emit, Settle, DependentFinished, Counter, Status
  <2>9. ASSUME NEW u \in Unit, JoinStopped(u) \/ JoinCancelled(u) PROVE TypeOK'
    <3>1. CASE JoinStopped(u)
      BY <3>1 DEF JoinStopped, Join
    <3>2. CASE JoinCancelled(u)
      BY <3>2 DEF JoinCancelled, Join
    <3> QED BY <2>9, <3>1, <3>2
  <2>10. ASSUME NEW u \in Unit, JoinReady(u) PROVE TypeOK'
    <3>1. TransitiveDependents(plan.deps, u) \subseteq Unit
      BY DependentsInPlan
    <3>2. /\ held' \subseteq Unit /\ tillEnd' \subseteq Unit /\ draining' \subseteq Unit
          /\ order' \in Seq(Unit) /\ remaining' \in [Unit -> SUBSET Unit]
      BY <2>10, <3>1 DEF JoinReady, Hold, HeldFor
    <3>3. /\ stats' \in [Counter -> Nat] /\ gate' \in [Unit -> GateState]
          /\ current' \in [unit : SUBSET Unit, fails : BOOLEAN, failed : BOOLEAN,
                           next : {"waves", "collect", "joined", "abort"}]
      BY <2>10, <2>a, <2>b DEF JoinReady, Count, Counter
    <3> QED BY <2>10, <3>2, <3>3 DEF JoinReady, Join
  <2>23. ASSUME NEW u \in Unit, ReadyUnreported(u) PROVE TypeOK'
    <3>1. TransitiveDependents(plan.deps, u) \subseteq Unit
      BY DependentsInPlan
    <3> QED BY <2>23, <3>1 DEF ReadyUnreported, Hold, HeldFor, Join, Abort
  <2>11. ASSUME NEW u \in Unit, TearDown(u) \/ TearDownFails(u) PROVE TypeOK'
    <3>1. CASE TearDown(u)
      BY <2>c, <3>1 DEF TearDown, Emit, Status
    <3>2. CASE TearDownFails(u)
      BY <3>2 DEF TearDownFails, Abort
    <3> QED BY <2>11, <3>1, <3>2
  <2>12. ASSUME NEW u \in Unit, BlockDependents(u) PROVE TypeOK'
    <3>1. FailAndBlock(plan.deps, gate, u) \in [Unit -> GateState]
      BY FailAndBlockType
    <3>2. BlockedBy(plan.deps, gate, u) \subseteq Unit
      BY DependentsInPlan
    <3> QED BY <2>12, <3>1, <3>2 DEF BlockDependents
  <2>13. ASSUME NEW u \in Unit, AnnounceBlocked(u) PROVE TypeOK'
    <3>1. stats' \in [Counter -> Nat] /\ verdicts' \in [Unit -> Seq(Status)]
      BY <2>13, <2>b, <2>c DEF AnnounceBlocked, Count, Emit, Counter, Status
    <3>2. remaining' \in [Unit -> SUBSET Unit] /\ draining' \subseteq Unit
      BY <2>13, <2>d DEF AnnounceBlocked, DependentFinished
    <3> QED BY <2>13, <3>1, <3>2 DEF AnnounceBlocked
  <2>14. CASE Drained
    BY <2>14 DEF Drained, Abort
  <2>15. CASE TripFailFast \/ NoRefill
    BY <2>15 DEF TripFailFast, NoRefill, TripPool, InFlight
  <2>16. ASSUME NEW ok \in BOOLEAN, StopHeld(ok) PROVE TypeOK'
    <3>1. order[Len(order)] \in Unit
      BY <2>16 DEF StopHeld
    <3>2. SubSeq(order, 1, Len(order) - 1) \in Seq(Unit)
      BY <2>16 DEF StopHeld
    <3>3. tornDown' \subseteq Unit /\ result' \in {"none", "error", "ok"}
          /\ process' \in [Unit -> {"none", "up", "stopped", "stuck", "dropped"}]
      <4> DEFINE h == order[Len(order)]
      <4>1. CASE h \in held
        <5>1. tornDown' = tornDown \cup {h} /\ result' \in {result, "error"}
          BY <2>16, <4>1 DEF StopHeld
        <5>2. \E p \in {"stopped", "stuck"} : process' = [process EXCEPT ![h] = p]
          BY <2>16, <4>1 DEF StopHeld
        <5> HIDE DEF h
        <5>3. h \in Unit
          BY <3>1 DEF h
        <5> QED BY <5>1, <5>2, <5>3
      <4>2. CASE h \notin held
        BY <2>16, <4>2 DEF StopHeld
      <4> QED BY <4>1, <4>2
    <3> QED BY <2>16, <3>2, <3>3 DEF StopHeld
  <2>17. CASE HeldStopped \/ PoolShutDown
    BY <2>17 DEF HeldStopped, PoolShutDown
  <2>18. CASE Finish
    <3>1. Cardinality(Pending) \in Nat
      <4>1. Pending \in SUBSET Unit
        BY DEF Pending, PendingUnits
      <4> QED BY <4>1, PlanAssumption, FS_Subset, FS_CardinalityType
    <3>2. stats' \in [Counter -> Nat]
      BY <2>18, <3>1 DEF Finish, Counter
    <3>3. verdicts' \in [Unit -> Seq(Status)]
      <4>1. <<"TornDown">> \in Seq(Status) /\ <<"Cancelled">> \in Seq(Status) /\ <<>> \in Seq(Status)
        BY DEF Status
      <4>2. \A u \in Unit : verdicts[u] \o (IF u \in tornDown THEN <<"TornDown">> ELSE <<>>)
                              \o (IF u \in Pending THEN <<"Cancelled">> ELSE <<>>) \in Seq(Status)
        BY <4>1
      <4> QED BY <2>18, <4>2 DEF Finish
    <3> QED BY <2>18, <3>2, <3>3 DEF Finish
  <2>19. CASE SinkFails \/ Interrupt
    BY <2>19 DEF SinkFails, Interrupt
  <2>20. ASSUME NEW u \in Unit, WorkerEnds(u) PROVE TypeOK'
    <3>1. Outcomes(u) \subseteq Outcome
      BY DEF Outcomes, Outcome
    <3> QED BY <2>20, <3>1 DEF WorkerEnds
  <2>21. CASE UNCHANGED vars \/ Terminated
    BY <2>21 DEF Terminated
  <2> HIDE DEF TypeOK, vars
  <2> QED BY <2>1, <2>2, <2>3, <2>4, <2>5, <2>6, <2>7, <2>8, <2>9, <2>10, <2>11, <2>12, <2>13, <2>14,
             <2>15, <2>16, <2>17, <2>18, <2>19, <2>20, <2>21, <2>22, <2>23, <2>24, <2>25 DEF Next, Walker
<1> QED BY <1>1, <1>2, PTL DEF Spec

(* The inductive invariant. *)

Bad == {u \in Unit : gate[u] \in {"Failed", "Blocked"}}
Halting == interrupted \/ (options.failFast /\ HasFailures)
Ready(u) == \A d \in plan.deps[u] : gate[d] = "Satisfied"

\* The walker is between waves or collecting hits; it is inside a wave's groups.
Collecting == pc \in {"waves", "collect"} \/ (pc = "drain" /\ current.next = "collect")
InGroups == pc \in {"submit", "select", "joined"} \/ (pc = "drain" /\ current.next # "collect")
\* The unit just joined, while its slot is still to be refilled.
Leaving == IF pc \in {"joined", "drain"} THEN current.unit ELSE {}
\* The unit that failed and is not marked so yet.
Failing == IF current.fails THEN current.unit ELSE {}

\* Nothing Pending depends on a failure.
GateClosed == \A u \in Unit : gate[u] = "Pending" => plan.deps[u] \cap Bad = {}

\* Tokens fire, and units stop, only once the run is bound to end.
TokensHalt ==
  /\ teardown \/ cancelled # {} => Halting
  /\ \A u \in Unit : worker[u] = "stopped" => u \in cancelled
  /\ current.failed => HasFailures

\* A wave is entered with everything before it settled.
EarlierSettled ==
  Collecting \/ InGroups =>
    \/ pc = "waves" /\ Halting
    \/ \A u \in Unit : plan.wave[u] < wave => gate[u] # "Pending"

\* What waits or runs belongs to this wave, is Pending, and may run.
QueueSound ==
  /\ Collecting => queued = {} /\ InFlight = {} /\ ~current.fails
  /\ Collecting \/ InGroups =>
       \A u \in queued \cup InFlight : plan.wave[u] = wave /\ gate[u] = "Pending" /\ Ready(u)
  /\ queued \cap InFlight = {}

\* So does a unit about to be marked Failed.
FailingSound ==
  /\ pc \in {"submit", "select", "joined"} => ~current.fails
  /\ pc = "drain" => current.next \in {"collect", "joined", "abort"}
  /\ \A u, v \in current.unit : u = v
  /\ InGroups => \A u \in Failing : /\ plan.wave[u] = wave /\ gate[u] = "Pending"
                                    /\ u \notin queued \cup InFlight

\* No unit of the wave is forgotten, no group stalls.
NothingForgotten ==
  InGroups /\ ~Halting =>
    /\ \A u \in Unit : plan.wave[u] = wave /\ gate[u] = "Pending" =>
         u \in queued \cup InFlight \cup Failing
    /\ \A u \in queued : plan.group[u] \in activated =>
         \E v \in InFlight \cup Leaving : plan.group[v] = plan.group[u]
    /\ pc = "select" /\ Fresh # {} => InFlight # {}

IInv == /\ FailClosed /\ GateClosed /\ TokensHalt /\ EarlierSettled
        /\ QueueSound /\ FailingSound /\ NothingForgotten

\* A failure once counted stays counted.
LEMMA CountKeepsFailures ==
  ASSUME TypeOK, NEW c \in Counter, stats' = [stats EXCEPT ![c] = @ + 1]
  PROVE  /\ HasFailures => HasFailures'
         /\ c \in {"failed", "timedOut", "failedReadiness", "blocked"} => HasFailures'
  BY DEF TypeOK, HasFailures, Counter

\* Steps that leave the scheduling alone keep the invariant.
LEMMA QuietStep ==
  ASSUME IInv, UNCHANGED <<plan, options, pc, wave, gate, queued, activated, current>>,
         Started' = Started, InFlight' = InFlight, Halting => Halting', TokensHalt'
  PROVE  IInv'
<1> USE DEF IInv
<1>1. FailClosed' /\ GateClosed' /\ EarlierSettled'
  BY DEF FailClosed, GateClosed, Bad, EarlierSettled, Collecting, InGroups
<1>2. QueueSound' /\ FailingSound'
  BY DEF QueueSound, FailingSound, Collecting, InGroups, Ready, Failing
<1>3. NothingForgotten'
  BY DEF NothingForgotten, InGroups, Failing, Leaving, Fresh
<1> QED BY <1>1, <1>2, <1>3

\* Steps that leave the waves keep it too: nothing is launched any more.
LEMMA ExitStep ==
  ASSUME IInv, UNCHANGED <<plan, gate, queued, current>>,
         Started' = Started, InFlight' \subseteq InFlight, TokensHalt',
         pc' \in {"teardown", "shutdown", "finish", "done"}
  PROVE  IInv'
<1> USE DEF IInv
<1>1. ~Collecting' /\ ~InGroups'
  BY DEF Collecting, InGroups
<1>2. FailClosed' /\ GateClosed' /\ EarlierSettled'
  BY <1>1 DEF FailClosed, GateClosed, Bad, EarlierSettled
<1>3. QueueSound' /\ FailingSound' /\ NothingForgotten'
  BY <1>1 DEF QueueSound, FailingSound, NothingForgotten
<1> QED BY <1>2, <1>3

\* Satisfying a Pending unit whose dependencies are satisfied keeps the gate sound.
LEMMA SatisfyStep ==
  ASSUME TypeOK, FailClosed, GateClosed, NEW u \in Unit, gate[u] = "Pending", Ready(u),
         gate' = Satisfy(gate, u), plan' = plan, Started' = Started
  PROVE  /\ FailClosed' /\ GateClosed'
         /\ \A v \in Unit : gate'[v] = IF v = u THEN "Satisfied" ELSE gate[v]
         /\ \A v \in Unit : Ready(v) => Ready(v)'
<1>0. \A v \in Unit : plan.deps[v] \subseteq Unit
  BY PlanFacts
<1>1. \A v \in Unit : gate'[v] = IF v = u THEN "Satisfied" ELSE gate[v]
  BY DEF Satisfy, TypeOK
<1>2. \A v \in Unit : Ready(v) => Ready(v)'
  BY <1>0, <1>1 DEF Ready
<1>3. FailClosed'
  BY <1>1, <1>2 DEF FailClosed, Ready
<1>4. GateClosed'
  BY <1>1 DEF GateClosed, Bad
<1> QED BY <1>1, <1>2, <1>3, <1>4

\* Taking a joined unit out of flight, with its gate satisfied, about to be
\* failed, or left Pending in a run that is ending.
LEMMA JoinStep ==
  ASSUME TypeOK, IInv, NEW u \in Unit, pc = "select", worker[u] \in Outcome,
         worker' = [worker EXCEPT ![u] = "joined"],
         UNCHANGED <<plan, options, wave, queued, activated, cancelled, interrupted, teardown>>,
         HasFailures => HasFailures', current'.failed => HasFailures',
         current'.unit = {u},
         \/ gate' = Satisfy(gate, u) /\ ~current'.fails
         \/ gate' = gate /\ (current'.fails \/ Halting),
         \/ pc' = "drain" /\ current'.next \in {"joined", "abort"}
         \/ pc' = "joined" /\ ~current'.fails
  PROVE  IInv'
<1> USE DEF IInv
<1>1. InGroups /\ InGroups' /\ ~Collecting'
  BY DEF InGroups, Collecting
<1>2. InFlight' = InFlight \ {u} /\ u \in InFlight /\ Started' = Started
  BY DEF InFlight, Started, TypeOK, Outcome
<1>3. u \notin queued /\ gate[u] = "Pending" /\ plan.wave[u] = wave /\ Ready(u)
  BY <1>1, <1>2 DEF QueueSound
<1>4. Halting => Halting'
  BY DEF Halting
<1>5. /\ FailClosed' /\ GateClosed'
      /\ \A v \in Unit : v # u => gate'[v] = gate[v]
      /\ \A v \in Unit : gate'[v] = "Pending" => gate[v] = "Pending"
      /\ \A v \in Unit : Ready(v) => Ready(v)'
  <2>1. CASE gate' = Satisfy(gate, u)
    BY <1>2, <1>3, <2>1, SatisfyStep
  <2>2. CASE gate' = gate
    BY <1>2, <2>2 DEF FailClosed, GateClosed, Bad, Ready
  <2> QED BY <2>1, <2>2
<1>6. TokensHalt'
  BY <1>4 DEF TokensHalt, TypeOK
<1>7. EarlierSettled'
  BY <1>1, <1>5 DEF EarlierSettled
<1>8. QueueSound'
  <2>1. queued \cup InFlight \subseteq Unit
    BY DEF TypeOK, InFlight
  <2> QED BY <1>1, <1>2, <1>3, <1>5, <2>1 DEF QueueSound
<1>9. FailingSound'
  BY <1>1, <1>2, <1>3 DEF FailingSound, Failing
<1>10. NothingForgotten'
  <2> SUFFICES ASSUME ~Halting' PROVE NothingForgotten'
    BY DEF NothingForgotten
  <2>1. ~Halting /\ NothingForgotten
    BY <1>4
  <2>2. Leaving' = {u} /\ Failing \subseteq {} /\ pc' # "select"
    BY DEF Leaving, Failing, FailingSound
  <2>3. ASSUME NEW v \in Unit, plan.wave[v] = wave, gate'[v] = "Pending"
        PROVE  v \in queued \cup InFlight' \cup Failing'
    <3>1. CASE v = u
      BY <2>1, <2>3, <3>1 DEF Satisfy, TypeOK, Failing
    <3>2. CASE v # u
      BY <1>1, <1>2, <1>5, <2>1, <2>2, <2>3, <3>2 DEF NothingForgotten
    <3> QED BY <3>1, <3>2
  <2>4. \A v \in queued : plan.group[v] \in activated =>
          \E w \in InFlight' \cup Leaving' : plan.group[w] = plan.group[v]
    BY <1>1, <1>2, <2>1, <2>2 DEF NothingForgotten, Leaving
  <2> QED BY <2>2, <2>3, <2>4 DEF NothingForgotten
<1> QED BY <1>5, <1>6, <1>7, <1>8, <1>9, <1>10

\* Handing a queued unit to the pool.
LEMMA SubmitStep ==
  ASSUME TypeOK, IInv, NEW u \in queued, Submit(u),
         UNCHANGED <<plan, options, wave, gate, cancelled, interrupted, teardown, stats, current>>,
         \/ pc = "submit" /\ pc' = "submit" /\ u \in Fresh
         \/ /\ pc = "joined" /\ pc' = "select"
            /\ u \in IF SameGroup # {} THEN SameGroup ELSE Fresh
  PROVE  IInv'
<1> USE DEF IInv
<1>1. u \in Unit /\ InGroups /\ InGroups' /\ ~Collecting'
  BY DEF InGroups, Collecting, TypeOK
<1>2. /\ InFlight' = InFlight \cup {u} /\ Started' = Started \cup {u} /\ queued' = queued \ {u}
      /\ activated' = activated \cup {plan.group[u]}
  BY <1>1 DEF Submit, InFlight, Started, TypeOK, Outcome
<1>3. gate[u] = "Pending" /\ plan.wave[u] = wave /\ Ready(u) /\ u \notin InFlight
  BY <1>1 DEF QueueSound
<1>4. (Halting <=> Halting') /\ (HasFailures <=> HasFailures') /\ ~current.fails
  BY DEF Halting, HasFailures, FailingSound
<1>5. FailClosed' /\ GateClosed'
  BY <1>2, <1>3 DEF FailClosed, GateClosed, Bad, Ready
<1>6. TokensHalt' /\ EarlierSettled'
  BY <1>1, <1>4 DEF TokensHalt, EarlierSettled, Submit, TypeOK
<1>7. QueueSound'
  BY <1>1, <1>2 DEF QueueSound, Ready
<1>8. FailingSound'
  BY <1>1, <1>2, <1>4 DEF FailingSound, Failing
<1>9. NothingForgotten'
  <2> SUFFICES ASSUME ~Halting' PROVE NothingForgotten'
    BY DEF NothingForgotten
  <2>1. ~Halting /\ NothingForgotten /\ Failing = {}
    BY <1>4 DEF Failing
  <2>2. \A v \in Unit : plan.wave[v] = wave /\ gate[v] = "Pending" => v \in queued' \cup InFlight'
    BY <1>1, <1>2, <2>1 DEF NothingForgotten
  <2>3. ASSUME NEW v \in queued', plan.group[v] \in activated'
        PROVE  \E w \in InFlight' : plan.group[w] = plan.group[v]
    <3>1. CASE plan.group[v] = plan.group[u]
      BY <1>2, <3>1
    <3>2. CASE plan.group[v] # plan.group[u]
      <4>1. PICK w \in InFlight \cup Leaving : plan.group[w] = plan.group[v]
        BY <1>1, <1>2, <2>1, <2>3, <3>2 DEF NothingForgotten
      <4>2. CASE w \in InFlight
        BY <1>2, <4>1, <4>2
      <4>3. CASE w \in Leaving
        <5>1. pc = "joined" /\ w \in current.unit
          BY <4>3 DEF Leaving
        <5>2. v \in SameGroup
          BY <1>2, <4>1, <5>1 DEF SameGroup
        <5>3. plan.group[u] = plan.group[w]
          BY <5>1, <5>2 DEF SameGroup, FailingSound
        <5> QED BY <3>2, <4>1, <5>3
      <4> QED BY <4>2, <4>3
    <3> QED BY <3>1, <3>2
  <2> QED BY <1>2, <2>2, <2>3 DEF NothingForgotten
<1> QED BY <1>5, <1>6, <1>7, <1>8, <1>9

\* A Pending unit of a wave whose predecessors are settled may run.
LEMMA PendingReady ==
  ASSUME TypeOK, GateClosed, NEW u \in Unit, plan.wave[u] = wave, gate[u] = "Pending",
         \A v \in Unit : plan.wave[v] < wave => gate[v] # "Pending"
  PROVE  Ready(u)
<1> SUFFICES ASSUME NEW d \in plan.deps[u] PROVE gate[d] = "Satisfied"
  BY DEF Ready
<1>1. d \in Unit /\ plan.wave[d] < plan.wave[u]
  BY PlanFacts DEF WellFormed
<1>2. gate[d] # "Pending" /\ d \notin Bad
  BY <1>1 DEF GateClosed
<1> QED BY <1>1, <1>2 DEF Bad, TypeOK, GateState

\* What a failure blocks belongs to later waves.
LEMMA BlockedAreLater ==
  ASSUME TypeOK, NEW u \in Unit
  PROVE  \A v \in BlockedBy(plan.deps, gate, u) : plan.wave[u] < plan.wave[v]
<1> DEFINE within == PendingUnits(gate) \ {u}
           later == {v \in within : plan.wave[u] < plan.wave[v]}
<1>1. within \subseteq Unit
  BY DEF PendingUnits, TypeOK
<1>2. ASSUME NEW w \in later \cup {u}, NEW v \in Dependents(plan.deps, w) \cap within
      PROVE  v \in later
  <2>1. v \in Unit /\ w \in Unit /\ w \in plan.deps[v]
    BY <1>1, <1>2, PlanFacts DEF Dependents
  <2>2. plan.wave[w] < plan.wave[v] /\ plan.wave \in [Unit -> Nat \ {0}]
    BY <2>1, PlanFacts DEF WellFormed
  <2> QED BY <1>2, <2>1, <2>2
<1>3. ClosedFrom(plan.deps, u, within, later)
  BY <1>2 DEF ClosedFrom
<1>4. BlockedBy(plan.deps, gate, u) \subseteq later
  BY <1>3, ReachedLeast DEF BlockedBy
<1> QED BY <1>4

\* Marking a unit Failed and blocking its dependents.
LEMMA BlockStep ==
  ASSUME TypeOK, IInv, NEW u \in Unit, BlockDependents(u)
  PROVE  IInv'
<1> USE DEF IInv
<1> DEFINE R == BlockedBy(plan.deps, gate, u)
<1>0. /\ pc = "drain" /\ pc' = "drain" /\ current.fails /\ u \in current.unit
      /\ current' = [current EXCEPT !.fails = FALSE]
      /\ gate' = FailAndBlock(plan.deps, gate, u)
      /\ UNCHANGED <<plan, options, wave, queued, activated, worker, cancelled, interrupted,
                     teardown, stats>>
  BY DEF BlockDependents, setup, scheduler, tokens, report
<1>1. /\ ~current'.fails /\ current'.unit = current.unit /\ current'.next = current.next
      /\ current'.failed = current.failed
  BY <1>0 DEF TypeOK
<1>2. InGroups /\ InGroups' /\ ~Collecting'
  BY <1>0, <1>1 DEF InGroups, Collecting, QueueSound
<1>3. plan.wave[u] = wave /\ gate[u] = "Pending" /\ u \notin queued \cup InFlight
  BY <1>0, <1>2 DEF FailingSound, Failing
<1>4. \A v \in Unit : gate'[v] = IF v = u THEN "Failed" ELSE IF v \in R THEN "Blocked" ELSE gate[v]
  BY <1>0 DEF FailAndBlock, TypeOK
<1>5. \A v \in R : v \in Unit /\ gate[v] = "Pending" /\ plan.wave[v] # wave
  <2>1. \A v \in R : plan.wave[u] < plan.wave[v]
    BY BlockedAreLater
  <2>2. \A v \in R : v \in Unit /\ gate[v] = "Pending" /\ plan.wave[v] \in Nat /\ wave \in Nat
    BY BlockedWerePending, PlanFacts DEF PendingUnits, TypeOK
  <2> QED BY <1>3, <2>1, <2>2
<1>6. \A v \in Unit : (gate'[v] = "Satisfied" <=> gate[v] = "Satisfied")
  BY <1>3, <1>4, <1>5
<1>7. \A v \in Unit : Ready(v)' <=> Ready(v)
  BY <1>0, <1>6, PlanFacts DEF Ready
<1>8. InFlight' = InFlight /\ Started' = Started /\ (Halting <=> Halting')
      /\ (HasFailures <=> HasFailures')
  BY <1>0 DEF InFlight, Started, Halting, HasFailures
<1>9. FailClosed'
  BY <1>0, <1>6, <1>7, <1>8 DEF FailClosed, Ready
<1>10. GateClosed'
  <2> SUFFICES ASSUME NEW v \in Unit, gate'[v] = "Pending" PROVE plan.deps[v] \cap Bad' = {}
    BY <1>0 DEF GateClosed
  <2>1. v \in PendingUnits(FailAndBlock(plan.deps, gate, u))
    BY <1>0 DEF PendingUnits, FailAndBlock, TypeOK
  <2>2. u \notin plan.deps[v] /\ plan.deps[v] \cap R = {}
    <3>1. DOMAIN plan.deps = Unit /\ gate \in [Unit -> GateState]
      BY PlanFacts DEF TypeOK
    <3> QED BY <2>1, <3>1, PendingClearOfFailure
  <2>3. gate[v] = "Pending"
    BY <1>4
  <2>4. Bad' \subseteq Bad \cup {u} \cup R
    BY <1>4 DEF Bad
  <2> QED BY <2>2, <2>3, <2>4 DEF GateClosed
<1>11. TokensHalt'
  BY <1>0, <1>1, <1>8 DEF TokensHalt
<1>12. EarlierSettled'
  BY <1>0, <1>2, <1>4 DEF EarlierSettled
<1>13. QueueSound'
  <2>1. queued \cup InFlight \subseteq Unit
    BY DEF TypeOK, InFlight
  <2>2. \A v \in queued \cup InFlight : gate'[v] = gate[v]
    BY <1>2, <1>3, <1>4, <1>5, <2>1 DEF QueueSound
  <2> QED BY <1>0, <1>2, <1>7, <1>8, <2>1, <2>2 DEF QueueSound
<1>14. FailingSound'
  BY <1>0, <1>1, <1>2 DEF FailingSound, Failing
<1>15. NothingForgotten'
  <2> SUFFICES ASSUME ~Halting PROVE NothingForgotten'
    BY <1>8 DEF NothingForgotten
  <2>1. Leaving' = Leaving /\ Fresh' = Fresh /\ Failing \subseteq {u}
    BY <1>0, <1>1 DEF Leaving, Fresh, Failing, FailingSound
  <2>2. ASSUME NEW v \in Unit, plan.wave[v] = wave, gate'[v] = "Pending"
        PROVE  v \in queued \cup InFlight
    <3>1. v # u /\ gate[v] = "Pending"
      BY <1>4, <2>2
    <3> QED BY <1>2, <2>1, <2>2, <3>1 DEF NothingForgotten
  <2> QED BY <1>0, <1>2, <1>8, <2>1, <2>2 DEF NothingForgotten
<1> QED BY <1>9, <1>10, <1>11, <1>12, <1>13, <1>14, <1>15

\* Every step of the walk, a worker or the outside keeps the invariant.
LEMMA StepKeepsInv ==
  ASSUME TypeOK, IInv, [Next]_vars
  PROVE  IInv'
<1> USE DEF setup, scheduler, tokens, services, handler, report
<1>1. CASE EndWaves
  <2>1. InFlight' = InFlight /\ Started' = Started /\ TokensHalt'
    BY <1>1 DEF EndWaves, InFlight, Started, IInv, TokensHalt, Halting, HasFailures
  <2> QED BY <1>1, <2>1, ExitStep DEF EndWaves
<1>2. CASE StartWave
  <2>0. InFlight' = InFlight /\ Started' = Started /\ (Halting <=> Halting') /\ Collecting
        /\ Collecting' /\ ~InGroups' /\ ~Halting
    BY <1>2 DEF StartWave, InFlight, Started, Halting, HasFailures, Collecting, InGroups, NoMoreWaves
  <2>1. FailClosed' /\ GateClosed' /\ TokensHalt'
    BY <1>2, <2>0 DEF StartWave, IInv, FailClosed, GateClosed, Bad, TokensHalt, Halting, HasFailures
  <2>2. EarlierSettled' /\ QueueSound' /\ FailingSound' /\ NothingForgotten'
    BY <1>2, <2>0 DEF StartWave, IInv, EarlierSettled, QueueSound, FailingSound, NothingForgotten, Ready
  <2> QED BY <2>1, <2>2 DEF IInv
<1>3. ASSUME NEW u \in Unit, CacheHit(u) PROVE IInv'
  <2>0. /\ pc = "collect" /\ pc' = "drain" /\ plan.wave[u] = wave /\ gate[u] = "Pending"
        /\ current' = [unit |-> {u}, fails |-> FALSE, failed |-> FALSE, next |-> "collect"]
        /\ gate' = Satisfy(gate, u)
        /\ UNCHANGED <<plan, options, wave, queued, activated, worker, cancelled, interrupted, teardown>>
    BY <1>3 DEF CacheHit, Hits, Pending, PendingUnits, Settle
  <2>1. Collecting /\ Collecting' /\ ~InGroups' /\ InFlight' = InFlight /\ Started' = Started
    BY <2>0 DEF Collecting, InGroups, InFlight, Started
  <2>2. \A v \in Unit : plan.wave[v] < wave => gate[v] # "Pending"
    BY <2>0, <2>1 DEF IInv, EarlierSettled
  <2>3. Ready(u)
    BY <2>0, <2>2, PendingReady DEF IInv
  <2>4. /\ FailClosed' /\ GateClosed'
        /\ \A v \in Unit : gate'[v] = IF v = u THEN "Satisfied" ELSE gate[v]
    BY <2>0, <2>1, <2>3, SatisfyStep DEF IInv
  <2>5. Halting => Halting'
    BY <1>3, <2>0, CountKeepsFailures DEF CacheHit, Count, Counter, Halting
  <2>6. TokensHalt' /\ EarlierSettled'
    BY <2>0, <2>1, <2>2, <2>4, <2>5 DEF IInv, TokensHalt, EarlierSettled
  <2>7. QueueSound' /\ FailingSound' /\ NothingForgotten'
    BY <2>0, <2>1 DEF IInv, QueueSound, FailingSound, NothingForgotten
  <2> QED BY <2>4, <2>6, <2>7 DEF IInv
<1>4. CASE StartGroups
  <2>0. /\ pc = "collect" /\ pc' = "submit" /\ activated' = {}
        /\ queued' = {u \in Pending : plan.wave[u] = wave}
        /\ UNCHANGED <<plan, options, wave, gate, worker, cancelled, interrupted, teardown, current,
                       stats>>
    BY <1>4 DEF StartGroups
  <2>1. Collecting /\ InGroups' /\ ~Collecting' /\ InFlight' = InFlight /\ Started' = Started
    BY <2>0 DEF Collecting, InGroups, InFlight, Started
  <2>2. \A v \in Unit : plan.wave[v] < wave => gate[v] # "Pending"
    BY <2>0, <2>1 DEF IInv, EarlierSettled
  <2>3. \A u \in queued' : u \in Unit /\ plan.wave[u] = wave /\ gate[u] = "Pending" /\ Ready(u)
    BY <2>0, <2>2, PendingReady DEF IInv, Pending, PendingUnits, TypeOK
  <2>4. FailClosed' /\ GateClosed' /\ TokensHalt' /\ EarlierSettled'
    BY <2>0, <2>1, <2>2 DEF IInv, FailClosed, GateClosed, Bad, TokensHalt, Halting, HasFailures,
      EarlierSettled
  <2>5. InFlight = {} /\ ~current.fails
    BY <2>1 DEF IInv, QueueSound
  <2>6. QueueSound' /\ FailingSound'
    BY <2>0, <2>1, <2>3, <2>5 DEF IInv, QueueSound, FailingSound, Failing, Ready
  <2>7. NothingForgotten'
    BY <2>0, <2>1, <2>5 DEF NothingForgotten, Pending, PendingUnits, TypeOK
  <2> QED BY <2>4, <2>6, <2>7 DEF IInv
<1>5. ASSUME NEW u \in Unit, FillSlot(u) PROVE IInv'
  BY <1>5, SubmitStep DEF FillSlot, Fresh
<1>6. ASSUME NEW u \in Unit, Refill(u) PROVE IInv'
  BY <1>6, SubmitStep DEF Refill, Successors, Fresh, SameGroup
<1>33. ASSUME NEW u \in Unit, SubmitUnreported(u) PROVE IInv'
  <2>1. u \in queued /\ Ready(u) /\ ~Collecting' /\ ~InGroups'
    BY <1>33 DEF SubmitUnreported, Submit, Abort, Successors, Fresh, SameGroup, IInv, QueueSound,
      Collecting, InGroups
  <2>2. Started' = Started \cup {u} /\ UNCHANGED <<plan, options, gate, stats, interrupted>>
    BY <1>33 DEF SubmitUnreported, Submit, Started, TypeOK
  <2>3. FailClosed' /\ GateClosed'
    BY <2>1, <2>2 DEF IInv, FailClosed, GateClosed, Bad, Ready
  <2>4. TokensHalt'
    BY <1>33, <2>2 DEF SubmitUnreported, Submit, IInv, TokensHalt, Halting, HasFailures, TypeOK
  <2>5. queued' \cap InFlight' = {}
    BY <1>33 DEF SubmitUnreported, Submit, IInv, QueueSound, InFlight, Outcome, TypeOK
  <2> QED
    BY <1>33, <2>1, <2>3, <2>4, <2>5 DEF SubmitUnreported, Abort, IInv, EarlierSettled, QueueSound,
      FailingSound, NothingForgotten
<1>7. CASE SlotsFilled
  <2>0. /\ InFlight' = InFlight /\ Started' = Started /\ (Halting <=> Halting') /\ Fresh' = Fresh
        /\ InGroups /\ InGroups' /\ ~Collecting' /\ Failing' = Failing /\ Leaving = {}
    BY <1>7 DEF SlotsFilled, InFlight, Started, Halting, HasFailures, Collecting, InGroups, Fresh,
      Failing, Leaving
  <2>1. FailClosed' /\ GateClosed' /\ TokensHalt' /\ EarlierSettled'
    BY <1>7, <2>0 DEF SlotsFilled, IInv, FailClosed, GateClosed, Bad, TokensHalt, HasFailures,
      EarlierSettled
  <2>2. QueueSound' /\ FailingSound'
    BY <1>7, <2>0 DEF SlotsFilled, IInv, QueueSound, FailingSound, Ready
  <2>3. Fresh # {} => InFlight # {}
    <3>1. InFlight = {} => Cardinality(InFlight) = 0
      BY FS_EmptySet
    <3> QED BY <1>7, <3>1 DEF SlotsFilled, TypeOK
  <2>4. NothingForgotten'
    BY <1>7, <2>0, <2>3 DEF SlotsFilled, IInv, NothingForgotten
  <2> QED BY <2>1, <2>2, <2>4 DEF IInv
<1>8. CASE EndWave
  <2>0. /\ InFlight = {} /\ InFlight' = {} /\ Started' = Started /\ (Halting <=> Halting')
        /\ InGroups /\ Collecting' /\ ~InGroups' /\ Leaving = {} /\ ~current.fails
    BY <1>8 DEF EndWave, InFlight, Started, Halting, HasFailures, Collecting, InGroups, Leaving,
      IInv, FailingSound
  <2>1. FailClosed' /\ GateClosed' /\ TokensHalt'
    BY <1>8, <2>0 DEF EndWave, IInv, FailClosed, GateClosed, Bad, TokensHalt, HasFailures
  <2>2. ASSUME ~Halting, NEW v \in Unit, plan.wave[v] = wave
        PROVE  gate[v] # "Pending"
    <3> SUFFICES ASSUME gate[v] = "Pending" PROVE FALSE
      OBVIOUS
    <3>1. v \in queued
      BY <2>0, <2>2 DEF IInv, NothingForgotten, Failing
    <3>2. v \in Fresh
      BY <2>0, <2>2, <3>1 DEF IInv, NothingForgotten, Fresh
    <3> QED BY <1>8, <2>0, <2>2, <3>2 DEF EndWave, IInv, NothingForgotten
  <2>3. EarlierSettled'
    <3> SUFFICES ASSUME ~Halting, NEW v \in Unit, plan.wave[v] < wave + 1
                 PROVE  gate[v] # "Pending"
      BY <1>8, <2>0 DEF EndWave, EarlierSettled
    <3>1. plan.wave[v] < wave \/ plan.wave[v] = wave
      BY PlanFacts DEF TypeOK
    <3> QED BY <1>8, <2>0, <2>2, <3>1 DEF IInv, EarlierSettled, EndWave
  <2>4. QueueSound' /\ FailingSound' /\ NothingForgotten'
    BY <1>8, <2>0 DEF EndWave, IInv, QueueSound, FailingSound, NothingForgotten
  <2> QED BY <2>1, <2>3, <2>4 DEF IInv
<1>9. CASE ObserveInterrupt
  <2>1. InFlight' = InFlight /\ Started' = Started /\ Halting /\ Halting' /\ TokensHalt'
    BY <1>9 DEF ObserveInterrupt, TripPool, InFlight, Started, IInv, TokensHalt, Halting, HasFailures
  <2> QED BY <1>9, <2>1, QuietStep DEF ObserveInterrupt
<1>10. ASSUME NEW u \in Unit, JoinSucceeded(u) PROVE IInv'
  <2>1. HasFailures => HasFailures'
    BY <1>10, CountKeepsFailures DEF JoinSucceeded, Count, Counter
  <2> QED BY <1>10, <2>1, JoinStep DEF JoinSucceeded, Join, Settle, Outcome
<1>11. ASSUME NEW u \in Unit, CacheWriteFails(u) PROVE IInv'
  <2>1. InFlight' \subseteq InFlight /\ Started' = Started /\ TokensHalt'
    BY <1>11 DEF CacheWriteFails, Join, InFlight, Started, Outcome, TypeOK, IInv, TokensHalt, Halting,
      HasFailures
  <2> QED BY <1>11, <2>1, ExitStep DEF CacheWriteFails, Join, Abort
<1>34. ASSUME NEW u \in Unit, SucceededUnreported(u) PROVE IInv'
  <2>1. InFlight' \subseteq InFlight /\ Started' = Started /\ TokensHalt'
    BY <1>34 DEF SucceededUnreported, Join, InFlight, Started, Outcome, TypeOK, IInv, TokensHalt,
      Halting, HasFailures
  <2> QED BY <1>34, <2>1, ExitStep DEF SucceededUnreported, Join, Abort
<1>32. ASSUME NEW u \in Unit, ReadyUnreported(u) PROVE IInv'
  <2>1. InFlight' \subseteq InFlight /\ Started' = Started /\ TokensHalt'
    BY <1>32 DEF ReadyUnreported, Join, InFlight, Started, Outcome, TypeOK, IInv, TokensHalt, Halting,
      HasFailures
  <2> QED BY <1>32, <2>1, ExitStep DEF ReadyUnreported, Join, Abort
<1>12. ASSUME NEW u \in Unit, NEW o \in {"failure", "timedOut", "notReady"}, JoinFailed(u, o)
       PROVE  IInv'
  <2>1. Tally[o] \in {"failed", "timedOut", "failedReadiness"} /\ Tally[o] \in Counter
    BY DEF Tally, Counter
  <2>2. HasFailures'
    BY <1>12, <2>1, CountKeepsFailures DEF JoinFailed, Count
  <2> QED BY <1>12, <2>2, JoinStep DEF JoinFailed, Join, Settle, Outcome
<1>13. ASSUME NEW u \in Unit, JoinError(u) PROVE IInv'
  <2>1. HasFailures'
    BY <1>13, CountKeepsFailures DEF JoinError, Count, Counter
  <2> QED BY <1>13, <2>1, JoinStep DEF JoinError, Join, Settle, Outcome
<1>14. ASSUME NEW u \in Unit, JoinStopped(u) PROVE IInv'
  <2>1. Halting
    BY <1>14 DEF JoinStopped, Join, IInv, TokensHalt
  <2>2. HasFailures => HasFailures'
    BY <1>14 DEF JoinStopped, HasFailures
  <2> QED BY <1>14, <2>1, <2>2, JoinStep DEF JoinStopped, Join, Outcome
<1>15. ASSUME NEW u \in Unit, JoinCancelled(u) PROVE IInv'
  <2>0. /\ InFlight' = InFlight \ {u} /\ Started' = Started /\ Halting /\ Halting'
        /\ InGroups /\ InGroups' /\ ~Collecting' /\ Failing' = Failing
    BY <1>15 DEF JoinCancelled, Join, InFlight, Started, Outcome, TypeOK, IInv, TokensHalt, Halting,
      HasFailures, InGroups, Collecting, Failing
  <2>1. FailClosed' /\ GateClosed' /\ TokensHalt' /\ EarlierSettled'
    BY <1>15, <2>0 DEF JoinCancelled, Join, IInv, FailClosed, GateClosed, Bad, TokensHalt, HasFailures,
      EarlierSettled, TypeOK
  <2>2. QueueSound' /\ FailingSound' /\ NothingForgotten'
    BY <1>15, <2>0 DEF JoinCancelled, Join, IInv, QueueSound, FailingSound, NothingForgotten, Ready
  <2> QED BY <2>1, <2>2 DEF IInv
<1>16. ASSUME NEW u \in Unit, JoinReady(u) PROVE IInv'
  <2>1. HasFailures => HasFailures'
    BY <1>16, CountKeepsFailures DEF JoinReady, Count, Counter
  <2> QED BY <1>16, <2>1, JoinStep DEF JoinReady, Join, Outcome
<1>17. ASSUME NEW u \in Unit, TearDown(u) PROVE IInv'
  <2>1. InFlight' = InFlight /\ Started' = Started /\ (Halting => Halting') /\ TokensHalt'
    BY <1>17 DEF TearDown, InFlight, Started, IInv, TokensHalt, Halting, HasFailures
  <2> QED BY <1>17, <2>1, QuietStep DEF TearDown
<1>18. ASSUME NEW u \in Unit, TearDownFails(u) PROVE IInv'
  <2>1. InFlight' = InFlight /\ Started' = Started /\ TokensHalt'
    BY <1>18 DEF TearDownFails, InFlight, Started, IInv, TokensHalt, Halting, HasFailures
  <2> QED BY <1>18, <2>1, ExitStep DEF TearDownFails, Abort
<1>19. ASSUME NEW u \in Unit, BlockDependents(u) PROVE IInv'
  BY <1>19, BlockStep
<1>20. ASSUME NEW u \in Unit, AnnounceBlocked(u) PROVE IInv'
  <2>1. HasFailures => HasFailures'
    BY <1>20, CountKeepsFailures DEF AnnounceBlocked, Count, Counter
  <2>2. InFlight' = InFlight /\ Started' = Started /\ (Halting => Halting') /\ TokensHalt'
    BY <1>20, <2>1 DEF AnnounceBlocked, InFlight, Started, IInv, TokensHalt, Halting
  <2> QED BY <1>20, <2>2, QuietStep DEF AnnounceBlocked
<1>21. CASE Drained
  <2>0. /\ InFlight' = InFlight /\ Started' = Started /\ (Halting <=> Halting') /\ TokensHalt'
        /\ pc = "drain" /\ ~current.fails
        /\ UNCHANGED <<plan, options, wave, gate, queued, activated, worker, current>>
    BY <1>21 DEF Drained, InFlight, Started, Halting, HasFailures, IInv, TokensHalt
  <2>1. CASE current.next = "abort"
    BY <1>21, <2>0, <2>1, ExitStep DEF Drained, Abort
  <2>2. CASE current.next # "abort"
    <3>0. pc' = current.next /\ current.next \in {"collect", "joined"}
      BY <1>21, <2>0, <2>2 DEF Drained, IInv, FailingSound
    <3>1. (Collecting' <=> Collecting) /\ (InGroups' <=> InGroups) /\ Leaving' \in {Leaving, {}}
          /\ (InGroups => Leaving' = Leaving) /\ Failing' = Failing
      BY <2>0, <3>0 DEF Collecting, InGroups, Leaving, Failing
    <3>2. FailClosed' /\ GateClosed' /\ EarlierSettled'
      BY <2>0, <3>0, <3>1 DEF IInv, FailClosed, GateClosed, Bad, EarlierSettled
    <3>3. QueueSound' /\ FailingSound' /\ NothingForgotten'
      BY <2>0, <3>0, <3>1 DEF IInv, QueueSound, FailingSound, NothingForgotten, Ready
    <3> QED BY <2>0, <3>2, <3>3 DEF IInv
  <2> QED BY <2>1, <2>2
<1>22. CASE TripFailFast
  <2>0. /\ InFlight' = InFlight /\ Started' = Started /\ Halting /\ Halting'
        /\ InGroups /\ InGroups' /\ ~Collecting' /\ Failing' = Failing
    BY <1>22 DEF TripFailFast, InFlight, Started, Halting, HasFailures, Collecting, InGroups, Failing,
      IInv, TokensHalt
  <2>1. FailClosed' /\ GateClosed' /\ TokensHalt' /\ EarlierSettled'
    BY <1>22, <2>0 DEF TripFailFast, TripPool, IInv, FailClosed, GateClosed, Bad, TokensHalt,
      HasFailures, EarlierSettled
  <2>2. QueueSound' /\ FailingSound' /\ NothingForgotten'
    BY <1>22, <2>0 DEF TripFailFast, IInv, QueueSound, FailingSound, NothingForgotten, Ready
  <2> QED BY <2>1, <2>2 DEF IInv
<1>23. CASE NoRefill
  <2>0. /\ InFlight' = InFlight /\ Started' = Started /\ (Halting <=> Halting') /\ Fresh' = Fresh
        /\ InGroups /\ InGroups' /\ ~Collecting' /\ Failing' = Failing /\ Leaving = current.unit
        /\ Leaving' = {}
    BY <1>23 DEF NoRefill, InFlight, Started, Halting, HasFailures, Collecting, InGroups, Fresh,
      Failing, Leaving
  <2>1. FailClosed' /\ GateClosed' /\ TokensHalt' /\ EarlierSettled'
    BY <1>23, <2>0 DEF NoRefill, IInv, FailClosed, GateClosed, Bad, TokensHalt, HasFailures,
      EarlierSettled
  <2>2. QueueSound' /\ FailingSound'
    BY <1>23, <2>0 DEF NoRefill, IInv, QueueSound, FailingSound, Ready
  <2>3. Halting \/ (SameGroup = {} /\ Fresh = {})
    BY <1>23 DEF NoRefill, Successors, IInv, TokensHalt
  <2>4. NothingForgotten'
    BY <1>23, <2>0, <2>3 DEF NoRefill, IInv, NothingForgotten, SameGroup
  <2> QED BY <2>1, <2>2, <2>4 DEF IInv
<1>24. ASSUME NEW ok \in BOOLEAN, StopHeld(ok) PROVE IInv'
  <2>1. InFlight' = InFlight /\ Started' = Started /\ (Halting => Halting') /\ TokensHalt'
    BY <1>24 DEF StopHeld, InFlight, Started, IInv, TokensHalt, Halting, HasFailures
  <2> QED BY <1>24, <2>1, QuietStep DEF StopHeld
<1>25. CASE HeldStopped
  <2>1. InFlight' = InFlight /\ Started' = Started /\ TokensHalt'
    BY <1>25 DEF HeldStopped, InFlight, Started, IInv, TokensHalt, Halting, HasFailures
  <2> QED BY <1>25, <2>1, ExitStep DEF HeldStopped
<1>31. CASE Finish
  <2>1. InFlight' = InFlight /\ Started' = Started
    BY <1>31 DEF Finish, InFlight, Started
  <2>2. \A c \in {"failed", "timedOut", "failedReadiness", "blocked"} : stats'[c] = stats[c]
    BY <1>31 DEF Finish, TypeOK, Counter
  <2>3. (HasFailures => HasFailures') /\ (Halting => Halting')
    BY <1>31, <2>2 DEF Finish, HasFailures, Halting
  <2>4. TokensHalt'
    BY <1>31, <2>3 DEF Finish, IInv, TokensHalt
  <2> QED BY <1>31, <2>1, <2>4, ExitStep DEF Finish
<1>26. CASE PoolShutDown
  <2>1. InFlight' \subseteq InFlight /\ Started' = Started
    BY <1>26 DEF PoolShutDown, InFlight, Started, Outcome, TypeOK
  <2>2. TokensHalt'
    BY <1>26 DEF PoolShutDown, IInv, TokensHalt, Halting, HasFailures, InFlight, Outcome, TypeOK
  <2> QED BY <1>26, <2>1, <2>2, ExitStep DEF PoolShutDown
<1>27. CASE SinkFails
  <2>1. InFlight' = InFlight /\ Started' = Started /\ TokensHalt'
    BY <1>27 DEF SinkFails, InFlight, Started, IInv, TokensHalt, Halting, HasFailures
  <2> QED BY <1>27, <2>1, ExitStep DEF SinkFails
<1>28. ASSUME NEW u \in Unit, WorkerEnds(u) PROVE IInv'
  <2>1. InFlight' = InFlight /\ Started' = Started
    BY <1>28 DEF WorkerEnds, InFlight, Started, Outcomes, Outcome, TypeOK
  <2>2. TokensHalt' /\ (Halting => Halting')
    BY <1>28 DEF WorkerEnds, Outcomes, IInv, TokensHalt, Halting, HasFailures, TypeOK
  <2> QED BY <1>28, <2>1, <2>2, QuietStep DEF WorkerEnds
<1>29. CASE Interrupt
  <2>1. InFlight' = InFlight /\ Started' = Started /\ (Halting => Halting') /\ TokensHalt'
    BY <1>29 DEF Interrupt, InFlight, Started, IInv, TokensHalt, Halting, HasFailures
  <2> QED BY <1>29, <2>1, QuietStep DEF Interrupt
<1>30. CASE UNCHANGED vars \/ Terminated
  <2>1. InFlight' = InFlight /\ Started' = Started /\ (Halting => Halting') /\ TokensHalt'
    BY <1>30 DEF Terminated, vars, InFlight, Started, IInv, TokensHalt, Halting, HasFailures
  <2> QED BY <1>30, <2>1, QuietStep DEF Terminated, vars
<1> QED BY <1>1, <1>2, <1>3, <1>4, <1>5, <1>6, <1>7, <1>8, <1>9, <1>10, <1>11, <1>12, <1>13, <1>14,
           <1>15, <1>16, <1>17, <1>18, <1>19, <1>20, <1>21, <1>22, <1>23, <1>24, <1>25, <1>26, <1>27,
           <1>28, <1>29, <1>30, <1>31, <1>32, <1>33, <1>34 DEF Next, Walker

\* The invariant holds at first.
LEMMA InvInit == Init => IInv
<1> SUFFICES ASSUME Init PROVE IInv
  OBVIOUS
<1>1. /\ \A u \in Unit : gate[u] = "Pending" /\ worker[u] = "idle"
      /\ InFlight = {} /\ Started = {} /\ Bad = {} /\ Collecting /\ ~InGroups
  BY PlanAssumption DEF Init, NewGate, WellFormed, InFlight, Outcome, Started, Bad, Collecting,
    InGroups
<1>2. FailClosed /\ GateClosed
  BY <1>1 DEF FailClosed, GateClosed
<1>3. TokensHalt /\ EarlierSettled
  BY <1>1, PlanAssumption DEF Init, Idle, TokensHalt, EarlierSettled, WellFormed
<1>4. QueueSound /\ FailingSound /\ NothingForgotten
  BY <1>1 DEF Init, Idle, QueueSound, FailingSound, NothingForgotten
<1> QED BY <1>2, <1>3, <1>4 DEF IInv

\* However results, failures, refills and Ctrl+C interleave, a unit starts, and
\* a cached result counts, only once everything it depends on is satisfied.
THEOREM WalkFailClosed == Spec => []FailClosed
<1>1. IInv => FailClosed
  BY DEF IInv
<1> QED BY <1>1, InvInit, StepKeepsInv, TypeCorrect, PTL DEF Spec
-----------------------------------------------------------------------------
(* Groups and slots. *)

\* Where the slot of the unit just joined is free, and so is its group.
Freed == IF pc = "joined" \/ (pc = "drain" /\ current.next = "joined") THEN current.unit ELSE {}

\* A slot about to be refilled is free, and so is the group it serves.
SlotsSound ==
  /\ pc = "joined" \/ (pc = "drain" /\ current.next = "joined") => Cardinality(InFlight) < parallel
  /\ \A u \in Freed, v \in InFlight : plan.group[u] # plan.group[v]
  /\ InGroups => \A u \in InFlight : plan.group[u] \in activated

GInv == GroupsSerialized /\ SlotsSound

\* A set with a unit more has one more member; what shrinks stays countable.
LEMMA FlightSize ==
  /\ Cardinality(InFlight) \in Nat
  /\ \A u \in Unit \ InFlight : Cardinality(InFlight \cup {u}) = Cardinality(InFlight) + 1
  /\ \A u \in InFlight : Cardinality(InFlight \ {u}) = Cardinality(InFlight) - 1
  /\ \A T \in SUBSET InFlight : Cardinality(T) \in Nat /\ Cardinality(T) <= Cardinality(InFlight)
<1>1. InFlight \subseteq Unit
  BY DEF InFlight
<1>2. IsFiniteSet(InFlight)
  BY <1>1, PlanAssumption, FS_Subset
<1> QED BY <1>2, FS_CardinalityType, FS_AddElement, FS_RemoveElement, FS_Subset

\* Steps after which no slot is to be refilled and nothing more is in flight.
LEMMA NoSlotStep ==
  ASSUME TypeOK, GInv, plan' = plan, parallel' = parallel, InFlight' \subseteq InFlight,
         pc' # "joined", pc' = "drain" => current'.next # "joined",
         InGroups' => (InGroups /\ activated' = activated)
  PROVE  GInv'
<1>1. GroupsSerialized'
  <2>1. Cardinality(InFlight') <= Cardinality(InFlight) /\ Cardinality(InFlight') \in Nat
        /\ Cardinality(InFlight) \in Nat /\ parallel \in Nat
    BY FlightSize DEF TypeOK
  <2>2. Cardinality(InFlight') <= parallel'
    BY <2>1 DEF GInv, GroupsSerialized
  <2> QED BY <2>2 DEF GInv, GroupsSerialized
<1>2. SlotsSound'
  BY DEF GInv, SlotsSound, Freed
<1> QED BY <1>1, <1>2 DEF GInv

\* A unit is joined: its slot and its group are free.
LEMMA JoinFrees ==
  ASSUME TypeOK, GInv, NEW u \in Unit, pc = "select", worker[u] \in Outcome,
         worker' = [worker EXCEPT ![u] = "joined"], UNCHANGED <<plan, parallel, activated>>,
         current'.unit = {u}, pc' \in {"drain", "joined"}, InGroups'
  PROVE  GInv'
<1>1. InFlight' = InFlight \ {u} /\ u \in InFlight /\ InGroups
  BY DEF InFlight, TypeOK, Outcome, InGroups
<1>2. Cardinality(InFlight') = Cardinality(InFlight) - 1 /\ Cardinality(InFlight) \in Nat
      /\ parallel \in Nat
  BY <1>1, FlightSize DEF TypeOK
<1>3. GroupsSerialized'
  BY <1>1, <1>2 DEF GInv, GroupsSerialized
<1>4. Cardinality(InFlight') < parallel'
  BY <1>2 DEF GInv, GroupsSerialized
<1>5. Freed' \subseteq {u}
  BY DEF Freed
<1>6. \A v \in InFlight' : plan'.group[u] # plan'.group[v] /\ plan'.group[v] \in activated'
  BY <1>1 DEF GInv, GroupsSerialized, SlotsSound
<1>7. SlotsSound'
  BY <1>4, <1>5, <1>6 DEF SlotsSound
<1> QED BY <1>3, <1>7 DEF GInv

\* A unit is handed to the pool: of a group nobody has reached, or of the one just freed.
LEMMA SubmitFills ==
  ASSUME TypeOK, IInv, GInv, NEW u \in queued, Submit(u), plan' = plan, parallel' = parallel,
         \/ pc = "submit" /\ u \in Fresh /\ Cardinality(InFlight) < parallel
         \/ pc = "joined" /\ u \in Successors,
         pc' \in {"submit", "select", "teardown"}
  PROVE  GInv'
<1>1. u \in Unit /\ u \notin InFlight /\ InGroups
  BY DEF IInv, QueueSound, TypeOK, InGroups
<1>2. InFlight' = InFlight \cup {u} /\ activated' = activated \cup {plan.group[u]}
  BY <1>1 DEF Submit, InFlight, TypeOK, Outcome
<1>3. Cardinality(InFlight) < parallel
  BY DEF GInv, SlotsSound
<1>4. \A v \in InFlight : plan.group[v] # plan.group[u]
  BY <1>1 DEF GInv, SlotsSound, Successors, SameGroup, Fresh, Freed
<1>5. Cardinality(InFlight') <= parallel'
  <2>1. Cardinality(InFlight') = Cardinality(InFlight) + 1 /\ Cardinality(InFlight) \in Nat
    BY <1>1, <1>2, FlightSize
  <2>2. parallel \in Nat
    BY DEF TypeOK
  <2> QED BY <1>3, <2>1, <2>2
<1>6. GroupsSerialized'
  BY <1>2, <1>4, <1>5 DEF GInv, GroupsSerialized
<1>7. SlotsSound'
  <2>1. Freed' = {} /\ pc' \notin {"joined", "drain"}
    BY DEF Freed
  <2>2. \A v \in InFlight' : plan'.group[v] \in activated'
    BY <1>1, <1>2 DEF GInv, SlotsSound
  <2> QED BY <2>1, <2>2 DEF SlotsSound
<1> QED BY <1>6, <1>7 DEF GInv

\* Every step keeps the groups apart and the slots counted.
LEMMA GroupsStep ==
  ASSUME TypeOK, IInv, GInv, [Next]_vars
  PROVE  GInv'
<1> USE DEF setup, scheduler, tokens, services, handler, report
<1> DEFINE Same == /\ plan' = plan /\ parallel' = parallel /\ InFlight' = InFlight
                   /\ activated' = activated /\ pc' = pc /\ current' = current
<1>a. Same => GInv'
  BY DEF GInv, GroupsSerialized, SlotsSound, Freed, InGroups
<1>1. CASE EndWaves \/ StartWave \/ SlotsFilled \/ EndWave \/ ObserveInterrupt \/ NoRefill \/ TripFailFast
  <2>1. plan' = plan /\ parallel' = parallel /\ InFlight' = InFlight /\ activated' = activated
    BY <1>1 DEF EndWaves, StartWave, SlotsFilled, EndWave, ObserveInterrupt, NoRefill, TripFailFast,
      TripPool, InFlight
  <2>2. pc' \notin {"joined", "drain"} /\ (InGroups' => InGroups)
    BY <1>1 DEF EndWaves, StartWave, SlotsFilled, EndWave, ObserveInterrupt, NoRefill, TripFailFast,
      InGroups
  <2> QED BY <2>1, <2>2, NoSlotStep
<1>2. CASE StartGroups
  <2>1. pc = "collect" /\ pc' = "submit" /\ plan' = plan /\ InFlight' = InFlight /\ InFlight = {}
    BY <1>2 DEF StartGroups, InFlight, IInv, QueueSound, Collecting
  <2>2. parallel' \in Nat \ {0}
    <3> DEFINE groups == {plan.group[u] : u \in {u \in Pending : plan.wave[u] = wave}}
    <3>1. {u \in Pending : plan.wave[u] = wave} \subseteq Unit
      BY DEF Pending, PendingUnits, TypeOK
    <3>2. Cardinality(groups) \in Nat
      BY <3>1, GroupsFinite
    <3>3. Smaller(options.maxParallel, Cardinality(groups)) \in Nat
      BY <3>2, PlanFacts DEF Smaller, IsOptions
    <3> HIDE DEF groups
    <3> QED BY <1>2, <3>3 DEF StartGroups, groups
  <2>3. Cardinality(InFlight') = 0
    BY <2>1, FS_EmptySet
  <2> QED BY <2>1, <2>2, <2>3 DEF GInv, GroupsSerialized, SlotsSound, Freed
<1>3. ASSUME NEW u \in Unit, CacheHit(u) PROVE GInv'
  <2>1. /\ plan' = plan /\ parallel' = parallel /\ InFlight' = InFlight
        /\ pc' = "drain" /\ current'.next = "collect"
    BY <1>3 DEF CacheHit, Settle, InFlight
  <2> QED BY <2>1, NoSlotStep DEF InGroups
<1>4. ASSUME NEW u \in Unit, FillSlot(u) \/ Refill(u) \/ SubmitUnreported(u) PROVE GInv'
  <2>1. u \in queued
    BY <1>4 DEF FillSlot, Refill, SubmitUnreported, Successors, SameGroup, Fresh
  <2>2. CASE FillSlot(u)
    BY <2>1, <2>2, SubmitFills DEF FillSlot
  <2>3. CASE Refill(u)
    BY <2>1, <2>3, SubmitFills DEF Refill
  <2>4. CASE SubmitUnreported(u)
    BY <2>1, <2>4, SubmitFills DEF SubmitUnreported, Abort
  <2> QED BY <1>4, <2>2, <2>3, <2>4
<1>5. ASSUME NEW u \in Unit,
             JoinSucceeded(u) \/ (\E o \in {"failure", "timedOut", "notReady"} : JoinFailed(u, o))
             \/ JoinError(u) \/ JoinStopped(u) \/ JoinReady(u)
      PROVE  GInv'
  <2>1. /\ pc = "select" /\ worker[u] \in Outcome /\ worker' = [worker EXCEPT ![u] = "joined"]
        /\ UNCHANGED <<plan, parallel, activated>>
    BY <1>5 DEF JoinSucceeded, JoinFailed, JoinError, JoinStopped, JoinReady, Join, Outcome
  <2>2. current'.unit = {u} /\ pc' \in {"drain", "joined"} /\ InGroups'
    BY <1>5 DEF JoinSucceeded, JoinFailed, JoinError, JoinStopped, JoinReady, Settle, InGroups
  <2> QED BY <2>1, <2>2, JoinFrees
<1>6. ASSUME NEW u \in Unit,
             CacheWriteFails(u) \/ SucceededUnreported(u) \/ ReadyUnreported(u) \/ JoinCancelled(u)
      PROVE  GInv'
  <2>1. /\ UNCHANGED <<plan, parallel, activated>> /\ InFlight' \subseteq InFlight
        /\ pc = "select" /\ pc' \in {"select", "teardown"}
    BY <1>6 DEF CacheWriteFails, SucceededUnreported, ReadyUnreported, JoinCancelled, Join, Abort,
      InFlight, Outcome, TypeOK
  <2> QED BY <2>1, NoSlotStep DEF InGroups
<1>7. ASSUME NEW u \in Unit, TearDown(u) \/ AnnounceBlocked(u) \/ BlockDependents(u)
      PROVE  GInv'
  <2>1. /\ plan' = plan /\ parallel' = parallel /\ InFlight' = InFlight /\ activated' = activated
        /\ pc' = pc /\ current'.next = current.next /\ current'.unit = current.unit
    BY <1>7 DEF TearDown, AnnounceBlocked, BlockDependents, InFlight, TypeOK
  <2> QED BY <2>1 DEF GInv, GroupsSerialized, SlotsSound, Freed, InGroups
<1>8. CASE Drained
  <2>1. /\ plan' = plan /\ parallel' = parallel /\ InFlight' = InFlight /\ activated' = activated
        /\ pc = "drain" /\ current' = current
    BY <1>8 DEF Drained, InFlight
  <2>2. CASE current.next = "joined"
    BY <1>8, <2>1, <2>2 DEF Drained, GInv, GroupsSerialized, SlotsSound, Freed, InGroups
  <2>3. CASE current.next # "joined"
    <3>1. pc' \in {"collect", "teardown"}
      BY <1>8, <2>1, <2>3 DEF Drained, Abort, IInv, FailingSound
    <3> QED BY <2>1, <3>1, NoSlotStep DEF InGroups
  <2> QED BY <2>2, <2>3
<1>9. CASE \/ \E ok \in BOOLEAN : StopHeld(ok)
           \/ HeldStopped \/ PoolShutDown \/ Finish \/ SinkFails
           \/ \E u \in Unit : TearDownFails(u)
  <2>1. plan' = plan /\ parallel' = parallel
    BY <1>9 DEF StopHeld, HeldStopped, PoolShutDown, Finish, SinkFails, TearDownFails
  <2>3. InFlight' \subseteq InFlight
    <3>1. CASE PoolShutDown
      BY <3>1 DEF PoolShutDown, InFlight, Outcome
    <3>2. CASE ~PoolShutDown
      BY <1>9, <3>2 DEF StopHeld, HeldStopped, Finish, SinkFails, TearDownFails, InFlight
    <3> QED BY <3>1, <3>2
  <2>2. pc' \in {"teardown", "shutdown", "finish", "done"}
    BY <1>9 DEF StopHeld, HeldStopped, PoolShutDown, Finish, SinkFails, TearDownFails, Abort
  <2> QED BY <2>1, <2>2, <2>3, NoSlotStep DEF InGroups
<1>10. CASE Interrupt \/ Terminated \/ UNCHANGED vars \/ \E u \in Unit : WorkerEnds(u)
  <2>1. Same
    BY <1>10 DEF Interrupt, Terminated, vars, WorkerEnds, InFlight, Outcomes, Outcome, TypeOK
  <2> QED BY <1>a, <2>1
<1> QED BY <1>1, <1>2, <1>3, <1>4, <1>5, <1>6, <1>7, <1>8, <1>9, <1>10 DEF Next, Walker
-----------------------------------------------------------------------------
(* Verdicts and counters. *)

FailVerdict == {<<"Failed">>, <<"TimedOut">>, <<"FailedReadiness">>}

\* What has been reported of a unit is what its gate state and the handler say.
VerdictSound(u) ==
  /\ gate[u] = "Pending" =>
       IF u \in Failing THEN verdicts[u] \in FailVerdict ELSE verdicts[u] = <<>>
  /\ gate[u] = "Satisfied" =>
       IF u \in held \cup tornDown THEN verdicts[u] = <<>>
       ELSE verdicts[u] \in {<<"Succeeded">>, <<"Cached">>, <<"TornDown">>}
  /\ gate[u] = "Failed" => verdicts[u] \in FailVerdict
  /\ gate[u] = "Blocked" => verdicts[u] = IF u \in blocking THEN <<>> ELSE <<"Blocked">>

\* What the handler is still to do, and what is held, is about units in that state.
HandlerSound ==
  /\ draining \subseteq held
  /\ \A u \in held \cup tornDown : gate[u] = "Satisfied"
  /\ \A u \in blocking : gate[u] = "Blocked"
  /\ pc # "drain" => ~current.fails /\ draining = {}
  /\ pc # "drain" \/ current.fails => blocking = {}

\* Nothing held is forgotten on the way out.
ExitSound ==
  /\ pc \notin {"teardown", "shutdown", "finish"} => tornDown = {}
  /\ pc \in {"shutdown", "finish"} => held = {}
  /\ \A h \in held \ tornDown : \E i \in 1..Len(order) : order[i] = h

\* The verdict behind a counter.
Named == [cached |-> "Cached", failed |-> "Failed", timedOut |-> "TimedOut",
          failedReadiness |-> "FailedReadiness", blocked |-> "Blocked"]

\* The units a counter has counted.
Counted(c) ==
  IF c = "ran" THEN {u \in Unit : gate[u] = "Satisfied" /\ verdicts[u] # <<"Cached">>}
  ELSE IF c = "cancelled" THEN {}
  ELSE {u \in Unit : verdicts[u] = <<Named[c]>>}

\* Every counter is the number of the units counted with it.
CountersSound == \A c \in Counter : stats[c] = Cardinality(Counted(c))

Reporting == (\A u \in Unit : VerdictSound(u)) /\ HandlerSound /\ ExitSound /\ CountersSound

\* What holds of the reports, before and after an error.
RInv ==
  /\ OneVerdictPerUnit
  /\ result # "none" => pc \in {"teardown", "shutdown", "done"}
  /\ result = "ok" => pc = "done"
  /\ result = "none" => pc # "done" /\ Reporting

\* A counter that counts one unit more stays the number of the units it counted.
LEMMA CountStep ==
  ASSUME TypeOK, CountersSound, NEW c \in Counter, Count(c), NEW u \in Unit,
         u \notin Counted(c), Counted(c)' = Counted(c) \cup {u},
         \A d \in Counter \ {c} : Counted(d)' = Counted(d)
  PROVE  CountersSound'
<1>1. IsFiniteSet(Counted(c))
  <2>1. Counted(c) \in SUBSET Unit
    BY DEF Counted
  <2> QED BY <2>1, PlanAssumption, FS_Subset
<1>2. Cardinality(Counted(c)') = Cardinality(Counted(c)) + 1
  BY <1>1, FS_AddElement
<1>3. /\ stats'[c] = stats[c] + 1
      /\ \A d \in Counter \ {c} : stats'[d] = stats[d]
  BY DEF Count, TypeOK
<1>4. stats'[c] = Cardinality(Counted(c)')
  BY <1>2, <1>3 DEF CountersSound
<1>5. ASSUME NEW d \in Counter \ {c} PROVE stats'[d] = Cardinality(Counted(d)')
  BY <1>3, <1>5 DEF CountersSound
<1> QED BY <1>4, <1>5 DEF CountersSound

\* The first status of a unit is its only one; the other units keep theirs.
LEMMA EmitOne ==
  ASSUME TypeOK, NEW u \in Unit, NEW s \in Status, verdicts[u] = <<>>, Emit(u, s)
  PROVE  \A v \in Unit : verdicts'[v] = IF v = u THEN <<s>> ELSE verdicts[v]
<1>1. Append(<<>>, s) = <<s>>
  OBVIOUS
<1> QED BY <1>1 DEF Emit, TypeOK

\* Verdicts of one status each: distinct statuses, distinct verdicts.
LEMMA Singles ==
  /\ \A s, t \in Status : <<s>> = <<t>> <=> s = t
  /\ \A s \in Status : <<s>> # <<>>
  /\ \A s \in Status : Len(<<s>>) = 1
  /\ Len(<<>>) = 0
OBVIOUS

\* A unit about to be reported for the first time, before its counter or its gate changes.
LEMMA NamedFacts ==
  ASSUME NEW c \in Counter \ {"ran", "cancelled"}
  PROVE  Named[c] \in Status /\ \A d \in Counter \ {"ran", "cancelled"} : Named[d] = Named[c] => d = c
BY DEF Named, Counter, Status

\* Reporting u with the verdict of counter c, its gate left alone.
LEMMA CountNamed ==
  ASSUME TypeOK, CountersSound, NEW c \in Counter \ {"ran", "cancelled"}, NEW u \in Unit,
         Count(c), Emit(u, Named[c]), verdicts[u] = <<>>, gate[u] # "Satisfied",
         \A v \in Unit : gate'[v] = gate[v] \/ (v = u /\ c = "cached")
  PROVE  CountersSound'
<1>1. \A v \in Unit : verdicts'[v] = IF v = u THEN <<Named[c]>> ELSE verdicts[v]
  BY NamedFacts, EmitOne
<1>2. u \notin Counted(c) /\ Counted(c)' = Counted(c) \cup {u}
  BY <1>1, Singles, NamedFacts DEF Counted
<1>3. ASSUME NEW d \in Counter \ {c} PROVE Counted(d)' = Counted(d)
  <2>1. CASE d = "ran"
    <3>1. c = "cached" => Named[c] = "Cached"
      BY DEF Named
    <3> QED BY <1>1, <2>1, <3>1 DEF Counted
  <2>2. CASE d = "cancelled"
    BY <2>2 DEF Counted
  <2>3. CASE d \notin {"ran", "cancelled"}
    <3>1. Named[d] \in Status /\ Named[d] # Named[c]
      BY <1>3, <2>3, NamedFacts
    <3>2. <<Named[d]>> # <<Named[c]>> /\ <<Named[d]>> # <<>>
      BY <3>1
    <3> QED BY <1>1, <2>3, <3>2 DEF Counted
  <2> QED BY <2>1, <2>2, <2>3
<1> QED BY <1>2, <1>3, CountStep

\* A unit ran: its gate opens and what is reported of it, if anything, is not a verdict others count.
LEMMA CountRan ==
  ASSUME TypeOK, CountersSound, NEW u \in Unit, Count("ran"), gate' = Satisfy(gate, u),
         gate[u] = "Pending", verdicts[u] = <<>>,
         verdicts' = verdicts \/ Emit(u, "Succeeded")
  PROVE  CountersSound'
<1>1. \A v \in Unit : gate'[v] = IF v = u THEN "Satisfied" ELSE gate[v]
  BY DEF Satisfy, TypeOK
<1>2. /\ \A v \in Unit \ {u} : verdicts'[v] = verdicts[v]
      /\ verdicts'[u] \in {<<>>, <<"Succeeded">>}
  BY EmitOne DEF Status
<1>3. u \notin Counted("ran") /\ Counted("ran")' = Counted("ran") \cup {u}
  <2>1. <<>> # <<"Cached">> /\ <<"Succeeded">> # <<"Cached">>
    OBVIOUS
  <2> QED BY <1>1, <1>2, <2>1 DEF Counted
<1>4. ASSUME NEW d \in Counter \ {"ran"} PROVE Counted(d)' = Counted(d)
  <2>1. CASE d = "cancelled"
    BY <2>1 DEF Counted
  <2>2. CASE d # "cancelled"
    <3>1. Named[d] \in {"Cached", "Failed", "TimedOut", "FailedReadiness", "Blocked"}
      BY <1>4, <2>2 DEF Named, Counter
    <3>2. <<Named[d]>> # <<"Succeeded">> /\ <<Named[d]>> # <<>>
      BY <3>1
    <3> QED BY <1>2, <2>2, <3>2 DEF Counted
  <2> QED BY <2>1, <2>2
<1>5. "ran" \in Counter
  BY DEF Counter
<1> QED BY <1>3, <1>4, <1>5, CountStep

\* Nothing is counted: the verdicts and the open gates the counters look at are the same.
LEMMA CountNone ==
  ASSUME CountersSound, UNCHANGED stats,
         \A v \in Unit : \/ verdicts'[v] = verdicts[v] /\ (gate'[v] = "Satisfied" <=> gate[v] = "Satisfied")
                         \/ /\ gate'[v] = gate[v]
                            /\ verdicts[v] = <<>> /\ verdicts'[v] = <<"TornDown">>
  PROVE  CountersSound'
<1>1. \A c \in Counter : Counted(c)' = Counted(c)
  <2> TAKE c \in Counter
  <2>1. CASE c = "ran"
    <3>1. <<>> # <<"Cached">> /\ <<"TornDown">> # <<"Cached">>
      OBVIOUS
    <3> QED BY <2>1, <3>1 DEF Counted
  <2>2. CASE c = "cancelled"
    BY <2>2 DEF Counted
  <2>3. CASE c \notin {"ran", "cancelled"}
    <3>1. Named[c] \in {"Cached", "Failed", "TimedOut", "FailedReadiness", "Blocked"}
      BY <2>3 DEF Named, Counter
    <3>2. <<Named[c]>> # <<"TornDown">> /\ <<Named[c]>> # <<>>
      BY <3>1
    <3> QED BY <2>3, <3>2 DEF Counted
  <2> QED BY <2>1, <2>2, <2>3
<1> QED BY <1>1 DEF CountersSound

\* The walk is over with an error: what was reported stays, and no summary follows.
LEMMA ErrorStep ==
  ASSUME RInv, verdicts' = verdicts, result' = "error", pc' \in {"teardown", "shutdown", "done"}
  PROVE  RInv'
BY DEF RInv, OneVerdictPerUnit, Ended

\* No unit has two verdicts while each has the one its state says.
LEMMA SoundIsOne ==
  ASSUME (\A u \in Unit : VerdictSound(u))', (gate \in [Unit -> GateState])'
  PROVE  \A u \in Unit : Len(verdicts'[u]) <= 1
<1> SUFFICES ASSUME NEW u \in Unit PROVE Len(verdicts'[u]) <= 1
  OBVIOUS
<1>1. verdicts'[u] = <<>> \/ \E s \in Status : verdicts'[u] = <<s>>
  BY DEF VerdictSound, FailVerdict, GateState, Status
<1>2. Len(verdicts'[u]) \in {0, 1}
  BY <1>1, Singles, Zenon
<1>3. \A n \in {0, 1} : n <= 1
  OBVIOUS
<1> QED BY <1>2, <1>3, Zenon

\* What a step that goes on has to show.
LEMMA GoOn ==
  ASSUME TypeOK', Reporting', result' = "none", pc' # "done"
  PROVE  RInv'
<1>1. \A u \in Unit : Len(verdicts'[u]) <= 1
  BY SoundIsOne DEF Reporting, TypeOK
<1> QED BY <1>1 DEF RInv, OneVerdictPerUnit, Ended

\* Steps that report nothing and leave the handler's work alone.
LEMMA StillStep ==
  ASSUME TypeOK, RInv, UNCHANGED <<gate, verdicts, stats, held, tornDown, order, draining, blocking, result>>,
         Failing' = Failing,
         pc' # "drain" => ~current'.fails /\ (result = "none" => draining = {} /\ blocking = {}),
         pc' = "drain" => pc = "drain" /\ current'.fails = current.fails,
         pc \in {"teardown", "shutdown", "finish", "done"} =>
           \/ pc' = pc
           \/ pc = "shutdown" /\ pc' = IF result = "none" THEN "finish" ELSE "done",
         pc \notin {"teardown", "shutdown", "finish", "done"} =>
           pc' \notin {"shutdown", "finish", "done"}
  PROVE  RInv'
<1>1. CASE result = "none"
  <2>1. \A u \in Unit : VerdictSound(u)'
    BY <1>1 DEF RInv, Reporting, VerdictSound
  <2>2. HandlerSound'
    BY <1>1 DEF RInv, Reporting, HandlerSound
  <2>3. ExitSound'
    BY <1>1 DEF RInv, Reporting, ExitSound
  <2>4. CountersSound'
    BY <1>1 DEF RInv, Reporting, CountersSound, Counted
  <2>5. pc' # "done"
    BY <1>1 DEF RInv
  <2>6. \A u \in Unit : Len(verdicts'[u]) <= 1
    BY DEF RInv, OneVerdictPerUnit
  <2> QED BY <1>1, <2>1, <2>2, <2>3, <2>4, <2>5, <2>6 DEF RInv, Reporting, OneVerdictPerUnit, Ended
<1>2. CASE result = "error"
  <2>1. pc' \in {"teardown", "shutdown", "done"}
    BY <1>2 DEF RInv
  <2> QED BY <1>2, <2>1, ErrorStep
<1>3. CASE result = "ok"
  <2>1. pc = "done" /\ pc' = "done"
    BY <1>3 DEF RInv
  <2>2. \A u \in Unit : CounterOf(u)' = CounterOf(u)
    BY DEF CounterOf
  <2> QED BY <1>3, <2>1, <2>2 DEF RInv, OneVerdictPerUnit, Ended
<1> QED BY <1>1, <1>2, <1>3 DEF TypeOK

\* A unit about to be joined has nothing reported, is not held and not failing.
LEMMA JoinedUnreported ==
  ASSUME TypeOK, IInv, RInv, NEW u \in Unit, pc = "select", worker[u] \in Outcome
  PROVE  /\ result = "none" /\ Reporting
         /\ gate[u] = "Pending" /\ verdicts[u] = <<>> /\ Failing = {}
         /\ u \notin held \cup tornDown \cup blocking
         /\ tornDown = {} /\ blocking = {}
<1>1. result = "none" /\ Reporting /\ InGroups
  BY DEF RInv, InGroups
<1>2. gate[u] = "Pending" /\ Failing = {}
  BY <1>1 DEF IInv, QueueSound, FailingSound, InFlight, Failing
<1> QED BY <1>1, <1>2 DEF Reporting, VerdictSound, HandlerSound, ExitSound

\* A success, or a hit: the gate opens and the verdict is out.
LEMMA SuccessReported ==
  ASSUME TypeOK, TypeOK', RInv, NEW u \in Unit, result = "none", Reporting, Failing = {},
         gate[u] = "Pending", NEW s \in {"Succeeded", "Cached"},
         Emit(u, s), Count(IF s = "Cached" THEN "cached" ELSE "ran"), gate' = Satisfy(gate, u),
         UNCHANGED <<held, tornDown, order, blocking, result>>, draining' \subseteq held,
         pc \in {"select", "collect"}, pc' = "drain", ~current'.fails
  PROVE  RInv'
<1>1. /\ verdicts[u] = <<>> /\ u \notin held /\ tornDown = {} /\ blocking = {}
      /\ Failing' = {} /\ s \in Status
  BY DEF Reporting, VerdictSound, HandlerSound, ExitSound, Failing, Status
<1>2. /\ \A v \in Unit : verdicts'[v] = IF v = u THEN <<s>> ELSE verdicts[v]
      /\ \A v \in Unit : gate'[v] = IF v = u THEN "Satisfied" ELSE gate[v]
  BY <1>1, EmitOne DEF Satisfy, TypeOK
<1>3. \A v \in Unit : VerdictSound(v)'
  BY <1>1, <1>2 DEF Reporting, VerdictSound
<1>4. HandlerSound' /\ ExitSound'
  <2>1. HandlerSound'
    <3>1. pc' = "drain" /\ blocking = {} /\ blocking' = {}
      BY DEF Reporting, HandlerSound
    <3>2. \A v \in held' \cup tornDown' : gate'[v] = "Satisfied"
      BY <1>1, <1>2 DEF Reporting, HandlerSound, TypeOK
    <3> QED BY <3>1, <3>2 DEF HandlerSound
  <2>2. ExitSound'
    BY <1>1 DEF Reporting, ExitSound
  <2> QED BY <2>1, <2>2
<1>5. CountersSound'
  <2>1. CASE s = "Cached"
    <3>1. "cached" \in Counter \ {"ran", "cancelled"} /\ Named["cached"] = "Cached"
      BY DEF Counter, Named
    <3> QED BY <1>1, <1>2, <2>1, <3>1, CountNamed DEF Reporting
  <2>2. CASE s = "Succeeded"
    BY <1>1, <2>2, CountRan DEF Reporting
  <2> QED BY <2>1, <2>2
<1> QED BY <1>3, <1>4, <1>5, GoOn DEF Reporting

\* A failure is reported before its gate closes.
LEMMA FailureReported ==
  ASSUME TypeOK, TypeOK', IInv, RInv, NEW u \in Unit, pc = "select", worker[u] \in Outcome,
         NEW c \in {"failed", "timedOut", "failedReadiness"}, Count(c), Emit(u, Named[c]),
         UNCHANGED <<gate, held, tornDown, order, blocking, result>>, draining' \subseteq held,
         pc' = "drain", current'.fails, current'.unit = {u}
  PROVE  RInv'
<1>0. /\ result = "none" /\ Reporting /\ gate[u] = "Pending" /\ verdicts[u] = <<>> /\ Failing = {}
      /\ tornDown = {} /\ blocking = {}
  BY JoinedUnreported
<1>1. Failing' = {u} /\ Named[c] \in Status /\ <<Named[c]>> \in FailVerdict
      /\ c \in Counter \ {"ran", "cancelled"}
  BY DEF Failing, Named, Status, FailVerdict, Counter
<1>2. \A v \in Unit : verdicts'[v] = IF v = u THEN <<Named[c]>> ELSE verdicts[v]
  BY <1>0, <1>1, EmitOne
<1>3. \A v \in Unit : VerdictSound(v)'
  BY <1>0, <1>1, <1>2 DEF Reporting, VerdictSound
<1>4. HandlerSound' /\ ExitSound'
  BY <1>0 DEF Reporting, HandlerSound, ExitSound
<1>5. CountersSound'
  BY <1>0, <1>1, CountNamed DEF Reporting
<1> QED BY <1>0, <1>3, <1>4, <1>5, GoOn DEF Reporting

\* A service is ready: it ran, and its verdict waits for its teardown.
LEMMA ReadyHeld ==
  ASSUME TypeOK, TypeOK', IInv, RInv, NEW u \in Unit, JoinReady(u)
  PROVE  RInv'
<1> USE DEF setup, scheduler, tokens, services, handler, report
<1>0. /\ result = "none" /\ Reporting /\ gate[u] = "Pending" /\ verdicts[u] = <<>> /\ Failing = {}
      /\ tornDown = {} /\ blocking = {} /\ u \notin held
  BY JoinedUnreported DEF JoinReady, Join, Outcome
<1>1. /\ verdicts' = verdicts /\ gate' = Satisfy(gate, u) /\ Count("ran") /\ result' = "none"
      /\ held' = held \cup {u} /\ order' = Append(order, u) /\ draining' \subseteq held'
      /\ tornDown' = {} /\ blocking' = {} /\ pc' = "drain" /\ ~current'.fails /\ Failing' = {}
  BY <1>0 DEF JoinReady, Hold, Failing
<1>2. \A v \in Unit : gate'[v] = IF v = u THEN "Satisfied" ELSE gate[v]
  BY <1>1 DEF Satisfy, TypeOK
<1>3. \A v \in Unit : VerdictSound(v)'
  BY <1>0, <1>1, <1>2 DEF Reporting, VerdictSound
<1>4. HandlerSound'
  BY <1>0, <1>1, <1>2 DEF Reporting, HandlerSound, TypeOK
<1>5. ExitSound'
  <2>1. /\ Len(order') = Len(order) + 1 /\ Len(order) \in Nat /\ order'[Len(order) + 1] = u
        /\ \A i \in 1..Len(order) : order'[i] = order[i]
    BY <1>1 DEF TypeOK
  <2>2. ASSUME NEW h \in held' PROVE \E i \in 1..Len(order') : order'[i] = h
    <3>1. CASE h = u
      BY <2>1, <3>1
    <3>2. CASE h \in held
      BY <1>0, <2>1, <3>2 DEF Reporting, ExitSound
    <3> QED BY <1>1, <2>2, <3>1, <3>2
  <2> QED BY <1>1, <2>2 DEF ExitSound
<1>6. CountersSound'
  BY <1>0, <1>1, CountRan DEF Reporting
<1> QED BY <1>1, <1>3, <1>4, <1>5, <1>6, GoOn DEF Reporting

\* A service no longer used is torn down: its verdict is out, the counters have it already.
LEMMA TearDownReported ==
  ASSUME TypeOK, TypeOK', RInv, NEW h \in Unit, TearDown(h)
  PROVE  RInv'
<1> USE DEF setup, scheduler, tokens, handler
<1>0. result = "none" /\ Reporting /\ h \in held /\ tornDown = {} /\ h \notin blocking
      /\ verdicts[h] = <<>> /\ gate[h] = "Satisfied"
  <2>1. result = "none" /\ Reporting
    BY DEF RInv, TearDown
  <2>2. h \in held /\ tornDown = {} /\ gate[h] = "Satisfied" /\ h \notin blocking
    BY <2>1 DEF TearDown, Reporting, HandlerSound, ExitSound
  <2> QED BY <2>1, <2>2 DEF Reporting, VerdictSound
<1>1. /\ UNCHANGED <<gate, stats, tornDown, order, current, blocking, result, pc>> /\ pc = "drain"
      /\ held' = held \ {h} /\ draining' = draining \ {h}
  BY DEF TearDown
<1>2. \A v \in Unit : verdicts'[v] = IF v = h THEN <<"TornDown">> ELSE verdicts[v]
  BY <1>0, EmitOne DEF TearDown, Status
<1>3. \A v \in Unit : VerdictSound(v)'
  BY <1>0, <1>1, <1>2 DEF Reporting, VerdictSound, Failing
<1>4. HandlerSound' /\ ExitSound'
  BY <1>0, <1>1 DEF Reporting, HandlerSound, ExitSound
<1>5. CountersSound'
  BY <1>0, <1>1, <1>2, CountNone DEF Reporting
<1> QED BY <1>0, <1>1, <1>3, <1>4, <1>5, GoOn DEF Reporting

\* The failed unit's gate closes, and those of its dependents: they are yet to be announced.
LEMMA BlockReported ==
  ASSUME TypeOK, TypeOK', IInv, RInv, NEW u \in Unit, BlockDependents(u)
  PROVE  RInv'
<1> USE DEF setup, scheduler, tokens, services, report
<1> DEFINE R == BlockedBy(plan.deps, gate, u)
<1>0. result = "none" /\ Reporting /\ blocking = {}
  BY DEF RInv, BlockDependents, Reporting, HandlerSound
<1>1. /\ UNCHANGED <<verdicts, stats, held, tornDown, order, draining, result, pc>> /\ pc = "drain"
      /\ current.fails /\ u \in current.unit /\ ~current'.fails
      /\ gate' = FailAndBlock(plan.deps, gate, u) /\ blocking' = R
  BY DEF BlockDependents, TypeOK
<1>2. Failing = {u} /\ gate[u] = "Pending" /\ Failing' = {}
  <2>1. InGroups
    BY <1>1 DEF IInv, QueueSound, InGroups, Collecting
  <2> QED BY <1>1, <2>1 DEF IInv, FailingSound, Failing
<1>3. \A v \in R : v \in Unit /\ gate[v] = "Pending" /\ v # u
  BY BlockedWerePending DEF PendingUnits, TypeOK
<1>4. \A v \in Unit : gate'[v] = IF v = u THEN "Failed" ELSE IF v \in R THEN "Blocked" ELSE gate[v]
  BY <1>1 DEF FailAndBlock, TypeOK
<1> HIDE DEF R
<1>5. \A v \in Unit : VerdictSound(v)'
  BY <1>0, <1>1, <1>2, <1>3, <1>4 DEF Reporting, VerdictSound
<1>6. HandlerSound' /\ ExitSound'
  <2>1. ASSUME NEW v \in held \cup tornDown PROVE gate'[v] = "Satisfied"
    <3>1. v \in Unit /\ gate[v] = "Satisfied"
      BY <1>0 DEF Reporting, HandlerSound, TypeOK
    <3>2. v # u /\ v \notin R
      BY <1>2, <1>3, <3>1
    <3> QED BY <1>4, <3>1, <3>2
  <2>2. \A v \in R : gate'[v] = "Blocked"
    BY <1>3, <1>4
  <2>3. HandlerSound'
    BY <1>0, <1>1, <2>1, <2>2 DEF Reporting, HandlerSound, R
  <2>4. ExitSound'
    BY <1>0, <1>1 DEF Reporting, ExitSound
  <2> QED BY <2>3, <2>4
<1>7. CountersSound'
  BY <1>0, <1>1, <1>2, <1>3, <1>4, CountNone DEF Reporting
<1> QED BY <1>0, <1>1, <1>5, <1>6, <1>7, GoOn DEF Reporting

\* A blocked unit is announced.
LEMMA AnnounceReported ==
  ASSUME TypeOK, TypeOK', RInv, NEW b \in Unit, AnnounceBlocked(b)
  PROVE  RInv'
<1> USE DEF setup, scheduler, tokens
<1>0. /\ result = "none" /\ Reporting /\ gate[b] = "Blocked" /\ verdicts[b] = <<>>
      /\ b \notin held \cup tornDown
  <2>1. result = "none" /\ Reporting
    BY DEF RInv, AnnounceBlocked
  <2>2. gate[b] = "Blocked" /\ b \in blocking
    BY <2>1 DEF AnnounceBlocked, Reporting, HandlerSound
  <2> QED BY <2>1, <2>2 DEF Reporting, VerdictSound, HandlerSound
<1>1. /\ UNCHANGED <<gate, held, tornDown, order, current, result, pc>> /\ pc = "drain"
      /\ ~current.fails /\ blocking' = blocking \ {b} /\ draining' \subseteq held
      /\ Count("blocked") /\ Emit(b, "Blocked")
  BY DEF AnnounceBlocked, DependentFinished
<1>2. \A v \in Unit : verdicts'[v] = IF v = b THEN <<"Blocked">> ELSE verdicts[v]
  BY <1>0, <1>1, EmitOne DEF Status
<1>3. \A v \in Unit : VerdictSound(v)'
  BY <1>0, <1>1, <1>2 DEF Reporting, VerdictSound, Failing
<1>4. HandlerSound' /\ ExitSound'
  BY <1>0, <1>1 DEF Reporting, HandlerSound, ExitSound
<1>5. CountersSound'
  <2>1. "blocked" \in Counter \ {"ran", "cancelled"} /\ Named["blocked"] = "Blocked"
    BY DEF Counter, Named
  <2> QED BY <1>0, <1>1, <2>1, CountNamed DEF Reporting
<1> QED BY <1>0, <1>1, <1>3, <1>4, <1>5, GoOn DEF Reporting

\* A sequence without its last element.
LEMMA LastDropped ==
  ASSUME NEW q \in Seq(Unit), q # <<>>
  PROVE  LET p == SubSeq(q, 1, Len(q) - 1) IN
         /\ Len(q) \in Nat \ {0} /\ Len(p) = Len(q) - 1
         /\ \A i \in 1..Len(p) : p[i] = q[i]
<1> DEFINE n == Len(q) - 1
<1>1. Len(q) \in Nat \ {0}
  OBVIOUS
<1>2. 1 \in Int /\ n \in Nat /\ n \in Int /\ \A i \in 1..n : q[i] \in Unit
  BY <1>1
<1> HIDE DEF n
<1>3. /\ Len(SubSeq(q, 1, n)) = IF 1 <= n THEN n - 1 + 1 ELSE 0
      /\ \A i \in 1..(n - 1 + 1) : SubSeq(q, 1, n)[i] = q[1 + i - 1]
  BY <1>2, SubSeqProperties
<1>4. Len(SubSeq(q, 1, n)) = n /\ \A i \in 1..n : SubSeq(q, 1, n)[i] = q[i]
  BY <1>2, <1>3
<1> QED BY <1>1, <1>4 DEF n

\* The registry stops what is held, last held first: none is lost on the way.
LEMMA StopHeldReported ==
  ASSUME TypeOK, TypeOK', RInv, NEW ok \in BOOLEAN, StopHeld(ok)
  PROVE  RInv'
<1> USE DEF setup, scheduler, tokens, handler
<1> DEFINE h == order[Len(order)]
<1>1. /\ pc = "teardown" /\ order # <<>> /\ order' = SubSeq(order, 1, Len(order) - 1)
      /\ UNCHANGED <<gate, verdicts, stats, held, current, draining, blocking, pc>>
      /\ tornDown' = IF h \in held THEN tornDown \cup {h} ELSE tornDown
      /\ result' \in {result, "error"}
  BY DEF StopHeld
<1>2. CASE result' = "error"
  BY <1>1, <1>2, ErrorStep
<1>3. CASE result' = "none" /\ result = "none"
  <2>0. Reporting
    BY <1>3 DEF RInv
  <2>1. /\ Len(order) \in Nat \ {0} /\ Len(order') = Len(order) - 1
        /\ \A i \in 1..Len(order') : order'[i] = order[i]
    BY <1>1, LastDropped DEF TypeOK
  <2> HIDE DEF h
  <2>2. \A v \in Unit : VerdictSound(v)'
    BY <1>1, <2>0 DEF Reporting, VerdictSound, Failing
  <2>3. HandlerSound'
    BY <1>1, <2>0 DEF Reporting, HandlerSound
  <2>4. ExitSound'
    <3> SUFFICES ASSUME NEW g \in held \ tornDown' PROVE \E i \in 1..Len(order') : order'[i] = g
      BY <1>1, <2>0 DEF ExitSound, Reporting
    <3>1. PICK i \in 1..Len(order) : order[i] = g
      BY <1>1, <2>0 DEF Reporting, ExitSound
    <3>2. i # Len(order)
      BY <1>1, <3>1 DEF h
    <3>3. i \in 1..Len(order')
      BY <2>1, <3>2
    <3> QED BY <2>1, <3>1, <3>3
  <2>5. CountersSound'
    BY <1>1, <2>0, CountNone DEF Reporting
  <2> QED BY <1>1, <1>3, <2>2, <2>3, <2>4, <2>5, GoOn DEF Reporting
<1>4. CASE result = "ok"
  BY <1>1, <1>4 DEF RInv
<1> QED BY <1>1, <1>2, <1>3, <1>4 DEF TypeOK

\* The registry has stopped every held service: nobody is held any more.
LEMMA HeldStoppedReported ==
  ASSUME TypeOK, TypeOK', RInv, HeldStopped
  PROVE  RInv'
<1> USE DEF setup, scheduler, tokens, handler, report
<1>1. /\ pc = "teardown" /\ pc' = "shutdown" /\ order = <<>> /\ held' = held \ tornDown
      /\ UNCHANGED <<gate, verdicts, stats, tornDown, order, current, draining, blocking, result>>
  BY DEF HeldStopped
<1>2. CASE result = "none"
  <2>0. Reporting
    BY <1>2 DEF RInv
  <2>1. held' = {} /\ held \subseteq tornDown
    <3>1. Len(order) = 0
      BY <1>1
    <3> QED BY <1>1, <2>0, <3>1 DEF Reporting, ExitSound
  <2>2. \A v \in Unit : VerdictSound(v)'
    BY <1>1, <2>0, <2>1 DEF Reporting, VerdictSound, Failing
  <2>3. HandlerSound' /\ ExitSound'
    BY <1>1, <2>0, <2>1 DEF Reporting, HandlerSound, ExitSound
  <2>4. CountersSound'
    BY <1>1, <2>0, CountNone DEF Reporting
  <2> QED BY <1>1, <1>2, <2>2, <2>3, <2>4, GoOn DEF Reporting
<1>3. CASE result = "error"
  BY <1>1, <1>3, ErrorStep
<1>4. CASE result = "ok"
  BY <1>1, <1>4 DEF RInv
<1> QED BY <1>2, <1>3, <1>4 DEF TypeOK

\* The terminal events of the rest: who was torn down ran, who is still Pending is cancelled.
LEMMA FinishReported ==
  ASSUME TypeOK, TypeOK', RInv, Finish
  PROVE  RInv'
<1> USE DEF setup, scheduler, tokens, services, handler
<1>0. result = "none" /\ Reporting /\ held = {} /\ blocking = {} /\ Failing = {}
  <2>1. result = "none" /\ Reporting
    BY DEF RInv, Finish
  <2> QED BY <2>1 DEF Finish, Reporting, HandlerSound, ExitSound, Failing
<1>1. pc' = "done" /\ result' = "ok" /\ gate' = gate
  BY DEF Finish
<1>2. ASSUME NEW u \in Unit
      PROVE  verdicts'[u] = IF gate[u] = "Pending" THEN <<"Cancelled">>
                            ELSE IF u \in tornDown THEN <<"TornDown">> ELSE verdicts[u]
  <2>1. VerdictSound(u) /\ (u \in tornDown => gate[u] = "Satisfied")
    BY <1>0 DEF Reporting, HandlerSound
  <2>2. verdicts'[u] = verdicts[u] \o (IF u \in tornDown THEN <<"TornDown">> ELSE <<>>)
                         \o (IF u \in Pending THEN <<"Cancelled">> ELSE <<>>)
    BY DEF Finish
  <2>3. u \in Pending <=> gate[u] = "Pending"
    BY DEF Pending, PendingUnits, TypeOK
  <2>4. CASE gate[u] = "Pending"
    <3>1. verdicts[u] = <<>> /\ u \notin tornDown
      BY <1>0, <2>1, <2>4 DEF VerdictSound
    <3> QED BY <2>2, <2>3, <2>4, <3>1
  <2>5. CASE u \in tornDown
    <3>1. verdicts[u] = <<>> /\ gate[u] # "Pending"
      BY <1>0, <2>1, <2>5 DEF VerdictSound
    <3>2. verdicts'[u] = (<<>> \o <<"TornDown">>) \o <<>>
      BY <2>2, <2>3, <2>5, <3>1
    <3>3. (<<>> \o <<"TornDown">>) \o <<>> = <<"TornDown">>
      OBVIOUS
    <3> QED BY <2>5, <3>1, <3>2, <3>3
  <2>6. CASE gate[u] # "Pending" /\ u \notin tornDown
    <3>1. verdicts[u] \in Seq(Status)
      BY DEF TypeOK
    <3>2. verdicts'[u] = (verdicts[u] \o <<>>) \o <<>>
      BY <2>2, <2>3, <2>6
    <3>3. \A q \in Seq(Status) : (q \o <<>>) \o <<>> = q
      OBVIOUS
    <3> QED BY <2>6, <3>1, <3>2, <3>3
  <2> QED BY <2>4, <2>5, <2>6
<1>3. ASSUME NEW u \in Unit
      PROVE  /\ \E s \in Status : verdicts'[u] = <<s>>
             /\ gate[u] = "Satisfied" => verdicts'[u] \in {<<"Succeeded">>, <<"Cached">>, <<"TornDown">>}
             /\ gate[u] = "Failed" => verdicts'[u] \in FailVerdict
             /\ gate[u] = "Blocked" => verdicts'[u] = <<"Blocked">>
             /\ gate[u] = "Pending" => verdicts'[u] = <<"Cancelled">>
  <2>1. VerdictSound(u) /\ (u \in tornDown => gate[u] = "Satisfied")
    BY <1>0 DEF Reporting, HandlerSound
  <2>2. /\ gate[u] = "Satisfied" => verdicts'[u] \in {<<"Succeeded">>, <<"Cached">>, <<"TornDown">>}
        /\ gate[u] = "Failed" => verdicts'[u] \in FailVerdict
        /\ gate[u] = "Blocked" => verdicts'[u] = <<"Blocked">>
        /\ gate[u] = "Pending" => verdicts'[u] = <<"Cancelled">>
    BY <1>0, <1>2, <2>1 DEF VerdictSound
  <2> QED BY <2>2 DEF Status, FailVerdict, TypeOK, GateState
<1>4. \A u \in Unit : CounterOf(u)' \in Counter
                      /\ (CounterOf(u)' = "cancelled" <=> gate[u] = "Pending")
                      /\ \A c \in Counter \ {"cancelled"} : CounterOf(u)' = c <=> u \in Counted(c)
  <2> TAKE u \in Unit
  <2>0. VerdictSound(u) /\ u \notin held /\ u \notin blocking /\ u \notin Failing
        /\ (u \in tornDown => gate[u] = "Satisfied")
    BY <1>0 DEF Reporting, HandlerSound
  <2>a. CounterOf(u)' = CASE gate[u] = "Blocked" -> "blocked"
                          [] gate[u] = "Pending" -> "cancelled"
                          [] verdicts'[u][1] \in {"Succeeded", "TornDown"} -> "ran"
                          [] verdicts'[u][1] = "Cached" -> "cached"
                          [] verdicts'[u][1] = "Failed" -> "failed"
                          [] verdicts'[u][1] = "TimedOut" -> "timedOut"
                          [] OTHER -> "failedReadiness"
    BY <1>1 DEF CounterOf
  <2>b. \A c \in Counter \ {"cancelled", "ran"} :
          u \in Counted(c) <=> verdicts[u] = <<Named[c]>>
    BY DEF Counted
  <2>c. u \in Counted("ran") <=> gate[u] = "Satisfied" /\ verdicts[u] # <<"Cached">>
    BY DEF Counted
  <2>1. CASE gate[u] = "Blocked"
    <3>1. verdicts[u] = <<"Blocked">>
      BY <2>0, <2>1 DEF VerdictSound
    <3>2. verdicts'[u][1] = "Blocked"
      BY <1>3, <2>1
    <3>3. CounterOf(u)' = "blocked"
      BY <2>1, <2>a, <3>2
    <3> QED BY <2>1, <2>b, <2>c, <3>1, <3>3 DEF Counter, Named
  <2>2. CASE gate[u] = "Pending"
    <3>1. verdicts[u] = <<>>
      BY <2>0, <2>2 DEF VerdictSound
    <3>2. verdicts'[u][1] = "Cancelled"
      BY <1>3, <2>2
    <3>3. CounterOf(u)' = "cancelled"
      BY <2>2, <2>a, <3>2
    <3> QED BY <2>2, <2>b, <2>c, <3>1, <3>3 DEF Counter, Named
  <2>3. CASE gate[u] = "Failed"
    <3>1. verdicts'[u] = verdicts[u] /\ verdicts[u] \in FailVerdict
      BY <1>2, <2>0, <2>3 DEF VerdictSound
    <3>2. CASE verdicts[u] = <<"Failed">>
      <4>1. CounterOf(u)' = "failed"
        BY <2>3, <2>a, <3>1, <3>2
      <4> QED BY <2>3, <2>b, <2>c, <3>2, <4>1 DEF Counter, Named
    <3>3. CASE verdicts[u] = <<"TimedOut">>
      <4>1. CounterOf(u)' = "timedOut"
        BY <2>3, <2>a, <3>1, <3>3
      <4> QED BY <2>3, <2>b, <2>c, <3>3, <4>1 DEF Counter, Named
    <3>4. CASE verdicts[u] = <<"FailedReadiness">>
      <4>1. CounterOf(u)' = "failedReadiness"
        BY <2>3, <2>a, <3>1, <3>4
      <4> QED BY <2>3, <2>b, <2>c, <3>4, <4>1 DEF Counter, Named
    <3> QED BY <3>1, <3>2, <3>3, <3>4 DEF FailVerdict
  <2>4. CASE gate[u] = "Satisfied"
    <3>1. CASE verdicts[u] = <<"Cached">>
      <4>1. u \notin tornDown
        BY <2>0, <2>4, <3>1 DEF VerdictSound
      <4>2. CounterOf(u)' = "cached"
        BY <1>2, <2>4, <2>a, <3>1, <4>1
      <4> QED BY <2>4, <2>b, <2>c, <3>1, <4>2 DEF Counter, Named
    <3>2. CASE verdicts[u] # <<"Cached">>
      <4>1. verdicts[u] \in {<<>>, <<"Succeeded">>, <<"TornDown">>}
            /\ verdicts'[u] \in {<<"Succeeded">>, <<"TornDown">>}
        BY <1>2, <2>0, <2>4, <3>2 DEF VerdictSound
      <4>2. CounterOf(u)' = "ran"
        BY <2>4, <2>a, <4>1
      <4> QED BY <2>4, <2>b, <2>c, <3>2, <4>1, <4>2 DEF Counter, Named
    <3> QED BY <3>1, <3>2
  <2> QED BY <2>1, <2>2, <2>3, <2>4 DEF TypeOK, GateState
<1>5. ASSUME NEW c \in Counter
      PROVE  stats'[c] = Cardinality({u \in Unit : CounterOf(u)' = c})
  <2>1. CASE c = "cancelled"
    <3>1. {u \in Unit : CounterOf(u)' = c} = Pending
      BY <1>4, <2>1 DEF Pending, PendingUnits, TypeOK
    <3>2. stats["cancelled"] = 0
      BY <1>0, FS_EmptySet DEF Reporting, CountersSound, Counted, Counter
    <3>3. Cardinality(Pending) \in Nat
      <4>1. Pending \in SUBSET Unit
        BY DEF Pending, PendingUnits, TypeOK
      <4> QED BY <4>1, PlanAssumption, FS_Subset, FS_CardinalityType
    <3>4. stats'[c] = stats["cancelled"] + Cardinality(Pending)
      BY <2>1 DEF Finish, TypeOK, Counter
    <3> QED BY <3>1, <3>2, <3>3, <3>4
  <2>2. CASE c # "cancelled"
    <3>1. {u \in Unit : CounterOf(u)' = c} = Counted(c)
      BY <1>4, <2>2 DEF Counted
    <3>2. stats'[c] = stats[c]
      BY <2>2 DEF Finish, TypeOK
    <3> QED BY <1>0, <3>1, <3>2 DEF Reporting, CountersSound
  <2> QED BY <2>1, <2>2
<1>6. \A u \in Unit : Len(verdicts'[u]) = 1
  <2> TAKE u \in Unit
  <2>1. PICK s \in Status : verdicts'[u] = <<s>>
    BY <1>3
  <2> QED BY <2>1, Singles, Zenon
<1>7. \A u \in Unit : Len(verdicts'[u]) <= 1
  <2>1. \A n : n = 1 => n <= 1
    OBVIOUS
  <2> QED BY <1>6, <2>1, Zenon
<1> QED BY <1>1, <1>5, <1>6, <1>7 DEF RInv, OneVerdictPerUnit, Ended

\* Every step keeps what is reported, counted and owed consistent.
LEMMA ReportsStep ==
  ASSUME TypeOK, TypeOK', IInv, RInv, [Next]_vars
  PROVE  RInv'
<1> USE DEF setup, scheduler, tokens, services, handler, report
<1>1. CASE \/ EndWaves \/ StartWave \/ StartGroups \/ SlotsFilled \/ EndWave \/ ObserveInterrupt
           \/ NoRefill \/ TripFailFast \/ \E u \in Unit : FillSlot(u) \/ Refill(u)
  <2>1. /\ UNCHANGED <<gate, verdicts, stats, held, tornDown, order, draining, blocking, result, current>>
        /\ pc \in {"waves", "collect", "submit", "select", "joined"}
        /\ pc' \in {"waves", "collect", "submit", "select", "teardown"}
    BY <1>1 DEF EndWaves, StartWave, StartGroups, SlotsFilled, EndWave, ObserveInterrupt, TripPool,
      NoRefill, TripFailFast, FillSlot, Refill
  <2>2. result = "none" /\ Reporting /\ Failing' = Failing
    BY <2>1 DEF RInv, Failing
  <2> QED BY <2>1, <2>2, StillStep DEF Reporting, HandlerSound
<1>2. ASSUME NEW u \in Unit, JoinStopped(u) \/ JoinCancelled(u) PROVE RInv'
  <2>1. /\ UNCHANGED <<gate, verdicts, stats, held, tornDown, order, draining, blocking, result>>
        /\ pc = "select" /\ pc' \in {"select", "joined"} /\ worker[u] \in Outcome
        /\ current' = current \/ ~current'.fails
    BY <1>2 DEF JoinStopped, JoinCancelled, Join, Outcome
  <2>2. result = "none" /\ Reporting /\ Failing' = Failing /\ ~current.fails
    BY <2>1, JoinedUnreported DEF RInv, Failing, Reporting, HandlerSound
  <2>3. ~current'.fails
    BY <2>1, <2>2
  <2> QED BY <2>1, <2>2, <2>3, StillStep DEF Reporting, HandlerSound
<1>3. ASSUME NEW u \in Unit, CacheHit(u) PROVE RInv'
  <2>1. /\ pc = "collect" /\ gate[u] = "Pending" /\ result = "none" /\ Reporting /\ Failing = {}
        /\ pc' = "drain" /\ ~current'.fails /\ draining' \subseteq held
    BY <1>3 DEF CacheHit, Hits, Pending, PendingUnits, RInv, Reporting, HandlerSound, Failing, Settle,
      DependentFinished
  <2>2. /\ Emit(u, "Cached") /\ Count("cached") /\ gate' = Satisfy(gate, u)
        /\ UNCHANGED <<held, tornDown, order, blocking, result>>
    BY <1>3 DEF CacheHit
  <2> QED BY <2>1, <2>2, SuccessReported
<1>4. ASSUME NEW u \in Unit, JoinSucceeded(u) PROVE RInv'
  <2>1. /\ pc = "select" /\ worker[u] \in Outcome /\ pc' = "drain" /\ ~current'.fails
        /\ draining' \subseteq held
    BY <1>4 DEF JoinSucceeded, Join, Outcome, Settle, DependentFinished
  <2>2. /\ Emit(u, "Succeeded") /\ Count("ran") /\ gate' = Satisfy(gate, u)
        /\ UNCHANGED <<held, tornDown, order, blocking, result>>
    BY <1>4 DEF JoinSucceeded
  <2> QED BY <2>1, <2>2, JoinedUnreported, SuccessReported
<1>5. ASSUME NEW u \in Unit, NEW o \in {"failure", "timedOut", "notReady"}, JoinFailed(u, o)
      PROVE  RInv'
  <2>1. /\ pc = "select" /\ worker[u] \in Outcome /\ pc' = "drain" /\ current'.fails
        /\ current'.unit = {u} /\ draining' \subseteq held
        /\ UNCHANGED <<gate, held, tornDown, order, blocking, result>>
    BY <1>5 DEF JoinFailed, Join, Outcome, Settle, DependentFinished
  <2>2. /\ Tally[o] \in {"failed", "timedOut", "failedReadiness"} /\ Verdict[o] = Named[Tally[o]]
        /\ Count(Tally[o]) /\ Emit(u, Verdict[o])
    BY <1>5 DEF JoinFailed, Tally, Verdict, Named
  <2> QED BY <2>1, <2>2, FailureReported
<1>6. ASSUME NEW u \in Unit, JoinError(u) PROVE RInv'
  <2>1. /\ pc = "select" /\ worker[u] \in Outcome /\ pc' = "drain" /\ current'.fails
        /\ current'.unit = {u} /\ draining' \subseteq held
        /\ UNCHANGED <<gate, held, tornDown, order, blocking, result>>
    BY <1>6 DEF JoinError, Join, Outcome, Settle, DependentFinished
  <2>2. Count("failed") /\ Emit(u, Named["failed"])
    BY <1>6 DEF JoinError, Named
  <2> QED BY <2>1, <2>2, FailureReported
<1>7. ASSUME NEW u \in Unit, JoinReady(u) PROVE RInv'
  BY <1>7, ReadyHeld
<1>8. ASSUME NEW u \in Unit,
             \/ CacheWriteFails(u) \/ SucceededUnreported(u) \/ ReadyUnreported(u)
             \/ SubmitUnreported(u) \/ TearDownFails(u)
      PROVE  RInv'
  <2>1. verdicts' = verdicts /\ result' = "error" /\ pc' = "teardown"
    BY <1>8 DEF CacheWriteFails, SucceededUnreported, ReadyUnreported, SubmitUnreported, TearDownFails,
      Abort
  <2> QED BY <2>1, ErrorStep
<1>9. CASE SinkFails
  BY <1>9, ErrorStep DEF SinkFails
<1>10. ASSUME NEW u \in Unit, TearDown(u) \/ BlockDependents(u) \/ AnnounceBlocked(u) PROVE RInv'
  BY <1>10, TearDownReported, BlockReported, AnnounceReported
<1>11. CASE Drained
  <2>1. CASE current.next = "abort"
    BY <1>11, <2>1, ErrorStep DEF Drained, Abort
  <2>2. CASE current.next # "abort"
    <3>1. /\ pc = "drain" /\ pc' \in {"collect", "joined"} /\ draining = {} /\ blocking = {}
          /\ ~current.fails
          /\ UNCHANGED <<gate, verdicts, stats, held, tornDown, order, draining, blocking, result, current>>
      BY <1>11, <2>2 DEF Drained, IInv, FailingSound
    <3>2. Failing' = Failing
      BY <3>1 DEF Failing
    <3> QED BY <3>1, <3>2, StillStep
  <2> QED BY <2>1, <2>2
<1>12. CASE \E ok \in BOOLEAN : StopHeld(ok)
  BY <1>12, StopHeldReported
<1>13. CASE HeldStopped \/ Finish
  BY <1>13, HeldStoppedReported, FinishReported
<1>14. CASE PoolShutDown
  <2>1. /\ UNCHANGED <<gate, verdicts, stats, held, tornDown, order, draining, blocking, result, current>>
        /\ pc = "shutdown" /\ pc' = IF result = "none" THEN "finish" ELSE "done"
    BY <1>14 DEF PoolShutDown
  <2>2. CASE result = "none"
    <3>1. Failing' = Failing /\ ~current'.fails /\ draining = {} /\ blocking = {}
      BY <2>1, <2>2 DEF RInv, Reporting, HandlerSound, Failing
    <3> QED BY <2>1, <2>2, <3>1, StillStep
  <2>3. CASE result = "error"
    BY <2>1, <2>3, ErrorStep
  <2>4. CASE result = "ok"
    BY <2>1, <2>4 DEF RInv
  <2> QED BY <2>2, <2>3, <2>4 DEF TypeOK
<1>15. CASE Interrupt \/ Terminated \/ UNCHANGED vars \/ \E u \in Unit : WorkerEnds(u)
  <2>1. UNCHANGED <<gate, verdicts, stats, held, tornDown, order, draining, blocking, result, current, pc>>
    BY <1>15 DEF Interrupt, Terminated, vars, WorkerEnds
  <2>2. \A u \in Unit : VerdictSound(u) => VerdictSound(u)'
    BY <2>1 DEF VerdictSound, Failing
  <2>3. Reporting => Reporting'
    <3>1. CountersSound => CountersSound'
      BY <2>1 DEF CountersSound, Counted
    <3>2. (HandlerSound => HandlerSound') /\ (ExitSound => ExitSound')
      BY <2>1 DEF HandlerSound, ExitSound
    <3> QED BY <2>2, <3>1, <3>2 DEF Reporting
  <2>4. OneVerdictPerUnit'
    BY <2>1 DEF RInv, OneVerdictPerUnit, Ended, CounterOf
  <2> QED BY <2>1, <2>3, <2>4 DEF RInv
<1> QED BY <1>1, <1>2, <1>3, <1>4, <1>5, <1>6, <1>7, <1>8, <1>9, <1>10, <1>11, <1>12, <1>13, <1>14,
           <1>15 DEF Next, Walker

\* Nothing is reported or counted at first.
LEMMA ReportsInit == Init => RInv
<1> SUFFICES ASSUME Init PROVE RInv
  OBVIOUS
<1>1. /\ \A u \in Unit : gate[u] = "Pending" /\ verdicts[u] = <<>>
      /\ held = {} /\ tornDown = {} /\ draining = {} /\ blocking = {} /\ Failing = {}
      /\ ~current.fails /\ pc = "waves" /\ result = "none"
  BY PlanAssumption DEF Init, NewGate, WellFormed, Idle, Failing
<1>2. (\A u \in Unit : VerdictSound(u)) /\ HandlerSound /\ ExitSound
  <2>1. \A u \in Unit : VerdictSound(u)
    BY <1>1 DEF VerdictSound
  <2>2. HandlerSound
    BY <1>1 DEF HandlerSound
  <2>3. ExitSound
    BY <1>1 DEF ExitSound
  <2> QED BY <2>1, <2>2, <2>3
<1>3. CountersSound
  <2> SUFFICES ASSUME NEW c \in Counter PROVE Cardinality(Counted(c)) = 0 /\ stats[c] = 0
    BY DEF CountersSound
  <2>1. \A v \in Unit : verdicts[v] # <<Named[c]>>
    <3>1. \A x : <<x>> # <<>>
      OBVIOUS
    <3>2. \A v \in Unit : verdicts[v] = <<>>
      BY <1>1
    <3> QED BY <3>1, <3>2
  <2>2. Counted(c) = {}
    BY <1>1, <2>1 DEF Counted
  <2> QED BY <2>2, FS_EmptySet DEF Init
<1>4. \A u \in Unit : Len(verdicts[u]) <= 1
  <2>1. Len(<<>>) = 0
    OBVIOUS
  <2> QED BY <1>1, <2>1
<1> QED BY <1>1, <1>2, <1>3, <1>4 DEF RInv, Reporting, OneVerdictPerUnit, Ended
-----------------------------------------------------------------------------
(* Services and processes. *)

Exiting == pc \in {"teardown", "shutdown", "finish", "done"}

\* A child is up only while somebody will still stop it, and unless an error ended
\* the walk nobody is left behind.
ProcessSound ==
  /\ \A u \in Unit : worker[u] = "ready" => u \in plan.persistent /\ process[u] = "up"
  /\ \A u \in Unit : worker[u] = "success" => u \notin plan.persistent
  /\ \A u \in Unit : process[u] = "up" =>
       worker[u] = "ready" \/ (u \in held /\ \E i \in 1..Len(order) : order[i] = u)
  /\ \A u \in held : worker[u] = "joined"
  /\ pc \in {"shutdown", "finish", "done"} => order = <<>>
  /\ pc \in {"finish", "done"} => InFlight = {}
  /\ result # "error" =>
       /\ \A u \in Unit : process[u] \notin {"stuck", "dropped"} /\ worker[u] # "abandoned"
       /\ Exiting => InFlight = {}
       /\ \A h \in held \ tornDown : process[h] = "up"

\* The dependents of s that may still run.
StillOwed(s) == {v \in HeldFor(s) : gate[v] = "Pending" /\ v \notin Failing}

\* While the waves run, a service is let go only when nobody may need it any more.
OwedSound ==
  /\ \A s \in tillEnd : HeldFor(s) = {}
  /\ result = "none" /\ ~Exiting =>
       /\ \A s \in held \ tillEnd : StillOwed(s) \subseteq remaining[s]
       /\ \A h \in draining : h \notin tillEnd /\ remaining[h] = {}
       /\ \A s \in plan.persistent : gate[s] = "Satisfied" /\ s \notin held => StillOwed(s) = {}

\* Everything a unit rests on, through any unit, is satisfied when the unit itself may run.
LEMMA ServicesSatisfied ==
  ASSUME TypeOK, FailClosed, NEW s \in Unit, NEW u \in TransitiveDependents(plan.deps, s), Ready(u)
  PROVE  gate[s] = "Satisfied"
<1> DEFINE T == {v \in Unit : Ready(v) => gate[s] = "Satisfied"}
<1>0. DOMAIN plan.deps = Unit /\ \A v \in Unit : plan.deps[v] \subseteq Unit
  BY PlanFacts
<1>1. ClosedFrom(plan.deps, s, Unit, T)
  <2> SUFFICES ASSUME NEW w \in T \cup {s}, NEW v \in Dependents(plan.deps, w) \cap Unit, Ready(v)
               PROVE  gate[s] = "Satisfied"
    BY DEF ClosedFrom
  <2>1. w \in plan.deps[v] /\ gate[w] = "Satisfied"
    BY DEF Dependents, Ready
  <2>2. CASE w = s
    BY <2>1, <2>2
  <2>3. CASE w \in T
    <3>1. Ready(w)
      BY <1>0, <2>1, <2>3 DEF FailClosed, Ready
    <3> QED BY <2>3, <3>1
  <2> QED BY <2>2, <2>3
<1>2. T \in SUBSET Unit
  OBVIOUS
<1>3. TransitiveDependents(plan.deps, s) \subseteq T
  BY <1>0, <1>1, <1>2, ReachedLeast DEF TransitiveDependents
<1> QED BY <1>3

\* Steps that leave the services alone, after which no more units are owed.
LEMMA OwedKept ==
  ASSUME OwedSound, UNCHANGED <<plan, held, tillEnd, remaining>>, draining' \subseteq draining,
         result' = "none" /\ ~Exiting' => result = "none" /\ ~Exiting,
         \A s \in plan.persistent : gate'[s] = "Satisfied" => gate[s] = "Satisfied",
         \A v \in Unit : gate'[v] = "Pending" /\ v \notin Failing' => gate[v] = "Pending" /\ v \notin Failing,
         \A s : HeldFor(s) \subseteq Unit
  PROVE  OwedSound'
<1>1. \A s : HeldFor(s)' = HeldFor(s)
  BY DEF HeldFor
<1>2. \A s : StillOwed(s)' \subseteq StillOwed(s)
  BY <1>1 DEF StillOwed
<1> QED BY <1>1, <1>2 DEF OwedSound

\* Unit u is struck off every entry, now that it does not run any more.
LEMMA OwedStruck ==
  ASSUME TypeOK, OwedSound, NEW u \in Unit, result = "none", ~Exiting,
         UNCHANGED <<plan, held, tillEnd>>, DependentFinished(u),
         gate'[u] # "Pending" \/ u \in Failing',
         \A v \in Unit \ {u} : gate'[v] = gate[v], Failing = {},
         gate'[u] = gate[u] \/ u \notin plan.persistent
  PROVE  OwedSound'
<1>0. \A s : HeldFor(s)' = HeldFor(s) /\ HeldFor(s) \subseteq Unit
  BY DependentsInPlan DEF HeldFor
<1>1. \A s : StillOwed(s)' \subseteq StillOwed(s) \ {u}
  BY <1>0 DEF StillOwed
<1>2. /\ \A s \in held \ tillEnd : remaining'[s] = remaining[s] \ {u}
      /\ \A h \in draining' : h \in held \ tillEnd /\ remaining[h] \ {u} = {}
  BY DEF DependentFinished, TypeOK
<1>3. plan.persistent \subseteq Unit
  BY PlanFacts DEF WellFormed
<1> QED BY <1>0, <1>1, <1>2, <1>3 DEF OwedSound

\* Steps that neither start nor end a child, nor hold or release a service.
LEMMA ProcessKept ==
  ASSUME TypeOK, ProcessSound, UNCHANGED <<plan, process, held, order>>, tornDown \subseteq tornDown',
         \A u \in Unit :
           worker'[u] = worker[u] \/ worker'[u] = "joined" \/ (worker'[u] = "running" /\ u \notin held),
         \A u \in Unit : worker'[u] # worker[u] => worker[u] # "ready",
         pc' \in {"shutdown", "finish", "done"} => pc' = pc \/ pc = "finish",
         InFlight' \subseteq InFlight \/ ~Exiting' \/ (pc' = "teardown" /\ result' = "error"),
         result' # "error" => result # "error" /\ (Exiting' /\ ~Exiting => InFlight' = {})
  PROVE  ProcessSound'
<1>1. \A u \in Unit : worker'[u] = "ready" <=> worker[u] = "ready"
  OBVIOUS
<1>2. \A u \in Unit : (worker'[u] = "success" => worker[u] = "success")
                      /\ (worker'[u] = "abandoned" => worker[u] = "abandoned")
  OBVIOUS
<1>3. /\ pc' \in {"shutdown", "finish", "done"} => order' = <<>>
      /\ pc' \in {"finish", "done"} => InFlight' = {}
  BY DEF ProcessSound, Exiting
<1>4. result' # "error" => (Exiting' => InFlight' = {})
  BY DEF ProcessSound, Exiting
<1>5. \A u \in held' : u \in Unit /\ worker'[u] = "joined"
  BY DEF ProcessSound, TypeOK
<1>6. /\ \A u \in Unit : worker'[u] = "ready" => u \in plan'.persistent /\ process'[u] = "up"
      /\ \A u \in Unit : worker'[u] = "success" => u \notin plan'.persistent
  BY <1>1, <1>2 DEF ProcessSound
<1>7. \A u \in Unit : process'[u] = "up" =>
        worker'[u] = "ready" \/ (u \in held' /\ \E i \in 1..Len(order') : order'[i] = u)
  BY <1>1 DEF ProcessSound
<1>8. result' # "error" =>
        /\ \A u \in Unit : process'[u] \notin {"stuck", "dropped"} /\ worker'[u] # "abandoned"
        /\ \A h \in held' \ tornDown' : process'[h] = "up"
  BY <1>2 DEF ProcessSound
<1> QED BY <1>3, <1>4, <1>5, <1>6, <1>7, <1>8 DEF ProcessSound

\* A ready service changes hands: its worker is joined, the registry has it.
LEMMA HoldKeepsProcess ==
  ASSUME TypeOK, ProcessSound, NEW u \in Unit, pc = "select", worker[u] = "ready", Hold(u),
         worker' = [worker EXCEPT ![u] = "joined"], UNCHANGED <<plan, process, tornDown>>,
         pc' = "drain" \/ (pc' = "teardown" /\ result' = "error"),
         result' # "error" => result # "error"
  PROVE  ProcessSound'
<1>1. /\ held' = held \cup {u} /\ Len(order') = Len(order) + 1 /\ Len(order) \in Nat
      /\ order'[Len(order) + 1] = u /\ \A i \in 1..Len(order) : order'[i] = order[i]
  BY DEF Hold, TypeOK
<1>2. \A v \in Unit : worker'[v] = IF v = u THEN "joined" ELSE worker[v]
  BY DEF TypeOK
<1>3. ASSUME NEW v \in Unit, process'[v] = "up"
      PROVE  worker'[v] = "ready" \/ (v \in held' /\ \E i \in 1..Len(order') : order'[i] = v)
  <2>1. CASE v = u
    BY <1>1, <2>1
  <2>2. CASE v # u
    <3>1. worker[v] = "ready" \/ (v \in held /\ \E i \in 1..Len(order) : order[i] = v)
      BY <1>3 DEF ProcessSound
    <3> QED BY <1>1, <1>2, <2>2, <3>1
  <2> QED BY <2>1, <2>2
<1>4. result' # "error" => ~Exiting'
  BY DEF Exiting
<1>5. pc' \notin {"shutdown", "finish", "done"}
  OBVIOUS
<1>6. process[u] = "up"
  BY DEF ProcessSound
<1> QED BY <1>1, <1>2, <1>3, <1>4, <1>5, <1>6 DEF ProcessSound

\* Every step keeps a child process owned: by its worker's result, or by the registry.
LEMMA ProcessStep ==
  ASSUME TypeOK, IInv, RInv, ProcessSound, [Next]_vars
  PROVE  ProcessSound'
<1> USE DEF setup, scheduler, tokens, services, handler, report
<1>1. CASE \/ StartWave \/ StartGroups \/ SlotsFilled \/ EndWave \/ ObserveInterrupt \/ NoRefill
           \/ TripFailFast \/ Interrupt \/ Terminated \/ UNCHANGED vars
           \/ \E u \in Unit : CacheHit(u) \/ BlockDependents(u) \/ AnnounceBlocked(u)
  <2>1. /\ UNCHANGED <<plan, process, held, order, tornDown, worker, result>>
        /\ pc' = pc \/ pc' \notin {"teardown", "shutdown", "finish", "done"}
    BY <1>1 DEF StartWave, StartGroups, SlotsFilled, EndWave, ObserveInterrupt, TripPool, NoRefill,
      TripFailFast, Interrupt, Terminated, vars, CacheHit, Settle, BlockDependents, AnnounceBlocked
  <2>2. InFlight' = InFlight
    BY <2>1 DEF InFlight
  <2> QED BY <2>1, <2>2, ProcessKept DEF Exiting
<1>2. CASE EndWaves
  <2>1. InFlight = {}
    BY <1>2 DEF EndWaves, IInv, QueueSound, Collecting
  <2>2. /\ InFlight' = {} /\ pc' = "teardown"
        /\ UNCHANGED <<plan, process, held, order, tornDown, worker, result>>
    BY <1>2, <2>1 DEF EndWaves, InFlight
  <2> QED BY <2>2, ProcessKept DEF Exiting
<1>3. ASSUME NEW u \in Unit, FillSlot(u) \/ Refill(u) \/ SubmitUnreported(u) PROVE ProcessSound'
  <2>1. u \in queued /\ (pc' \in {"submit", "select"} \/ (pc' = "teardown" /\ result' = "error"))
        /\ pc \in {"submit", "joined"} /\ (result' # "error" => result # "error")
        /\ worker' = [worker EXCEPT ![u] = "running"]
        /\ UNCHANGED <<plan, process, held, order, tornDown>>
    BY <1>3 DEF FillSlot, Refill, SubmitUnreported, Submit, Abort, Fresh, Successors, SameGroup
  <2>2. worker[u] # "ready"
    BY <2>1 DEF IInv, QueueSound, InFlight, Outcome
  <2>4. u \notin held
    <3>1. gate[u] = "Pending" /\ result = "none"
      BY <2>1 DEF IInv, QueueSound, InGroups, RInv
    <3> QED BY <3>1 DEF RInv, Reporting, HandlerSound
  <2>3. \A v \in Unit :
          worker'[v] = worker[v] \/ (worker'[v] = "running" /\ worker[v] # "ready" /\ v \notin held)
    BY <2>1, <2>2, <2>4 DEF TypeOK
  <2> QED BY <2>1, <2>3, ProcessKept DEF Exiting
<1>4. ASSUME NEW u \in Unit, NEW o \in Outcome \ {"ready"}, Join(u, o),
             UNCHANGED <<process, held, order, tornDown>>,
             \/ pc' \in {"drain", "joined", "select"} /\ result' = result
             \/ pc' = "teardown" /\ result' = "error"
      PROVE  ProcessSound'
  <2>1. /\ pc = "select" /\ worker[u] # "ready" /\ plan' = plan
        /\ worker' = [worker EXCEPT ![u] = "joined"]
    BY <1>4 DEF Join
  <2>2. \A v \in Unit : worker'[v] = worker[v] \/ (worker'[v] = "joined" /\ worker[v] # "ready")
    BY <2>1 DEF TypeOK
  <2>3. pc' \notin {"shutdown", "finish", "done"}
        /\ (result' # "error" => result # "error" /\ ~Exiting') /\ ~Exiting
    BY <1>4, <2>1 DEF Exiting
  <2>4. ~Exiting' \/ (pc' = "teardown" /\ result' = "error")
    BY <1>4 DEF Exiting
  <2> HIDE DEF Join
  <2> QED BY <1>4, <2>1, <2>2, <2>3, <2>4, ProcessKept
<1>5. ASSUME NEW u \in Unit,
             \/ JoinSucceeded(u) \/ SucceededUnreported(u) \/ CacheWriteFails(u) \/ JoinStopped(u)
             \/ JoinError(u) \/ JoinCancelled(u)
             \/ \E o \in {"failure", "timedOut", "notReady"} : JoinFailed(u, o)
      PROVE  ProcessSound'
  <2>1. \E o \in Outcome \ {"ready"} : Join(u, o)
    BY <1>5 DEF JoinSucceeded, SucceededUnreported, CacheWriteFails, JoinStopped, JoinError,
      JoinCancelled, JoinFailed, Outcome
  <2>2. /\ UNCHANGED <<process, held, order, tornDown>>
        /\ \/ pc' \in {"drain", "joined", "select"} /\ result' = result
           \/ pc' = "teardown" /\ result' = "error"
    BY <1>5 DEF JoinSucceeded, SucceededUnreported, CacheWriteFails, JoinStopped, JoinError,
      JoinCancelled, JoinFailed, Settle, Abort, Join
  <2> QED BY <1>4, <2>1, <2>2
<1>6. ASSUME NEW u \in Unit, JoinReady(u) \/ ReadyUnreported(u) PROVE ProcessSound'
  <2>1. /\ pc = "select" /\ worker[u] = "ready" /\ Hold(u)
        /\ worker' = [worker EXCEPT ![u] = "joined"] /\ UNCHANGED <<plan, process, tornDown>>
    BY <1>6 DEF JoinReady, ReadyUnreported, Join
  <2>2. \/ pc' = "drain" /\ result' = result
        \/ pc' = "teardown" /\ result' = "error"
    BY <1>6 DEF JoinReady, ReadyUnreported, Abort
  <2> HIDE DEF Hold
  <2> QED BY <2>1, <2>2, HoldKeepsProcess
<1>7. ASSUME NEW h \in Unit, TearDown(h) \/ TearDownFails(h) PROVE ProcessSound'
  <2>1. /\ pc = "drain" /\ worker[h] # "ready"
        /\ held' = held \ {h} /\ UNCHANGED <<plan, order, tornDown, worker>>
        /\ (\A v \in Unit \ {h} : process'[v] = process[v]) /\ process'[h] \in {"stopped", "stuck"}
        /\ \/ pc' = "drain" /\ result' = result /\ process'[h] = "stopped"
           \/ pc' = "teardown" /\ result' = "error"
    <3>1. result = "none" /\ h \in held
      BY <1>7 DEF TearDown, TearDownFails, RInv, Reporting, HandlerSound
    <3>2. gate[h] = "Satisfied"
      BY <3>1 DEF RInv, Reporting, HandlerSound
    <3>3. h \notin InFlight
      BY <1>7, <3>2 DEF TearDown, TearDownFails, IInv, QueueSound, Collecting, InGroups
    <3>4. worker[h] # "ready"
      BY <3>3 DEF InFlight, Outcome
    <3> QED BY <1>7, <3>4 DEF TearDown, TearDownFails, Abort, TypeOK
  <2>2. pc' \notin {"shutdown", "finish", "done"} /\ (result' # "error" => ~Exiting' /\ result # "error")
    BY <2>1 DEF Exiting
  <2>3. InFlight' = InFlight
    BY <2>1 DEF InFlight
  <2>4. \A v \in Unit : process'[v] = "up" => process[v] = "up" /\ v # h
    BY <2>1
  <2>5. \A v \in Unit : process'[v] = "up" =>
          worker'[v] = "ready" \/ (v \in held' /\ \E i \in 1..Len(order') : order'[i] = v)
    BY <2>1, <2>4 DEF ProcessSound
  <2>6. /\ \A v \in Unit : worker'[v] = "ready" => v \in plan'.persistent /\ process'[v] = "up"
        /\ \A v \in Unit : worker'[v] = "success" => v \notin plan'.persistent
        /\ \A v \in held' : worker'[v] = "joined"
    BY <2>1 DEF ProcessSound
  <2>7. result' # "error" =>
          /\ \A v \in Unit : process'[v] \notin {"stuck", "dropped"} /\ worker'[v] # "abandoned"
          /\ \A g \in held' \ tornDown' : process'[g] = "up"
    BY <2>1 DEF ProcessSound, TypeOK
  <2> QED BY <2>2, <2>5, <2>6, <2>7 DEF ProcessSound
<1>8. CASE Drained
  <2>1. /\ pc = "drain" /\ UNCHANGED <<plan, process, held, order, tornDown, worker>>
        /\ \/ pc' = "teardown" /\ result' = "error"
           \/ pc' \in {"collect", "joined"} /\ result' = result
    BY <1>8 DEF Drained, Abort, IInv, FailingSound
  <2>2. InFlight' = InFlight
    BY <2>1 DEF InFlight
  <2> QED BY <2>1, <2>2, ProcessKept DEF Exiting
<1>9. CASE SinkFails
  <2>1. /\ UNCHANGED <<plan, process, held, order, tornDown, worker>> /\ result' = "error"
        /\ pc' = "teardown" \/ (pc = "finish" /\ pc' = "done")
    BY <1>9 DEF SinkFails
  <2>2. InFlight' = InFlight
    BY <2>1 DEF InFlight
  <2> QED BY <2>1, <2>2, ProcessKept DEF Exiting
<1>10. ASSUME NEW ok \in BOOLEAN, StopHeld(ok) PROVE ProcessSound'
  <2> DEFINE h == order[Len(order)]
  <2>1. /\ pc = "teardown" /\ pc' = "teardown" /\ UNCHANGED <<plan, worker, held>>
        /\ order # <<>> /\ order' = SubSeq(order, 1, Len(order) - 1)
    BY <1>10 DEF StopHeld
  <2>2. /\ h \in held =>
             /\ tornDown' = tornDown \cup {h}
             /\ process' = [process EXCEPT ![h] = IF ok THEN "stopped" ELSE "stuck"]
             /\ result' = IF ok THEN result ELSE "error"
        /\ h \notin held => UNCHANGED <<tornDown, process, result>>
    BY <1>10 DEF StopHeld
  <2>3. /\ Len(order) \in Nat \ {0} /\ Len(order') = Len(order) - 1
        /\ \A i \in 1..Len(order') : order'[i] = order[i]
    BY <2>1, LastDropped DEF TypeOK
  <2> HIDE DEF h
  <2>4. \A v \in Unit : process'[v] = "up" => process[v] = "up" /\ (v = h => v \notin held)
    <3>1. CASE h \notin held
      BY <2>2, <3>1
    <3>2. CASE h \in held
      <4>1. \A v \in Unit : process'[v] = IF v = h THEN (IF ok THEN "stopped" ELSE "stuck") ELSE process[v]
        BY <2>2, <3>2 DEF TypeOK
      <4> QED BY <4>1
    <3> QED BY <3>1, <3>2
  <2>5. ASSUME NEW v \in Unit, process'[v] = "up"
        PROVE  worker'[v] = "ready" \/ (v \in held' /\ \E i \in 1..Len(order') : order'[i] = v)
    <3>1. process[v] = "up" /\ (v = h => v \notin held)
      BY <2>4, <2>5
    <3>2. CASE worker[v] = "ready"
      BY <2>1, <3>2
    <3>3. CASE worker[v] # "ready"
      <4>1. v \in held /\ v # h
        BY <3>1, <3>3 DEF ProcessSound
      <4>2. PICK i \in 1..Len(order) : order[i] = v
        BY <3>1, <3>3 DEF ProcessSound
      <4>3. i \in 1..Len(order')
        BY <2>3, <4>1, <4>2 DEF h
      <4> QED BY <2>1, <2>3, <4>1, <4>2, <4>3
    <3> QED BY <3>2, <3>3
  <2>6. \A v \in Unit : worker[v] = "ready" => process'[v] = "up"
    <3>1. CASE h \notin held
      BY <2>2, <3>1 DEF ProcessSound
    <3>2. CASE h \in held
      <4>1. \A v \in Unit \ {h} : process'[v] = process[v]
        BY <2>2, <3>2 DEF TypeOK
      <4>2. worker[h] # "ready"
        BY <3>2 DEF ProcessSound
      <4> QED BY <3>2, <4>1, <4>2 DEF ProcessSound
    <3> QED BY <3>1, <3>2
  <2>7. InFlight' = InFlight
    BY <2>1 DEF InFlight
  <2>8. result' # "error" =>
          /\ result # "error"
          /\ \A v \in Unit : process'[v] \notin {"stuck", "dropped"}
          /\ \A g \in held' \ tornDown' : process'[g] = "up"
    <3> SUFFICES ASSUME result' # "error"
                 PROVE  /\ result # "error"
                        /\ \A v \in Unit : process'[v] \notin {"stuck", "dropped"}
                        /\ \A g \in held' \ tornDown' : process'[g] = "up"
      OBVIOUS
    <3>1. CASE h \notin held
      BY <2>1, <2>2, <3>1 DEF ProcessSound
    <3>2. CASE h \in held
      <4>1. ok /\ tornDown' = tornDown \cup {h} /\ result # "error"
        BY <2>2, <3>2
      <4>2. \A v \in Unit : process'[v] = IF v = h THEN "stopped" ELSE process[v]
        BY <2>2, <3>2, <4>1 DEF TypeOK
      <4>3. held' \subseteq Unit
        BY <2>1 DEF TypeOK
      <4> QED BY <2>1, <4>1, <4>2, <4>3 DEF ProcessSound
    <3> QED BY <3>1, <3>2
  <2>9. Exiting /\ Exiting' /\ pc' \notin {"shutdown", "finish", "done"}
    BY <2>1 DEF Exiting
  <2>10. result' # "error" => \A u \in Unit : worker'[u] # "abandoned"
    BY <2>1, <2>8 DEF ProcessSound
  <2>11. result' # "error" => InFlight' = {}
    BY <2>7, <2>8, <2>9 DEF ProcessSound
  <2>12. /\ \A u \in Unit : worker'[u] = "ready" => u \in plan'.persistent
         /\ \A u \in Unit : worker'[u] = "success" => u \notin plan'.persistent
         /\ \A u \in held' : worker'[u] = "joined"
    BY <2>1 DEF ProcessSound
  <2> QED BY <2>1, <2>5, <2>6, <2>8, <2>9, <2>10, <2>11, <2>12 DEF ProcessSound
<1>11. CASE HeldStopped
  <2>1. /\ pc = "teardown" /\ pc' = "shutdown" /\ order = <<>> /\ held' = held \ tornDown
        /\ UNCHANGED <<plan, process, order, tornDown, worker, result>>
    BY <1>11 DEF HeldStopped
  <2>2. InFlight' = InFlight /\ Exiting /\ Len(order) = 0
    BY <2>1 DEF InFlight, Exiting
  <2>3. \A v \in Unit : process'[v] = "up" => worker'[v] = "ready"
    BY <2>1, <2>2 DEF ProcessSound
  <2> QED BY <2>1, <2>2, <2>3 DEF ProcessSound
<1>12. CASE PoolShutDown
  <2>1. /\ pc = "shutdown" /\ pc' \in {"finish", "done"} /\ order = <<>>
        /\ UNCHANGED <<plan, order, held, tornDown, result>>
    BY <1>12 DEF PoolShutDown, ProcessSound
  <2>2. /\ \A v \in Unit : worker'[v] = IF worker[v] = "running" THEN "abandoned"
                                        ELSE IF v \in InFlight THEN "joined" ELSE worker[v]
        /\ \A v \in Unit : process'[v] = IF worker[v] = "ready" THEN "dropped" ELSE process[v]
    BY <1>12 DEF PoolShutDown
  <2>3. \A v \in Unit : worker'[v] \in {"abandoned", "joined", "idle"}
    BY <2>2 DEF InFlight, TypeOK
  <2>4. InFlight' = {}
    BY <2>3 DEF InFlight, Outcome
  <2>5. \A v \in Unit : process'[v] # "up"
    <3>1. Len(order) = 0
      BY <2>1
    <3> QED BY <2>2, <3>1 DEF ProcessSound
  <2>6. result # "error" => \A v \in Unit : worker'[v] = worker[v] /\ process'[v] = process[v]
    <3>1. result # "error" => InFlight = {}
      BY <2>1 DEF ProcessSound, Exiting
    <3> QED BY <2>2, <3>1 DEF InFlight, Outcome
  <2>7. \A v \in held : worker'[v] = "joined"
    <3>1. \A v \in held : v \in Unit /\ worker[v] = "joined"
      BY DEF ProcessSound, TypeOK
    <3> QED BY <2>2, <3>1 DEF InFlight, Outcome
  <2>8. result' # "error" =>
          /\ \A v \in Unit : process'[v] \notin {"stuck", "dropped"} /\ worker'[v] # "abandoned"
          /\ \A h \in held' \ tornDown' : process'[h] = "up"
    BY <2>1, <2>6 DEF ProcessSound, TypeOK
  <2>9. order' = <<>> /\ held' = held
    BY <2>1
  <2> QED BY <2>3, <2>4, <2>5, <2>7, <2>8, <2>9 DEF ProcessSound
<1>13. CASE Finish
  <2>1. /\ pc = "finish" /\ pc' = "done" /\ result' = "ok"
        /\ UNCHANGED <<plan, process, held, order, tornDown, worker>>
    BY <1>13 DEF Finish
  <2>2. InFlight' = InFlight /\ result = "none"
    BY <2>1 DEF InFlight, RInv
  <2> QED BY <2>1, <2>2, ProcessKept DEF Exiting
<1>14. ASSUME NEW u \in Unit, WorkerEnds(u) PROVE ProcessSound'
  <2>1. PICK o \in Outcomes(u) : /\ worker' = [worker EXCEPT ![u] = o]
                                 /\ process' = IF o = "ready" THEN [process EXCEPT ![u] = "up"] ELSE process
    BY <1>14 DEF WorkerEnds
  <2>2. /\ worker[u] = "running" /\ UNCHANGED <<plan, held, order, tornDown, result, pc>>
        /\ u \notin held
    BY <1>14 DEF WorkerEnds, ProcessSound
  <2>3. o \in Outcome /\ (o = "ready" => u \in plan.persistent) /\ (o = "success" => u \notin plan.persistent)
    BY DEF Outcomes, Outcome
  <2>4. InFlight' = InFlight /\ InFlight # {}
    BY <2>1, <2>2, <2>3 DEF InFlight, Outcome, TypeOK
  <2>5. \A v \in Unit : /\ worker'[v] = IF v = u THEN o ELSE worker[v]
                        /\ process'[v] = IF v = u /\ o = "ready" THEN "up" ELSE process[v]
    BY <2>1 DEF TypeOK
  <2>6. \A v \in Unit : process'[v] = "up" =>
          worker'[v] = "ready" \/ (v \in held' /\ \E i \in 1..Len(order') : order'[i] = v)
    BY <2>2, <2>5 DEF ProcessSound
  <2>7. \A v \in held' : worker'[v] = "joined" /\ v \in Unit
    BY <2>2, <2>5 DEF ProcessSound, TypeOK
  <2>8. result' # "error" =>
          /\ \A v \in Unit : process'[v] \notin {"stuck", "dropped"} /\ worker'[v] # "abandoned"
          /\ ~Exiting'
          /\ \A h \in held' \ tornDown' : process'[h] = "up"
    BY <2>2, <2>3, <2>4, <2>5, <2>7 DEF ProcessSound, Outcome, Exiting
  <2> QED BY <2>2, <2>3, <2>4, <2>5, <2>6, <2>7, <2>8 DEF ProcessSound
<1> QED BY <1>1, <1>2, <1>3, <1>5, <1>6, <1>7, <1>8, <1>9, <1>10, <1>11, <1>12, <1>13, <1>14 DEF Next, Walker

\* Steps that end the walk, or after it: only the services held to the end matter.
LEMMA OwedGone ==
  ASSUME OwedSound, plan' = plan, result' # "none" \/ Exiting',
         \A s \in tillEnd' : s \in tillEnd \/ HeldFor(s) = {}
  PROVE  OwedSound'
<1>1. \A s : HeldFor(s)' = HeldFor(s)
  BY DEF HeldFor
<1> QED BY <1>1 DEF OwedSound

\* A service held from now on is held for all its dependents, and is one the
\* services held before wait for no longer.
LEMMA OwedByReady ==
  ASSUME TypeOK, OwedSound, NEW u \in Unit, JoinReady(u), result = "none", ~Exiting, Failing = {}
  PROVE  OwedSound'
<1> DEFINE waiting == (held \cup {u}) \ tillEnd'
           owed == [remaining EXCEPT ![u] = HeldFor(u)]
<1>0. \A s : HeldFor(s)' = HeldFor(s) /\ HeldFor(s) \subseteq Unit
  BY DependentsInPlan DEF HeldFor, JoinReady, Join, setup
<1>1. /\ held' = held \cup {u} /\ tillEnd' = IF HeldFor(u) = {} THEN tillEnd \cup {u} ELSE tillEnd
      /\ remaining' = [h \in Unit |-> IF h \in waiting THEN owed[h] \ {u} ELSE owed[h]]
      /\ draining' = {h \in waiting : owed[h] \ {u} = {}}
      /\ gate' = Satisfy(gate, u) /\ plan' = plan
    BY DEF JoinReady, Join, Hold, setup
<1>2. \A v \in Unit : gate'[v] = IF v = u THEN "Satisfied" ELSE gate[v]
  BY <1>1 DEF Satisfy, TypeOK
<1>3. \A s : StillOwed(s)' \subseteq StillOwed(s) \ {u}
  BY <1>0, <1>2 DEF StillOwed
<1>4. \A h \in Unit : owed[h] = IF h = u THEN HeldFor(u) ELSE remaining[h]
  BY DEF TypeOK
<1>5. \A s \in tillEnd' : HeldFor(s)' = {}
  BY <1>0, <1>1 DEF OwedSound
<1>6. \A s \in held' \ tillEnd' : s \in Unit /\ remaining'[s] = owed[s] \ {u}
  BY <1>1 DEF TypeOK
<1> HIDE DEF owed
<1>7. \A s \in held' \ tillEnd' : StillOwed(s)' \subseteq remaining'[s]
  <2> SUFFICES ASSUME NEW s \in held' \ tillEnd' PROVE StillOwed(s)' \subseteq remaining'[s]
    OBVIOUS
  <2>1. CASE s = u
    BY <1>3, <1>4, <1>6, <2>1 DEF StillOwed
  <2>2. CASE s # u
    <3>1. s \in held \ tillEnd
      BY <1>1, <2>2
    <3> QED BY <1>3, <1>4, <1>6, <2>2, <3>1 DEF OwedSound
  <2> QED BY <2>1, <2>2
<1>8. \A h \in draining' : h \notin tillEnd' /\ remaining'[h] = {}
  BY <1>1, <1>6
<1>9. \A s \in plan'.persistent : gate'[s] = "Satisfied" /\ s \notin held' => StillOwed(s)' = {}
  <2> SUFFICES ASSUME NEW s \in plan.persistent, gate'[s] = "Satisfied", s \notin held'
               PROVE  StillOwed(s) = {}
    BY <1>1, <1>3
  <2>1. s \in Unit /\ s # u /\ s \notin held
    BY <1>1, PlanFacts DEF WellFormed
  <2> QED BY <1>2, <2>1 DEF OwedSound
<1> QED BY <1>5, <1>7, <1>8, <1>9 DEF OwedSound

\* Every step keeps the held set in line with the dependents that may still run.
LEMMA OwedStep ==
  ASSUME TypeOK, IInv, RInv, ProcessSound, OwedSound, [Next]_vars
  PROVE  OwedSound'
<1> USE DEF setup, scheduler, tokens, services, handler, report
<1>0. /\ result = "none" => Reporting
      /\ ~Exiting /\ pc # "drain" => result = "none" /\ Failing = {}
      /\ ~Exiting => result = "none"
  <2>1. result # "none" => Exiting
    BY DEF RInv, Exiting
  <2>2. result = "none" => Reporting
    BY DEF RInv
  <2> QED BY <2>1, <2>2 DEF Reporting, HandlerSound, Failing
<1>1. CASE \/ EndWaves \/ SinkFails \/ HeldStopped \/ PoolShutDown \/ Finish
           \/ \E ok \in BOOLEAN : StopHeld(ok)
           \/ \E u \in Unit : SucceededUnreported(u) \/ CacheWriteFails(u) \/ TearDownFails(u)
                              \/ SubmitUnreported(u) \/ ReadyUnreported(u)
           \/ Drained /\ current.next = "abort"
  <2>1. plan' = plan
    BY <1>1 DEF EndWaves, SinkFails, HeldStopped, PoolShutDown, Finish, StopHeld, SucceededUnreported,
      CacheWriteFails, TearDownFails, SubmitUnreported, ReadyUnreported, Join, Drained
  <2>2. result' # "none" \/ Exiting'
    BY <1>1 DEF EndWaves, SinkFails, HeldStopped, PoolShutDown, Finish, StopHeld, SucceededUnreported,
      CacheWriteFails, TearDownFails, SubmitUnreported, ReadyUnreported, Abort, Drained, Exiting
  <2>3. \A s \in tillEnd' : s \in tillEnd \/ HeldFor(s) = {}
    BY <1>1 DEF EndWaves, SinkFails, HeldStopped, PoolShutDown, Finish, StopHeld, SucceededUnreported,
      CacheWriteFails, TearDownFails, SubmitUnreported, ReadyUnreported, Drained, Hold
  <2> QED BY <2>1, <2>2, <2>3, OwedGone
<1>2. ASSUME UNCHANGED <<plan, held, tillEnd, remaining>>, draining' = draining,
             result' = "none" /\ ~Exiting' => result = "none" /\ ~Exiting,
             UNCHANGED gate, Failing' = Failing
      PROVE  OwedSound'
  <2>1. \A s : HeldFor(s) \subseteq Unit
    BY DependentsInPlan DEF HeldFor
  <2> QED BY <1>2, <2>1, OwedKept
<1>3. CASE \/ StartWave \/ StartGroups \/ SlotsFilled \/ EndWave \/ ObserveInterrupt \/ NoRefill
           \/ TripFailFast \/ Interrupt \/ Terminated \/ UNCHANGED vars
           \/ Drained /\ current.next # "abort"
           \/ \E u \in Unit : FillSlot(u) \/ Refill(u) \/ WorkerEnds(u) \/ JoinCancelled(u)
  <2>1. UNCHANGED <<plan, held, tillEnd, remaining, draining, result, gate, current>>
    BY <1>3 DEF StartWave, StartGroups, SlotsFilled, EndWave, ObserveInterrupt, NoRefill, TripFailFast,
      Interrupt, Terminated, vars, Drained, FillSlot, Refill, WorkerEnds, JoinCancelled, Join
  <2>2. Exiting => Exiting'
    BY <1>3 DEF StartWave, StartGroups, SlotsFilled, EndWave, ObserveInterrupt, NoRefill, TripFailFast,
      Interrupt, Terminated, vars, Drained, FillSlot, Refill, WorkerEnds, JoinCancelled, Join, Exiting
  <2> QED BY <1>2, <2>1, <2>2 DEF Failing
<1>4. ASSUME NEW u \in Unit, JoinStopped(u) PROVE OwedSound'
  <2>1. /\ UNCHANGED <<plan, held, tillEnd, remaining, draining, result, gate>> /\ pc = "select"
        /\ Failing' = {}
    BY <1>4 DEF JoinStopped, Join, Failing
  <2> QED BY <1>0, <1>2, <2>1 DEF Exiting
<1>5. ASSUME NEW u \in Unit, CacheHit(u) \/ JoinSucceeded(u) PROVE OwedSound'
  <2>1. /\ UNCHANGED <<plan, held, tillEnd>> /\ DependentFinished(u) /\ pc \in {"collect", "select"}
        /\ gate' = Satisfy(gate, u)
    BY <1>5 DEF CacheHit, JoinSucceeded, Settle, Join
  <2>2. u \notin plan.persistent
    BY <1>5, PlanFacts DEF CacheHit, Hits, JoinSucceeded, Join, ProcessSound, WellFormed
  <2>3. \A v \in Unit : gate'[v] = IF v = u THEN "Satisfied" ELSE gate[v]
    BY <2>1 DEF Satisfy, TypeOK
  <2>4. ~Exiting /\ result = "none" /\ Failing = {}
    BY <1>0, <2>1 DEF Exiting
  <2> QED BY <2>1, <2>2, <2>3, <2>4, OwedStruck
<1>6. ASSUME NEW u \in Unit,
             JoinError(u) \/ \E o \in {"failure", "timedOut", "notReady"} : JoinFailed(u, o)
      PROVE  OwedSound'
  <2>1. /\ UNCHANGED <<plan, held, tillEnd, gate>> /\ DependentFinished(u) /\ pc = "select"
        /\ current'.fails /\ current'.unit = {u}
    BY <1>6 DEF JoinError, JoinFailed, Settle, Join
  <2>2. u \in Failing'
    BY <2>1 DEF Failing
  <2>3. ~Exiting /\ result = "none" /\ Failing = {}
    BY <1>0, <2>1 DEF Exiting
  <2> QED BY <2>1, <2>2, <2>3, OwedStruck
<1>7. ASSUME NEW u \in Unit, AnnounceBlocked(u) PROVE OwedSound'
  <2>1. /\ UNCHANGED <<plan, held, tillEnd, gate>> /\ DependentFinished(u) /\ pc = "drain"
        /\ ~current.fails /\ u \in blocking
    BY <1>7 DEF AnnounceBlocked
  <2>2. ~Exiting /\ result = "none" /\ Failing = {} /\ gate'[u] = "Blocked"
    BY <1>0, <2>1 DEF Exiting, Failing, Reporting, HandlerSound
  <2> QED BY <2>1, <2>2, OwedStruck
<1>8. ASSUME NEW u \in Unit, JoinReady(u) PROVE OwedSound'
  <2>1. pc = "select"
    BY <1>8 DEF JoinReady, Join
  <2>2. ~Exiting /\ result = "none" /\ Failing = {}
    BY <1>0, <2>1 DEF Exiting
  <2> QED BY <1>8, <2>2, OwedByReady
<1>9. ASSUME NEW h \in Unit, TearDown(h) PROVE OwedSound'
  <2>1. /\ UNCHANGED <<plan, tillEnd, remaining, gate, current, result, pc>> /\ h \in draining
        /\ held' = held \ {h} /\ draining' = draining \ {h} /\ ~Exiting
    BY <1>9 DEF TearDown, Exiting
  <2>2. (\A s : HeldFor(s)' = HeldFor(s)) /\ (\A s : StillOwed(s)' = StillOwed(s))
    BY <2>1 DEF HeldFor, StillOwed, Failing
  <2>3. h \in held \ tillEnd /\ remaining[h] = {}
    BY <1>0, <2>1 DEF OwedSound, Reporting, HandlerSound
  <2>4. StillOwed(h) = {}
    BY <1>0, <2>1, <2>3 DEF OwedSound
  <2> QED BY <2>1, <2>2, <2>4 DEF OwedSound
<1>10. ASSUME NEW u \in Unit, BlockDependents(u) PROVE OwedSound'
  <2>1. /\ UNCHANGED <<plan, held, tillEnd, remaining, draining, result, pc>> /\ pc = "drain"
        /\ current.fails /\ u \in current.unit /\ gate' = FailAndBlock(plan.deps, gate, u)
    BY <1>10 DEF BlockDependents
  <2>2. \A v \in Unit : gate'[v] = gate[v] \/ gate'[v] \in {"Failed", "Blocked"}
    BY <2>1 DEF FailAndBlock, TypeOK
  <2>3. Failing = {u} /\ gate'[u] = "Failed"
    BY <2>1 DEF IInv, FailingSound, Failing, FailAndBlock, TypeOK
  <2>4. plan.persistent \subseteq Unit /\ \A s : HeldFor(s) \subseteq Unit
    BY PlanFacts, DependentsInPlan DEF WellFormed, HeldFor
  <2> QED BY <1>0, <2>1, <2>2, <2>3, <2>4, OwedKept DEF Exiting
<1> QED BY <1>1, <1>3, <1>4, <1>5, <1>6, <1>7, <1>8, <1>9, <1>10 DEF Next, Walker

\* At first there is neither a process nor a held service.
LEMMA ServicesInit == Init => ProcessSound /\ OwedSound
<1> SUFFICES ASSUME Init PROVE ProcessSound /\ OwedSound
  OBVIOUS
<1>1. /\ \A u \in Unit : worker[u] = "idle" /\ process[u] = "none" /\ gate[u] = "Pending"
      /\ held = {} /\ tillEnd = {} /\ draining = {} /\ tornDown = {} /\ order = <<>>
      /\ pc = "waves" /\ plan.persistent \subseteq Unit
  BY PlanAssumption DEF Init, NewGate, WellFormed
<1>2. ProcessSound
  BY <1>1 DEF ProcessSound, Exiting
<1>3. OwedSound
  BY <1>1 DEF OwedSound
<1> QED BY <1>2, <1>3

\* Whoever is in flight has every service it rests on satisfied, held and up.
LEMMA FlightServed ==
  ASSUME TypeOK, IInv, RInv, ProcessSound, OwedSound
  PROVE  ServiceUpWhileUsed
<1> SUFFICES ASSUME result = "none", NEW u \in InFlight, NEW s \in Services(u)
             PROVE  process[s] = "up"
  BY DEF ServiceUpWhileUsed
<1>1. s \in plan.persistent /\ s \in Unit /\ u \in HeldFor(s) /\ u \in Unit
  BY PlanFacts DEF Services, HeldFor, InFlight, WellFormed
<1>2. ~Exiting
  BY DEF ProcessSound
<1>3. InGroups
  BY <1>2 DEF IInv, QueueSound, InGroups, Collecting, Exiting, TypeOK
<1>4. gate[u] = "Pending" /\ Ready(u) /\ u \notin Failing
  BY <1>3 DEF IInv, QueueSound, FailingSound
<1>5. gate[s] = "Satisfied"
  BY <1>1, <1>4, ServicesSatisfied DEF IInv, HeldFor
<1>6. u \in StillOwed(s)
  BY <1>1, <1>4 DEF StillOwed
<1>7. s \in held
  BY <1>1, <1>2, <1>5, <1>6 DEF OwedSound
<1>8. tornDown = {}
  BY <1>2 DEF RInv, Reporting, ExitSound, Exiting
<1> QED BY <1>7, <1>8 DEF ProcessSound

\* Once the walk is done no service is up, and after a summary nobody is left.
LEMMA NobodyLeft ==
  ASSUME TypeOK, RInv, ProcessSound
  PROVE  NothingLeftRunning
<1>1. ASSUME pc = "done", NEW u \in Unit PROVE process[u] # "up"
  <2>1. Len(order) = 0 /\ InFlight = {}
    BY <1>1 DEF ProcessSound
  <2>2. worker[u] # "ready"
    BY <2>1 DEF InFlight, Outcome
  <2> QED BY <2>1, <2>2 DEF ProcessSound
<1>2. ASSUME Ended("ok"), NEW u \in Unit
      PROVE  process[u] \in {"none", "stopped"} /\ worker[u] \in {"idle", "joined"}
  <2>1. pc = "done" /\ result # "error" /\ InFlight = {}
    BY <1>2 DEF Ended, ProcessSound
  <2>2. process[u] \notin {"stuck", "dropped", "up"} /\ worker[u] # "abandoned"
    BY <1>1, <2>1 DEF ProcessSound
  <2>3. worker[u] \notin {"running"} \cup Outcome
    BY <2>1 DEF InFlight
  <2> QED BY <2>2, <2>3 DEF TypeOK
<1> QED BY <1>1, <1>2 DEF NothingLeftRunning
-----------------------------------------------------------------------------
(* Recorded keys. *)

\* While no error ended the walk, the recorded keys are those of the reported successes.
RecordedSound ==
  /\ RecordedIffSucceeded
  /\ result # "error" => /\ recorded = {u \in plan.keyed : gate[u] = "Satisfied"}
                         /\ \A u \in recorded : verdicts[u] = <<"Succeeded">>

\* Nothing is recorded at first.
LEMMA RecordedInit == Init => RecordedSound
<1> SUFFICES ASSUME Init PROVE RecordedSound
  OBVIOUS
<1>1. recorded = {} /\ (\A u \in Unit : gate[u] = "Pending") /\ plan.keyed \subseteq Unit /\ pc # "done"
  BY PlanAssumption DEF Init, NewGate, WellFormed
<1> QED BY <1>1 DEF RecordedSound, RecordedIffSucceeded, Ended

\* The plan is the one the run began with.
LEMMA PlanStays == [Next]_vars => plan' = plan
<1> SUFFICES ASSUME [Next]_vars PROVE plan' = plan
  OBVIOUS
<1> USE DEF setup
<1>1. CASE EndWaves \/ StartWave \/ StartGroups \/ SlotsFilled \/ EndWave \/ ObserveInterrupt
  BY <1>1 DEF EndWaves, StartWave, StartGroups, SlotsFilled, EndWave, ObserveInterrupt
<1>2. ASSUME NEW u \in Unit,
             \/ CacheHit(u) \/ FillSlot(u) \/ JoinSucceeded(u) \/ SucceededUnreported(u)
             \/ CacheWriteFails(u) \/ (\E o \in {"failure", "timedOut", "notReady"} : JoinFailed(u, o))
             \/ JoinError(u) \/ JoinStopped(u) \/ JoinCancelled(u) \/ JoinReady(u)
             \/ ReadyUnreported(u)
      PROVE  plan' = plan
  BY <1>2 DEF CacheHit, FillSlot, JoinSucceeded, SucceededUnreported, CacheWriteFails, JoinFailed,
     JoinError, JoinStopped, JoinCancelled, JoinReady, ReadyUnreported, Join
<1>3. ASSUME NEW u \in Unit,
             \/ TearDown(u) \/ TearDownFails(u) \/ BlockDependents(u) \/ AnnounceBlocked(u)
             \/ Refill(u) \/ SubmitUnreported(u) \/ WorkerEnds(u)
      PROVE  plan' = plan
  BY <1>3 DEF TearDown, TearDownFails, BlockDependents, AnnounceBlocked, Refill,
     SubmitUnreported, WorkerEnds
<1>4. CASE \/ Drained \/ TripFailFast \/ NoRefill \/ (\E ok \in BOOLEAN : StopHeld(ok))
           \/ HeldStopped \/ PoolShutDown \/ Finish
  BY <1>4 DEF Drained, TripFailFast, NoRefill, StopHeld, HeldStopped, PoolShutDown, Finish
<1>5. CASE SinkFails \/ Interrupt \/ Terminated \/ UNCHANGED vars
  BY <1>5 DEF SinkFails, Interrupt, Terminated, vars
<1> QED BY <1>1, <1>2, <1>3, <1>4, <1>5 DEF Next, Walker

\* The step that reports an error, and those after it: keys, gates and verdicts stay.
LEMMA RecordedStays ==
  ASSUME FailClosed', RecordedSound, result' = "error", UNCHANGED <<plan, gate, verdicts>>,
         \/ recorded' = recorded
         \/ \E u \in Started' : recorded' = recorded \cup ({u} \cap plan.keyed) /\ verdicts[u] = <<>>
  PROVE  RecordedSound'
<1>1. CASE recorded' = recorded
  BY <1>1 DEF RecordedSound, RecordedIffSucceeded, Ended
<1>2. ASSUME NEW u \in Started', recorded' = recorded \cup ({u} \cap plan.keyed), verdicts[u] = <<>>
      PROVE  RecordedSound'
  <2>1. \A d \in plan'.deps[u] : gate'[d] = "Satisfied"
    BY DEF FailClosed, Started
  <2> QED BY <1>2, <2>1 DEF RecordedSound, RecordedIffSucceeded, Ended
<1> QED BY <1>1, <1>2

\* Every step records what it reports as succeeded, and nothing else.
LEMMA RecordedStep ==
  ASSUME TypeOK, IInv, IInv', RInv, ProcessSound, RecordedSound, [Next]_vars, TypeOK'
  PROVE  RecordedSound'
<1> USE DEF setup, scheduler, tokens, services, handler, report
<1>0. /\ FailClosed /\ FailClosed' /\ plan.keyed \subseteq Unit /\ plan' = plan
      /\ plan.keyed \cap (plan.persistent \cup plan.hit) = {}
  <2>1. plan' = plan
    BY PlanStays
  <2> QED BY <2>1, PlanFacts DEF IInv, WellFormed
<1>1. CASE UNCHANGED <<gate, verdicts, recorded>> /\ (result' = result \/ result' = "error")
  <2>1. CASE result' = "error"
    BY <1>0, <1>1, <2>1, RecordedStays
  <2>2. CASE result' # "error"
    BY <1>0, <1>1, <2>2 DEF RecordedSound, RecordedIffSucceeded, Ended
  <2> QED BY <2>1, <2>2
<1>2. CASE \/ EndWaves \/ StartWave \/ StartGroups \/ SlotsFilled \/ EndWave \/ ObserveInterrupt \/ NoRefill
           \/ TripFailFast \/ Drained \/ HeldStopped \/ PoolShutDown \/ SinkFails \/ Interrupt
           \/ Terminated \/ UNCHANGED vars
           \/ \E ok \in BOOLEAN : StopHeld(ok)
           \/ \E u \in Unit : CacheWriteFails(u) \/ JoinStopped(u) \/ JoinCancelled(u) \/ TearDownFails(u)
                \/ FillSlot(u) \/ Refill(u) \/ SubmitUnreported(u) \/ ReadyUnreported(u) \/ WorkerEnds(u)
  <2>1. UNCHANGED <<gate, verdicts, recorded>> /\ (result' = result \/ result' = "error")
    BY <1>2 DEF EndWaves, StartWave, StartGroups, SlotsFilled, EndWave, ObserveInterrupt, NoRefill,
      TripFailFast, Drained, HeldStopped, PoolShutDown, SinkFails, Interrupt, Terminated, vars, StopHeld,
      CacheWriteFails, JoinStopped, JoinCancelled, TearDownFails, FillSlot, Refill, SubmitUnreported,
      ReadyUnreported, WorkerEnds, Abort, Join
  <2> QED BY <1>1, <2>1
\* While no error has ended the walk, a recorded key is a reported success.
<1>3. ASSUME result # "error", result' # "error",
             recorded' = {u \in plan.keyed : gate'[u] = "Satisfied"},
             \A u \in recorded' : verdicts'[u] = <<"Succeeded">>
      PROVE  RecordedSound'
  BY <1>0, <1>3 DEF RecordedSound, RecordedIffSucceeded, FailClosed
<1>4. ASSUME NEW u \in Unit, JoinSucceeded(u) PROVE RecordedSound'
  <2>1. result = "none" /\ gate[u] = "Pending" /\ verdicts[u] = <<>>
    BY <1>4, JoinedUnreported DEF JoinSucceeded, Join, Outcome
  <2>2. result' = "none" /\ (\A v \in Unit : gate'[v] = IF v = u THEN "Satisfied" ELSE gate[v])
        /\ recorded' = recorded \cup ({u} \cap plan.keyed)
        /\ \A v \in Unit : verdicts'[v] = IF v = u THEN <<"Succeeded">> ELSE verdicts[v]
    BY <1>4, <2>1, EmitOne DEF JoinSucceeded, Satisfy, TypeOK, Status
  <2>3. recorded' = {v \in plan.keyed : gate'[v] = "Satisfied"}
    BY <1>0, <2>1, <2>2 DEF RecordedSound
  <2> QED BY <1>0, <1>3, <2>1, <2>2, <2>3 DEF RecordedSound
<1>5. ASSUME NEW u \in Unit, CacheHit(u) \/ JoinReady(u) PROVE RecordedSound'
  <2>1. u \notin plan.keyed /\ result' = result /\ recorded' = recorded /\ gate' = Satisfy(gate, u)
        /\ pc \in {"collect", "select"}
    BY <1>0, <1>5 DEF CacheHit, Hits, JoinReady, Join, ProcessSound
  <2>2. \A v \in Unit : gate'[v] = IF v = u THEN "Satisfied" ELSE gate[v]
    BY <2>1 DEF Satisfy, TypeOK
  <2>3. \A v \in Unit \ {u} : verdicts'[v] = verdicts[v]
    BY <1>5 DEF CacheHit, JoinReady, Emit, TypeOK
  <2>4. result = "none"
    BY <2>1 DEF RInv
  <2>5. recorded' = {v \in plan.keyed : gate'[v] = "Satisfied"}
    BY <1>0, <2>1, <2>2, <2>4 DEF RecordedSound
  <2> QED BY <1>0, <1>3, <2>1, <2>3, <2>4, <2>5 DEF RecordedSound
\* Steps that report a unit that was not recorded, and satisfy none.
<1>6. ASSUME NEW u \in Unit, recorded' = recorded, result = "none", result' = "none", u \notin recorded,
             \A v \in Unit : gate'[v] = "Satisfied" <=> gate[v] = "Satisfied",
             \A v \in Unit \ {u} : verdicts'[v] = verdicts[v]
      PROVE  RecordedSound'
  <2>1. recorded' = {v \in plan.keyed : gate'[v] = "Satisfied"}
    BY <1>0, <1>6 DEF RecordedSound
  <2>2. \A v \in recorded' : verdicts'[v] = <<"Succeeded">>
    BY <1>0, <1>6 DEF RecordedSound
  <2> QED BY <1>3, <1>6, <2>1, <2>2
<1>7. ASSUME NEW u \in Unit,
             JoinError(u) \/ \E o \in {"failure", "timedOut", "notReady"} : JoinFailed(u, o)
      PROVE  RecordedSound'
  <2>1. result = "none" /\ gate[u] = "Pending" /\ result' = "none" /\ recorded' = recorded /\ gate' = gate
    BY <1>7, JoinedUnreported DEF JoinError, JoinFailed, Join, Outcome
  <2>2. \A v \in Unit \ {u} : verdicts'[v] = verdicts[v]
    BY <1>7 DEF JoinError, JoinFailed, Emit, TypeOK
  <2>3. u \notin recorded
    BY <2>1 DEF RecordedSound
  <2> QED BY <1>6, <2>1, <2>2, <2>3
<1>8. ASSUME NEW u \in Unit, TearDown(u) \/ AnnounceBlocked(u) PROVE RecordedSound'
  <2>1. pc = "drain" /\ result' = result /\ recorded' = recorded /\ gate' = gate
        /\ u \in draining \cup blocking
    BY <1>8 DEF TearDown, AnnounceBlocked
  <2>2. result = "none"
    BY <2>1 DEF RInv
  <2>3. \A v \in Unit \ {u} : verdicts'[v] = verdicts[v]
    BY <1>8 DEF TearDown, AnnounceBlocked, Emit, TypeOK
  <2>4. verdicts[u] = <<>>
    BY <2>1, <2>2 DEF RInv, Reporting, HandlerSound, VerdictSound
  <2>5. u \notin recorded
    BY <2>2, <2>4, Singles DEF RecordedSound, Status
  <2> QED BY <1>6, <2>1, <2>2, <2>3, <2>5
<1>9. ASSUME NEW u \in Unit, BlockDependents(u) PROVE RecordedSound'
  <2>1. pc = "drain" /\ result' = result /\ UNCHANGED <<recorded, verdicts>>
        /\ gate' = FailAndBlock(plan.deps, gate, u) /\ current.fails /\ u \in current.unit
    BY <1>9 DEF BlockDependents
  <2>2. result = "none" /\ gate[u] = "Pending"
    BY <2>1 DEF RInv, IInv, QueueSound, FailingSound, InGroups, Collecting, Failing
  <2>3. \A v \in BlockedBy(plan.deps, gate, u) : gate[v] = "Pending"
    BY BlockedWerePending DEF PendingUnits
  <2>4. \A v \in Unit : gate'[v] = "Satisfied" <=> gate[v] = "Satisfied"
    BY <2>1, <2>2, <2>3 DEF FailAndBlock, TypeOK
  <2>5. u \notin recorded
    BY <2>2 DEF RecordedSound
  <2> QED BY <1>6, <2>1, <2>2, <2>4, <2>5
<1>10. CASE Finish
  <2>1. result = "none" /\ result' = "ok" /\ UNCHANGED <<recorded, gate>> /\ pc = "finish"
    BY <1>10 DEF Finish, RInv
  <2>2. \A v \in recorded : v \in Unit /\ v \notin tornDown /\ v \notin Pending
    <3> SUFFICES ASSUME NEW v \in recorded PROVE v \in Unit /\ v \notin tornDown /\ v \notin Pending
      OBVIOUS
    <3>1. v \in Unit /\ gate[v] = "Satisfied" /\ verdicts[v] # <<>>
      BY <1>0, <2>1, Singles DEF RecordedSound, Status
    <3> QED BY <2>1, <3>1 DEF RInv, Reporting, VerdictSound, Pending, PendingUnits
  <2>3. \A v \in recorded : verdicts'[v] = verdicts[v] \o <<>> \o <<>>
    BY <1>10, <2>2 DEF Finish
  <2>4. \A v \in recorded : verdicts'[v] = verdicts[v]
    BY <2>2, <2>3 DEF TypeOK
  <2> QED BY <1>3, <2>1, <2>4 DEF RecordedSound
<1>11. ASSUME NEW u \in Unit, SucceededUnreported(u) PROVE RecordedSound'
  <2>1. result = "none" /\ gate[u] = "Pending" /\ verdicts[u] = <<>>
    BY <1>11, JoinedUnreported DEF SucceededUnreported, Join, Outcome
  <2>2. /\ result' = "error" /\ UNCHANGED <<gate, verdicts>> /\ u \in Started'
        /\ recorded' = recorded \cup ({u} \cap plan.keyed)
    BY <1>11 DEF SucceededUnreported, Join, Abort, Started, TypeOK
  <2> QED BY <1>0, <2>1, <2>2, RecordedStays
<1> QED BY <1>2, <1>4, <1>5, <1>7, <1>8, <1>9, <1>10, <1>11 DEF Next, Walker
-----------------------------------------------------------------------------
(* The theorems. *)

\* Everything above, taken together.
WalkInv == IInv /\ GInv /\ RInv /\ ProcessSound /\ OwedSound /\ RecordedSound

\* At first no slot is taken.
LEMMA GroupsInit == Init => GInv
<1> SUFFICES ASSUME Init PROVE GInv
  OBVIOUS
<1>1. InFlight = {} /\ parallel = 1 /\ pc = "waves"
  BY DEF Init, InFlight, Outcome
<1>2. Cardinality(InFlight) = 0
  BY <1>1, FS_EmptySet
<1> QED BY <1>1, <1>2 DEF GInv, GroupsSerialized, SlotsSound, Freed

\* The invariants carry one another: each step lemma needs those stated before it.
LEMMA WalkInvStep ==
  ASSUME TypeOK, TypeOK', WalkInv, [Next]_vars
  PROVE  WalkInv'
<1>1. IInv' /\ GInv'
  BY StepKeepsInv, GroupsStep DEF WalkInv
<1>2. RInv' /\ ProcessSound' /\ OwedSound'
  BY ReportsStep, ProcessStep, OwedStep DEF WalkInv
<1>3. RecordedSound'
  BY <1>1, RecordedStep DEF WalkInv
<1> QED BY <1>1, <1>2, <1>3 DEF WalkInv

\* The whole inductive invariant holds of the walk.
LEMMA WalkInvHolds == Spec => [](TypeOK /\ WalkInv)
<1>1. Init => WalkInv
  BY InvInit, GroupsInit, ReportsInit, ServicesInit, RecordedInit DEF WalkInv
<1>2. TypeOK /\ TypeOK' /\ WalkInv /\ [Next]_vars => WalkInv'
  BY WalkInvStep
<1> QED BY <1>1, <1>2, TypeCorrect, PTL DEF Spec

\* Units that share a resource group never run together, and no more units run
\* than the wave may, however slots are freed and refilled (run_groups).
THEOREM WalkSerializesGroups == Spec => []GroupsSerialized
<1>1. WalkInv => GroupsSerialized
  BY DEF WalkInv, GInv
<1> QED BY <1>1, WalkInvHolds, PTL

\* No unit ever gets two terminal events; a run that reports a summary gave each
\* exactly one, and its counters partition the plan as those events do.
THEOREM WalkReportsOnce == Spec => []OneVerdictPerUnit
<1>1. WalkInv => OneVerdictPerUnit
  BY DEF WalkInv, RInv
<1> QED BY <1>1, WalkInvHolds, PTL

\* While a unit is in flight, every service it rests on, through any number of
\* units, is up: draining and early teardown never take one away too soon.
THEOREM WalkServesInFlight == Spec => []ServiceUpWhileUsed
<1>1. TypeOK /\ WalkInv => ServiceUpWhileUsed
  BY FlightServed DEF WalkInv
<1> QED BY <1>1, WalkInvHolds, PTL

\* The walk ends with no service up, and a run that reports a summary stopped
\* every service itself and joined every worker.
THEOREM WalkLeavesNothing == Spec => []NothingLeftRunning
<1>1. TypeOK /\ WalkInv => NothingLeftRunning
  BY NobodyLeft DEF WalkInv
<1> QED BY <1>1, WalkInvHolds, PTL

\* A key is recorded for a success with satisfied dependencies only, and a run
\* that reports a summary recorded the key of every such unit.
THEOREM WalkRecordsSuccesses == Spec => []RecordedIffSucceeded
<1>1. WalkInv => RecordedIffSucceeded
  BY DEF WalkInv, RecordedSound
<1> QED BY <1>1, WalkInvHolds, PTL
-----------------------------------------------------------------------------
(* The walk implements the abstract schedule (UnitSchedule): its steps start, *)
(* end or block units as the schedule allows, or are invisible in it.         *)

phases == [u \in Unit |-> PhaseOf(u)]

\* Nothing fails without having been started.
FailedRan == \A u \in Unit : gate[u] = "Failed" \/ u \in Failing => u \in Started

\* A unit once started stays so.
LEMMA StartedGrows ==
  ASSUME TypeOK, [Next]_vars
  PROVE  Started \subseteq Started'
<1> USE DEF setup, scheduler, tokens, services, handler, report, Started, TypeOK
<1>1. CASE \/ worker' = worker
           \/ \E u \in Unit, o \in {"running", "joined"} : worker' = [worker EXCEPT ![u] = o]
  BY <1>1
<1>2. CASE PoolShutDown
  BY <1>2 DEF PoolShutDown
<1>3. ASSUME NEW u \in Unit, WorkerEnds(u) PROVE Started \subseteq Started'
  <2>1. PICK o \in Outcomes(u) : worker' = [worker EXCEPT ![u] = o]
    BY <1>3 DEF WorkerEnds
  <2>2. o # "idle"
    BY DEF Outcomes
  <2> QED BY <2>1, <2>2
<1>4. ASSUME NEW u \in Unit,
             \/ JoinSucceeded(u) \/ SucceededUnreported(u) \/ CacheWriteFails(u) \/ JoinError(u)
             \/ JoinStopped(u) \/ JoinCancelled(u) \/ JoinReady(u) \/ ReadyUnreported(u)
             \/ \E o \in {"failure", "timedOut", "notReady"} : JoinFailed(u, o)
      PROVE  worker' = [worker EXCEPT ![u] = "joined"]
  BY <1>4 DEF JoinSucceeded, SucceededUnreported, CacheWriteFails, JoinError, JoinStopped, JoinCancelled,
    JoinReady, ReadyUnreported, JoinFailed, Join
<1>5. ASSUME NEW u \in Unit, FillSlot(u) \/ Refill(u) \/ SubmitUnreported(u)
      PROVE  worker' = [worker EXCEPT ![u] = "running"]
  BY <1>5 DEF FillSlot, Refill, SubmitUnreported, Submit
<1>6. CASE \/ EndWaves \/ StartWave \/ StartGroups \/ SlotsFilled \/ EndWave \/ ObserveInterrupt
           \/ NoRefill \/ TripFailFast \/ Drained \/ HeldStopped \/ Finish \/ SinkFails \/ Interrupt
           \/ Terminated \/ UNCHANGED vars \/ \E ok \in BOOLEAN : StopHeld(ok)
           \/ \E u \in Unit : CacheHit(u) \/ TearDown(u) \/ TearDownFails(u) \/ BlockDependents(u)
                              \/ AnnounceBlocked(u)
  <2>1. worker' = worker
    BY <1>6 DEF EndWaves, StartWave, StartGroups, SlotsFilled, EndWave, ObserveInterrupt, NoRefill,
      TripFailFast, Drained, HeldStopped, Finish, SinkFails, Interrupt, Terminated, vars, StopHeld, CacheHit,
      TearDown, TearDownFails, BlockDependents, AnnounceBlocked
  <2> QED BY <1>1, <2>1
<1> QED BY <1>1, <1>2, <1>3, <1>4, <1>5, <1>6 DEF Next, Walker

\* Every step keeps it so: only a joined unit fails.
LEMMA FailedRanStep ==
  ASSUME TypeOK, IInv, FailedRan, [Next]_vars
  PROVE  FailedRan'
<1> USE DEF setup, scheduler, tokens, services, handler, report
<1>1. Started \subseteq Started'
  BY StartedGrows
<1>2. CASE \/ EndWaves \/ StartWave \/ StartGroups \/ SlotsFilled \/ EndWave \/ ObserveInterrupt
           \/ NoRefill \/ TripFailFast \/ Drained \/ HeldStopped \/ PoolShutDown \/ Finish \/ SinkFails
           \/ Interrupt \/ Terminated \/ UNCHANGED vars \/ \E ok \in BOOLEAN : StopHeld(ok)
           \/ \E u \in Unit : CacheWriteFails(u) \/ SucceededUnreported(u) \/ JoinCancelled(u)
                \/ ReadyUnreported(u) \/ TearDown(u) \/ TearDownFails(u) \/ AnnounceBlocked(u)
                \/ FillSlot(u) \/ Refill(u) \/ SubmitUnreported(u) \/ WorkerEnds(u)
  <2>1. UNCHANGED <<gate, current>>
    BY <1>2 DEF EndWaves, StartWave, StartGroups, SlotsFilled, EndWave, ObserveInterrupt, NoRefill,
      TripFailFast, Drained, HeldStopped, PoolShutDown, Finish, SinkFails, Interrupt, Terminated, vars,
      StopHeld, CacheWriteFails, SucceededUnreported, JoinCancelled, ReadyUnreported, TearDown,
      TearDownFails, AnnounceBlocked, FillSlot, Refill, SubmitUnreported, WorkerEnds
  <2> QED BY <1>1, <2>1 DEF FailedRan, Failing
<1>3. ASSUME NEW u \in Unit, CacheHit(u) \/ JoinSucceeded(u) \/ JoinReady(u) \/ JoinStopped(u)
      PROVE  FailedRan'
  <2>1. (gate' = Satisfy(gate, u) \/ gate' = gate) /\ Failing' = {}
    BY <1>3 DEF CacheHit, JoinSucceeded, JoinReady, JoinStopped, Settle, Failing
  <2>2. \A v \in Unit : gate'[v] = "Failed" => gate[v] = "Failed"
    BY <2>1 DEF Satisfy, TypeOK
  <2> QED BY <1>1, <2>1, <2>2 DEF FailedRan
<1>4. ASSUME NEW u \in Unit,
             JoinError(u) \/ \E o \in {"failure", "timedOut", "notReady"} : JoinFailed(u, o)
      PROVE  FailedRan'
  <2>1. gate' = gate /\ Failing' = {u} /\ worker' = [worker EXCEPT ![u] = "joined"]
    BY <1>4 DEF JoinError, JoinFailed, Settle, Join, Failing
  <2>2. u \in Started'
    BY <2>1 DEF Started, TypeOK
  <2> QED BY <1>1, <2>1, <2>2 DEF FailedRan
<1>5. ASSUME NEW u \in Unit, BlockDependents(u) PROVE FailedRan'
  <2>1. /\ gate' = FailAndBlock(plan.deps, gate, u) /\ u \in Failing
        /\ current' = [current EXCEPT !.fails = FALSE]
    BY <1>5 DEF BlockDependents, Failing
  <2>2. \A v \in Unit : gate'[v] = "Failed" => v = u \/ gate[v] = "Failed"
    BY <2>1 DEF FailAndBlock, TypeOK
  <2>3. Failing' = {}
    BY <2>1 DEF Failing, TypeOK
  <2> QED BY <1>1, <2>1, <2>2, <2>3 DEF FailedRan
<1> QED BY <1>2, <1>3, <1>4, <1>5 DEF Next, Walker

\* All that is downstream of a unit about to be failed waits or is blocked
\* already, and what the gate blocks is what was still Pending of it.
LEMMA DownstreamOfFailing ==
  ASSUME TypeOK, IInv, FailedRan, NEW u \in Unit, u \in Failing, gate[u] = "Pending"
  PROVE  /\ TransitiveDependents(plan.deps, u) \subseteq Unit \ Started
         /\ \A v \in TransitiveDependents(plan.deps, u) : gate[v] \in {"Pending", "Blocked"}
         /\ \A v \in Unit : v \in BlockedBy(plan.deps, gate, u)
                              <=> v \in TransitiveDependents(plan.deps, u) /\ gate[v] = "Pending"
<1> DEFINE deps == plan.deps
           down == TransitiveDependents(deps, u)
           rest == {v \in Unit \ Started : gate[v] \in {"Pending", "Blocked"}}
           blocked == BlockedBy(deps, gate, u)
           within == PendingUnits(gate) \ {u}
           upto == {v \in Unit : v \in blocked \/ gate[v] = "Blocked"}
<1>1. /\ u \in Started /\ DOMAIN deps = Unit /\ \A v \in Unit : deps[v] \subseteq Unit
      /\ \A v \in Unit : v \in PendingUnits(gate) <=> gate[v] = "Pending"
      /\ PendingUnits(gate) \subseteq Unit
      /\ \A v \in Unit : gate[v] \in {"Pending", "Blocked", "Satisfied", "Failed"}
  BY PlanFacts DEF PendingUnits, TypeOK, GateState, FailedRan
<1> HIDE DEF deps
<1>2. ASSUME NEW v \in Unit, NEW w \in deps[v], gate[w] # "Satisfied"
      PROVE  v \in rest
  <2>1. v \notin Started /\ gate[v] # "Satisfied"
    BY <1>2 DEF IInv, FailClosed, deps
  <2> QED BY <1>1, <2>1 DEF FailedRan
<1>3. ClosedFrom(deps, u, Unit, rest)
  BY <1>1, <1>2 DEF ClosedFrom, Dependents
<1>4. down \subseteq rest
  BY <1>1, <1>3, ReachedLeast DEF TransitiveDependents
<1>5. ClosedFrom(deps, u, within, blocked) /\ blocked \subseteq within
  BY ReachedClosed, ReachedSubset DEF BlockedBy
<1>6. ClosedFrom(deps, u, Unit, upto)
  <2> SUFFICES ASSUME NEW w \in upto \cup {u}, NEW v \in Unit, w \in deps[v] PROVE v \in upto
    BY <1>1 DEF ClosedFrom, Dependents
  <2>1. w \in Unit /\ gate[w] \in {"Pending", "Blocked"}
    BY <1>1, <1>5
  <2>2. v \in rest /\ v # u
    BY <1>1, <1>2, <2>1
  <2>3. CASE gate[v] = "Pending"
    <3>1. gate[w] # "Blocked"
      BY <2>1, <2>3 DEF IInv, GateClosed, Bad, deps
    <3>2. w \in blocked \cup {u} /\ v \in within
      BY <1>1, <2>2, <2>3, <3>1
    <3> QED BY <1>1, <1>5, <3>2 DEF ClosedFrom, Dependents
  <2> QED BY <2>2, <2>3
<1>7. down \subseteq upto
  BY <1>1, <1>6, ReachedLeast DEF TransitiveDependents
<1>8. ClosedFrom(deps, u, within, down \cap within)
  <2>1. ClosedFrom(deps, u, Unit, down)
    BY <1>1, ReachedClosed DEF TransitiveDependents
  <2> QED BY <1>1, <2>1 DEF ClosedFrom
<1>9. blocked \subseteq down
  BY <1>8, ReachedLeast DEF BlockedBy
<1> HIDE DEF down, blocked
<1>10. \A v \in Unit : v \in blocked <=> v \in down /\ gate[v] = "Pending"
  BY <1>1, <1>5, <1>7, <1>9
<1> QED BY <1>4, <1>10 DEF down, blocked, deps

\* The operators UnitSchedule takes from Gate are Gate's.
LEMMA SameDependents ==
  ASSUME NEW u
  PROVE  Schedule!TransitiveDependents(plan.deps, u) = TransitiveDependents(plan.deps, u)
  BY DEF Schedule!TransitiveDependents, Schedule!ReachedWithin, Schedule!ClosedFrom, Schedule!Dependents,
     TransitiveDependents, ReachedWithin, ClosedFrom, Dependents

\* A step that changes no gate, starts no unit and ends no run well is a stutter of the schedule.
LEMMA Invisible ==
  ASSUME UNCHANGED <<plan, gate>>, Started' = Started, Ended("ok")' = Ended("ok")
  PROVE  UNCHANGED <<plan.deps, phases>>
<1>1. \A u \in Unit : (worker'[u] = "idle") = (worker[u] = "idle")
  BY DEF Started
<1>2. \A u \in Unit : PhaseOf(u)' = PhaseOf(u)
  BY <1>1 DEF PhaseOf
<1> QED BY <1>2 DEF phases

\* A unit that leaves its queue is started above successes.
LEMMA SubmitStarts ==
  ASSUME TypeOK, IInv, RInv, NEW u \in Unit, FillSlot(u) \/ Refill(u) \/ SubmitUnreported(u)
  PROVE  Schedule!Start(u) \/ UNCHANGED <<plan.deps, phases>>
<1>1. /\ u \in queued /\ pc \in {"submit", "joined"} /\ result' \in {result, "error"}
      /\ UNCHANGED <<plan, gate>> /\ worker' = [worker EXCEPT ![u] = "running"]
  BY DEF FillSlot, Refill, SubmitUnreported, Submit, Abort, setup, Fresh, Successors, SameGroup
<1>2. gate[u] = "Pending" /\ \A d \in plan.deps[u] : d \in Unit /\ gate[d] = "Satisfied"
  BY <1>1, PlanFacts DEF IInv, QueueSound, InGroups, Ready
<1>3. ~Ended("ok") /\ ~Ended("ok")'
  BY <1>1 DEF RInv, Ended
<1>4. \A v \in Unit : PhaseOf(v)' = IF v = u THEN "active" ELSE PhaseOf(v)
  BY <1>1, <1>2, <1>3 DEF PhaseOf, TypeOK
<1>5. phases' = [phases EXCEPT ![u] = "active"]
  BY <1>4 DEF phases
<1>6. \A d \in plan.deps[u] : d \in Schedule!Succeeded
  BY <1>2 DEF Schedule!Succeeded, PhaseOf
<1>7. CASE worker[u] = "idle"
  <2>1. phases[u] = "waiting"
    BY <1>2, <1>3, <1>7 DEF phases, PhaseOf
  <2> QED BY <1>1, <1>5, <1>6, <2>1 DEF Schedule!Start, Schedule!Ready, phases
<1>8. CASE worker[u] # "idle"
  <2>1. PhaseOf(u) = "active"
    BY <1>2, <1>3, <1>8 DEF PhaseOf
  <2>2. \A v \in Unit : PhaseOf(v)' = PhaseOf(v)
    BY <1>4, <2>1
  <2> QED BY <1>1, <2>2 DEF phases
<1> QED BY <1>7, <1>8

\* A success, a service that is ready and a cached result are successes of the schedule.
LEMMA SuccessSucceeds ==
  ASSUME TypeOK, IInv, RInv, NEW u \in Unit, CacheHit(u) \/ JoinSucceeded(u) \/ JoinReady(u)
  PROVE  Schedule!Succeed(u)
<1>1. /\ plan' = plan /\ gate' = Satisfy(gate, u) /\ pc \in {"collect", "select"} /\ result' = result
      /\ worker' = worker \/ (worker[u] \in Outcome /\ worker' = [worker EXCEPT ![u] = "joined"])
  BY DEF CacheHit, JoinSucceeded, JoinReady, Join, setup, Outcome
<1>2. gate[u] = "Pending" /\ \A d \in plan.deps[u] : d \in Unit /\ gate[d] = "Satisfied"
  <2>1. CASE CacheHit(u)
    <3>1. u \in Unit /\ gate[u] = "Pending" /\ plan.wave[u] = wave /\ pc = "collect"
      BY <2>1 DEF CacheHit, Hits, Pending, PendingUnits
    <3>2. Ready(u)
      BY <3>1, PendingReady DEF IInv, EarlierSettled, Collecting
    <3> QED BY <3>1, <3>2, PlanFacts DEF Ready
  <2>2. CASE JoinSucceeded(u) \/ JoinReady(u)
    <3>1. pc = "select" /\ worker[u] \in Outcome
      BY <2>2 DEF JoinSucceeded, JoinReady, Join, Outcome
    <3>2. gate[u] = "Pending" /\ Ready(u)
      BY <3>1 DEF IInv, QueueSound, InGroups, InFlight
    <3> QED BY <3>2, PlanFacts DEF Ready
  <2> QED BY <2>1, <2>2
<1>3. ~Ended("ok") /\ ~Ended("ok")'
  BY <1>1 DEF RInv, Ended
<1>4. \A v \in Unit : /\ gate'[v] = IF v = u THEN "Satisfied" ELSE gate[v]
                      /\ (worker'[v] = "idle") = (worker[v] = "idle")
  BY <1>1 DEF Satisfy, TypeOK, Outcome
<1>5. \A v \in Unit : PhaseOf(v)' = IF v = u THEN "succeeded" ELSE PhaseOf(v)
  BY <1>3, <1>4 DEF PhaseOf
<1>6. phases' = [phases EXCEPT ![u] = "succeeded"] /\ phases[u] \in {"waiting", "active"}
  BY <1>2, <1>3, <1>5 DEF phases, PhaseOf
<1>7. plan.deps[u] \subseteq Schedule!Succeeded
  BY <1>2 DEF Schedule!Succeeded, PhaseOf
<1> QED BY <1>1, <1>6, <1>7 DEF Schedule!Succeed, Schedule!Ready, phases

\* Marking a unit Failed and blocking its dependents is the schedule's failure.
LEMMA FailureFails ==
  ASSUME TypeOK, IInv, RInv, FailedRan, NEW u \in Unit, BlockDependents(u)
  PROVE  Schedule!Fail(u)
<1> DEFINE down == TransitiveDependents(plan.deps, u)
           blocked == BlockedBy(plan.deps, gate, u)
<1>1. /\ pc = "drain" /\ u \in Failing /\ gate' = FailAndBlock(plan.deps, gate, u)
      /\ UNCHANGED <<plan, worker, result, pc>>
  BY DEF BlockDependents, setup, Failing
<1>2. gate[u] = "Pending" /\ u \in Started
  BY <1>1 DEF IInv, QueueSound, FailingSound, InGroups, Collecting, Failing, FailedRan
<1>3. \A v \in Unit : gate'[v] = IF v = u THEN "Failed" ELSE IF v \in blocked THEN "Blocked" ELSE gate[v]
  BY <1>1 DEF FailAndBlock, TypeOK
<1>4. /\ down \subseteq Unit \ Started /\ \A v \in down : gate[v] \in {"Pending", "Blocked"}
      /\ \A v \in Unit : v \in blocked <=> v \in down /\ gate[v] = "Pending"
  BY <1>1, <1>2, DownstreamOfFailing
<1> HIDE DEF down, blocked
<1>5. ~Ended("ok") /\ ~Ended("ok")'
  BY <1>1 DEF Ended
<1>6. \A v \in Unit : PhaseOf(v)' = IF v = u THEN "failed" ELSE IF v \in down THEN "blocked" ELSE PhaseOf(v)
  BY <1>1, <1>2, <1>3, <1>4, <1>5 DEF PhaseOf
<1>7. \A v \in down : phases[v] \in {"waiting", "blocked"}
  BY <1>4, <1>5 DEF phases, PhaseOf, Started
<1>8. phases[u] = "active"
  BY <1>2, <1>5 DEF phases, PhaseOf, Started
<1>9. phases' = [v \in Unit |-> IF v = u THEN "failed" ELSE IF v \in down THEN "blocked" ELSE phases[v]]
  BY <1>6 DEF phases
<1> QED BY <1>1, <1>7, <1>8, <1>9, SameDependents DEF Schedule!Fail, phases, down

\* The summary gives up on every unit without an outcome.
LEMMA FinishStops ==
  ASSUME TypeOK, Finish
  PROVE  Schedule!StopAll
<1>1. ~Ended("ok") /\ Ended("ok")' /\ UNCHANGED <<plan, gate, worker>>
  BY DEF Finish, Ended, setup
<1>2. \A v \in Unit : PhaseOf(v)' = IF PhaseOf(v) \in {"waiting", "active"} THEN "stopped" ELSE PhaseOf(v)
  BY <1>1 DEF PhaseOf
<1>3. phases' = [v \in Unit |-> IF phases[v] \in {"waiting", "active"} THEN "stopped" ELSE phases[v]]
  BY <1>2 DEF phases
<1> QED BY <1>1, <1>3 DEF Schedule!StopAll, phases

\* Every step of the walk is one of the schedule, or a stutter.
LEMMA StepSimulates ==
  ASSUME TypeOK, IInv, RInv, FailedRan, [Next]_vars
  PROVE  [Schedule!Next]_(Schedule!vars)
<1> USE DEF setup, scheduler, tokens, services, handler, report
<1>1. CASE \/ EndWaves \/ StartWave \/ StartGroups \/ SlotsFilled \/ EndWave \/ ObserveInterrupt
           \/ NoRefill \/ TripFailFast \/ Drained \/ HeldStopped \/ SinkFails \/ Interrupt
           \/ Terminated \/ UNCHANGED vars \/ \E ok \in BOOLEAN : StopHeld(ok)
           \/ \E u \in Unit : TearDown(u) \/ TearDownFails(u) \/ AnnounceBlocked(u)
  <2>1. UNCHANGED <<plan, gate, worker>> /\ Ended("ok")' = Ended("ok")
    BY <1>1 DEF EndWaves, StartWave, StartGroups, SlotsFilled, EndWave, ObserveInterrupt, NoRefill,
      TripFailFast, Drained, Abort, HeldStopped, SinkFails, Interrupt, Terminated, vars, StopHeld, TearDown,
      TearDownFails, AnnounceBlocked, Ended, IInv, FailingSound
  <2> QED BY <2>1, Invisible DEF Schedule!vars, phases, Started
<1>2. ASSUME NEW u \in Unit,
             \/ SucceededUnreported(u) \/ CacheWriteFails(u) \/ JoinError(u) \/ JoinStopped(u)
             \/ JoinCancelled(u) \/ ReadyUnreported(u)
             \/ \E o \in {"failure", "timedOut", "notReady"} : JoinFailed(u, o)
      PROVE  [Schedule!Next]_(Schedule!vars)
  <2>1. /\ UNCHANGED <<plan, gate>> /\ worker[u] \in Outcome /\ worker' = [worker EXCEPT ![u] = "joined"]
        /\ pc' # "done" /\ pc = "select"
    BY <1>2 DEF SucceededUnreported, CacheWriteFails, JoinError, JoinStopped, JoinCancelled,
      ReadyUnreported, JoinFailed, Join, Settle, Abort, Outcome
  <2>2. Started' = Started /\ Ended("ok")' = Ended("ok")
    BY <2>1 DEF Started, Outcome, TypeOK, Ended
  <2> QED BY <2>1, <2>2, Invisible DEF Schedule!vars, phases
<1>3. ASSUME NEW u \in Unit, WorkerEnds(u) PROVE [Schedule!Next]_(Schedule!vars)
  <2>1. UNCHANGED <<plan, gate, pc, result>> /\ worker[u] = "running"
        /\ \E o \in Outcome : worker' = [worker EXCEPT ![u] = o]
    BY <1>3 DEF WorkerEnds, Outcomes, Outcome
  <2>2. Started' = Started /\ Ended("ok")' = Ended("ok")
    BY <2>1 DEF Started, Outcome, TypeOK, Ended
  <2> QED BY <2>1, <2>2, Invisible DEF Schedule!vars, phases
<1>4. CASE PoolShutDown
  <2>1. UNCHANGED <<plan, gate, result>> /\ pc = "shutdown" /\ (pc' = "done" => result # "none")
    BY <1>4 DEF PoolShutDown
  <2>2. Started' = Started
    BY <1>4 DEF PoolShutDown, Started, InFlight, Outcome, TypeOK
  <2>3. Ended("ok")' = Ended("ok")
    BY <2>1 DEF RInv, Ended
  <2> QED BY <2>1, <2>2, <2>3, Invisible DEF Schedule!vars, phases
<1>5. ASSUME NEW u \in Unit, FillSlot(u) \/ Refill(u) \/ SubmitUnreported(u)
      PROVE  [Schedule!Next]_(Schedule!vars)
  BY <1>5, SubmitStarts DEF Schedule!Next, Schedule!vars, phases
<1>6. ASSUME NEW u \in Unit, CacheHit(u) \/ JoinSucceeded(u) \/ JoinReady(u) \/ BlockDependents(u)
      PROVE  [Schedule!Next]_(Schedule!vars)
  BY <1>6, SuccessSucceeds, FailureFails DEF Schedule!Next
<1>7. CASE Finish
  BY <1>7, FinishStops DEF Schedule!Next
<1> QED BY <1>1, <1>2, <1>3, <1>4, <1>5, <1>6, <1>7 DEF Next, Walker

\* Seen through the phases of its units, every run of the walk is a run of the
\* schedule that the lifecycle engine implements too.
THEOREM WalkImplementsSchedule == Spec => ImplementsSchedule
<1>1. Init => Schedule!Init /\ FailedRan
  <2> SUFFICES ASSUME Init PROVE Schedule!Init /\ FailedRan
    OBVIOUS
  <2>1. /\ \A u \in Unit : gate[u] = "Pending" /\ worker[u] = "idle" /\ ~current.fails
        /\ result = "none" /\ DOMAIN plan.deps = Unit
    BY PlanAssumption DEF Init, NewGate, WellFormed, Idle
  <2>2. \A u \in Unit : PhaseOf(u) = "waiting"
    BY <2>1 DEF PhaseOf, Ended
  <2>3. FailedRan
    BY <2>1 DEF FailedRan, Failing
  <2> QED BY <2>1, <2>2, <2>3 DEF Schedule!Init
<1>2. TypeOK /\ WalkInv /\ FailedRan /\ [Next]_vars => FailedRan'
  BY FailedRanStep DEF WalkInv
<1>3. TypeOK /\ WalkInv /\ FailedRan /\ [Next]_vars => [Schedule!Next]_(Schedule!vars)
  BY StepSimulates DEF WalkInv
<1> QED BY <1>1, <1>2, <1>3, WalkInvHolds, PTL DEF Spec, ImplementsSchedule, Schedule!Spec
=================================================================================
