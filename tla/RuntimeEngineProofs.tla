-------------------------- MODULE RuntimeEngineProofs --------------------------
(***************************************************************************)
(* The lifecycle engine is well-typed and fail-closed, reports every unit  *)
(* once with counters that add up, and implements the abstract schedule,   *)
(* for every dependency map, malformed ones included, every configuration  *)
(* and every interleaving of workers, results and cancellation.            *)
(***************************************************************************)
EXTENDS RuntimeEngine, GateProofs, FiniteSetTheorems

LEMMA GraphFacts ==
  ASSUME TypeOK
  PROVE  DOMAIN deps = Unit /\ config.failFast \in BOOLEAN
  BY EngineAssumption DEF TypeOK

\* What is counted is a set of units, of which there are finitely many.
LEMMA CountIsNat ==
  ASSUME NEW S \in SUBSET Unit
  PROVE  IsFiniteSet(S) /\ Cardinality(S) \in Nat
  BY EngineAssumption, FS_Subset, FS_CardinalityType

LEMMA BlockedInGraph ==
  ASSUME TypeOK, NEW u
  PROVE  BlockedBy(deps, gate, u) \in SUBSET (Pending \ {u}) /\ Pending \in SUBSET Unit
  BY BlockedWerePending DEF Pending, PendingUnits, TypeOK

LEMMA TypeStep == TypeOK /\ [Next]_vars => TypeOK'
<1> SUFFICES ASSUME TypeOK, [Next]_vars PROVE TypeOK'
  OBVIOUS
<1> USE DEF TypeOK
<1>1. CASE Level
  BY <1>1 DEF Level
<1>2. CASE StartWave
  BY <1>2 DEF StartWave, Layer
<1>3. CASE WaveSubmitted \/ EndWaves
  BY <1>3 DEF WaveSubmitted, EndWaves
<1>4. CASE EndWave
  BY <1>4 DEF EndWave, Layer
<1>5. CASE ObserveCancel
  BY <1>5 DEF ObserveCancel, AbortInFlight, InFlight, Queued, Running, Joinable
<1>6. ASSUME NEW u \in Unit, Submit(u) \/ SubmitUnreported(u) PROVE TypeOK'
  BY <1>6 DEF Submit, SubmitUnreported, Fail
<1>7. ASSUME NEW u \in Unit, SettleSucceeded(u) PROVE TypeOK'
  <2>1. gate' \in [Unit -> GateState] /\ summary' \in [Tally -> Nat]
        /\ reports' \in [Unit -> Seq({"Succeeded", "Failed", "Blocked", "Cancelled"})]
    BY <1>7 DEF SettleSucceeded, Satisfy, GateState, Tally
  <2> QED BY <1>7, <2>1 DEF SettleSucceeded, Join
<1>8. ASSUME NEW u \in Unit, SettleFailed(u) PROVE TypeOK'
  <2> DEFINE blocked == BlockedBy(deps, gate, u)
  <2>1. Cardinality(blocked) \in Nat
    BY BlockedInGraph, CountIsNat
  <2>2. FailAndBlock(deps, gate, u) \in [Unit -> GateState]
    BY FailAndBlockType
  <2> HIDE DEF blocked
  <2>3. summary' \in [Tally -> Nat]
    <3>1. \A n \in Nat : [summary EXCEPT !["failed"] = @ + 1, !["blocked"] = @ + n] \in [Tally -> Nat]
      BY DEF Tally
    <3>2. summary' = [summary EXCEPT !["failed"] = @ + 1, !["blocked"] = @ + Cardinality(blocked)]
      BY <1>8 DEF SettleFailed, blocked
    <3> QED BY <2>1, <3>1, <3>2
  <2>4. reports' \in [Unit -> Seq({"Succeeded", "Failed", "Blocked", "Cancelled"})]
    BY <1>8 DEF SettleFailed
  <2>5. cancel' \in BOOLEAN /\ tokens' \subseteq Unit /\ aborting' \in BOOLEAN
    BY <1>8 DEF SettleFailed, AbortInFlight, InFlight, Queued, Running, Joinable
  <2> QED BY <1>8, <2>2, <2>3, <2>4, <2>5 DEF SettleFailed, Join
<1>9. ASSUME NEW u \in Unit, DropError(u) PROVE TypeOK'
  BY <1>9 DEF DropError, Join
<1>10. ASSUME NEW u \in Unit, HardError(u) PROVE TypeOK'
  BY <1>10 DEF HardError, Join, Fail, AbortInFlight, InFlight, Queued, Running, Joinable
<1>11. CASE SinkFails
  BY <1>11 DEF SinkFails, Fail
<1>12. CASE CancelUnscheduled
  <2>1. Cardinality(Pending) \in Nat
    BY CountIsNat DEF Pending, PendingUnits
  <2>2. summary' \in [Tally -> Nat]
    BY <1>12, <2>1 DEF CancelUnscheduled, Tally
  <2>3. reports' \in [Unit -> Seq({"Succeeded", "Failed", "Blocked", "Cancelled"})]
    BY <1>12 DEF CancelUnscheduled
  <2> QED BY <1>12, <2>2, <2>3 DEF CancelUnscheduled
<1>13. CASE PoolShutDown
  BY <1>13 DEF PoolShutDown
<1>14. ASSUME NEW u \in Unit, PoolStarts(u) \/ WorkerEnds(u) PROVE TypeOK'
  BY <1>14 DEF PoolStarts, WorkerEnds, Finished
<1>15. CASE ExternalCancel
  BY <1>15 DEF ExternalCancel
<1>16. CASE UNCHANGED vars
  BY <1>16 DEF vars
<1> HIDE DEF TypeOK
<1> QED BY <1>1, <1>2, <1>3, <1>4, <1>5, <1>6, <1>7, <1>8, <1>9, <1>10, <1>11, <1>12, <1>13, <1>14,
           <1>15, <1>16 DEF Next, Driver, Terminated

LEMMA TypeInit == Init => TypeOK
<1> SUFFICES ASSUME Init PROVE TypeOK
  OBVIOUS
<1>1. gate \in [Unit -> GateState]
  BY EngineAssumption DEF Init, NewGate, GateState
<1>2. reports \in [Unit -> Seq({"Succeeded", "Failed", "Blocked", "Cancelled"})]
  BY DEF Init
<1>3. summary \in [Tally -> Nat]
  BY DEF Init
<1> QED BY <1>1, <1>2, <1>3 DEF Init, TypeOK

\* Every variable of the engine keeps its type.
THEOREM TypeCorrect == Spec => []TypeOK
  BY TypeInit, TypeStep, PTL DEF Spec
-----------------------------------------------------------------------------
(* Fail-closed.  drive never looks at the dependencies of a unit it submits:  *)
(* that they are satisfied follows from the layering, from the gate below a   *)
(* failure being closed, and from no wave following one that left a unit      *)
(* Pending.                                                                   *)

\* What is or will be launched has all it depends on, and is still Pending
\* until it is joined.
ReadySound ==
  /\ \A u \in todo \cup Launched : \A d \in deps[u] : d \in Unit /\ gate[d] = "Satisfied"
  /\ \A u \in todo \cup InFlight : gate[u] = "Pending"

\* Nothing Pending lies below a failure, and only what was launched succeeds or fails.
GateClosed ==
  /\ \A u \in Unit : gate[u] = "Pending" =>
       \A d \in deps[u] \cap Unit : gate[d] \notin {"Failed", "Blocked"}
  /\ \A u \in Unit : gate[u] \in {"Satisfied", "Failed"} => u \in Launched

\* Unless the run was cancelled, the waves driven before have no unit left
\* Pending, and those of this wave are to be submitted or in flight.
WavesSettled ==
  /\ pc \in {"waves", "submit", "select"} /\ ~cancel => \A u \in layered : gate[u] # "Pending"
  /\ pc \in {"submit", "select"} /\ ~cancel =>
       \A u \in Layer : gate[u] = "Pending" => u \in todo \cup InFlight
  /\ pc = "level" => layered = {}
  /\ pc = "select" => todo = {}
  /\ aborting => cancel

\* Between waves and in the sweep nothing is in flight.
Drained ==
  /\ pc \in {"level", "waves", "sweep"} => InFlight = {}
  /\ result = "ok" => InFlight = {} /\ pc \in {"shutdown", "done"}

IInv == ReadySound /\ GateClosed /\ WavesSettled /\ Drained

\* What is in flight is not downstream of another unit in flight.
LEMMA FailureSpares ==
  ASSUME TypeOK, IInv, NEW u \in Unit, gate[u] = "Pending",
         NEW v \in todo \cup Launched
  PROVE  v \notin BlockedBy(deps, gate, u)
<1> SUFFICES ASSUME v \in BlockedBy(deps, gate, u) PROVE FALSE
  OBVIOUS
<1>1. PICK w \in BlockedBy(deps, gate, u) \cup {u} : v \in Dependents(deps, w)
  BY ReachedHasCause DEF BlockedBy
<1>2. w \in deps[v] /\ gate[w] = "Satisfied"
  BY <1>1 DEF Dependents, IInv, ReadySound
<1>3. gate[w] = "Pending"
  BY <1>1, BlockedWerePending DEF PendingUnits
<1> QED BY <1>2, <1>3

LEMMA InvInit == Init => IInv
<1> SUFFICES ASSUME Init PROVE IInv
  OBVIOUS
<1>1. InFlight = {} /\ Launched = {} /\ todo = {}
  BY DEF Init, InFlight, Queued, Running, Joinable, Finished, Launched
<1>2. \A u \in Unit : gate[u] = "Pending"
  BY EngineAssumption DEF Init, NewGate
<1> QED BY <1>1, <1>2 DEF Init, IInv, ReadySound, GateClosed, WavesSettled, Drained

\* A unit that is joined leaves InFlight; all else that was launched stays launched.
LEMMA JoinFacts ==
  ASSUME TypeOK, NEW u \in Unit, NEW outcomes \in SUBSET Finished, Join(u, outcomes)
  PROVE  /\ u \in InFlight /\ Launched' = Launched /\ InFlight' = InFlight \ {u}
         /\ u \in Launched /\ InFlight \subseteq Launched
         /\ UNCHANGED <<deps, config, layered, todo>> /\ pc = "select"
         /\ Layer' = Layer
<1>1. InFlight' = InFlight \ {u}
  BY DEF Join, InFlight, Queued, Running, Joinable, Finished, TypeOK
<1>2. Launched' = Launched /\ u \in Launched /\ u \in InFlight
  BY DEF Join, Launched, InFlight, Joinable, Finished, TypeOK
<1> QED BY <1>1, <1>2 DEF Join, Launched, InFlight, Queued, Running, Joinable, Finished, Layer

\* A failure settles u and what is Pending downstream of it, and nothing else.
LEMMA FailFacts ==
  ASSUME TypeOK, IInv, NEW u \in InFlight
  PROVE  LET after == FailAndBlock(deps, gate, u)
         IN  /\ after[u] = "Failed" /\ u \in Unit /\ gate[u] = "Pending"
             /\ \A v \in Unit : gate[v] # "Pending" => after[v] = gate[v]
             /\ \A v \in todo \cup Launched : v # u => after[v] = gate[v]
             /\ \A v \in Unit : after[v] = "Pending" =>
                  /\ gate[v] = "Pending"
                  /\ \A d \in deps[v] \cap Unit : after[d] \notin {"Failed", "Blocked"}
             /\ \A v \in Unit \ {u} : after[v] \in {gate[v], "Blocked"}
<1> DEFINE after == FailAndBlock(deps, gate, u)
<1>1. u \in Unit /\ gate[u] = "Pending" /\ u \in todo \cup Launched
  BY DEF InFlight, Queued, Running, Joinable, Finished, Launched, IInv, ReadySound
<1>2. \A v \in Unit : after[v] = IF v = u THEN "Failed"
                                 ELSE IF v \in BlockedBy(deps, gate, u) THEN "Blocked" ELSE gate[v]
  BY DEF FailAndBlock, TypeOK
<1>3. \A v \in Unit : v \in BlockedBy(deps, gate, u) => gate[v] = "Pending"
  BY BlockedWerePending DEF PendingUnits
<1>4. \A v \in todo \cup Launched : v \in Unit /\ v \notin BlockedBy(deps, gate, u)
  BY <1>1, FailureSpares DEF TypeOK, Launched
<1>5. ASSUME NEW v \in Unit, after[v] = "Pending"
      PROVE  /\ gate[v] = "Pending"
             /\ \A d \in deps[v] \cap Unit : after[d] \notin {"Failed", "Blocked"}
  <2>1. v \in PendingUnits(after)
    BY <1>5 DEF PendingUnits, FailAndBlock, TypeOK
  <2>2. /\ gate[v] = "Pending" /\ u \notin deps[v]
        /\ deps[v] \cap BlockedBy(deps, gate, u) = {}
    <3>1. DOMAIN deps = Unit /\ gate \in [Unit -> GateState]
      BY GraphFacts DEF TypeOK
    <3>2. /\ v \in PendingUnits(gate) \ {u} /\ u \notin deps[v]
          /\ deps[v] \cap BlockedBy(deps, gate, u) = {}
      BY <1>1, <2>1, <3>1, PendingClearOfFailure
    <3> QED BY <3>2 DEF PendingUnits
  <2> QED BY <1>2, <2>2 DEF IInv, GateClosed
<1> QED BY <1>1, <1>2, <1>3, <1>4, <1>5

LEMMA InvStep == TypeOK /\ IInv /\ [Next]_vars => IInv'
<1> SUFFICES ASSUME TypeOK, IInv, [Next]_vars PROVE IInv'
  OBVIOUS
<1> USE DEF IInv
<1>1. CASE Level
  <2>1. /\ InFlight' = InFlight /\ Launched' = Launched /\ UNCHANGED <<deps, gate, layered, todo, cancel, aborting>>
        /\ pc = "level"
        /\ \/ pc' = "waves" /\ UNCHANGED result
           \/ pc' = "done" /\ result' = "error"
    BY <1>1 DEF Level, Launched, InFlight, Queued, Running, Joinable
  <2> QED BY <2>1 DEF ReadySound, GateClosed, WavesSettled, Drained
<1>2. CASE StartWave
  <2>1. /\ todo' = Layer \cap Pending /\ InFlight = {} /\ InFlight' = {} /\ Launched' = Launched
        /\ UNCHANGED <<deps, gate, cancel, layered, aborting, result>> /\ pc = "waves" /\ pc' = "submit"
        /\ Layer' = Layer /\ ~cancel
    BY <1>2 DEF StartWave, NoMoreWaves, Drained, InFlight, Queued, Running, Joinable, Launched, Layer
  <2>2. ASSUME NEW u \in todo', NEW d \in deps[u]
        PROVE  u \in Unit /\ gate[u] = "Pending" /\ d \in Unit /\ gate[d] = "Satisfied"
    <3>1. u \in Unit /\ gate[u] = "Pending" /\ d \in layered
      BY <2>1, <2>2 DEF Layer, Pending, PendingUnits
    <3>2. d \in Unit /\ gate[d] # "Pending"
      BY <2>1, <3>1 DEF WavesSettled, TypeOK
    <3>3. gate[d] \notin {"Failed", "Blocked"}
      BY <2>2, <3>1, <3>2 DEF GateClosed
    <3> QED BY <3>1, <3>2, <3>3 DEF TypeOK, GateState
  <2>3. \A u \in todo' : u \in Unit /\ gate[u] = "Pending"
    BY <2>1 DEF Layer, Pending, PendingUnits
  <2>4. \A u \in Layer : gate[u] = "Pending" => u \in todo'
    BY <2>1 DEF Layer, Pending, PendingUnits, TypeOK
  <2> QED BY <2>1, <2>2, <2>3, <2>4 DEF ReadySound, GateClosed, WavesSettled, Drained
<1>3. ASSUME NEW u \in Unit, Submit(u) \/ SubmitUnreported(u) PROVE IInv'
  <2>1. /\ InFlight' = InFlight \cup {u} /\ Launched' = Launched \cup {u} /\ todo' = todo \ {u} /\ u \in todo
        /\ UNCHANGED <<deps, gate, cancel, layered, aborting>> /\ Layer' = Layer /\ pc = "submit"
        /\ pc' \in {"submit", "shutdown"} /\ (pc' = "submit" => result' = result)
        /\ (pc' = "shutdown" => result' = "error")
    BY <1>3 DEF Submit, SubmitUnreported, Fail, InFlight, Queued, Running, Joinable, Launched, Layer,
       TypeOK, Finished
  <2> QED BY <2>1 DEF ReadySound, GateClosed, WavesSettled, Drained
<1>4. CASE WaveSubmitted \/ EndWaves
  <2>1. /\ InFlight' = InFlight /\ Launched' = Launched /\ Layer' = Layer
        /\ UNCHANGED <<deps, gate, cancel, layered, aborting, todo, result>>
        /\ pc' \in {"select", "sweep"} /\ (pc' = "select" => todo = {} /\ pc = "submit")
        /\ (pc' = "sweep" => pc = "waves")
    BY <1>4 DEF WaveSubmitted, EndWaves, InFlight, Queued, Running, Joinable, Launched, Layer
  <2> QED BY <2>1 DEF ReadySound, GateClosed, WavesSettled, Drained
<1>5. CASE EndWave
  <2>1. /\ InFlight = {} /\ InFlight' = {} /\ Launched' = Launched /\ pc = "select" /\ pc' = "waves"
        /\ layered' = layered \cup Layer
        /\ UNCHANGED <<deps, gate, cancel, aborting, todo, result>>
    BY <1>5 DEF EndWave, InFlight, Queued, Running, Joinable, Launched
  <2> QED BY <2>1 DEF ReadySound, GateClosed, WavesSettled, Drained
<1>6. CASE ObserveCancel \/ ExternalCancel
  <2>1. /\ InFlight' = InFlight /\ Launched' = Launched /\ cancel'
        /\ UNCHANGED <<deps, gate, layered, todo, result, pc>>
    BY <1>6 DEF ObserveCancel, ExternalCancel, AbortInFlight, InFlight, Queued, Running, Joinable, Launched
  <2> QED BY <2>1 DEF ReadySound, GateClosed, WavesSettled, Drained
<1>7. ASSUME NEW u \in Unit, SettleSucceeded(u) PROVE IInv'
  <2>1. /\ u \in InFlight /\ Launched' = Launched /\ InFlight' = InFlight \ {u} /\ u \in Launched
        /\ InFlight \subseteq Launched
        /\ UNCHANGED <<deps, layered, todo>> /\ pc = "select" /\ Layer' = Layer
    BY <1>7, JoinFacts DEF SettleSucceeded, Finished
  <2>2. /\ gate' = [gate EXCEPT ![u] = "Satisfied"] /\ UNCHANGED <<pc, cancel, aborting, result>>
    BY <1>7 DEF SettleSucceeded, Satisfy
  <2>3. \A v \in Unit : gate'[v] = IF v = u THEN "Satisfied" ELSE gate[v]
    BY <2>2 DEF TypeOK
  <2>4. todo \cup Launched \subseteq Unit
    BY DEF TypeOK, Launched
  <2>5. todo = {}
    BY <2>1 DEF WavesSettled
  <2>6. ReadySound'
    BY <2>1, <2>2, <2>3, <2>4, <2>5 DEF ReadySound
  <2>7. GateClosed'
    BY <2>1, <2>3 DEF GateClosed
  <2>8. WavesSettled'
    <3>1. layered \subseteq Unit /\ Layer \subseteq Unit
      BY DEF TypeOK, Layer
    <3> QED BY <2>1, <2>2, <2>3, <3>1 DEF WavesSettled
  <2> QED BY <2>1, <2>2, <2>6, <2>7, <2>8 DEF Drained
<1>8. ASSUME NEW u \in Unit, SettleFailed(u) PROVE IInv'
  <2>1. /\ u \in InFlight /\ Launched' = Launched /\ InFlight' = InFlight \ {u} /\ u \in Launched
        /\ InFlight \subseteq Launched
        /\ UNCHANGED <<deps, layered, todo>> /\ pc = "select" /\ Layer' = Layer
    BY <1>8, JoinFacts DEF SettleFailed, Finished
  <2>2. /\ gate' = FailAndBlock(deps, gate, u) /\ UNCHANGED <<pc, result>>
        /\ (cancel => cancel') /\ (aborting' => aborting \/ cancel')
    BY <1>8 DEF SettleFailed, AbortInFlight
  <2>3. /\ gate'[u] = "Failed"
        /\ \A v \in Unit : gate[v] # "Pending" => gate'[v] = gate[v]
        /\ \A v \in todo \cup Launched : v # u => gate'[v] = gate[v]
        /\ \A v \in Unit : gate'[v] = "Pending" =>
             /\ gate[v] = "Pending"
             /\ \A d \in deps[v] \cap Unit : gate'[d] \notin {"Failed", "Blocked"}
        /\ \A v \in Unit \ {u} : gate'[v] \in {gate[v], "Blocked"}
    BY <2>1, <2>2, FailFacts
  <2>4. todo \cup Launched \subseteq Unit /\ layered \subseteq Unit /\ Layer \subseteq Unit
    BY DEF TypeOK, Launched, Layer
  <2>5. todo = {}
    BY <2>1 DEF WavesSettled
  <2>6. ReadySound'
    BY <2>1, <2>3, <2>4, <2>5 DEF ReadySound
  <2>7. GateClosed'
    BY <2>1, <2>3 DEF GateClosed
  <2>8. WavesSettled'
    BY <2>1, <2>2, <2>3, <2>4 DEF WavesSettled, TypeOK
  <2> QED BY <2>1, <2>2, <2>6, <2>7, <2>8 DEF Drained
<1>9. ASSUME NEW u \in Unit, DropError(u) \/ HardError(u) PROVE IInv'
  <2>1. /\ u \in InFlight /\ Launched' = Launched /\ InFlight' = InFlight \ {u} /\ u \in Launched
        /\ UNCHANGED <<deps, layered, todo>> /\ pc = "select" /\ Layer' = Layer
    BY <1>9, JoinFacts DEF DropError, HardError, Finished
  <2>2. /\ gate' = gate /\ cancel' /\ aborting' = aborting
        /\ \/ pc' = pc /\ result' = result
           \/ pc' = "shutdown" /\ result' = "error"
    BY <1>9 DEF DropError, HardError, AbortInFlight, Fail, WavesSettled
  <2> QED BY <2>1, <2>2 DEF ReadySound, GateClosed, WavesSettled, Drained
<1>10. CASE SinkFails
  <2>1. /\ InFlight' = InFlight /\ Launched' = Launched /\ pc' = "shutdown" /\ result' = "error"
        /\ UNCHANGED <<deps, gate, layered, todo, cancel, aborting>>
    BY <1>10 DEF SinkFails, Fail, InFlight, Queued, Running, Joinable, Launched
  <2> QED BY <2>1 DEF ReadySound, GateClosed, WavesSettled, Drained
<1>11. CASE CancelUnscheduled
  <2>1. /\ InFlight' = InFlight /\ Launched' = Launched /\ pc = "sweep" /\ pc' = "shutdown"
        /\ UNCHANGED <<deps, gate, layered, todo, cancel, aborting>>
    BY <1>11 DEF CancelUnscheduled, InFlight, Queued, Running, Joinable, Launched
  <2> QED BY <2>1 DEF ReadySound, GateClosed, WavesSettled, Drained
<1>12. CASE PoolShutDown
  <2>1. InFlight' = {}
    BY <1>12 DEF PoolShutDown, InFlight, Queued, Running, Joinable, TypeOK, Finished
  <2>2. Launched' = Launched
    BY <1>12 DEF PoolShutDown, Launched, Queued, Running, Joinable, Finished, TypeOK
  <2>3. pc' = "done" /\ UNCHANGED <<deps, gate, layered, todo, cancel, aborting, result>>
    BY <1>12 DEF PoolShutDown
  <2> QED BY <2>1, <2>2, <2>3 DEF ReadySound, GateClosed, WavesSettled, Drained
<1>13. ASSUME NEW u \in Unit, PoolStarts(u) \/ WorkerEnds(u) PROVE IInv'
  <2>1. InFlight' = InFlight /\ Launched' = Launched
    BY <1>13 DEF PoolStarts, WorkerEnds, Finished, InFlight, Queued, Running, Joinable, Launched, TypeOK
  <2>2. UNCHANGED <<deps, gate, layered, todo, cancel, aborting, result, pc>>
    BY <1>13 DEF PoolStarts, WorkerEnds
  <2> QED BY <2>1, <2>2 DEF ReadySound, GateClosed, WavesSettled, Drained, Layer
<1>14. CASE UNCHANGED vars
  BY <1>14 DEF vars, ReadySound, GateClosed, WavesSettled, Drained, InFlight, Queued, Running, Joinable,
     Launched, Layer
<1> HIDE DEF IInv
<1> QED BY <1>1, <1>2, <1>3, <1>4, <1>5, <1>6, <1>7, <1>8, <1>9, <1>10, <1>11, <1>12, <1>13, <1>14
        DEF Next, Driver, Terminated

LEMMA InvCorrect == Spec => [](TypeOK /\ IInv)
<1>1. Init => TypeOK /\ IInv
  BY TypeInit, InvInit
<1>2. TypeOK /\ IInv /\ [Next]_vars => (TypeOK /\ IInv)'
  BY TypeStep, InvStep
<1> QED BY <1>1, <1>2, PTL DEF Spec

\* A unit runs only after everything it depends on succeeded, although the
\* engine never looks at a unit's dependencies again once it has layered them.
THEOREM EngineFailClosed == Spec => []FailClosed
<1>1. IInv => FailClosed
  BY DEF IInv, ReadySound, FailClosed
<1> QED BY <1>1, InvCorrect, PTL
-----------------------------------------------------------------------------
(* Reports and counters.  Who was reported what is a function of the gate, and *)
(* the counters are the sizes of its classes; the sweep alone adds to it.      *)

Of(state) == {u \in Unit : gate[u] = state}

Reported(u) ==
  CASE gate[u] = "Satisfied" -> <<"Succeeded">>
    [] gate[u] = "Failed" -> <<"Failed">>
    [] gate[u] = "Blocked" -> <<"Blocked">>
    [] OTHER -> IF result = "ok" THEN <<"Cancelled">> ELSE <<>>

ReportsSound == \A u \in Unit : reports[u] = Reported(u)

CountersSound ==
  /\ summary["succeeded"] = Cardinality(Of("Satisfied"))
  /\ summary["failed"] = Cardinality(Of("Failed"))
  /\ summary["blocked"] = Cardinality(Of("Blocked"))
  /\ summary["cancelled"] = IF result = "ok" THEN Cardinality(Of("Pending")) ELSE 0

\* What neither settles a unit nor sweeps changes nothing of this.
LEMMA OtherStepsReportNothing ==
  ASSUME ReportsSound, CountersSound, UNCHANGED <<gate, reports, summary>>,
         (result' = "ok") = (result = "ok")
  PROVE  ReportsSound' /\ CountersSound'
<1>1. \A u \in Unit : Reported(u)' = Reported(u)
  BY DEF Reported
<1>2. \A state : Of(state)' = Of(state)
  BY DEF Of
<1> QED BY <1>1, <1>2 DEF ReportsSound, CountersSound

LEMMA ReportsInit == Init => ReportsSound /\ CountersSound
<1> SUFFICES ASSUME Init PROVE ReportsSound /\ CountersSound
  OBVIOUS
<1>1. \A u \in Unit : gate[u] = "Pending" /\ reports[u] = <<>>
  BY EngineAssumption DEF Init, NewGate
<1>2. Of("Satisfied") = {} /\ Of("Failed") = {} /\ Of("Blocked") = {}
  BY <1>1 DEF Of
<1>3. result = "none" /\ \A t \in Tally : summary[t] = 0
  BY DEF Init
<1> QED BY <1>1, <1>2, <1>3, FS_EmptySet DEF ReportsSound, CountersSound, Reported, Tally

\* A success moves one unit from one class to another.
LEMMA SuccessIsCounted ==
  ASSUME TypeOK, IInv, ReportsSound, CountersSound, NEW u \in Unit, SettleSucceeded(u)
  PROVE  ReportsSound' /\ CountersSound'
<1>1. /\ u \in InFlight /\ gate[u] = "Pending"
  BY JoinFacts DEF SettleSucceeded, Finished, IInv, ReadySound
<1>2. \A v \in Unit : gate'[v] = IF v = u THEN "Satisfied" ELSE gate[v]
  BY DEF SettleSucceeded, Satisfy, TypeOK
<1>3. result # "ok" /\ result' = result
  BY DEF SettleSucceeded, Join, IInv, Drained
<1>4. reports[u] = <<>>
  BY <1>1, <1>3 DEF ReportsSound, Reported
<1>5. \A v \in Unit : reports'[v] = IF v = u THEN <<"Succeeded">> ELSE reports[v]
  BY <1>4 DEF SettleSucceeded, TypeOK
<1>6. ReportsSound'
  BY <1>2, <1>3, <1>5 DEF ReportsSound, Reported
<1>7. /\ Of("Satisfied")' = Of("Satisfied") \cup {u} /\ u \notin Of("Satisfied")
      /\ Of("Failed")' = Of("Failed") /\ Of("Blocked")' = Of("Blocked")
  BY <1>1, <1>2 DEF Of
<1>8. Cardinality(Of("Satisfied")') = Cardinality(Of("Satisfied")) + 1
  <2>1. IsFiniteSet(Of("Satisfied"))
    BY CountIsNat DEF Of
  <2> QED BY <1>7, <2>1, FS_AddElement
<1>9. /\ summary'["succeeded"] = summary["succeeded"] + 1 /\ summary'["failed"] = summary["failed"]
      /\ summary'["blocked"] = summary["blocked"] /\ summary'["cancelled"] = summary["cancelled"]
  BY DEF SettleSucceeded, TypeOK, Tally
<1> QED BY <1>3, <1>6, <1>7, <1>8, <1>9 DEF CountersSound

\* A failure moves one unit to another class, and all it blocks to a third.
LEMMA FailureIsCounted ==
  ASSUME TypeOK, IInv, ReportsSound, CountersSound, NEW u \in Unit, SettleFailed(u)
  PROVE  ReportsSound' /\ CountersSound'
<1> DEFINE blocked == BlockedBy(deps, gate, u)
<1>1. /\ u \in InFlight /\ gate[u] = "Pending"
  BY JoinFacts DEF SettleFailed, Finished, IInv, ReadySound
<1>2. blocked \in SUBSET Unit /\ u \notin blocked /\ \A v \in blocked : gate[v] = "Pending"
  BY BlockedInGraph DEF Pending, PendingUnits
<1>3. \A v \in Unit : gate'[v] = IF v = u THEN "Failed" ELSE IF v \in blocked THEN "Blocked" ELSE gate[v]
  BY DEF SettleFailed, FailAndBlock, TypeOK
<1>4. result # "ok" /\ result' = result
  BY DEF SettleFailed, Join, IInv, Drained
<1>5. reports[u] = <<>> /\ \A v \in blocked : reports[v] = <<>>
  BY <1>1, <1>2, <1>4 DEF ReportsSound, Reported
<1>6. \A v \in Unit : reports'[v] = IF v = u THEN Append(reports[v], "Failed")
                                   ELSE IF v \in blocked THEN Append(reports[v], "Blocked")
                                   ELSE reports[v]
  BY DEF SettleFailed
<1>7. summary' = [summary EXCEPT !["failed"] = @ + 1, !["blocked"] = @ + Cardinality(blocked)]
  BY DEF SettleFailed
<1> HIDE DEF blocked
<1>8. \A v \in Unit : reports'[v] = IF v = u THEN <<"Failed">>
                                   ELSE IF v \in blocked THEN <<"Blocked">> ELSE reports[v]
  <2>1. Append(<<>>, "Failed") = <<"Failed">> /\ Append(<<>>, "Blocked") = <<"Blocked">>
    OBVIOUS
  <2> QED BY <1>5, <1>6, <2>1
<1>9. ReportsSound'
  BY <1>2, <1>3, <1>4, <1>8 DEF ReportsSound, Reported
<1>10. /\ Of("Satisfied")' = Of("Satisfied")
       /\ Of("Failed")' = Of("Failed") \cup {u} /\ u \notin Of("Failed")
       /\ Of("Blocked")' = Of("Blocked") \cup blocked /\ Of("Blocked") \cap blocked = {}
  BY <1>1, <1>2, <1>3 DEF Of
<1>11. IsFiniteSet(Of("Failed")) /\ IsFiniteSet(Of("Blocked")) /\ IsFiniteSet(blocked)
  BY <1>2, CountIsNat DEF Of
<1>12. Cardinality(Of("Failed")') = Cardinality(Of("Failed")) + 1
  BY <1>10, <1>11, FS_AddElement
<1>13. Cardinality(Of("Blocked")') = Cardinality(Of("Blocked")) + Cardinality(blocked)
  <2>1. Cardinality(Of("Blocked") \cup blocked)
          = Cardinality(Of("Blocked")) + Cardinality(blocked) - Cardinality(Of("Blocked") \cap blocked)
    BY <1>11, FS_Union
  <2>2. Cardinality(Of("Blocked")) \in Nat /\ Cardinality(blocked) \in Nat
    BY <1>11, FS_CardinalityType
  <2>3. Cardinality(Of("Blocked") \cap blocked) = 0
    BY <1>10, FS_EmptySet
  <2>4. Cardinality(Of("Blocked") \cup blocked) = Cardinality(Of("Blocked")) + Cardinality(blocked)
    BY <2>1, <2>2, <2>3
  <2> QED BY <1>10, <2>4
<1>14. /\ summary'["failed"] = summary["failed"] + 1
       /\ summary'["blocked"] = summary["blocked"] + Cardinality(blocked)
       /\ summary'["succeeded"] = summary["succeeded"] /\ summary'["cancelled"] = summary["cancelled"]
  BY <1>7 DEF TypeOK, Tally
<1> QED BY <1>4, <1>9, <1>10, <1>12, <1>13, <1>14 DEF CountersSound

LEMMA SweepIsCounted ==
  ASSUME TypeOK, IInv, ReportsSound, CountersSound, CancelUnscheduled
  PROVE  ReportsSound' /\ CountersSound'
<1>1. result # "ok" /\ result' = "ok" /\ gate' = gate
  BY DEF CancelUnscheduled, IInv, Drained
<1>2. Pending = Of("Pending")
  BY DEF Pending, PendingUnits, Of, TypeOK
<1>3. \A u \in Unit : reports'[u] = IF u \in Pending THEN Append(reports[u], "Cancelled") ELSE reports[u]
  BY DEF CancelUnscheduled
<1>4. \A u \in Of("Pending") : reports[u] = <<>>
  BY <1>1 DEF ReportsSound, Reported, Of
<1>5. \A u \in Unit : reports'[u] = IF u \in Of("Pending") THEN <<"Cancelled">> ELSE reports[u]
  <2>1. Append(<<>>, "Cancelled") = <<"Cancelled">>
    OBVIOUS
  <2> QED BY <1>2, <1>3, <1>4, <2>1
<1>6. ReportsSound'
  BY <1>1, <1>5 DEF ReportsSound, Reported, Of, TypeOK, GateState
<1>7. /\ summary' = [summary EXCEPT !["cancelled"] = @ + Cardinality(Pending)]
  BY DEF CancelUnscheduled
<1>8. Cardinality(Of("Pending")) \in Nat
  BY CountIsNat DEF Of
<1>9. /\ summary'["cancelled"] = Cardinality(Of("Pending"))
      /\ summary'["failed"] = summary["failed"] /\ summary'["blocked"] = summary["blocked"]
      /\ summary'["succeeded"] = summary["succeeded"]
  BY <1>1, <1>2, <1>7, <1>8 DEF CountersSound, TypeOK, Tally
<1>10. \A state : Of(state)' = Of(state)
  BY <1>1 DEF Of
<1> QED BY <1>1, <1>6, <1>9, <1>10 DEF CountersSound

LEMMA ReportsStep ==
  ASSUME TypeOK, IInv, ReportsSound, CountersSound, [Next]_vars
  PROVE  ReportsSound' /\ CountersSound'
<1> DEFINE Silent == UNCHANGED <<gate, reports, summary>> /\ (result' = "ok") = (result = "ok")
<1>1. CASE Level \/ StartWave \/ WaveSubmitted \/ EndWaves \/ EndWave \/ ObserveCancel \/ ExternalCancel
  <2>1. Silent
    BY <1>1 DEF Level, StartWave, WaveSubmitted, EndWaves, EndWave, ObserveCancel, ExternalCancel, IInv,
       Drained
  <2> QED BY <2>1, OtherStepsReportNothing
<1>2. ASSUME NEW u \in Unit, Submit(u) \/ SubmitUnreported(u) \/ DropError(u) \/ HardError(u)
                             \/ PoolStarts(u) \/ WorkerEnds(u)
      PROVE  ReportsSound' /\ CountersSound'
  <2>1. Silent
    BY <1>2 DEF Submit, SubmitUnreported, DropError, HardError, Join, Fail, PoolStarts, WorkerEnds, IInv,
       Drained
  <2> QED BY <2>1, OtherStepsReportNothing
<1>3. CASE SinkFails \/ PoolShutDown \/ UNCHANGED vars
  <2>1. Silent
    BY <1>3 DEF SinkFails, Fail, PoolShutDown, vars, IInv, Drained
  <2> QED BY <2>1, OtherStepsReportNothing
<1> HIDE DEF Silent
<1> QED BY <1>1, <1>2, <1>3, SuccessIsCounted, FailureIsCounted, SweepIsCounted
        DEF Next, Driver, Terminated

\* A summary accounts for every unit: one report each, counters that equal the
\* number of reports of their kind, and nothing reported Cancelled still runs.
THEOREM EngineReportsAll == Spec => []EveryUnitReported
<1> DEFINE Inv == TypeOK /\ IInv /\ ReportsSound /\ CountersSound
<1>1. Init => Inv
  BY TypeInit, InvInit, ReportsInit
<1>2. Inv /\ [Next]_vars => Inv'
  BY TypeStep, InvStep, ReportsStep
<1>3. Inv => EveryUnitReported
  <2> SUFFICES ASSUME Inv PROVE EveryUnitReported
    OBVIOUS
  <2>1. ASSUME NEW u \in Unit
        PROVE  /\ Len(reports[u]) \leq 1
               /\ reports[u] = <<"Cancelled">> => u \notin Queued \cup Running
               /\ result = "ok" => Len(reports[u]) = 1
    <3>1. reports[u] \in {<<"Succeeded">>, <<"Failed">>, <<"Blocked">>, <<"Cancelled">>, <<>>}
          /\ (reports[u] \in {<<"Cancelled">>, <<>>} => (reports[u] = <<"Cancelled">>) = (result = "ok"))
      BY DEF ReportsSound, Reported
    <3>2. result = "ok" => u \notin Queued \cup Running
      BY DEF IInv, Drained, InFlight
    <3>3. /\ Len(<<>>) = 0 /\ \A x : Len(<<x>>) = 1
          /\ \A x \in {"Succeeded", "Failed", "Blocked"} : <<x>> # <<"Cancelled">>
      OBVIOUS
    <3>4. reports[u] \in {<<>>, <<"Cancelled">>} \/ \E x \in {"Succeeded", "Failed", "Blocked"} : reports[u] = <<x>>
      BY <3>1
    <3>5. CASE reports[u] = <<>>
      BY <3>1, <3>3, <3>5
    <3>6. CASE reports[u] = <<"Cancelled">>
      BY <3>1, <3>2, <3>3, <3>6
    <3>7. ASSUME NEW x \in {"Succeeded", "Failed", "Blocked"}, reports[u] = <<x>>
          PROVE  Len(reports[u]) = 1 /\ Len(reports[u]) \leq 1 /\ reports[u] # <<"Cancelled">>
      BY <3>3, <3>7
    <3> QED BY <3>4, <3>5, <3>6, <3>7, Zenon
  <2>2. ASSUME result = "ok"
        PROVE  /\ Of("Satisfied") = {u \in Unit : reports[u][1] = "Succeeded"}
               /\ Of("Failed") = {u \in Unit : reports[u][1] = "Failed"}
               /\ Of("Blocked") = {u \in Unit : reports[u][1] = "Blocked"}
               /\ Of("Pending") = {u \in Unit : reports[u][1] = "Cancelled"}
    <3>1. \A u \in Unit : reports[u][1] = CASE gate[u] = "Satisfied" -> "Succeeded"
                                            [] gate[u] = "Failed" -> "Failed"
                                            [] gate[u] = "Blocked" -> "Blocked" [] OTHER -> "Cancelled"
      BY <2>2 DEF ReportsSound, Reported
    <3>2. \A u \in Unit : gate[u] \in GateState
      BY DEF TypeOK
    <3> QED BY <3>1, <3>2 DEF Of, GateState
  <2> QED BY <2>1, <2>2 DEF EveryUnitReported, CountersSound, Tally
<1> QED BY <1>1, <1>2, <1>3, PTL DEF Spec
-----------------------------------------------------------------------------
(* The engine implements the abstract schedule (UnitSchedule): its steps      *)
(* start, end or block units as the schedule allows, or are invisible in it.  *)

phases == [u \in Unit |-> PhaseOf(u)]

\* The operators UnitSchedule takes from Gate are Gate's.
LEMMA SameDependents ==
  ASSUME NEW u
  PROVE  Schedule!TransitiveDependents(deps, u) = TransitiveDependents(deps, u)
  BY DEF Schedule!TransitiveDependents, Schedule!ReachedWithin, Schedule!ClosedFrom, Schedule!Dependents,
     TransitiveDependents, ReachedWithin, ClosedFrom, Dependents

\* All that is downstream of a unit in flight waits or is blocked already, and
\* what the gate blocks is what was still Pending of it.
LEMMA DownstreamOf ==
  ASSUME TypeOK, IInv, NEW u \in InFlight
  PROVE  /\ TransitiveDependents(deps, u) \subseteq Unit \ Launched
         /\ \A v \in TransitiveDependents(deps, u) : gate[v] \in {"Pending", "Blocked"}
         /\ \A v \in Unit : v \in BlockedBy(deps, gate, u)
                              <=> v \in TransitiveDependents(deps, u) /\ gate[v] = "Pending"
<1> DEFINE down == TransitiveDependents(deps, u)
           rest == {v \in Unit \ Launched : gate[v] \in {"Pending", "Blocked"}}
           blocked == BlockedBy(deps, gate, u)
           within == PendingUnits(gate) \ {u}
           upto == {v \in Unit : v \in blocked \/ gate[v] = "Blocked"}
<1>1. /\ u \in Unit /\ gate[u] = "Pending" /\ u \in Launched /\ DOMAIN deps = Unit
      /\ \A v \in Unit : v \in PendingUnits(gate) <=> gate[v] = "Pending"
      /\ PendingUnits(gate) \subseteq Unit
      /\ \A v \in Unit : gate[v] \in {"Pending", "Blocked", "Satisfied", "Failed"}
  BY GraphFacts DEF InFlight, Queued, Running, Joinable, Launched, Finished, IInv, ReadySound,
     PendingUnits, TypeOK, GateState
<1>2. ASSUME NEW v \in Unit, NEW w \in deps[v], gate[w] # "Satisfied"
      PROVE  v \in rest
  BY <1>1, <1>2 DEF IInv, ReadySound, GateClosed
<1>3. ClosedFrom(deps, u, Unit, rest)
  BY <1>1, <1>2 DEF ClosedFrom, Dependents
<1>4. down \subseteq rest
  BY <1>1, <1>3, ReachedLeast DEF TransitiveDependents
<1>5. ClosedFrom(deps, u, within, blocked) /\ blocked \subseteq within
  BY ReachedClosed, ReachedSubset DEF BlockedBy
<1>6. ClosedFrom(deps, u, Unit, upto)
  <2> SUFFICES ASSUME NEW w \in upto \cup {u}, NEW v \in Unit, w \in deps[v] PROVE v \in upto
    BY <1>1 DEF ClosedFrom, Dependents
  <2>1. w \in Unit /\ gate[w] \in {"Pending", "Blocked"}
    BY <1>1, <1>5
  <2>2. v \in rest /\ v # u
    BY <1>1, <1>2, <2>1
  <2>3. CASE gate[v] = "Pending"
    <3>1. gate[w] # "Blocked"
      BY <2>1, <2>3 DEF IInv, GateClosed
    <3>2. w \in blocked \cup {u} /\ v \in within
      BY <1>1, <2>2, <2>3, <3>1
    <3> QED BY <1>1, <1>5, <3>2 DEF ClosedFrom, Dependents
  <2> QED BY <2>2, <2>3
<1>7. down \subseteq upto
  BY <1>1, <1>6, ReachedLeast DEF TransitiveDependents
<1>8. ClosedFrom(deps, u, within, down \cap within)
  <2>1. ClosedFrom(deps, u, Unit, down)
    BY <1>1, ReachedClosed DEF TransitiveDependents
  <2> QED BY <1>1, <2>1 DEF ClosedFrom
<1>9. blocked \subseteq down
  BY <1>8, ReachedLeast DEF BlockedBy
<1> HIDE DEF down, blocked
<1>10. \A v \in Unit : v \in blocked <=> v \in down /\ gate[v] = "Pending"
  BY <1>1, <1>5, <1>7, <1>9
<1> QED BY <1>4, <1>10 DEF down, blocked

\* A step that changes no gate, no result and only how a launched unit fares is
\* a stutter of the schedule.
LEMMA Invisible ==
  ASSUME UNCHANGED <<deps, gate>>, Launched' = Launched, (result' = "ok") = (result = "ok")
  PROVE  UNCHANGED <<deps, phases>>
<1>1. \A u \in Unit : (worker'[u] = "idle") = (worker[u] = "idle")
  BY DEF Launched
<1>2. \A u \in Unit : PhaseOf(u)' = PhaseOf(u)
  BY <1>1 DEF PhaseOf
<1> QED BY <1>2 DEF phases

LEMMA SubmitStarts ==
  ASSUME TypeOK, IInv, NEW u \in Unit, Submit(u) \/ SubmitUnreported(u)
  PROVE  Schedule!Start(u) \/ UNCHANGED <<deps, phases>>
<1>1. /\ u \in todo /\ result # "ok" /\ result' # "ok" /\ UNCHANGED <<deps, gate>>
      /\ worker' = [worker EXCEPT ![u] = "queued"]
  BY DEF Submit, SubmitUnreported, Fail, IInv, Drained
<1>2. gate[u] = "Pending" /\ \A d \in deps[u] : d \in Unit /\ gate[d] = "Satisfied"
  BY <1>1 DEF IInv, ReadySound
<1>3. \A v \in Unit : PhaseOf(v)' = IF v = u THEN "active" ELSE PhaseOf(v)
  BY <1>1, <1>2 DEF PhaseOf, TypeOK
<1>4. phases' = [phases EXCEPT ![u] = "active"]
  BY <1>3 DEF phases
<1>5. \A d \in deps[u] : d \in Schedule!Succeeded
  BY <1>2 DEF Schedule!Succeeded, PhaseOf
<1>6. CASE worker[u] = "idle"
  <2>1. phases[u] = "waiting"
    BY <1>1, <1>2, <1>6 DEF phases, PhaseOf
  <2> QED BY <1>1, <1>4, <1>5, <2>1 DEF Schedule!Start, Schedule!Ready, phases
<1>7. CASE worker[u] # "idle"
  <2>1. PhaseOf(u) = "active"
    BY <1>1, <1>2, <1>7 DEF PhaseOf
  <2>2. \A v \in Unit : PhaseOf(v)' = PhaseOf(v)
    BY <1>3, <2>1
  <2> QED BY <1>1, <2>2 DEF phases
<1> QED BY <1>6, <1>7

LEMMA SuccessSucceeds ==
  ASSUME TypeOK, IInv, NEW u \in Unit, SettleSucceeded(u)
  PROVE  Schedule!Succeed(u)
<1>1. /\ u \in InFlight /\ u \in Launched /\ Launched' = Launched /\ deps' = deps
      /\ gate[u] = "Pending" /\ result # "ok" /\ result' = result
  BY JoinFacts DEF SettleSucceeded, Finished, Join, IInv, ReadySound, Drained
<1>2. \A v \in Unit : gate'[v] = IF v = u THEN "Satisfied" ELSE gate[v]
  BY DEF SettleSucceeded, Satisfy, TypeOK
<1>3. \A v \in Unit : (worker'[v] = "idle") = (worker[v] = "idle")
  BY <1>1 DEF Launched
<1>4. \A v \in Unit : PhaseOf(v)' = IF v = u THEN "succeeded" ELSE PhaseOf(v)
  BY <1>1, <1>2, <1>3 DEF PhaseOf
<1>5. phases' = [phases EXCEPT ![u] = "succeeded"] /\ phases[u] = "active"
  BY <1>1, <1>4 DEF phases, PhaseOf, Launched
<1> QED BY <1>1, <1>5 DEF Schedule!Succeed, phases

LEMMA FailureFails ==
  ASSUME TypeOK, IInv, NEW u \in Unit, SettleFailed(u)
  PROVE  Schedule!Fail(u)
<1> DEFINE down == TransitiveDependents(deps, u)
           blocked == BlockedBy(deps, gate, u)
<1>1. /\ u \in InFlight /\ u \in Launched /\ Launched' = Launched /\ deps' = deps
      /\ gate[u] = "Pending" /\ result # "ok" /\ result' = result
  BY JoinFacts DEF SettleFailed, Finished, Join, IInv, ReadySound, Drained
<1>2. \A v \in Unit : gate'[v] = IF v = u THEN "Failed" ELSE IF v \in blocked THEN "Blocked" ELSE gate[v]
  BY DEF SettleFailed, FailAndBlock, TypeOK
<1>3. /\ down \subseteq Unit \ Launched /\ \A v \in down : gate[v] \in {"Pending", "Blocked"}
      /\ \A v \in Unit : v \in blocked <=> v \in down /\ gate[v] = "Pending"
  BY <1>1, DownstreamOf
<1> HIDE DEF down, blocked
<1>4. \A v \in Unit : (worker'[v] = "idle") = (worker[v] = "idle")
  BY <1>1 DEF Launched
<1>5. \A v \in Unit : PhaseOf(v)' = IF v = u THEN "failed" ELSE IF v \in down THEN "blocked" ELSE PhaseOf(v)
  BY <1>1, <1>2, <1>3, <1>4 DEF PhaseOf
<1>6. \A v \in down : phases[v] \in {"waiting", "blocked"}
  BY <1>1, <1>3 DEF phases, PhaseOf, Launched
<1>7. phases[u] = "active"
  BY <1>1 DEF phases, PhaseOf, Launched
<1>8. phases' = [v \in Unit |-> IF v = u THEN "failed" ELSE IF v \in down THEN "blocked" ELSE phases[v]]
  BY <1>5 DEF phases
<1> QED BY <1>1, <1>6, <1>7, <1>8, SameDependents DEF Schedule!Fail, phases, down

LEMMA SweepStops ==
  ASSUME TypeOK, IInv, CancelUnscheduled
  PROVE  Schedule!StopAll
<1>1. result # "ok" /\ result' = "ok" /\ UNCHANGED <<deps, gate, worker>>
  BY DEF CancelUnscheduled, IInv, Drained
<1>2. \A v \in Unit : PhaseOf(v)' = IF PhaseOf(v) \in {"waiting", "active"} THEN "stopped" ELSE PhaseOf(v)
  BY <1>1 DEF PhaseOf
<1>3. phases' = [v \in Unit |-> IF phases[v] \in {"waiting", "active"} THEN "stopped" ELSE phases[v]]
  BY <1>2 DEF phases
<1> QED BY <1>1, <1>3 DEF Schedule!StopAll, phases

LEMMA StepSimulates ==
  ASSUME TypeOK, IInv, [Next]_vars
  PROVE  [Schedule!Next]_(Schedule!vars)
<1> DEFINE Hidden == /\ UNCHANGED <<deps, gate>> /\ Launched' = Launched
                     /\ (result' = "ok") = (result = "ok")
<1>1. CASE Level \/ StartWave \/ WaveSubmitted \/ EndWaves \/ EndWave \/ ObserveCancel \/ ExternalCancel
  <2>1. Hidden
    BY <1>1 DEF Level, StartWave, WaveSubmitted, EndWaves, EndWave, ObserveCancel, ExternalCancel, IInv,
       Drained, Launched
  <2> QED BY <2>1, Invisible DEF Schedule!vars, phases
<1>2. ASSUME NEW u \in Unit, DropError(u) \/ HardError(u) \/ PoolStarts(u) \/ WorkerEnds(u)
      PROVE  [Schedule!Next]_(Schedule!vars)
  <2>1. UNCHANGED <<deps, gate>> /\ (result' = "ok") = (result = "ok")
    BY <1>2 DEF DropError, HardError, Join, Fail, PoolStarts, WorkerEnds, IInv, Drained
  <2>2. Launched' = Launched
    BY <1>2 DEF DropError, HardError, Join, PoolStarts, WorkerEnds, Launched, Queued, Running, Finished,
       TypeOK
  <2> QED BY <2>1, <2>2, Invisible DEF Schedule!vars, phases
<1>3. CASE SinkFails \/ PoolShutDown \/ UNCHANGED vars
  <2>1. UNCHANGED <<deps, gate>> /\ (result' = "ok") = (result = "ok")
    BY <1>3 DEF SinkFails, Fail, PoolShutDown, vars, IInv, Drained
  <2>2. Launched' = Launched
    BY <1>3 DEF SinkFails, PoolShutDown, vars, Launched, Queued, Running, Joinable, Finished, TypeOK
  <2> QED BY <2>1, <2>2, Invisible DEF Schedule!vars, phases
<1>4. ASSUME NEW u \in Unit, Submit(u) \/ SubmitUnreported(u)
      PROVE  [Schedule!Next]_(Schedule!vars)
  BY <1>4, SubmitStarts DEF Schedule!Next, Schedule!vars, phases
<1>5. ASSUME NEW u \in Unit, SettleSucceeded(u) \/ SettleFailed(u)
      PROVE  [Schedule!Next]_(Schedule!vars)
  BY <1>5, SuccessSucceeds, FailureFails DEF Schedule!Next
<1>6. CASE CancelUnscheduled
  BY <1>6, SweepStops DEF Schedule!Next
<1> HIDE DEF Hidden
<1> QED BY <1>1, <1>2, <1>3, <1>4, <1>5, <1>6 DEF Next, Driver, Terminated

\* Seen through the phases of its units, every run of the engine is a run of the
\* schedule that the APPLY walk implements too.
THEOREM EngineImplementsSchedule == Spec => ImplementsSchedule
<1>1. Init => Schedule!Init
  <2> SUFFICES ASSUME Init PROVE Schedule!Init
    OBVIOUS
  <2>1. \A u \in Unit : PhaseOf(u) = "waiting"
    BY EngineAssumption DEF Init, NewGate, PhaseOf
  <2> QED BY <2>1, EngineAssumption DEF Init, Schedule!Init
<1> QED BY <1>1, InvCorrect, StepSimulates, PTL DEF Spec, ImplementsSchedule, Schedule!Spec
=============================================================================
