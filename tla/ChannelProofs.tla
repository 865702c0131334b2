----------------------------- MODULE ChannelProofs -----------------------------
(***************************************************************************)
(* The two channels of a run.  The live-output bridge delivers everything  *)
(* before a unit's end is reported, for any number of units, any capacity  *)
(* and any amount of output.  The driver connection is well-typed, gives   *)
(* every call its own answer, and tells a driver it killed from one that   *)
(* failed, for any number of round trips, any sizes of requests and any    *)
(* behaviour of the driver.                                                *)
(***************************************************************************)
EXTENDS LiveBridge, DriverRpc, TLAPS

(***************************************************************************)
(* The live-output bridge.                                                 *)
(***************************************************************************)

RunPhase == {"select", "drain", "settle", "down", "downTail", "waveEnd"}
ExitPhase == {"held", "heldTail", "pool", "poolTail"}

\* No error while the waves run; a summary only at the end.
PhaseSound == /\ pc \in RunPhase => result = "none"
              /\ result = "ok" => pc = "done"

\* Only a worker that reported ready left a process behind, and while the walk
\* goes on nobody stopped it.
ReadySound == \A u \in Unit :
  /\ child[u] # "none" => worker[u] \in {"ready", "joined"}
  /\ worker[u] = "ready" /\ result = "none" => child[u] = "up"

\* A held service was joined and is up until the exit path stops it.
HeldSound == \A h \in held :
  /\ worker[h] = "joined"
  /\ pc \in RunPhase => child[h] = "up"
  /\ pc \in {"heldTail", "pool", "poolTail"} => child[h] = "stopped"

\* A joined service that still writes is held, or being torn down right now.
WriterKnown == \A u \in Unit :
  worker[u] = "joined" /\ child[u] \in {"up", "stopping"} =>
    u \in held \/ (pc = "down" /\ u \in current.unit)

\* The unit whose end is about to be reported writes no more.
CurrentQuiet ==
  /\ pc = "drain" => \A u \in current.unit : worker[u] = "joined" /\ child[u] = "none"
  /\ pc = "down" => \A u \in current.unit : worker[u] = "joined" /\ u \notin held
  /\ pc = "downTail" => \A u \in current.unit : worker[u] = "joined" /\ child[u] = "stopped"

\* Waves that ended without an error left no worker unjoined.
AllJoined == pc \in {"waveEnd"} \cup ExitPhase /\ result = "none" =>
               \A u \in Unit : worker[u] = "joined"

\* A lost chunk is remembered until the run is known to have failed.
LossKnown == lost => result = "error" \/ (sinkError /\ pc \in Waits \cup Tails)

IInv == /\ TypeOK /\ NothingAfterVerdict /\ Lossless
        /\ PhaseSound /\ ReadySound /\ HeldSound /\ WriterKnown /\ CurrentQuiet /\ AllJoined
        /\ LossKnown
-----------------------------------------------------------------------------
(* The bridge as a sequence. *)

\* Taking the oldest chunk adds none.
LEMMA TailKeeps ==
  ASSUME bridge \in Seq(Unit), bridge # <<>>, bridge' = Tail(bridge), NEW u
  PROVE  /\ bridge' \in Seq(Unit) /\ Len(bridge') = Len(bridge) - 1
         /\ InBridge(u)' => InBridge(u)
<1>1. bridge' \in Seq(Unit) /\ Len(bridge') = Len(bridge) - 1 /\ Len(bridge) \in Nat
      /\ \A i \in 1..Len(bridge') : bridge'[i] = bridge[i + 1]
  OBVIOUS
<1>2. ASSUME InBridge(u)' PROVE InBridge(u)
  <2>1. PICK i \in 1..Len(bridge') : bridge'[i] = u
    BY <1>2 DEF InBridge
  <2>2. i + 1 \in 1..Len(bridge) /\ bridge[i + 1] = u
    BY <1>1, <2>1
  <2> QED BY <2>2 DEF InBridge
<1> QED BY <1>1, <1>2

\* A chunk handed over is the only new one.
LEMMA AppendAdds ==
  ASSUME bridge \in Seq(Unit), NEW v \in Unit, bridge' = Append(bridge, v), NEW u
  PROVE  /\ bridge' \in Seq(Unit) /\ Len(bridge') = Len(bridge) + 1
         /\ InBridge(u)' => InBridge(u) \/ u = v
<1>1. bridge' \in Seq(Unit) /\ Len(bridge') = Len(bridge) + 1 /\ Len(bridge) \in Nat
  OBVIOUS
<1>2. bridge'[Len(bridge) + 1] = v /\ \A i \in 1..Len(bridge) : bridge'[i] = bridge[i]
  OBVIOUS
<1>3. \A i \in 1..Len(bridge') : i = Len(bridge) + 1 \/ i \in 1..Len(bridge)
  BY <1>1
<1> QED BY <1>1, <1>2, <1>3 DEF InBridge

\* An empty bridge holds no chunk.
LEMMA EmptyHolds == ASSUME bridge = <<>>, NEW u PROVE ~InBridge(u)
  BY DEF InBridge
-----------------------------------------------------------------------------
(* Types. *)

\* No unit is being handled: a value of current's type.
LEMMA NoneType == None \in [unit : SUBSET Unit, outcome : {"none"} \cup Outcome]
  BY DEF None

\* Every step keeps the types.
LEMMA TypeStep == TypeOK /\ [Next]_vars => TypeOK'
<1> SUFFICES ASSUME TypeOK, [Next]_vars PROVE TypeOK'
  OBVIOUS
<1> USE BridgeAssumption DEF TypeOK, Outcome, Waits, Tails
<1>1. CASE Receive
  <2>1. PICK ok \in BOOLEAN : Push(ok) /\ IF ok THEN UNCHANGED <<pc, current, sinkError, result>>
                                          ELSE ToTeardown /\ result' = "error"
    BY <1>1 DEF Receive
  <2>2. bridge' \in Seq(Unit) /\ Len(bridge') <= Capacity /\ lost' \in BOOLEAN
    BY <2>1, TailKeeps DEF Push
  <2>3. current' \in [unit : SUBSET Unit, outcome : {"none"} \cup Outcome]
    BY <2>1, NoneType DEF ToTeardown
  <2> QED BY <1>1, <2>1, <2>2, <2>3 DEF Receive, ToTeardown, children, tokens
<1>2. CASE ReceiveWaiting
  BY <1>2, TailKeeps DEF ReceiveWaiting, Push, Waits, Tails, children, tokens
<1>3. CASE ObserveInterrupt
  BY <1>3 DEF ObserveInterrupt, TripPool, InFlight, children, tokens
<1>4. CASE Drained
  BY <1>4, NoneType DEF Drained, children, tokens
<1>5. CASE Settled
  BY <1>5, NoneType DEF Settled, ToTeardown, TripPool, InFlight, children, tokens
<1>6. CASE EndWave
  BY <1>6 DEF EndWave, InFlight, children, tokens
<1>7. CASE EndWaves
  BY <1>7, NoneType DEF EndWaves, ToTeardown, children, tokens
<1>8. CASE WorkDone
  BY <1>8 DEF WorkDone, Waits, Tails, children, tokens
<1>9. ASSUME NEW u \in Unit, JoinEnded(u) PROVE TypeOK'
  BY <1>9 DEF JoinEnded, Join, children, tokens
<1>10. ASSUME NEW u \in Unit, JoinCancelled(u) PROVE TypeOK'
  BY <1>10 DEF JoinCancelled, children, tokens
<1>11. ASSUME NEW u \in Unit, JoinReady(u) PROVE TypeOK'
  BY <1>11 DEF JoinReady, Join, children, tokens
<1>12. ASSUME NEW u \in Unit, JoinNotReady(u) PROVE TypeOK'
  BY <1>12 DEF JoinNotReady, Join, children, tokens
<1>13. ASSUME NEW u \in Unit, Release(u) PROVE TypeOK'
  BY <1>13 DEF Release, children, tokens
<1>14. ASSUME NEW u \in Unit, Emit(u), pc # "done" PROVE TypeOK'
  BY <1>14, AppendAdds DEF Emit, children, tokens
<1>15. ASSUME NEW u \in Unit, Kill(u), pc # "done" PROVE TypeOK'
  BY <1>15 DEF Kill, children, tokens
<1>16. ASSUME NEW u \in Unit, ServiceEnds(u), pc # "done" PROVE TypeOK'
  BY <1>16 DEF ServiceEnds, children, tokens
<1>17. ASSUME NEW u \in Unit, StopNext(u), pc # "done" PROVE TypeOK'
  BY <1>17 DEF StopNext, children, tokens
<1>18. ASSUME NEW u \in Unit, WorkerEnds(u), pc # "done" PROVE TypeOK'
  BY <1>18 DEF WorkerEnds, Ends, Stopped, children, tokens
<1>19. ASSUME NEW u \in Unit, ServiceReady(u), pc # "done" PROVE TypeOK'
  BY <1>19 DEF ServiceReady, children, tokens
<1>20. ASSUME NEW u \in Unit, DropUnjoined(u), pc # "done" PROVE TypeOK'
  BY <1>20 DEF DropUnjoined, children, tokens
<1>21. ASSUME NEW f \in BOOLEAN, TornDown(f) PROVE TypeOK'
  <2>1. CASE Failed(f)
    <3>1. current' \in [unit : SUBSET Unit, outcome : {"none"} \cup Outcome]
      BY <1>21, <2>1, NoneType DEF TornDown, ToTeardown
    <3> QED BY <1>21, <2>1, <3>1 DEF TornDown, ToTeardown, FirstError, children, tokens
  <2>2. CASE ~Failed(f)
    BY <1>21, <2>2 DEF TornDown, FirstError, children, tokens
  <2> QED BY <2>1, <2>2
<1>22. ASSUME NEW f \in BOOLEAN, HeldStopped(f) PROVE TypeOK'
  BY <1>22 DEF HeldStopped, FirstError, Failed, children, tokens
<1>23. ASSUME NEW f \in BOOLEAN, PoolShutDown(f) PROVE TypeOK'
  <2>1. CASE Failed(f)
    BY <1>23, <2>1 DEF PoolShutDown, FirstError, children, tokens
  <2>2. CASE ~Failed(f)
    BY <1>23, <2>2 DEF PoolShutDown, FirstError, children, tokens
  <2> QED BY <2>1, <2>2
<1>24. CASE Interrupt \/ UNCHANGED vars
  <2>1. CASE Interrupt
    BY <2>1 DEF Interrupt, children
  <2>2. CASE UNCHANGED vars
    BY <2>2 DEF vars, children, tokens
  <2> QED BY <1>24, <2>1, <2>2
<1> QED
  BY <1>1, <1>2, <1>3, <1>4, <1>5, <1>6, <1>7, <1>8, <1>9, <1>10, <1>11, <1>12, <1>13, <1>14,
     <1>15, <1>16, <1>17, <1>18, <1>19, <1>20, <1>21, <1>22, <1>23, <1>24
  DEF Next, Walker, Children, Terminated

\* So do the types.
LEMMA InitTypes == Init => TypeOK
<1> SUFFICES ASSUME Init PROVE TypeOK
  OBVIOUS
<1>1. bridge \in Seq(Unit) /\ Len(bridge) <= Capacity
  BY BridgeAssumption DEF Init
<1>2. services \in SUBSET Unit /\ left \in [Unit -> 0..MaxChunks] /\ killed \subseteq Unit
  BY BridgeAssumption DEF Init
<1>3. current \in [unit : SUBSET Unit, outcome : {"none"} \cup Outcome]
  BY NoneType DEF Init
<1> QED BY <1>1, <1>2, <1>3 DEF Init, TypeOK, Waits, Tails

\* Every variable keeps its type: the bridge never holds more than its capacity.
THEOREM TypeCorrect == Spec => []TypeOK
BY InitTypes, TypeStep, PTL DEF Spec
-----------------------------------------------------------------------------
(* The inductive invariant. *)

\* Per action: what is reported, what the children do, where the walk stands.
LEMMA InvStep == IInv /\ [Next]_vars => IInv'
<1> SUFFICES ASSUME IInv, [Next]_vars PROVE IInv'
  OBVIOUS
<1>t. TypeOK'
  BY TypeStep DEF IInv
<1> USE DEF IInv, RunPhase, ExitPhase, Waits, Tails
<1>1. CASE Receive
  <2>1. NothingAfterVerdict' /\ Lossless'
    BY <1>1, TailKeeps DEF Receive, Push, ToTeardown, children, tokens, Reading, InBridge,
       NothingAfterVerdict, Lossless
  <2>2. ReadySound' /\ HeldSound' /\ WriterKnown' /\ CurrentQuiet'
    BY <1>1 DEF Receive, Push, ToTeardown, children, tokens, ReadySound, HeldSound,
       WriterKnown, CurrentQuiet
  <2>3. PhaseSound' /\ AllJoined' /\ LossKnown'
    BY <1>1 DEF Receive, Push, ToTeardown, children, tokens, TypeOK, PhaseSound, AllJoined,
       LossKnown
  <2> QED BY <1>t, <2>1, <2>2, <2>3
<1>2. CASE ReceiveWaiting
  <2>1. NothingAfterVerdict' /\ Lossless'
    BY <1>2, TailKeeps DEF ReceiveWaiting, Push, Waits, Tails, children, tokens, Reading,
       InBridge, NothingAfterVerdict, Lossless
  <2>2. ReadySound' /\ HeldSound' /\ WriterKnown' /\ CurrentQuiet'
    BY <1>2 DEF ReceiveWaiting, Push, Waits, Tails, children, tokens, ReadySound, HeldSound,
       WriterKnown, CurrentQuiet
  <2>3. PhaseSound' /\ AllJoined' /\ LossKnown'
    BY <1>2 DEF ReceiveWaiting, Push, Waits, Tails, children, tokens, PhaseSound, AllJoined,
       LossKnown
  <2> QED BY <1>t, <2>1, <2>2, <2>3
<1>3. CASE ObserveInterrupt
  <2>1. NothingAfterVerdict' /\ Lossless'
    BY <1>3 DEF ObserveInterrupt, TripPool, InFlight, children, tokens, Reading, InBridge,
       NothingAfterVerdict, Lossless
  <2>2. ReadySound' /\ HeldSound' /\ WriterKnown' /\ CurrentQuiet'
    BY <1>3 DEF ObserveInterrupt, TripPool, InFlight, children, tokens, ReadySound,
       HeldSound, WriterKnown, CurrentQuiet
  <2>3. PhaseSound' /\ AllJoined' /\ LossKnown'
    BY <1>3 DEF ObserveInterrupt, TripPool, InFlight, children, tokens, PhaseSound,
       AllJoined, LossKnown
  <2> QED BY <1>t, <2>1, <2>2, <2>3
<1>4. CASE Drained
  <2>1. NothingAfterVerdict' /\ Lossless'
    BY <1>4, EmptyHolds DEF Drained, children, tokens, Reading, InBridge,
       NothingAfterVerdict, Lossless, CurrentQuiet
  <2>2. ReadySound' /\ HeldSound' /\ WriterKnown' /\ CurrentQuiet'
    BY <1>4 DEF Drained, children, tokens, ReadySound, HeldSound, WriterKnown, CurrentQuiet
  <2>3. PhaseSound' /\ AllJoined' /\ LossKnown'
    BY <1>4 DEF Drained, children, tokens, PhaseSound, AllJoined, LossKnown
  <2> QED BY <1>t, <2>1, <2>2, <2>3
<1>5. CASE Settled
  <2>1. NothingAfterVerdict' /\ Lossless'
    BY <1>5 DEF Settled, ToTeardown, TripPool, InFlight, children, tokens, Reading, InBridge,
       NothingAfterVerdict, Lossless
  <2>2. ReadySound' /\ HeldSound' /\ WriterKnown' /\ CurrentQuiet'
    BY <1>5 DEF Settled, ToTeardown, TripPool, InFlight, children, tokens, ReadySound,
       HeldSound, WriterKnown, CurrentQuiet
  <2>3. PhaseSound' /\ AllJoined' /\ LossKnown'
    BY <1>5 DEF Settled, ToTeardown, TripPool, InFlight, children, tokens, PhaseSound,
       AllJoined, LossKnown
  <2> QED BY <1>t, <2>1, <2>2, <2>3
<1>6. CASE EndWave
  <2>1. NothingAfterVerdict' /\ Lossless'
    BY <1>6 DEF EndWave, InFlight, children, tokens, Reading, InBridge, NothingAfterVerdict,
       Lossless
  <2>2. ReadySound' /\ HeldSound' /\ WriterKnown' /\ CurrentQuiet'
    BY <1>6 DEF EndWave, InFlight, children, tokens, ReadySound, HeldSound, WriterKnown,
       CurrentQuiet
  <2>3. PhaseSound' /\ AllJoined' /\ LossKnown'
    BY <1>6 DEF EndWave, InFlight, children, tokens, TypeOK, PhaseSound, AllJoined, LossKnown
  <2> QED BY <1>t, <2>1, <2>2, <2>3
<1>7. CASE EndWaves
  <2>1. NothingAfterVerdict' /\ Lossless'
    BY <1>7, EmptyHolds DEF EndWaves, ToTeardown, children, tokens, Reading, InBridge,
       NothingAfterVerdict, Lossless
  <2>2. ReadySound' /\ HeldSound' /\ WriterKnown' /\ CurrentQuiet'
    BY <1>7 DEF EndWaves, ToTeardown, children, tokens, ReadySound, HeldSound, WriterKnown,
       CurrentQuiet
  <2>3. PhaseSound' /\ AllJoined' /\ LossKnown'
    BY <1>7 DEF EndWaves, ToTeardown, children, tokens, PhaseSound, AllJoined, LossKnown
  <2> QED BY <1>t, <2>1, <2>2, <2>3
<1>8. CASE WorkDone
  <2>1. NothingAfterVerdict' /\ Lossless'
    BY <1>8 DEF WorkDone, Waits, Tails, children, tokens, Reading, InBridge,
       NothingAfterVerdict, Lossless
  <2>2. ReadySound' /\ HeldSound' /\ WriterKnown' /\ CurrentQuiet'
    BY <1>8 DEF WorkDone, Waits, Tails, children, tokens, ReadySound, HeldSound, WriterKnown,
       CurrentQuiet
  <2>3. PhaseSound' /\ AllJoined' /\ LossKnown'
    BY <1>8 DEF WorkDone, Waits, Tails, children, tokens, PhaseSound, AllJoined, LossKnown
  <2> QED BY <1>t, <2>1, <2>2, <2>3
<1>9. ASSUME NEW u \in Unit, JoinEnded(u) PROVE IInv'
  <2>1. NothingAfterVerdict' /\ Lossless'
    BY <1>9 DEF JoinEnded, Join, children, tokens, Reading, InBridge, NothingAfterVerdict,
       Lossless
  <2>2. ReadySound' /\ HeldSound' /\ WriterKnown' /\ CurrentQuiet'
    BY <1>9 DEF JoinEnded, Join, children, tokens, TypeOK, ReadySound, HeldSound,
       WriterKnown, CurrentQuiet
  <2>3. PhaseSound' /\ AllJoined' /\ LossKnown'
    BY <1>9 DEF JoinEnded, Join, children, tokens, PhaseSound, AllJoined, LossKnown
  <2> QED BY <1>t, <2>1, <2>2, <2>3
<1>10. ASSUME NEW u \in Unit, JoinCancelled(u) PROVE IInv'
  <2>1. NothingAfterVerdict' /\ Lossless'
    BY <1>10 DEF JoinCancelled, children, tokens, Reading, InBridge, NothingAfterVerdict,
       Lossless
  <2>2. ReadySound' /\ HeldSound' /\ WriterKnown' /\ CurrentQuiet'
    BY <1>10 DEF JoinCancelled, children, tokens, ReadySound, HeldSound, WriterKnown,
       CurrentQuiet
  <2>3. PhaseSound' /\ AllJoined' /\ LossKnown'
    BY <1>10 DEF JoinCancelled, children, tokens, PhaseSound, AllJoined, LossKnown
  <2> QED BY <1>t, <2>1, <2>2, <2>3
<1>11. ASSUME NEW u \in Unit, JoinReady(u) PROVE IInv'
  <2>1. NothingAfterVerdict' /\ Lossless'
    BY <1>11 DEF JoinReady, Join, children, tokens, Reading, InBridge, NothingAfterVerdict,
       Lossless
  <2>2. ReadySound' /\ HeldSound' /\ WriterKnown' /\ CurrentQuiet'
    BY <1>11 DEF JoinReady, Join, children, tokens, TypeOK, ReadySound, HeldSound,
       WriterKnown, CurrentQuiet, PhaseSound
  <2>3. PhaseSound' /\ AllJoined' /\ LossKnown'
    BY <1>11 DEF JoinReady, Join, children, tokens, PhaseSound, AllJoined, LossKnown
  <2> QED BY <1>t, <2>1, <2>2, <2>3
<1>12. ASSUME NEW u \in Unit, JoinNotReady(u) PROVE IInv'
  <2>1. NothingAfterVerdict' /\ Lossless'
    BY <1>12 DEF JoinNotReady, Join, children, tokens, Reading, InBridge,
       NothingAfterVerdict, Lossless
  <2>2. ReadySound' /\ HeldSound' /\ WriterKnown' /\ CurrentQuiet'
    BY <1>12 DEF JoinNotReady, Join, children, tokens, ReadySound, HeldSound, WriterKnown,
       CurrentQuiet
  <2>3. PhaseSound' /\ AllJoined' /\ LossKnown'
    BY <1>12 DEF JoinNotReady, Join, children, tokens, PhaseSound, AllJoined, LossKnown
  <2> QED BY <1>t, <2>1, <2>2, <2>3
<1>13. ASSUME NEW u \in Unit, Release(u) PROVE IInv'
  <2>1. NothingAfterVerdict' /\ Lossless'
    BY <1>13 DEF Release, children, tokens, Reading, InBridge, NothingAfterVerdict, Lossless,
       HeldSound
  <2>2. ReadySound' /\ HeldSound' /\ WriterKnown' /\ CurrentQuiet'
    BY <1>13 DEF Release, children, tokens, ReadySound, HeldSound, WriterKnown, CurrentQuiet
  <2>3. PhaseSound' /\ AllJoined' /\ LossKnown'
    BY <1>13 DEF Release, children, tokens, PhaseSound, AllJoined, LossKnown
  <2> QED BY <1>t, <2>1, <2>2, <2>3
<1>14. ASSUME NEW u \in Unit, Emit(u), pc # "done" PROVE IInv'
  <2>1. NothingAfterVerdict' /\ Lossless'
    BY <1>14, AppendAdds DEF Emit, children, tokens, Reading, InBridge, NothingAfterVerdict,
       Lossless
  <2>2. ReadySound' /\ HeldSound' /\ WriterKnown' /\ CurrentQuiet'
    BY <1>14 DEF Emit, children, tokens, ReadySound, HeldSound, WriterKnown, CurrentQuiet
  <2>3. PhaseSound' /\ AllJoined' /\ LossKnown'
    BY <1>14 DEF Emit, children, tokens, PhaseSound, AllJoined, LossKnown
  <2> QED BY <1>t, <2>1, <2>2, <2>3
<1>15. ASSUME NEW u \in Unit, Kill(u), pc # "done" PROVE IInv'
  <2>1. NothingAfterVerdict' /\ Lossless'
    BY <1>15 DEF Kill, children, tokens, Reading, InBridge, NothingAfterVerdict, Lossless
  <2>2. ReadySound' /\ HeldSound' /\ WriterKnown' /\ CurrentQuiet'
    BY <1>15 DEF Kill, children, tokens, ReadySound, HeldSound, WriterKnown, CurrentQuiet
  <2>3. PhaseSound' /\ AllJoined' /\ LossKnown'
    BY <1>15 DEF Kill, children, tokens, PhaseSound, AllJoined, LossKnown
  <2> QED BY <1>t, <2>1, <2>2, <2>3
<1>16. ASSUME NEW u \in Unit, ServiceEnds(u), pc # "done" PROVE IInv'
  <2>1. NothingAfterVerdict' /\ Lossless'
    BY <1>16 DEF ServiceEnds, children, tokens, Reading, InBridge, NothingAfterVerdict, Lossless
  <2>2. ReadySound' /\ HeldSound' /\ WriterKnown' /\ CurrentQuiet'
    BY <1>16 DEF ServiceEnds, children, tokens, ReadySound, HeldSound, WriterKnown, CurrentQuiet
  <2>3. PhaseSound' /\ AllJoined' /\ LossKnown'
    BY <1>16 DEF ServiceEnds, children, tokens, PhaseSound, AllJoined, LossKnown
  <2> QED BY <1>t, <2>1, <2>2, <2>3
<1>17. ASSUME NEW u \in Unit, StopNext(u), pc # "done" PROVE IInv'
  <2>1. NothingAfterVerdict' /\ Lossless'
    BY <1>17 DEF StopNext, children, tokens, Reading, InBridge, NothingAfterVerdict, Lossless
  <2>2. ReadySound' /\ HeldSound' /\ WriterKnown' /\ CurrentQuiet'
    BY <1>17 DEF StopNext, children, tokens, ReadySound, HeldSound, WriterKnown, CurrentQuiet
  <2>3. PhaseSound' /\ AllJoined' /\ LossKnown'
    BY <1>17 DEF StopNext, children, tokens, PhaseSound, AllJoined, LossKnown
  <2> QED BY <1>t, <2>1, <2>2, <2>3
<1>18. ASSUME NEW u \in Unit, WorkerEnds(u), pc # "done" PROVE IInv'
  <2>1. NothingAfterVerdict' /\ Lossless'
    BY <1>18 DEF WorkerEnds, Ends, Stopped, children, tokens, Reading, InBridge,
       NothingAfterVerdict, Lossless
  <2>2. ReadySound' /\ HeldSound' /\ WriterKnown' /\ CurrentQuiet'
    BY <1>18 DEF WorkerEnds, Ends, Stopped, children, tokens, ReadySound, HeldSound,
       WriterKnown, CurrentQuiet
  <2>3. PhaseSound' /\ AllJoined' /\ LossKnown'
    BY <1>18 DEF WorkerEnds, Ends, Stopped, children, tokens, PhaseSound, AllJoined, LossKnown
  <2> QED BY <1>t, <2>1, <2>2, <2>3
<1>19. ASSUME NEW u \in Unit, ServiceReady(u), pc # "done" PROVE IInv'
  <2>1. NothingAfterVerdict' /\ Lossless'
    BY <1>19 DEF ServiceReady, children, tokens, Reading, InBridge, NothingAfterVerdict,
       Lossless
  <2>2. ReadySound' /\ HeldSound' /\ WriterKnown' /\ CurrentQuiet'
    BY <1>19 DEF ServiceReady, children, tokens, TypeOK, ReadySound, HeldSound, WriterKnown,
       CurrentQuiet
  <2>3. PhaseSound' /\ AllJoined' /\ LossKnown'
    BY <1>19 DEF ServiceReady, children, tokens, PhaseSound, AllJoined, LossKnown
  <2> QED BY <1>t, <2>1, <2>2, <2>3
<1>20. ASSUME NEW u \in Unit, DropUnjoined(u), pc # "done" PROVE IInv'
  <2>1. NothingAfterVerdict' /\ Lossless'
    BY <1>20 DEF DropUnjoined, children, tokens, Reading, InBridge, NothingAfterVerdict,
       Lossless
  <2>2. ReadySound' /\ HeldSound' /\ WriterKnown' /\ CurrentQuiet'
    BY <1>20 DEF DropUnjoined, children, tokens, ReadySound, HeldSound, WriterKnown,
       CurrentQuiet
  <2>3. PhaseSound' /\ AllJoined' /\ LossKnown'
    BY <1>20 DEF DropUnjoined, children, tokens, PhaseSound, AllJoined, LossKnown
  <2> QED BY <1>t, <2>1, <2>2, <2>3
<1>21. ASSUME NEW f \in BOOLEAN, TornDown(f) PROVE IInv'
  <2>1. NothingAfterVerdict' /\ Lossless'
    BY <1>21, EmptyHolds DEF TornDown, ToTeardown, FirstError, Failed, children, tokens,
       Reading, InBridge, NothingAfterVerdict, Lossless, CurrentQuiet
  <2>2. ReadySound' /\ HeldSound' /\ WriterKnown' /\ CurrentQuiet'
    BY <1>21 DEF TornDown, ToTeardown, FirstError, Failed, children, tokens, ReadySound,
       HeldSound, WriterKnown, CurrentQuiet
  <2>3. PhaseSound' /\ AllJoined' /\ LossKnown'
    BY <1>21 DEF TornDown, ToTeardown, FirstError, Failed, children, tokens, PhaseSound,
       AllJoined, LossKnown
  <2> QED BY <1>t, <2>1, <2>2, <2>3
<1>22. ASSUME NEW f \in BOOLEAN, HeldStopped(f) PROVE IInv'
  <2>1. NothingAfterVerdict' /\ Lossless'
    BY <1>22, EmptyHolds DEF HeldStopped, FirstError, Failed, children, tokens, Reading,
       InBridge, NothingAfterVerdict, Lossless
  <2>2. ReadySound' /\ HeldSound' /\ WriterKnown' /\ CurrentQuiet'
    BY <1>22 DEF HeldStopped, FirstError, Failed, children, tokens, ReadySound, HeldSound,
       WriterKnown, CurrentQuiet
  <2>3. PhaseSound' /\ AllJoined' /\ LossKnown'
    BY <1>22 DEF HeldStopped, FirstError, Failed, children, tokens, PhaseSound, AllJoined,
       LossKnown
  <2> QED BY <1>t, <2>1, <2>2, <2>3
<1>23. ASSUME NEW f \in BOOLEAN, PoolShutDown(f) PROVE IInv'
  <2>1. NothingAfterVerdict' /\ Lossless'
    BY <1>23, EmptyHolds DEF PoolShutDown, FirstError, Failed, children, tokens, Reading,
       InBridge, NothingAfterVerdict, Lossless, HeldSound, WriterKnown, AllJoined, LossKnown
  <2>2. ReadySound' /\ HeldSound' /\ WriterKnown' /\ CurrentQuiet'
    BY <1>23 DEF PoolShutDown, FirstError, Failed, children, tokens, ReadySound, HeldSound,
       WriterKnown, CurrentQuiet
  <2>3. PhaseSound' /\ AllJoined' /\ LossKnown'
    BY <1>23 DEF PoolShutDown, FirstError, Failed, children, tokens, PhaseSound, AllJoined,
       LossKnown
  <2> QED BY <1>t, <2>1, <2>2, <2>3
<1>24. CASE Interrupt \/ UNCHANGED vars
  <2>1. NothingAfterVerdict' /\ Lossless'
    BY <1>24 DEF Interrupt, vars, children, tokens, Reading, InBridge, NothingAfterVerdict,
       Lossless
  <2>2. ReadySound' /\ HeldSound' /\ WriterKnown' /\ CurrentQuiet'
    BY <1>24 DEF Interrupt, vars, children, tokens, ReadySound, HeldSound, WriterKnown,
       CurrentQuiet
  <2>3. PhaseSound' /\ AllJoined' /\ LossKnown'
    BY <1>24 DEF Interrupt, vars, children, tokens, PhaseSound, AllJoined, LossKnown
  <2> QED BY <1>t, <2>1, <2>2, <2>3
<1> QED
  BY <1>1, <1>2, <1>3, <1>4, <1>5, <1>6, <1>7, <1>8, <1>9, <1>10, <1>11, <1>12, <1>13, <1>14,
     <1>15, <1>16, <1>17, <1>18, <1>19, <1>20, <1>21, <1>22, <1>23, <1>24
  DEF Next, Walker, Children, Terminated
-----------------------------------------------------------------------------
\* The invariant holds at the start.
LEMMA InvInit == Init => IInv
<1> SUFFICES ASSUME Init PROVE IInv
  OBVIOUS
<1>1. TypeOK
  BY InitTypes
<1>2. NothingAfterVerdict /\ Lossless
  BY DEF Init, NothingAfterVerdict, Lossless
<1>3. ReadySound /\ HeldSound /\ WriterKnown /\ CurrentQuiet
  BY DEF Init, ReadySound, HeldSound, WriterKnown, CurrentQuiet
<1>4. PhaseSound /\ AllJoined /\ LossKnown
  BY DEF Init, PhaseSound, AllJoined, LossKnown, ExitPhase
<1> QED BY <1>1, <1>2, <1>3, <1>4 DEF IInv

\* Once a unit is reported finished or torn down, no chunk of it is left to come:
\* drain_live_output runs after the readers ended and before the report.
THEOREM OutputBeforeVerdict == Spec => []NothingAfterVerdict
<1>1. IInv => NothingAfterVerdict
  BY DEF IInv
<1> QED BY InvInit, InvStep, <1>1, PTL DEF Spec

\* A run that ends with a summary delivered every chunk: the first sink error of a
\* drain_while is the wait's error, whatever the work returned.
THEOREM ReportedRunsLoseNothing == Spec => []Lossless
<1>1. IInv => Lossless
  BY DEF IInv
<1> QED BY InvInit, InvStep, <1>1, PTL DEF Spec
-----------------------------------------------------------------------------
(***************************************************************************)
(* The driver connection.                                                  *)
(***************************************************************************)

OnTrip == at \in {"write", "read", "returned"}

\* Where the client is tells which of its ends are open and which trip runs.
Placed ==
  /\ hungUp <=> at \in {"close", "gone"}
  /\ OnTrip => trip \in Trips
  /\ at = "returned" => reply.kind # "none"
  /\ watchdog # "off" => OnTrip
  /\ at = "write" /\ mode # "init" => watchdog = "off"
  /\ driver = "answering" => taken \in Trips

Weight(b) == IF b THEN 1 ELSE 0

\* No more requests and replies are under way than trips were started.
Underway == Len(toDriver) + Len(toClient) + Weight(driver = "answering")
Bounded == ~ hungUp => Underway + Weight(at = "write") <= trip

TInv == RpcTypeOK /\ Placed /\ Bounded

LEMMA NoReplyFits == NoReply \in Replies /\ Eof \in Replies /\ BrokenPipe \in Replies
  BY DEF Replies

\* What the outcome of a round trip can be made into.
LEMMA ClassifyFacts ==
  ASSUME reply \in Replies, reply.kind # "none", NEW late \in BOOLEAN
  PROVE  /\ Classify(late) \in {"ok"} \cup Faults
         /\ Classify(late) = "ok" => reply.kind = "answer"
         /\ late => Classify(late) # "Transport"
         /\ Classify(late) = "Timeout" => late
<1>1. reply.kind \in Complete \cup Broken \cup {"eof", "pipe"}
  BY DEF Replies, Frames, NoReply, Eof, BrokenPipe
<1>2. CASE mode = "init"
  BY <1>1, <1>2 DEF Classify, ClassifyInit, Faults, Complete, Broken
<1>3. CASE mode # "init"
  BY <1>1, <1>3 DEF Classify, ClassifyServe, Faults, Complete, Broken
<1> QED BY <1>2, <1>3

LEMMA TInvInit == RpcInit => TInv
<1> SUFFICES ASSUME RpcInit PROVE TInv
  OBVIOUS
<1>1. NoReply \in Results
  BY RpcAssumption DEF NoReply, Results
<1>2. <<>> \in Seq(0 .. MaxTrips) /\ <<>> \in Seq(Frames) /\ Len(<<>>) = 0
  OBVIOUS
<1>3. RpcTypeOK
  <2>1. /\ reply \in Replies /\ results \in [Trips -> Results]
        /\ trip \in 0 .. MaxTrips /\ taken \in 0 .. MaxTrips /\ killedIn \in 0 .. MaxTrips
    BY <1>1, NoReplyFits, RpcAssumption DEF RpcInit
  <2>2. /\ toDriver \in Seq(0 .. MaxTrips) /\ Len(toDriver) <= MaxTrips + 1
        /\ toClient \in Seq(Frames) /\ Len(toClient) <= MaxTrips
    BY <1>2, RpcAssumption DEF RpcInit
  <2> QED BY <2>1, <2>2 DEF RpcInit, RpcTypeOK
<1>4. Placed
  BY DEF RpcInit, Placed, OnTrip
<1>5. Bounded
  BY <1>2 DEF RpcInit, Bounded, Underway, Weight
<1> QED BY <1>3, <1>4, <1>5 DEF TInv

LEMMA TInvStep == TInv /\ [RpcNext]_rpcVars => TInv'
<1> SUFFICES ASSUME TInv, [RpcNext]_rpcVars PROVE TInv'
  OBVIOUS
<1>0. MaxTrips \in Nat \ {0, 1} /\ LastTrip \in 0 .. MaxTrips
  BY RpcAssumption DEF LastTrip
<1> USE <1>0 DEF TInv
<1>1. CASE StartTrip
  <2>1. trip' \in Trips /\ trip' = trip + 1
    BY <1>1 DEF StartTrip, RpcTypeOK, Trips
  <2>2. RpcTypeOK'
    BY <1>1, <2>1, NoReplyFits DEF StartTrip, RpcTypeOK, pipes, Trips
  <2>3. Placed'
    BY <1>1, <2>1 DEF StartTrip, Placed, OnTrip, pipes
  <2>4. Bounded'
    BY <1>1, <2>1 DEF StartTrip, Bounded, Underway, Weight, pipes, RpcTypeOK
  <2> QED BY <2>2, <2>3, <2>4
<1>2. CASE WriteFits
  <2>1. Len(toDriver') = Len(toDriver) + 1 /\ toDriver' \in Seq(0 .. MaxTrips)
    BY <1>2 DEF WriteFits, RpcTypeOK
  <2>2. Bounded'
    BY <1>2, <2>1 DEF WriteFits, Bounded, Underway, Weight, RpcTypeOK
  <2>3. Len(toDriver') <= MaxTrips
    BY <1>2, <2>1 DEF WriteFits, Bounded, Underway, Weight, RpcTypeOK, Placed
  <2>4. RpcTypeOK'
    BY <1>2, <2>1, <2>3 DEF WriteFits, RpcTypeOK, ReadArmed
  <2>5. Placed'
    BY <1>2 DEF WriteFits, Placed, OnTrip
  <2> QED BY <2>2, <2>4, <2>5
<1>3. CASE WriteLarge
  <2>1. RpcTypeOK'
    BY <1>3 DEF WriteLarge, RpcTypeOK, ReadArmed, pipes
  <2>2. Placed'
    BY <1>3 DEF WriteLarge, Placed, OnTrip, pipes
  <2>3. Bounded'
    BY <1>3 DEF WriteLarge, Bounded, Underway, Weight, pipes, RpcTypeOK
  <2> QED BY <2>1, <2>2, <2>3
<1>4. CASE WriteFails
  <2>1. RpcTypeOK'
    BY <1>4, NoReplyFits DEF WriteFails, RpcTypeOK, pipes
  <2>2. Placed'
    BY <1>4 DEF WriteFails, Placed, OnTrip, pipes, BrokenPipe
  <2>3. Bounded'
    BY <1>4 DEF WriteFails, Bounded, Underway, Weight, pipes, RpcTypeOK
  <2> QED BY <2>1, <2>2, <2>3
<1>5. CASE ReadFrame
  <2>1. Head(toClient) \in Frames /\ Len(toClient) > 0
    BY <1>5 DEF ReadFrame, RpcTypeOK
  <2>2. toClient' \in Seq(Frames) /\ Len(toClient') <= Len(toClient)
    BY <1>5, <2>1 DEF ReadFrame, RpcTypeOK
  <2>3. RpcTypeOK'
    BY <1>5, <2>1, <2>2 DEF ReadFrame, RpcTypeOK, Replies
  <2>4. Placed'
    BY <1>5, <2>1 DEF ReadFrame, Placed, OnTrip, Frames, Complete, Broken
  <2>5. Bounded'
    <3>1. /\ Len(toClient) \in Nat /\ Len(toClient') \in Nat /\ Len(toDriver) \in Nat
          /\ Weight(driver = "answering") \in Nat
      BY <2>2 DEF RpcTypeOK, Weight
    <3>2. /\ at = "read" /\ at' = "returned"
          /\ UNCHANGED <<toDriver, hungUp, driver, trip>>
      BY <1>5 DEF ReadFrame
    <3> QED BY <2>2, <3>1, <3>2 DEF Bounded, Underway, Weight, RpcTypeOK
  <2> QED BY <2>3, <2>4, <2>5
<1>6. CASE ReadEnds
  <2>1. RpcTypeOK'
    BY <1>6, NoReplyFits DEF ReadEnds, RpcTypeOK, pipes
  <2>2. Placed'
    BY <1>6 DEF ReadEnds, Placed, OnTrip, pipes, Eof
  <2>3. Bounded'
    BY <1>6 DEF ReadEnds, Bounded, Underway, Weight, pipes, RpcTypeOK
  <2> QED BY <2>1, <2>2, <2>3
<1>7. CASE Disarm
  <2>1. reply \in Replies /\ reply.kind # "none" /\ Fired \in BOOLEAN
    BY <1>7 DEF Disarm, RpcTypeOK, Placed, Fired
  <2>2. Classify(Fired) \in {"ok"} \cup Faults
    BY <2>1, ClassifyFacts
  <2>3. reply.trip \in 0 .. MaxTrips
    BY <2>1 DEF Replies, Frames, NoReply, Eof, BrokenPipe, Trips
  <2>4. [kind |-> Classify(Fired), trip |-> reply.trip] \in Results
    BY <2>2, <2>3 DEF Results
  <2>5. RpcTypeOK'
    BY <1>7, <2>4, NoReplyFits DEF Disarm, RpcTypeOK, pipes
  <2>6. Placed'
    BY <1>7 DEF Disarm, Placed, OnTrip, pipes
  <2>7. Bounded'
    BY <1>7 DEF Disarm, Bounded, Underway, Weight, pipes, RpcTypeOK
  <2> QED BY <2>5, <2>6, <2>7
<1>8. CASE HangUp
  <2>1. toDriver' \in Seq(0 .. MaxTrips) /\ Len(toDriver') <= MaxTrips + 1
    <3>1. ~ hungUp /\ at = "drop"
      BY <1>8 DEF HangUp, Placed
    <3>2. Len(toDriver) <= MaxTrips /\ toDriver \in Seq(0 .. MaxTrips) /\ Shutdown \in 0 .. MaxTrips
      BY <3>1 DEF Bounded, Underway, Weight, RpcTypeOK, Shutdown
    <3>3. toDriver' \in {toDriver, Append(toDriver, Shutdown)}
      BY <1>8 DEF HangUp
    <3> QED BY <3>2, <3>3
  <2>2. RpcTypeOK'
    BY <1>8, <2>1 DEF HangUp, RpcTypeOK
  <2>3. Placed' /\ Bounded'
    BY <1>8 DEF HangUp, Placed, Bounded, OnTrip
  <2> QED BY <2>2, <2>3
<1>9. CASE KillAndReap
  <2>1. RpcTypeOK'
    BY <1>9 DEF KillAndReap, RpcTypeOK, pipes
  <2>2. at = "close" /\ at' = "gone" /\ driver' = "reaped" /\ hungUp' = hungUp /\ watchdog' = watchdog
    BY <1>9 DEF KillAndReap, pipes
  <2>3. hungUp /\ watchdog = "off"
    BY <2>2 DEF Placed, OnTrip, RpcTypeOK
  <2>4. Placed' /\ Bounded'
    BY <2>2, <2>3 DEF Placed, Bounded, OnTrip
  <2> QED BY <2>1, <2>4
<1>10. CASE Expire \/ KillDriver
  <2>1. RpcTypeOK'
    BY <1>10 DEF Expire, KillDriver, RpcTypeOK, pipes, Alive
  <2>2. Placed'
    BY <1>10 DEF Expire, KillDriver, Placed, OnTrip, pipes
  <2>3. Bounded'
    BY <1>10 DEF Expire, KillDriver, Bounded, Underway, Weight, pipes, RpcTypeOK
  <2> QED BY <2>1, <2>2, <2>3
<1>11. CASE Abandon
  <2>1. RpcTypeOK'
    BY <1>11 DEF Abandon, RpcTypeOK, pipes
  <2>2. Placed'
    BY <1>11 DEF Abandon, Placed, OnTrip, pipes
  <2>3. Bounded'
    BY <1>11 DEF Abandon, Bounded, Underway, Weight, pipes, RpcTypeOK
  <2> QED BY <2>1, <2>2, <2>3
<1>12. CASE TakeRequest
  <2>1. /\ Head(toDriver) \in 0 .. MaxTrips /\ toDriver' \in Seq(0 .. MaxTrips)
        /\ Len(toDriver') = Len(toDriver) - 1 /\ driver # "answering"
    BY <1>12 DEF TakeRequest, RpcTypeOK
  <2>2. RpcTypeOK'
    BY <1>12, <2>1 DEF TakeRequest, RpcTypeOK, client
  <2>3. Placed'
    BY <1>12, <2>1 DEF TakeRequest, Placed, OnTrip, client, Trips, Shutdown
  <2>4. Bounded'
    BY <1>12, <2>1 DEF TakeRequest, Bounded, Underway, Weight, RpcTypeOK, client
  <2> QED BY <2>2, <2>3, <2>4
<1>13. CASE SeesEof \/ Wedge \/ Crash
  <2>1. RpcTypeOK'
    BY <1>13 DEF SeesEof, Wedge, Crash, RpcTypeOK, pipes, client
  <2>2. Placed'
    BY <1>13 DEF SeesEof, Wedge, Crash, Placed, OnTrip, pipes, client
  <2>3. Bounded'
    BY <1>13 DEF SeesEof, Wedge, Crash, Bounded, Underway, Weight, pipes, client, RpcTypeOK
  <2> QED BY <2>1, <2>2, <2>3
<1>14. ASSUME NEW kind \in Complete \cup {"oversized"}, Answer(kind) PROVE TInv'
  <2>1. CASE hungUp
    <3>1. RpcTypeOK'
      BY <1>14, <2>1 DEF Answer, RpcTypeOK, client
    <3> QED BY <1>14, <2>1, <3>1 DEF Answer, Placed, Bounded, OnTrip, client
  <2>2. CASE ~ hungUp
    <3>1. [kind |-> kind, trip |-> taken] \in Frames
      BY <1>14 DEF Answer, Placed, Frames, Complete, Broken
    <3>2. toClient' \in Seq(Frames) /\ Len(toClient') = Len(toClient) + 1
      BY <1>14, <2>2, <3>1 DEF Answer, RpcTypeOK
    <3>3. Bounded' /\ Len(toClient') <= MaxTrips
      BY <1>14, <2>2, <3>2 DEF Answer, RpcTypeOK, Bounded, Underway, Weight, client
    <3>4. RpcTypeOK'
      BY <1>14, <3>2, <3>3 DEF Answer, RpcTypeOK, client
    <3>5. Placed'
      BY <1>14 DEF Answer, Placed, OnTrip, client
    <3> QED BY <3>3, <3>4, <3>5
  <2> QED BY <2>1, <2>2
<1>15. CASE CutShort
  <2>1. [kind |-> "cut", trip |-> taken] \in Frames
    BY <1>15 DEF CutShort, Placed, Frames, Complete, Broken
  <2>2. toClient' \in Seq(Frames) /\ Len(toClient') = Len(toClient) + 1
    BY <1>15, <2>1 DEF CutShort, RpcTypeOK
  <2>3. Bounded' /\ Len(toClient') <= MaxTrips
    BY <1>15, <2>2 DEF CutShort, RpcTypeOK, Bounded, Underway, Weight, client
  <2>4. RpcTypeOK'
    BY <1>15, <2>2, <2>3 DEF CutShort, RpcTypeOK, client
  <2>5. Placed'
    BY <1>15 DEF CutShort, Placed, OnTrip, client
  <2> QED BY <2>3, <2>4, <2>5
<1>16. CASE UNCHANGED rpcVars
  BY <1>16 DEF rpcVars, client, pipes, RpcTypeOK, Placed, Bounded, Underway, Weight, OnTrip, Alive
<1> QED
  BY <1>1, <1>2, <1>3, <1>4, <1>5, <1>6, <1>7, <1>8, <1>9, <1>10, <1>11, <1>12, <1>13, <1>14,
     <1>15, <1>16
  DEF RpcNext, ClientStep, WatchdogStep, DriverStep

\* Every reachable state is well-typed: no more requests and replies are under
\* way than round trips were started, and an idle driver holds no request.
THEOREM RpcTypeCorrect == RpcSpec => []RpcTypeOK
<1>1. TInv => RpcTypeOK
  BY DEF TInv
<1> QED BY <1>1, TInvInit, TInvStep, PTL DEF RpcSpec
-----------------------------------------------------------------------------
\* Behind a bad length prefix nothing is an answer any more.
Debris == toClient # <<>> /\ Head(toClient).kind = "oversized"

\* Between round trips nothing is under way in either direction.
AtRest ==
  /\ toClient = <<>> /\ driver # "answering"
  /\ Alive => toDriver = <<>>

\* The request of this trip is with the driver, or its one reply is coming.
Waiting ==
  \/ toDriver = <<trip>> /\ toClient = <<>> /\ driver # "answering"
  \/ toDriver = <<>> /\ toClient = <<>> /\ (driver = "answering" => taken = trip)
  \/ /\ toDriver = <<>> /\ driver # "answering"
     /\ Len(toClient) = 1 /\ Head(toClient).trip = trip

\* Frames have no id, so the two ends must stay in step for as long as a frame
\* can be taken for an answer.
InStep ==
  \/ Debris
  \/ at \in {"idle", "write", "returned"} /\ AtRest
  \/ at = "read" /\ Waiting
  \/ at \in {"drop", "close", "gone"}

ReplyMatches == reply.kind = "answer" => reply.trip = trip

MInv == TInv /\ InStep /\ ReplyMatches /\ AnswersMatch

LEMMA MInvInit == RpcInit => MInv
<1> SUFFICES ASSUME RpcInit PROVE MInv
  OBVIOUS
<1>1. InStep
  BY DEF RpcInit, InStep, AtRest
<1>2. ReplyMatches /\ AnswersMatch
  BY DEF RpcInit, ReplyMatches, AnswersMatch, NoReply
<1> QED BY <1>1, <1>2, TInvInit DEF MInv

\* What is behind the debris never comes to its front.
LEMMA DebrisStays ==
  ASSUME TInv, Debris, [RpcNext]_rpcVars
  PROVE  Debris'
<1> USE DEF Debris, TInv, RpcTypeOK
<1>1. CASE UNCHANGED toClient
  BY <1>1
<1>2. CASE ReadFrame
  BY <1>2 DEF ReadFrame
<1>3. ASSUME NEW frame, toClient' = Append(toClient, frame) PROVE Debris'
  BY <1>3
<1>4. ASSUME NEW kind, Answer(kind) PROVE Debris'
  BY <1>1, <1>3, <1>4 DEF Answer
<1>5. CASE CutShort
  BY <1>3, <1>5 DEF CutShort
<1>6. CASE StartTrip \/ Abandon \/ WatchdogStep \/ UNCHANGED rpcVars
  BY <1>1, <1>6 DEF StartTrip, Abandon, WatchdogStep, Expire, KillDriver, pipes, rpcVars
<1>7. CASE WriteFits \/ WriteLarge \/ WriteFails \/ ReadEnds \/ Disarm \/ HangUp \/ KillAndReap
  BY <1>1, <1>7
  DEF WriteFits, WriteLarge, WriteFails, ReadEnds, Disarm, HangUp, KillAndReap, pipes
<1>8. CASE TakeRequest \/ SeesEof \/ Wedge \/ Crash
  BY <1>1, <1>8 DEF TakeRequest, SeesEof, Wedge, Crash, pipes
<1> QED
  BY <1>2, <1>4, <1>5, <1>6, <1>7, <1>8 DEF RpcNext, ClientStep, DriverStep

LEMMA InStepStep ==
  ASSUME TInv, InStep, [RpcNext]_rpcVars
  PROVE  InStep'
<1>1. CASE Debris
  BY <1>1, DebrisStays DEF InStep
<1> SUFFICES ASSUME ~ Debris PROVE InStep'
  BY <1>1
<1> USE DEF TInv
<1>2. CASE StartTrip
  BY <1>2 DEF StartTrip, InStep, AtRest, pipes, Alive
<1>3. CASE WriteFits
  <2>1. AtRest /\ toDriver' = <<trip>> /\ toClient' = <<>>
    <3>1. AtRest /\ Alive /\ toDriver' = Append(toDriver, trip) /\ toClient' = toClient
      BY <1>3 DEF WriteFits, InStep
    <3> QED BY <3>1 DEF AtRest
  <2> QED BY <1>3, <2>1 DEF WriteFits, InStep, AtRest, Waiting
<1>4. CASE WriteLarge
  BY <1>4 DEF WriteLarge, InStep, AtRest, Waiting, pipes
<1>5. CASE WriteFails
  BY <1>5 DEF WriteFails, InStep, AtRest, pipes, Alive
<1>6. CASE ReadFrame
  <2>1. Waiting /\ Len(toClient) = 1 /\ toDriver = <<>> /\ driver # "answering"
    BY <1>6 DEF ReadFrame, InStep, Waiting, RpcTypeOK
  <2>2. toClient' = <<>>
    BY <1>6, <2>1 DEF ReadFrame, Debris, RpcTypeOK
  <2> QED BY <1>6, <2>1, <2>2 DEF ReadFrame, InStep, AtRest
<1>7. CASE ReadEnds
  BY <1>7 DEF ReadEnds, InStep, Waiting, AtRest, pipes, Alive
<1>8. CASE Disarm
  BY <1>8 DEF Disarm, InStep, AtRest, pipes, Alive
<1>9. CASE HangUp \/ KillAndReap \/ Abandon
  BY <1>9 DEF HangUp, KillAndReap, Abandon, InStep
<1>10. CASE Expire \/ KillDriver
  BY <1>10 DEF Expire, KillDriver, InStep, AtRest, Waiting, pipes, Alive
<1>11. CASE TakeRequest
  <2>1. CASE at = "read"
    <3>1. toDriver = <<trip>> /\ toClient = <<>>
      BY <1>11, <2>1 DEF TakeRequest, InStep, Waiting
    <3>2. trip # Shutdown
      BY <2>1 DEF Placed, OnTrip, Trips, Shutdown
    <3>3. toDriver' = <<>> /\ toClient' = <<>> /\ taken' = trip /\ at' = "read" /\ trip' = trip
      BY <1>11, <2>1, <3>1, <3>2 DEF TakeRequest, client
    <3> QED BY <3>3 DEF InStep, Waiting
  <2>2. CASE at # "read"
    <3>1. driver = "serving" /\ toDriver # <<>> /\ at' = at
      BY <1>11 DEF TakeRequest, client
    <3>2. at \in {"drop", "close", "gone"}
      BY <2>2, <3>1 DEF InStep, AtRest, Alive
    <3> QED BY <3>1, <3>2 DEF InStep
  <2> QED BY <2>1, <2>2
<1>12. CASE SeesEof \/ Wedge \/ Crash
  BY <1>12 DEF SeesEof, Wedge, Crash, InStep, AtRest, Waiting, pipes, client, Alive
<1>13. ASSUME NEW frame, driver = "answering", frame.trip = taken,
              toClient' = IF hungUp THEN toClient ELSE Append(toClient, frame),
              driver' # "answering", UNCHANGED <<at, trip, toDriver>>
       PROVE  InStep'
  <2>1. CASE at = "read"
    <3>1. toDriver = <<>> /\ toClient = <<>> /\ taken = trip /\ ~ hungUp
      BY <1>13, <2>1 DEF InStep, Waiting, Placed
    <3>2. toClient' = <<frame>> /\ Len(<<frame>>) = 1 /\ Head(<<frame>>) = frame
      BY <1>13, <3>1
    <3> QED BY <1>13, <2>1, <3>1, <3>2 DEF InStep, Waiting
  <2>2. CASE at # "read"
    BY <1>13, <2>2 DEF InStep, AtRest
  <2> QED BY <2>1, <2>2
<1>14. ASSUME NEW kind, Answer(kind) PROVE InStep'
  <2> DEFINE frame == [kind |-> kind, trip |-> taken]
  <2>1. /\ driver = "answering" /\ frame.trip = taken
        /\ toClient' = IF hungUp THEN toClient ELSE Append(toClient, frame)
        /\ driver' # "answering" /\ UNCHANGED <<at, trip, toDriver>>
    BY <1>14 DEF Answer, client
  <2> HIDE DEF frame
  <2> QED BY <1>13, <2>1
<1>15. CASE CutShort
  <2> DEFINE frame == [kind |-> "cut", trip |-> taken]
  <2>1. /\ driver = "answering" /\ frame.trip = taken
        /\ toClient' = IF hungUp THEN toClient ELSE Append(toClient, frame)
        /\ driver' # "answering" /\ UNCHANGED <<at, trip, toDriver>>
    BY <1>15 DEF CutShort, client
  <2> HIDE DEF frame
  <2> QED BY <1>13, <2>1
<1>16. CASE UNCHANGED rpcVars
  BY <1>16 DEF rpcVars, pipes, client, InStep, AtRest, Waiting, Debris, Alive
<1> QED
  BY <1>2, <1>3, <1>4, <1>5, <1>6, <1>7, <1>8, <1>9, <1>10, <1>11, <1>12, <1>14, <1>15, <1>16
  DEF RpcNext, ClientStep, WatchdogStep, DriverStep

\* Only a write or a read gives a reply, and only the disarm settles a trip.
LEMMA ElsewhereSettled ==
  ASSUME [RpcNext]_rpcVars, ~ (StartTrip \/ WriteFails \/ ReadFrame \/ ReadEnds \/ Disarm)
  PROVE  UNCHANGED <<trip, reply, results>>
  BY DEF RpcNext, ClientStep, WatchdogStep, DriverStep, WriteFits, WriteLarge, HangUp, KillAndReap,
         Expire, KillDriver, Abandon, TakeRequest, SeesEof, Answer, CutShort, Wedge, Crash, client, rpcVars

LEMMA MInvStep == MInv /\ [RpcNext]_rpcVars => MInv'
<1> SUFFICES ASSUME MInv, [RpcNext]_rpcVars PROVE MInv'
  OBVIOUS
<1> USE DEF MInv
<1>1. TInv' /\ InStep'
  BY TInvStep, InStepStep
<1>2. CASE StartTrip \/ WriteFails \/ ReadEnds
  BY <1>1, <1>2
  DEF StartTrip, WriteFails, ReadEnds, ReplyMatches, AnswersMatch, NoReply, BrokenPipe, Eof
<1>3. CASE ReadFrame
  <2>1. Head(toClient).kind = "answer" => Head(toClient).trip = trip
    BY <1>3 DEF ReadFrame, InStep, Debris, Waiting
  <2> QED BY <1>1, <1>3, <2>1 DEF ReadFrame, ReplyMatches, AnswersMatch
<1>4. CASE Disarm
  <2>1. reply \in Replies /\ reply.kind # "none" /\ Fired \in BOOLEAN
    BY <1>4 DEF Disarm, TInv, RpcTypeOK, Placed, Fired
  <2>2. Classify(Fired) = "ok" => reply.trip = trip
    BY <2>1, ClassifyFacts DEF ReplyMatches
  <2>3. ReplyMatches'
    BY <1>4 DEF Disarm, ReplyMatches, NoReply
  <2>4. AnswersMatch'
    BY <1>4, <2>2 DEF Disarm, AnswersMatch, TInv, RpcTypeOK
  <2> QED BY <1>1, <2>3, <2>4
<1>5. CASE ~ (StartTrip \/ WriteFails \/ ReadFrame \/ ReadEnds \/ Disarm)
  BY <1>1, <1>5, ElsewhereSettled DEF ReplyMatches, AnswersMatch
<1> QED BY <1>2, <1>3, <1>4, <1>5

\* A call is never given the answer to another call, however late, broken or
\* missing the frames of the calls before it were.
THEOREM AnswersAreMatched == RpcSpec => []AnswersMatch
<1>1. MInv => AnswersMatch
  BY DEF MInv
<1> QED BY <1>1, MInvInit, MInvStep, PTL DEF RpcSpec
-----------------------------------------------------------------------------
\* A round trip is settled once, when it is over.
Unsettled ==
  /\ \A n \in Trips : n > trip => results[n].kind = "none"
  /\ OnTrip => results[trip].kind = "none"

\* The watchdog strikes within a trip, and what it struck stays down.
Struck ==
  /\ watchdog = "done" => ~ Alive
  /\ killedIn <= trip
  /\ OnTrip /\ killedIn = trip => watchdog = "done"

KInv == TInv /\ Unsettled /\ Struck /\ KillIsReported

LEMMA KInvInit == RpcInit => KInv
<1> SUFFICES ASSUME RpcInit PROVE KInv
  OBVIOUS
<1>1. Unsettled /\ Struck /\ KillIsReported
  BY DEF RpcInit, Unsettled, Struck, KillIsReported, Answered, NoReply, OnTrip
<1> QED BY <1>1, TInvInit DEF KInv

LEMMA DeadStaysDead == [RpcNext]_rpcVars /\ ~ Alive => ~ Alive'
  BY DEF RpcNext, ClientStep, WatchdogStep, DriverStep, StartTrip, WriteFits, WriteLarge, WriteFails,
         ReadFrame, ReadEnds, Disarm, HangUp, KillAndReap, Expire, KillDriver, Abandon, TakeRequest,
         SeesEof, Answer, CutShort, Wedge, Crash, client, rpcVars, Alive

\* Steps that neither start nor settle a trip nor concern the watchdog.
LEMMA OthersLeaveTrips ==
  ASSUME TInv, [RpcNext]_rpcVars, ~ (StartTrip \/ Disarm \/ WatchdogStep)
  PROVE  /\ UNCHANGED <<trip, results, killedIn>>
         /\ OnTrip' => OnTrip
         /\ watchdog' = watchdog \/ (watchdog' = "armed" /\ watchdog = "off")
<1>1. CASE WriteFits \/ WriteLarge
  <2>1. at = "write" /\ at' = "read" /\ watchdog' = ReadArmed /\ UNCHANGED <<trip, results, killedIn>>
    BY <1>1 DEF WriteFits, WriteLarge
  <2> QED BY <2>1 DEF OnTrip, ReadArmed, TInv, Placed
<1>2. CASE ~ (WriteFits \/ WriteLarge)
  BY <1>2 DEF RpcNext, ClientStep, WatchdogStep, DriverStep, WriteFails, ReadFrame, ReadEnds, HangUp,
     KillAndReap, Abandon, TakeRequest, SeesEof, Answer, CutShort, Wedge, Crash, client, rpcVars, OnTrip
<1> QED BY <1>1, <1>2

LEMMA KInvStep == KInv /\ [RpcNext]_rpcVars => KInv'
<1> SUFFICES ASSUME KInv, [RpcNext]_rpcVars PROVE KInv'
  OBVIOUS
<1> USE DEF KInv
<1>1. TInv' /\ (~ Alive => ~ Alive')
  BY TInvStep, DeadStaysDead
<1>2. trip \in 0 .. MaxTrips /\ MaxTrips \in Nat /\ killedIn \in 0 .. MaxTrips
  BY RpcAssumption DEF TInv, RpcTypeOK
<1>3. CASE StartTrip
  <2>1. /\ at = "idle" /\ trip' = trip + 1 /\ trip' \in Trips /\ watchdog' \in {"off", "armed"}
        /\ UNCHANGED <<results, killedIn, driver>>
    BY <1>2, <1>3, RpcAssumption DEF StartTrip, LastTrip, Trips
  <2> QED
    BY <1>1, <1>2, <2>1 DEF Unsettled, Struck, KillIsReported, Answered, Trips, Alive
<1>4. CASE Disarm
  <2>1. /\ reply \in Replies /\ reply.kind # "none" /\ Fired \in BOOLEAN /\ trip \in Trips
        /\ OnTrip /\ watchdog # "fired"
    BY <1>4 DEF Disarm, TInv, RpcTypeOK, Placed, Fired, OnTrip
  <2>2. /\ Fired => Classify(Fired) # "Transport"
        /\ Classify(Fired) = "Timeout" => Fired
    BY <2>1, ClassifyFacts
  <2>3. killedIn = trip => Fired
    BY <2>1 DEF Struck, Fired
  <2>4. Fired => ~ Alive
    BY DEF Struck, Fired
  <2>5. /\ \A n \in Trips \ {trip} : results'[n] = results[n]
        /\ results'[trip].kind = Classify(Fired)
        /\ UNCHANGED <<trip, killedIn, driver>>
    BY <1>4, <2>1 DEF Disarm, TInv, RpcTypeOK
  <2>6. KillIsReported'
    BY <2>1, <2>2, <2>3, <2>4, <2>5 DEF KillIsReported, Answered, Alive
  <2>7. at' \in {"idle", "drop"} /\ watchdog' = "off"
    BY <1>4 DEF Disarm
  <2>8. Unsettled' /\ Struck'
    BY <1>2, <2>1, <2>5, <2>7 DEF Unsettled, Struck, OnTrip, Trips
  <2> QED BY <1>1, <2>6, <2>8
<1>5. CASE WatchdogStep
  <2>1. UNCHANGED <<trip, results, at>>
    BY <1>5 DEF WatchdogStep, Expire, KillDriver
  <2>2. CASE Expire
    BY <1>1, <2>1, <2>2
    DEF Expire, Unsettled, Struck, KillIsReported, Answered, Alive, OnTrip
  <2>3. CASE KillDriver
    <3>1. OnTrip /\ trip \in Trips /\ watchdog' = "done" /\ ~ Alive'
          /\ killedIn' \in {killedIn, trip}
      BY <2>3 DEF KillDriver, TInv, Placed, Alive
    <3>2. results[trip].kind = "none"
      BY <3>1 DEF Unsettled
    <3> QED
      BY <1>1, <1>2, <2>1, <3>1, <3>2 DEF Unsettled, Struck, KillIsReported, Answered, OnTrip
  <2> QED BY <1>5, <2>2, <2>3 DEF WatchdogStep
<1>6. CASE ~ (StartTrip \/ Disarm \/ WatchdogStep)
  BY <1>1, <1>2, <1>6, OthersLeaveTrips DEF Unsettled, Struck, KillIsReported, Answered, OnTrip
<1> QED BY <1>3, <1>4, <1>5, <1>6

\* A driver that was killed at its deadline is reported as a timeout and never
\* as a driver that failed by itself; a timeout is reported of no driver that
\* goes on.
THEOREM KillsAreReported == RpcSpec => []KillIsReported
<1>1. KInv => KillIsReported
  BY DEF KInv
<1> QED BY <1>1, KInvInit, KInvStep, PTL DEF RpcSpec
=============================================================================
