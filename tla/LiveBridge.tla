------------------------------ MODULE LiveBridge ------------------------------
(***************************************************************************)
(* The live-output bridge of APPLY: one bounded channel carries the output *)
(* of every child to the walker.  Readers wait for room, the walker waits  *)
(* for children whose readers must finish first, so it has to keep         *)
(* receiving in every one of its waits.                                    *)
(*                                                                         *)
(* What the walker schedules and why it releases a service is ApplyWalk's  *)
(* concern: here all units are in flight from the start and a handled      *)
(* result may release any held service.                                    *)
(***************************************************************************)
EXTENDS Naturals, Sequences, FiniteSets

CONSTANTS
  Unit,         \* the units of the run
  ServiceSets,  \* which of them are persistent: one set is chosen
  Endless,      \* children that write for as long as they live
  Capacity,     \* live_output_capacity.max(1)
  MaxChunks     \* bound: chunks a child writes

ASSUME BridgeAssumption == /\ IsFiniteSet(Unit)
                           /\ ServiceSets \subseteq SUBSET Unit
                           /\ Endless \subseteq Unit
                           /\ Capacity \in Nat \ {0}
                           /\ MaxChunks \in Nat

VARIABLES
  services,    \* the persistent units
  bridge,      \* the channel: the unit of each chunk in flight
  left,        \* chunks each child is still to write
  killed,      \* children that got their signal
  worker,      \* what became of each unit's work item
  child,       \* the process of each service that became ready
  cancelled,   \* units whose token fired
  interrupted, \* Ctrl+C
  tripped,     \* teardown_cancelled
  held,        \* services of the held set
  pc,          \* where the walker waits
  current,     \* the unit being handled, or being torn down, and its outcome
  sinkError,   \* output_error, local to one drain_while
  lost,        \* the sink refused a chunk or never saw it
  verdict,     \* the terminal event of each unit
  result       \* the first error, or the outcome of the run

children == <<left, killed, worker, child>>
tokens == <<cancelled, interrupted, tripped>>
vars == <<services, bridge, children, tokens, held, pc, current, sinkError, lost, verdict, result>>

Outcome == {"success", "failure", "stopped", "ready", "notReady", "errCancelled", "error"}
InFlight == {u \in Unit : worker[u] \in {"running"} \cup Outcome}
InBridge(u) == \E i \in 1..Len(bridge) : bridge[i] = u
None == [unit |-> {}, outcome |-> "none"]

Init ==
  /\ services \in ServiceSets
  /\ bridge = <<>>
  /\ left = [u \in Unit |-> MaxChunks] /\ killed = {}
  /\ worker = [u \in Unit |-> "running"] /\ child = [u \in Unit |-> "none"]
  /\ cancelled = {} /\ interrupted = FALSE /\ tripped = FALSE
  /\ held = {} /\ pc = "select" /\ current = None /\ sinkError = FALSE
  /\ lost = FALSE /\ verdict = [u \in Unit |-> "none"] /\ result = "none"
-----------------------------------------------------------------------------
(* Receiving a chunk: the same push in four places. *)

\* The rest of the walk is its exit path: teardown_held inside drain_while.
ToTeardown == pc' = "held" /\ current' = None /\ sinkError' = FALSE

Push(ok) ==
  /\ bridge # <<>> /\ bridge' = Tail(bridge)
  /\ lost' = (lost \/ ~ok)

\* The select loop and drain_live_output: a sink failure ends the walk.
Receive ==
  /\ (pc = "select" /\ InFlight # {}) \/ pc \in {"drain", "waveEnd"}
  /\ \E ok \in BOOLEAN :
       /\ Push(ok)
       /\ IF ok THEN UNCHANGED <<pc, current, sinkError, result>>
          ELSE ToTeardown /\ result' = "error"
  /\ UNCHANGED <<services, children, tokens, held, verdict>>

\* Where drain_while waits for its work, and for what is left after it.
Waits == {"down", "held", "pool"}
Tails == {"downTail", "heldTail", "poolTail"}

\* Mutant: the walker first waits and then drains.
ReceiveAfterwards ==
  /\ pc \in Tails
  /\ \E ok \in {b \in BOOLEAN : b => ~sinkError} :
       Push(ok) /\ sinkError' = (sinkError \/ ~ok)
  /\ UNCHANGED <<services, children, tokens, held, pc, current, verdict, result>>

\* drain_while: the first sink failure is kept, later chunks are discarded.
ReceiveWaiting ==
  /\ pc \in Waits \cup Tails
  /\ \E ok \in {b \in BOOLEAN : b => ~sinkError} :
       Push(ok) /\ sinkError' = (sinkError \/ ~ok)
  /\ UNCHANGED <<services, children, tokens, held, pc, current, verdict, result>>
-----------------------------------------------------------------------------
(* The select loop and finish_result. *)

TripPool == tripped' = TRUE /\ cancelled' = cancelled \cup InFlight

ObserveInterrupt ==
  /\ pc = "select" /\ InFlight # {} /\ interrupted /\ ~tripped
  /\ TripPool
  /\ UNCHANGED <<services, bridge, children, interrupted, held, pc, current, sinkError, lost,
                 verdict, result>>

Join(u, outcome) ==
  /\ pc = "select" /\ worker[u] = outcome
  /\ worker' = [worker EXCEPT ![u] = "joined"]
  /\ current' = [unit |-> {u}, outcome |-> outcome]
  /\ UNCHANGED <<services, bridge, left, killed, child, tokens, sinkError, lost, result>>

\* A finished command, or one the runner failed: drain first, then report.
JoinEnded(u) ==
  /\ \E o \in {"success", "failure", "stopped", "error", "errCancelled"} :
       Join(u, o) /\ (o = "errCancelled" => ~tripped)
  /\ pc' = "drain"
  /\ UNCHANGED <<held, verdict>>

JoinCancelled(u) ==
  /\ pc = "select" /\ worker[u] = "errCancelled" /\ tripped
  /\ worker' = [worker EXCEPT ![u] = "joined"]
  /\ UNCHANGED <<services, bridge, left, killed, child, tokens, held, pc, current, sinkError,
                 lost, verdict, result>>

JoinReady(u) ==
  /\ Join(u, "ready")
  /\ held' = held \cup {u} /\ pc' = "settle"
  /\ UNCHANGED verdict

\* Not drained: a service's chunks may still be in the bridge at its verdict.
JoinNotReady(u) ==
  /\ Join(u, "notReady")
  /\ verdict' = [verdict EXCEPT ![u] = "FailedReadiness"] /\ pc' = "settle"
  /\ UNCHANGED held

\* Mutant: a result is reported without draining the bridge first.
DrainedAtOnce ==
  /\ pc = "drain"
  /\ IF current.outcome = "stopped"
     THEN pc' = "select" /\ current' = None /\ UNCHANGED verdict
     ELSE /\ verdict' = [u \in Unit |-> IF u \in current.unit THEN "Finished" ELSE verdict[u]]
          /\ pc' = "settle" /\ UNCHANGED current
  /\ UNCHANGED <<services, bridge, children, tokens, held, sinkError, lost, result>>

\* drain_live_output saw the bridge empty: finish the unit and report it.  A
\* stopped unit is left to the final sweep.
Drained ==
  /\ pc = "drain" /\ bridge = <<>>
  /\ IF current.outcome = "stopped"
     THEN pc' = "select" /\ current' = None /\ UNCHANGED verdict
     ELSE /\ verdict' = [u \in Unit |-> IF u \in current.unit THEN "Finished" ELSE verdict[u]]
          /\ pc' = "settle" /\ UNCHANGED current
  /\ UNCHANGED <<services, bridge, children, tokens, held, sinkError, lost, result>>

\* drain_dependents: the result releases a held service.
Release(h) ==
  /\ pc = "settle" /\ h \in held
  /\ held' = held \ {h} /\ child' = [child EXCEPT ![h] = "stopping"]
  /\ pc' = "down" /\ current' = [current EXCEPT !.unit = {h}] /\ sinkError' = FALSE
  /\ UNCHANGED <<services, bridge, left, killed, worker, tokens, lost, verdict, result>>

Settled ==
  /\ pc = "settle"
  /\ IF current.outcome \in {"error", "errCancelled"}
     THEN ToTeardown /\ result' = "error"
     ELSE pc' = "select" /\ current' = None /\ UNCHANGED <<sinkError, result>>
  /\ \/ UNCHANGED <<tripped, cancelled>>
     \/ current.outcome \in {"failure", "notReady"} /\ TripPool   \* fail-fast
  /\ UNCHANGED <<services, bridge, children, interrupted, held, lost, verdict>>

EndWave ==
  /\ pc = "select" /\ InFlight = {}
  /\ pc' = "waveEnd"
  /\ UNCHANGED <<services, bridge, children, tokens, held, current, sinkError, lost, verdict,
                 result>>

EndWaves ==
  /\ pc = "waveEnd" /\ bridge = <<>>
  /\ ToTeardown
  /\ UNCHANGED <<services, bridge, children, tokens, held, lost, verdict, result>>
-----------------------------------------------------------------------------
(* drain_while around a service's shutdown, teardown_all and the pool's shutdown. *)

\* stop_all stops the next service once the one before is down.
StopNext(h) ==
  /\ pc = "held" /\ h \in held /\ child[h] = "up"
  /\ \A s \in held : child[s] # "stopping"
  /\ child' = [child EXCEPT ![h] = "stopping"]
  /\ UNCHANGED <<services, bridge, left, killed, worker, tokens, held, pc, current, sinkError,
                 lost, verdict, result>>

WorkDone ==
  /\ \/ pc = "down" /\ pc' = "downTail" /\ \A h \in current.unit : child[h] = "stopped"
     \/ pc = "held" /\ pc' = "heldTail" /\ \A h \in held : child[h] = "stopped"
     \/ pc = "pool" /\ pc' = "poolTail"   \* every task ended, or the grace is over
  /\ UNCHANGED <<services, bridge, children, tokens, held, current, sinkError, lost, verdict,
                 result>>

\* Mutant: a sink failure during the shutdown is forgotten.
FailedForgiving(workFails) == workFails

\* The work's own error wins, then the first sink error; either fails the wait.
Failed(workFails) == workFails \/ sinkError

\* The first error of waves, teardown and shutdown is the run's.
FirstError(workFails) == IF Failed(workFails) THEN "error" ELSE result

TornDown(workFails) ==
  /\ pc = "downTail" /\ bridge = <<>>
  /\ IF Failed(workFails) THEN ToTeardown /\ UNCHANGED verdict
     ELSE /\ verdict' = [u \in Unit |-> IF u \in current.unit THEN "TornDown" ELSE verdict[u]]
          /\ pc' = "settle" /\ UNCHANGED <<current, sinkError>>
  /\ result' = FirstError(workFails)
  /\ UNCHANGED <<services, bridge, children, tokens, held, lost>>

HeldStopped(workFails) ==
  /\ pc = "heldTail" /\ bridge = <<>>
  /\ result' = FirstError(workFails)
  /\ pc' = "pool" /\ sinkError' = FALSE
  /\ UNCHANGED <<services, bridge, children, tokens, held, current, lost, verdict>>

\* Then the terminal events of held and never-settled units, if nothing failed.
PoolShutDown(workFails) ==
  /\ pc = "poolTail" /\ bridge = <<>>
  /\ pc' = "done"
  /\ result' = IF FirstError(workFails) = "none" THEN "ok" ELSE "error"
  /\ verdict' = [u \in Unit |-> IF result' = "ok" /\ verdict[u] = "none" THEN "Finished"
                                ELSE verdict[u]]
  /\ UNCHANGED <<services, bridge, children, tokens, held, current, sinkError, lost>>
-----------------------------------------------------------------------------
(* The children, their readers and the workers; Ctrl+C. *)

Reading(u) == worker[u] = "running" \/ child[u] \in {"up", "stopping"}

\* Mutant: the channel has no bound, as if readers did not wait.
EmitUnbounded(u) ==
  /\ Reading(u) /\ left[u] > 0 /\ Len(bridge) <= Capacity
  /\ bridge' = Append(bridge, u)
  /\ left' = [left EXCEPT ![u] = IF u \in Endless \ killed THEN @ ELSE @ - 1]
  /\ UNCHANGED <<services, killed, worker, child, tokens, held, pc, current, sinkError, lost,
                 verdict, result>>

\* A reader hands a chunk over, once there is room.
Emit(u) ==
  /\ Reading(u) /\ left[u] > 0 /\ Len(bridge) < Capacity
  /\ bridge' = Append(bridge, u)
  /\ left' = [left EXCEPT ![u] = IF u \in Endless \ killed THEN @ ELSE @ - 1]
  /\ UNCHANGED <<services, killed, worker, child, tokens, held, pc, current, sinkError, lost,
                 verdict, result>>

\* SIGTERM, then SIGKILL, of a service being stopped or a child cancelled (a
\* timed-out one too, which here just ends): what is in the pipe is still read.
Kill(u) ==
  /\ u \notin killed
  /\ child[u] = "stopping" \/ (worker[u] = "running" /\ u \in cancelled)
  /\ killed' = killed \cup {u}
  /\ \E n \in 0..left[u] : left' = [left EXCEPT ![u] = n]
  /\ UNCHANGED <<services, bridge, worker, child, tokens, held, pc, current, sinkError, lost,
                 verdict, result>>

\* A shutdown returns once the service's readers are done.
ServiceEnds(h) ==
  /\ child[h] = "stopping" /\ h \in killed /\ left[h] = 0
  /\ child' = [child EXCEPT ![h] = "stopped"]
  /\ UNCHANGED <<services, bridge, left, killed, worker, tokens, held, pc, current, sinkError,
                 lost, verdict, result>>

Stopped(u) == IF u \in cancelled THEN {"stopped", "errCancelled"} ELSE {}
Ends(u) == IF u \in services THEN {"notReady", "error"} \cup (Stopped(u) \ {"stopped"})
           ELSE {"success", "failure", "error"} \cup Stopped(u)

\* The readers finish before the runner returns.
WorkerEnds(u) ==
  /\ worker[u] = "running" /\ left[u] = 0
  /\ \E o \in Ends(u) : worker' = [worker EXCEPT ![u] = o]
  /\ UNCHANGED <<services, bridge, left, killed, child, tokens, held, pc, current, sinkError,
                 lost, verdict, result>>

\* ... but for a service that is ready: its readers go on.
ServiceReady(u) ==
  /\ worker[u] = "running" /\ u \in services \ killed
  /\ worker' = [worker EXCEPT ![u] = "ready"] /\ child' = [child EXCEPT ![u] = "up"]
  /\ UNCHANGED <<services, bridge, left, killed, tokens, held, pc, current, sinkError, lost,
                 verdict, result>>

\* After an error nobody joins it any more: its handle is dropped, which stops it.
DropUnjoined(u) ==
  /\ result = "error" /\ worker[u] = "ready" /\ child[u] = "up"
  /\ child' = [child EXCEPT ![u] = "stopping"]
  /\ UNCHANGED <<services, bridge, left, killed, worker, tokens, held, pc, current, sinkError,
                 lost, verdict, result>>

Interrupt ==
  /\ ~interrupted /\ pc # "done"
  /\ interrupted' = TRUE
  /\ UNCHANGED <<services, bridge, children, cancelled, tripped, held, pc, current, sinkError,
                 lost, verdict, result>>

Walker ==
  \/ Receive \/ ReceiveWaiting \/ ObserveInterrupt \/ Drained \/ Settled \/ EndWave \/ EndWaves
  \/ \E u \in Unit : JoinEnded(u) \/ JoinCancelled(u) \/ JoinReady(u) \/ JoinNotReady(u)
                     \/ Release(u)
  \/ WorkDone
  \/ \E fails \in BOOLEAN : TornDown(fails) \/ HeldStopped(fails) \/ PoolShutDown(fails)

Children ==
  \E u \in Unit : pc # "done" /\ (\/ Emit(u) \/ Kill(u) \/ ServiceEnds(u) \/ StopNext(u)
                                  \/ WorkerEnds(u) \/ ServiceReady(u) \/ DropUnjoined(u))

Terminated == pc = "done" /\ UNCHANGED vars

Next == Walker \/ Children \/ Interrupt \/ Terminated

Spec == Init /\ [][Next]_vars

\* The walker is a task the runtime keeps polling, and its selects poll their
\* branches in random order: none starves another.  A loop that drains the bridge
\* ends if it finds it empty again and again.  Readers are threads or tasks of
\* their own, and what is signalled dies.  Nothing makes a command end.
Fairness ==
  /\ WF_vars(Walker) /\ WF_vars(ObserveInterrupt) /\ WF_vars(WorkDone)
  /\ WF_vars(\E u \in Unit : JoinEnded(u) \/ JoinCancelled(u) \/ JoinReady(u) \/ JoinNotReady(u))
  /\ SF_vars(bridge = <<>> /\ Walker)
  /\ \A u \in Unit :
       /\ WF_vars(pc # "done" /\ Emit(u))
       /\ WF_vars(child[u] = "stopping" /\ Kill(u)) /\ WF_vars(u \in cancelled /\ Kill(u))
       /\ WF_vars(u \in killed /\ WorkerEnds(u))
       /\ WF_vars(ServiceEnds(u)) /\ WF_vars(StopNext(u)) /\ WF_vars(DropUnjoined(u))

FairSpec == Spec /\ Fairness
-----------------------------------------------------------------------------
TypeOK ==
  /\ services \in SUBSET Unit
  /\ bridge \in Seq(Unit) /\ Len(bridge) <= Capacity
  /\ left \in [Unit -> 0..MaxChunks] /\ killed \subseteq Unit
  /\ worker \in [Unit -> {"running", "joined"} \cup Outcome]
  /\ child \in [Unit -> {"none", "up", "stopping", "stopped"}]
  /\ cancelled \subseteq Unit /\ interrupted \in BOOLEAN /\ tripped \in BOOLEAN
  /\ held \subseteq Unit
  /\ pc \in {"select", "drain", "settle", "waveEnd", "done"} \cup Waits \cup Tails
  /\ current \in [unit : SUBSET Unit, outcome : {"none"} \cup Outcome]
  /\ sinkError \in BOOLEAN /\ lost \in BOOLEAN
  /\ verdict \in [Unit -> {"none", "Finished", "FailedReadiness", "TornDown"}]
  /\ result \in {"none", "error", "ok"}

\* No chunk of a unit is left to come, from its child or in the bridge, when the
\* unit is finished in the output channel or torn down: the contract of finish
\* (output/channel.rs:239), for a late chunk would open the unit's buffer and log
\* again and nobody would flush them.
NothingAfterVerdict ==
  \A u \in Unit : verdict[u] \in {"Finished", "TornDown"} => ~Reading(u) /\ ~InBridge(u)

\* A run that reports a summary delivered every chunk its children wrote: none
\* was discarded, none stays in the bridge (OutputObserver: "delivery is lossless").
Lossless == result = "ok" => ~lost /\ bridge = <<>> /\ \A u \in Unit : ~Reading(u)

\* A child awaiting its shutdown comes down however full the bridge is
\* (options.rs: "a full channel never deadlocks a process awaiting shutdown"), and
\* once Ctrl+C fires scheduling stops, what is in flight is stopped and the run
\* ends (apply/entry.rs:20).
ShutdownNeverStalls ==
  /\ \A h \in Unit : child[h] = "stopping" ~> (child[h] = "stopped" \/ pc = "done")
  /\ interrupted ~> pc = "done"
=============================================================================
