---------------------------- MODULE RuntimeEngine ----------------------------
(***************************************************************************)
(* The generic multi-unit lifecycle engine (toven-runtime/src/engine.rs)   *)
(* behind coverage, release and version verbs: level the units into waves, *)
(* gather once, run each wave on a bounded pool, block the dependents of a *)
(* failure, and report every unit exactly once.  Its cancellation token is *)
(* shared: the caller may fire it, and the engine fires it when it aborts. *)
(***************************************************************************)
EXTENDS Naturals, Sequences, FiniteSets, Gate

CONSTANTS
  Unit,    \* unit ids
  Graphs,  \* the dependency maps a verb may submit, malformed ones included
  Configs  \* the EngineConfig values

ASSUME EngineAssumption ==
  /\ IsFiniteSet(Unit)
  /\ \A g \in Graphs : DOMAIN g = Unit
  /\ \A c \in Configs : c.jobs \in Nat /\ c.failFast \in BOOLEAN

VARIABLES
  deps,     \* each unit's depends_on; may name ids outside Unit
  config,
  pc,       \* where the driver waits
  layered,  \* units of the waves driven before this one
  todo,     \* units of the wave not submitted yet
  gate,
  worker,   \* each unit's pool task
  cancel,   \* the shared run token fired
  tokens,   \* per-task tokens fired
  aborting,
  summary,  \* RunSummary
  reports,  \* the terminal statuses streamed for each unit
  result

vars == <<deps, config, pc, layered, todo, gate, worker, cancel, tokens, aborting,
          summary, reports, result>>

Finished == {"succeeded", "failed", "stopped", "error"}
Tally == {"succeeded", "failed", "blocked", "cancelled"}

\* The next wave of the layering: units all of whose dependencies are in earlier ones.
Layer == {u \in Unit \ layered : deps[u] \subseteq layered}
\* level_waves rejects an unknown id and a cycle.
Malformed ==
  \/ \E u \in Unit : ~(deps[u] \subseteq Unit)
  \/ \E C \in (SUBSET Unit) \ {{}} : \A u \in C : deps[u] \cap C # {}

Queued == {u \in Unit : worker[u] = "queued"}
Running == {u \in Unit : worker[u] = "running"}
Joinable == {u \in Unit : worker[u] \in Finished}
InFlight == Queued \cup Running \cup Joinable
Pending == PendingUnits(gate)
HasFailures == summary["failed"] > 0 \/ summary["blocked"] > 0
Jobs == IF config.jobs = 0 THEN 1 ELSE config.jobs

Init ==
  /\ deps \in Graphs /\ config \in Configs
  /\ pc = "level" /\ layered = {} /\ todo = {} /\ result = "none"
  /\ gate = NewGate(deps)
  /\ worker = [u \in Unit |-> "idle"]
  /\ cancel = FALSE /\ tokens = {} /\ aborting = FALSE
  /\ summary = [t \in Tally |-> 0]
  /\ reports = [u \in Unit |-> <<>>]

Fail == result' = "error" /\ pc' = "shutdown"
AbortInFlight == cancel' = TRUE /\ tokens' = tokens \cup InFlight
-----------------------------------------------------------------------------
\* Validation and the shared gather come before any unit; either can end the run.
Level ==
  /\ pc = "level"
  /\ \/ ~Malformed /\ pc' = "waves" /\ UNCHANGED result
     \/ pc' = "done" /\ result' = "error"
  /\ UNCHANGED <<deps, config, layered, todo, gate, worker, cancel, tokens, aborting, summary, reports>>

NoMoreWaves == layered = Unit \/ cancel \/ (config.failFast /\ HasFailures)

\* Mutant: a wave takes its units whatever the gate says of them.
StartWaveUngated ==
  /\ pc = "waves" /\ ~NoMoreWaves
  /\ todo' = Layer
  /\ pc' = "submit"
  /\ UNCHANGED <<deps, config, layered, gate, worker, cancel, tokens, aborting, summary, reports, result>>

StartWave ==
  /\ pc = "waves" /\ ~NoMoreWaves
  /\ todo' = Layer \cap Pending
  /\ pc' = "submit"
  /\ UNCHANGED <<deps, config, layered, gate, worker, cancel, tokens, aborting, summary, reports, result>>

Submit(u) ==
  /\ pc = "submit" /\ u \in todo
  /\ todo' = todo \ {u}
  /\ worker' = [worker EXCEPT ![u] = "queued"]
  /\ UNCHANGED <<deps, config, pc, layered, gate, cancel, tokens, aborting, summary, reports, result>>

\* The pool took the unit but its start cannot be reported: nobody joins it.
SubmitUnreported(u) ==
  /\ pc = "submit" /\ u \in todo
  /\ todo' = todo \ {u}
  /\ worker' = [worker EXCEPT ![u] = "queued"]
  /\ Fail
  /\ UNCHANGED <<deps, config, layered, gate, cancel, tokens, aborting, summary, reports>>

WaveSubmitted ==
  /\ pc = "submit" /\ todo = {}
  /\ pc' = "select"
  /\ UNCHANGED <<deps, config, layered, todo, gate, worker, cancel, tokens, aborting, summary, reports, result>>

\* Mutant: the layering advances by what succeeded.
EndWaveSucceeded ==
  /\ pc = "select" /\ InFlight = {}
  /\ pc' = "waves" /\ layered' = {u \in Unit : gate[u] = "Satisfied"}
  /\ UNCHANGED <<deps, config, todo, gate, worker, cancel, tokens, aborting, summary, reports, result>>

EndWave ==
  /\ pc = "select" /\ InFlight = {}
  /\ pc' = "waves" /\ layered' = layered \cup Layer
  /\ UNCHANGED <<deps, config, todo, gate, worker, cancel, tokens, aborting, summary, reports, result>>

ObserveCancel ==
  /\ pc = "select" /\ InFlight # {} /\ cancel /\ ~aborting
  /\ aborting' = TRUE /\ AbortInFlight
  /\ UNCHANGED <<deps, config, pc, layered, todo, gate, worker, summary, reports, result>>

Join(u, outcomes) ==
  /\ pc = "select" /\ worker[u] \in outcomes
  /\ worker' = [worker EXCEPT ![u] = "joined"]
  /\ UNCHANGED <<deps, config, layered, todo>>

SettleSucceeded(u) ==
  /\ Join(u, {"succeeded"})
  /\ summary' = [summary EXCEPT !["succeeded"] = @ + 1]
  /\ gate' = Satisfy(gate, u)
  /\ reports' = [reports EXCEPT ![u] = Append(@, "Succeeded")]
  /\ UNCHANGED <<pc, cancel, tokens, aborting, result>>

\* The failure and everything it blocks are reported together, then fail-fast
\* fires the shared token and every per-task one.
SettleFailed(u) ==
  LET blocked == BlockedBy(deps, gate, u)
  IN /\ Join(u, {"failed"})
     /\ summary' = [summary EXCEPT !["failed"] = @ + 1,
                                   !["blocked"] = @ + Cardinality(blocked)]
     /\ gate' = FailAndBlock(deps, gate, u)
     /\ reports' = [v \in Unit |-> IF v = u THEN Append(reports[v], "Failed")
                                   ELSE IF v \in blocked THEN Append(reports[v], "Blocked")
                                   ELSE reports[v]]
     /\ IF config.failFast /\ ~aborting
        THEN aborting' = TRUE /\ AbortInFlight
        ELSE UNCHANGED <<cancel, tokens, aborting>>
     /\ UNCHANGED <<pc, result>>

\* While aborting, whatever error a unit returned is dropped.
DropError(u) ==
  /\ Join(u, {"stopped", "error"}) /\ aborting
  /\ UNCHANGED <<pc, gate, cancel, tokens, aborting, summary, reports, result>>

HardError(u) ==
  /\ Join(u, {"stopped", "error"}) /\ ~aborting
  /\ AbortInFlight /\ Fail
  /\ UNCHANGED <<gate, aborting, summary, reports>>

\* The progress sink fails while a unit is settled or swept: the driver returns
\* without aborting anything, and nothing the handler changed is read again.
SinkFails ==
  /\ \/ pc = "select" /\ Joinable # {}
     \/ pc = "sweep" /\ Pending # {}
  /\ Fail
  /\ UNCHANGED <<deps, config, layered, todo, gate, worker, cancel, tokens, aborting, summary, reports>>

EndWaves ==
  /\ pc = "waves" /\ NoMoreWaves
  /\ pc' = "sweep"
  /\ UNCHANGED <<deps, config, layered, todo, gate, worker, cancel, tokens, aborting, summary, reports, result>>

CancelUnscheduled ==
  /\ pc = "sweep"
  /\ summary' = [summary EXCEPT !["cancelled"] = @ + Cardinality(Pending)]
  /\ reports' = [u \in Unit |-> IF u \in Pending THEN Append(reports[u], "Cancelled")
                                ELSE reports[u]]
  /\ pc' = "shutdown" /\ result' = "ok"
  /\ UNCHANGED <<deps, config, layered, todo, gate, worker, cancel, tokens, aborting>>

\* The pool drains its tasks within its grace; what still runs is left behind.
PoolShutDown ==
  /\ pc = "shutdown"
  /\ worker' = [u \in Unit |-> IF u \in Queued \cup Running THEN "abandoned"
                              ELSE IF u \in Joinable THEN "joined" ELSE worker[u]]
  /\ pc' = "done"
  /\ UNCHANGED <<deps, config, layered, todo, gate, cancel, tokens, aborting, summary, reports, result>>
-----------------------------------------------------------------------------
PoolStarts(u) ==
  /\ u \in Queued /\ Cardinality(Running) < Jobs
  /\ worker' = [worker EXCEPT ![u] = "running"]
  /\ UNCHANGED <<deps, config, pc, layered, todo, gate, cancel, tokens, aborting, summary, reports, result>>

\* An operation ends as it likes; only a fired token makes it end as stopped.
WorkerEnds(u) ==
  /\ u \in Running
  /\ \E o \in Finished :
       /\ o = "stopped" => u \in tokens
       /\ worker' = [worker EXCEPT ![u] = o]
  /\ UNCHANGED <<deps, config, pc, layered, todo, gate, cancel, tokens, aborting, summary, reports, result>>

ExternalCancel ==
  /\ ~cancel /\ pc # "done"
  /\ cancel' = TRUE
  /\ UNCHANGED <<deps, config, pc, layered, todo, gate, worker, tokens, aborting, summary, reports, result>>

Driver ==
  \/ Level \/ StartWave \/ WaveSubmitted \/ EndWave \/ ObserveCancel
  \/ \E u \in Unit : \/ Submit(u) \/ SubmitUnreported(u)
                     \/ SettleSucceeded(u) \/ SettleFailed(u)
                     \/ DropError(u) \/ HardError(u)
  \/ EndWaves \/ CancelUnscheduled \/ PoolShutDown

Terminated == pc = "done" /\ UNCHANGED vars

Next ==
  \/ Driver \/ SinkFails \/ ExternalCancel \/ Terminated
  \/ \E u \in Unit : PoolStarts(u) \/ WorkerEnds(u)

Spec == Init /\ [][Next]_vars

\* Every operation ends (a blocking one may ignore its token until it does).
FairSpec == Spec /\ WF_vars(Driver) /\ \A u \in Unit : WF_vars(PoolStarts(u) \/ WorkerEnds(u))
-----------------------------------------------------------------------------
TypeOK ==
  /\ deps \in Graphs /\ config \in Configs
  /\ pc \in {"level", "waves", "submit", "select", "sweep", "shutdown", "done"}
  /\ layered \subseteq Unit /\ todo \subseteq Unit
  /\ gate \in [Unit -> GateState]
  /\ worker \in [Unit -> {"idle", "queued", "running", "joined", "abandoned"} \cup Finished]
  /\ cancel \in BOOLEAN /\ tokens \subseteq Unit /\ aborting \in BOOLEAN
  /\ summary \in [Tally -> Nat]
  /\ reports \in [Unit -> Seq({"Succeeded", "Failed", "Blocked", "Cancelled"})]
  /\ result \in {"none", "ok", "error"}

Launched == {u \in Unit : worker[u] # "idle"}

\* A unit runs only after everything it depends on succeeded; the engine relies
\* on the layering, the gate and the breaks between waves for it (drive).
FailClosed ==
  \A u \in Launched : \A d \in deps[u] : d \in Unit /\ gate[d] = "Satisfied"

\* A summary accounts for every unit: one terminal report each, and counters
\* that equal the number of reports of their kind; and a unit reported Cancelled
\* no longer runs or writes (operation.rs, the contract of run).
EveryUnitReported ==
  /\ \A u \in Unit : /\ Len(reports[u]) \leq 1
                    /\ reports[u] = <<"Cancelled">> => u \notin Queued \cup Running
  /\ result = "ok" =>
       /\ \A u \in Unit : Len(reports[u]) = 1
       /\ \A t \in Tally : summary[t] = Cardinality({u \in Unit : reports[u][1] =
            CASE t = "succeeded" -> "Succeeded" [] t = "failed" -> "Failed"
              [] t = "blocked" -> "Blocked" [] OTHER -> "Cancelled"})

\* Every run ends, whatever fails or is cancelled on the way.
RunEnds == <>(pc = "done")

PhaseOf(u) ==
  CASE gate[u] = "Satisfied" -> "succeeded"
    [] gate[u] = "Failed" -> "failed"
    [] gate[u] = "Blocked" -> "blocked"
    [] OTHER -> IF result = "ok" THEN "stopped"
                ELSE IF worker[u] = "idle" THEN "waiting" ELSE "active"

Schedule == INSTANCE UnitSchedule WITH phase <- [u \in Unit |-> PhaseOf(u)]

\* The engine implements the schedule the APPLY walk implements too.
ImplementsSchedule == Schedule!Spec
=============================================================================
