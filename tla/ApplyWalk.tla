------------------------------ MODULE ApplyWalk ------------------------------
(***************************************************************************)
(* The APPLY wave walk (toven-engine/src/apply): one walker task drives an *)
(* immutable plan wave by wave, hands each runnable unit to a worker pool, *)
(* gates dependents on failures, holds persistent services while their     *)
(* dependents run and tears everything down on every exit path.            *)
(*                                                                         *)
(* Three kinds of actors interleave: the walker, one worker per submitted  *)
(* unit, and the external cancel (Ctrl+C).  The walker yields at its       *)
(* awaits: a pool submission, the select loop, every blocking service      *)
(* shutdown, the pool shutdown.  Each stretch between two awaits is one    *)
(* action.                                                                 *)
(***************************************************************************)
EXTENDS Naturals, Sequences, FiniteSets, Gate

CONSTANTS
  Unit,      \* the ids of the planned units
  Group,     \* resource groups; an ungrouped unit has one of its own
  Plans,     \* the plans PLAN may hand over
  Options    \* the ApplyOptions of a run

\* The tasks of the planner: layered waves, a hit is never persistent, and
\* only cacheable (never persistent) units carry a key to record.
WellFormed(p) ==
  /\ p.deps \in [Unit -> SUBSET Unit]
  /\ p.wave \in [Unit -> Nat \ {0}]
  /\ p.group \in [Unit -> Group]
  /\ p.persistent \subseteq Unit
  /\ p.hit \subseteq Unit \ p.persistent
  /\ p.keyed \subseteq Unit \ (p.persistent \cup p.hit)
  /\ \A u \in Unit : \A d \in p.deps[u] : p.wave[d] < p.wave[u]

IsOptions(o) ==
  /\ o.maxParallel \in Nat
  /\ o.failFast \in BOOLEAN
  /\ o.unitTimeout \in BOOLEAN

ASSUME PlanAssumption == /\ IsFiniteSet(Unit)
                         /\ \A p \in Plans : WellFormed(p)
                         /\ \A o \in Options : IsOptions(o)

VARIABLES
  plan,        \* the immutable plan
  options,     \* the immutable options
  pc,          \* where the walker waits
  wave,        \* the wave being walked
  gate,        \* Gate::states
  queued,      \* units of the wave sitting in a group queue
  activated,   \* groups the cursor has passed
  parallel,    \* wave_parallel
  worker,      \* what became of each unit's work item
  cancelled,   \* units whose cancellation token fired
  interrupted, \* the external cancellation token fired
  closed,      \* the pool no longer accepts work
  teardown,    \* teardown_cancelled, local to one wave
  held,        \* units with an entry in the held set
  remaining,   \* their dependents that have not drained
  tillEnd,     \* entries with hold_until_end
  order,       \* the order in which services were held
  process,     \* the child process of each persistent unit
  current,     \* the unit whose result is being handled, and how it went
  draining,    \* held units dependent_finished returned, not torn down yet
  blocking,    \* units just blocked and not announced yet
  stats,       \* RunStats counters
  verdicts,    \* the UnitFinished statuses emitted for each unit
  tornDown,    \* units teardown_all shut down
  recorded,    \* units whose cache key was recorded
  result       \* the first error, or the outcome of the run

setup     == <<plan, options>>
scheduler == <<wave, queued, activated, parallel>>
tokens    == <<cancelled, interrupted, closed, teardown>>
services  == <<held, remaining, tillEnd, order, process>>
handler   == <<current, draining, blocking>>
report    == <<stats, verdicts, tornDown, recorded>>
vars == <<setup, scheduler, tokens, services, handler, report, pc, gate, worker, result>>

Status == {"Succeeded", "Cached", "Failed", "TimedOut", "FailedReadiness",
           "Blocked", "Cancelled", "TornDown"}
Counter == {"ran", "cached", "failed", "timedOut", "failedReadiness",
            "blocked", "cancelled"}
Outcome == {"success", "failure", "timedOut", "stopped", "ready", "notReady",
            "errCancelled", "error"}

Waves == {plan.wave[u] : u \in Unit}
InFlight == {u \in Unit : worker[u] \in {"running"} \cup Outcome}
Pending == PendingUnits(gate)
Smaller(m, n) == IF m < n THEN m ELSE n
HasFailures ==
  \E c \in {"failed", "timedOut", "failedReadiness", "blocked"} : stats[c] > 0
Idle == [unit |-> {}, fails |-> FALSE, failed |-> FALSE, next |-> "waves"]

Init ==
  /\ plan \in Plans /\ options \in Options
  /\ pc = "waves" /\ wave = 1 /\ result = "none"
  /\ gate = NewGate(plan.deps)
  /\ queued = {} /\ activated = {} /\ parallel = 1
  /\ worker = [u \in Unit |-> "idle"]
  /\ cancelled = {} /\ interrupted = FALSE /\ closed = FALSE /\ teardown = FALSE
  /\ held = {} /\ remaining = [u \in Unit |-> {}] /\ tillEnd = {} /\ order = <<>>
  /\ process = [u \in Unit |-> "none"]
  /\ current = Idle /\ draining = {} /\ blocking = {}
  /\ stats = [c \in Counter |-> 0]
  /\ verdicts = [u \in Unit |-> <<>>]
  /\ tornDown = {} /\ recorded = {}
-----------------------------------------------------------------------------
(* Parts of the walker's handlers. *)

Count(c) == stats' = [stats EXCEPT ![c] = @ + 1]
Emit(u, s) == verdicts' = [verdicts EXCEPT ![u] = Append(@, s)]
Abort == pc' = "teardown" /\ result' = "error"

\* dependent_finished: strike u off every entry; those left empty must go.
DependentFinished(u) ==
  LET waiting == held \ tillEnd
  IN /\ remaining' = [h \in Unit |-> IF h \in waiting THEN remaining[h] \ {u}
                                     ELSE remaining[h]]
     /\ draining' = {h \in waiting : remaining[h] \ {u} = {}}

\* Handle unit u: drain its dependents' services, then go on at `next`.
Settle(u, fails, next) ==
  /\ current' = [unit |-> {u}, fails |-> fails, failed |-> fails, next |-> next]
  /\ DependentFinished(u)
  /\ pc' = "drain"

TripPool ==
  /\ closed' = TRUE /\ teardown' = TRUE
  /\ cancelled' = cancelled \cup InFlight

Submit(u) ==
  /\ queued' = queued \ {u}
  /\ activated' = activated \cup {plan.group[u]}
  /\ worker' = [worker EXCEPT ![u] = "running"]
-----------------------------------------------------------------------------
(* The wave loop. *)

NoMoreWaves ==
  \/ \A n \in Waves : n < wave
  \/ interrupted
  \/ options.failFast /\ HasFailures

EndWaves ==
  /\ pc = "waves" /\ NoMoreWaves
  /\ pc' = "teardown"
  /\ UNCHANGED <<setup, scheduler, tokens, services, handler, report, gate, worker, result>>

StartWave ==
  /\ pc = "waves" /\ ~NoMoreWaves
  /\ pc' = "collect" /\ teardown' = FALSE
  /\ UNCHANGED <<setup, scheduler, cancelled, interrupted, closed, services, handler,
                 report, gate, worker, result>>

\* Mutant: a cached unit is reported although a dependency failed.
HitsUngated == {u \in Unit : plan.wave[u] = wave /\ u \in plan.hit}

Hits == {u \in Pending : plan.wave[u] = wave /\ u \in plan.hit}

CacheHit(u) ==
  /\ pc = "collect" /\ u \in Hits
  /\ Count("cached") /\ Emit(u, "Cached")
  /\ gate' = Satisfy(gate, u)
  /\ Settle(u, FALSE, "collect")
  /\ UNCHANGED <<setup, scheduler, tokens, held, tillEnd, order, process, blocking,
                 tornDown, recorded, worker, result>>

\* Mutant: a wave with nothing to run gets no slot at all.
StartGroupsUnclamped ==
  LET runnable == {u \in Pending : plan.wave[u] = wave}
      groups == {plan.group[u] : u \in runnable}
  IN /\ pc = "collect" /\ Hits = {}
     /\ queued' = runnable /\ activated' = {}
     /\ parallel' = Smaller(options.maxParallel, Cardinality(groups))
     /\ pc' = "submit"
     /\ UNCHANGED <<setup, wave, tokens, services, handler, report, gate, worker, result>>

StartGroups ==
  LET runnable == {u \in Pending : plan.wave[u] = wave}
      groups == {plan.group[u] : u \in runnable}
      bounded == Smaller(options.maxParallel, Cardinality(groups))
  IN /\ pc = "collect" /\ Hits = {}
     /\ queued' = runnable /\ activated' = {}
     /\ parallel' = IF bounded = 0 THEN 1 ELSE bounded
     /\ pc' = "submit"
     /\ UNCHANGED <<setup, wave, tokens, services, handler, report, gate, worker, result>>

\* The next unit of a group the cursor has not reached.
Fresh == {u \in queued : plan.group[u] \notin activated}

FillSlot(u) ==
  /\ pc = "submit" /\ u \in Fresh /\ Cardinality(InFlight) < parallel
  /\ Submit(u)
  /\ UNCHANGED <<setup, wave, parallel, tokens, services, handler, report, pc, gate, result>>

SlotsFilled ==
  /\ pc = "submit" /\ (Fresh = {} \/ Cardinality(InFlight) >= parallel)
  /\ pc' = "select"
  /\ UNCHANGED <<setup, scheduler, tokens, services, handler, report, gate, worker, result>>

EndWave ==
  /\ pc = "select" /\ InFlight = {}
  /\ pc' = "waves" /\ wave' = wave + 1 /\ queued' = {}
  /\ UNCHANGED <<setup, activated, parallel, tokens, services, handler, report, gate,
                 worker, result>>

\* Mutant: Ctrl+C closes the pool and fires no token.
ObserveInterruptOnly ==
  /\ pc = "select" /\ InFlight # {} /\ interrupted /\ ~teardown
  /\ closed' = TRUE /\ teardown' = TRUE /\ UNCHANGED cancelled
  /\ UNCHANGED <<setup, scheduler, interrupted, services, handler, report, pc, gate,
                 worker, result>>

ObserveInterrupt ==
  /\ pc = "select" /\ InFlight # {} /\ interrupted /\ ~teardown
  /\ TripPool
  /\ UNCHANGED <<setup, scheduler, interrupted, services, handler, report, pc, gate,
                 worker, result>>
-----------------------------------------------------------------------------
(* Joining a worker: one action per outcome. *)

Join(u, outcome) ==
  /\ pc = "select" /\ worker[u] = outcome
  /\ worker' = [worker EXCEPT ![u] = "joined"]
  /\ UNCHANGED <<setup, scheduler, tokens>>

JoinSucceeded(u) ==
  /\ Join(u, "success")
  /\ recorded' = recorded \cup ({u} \cap plan.keyed)
  /\ Count("ran") /\ Emit(u, "Succeeded")
  /\ gate' = Satisfy(gate, u)
  /\ Settle(u, FALSE, "joined")
  /\ UNCHANGED <<held, tillEnd, order, process, blocking, tornDown, result>>

\* The success cannot be reported: the walk is over, but the key is recorded.
SucceededUnreported(u) ==
  /\ Join(u, "success")
  /\ recorded' = recorded \cup ({u} \cap plan.keyed)
  /\ Abort
  /\ UNCHANGED <<services, handler, stats, verdicts, tornDown, gate>>

\* The cache write fails: nothing is counted or emitted for the unit.
CacheWriteFails(u) ==
  /\ Join(u, "success") /\ u \in plan.keyed
  /\ Abort
  /\ UNCHANGED <<services, handler, report, gate>>

Verdict == [failure |-> "Failed", timedOut |-> "TimedOut", notReady |-> "FailedReadiness"]
Tally == [failure |-> "failed", timedOut |-> "timedOut", notReady |-> "failedReadiness"]

\* Mutant: the key is recorded before the outcome is looked at.
JoinFailedRecords(u, outcome) ==
  /\ Join(u, outcome)
  /\ Count(Tally[outcome]) /\ Emit(u, Verdict[outcome])
  /\ recorded' = recorded \cup ({u} \cap plan.keyed)
  /\ Settle(u, TRUE, "joined")
  /\ UNCHANGED <<held, tillEnd, order, process, blocking, tornDown, gate, result>>

JoinFailed(u, outcome) ==
  /\ Join(u, outcome)
  /\ Count(Tally[outcome]) /\ Emit(u, Verdict[outcome])
  /\ Settle(u, TRUE, "joined")
  /\ UNCHANGED <<held, tillEnd, order, process, blocking, tornDown, recorded, gate, result>>

\* The runner itself failed: the unit counts as failed and the walk is over.
JoinError(u) ==
  /\ ~(worker[u] = "errCancelled" /\ teardown)
  /\ \E o \in {"error", "errCancelled"} : Join(u, o)
  /\ Count("failed") /\ Emit(u, "Failed")
  /\ Settle(u, TRUE, "abort")
  /\ UNCHANGED <<held, tillEnd, order, process, blocking, tornDown, recorded, gate, result>>

\* A stopped unit stays Pending for the final sweep.
JoinStopped(u) ==
  /\ Join(u, "stopped")
  /\ current' = [unit |-> {u}, fails |-> FALSE, failed |-> FALSE, next |-> "joined"]
  /\ pc' = "joined"
  /\ UNCHANGED <<services, draining, blocking, report, gate, result>>

JoinCancelled(u) ==
  /\ Join(u, "errCancelled") /\ teardown
  /\ UNCHANGED <<services, handler, report, pc, gate, result>>

\* Mutant: a service is held for its direct dependents only.
HeldForDirect(u) == Dependents(plan.deps, u)

\* Whom a service is held for: all its dependents in the plan, through any unit.
HeldFor(u) == TransitiveDependents(plan.deps, u)

\* hold: an entry of the held set, never drained when it has no dependent.
Hold(u) ==
  /\ held' = held \cup {u} /\ order' = Append(order, u)
  /\ tillEnd' = IF HeldFor(u) = {} THEN tillEnd \cup {u} ELSE tillEnd

\* A service is ready: hold it, satisfy its gate, and count it as a drained
\* dependent of the services it depends on.
JoinReady(u) ==
  LET waiting == (held \cup {u}) \ tillEnd'
      owed == [remaining EXCEPT ![u] = HeldFor(u)]
  IN /\ Join(u, "ready")
     /\ Hold(u)
     /\ remaining' = [h \in Unit |-> IF h \in waiting THEN owed[h] \ {u} ELSE owed[h]]
     /\ draining' = {h \in waiting : owed[h] \ {u} = {}}
     /\ Count("ran")
     /\ gate' = Satisfy(gate, u)
     /\ current' = [unit |-> {u}, fails |-> FALSE, failed |-> FALSE, next |-> "joined"]
     /\ pc' = "drain"
     /\ UNCHANGED <<process, blocking, verdicts, tornDown, recorded, result>>

\* UnitReady cannot be reported: the service is held already and will be stopped.
ReadyUnreported(u) ==
  /\ Join(u, "ready")
  /\ Hold(u) /\ remaining' = [remaining EXCEPT ![u] = HeldFor(u)]
  /\ Abort
  /\ UNCHANGED <<process, handler, report, gate>>
-----------------------------------------------------------------------------
(* drain_dependents and the tail of failed(). *)

\* Mutant: a service torn down early stays in the held set.
TearDownKeepsEntry(h) ==
  /\ pc = "drain" /\ h \in draining
  /\ draining' = draining \ {h}
  /\ process' = [process EXCEPT ![h] = "stopped"]
  /\ Emit(h, "TornDown")
  /\ UNCHANGED <<setup, scheduler, tokens, held, remaining, tillEnd, order, current, blocking,
                 stats, tornDown, recorded, pc, gate, worker, result>>

TearDown(h) ==
  /\ pc = "drain" /\ h \in draining
  /\ draining' = draining \ {h} /\ held' = held \ {h}
  /\ process' = [process EXCEPT ![h] = "stopped"]
  /\ Emit(h, "TornDown")
  /\ UNCHANGED <<setup, scheduler, tokens, remaining, tillEnd, order, current, blocking,
                 stats, tornDown, recorded, pc, gate, worker, result>>

TearDownFails(h) ==
  /\ pc = "drain" /\ h \in draining
  /\ held' = held \ {h} /\ process' = [process EXCEPT ![h] = "stuck"]
  /\ Abort
  /\ UNCHANGED <<setup, scheduler, tokens, remaining, tillEnd, order, handler, report,
                 gate, worker>>

BlockDependents(u) ==
  /\ pc = "drain" /\ draining = {} /\ current.fails /\ u \in current.unit
  /\ gate' = FailAndBlock(plan.deps, gate, u)
  /\ blocking' = BlockedBy(plan.deps, gate, u)
  /\ current' = [current EXCEPT !.fails = FALSE]
  /\ UNCHANGED <<setup, scheduler, tokens, services, draining, report, pc, worker, result>>

AnnounceBlocked(b) ==
  /\ pc = "drain" /\ draining = {} /\ ~current.fails /\ b \in blocking
  /\ blocking' = blocking \ {b}
  /\ Count("blocked") /\ Emit(b, "Blocked")
  /\ DependentFinished(b)
  /\ UNCHANGED <<setup, scheduler, tokens, held, tillEnd, order, process, current,
                 tornDown, recorded, pc, gate, worker, result>>

Drained ==
  /\ pc = "drain" /\ draining = {} /\ blocking = {} /\ ~current.fails
  /\ IF current.next = "abort" THEN Abort ELSE pc' = current.next /\ UNCHANGED result
  /\ UNCHANGED <<setup, scheduler, tokens, services, handler, report, gate, worker>>

(* After finish_result: trip the pool, or refill the freed slot. *)

TripFailFast ==
  /\ pc = "joined" /\ current.failed /\ options.failFast
  /\ TripPool /\ pc' = "select"
  /\ UNCHANGED <<setup, scheduler, interrupted, services, handler, report, gate, worker, result>>

Refillable == ~teardown /\ ~(current.failed /\ options.failFast)
SameGroup == {u \in queued : \E v \in current.unit : plan.group[u] = plan.group[v]}
Successors == IF SameGroup # {} THEN SameGroup ELSE Fresh

\* Mutant: any queued unit takes the slot, its group busy or not.
RefillAny(u) ==
  /\ pc = "joined" /\ Refillable /\ u \in queued
  /\ Submit(u) /\ pc' = "select"
  /\ UNCHANGED <<setup, wave, parallel, tokens, services, handler, report, gate, result>>

Refill(u) ==
  /\ pc = "joined" /\ Refillable /\ u \in Successors
  /\ Submit(u) /\ pc' = "select"
  /\ UNCHANGED <<setup, wave, parallel, tokens, services, handler, report, gate, result>>

NoRefill ==
  /\ pc = "joined" /\ ~(current.failed /\ options.failFast)
  /\ teardown \/ Successors = {}
  /\ pc' = "select"
  /\ UNCHANGED <<setup, scheduler, tokens, services, handler, report, gate, worker, result>>

\* The pool took the unit but its start cannot be reported: nobody joins it.
SubmitUnreported(u) ==
  /\ \/ pc = "submit" /\ u \in Fresh /\ Cardinality(InFlight) < parallel
     \/ pc = "joined" /\ Refillable /\ u \in Successors
  /\ Submit(u) /\ Abort
  /\ UNCHANGED <<setup, wave, parallel, tokens, services, handler, report, gate>>
-----------------------------------------------------------------------------
(* The exit path, taken whatever happened before. *)

\* teardown_all: the registry stops services last held first.
StopHeld(ok) ==
  LET h == order[Len(order)]
  IN /\ pc = "teardown" /\ order # <<>>
     /\ order' = SubSeq(order, 1, Len(order) - 1)
     /\ IF h \in held
        THEN /\ tornDown' = tornDown \cup {h}
             /\ process' = [process EXCEPT ![h] = IF ok THEN "stopped" ELSE "stuck"]
             /\ result' = IF ok THEN result ELSE "error"
        ELSE ok /\ UNCHANGED <<tornDown, process, result>>
     /\ UNCHANGED <<setup, scheduler, tokens, held, remaining, tillEnd, handler, stats,
                    verdicts, recorded, pc, gate, worker>>

\* Mutant: a walk that failed returns before the held services are stopped.
HeldStoppedEarly ==
  /\ pc = "teardown" /\ (order = <<>> \/ result = "error")
  /\ held' = held \ tornDown
  /\ pc' = "shutdown"
  /\ UNCHANGED <<setup, scheduler, tokens, remaining, tillEnd, order, process, handler, report,
                 gate, worker, result>>

HeldStopped ==
  /\ pc = "teardown" /\ order = <<>>
  /\ held' = held \ tornDown
  /\ pc' = "shutdown"
  /\ UNCHANGED <<setup, scheduler, tokens, remaining, tillEnd, order, process, handler, report,
                 gate, worker, result>>

\* The pool drains its tasks within its grace and abandons the rest.  Results
\* nobody joins any more are dropped, a ready service's handle among them.
PoolShutDown ==
  /\ pc = "shutdown"
  /\ worker' = [u \in Unit |-> IF worker[u] = "running" THEN "abandoned"
                              ELSE IF u \in InFlight THEN "joined" ELSE worker[u]]
  /\ process' = [u \in Unit |-> IF worker[u] = "ready" THEN "dropped" ELSE process[u]]
  /\ pc' = IF result = "none" THEN "finish" ELSE "done"
  /\ UNCHANGED <<setup, scheduler, tokens, held, remaining, tillEnd, order, handler, report,
                 gate, result>>

\* The terminal events of torn-down and never-settled units, then RunFinished.
Finish ==
  /\ pc = "finish"
  /\ verdicts' = [u \in Unit |->
       verdicts[u] \o (IF u \in tornDown THEN <<"TornDown">> ELSE <<>>)
                   \o (IF u \in Pending THEN <<"Cancelled">> ELSE <<>>)]
  /\ stats' = [stats EXCEPT !["cancelled"] = @ + Cardinality(Pending)]
  /\ result' = "ok" /\ pc' = "done"
  /\ UNCHANGED <<setup, scheduler, tokens, services, handler, tornDown, recorded, gate, worker>>

\* The reporter or the output sink fails inside the handler about to run.  But
\* for a unit just submitted, a key just recorded or a service just held (the
\* ...Unreported actions), nothing the handler changed before is read again.
SinkFails ==
  /\ pc \in {"collect", "submit", "select", "drain", "joined", "finish"}
  /\ result' = "error" /\ pc' = IF pc = "finish" THEN "done" ELSE "teardown"
  /\ UNCHANGED <<setup, scheduler, tokens, services, handler, report, gate, worker>>
-----------------------------------------------------------------------------
(* The workers and the outside. *)

Outcomes(u) ==
  IF u \in plan.persistent
  THEN {"ready", "notReady", "error"} \cup (IF u \in cancelled THEN {"errCancelled"} ELSE {})
  ELSE {"success", "failure", "error"}
       \cup (IF options.unitTimeout THEN {"timedOut"} ELSE {})
       \cup (IF u \in cancelled THEN {"stopped", "errCancelled"} ELSE {})

WorkerEnds(u) ==
  /\ worker[u] = "running"
  /\ \E o \in Outcomes(u) :
       /\ worker' = [worker EXCEPT ![u] = o]
       /\ process' = IF o = "ready" THEN [process EXCEPT ![u] = "up"] ELSE process
  /\ UNCHANGED <<setup, scheduler, tokens, held, remaining, tillEnd, order, handler, report,
                 pc, gate, result>>

Interrupt ==
  /\ ~interrupted /\ pc # "done"
  /\ interrupted' = TRUE
  /\ UNCHANGED <<setup, scheduler, cancelled, closed, teardown, services, handler, report,
                 pc, gate, worker, result>>

Walker ==
  \/ EndWaves \/ StartWave \/ StartGroups \/ SlotsFilled \/ EndWave \/ ObserveInterrupt
  \/ \E u \in Unit :
       \/ CacheHit(u) \/ FillSlot(u)
       \/ JoinSucceeded(u) \/ SucceededUnreported(u) \/ CacheWriteFails(u)
       \/ \E o \in {"failure", "timedOut", "notReady"} : JoinFailed(u, o)
       \/ JoinError(u) \/ JoinStopped(u) \/ JoinCancelled(u) \/ JoinReady(u)
       \/ ReadyUnreported(u)
       \/ TearDown(u) \/ TearDownFails(u) \/ BlockDependents(u) \/ AnnounceBlocked(u)
       \/ Refill(u) \/ SubmitUnreported(u)
  \/ Drained \/ TripFailFast \/ NoRefill
  \/ \E ok \in BOOLEAN : StopHeld(ok)
  \/ HeldStopped \/ PoolShutDown \/ Finish

Terminated == pc = "done" /\ UNCHANGED vars

Next == Walker \/ SinkFails \/ Interrupt \/ (\E u \in Unit : WorkerEnds(u)) \/ Terminated

Spec == Init /\ [][Next]_vars

TypeOK ==
  /\ plan \in Plans /\ options \in Options
  /\ pc \in {"waves", "collect", "submit", "select", "drain", "joined", "teardown",
             "shutdown", "finish", "done"}
  /\ wave \in Nat \ {0} /\ parallel \in Nat \ {0}
  /\ gate \in [Unit -> GateState]
  /\ queued \subseteq Unit /\ activated \subseteq Group
  /\ worker \in [Unit -> {"idle", "running", "joined", "abandoned"} \cup Outcome]
  /\ cancelled \subseteq Unit
  /\ interrupted \in BOOLEAN /\ closed \in BOOLEAN /\ teardown \in BOOLEAN
  /\ held \subseteq Unit /\ remaining \in [Unit -> SUBSET Unit] /\ tillEnd \subseteq Unit
  /\ order \in Seq(Unit)
  /\ process \in [Unit -> {"none", "up", "stopped", "stuck", "dropped"}]
  /\ current \in [unit : SUBSET Unit, fails : BOOLEAN, failed : BOOLEAN,
                  next : {"waves", "collect", "joined", "abort"}]
  /\ draining \subseteq Unit /\ blocking \subseteq Unit
  /\ stats \in [Counter -> Nat]
  /\ verdicts \in [Unit -> Seq(Status)]
  /\ tornDown \subseteq Unit /\ recorded \subseteq Unit
  /\ result \in {"none", "error", "ok"}
-----------------------------------------------------------------------------
(* Fairness.  The walker is a task the runtime keeps polling; no progress is
   owed to a failing sink.  A command may run for ever, but a worker whose token
   fired ends: the process runner sends SIGTERM, then SIGKILL after the grace. *)

StoppedWorkersEnd == \A u \in Unit : WF_vars(u \in cancelled /\ WorkerEnds(u))
FairSpec == Spec /\ WF_vars(Walker) /\ StoppedWorkersEnd
-----------------------------------------------------------------------------
(* Properties. *)

Started == {u \in Unit : worker[u] # "idle"}
Services(u) == {s \in plan.persistent : u \in TransitiveDependents(plan.deps, s)}
Ended(ending) == pc = "done" /\ result = ending

\* A unit runs, or its cached result counts, only once everything it depends
\* on is satisfied; the walker never looks at the dependencies itself, it
\* relies on the waves, the gate and the early exits (run_waves, run_wave).
FailClosed ==
  \A u \in Unit : u \in Started \/ gate[u] = "Satisfied" =>
    \A d \in plan.deps[u] : gate[d] = "Satisfied"

CounterOf(u) ==
  CASE gate[u] = "Blocked" -> "blocked"
    [] gate[u] = "Pending" -> "cancelled"
    [] verdicts[u][1] \in {"Succeeded", "TornDown"} -> "ran"
    [] verdicts[u][1] = "Cached" -> "cached"
    [] verdicts[u][1] = "Failed" -> "failed"
    [] verdicts[u][1] = "TimedOut" -> "timedOut"
    [] OTHER -> "failedReadiness"

\* However a run that reports a summary went, each unit got exactly one
\* terminal event, and no unit ever gets two (cancel_unscheduled, teardown_all
\* and drain_dependents each emit for the units the others left).  The summary
\* partitions the plan: every counter of RunFinished equals the number of units
\* whose own terminal event and gate state say so.
OneVerdictPerUnit ==
  /\ \A u \in Unit : Len(verdicts[u]) \leq 1
  /\ Ended("ok") =>
       /\ \A u \in Unit : Len(verdicts[u]) = 1
       /\ \A c \in Counter : stats[c] = Cardinality({u \in Unit : CounterOf(u) = c})

\* While a unit is in flight and no error ended the walk, every service it
\* depends on, directly or through other units, is up.
ServiceUpWhileUsed ==
  result = "none" => \A u \in InFlight : \A s \in Services(u) : process[s] = "up"

\* A run that reports a summary left no child behind: each service was shut
\* down by the walk itself and every worker was joined.  After an error a
\* service may be stuck, or dropped for the supervisor to reap; none is left up.
NothingLeftRunning ==
  /\ pc = "done" => \A u \in Unit : process[u] # "up"
  /\ Ended("ok") => \A u \in Unit : /\ process[u] \in {"none", "stopped"}
                                   /\ worker[u] \in {"idle", "joined"}

\* Units of one resource group never run together, and no more units are in
\* flight than the wave's share of the compute budget was divided by.
GroupsSerialized ==
  /\ \A u, v \in InFlight : plan.group[u] = plan.group[v] => u = v
  /\ Cardinality(InFlight) \leq parallel

\* A key is recorded only for a unit that really succeeded with every
\* dependency satisfied, and only an error may keep its verdict from being
\* reported; a finished run recorded every such unit.
RecordedIffSucceeded ==
  /\ \A u \in recorded : /\ u \in plan.keyed
                         /\ verdicts[u] # <<"Succeeded">> => verdicts[u] = <<>> /\ result = "error"
                         /\ \A d \in plan.deps[u] : gate[d] = "Satisfied"
  /\ Ended("ok") =>
       recorded = {u \in plan.keyed : gate[u] = "Satisfied"}

\* Once Ctrl+C fires the run ends, whatever the commands in flight do, and a run
\* whose commands all end comes to its end (entry.rs:20, run_waves).
RunEnds ==
  /\ interrupted ~> pc = "done"
  /\ (\A u \in Unit : []<>(worker[u] # "running")) => <>(pc = "done")

PhaseOf(u) ==
  CASE gate[u] = "Satisfied" -> "succeeded"
    [] gate[u] = "Failed" -> "failed"
    [] gate[u] = "Blocked" -> "blocked"
    [] OTHER -> IF Ended("ok") THEN "stopped"
                ELSE IF worker[u] = "idle" THEN "waiting" ELSE "active"

Schedule == INSTANCE UnitSchedule WITH
  deps <- plan.deps, phase <- [u \in Unit |-> PhaseOf(u)]

\* The walk implements the abstract schedule: start after success, block
\* exactly the dependents of a failure, never revise an outcome.
ImplementsSchedule == Schedule!Spec

\* What the TornDown status documents (toven-model event/status.rs) and the held
\* set says of itself (persistent/held.rs:66): a service goes down after its
\* dependents drained.
TornDownAfterDependents ==
  \A s \in Unit : verdicts[s] = <<"TornDown">> =>
    \A u \in TransitiveDependents(plan.deps, s) : verdicts[u] # <<>>
=============================================================================
