---------------------------- MODULE WatchSession ----------------------------
(***************************************************************************)
(* The watch loop (toven-engine watch/run.rs) over what it composes: the   *)
(* selection of a changed path, the prerequisites of a `^build` task, the  *)
(* cache keys PLAN computes from the sources it reads, the content cache   *)
(* APPLY records into (cache/fs.rs), and the tools that read the sources   *)
(* and write the outputs.  Meanwhile people edit the sources: the file     *)
(* system is read at three different times (to key, to build, to           *)
(* fingerprint what was built) and an edit can fall between any two.       *)
(*                                                                         *)
(* A module stands for its one cacheable `build` unit with                 *)
(* depends_on = ["^build"] and declared outputs.  The waves of APPLY are   *)
(* kept only as the order they impose; the walk itself is ApplyWalk.       *)
(***************************************************************************)
EXTENDS Integers, FiniteSets

CONSTANTS
    Modules,      \* the modules of the federation
    Deps,         \* module -> the modules it depends on directly, of any kind
    Below,        \* module -> the transitive closure of Deps
    Scope,        \* the caller's baseline selection
    Contents,     \* what a module's source tree may hold
    None,         \* no content read yet
    Partial,      \* what a tool that did not succeed leaves behind
    Artifact,     \* a path the root repository ignores (a built output)
    MaxEdits,     \* bound: edits
    MaxDrops,     \* bound: overflows of the watcher
    MaxSessions   \* bound: sessions started

\* Graph::build refuses an edge to an unknown module and a cyclic graph.
ASSUME GraphAssumption ==
    /\ Deps \in [Modules -> SUBSET Modules]
    /\ Below \in [Modules -> SUBSET Modules]
    /\ \A m \in Modules :
          /\ Below[m] = Deps[m] \cup UNION {Below[d] : d \in Deps[m]}
          /\ m \notin Below[m]

ASSUME ScopeAssumption == Scope \in SUBSET Modules

ASSUME NameAssumption ==
    /\ None \notin Contents
    /\ Partial \notin Contents
    /\ Artifact \notin Modules

ASSUME BoundAssumption ==
    /\ MaxEdits \in Nat
    /\ MaxDrops \in Nat
    /\ MaxSessions \in Nat

VARIABLES
    src,       \* module -> the content of its source tree
    out,       \* module -> its outputs: made from what, stamped when, raced
    clock,     \* the last modification time given to an output
    cache,     \* the markers: [unit, key, stamp]
    pc,        \* where the session is: off, plan, apply, wait
    pending,   \* what the watcher holds: [paths, rescan]
    cancel,    \* the session's cancellation token
    units,     \* the units of this iteration's plan
    hashes,    \* module -> the content PLAN keyed, None before it was read
    state,     \* module -> its unit in this iteration
    read,      \* module -> what the running tool has read: [from, raced]
    edits, drops, sessions   \* counters of the bounds

plan == <<units, hashes>>
disk == <<src, out, clock, cache>>
bounds == <<edits, drops, sessions>>
vars == <<disk, pc, pending, cancel, plan, state, read, bounds>>

Paths == Modules \cup {Artifact}
Quiet == [paths |-> {}, rescan |-> FALSE]
Nothing == [from |-> {}, raced |-> FALSE]

Within(m) == {m} \cup Below[m]

\* What a unit of m is keyed by, and what an output is made from: the content
\* of m and of everything below it.
Sources == SUBSET (Modules \X (Contents \cup {None, Partial}))
Outputs == [from : Sources, stamp : Nat, raced : BOOLEAN]

UnitStates == {"idle", "pending", "hit", "running", "wrote",
               "succeeded", "failed", "blocked", "cancelled"}

TypeOK ==
    /\ src \in [Modules -> Contents]
    /\ out \in [Modules -> Outputs]
    /\ clock \in Nat
    /\ cache \in SUBSET [unit : Modules, key : Sources, stamp : Nat]
    /\ pc \in {"off", "plan", "apply", "wait"}
    /\ pending \in [paths : SUBSET Paths, rescan : BOOLEAN]
    /\ cancel \in BOOLEAN
    /\ units \in SUBSET Modules
    /\ hashes \in [Modules -> Contents \cup {None}]
    /\ state \in [Modules -> UnitStates]
    /\ read \in [Modules -> [from : Sources, raced : BOOLEAN]]
    /\ edits \in 0 .. MaxEdits
    /\ drops \in 0 .. MaxDrops
    /\ sessions \in 0 .. MaxSessions

Init ==
    /\ src \in [Modules -> Contents]
    /\ out = [m \in Modules |-> [from |-> {}, stamp |-> 0, raced |-> FALSE]]
    /\ clock = 0
    /\ cache = {}
    /\ pc = "off"
    /\ pending = Quiet
    /\ cancel = FALSE
    /\ units = {}
    /\ hashes = [m \in Modules |-> None]
    /\ state = [m \in Modules |-> "idle"]
    /\ read = [m \in Modules |-> Nothing]
    /\ edits = 0
    /\ drops = 0
    /\ sessions = 0

-----------------------------------------------------------------------------
\* Selecting and planning.

\* resolve_changed: the owners of the changed paths and everything above them.
AffectedBy(changed) ==
    changed \cup {m \in Modules : Below[m] \cap changed # {}}

\* expand: `^build` pulls the build of every direct dependency into the plan,
\* whose own `^build` pulls in the next.
WithPrerequisites(selected) == UNION {Within(m) : m \in selected}

\* iterate, up to the first source PLAN reads.
Iterate(selected) ==
    /\ units' = WithPrerequisites(selected)
    /\ hashes' = [m \in Modules |-> None]
    /\ state' = [m \in Modules |-> "idle"]
    /\ pc' = "plan"

\* The plan lives as long as its iteration.
DropPlan ==
    /\ units' = {}
    /\ hashes' = [m \in Modules |-> None]
    /\ state' = [m \in Modules |-> "idle"]
    /\ read' = [m \in Modules |-> Nothing]

\* unit_key: the module's own hash and the hash of its transitive
\* dependencies' sources, never of their outputs.
Key(m) == {<<x, hashes[x]>> : x \in Within(m)}

\* Mutant: a marker is believed whatever has become of the outputs.
ContainsKey(m, key) == \E r \in cache : r.unit = m /\ r.key = key

\* FsContentCache::contains: a marker of this key whose fingerprint is the one
\* the declared outputs have now.
Contains(m, key) ==
    \E r \in cache : r.unit = m /\ r.key = key /\ r.stamp = out[m].stamp

\* FsContentCache::record: one marker a key, the newest replaces the older.
Recorded(m, key) ==
    {r \in cache : ~ (r.unit = m /\ r.key = key)}
        \cup {[unit |-> m, key |-> key, stamp |-> out[m].stamp]}

-----------------------------------------------------------------------------
\* The session.

\* run: the watcher is armed before the baseline iteration reads a source.
StartSession ==
    /\ pc = "off"
    /\ sessions < MaxSessions
    /\ sessions' = sessions + 1
    /\ pending' = Quiet
    /\ cancel' = FALSE
    /\ Iterate(Scope)
    /\ UNCHANGED <<disk, read, edits, drops>>

\* source_hashes: the modules are read one after the other.
HashModule(m) ==
    /\ pc = "plan"
    /\ m \in units
    /\ hashes[m] = None
    /\ hashes' = [hashes EXCEPT ![m] = src[m]]
    /\ UNCHANGED <<disk, pc, pending, cancel, units, state, read, bounds>>

\* decide_cache over every unit of the plan; APPLY starts.
DecideCache ==
    /\ pc = "plan"
    /\ \A m \in units : hashes[m] # None
    /\ state' = [m \in Modules |->
                    IF m \notin units THEN "idle"
                    ELSE IF Contains(m, Key(m)) THEN "hit" ELSE "pending"]
    /\ pc' = "apply"
    /\ UNCHANGED <<disk, pending, cancel, plan, read, bounds>>

\* A unit starts and its tool reads: the sources as they are by now, and the
\* outputs of the modules below it.
Launch(m) ==
    /\ pc = "apply"
    /\ ~ cancel
    /\ state[m] = "pending"
    /\ \A d \in Deps[m] : state[d] \in {"hit", "succeeded"}
    /\ state' = [state EXCEPT ![m] = "running"]
    /\ read' = [read EXCEPT ![m] =
          [from  |-> {<<m, src[m]>>} \cup UNION {out[d].from : d \in Deps[m]},
           raced |-> src[m] # hashes[m] \/ \E d \in Deps[m] : out[d].raced]]
    /\ UNCHANGED <<disk, pc, pending, cancel, plan, bounds>>

\* The tool has written its outputs, which the watcher sees too.
Write(m, output) ==
    /\ out' = [out EXCEPT ![m] = output]
    /\ clock' = clock + 1
    /\ pending' = [pending EXCEPT !.paths = @ \cup {Artifact}]

ToolSucceeds(m) ==
    /\ pc = "apply"
    /\ state[m] = "running"
    /\ Write(m, [from |-> read[m].from, stamp |-> clock + 1, raced |-> read[m].raced])
    /\ state' = [state EXCEPT ![m] = "wrote"]
    /\ read' = [read EXCEPT ![m] = Nothing]
    /\ UNCHANGED <<src, cache, pc, cancel, plan, bounds>>

\* It failed, ran out of time or was killed by the interrupt.
ToolFails(m) ==
    /\ pc = "apply"
    /\ state[m] = "running"
    /\ Write(m, [from |-> {<<m, Partial>>}, stamp |-> clock + 1, raced |-> FALSE])
    /\ state' = [state EXCEPT ![m] = IF cancel THEN "cancelled" ELSE "failed"]
    /\ read' = [read EXCEPT ![m] = Nothing]
    /\ UNCHANGED <<src, cache, pc, cancel, plan, bounds>>

\* The unit is settled: its key, computed in PLAN, is recorded.
Record(m) ==
    /\ pc = "apply"
    /\ state[m] = "wrote"
    /\ cache' = Recorded(m, Key(m))
    /\ state' = [state EXCEPT ![m] = "succeeded"]
    /\ UNCHANGED <<src, out, clock, pc, pending, cancel, plan, read, bounds>>

Block(m) ==
    /\ pc = "apply"
    /\ state[m] = "pending"
    /\ \E d \in Deps[m] : state[d] \in {"failed", "blocked"}
    /\ state' = [state EXCEPT ![m] = "blocked"]
    /\ UNCHANGED <<disk, pc, pending, cancel, plan, read, bounds>>

\* apply has returned; what a cancelled run did not start was swept.
EndIteration ==
    /\ pc = "apply"
    /\ \A m \in Modules : state[m] \notin {"running", "wrote"}
    /\ cancel \/ \A m \in Modules : state[m] # "pending"
    /\ DropPlan
    /\ pc' = "wait"
    /\ UNCHANGED <<disk, pending, cancel, bounds>>

\* Mutant: what else is pending is thrown away with the batch.
TakeBatchOnly(paths) ==
    /\ pc = "wait"
    /\ ~ pending.rescan
    /\ paths # {}
    /\ paths \subseteq pending.paths
    /\ pending' = Quiet
    /\ IF paths = {Artifact}
         THEN UNCHANGED <<pc, plan, state>>
         ELSE Iterate(AffectedBy(paths \ {Artifact}))
    /\ UNCHANGED <<disk, cancel, read, bounds>>

\* A batch of changed paths.  The select has no bias: a batch may still win
\* against the token once both are ready.
TakeBatch(paths) ==
    /\ pc = "wait"
    /\ ~ pending.rescan
    /\ paths # {}
    /\ paths \subseteq pending.paths
    /\ pending' = [pending EXCEPT !.paths = @ \ paths]
    /\ IF paths = {Artifact}
         THEN UNCHANGED <<pc, plan, state>>
         ELSE Iterate(AffectedBy(paths \ {Artifact}))
    /\ UNCHANGED <<disk, cancel, read, bounds>>

\* The watcher dropped events: the list of paths is not trusted.
TakeRescan ==
    /\ pc = "wait"
    /\ pending.rescan
    /\ pending' = Quiet
    /\ Iterate(Scope)
    /\ UNCHANGED <<disk, cancel, read, bounds>>

\* The token, or the end of the stream, breaks the loop.
StopSession ==
    /\ pc = "wait"
    /\ pc' = "off"
    /\ pending' = Quiet
    /\ UNCHANGED <<disk, cancel, plan, state, read, bounds>>

CancelledStop == cancel /\ StopSession
WatcherStops == ~ cancel /\ StopSession

\* PLAN fails, APPLY fails hard, or the process is killed.
SessionFails ==
    /\ pc \in {"plan", "apply"}
    /\ pc' = "off"
    /\ pending' = Quiet
    /\ DropPlan
    /\ UNCHANGED <<disk, cancel, bounds>>

-----------------------------------------------------------------------------
\* People, the watcher and Ctrl+C.

Edit(m, content) ==
    /\ edits < MaxEdits
    /\ content # src[m]
    /\ edits' = edits + 1
    /\ src' = [src EXCEPT ![m] = content]
    /\ pending' = IF pc = "off" THEN pending
                  ELSE [pending EXCEPT !.paths = @ \cup {m}]
    /\ UNCHANGED <<out, clock, cache, pc, cancel, plan, state, read, drops, sessions>>

Overflow ==
    /\ pc # "off"
    /\ drops < MaxDrops
    /\ pending.paths # {}
    /\ drops' = drops + 1
    /\ pending' = [paths |-> {}, rescan |-> TRUE]
    /\ UNCHANGED <<disk, pc, cancel, plan, state, read, edits, sessions>>

Interrupt ==
    /\ pc # "off"
    /\ ~ cancel
    /\ cancel' = TRUE
    /\ UNCHANGED <<disk, pc, pending, plan, state, read, bounds>>

-----------------------------------------------------------------------------
UnitStep(m) ==
    \/ HashModule(m)
    \/ Launch(m)
    \/ ToolSucceeds(m)
    \/ ToolFails(m)
    \/ Record(m)
    \/ Block(m)

Batch == TakeRescan \/ \E paths \in SUBSET Paths : TakeBatch(paths)

SessionStep ==
    \/ DecideCache
    \/ EndIteration
    \/ Batch
    \/ CancelledStop
    \/ \E m \in Modules : UnitStep(m)

Next ==
    \/ SessionStep
    \/ StartSession
    \/ WatcherStops
    \/ SessionFails
    \/ Overflow
    \/ Interrupt
    \/ \E m \in Modules, content \in Contents : Edit(m, content)

Spec == Init /\ [][Next]_vars

\* The session goes on while it can, every tool ends, and the select does not
\* pass a ready token over for ever.
Fairness ==
    /\ WF_vars(SessionStep)
    /\ WF_vars(CancelledStop)

LiveSpec == Spec /\ Fairness

-----------------------------------------------------------------------------
\* What a HIT of m stands for: the content of its closure as of now.
Current(m) == {<<x, src[x]>> : x \in Within(m)}

Honest(r) == out[r.unit].from = r.key

\* A marker that would answer HIT never lies about what the outputs on disk
\* were made from, unless the tool itself read a source that had been edited
\* after PLAN keyed it: not after failed or killed tools, not through
\* outputs of other modules, not across sessions that died half-way.
HitsAreHonest ==
    \A r \in cache :
        r.stamp = out[r.unit].stamp => Honest(r) \/ out[r.unit].raced

\* m was built from what is on disk, or the person watching has been told why
\* not (a failure in its closure), or an edit raced with the tool.
UpToDate(m) ==
    \/ out[m].from = Current(m)
    \/ \E x \in Within(m) : out[x].raced \/ out[x].from = {<<x, Partial>>}

\* No change is lost: whatever arrives while an iteration runs, in whichever
\* batches, overflows of the watcher included, once people stop editing the
\* session comes to rest and everything in its scope has been brought up to
\* date, unless it has ended.
CatchesUp ==
    <>[](\/ pc = "off"
         \/ pc = "wait" /\ pending = Quiet /\ \A m \in Scope : UpToDate(m))
=============================================================================
