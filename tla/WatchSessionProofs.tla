--------------------------- MODULE WatchSessionProofs ---------------------------
(***************************************************************************)
(* The watch session is well-typed and its cache hits are honest, for any  *)
(* number of modules, contents, edits, overflows and sessions.             *)
(***************************************************************************)
EXTENDS WatchSession, TLAPS

LEMMA KeyIsSources ==
  ASSUME TypeOK, NEW m \in Modules
  PROVE  Key(m) \in Sources
  BY GraphAssumption DEF TypeOK, Key, Sources, Within

LEMMA ClosureInModules ==
  ASSUME NEW selected \in SUBSET Modules
  PROVE  WithPrerequisites(selected) \in SUBSET Modules /\ AffectedBy(selected) \in SUBSET Modules
  BY GraphAssumption DEF WithPrerequisites, AffectedBy, Within

\* An iteration starts with a well-typed plan.
LEMMA IterateType ==
  ASSUME NEW selected \in SUBSET Modules, Iterate(selected)
  PROVE  /\ pc' = "plan" /\ units' \in SUBSET Modules
         /\ hashes' \in [Modules -> Contents \cup {None}]
         /\ state' \in [Modules -> UnitStates]
         /\ \A m \in Modules : state'[m] = "idle"
  BY ClosureInModules DEF Iterate, UnitStates

LEMMA DropPlanType ==
  ASSUME DropPlan
  PROVE  /\ units' \in SUBSET Modules
         /\ hashes' \in [Modules -> Contents \cup {None}]
         /\ state' \in [Modules -> UnitStates]
         /\ read' \in [Modules -> [from : Sources, raced : BOOLEAN]]
         /\ \A m \in Modules : state'[m] = "idle"
  BY DEF DropPlan, UnitStates, Nothing, Sources

LEMMA TypeStep == TypeOK /\ [Next]_vars => TypeOK'
<1> SUFFICES ASSUME TypeOK, [Next]_vars PROVE TypeOK'
  OBVIOUS
<1> USE DEF TypeOK
<1>1. CASE DecideCache
  BY <1>1 DEF DecideCache, UnitStates, plan, disk, bounds
<1>2. CASE EndIteration
  BY <1>2, DropPlanType DEF EndIteration, disk, bounds
<1>3. CASE TakeRescan
  BY <1>3, IterateType, ScopeAssumption DEF TakeRescan, disk, bounds, Quiet, Paths
<1>4. ASSUME NEW paths \in SUBSET Paths, TakeBatch(paths) PROVE TypeOK'
  <2>1. pending' \in [paths : SUBSET Paths, rescan : BOOLEAN]
    BY <1>4 DEF TakeBatch
  <2>2. CASE paths = {Artifact}
    BY <1>4, <2>1, <2>2 DEF TakeBatch, disk, bounds, plan
  <2>3. CASE paths # {Artifact}
    <3>1. AffectedBy(paths \ {Artifact}) \in SUBSET Modules
      BY ClosureInModules DEF Paths
    <3>2. Iterate(AffectedBy(paths \ {Artifact}))
      BY <1>4, <2>3 DEF TakeBatch
    <3> QED BY <1>4, <2>1, <3>1, <3>2, IterateType DEF TakeBatch, disk, bounds
  <2> QED BY <2>2, <2>3
<1>5. CASE StopSession
  BY <1>5 DEF StopSession, disk, bounds, plan, Quiet
<1>6. CASE SessionFails
  BY <1>6, DropPlanType DEF SessionFails, disk, bounds, Quiet
<1>7. CASE StartSession
  <2>1. sessions' \in 0 .. MaxSessions
    BY <1>7, BoundAssumption DEF StartSession
  <2>2. Iterate(Scope)
    BY <1>7 DEF StartSession
  <2> QED BY <1>7, <2>1, <2>2, IterateType, ScopeAssumption DEF StartSession, disk, Quiet
<1>8. CASE Overflow
  <2>1. pending' \in [paths : SUBSET Paths, rescan : BOOLEAN] /\ drops' \in 0 .. MaxDrops
    BY <1>8, BoundAssumption DEF Overflow
  <2> QED BY <1>8, <2>1 DEF Overflow, disk, plan
<1>9. CASE Interrupt
  BY <1>9 DEF Interrupt, disk, plan, bounds
<1>10. ASSUME NEW m \in Modules, NEW content \in Contents, Edit(m, content) PROVE TypeOK'
  <2>1. pending' \in [paths : SUBSET Paths, rescan : BOOLEAN]
    BY <1>10 DEF Edit, Paths
  <2>2. edits' \in 0 .. MaxEdits
    BY <1>10, BoundAssumption DEF Edit
  <2>3. src' \in [Modules -> Contents]
    BY <1>10 DEF Edit
  <2> QED BY <1>10, <2>1, <2>2, <2>3 DEF Edit, plan
<1>11. ASSUME NEW m \in Modules, HashModule(m) \/ Launch(m) \/ Block(m) PROVE TypeOK'
  <2>1. CASE HashModule(m)
    BY <2>1 DEF HashModule, disk, bounds
  <2>2. CASE Block(m)
    BY <2>2 DEF Block, disk, plan, bounds, UnitStates
  <2>3. CASE Launch(m)
    <3> DEFINE from == {<<m, src[m]>>} \cup UNION {out[d].from : d \in Deps[m]}
               raced == src[m] # hashes[m] \/ \E d \in Deps[m] : out[d].raced
    <3>1. from \in Sources /\ raced \in BOOLEAN
      BY GraphAssumption DEF Sources, Outputs
    <3>2. read' = [read EXCEPT ![m] = [from |-> from, raced |-> raced]]
      BY <2>3 DEF Launch
    <3> HIDE DEF from, raced
    <3>3. read' \in [Modules -> [from : Sources, raced : BOOLEAN]]
      BY <3>1, <3>2
    <3> QED BY <2>3, <3>3 DEF Launch, disk, plan, bounds, UnitStates
  <2> QED BY <1>11, <2>1, <2>2, <2>3
<1>12. ASSUME NEW m \in Modules, ToolSucceeds(m) \/ ToolFails(m) PROVE TypeOK'
  <2>1. Nothing \in [from : Sources, raced : BOOLEAN]
    BY DEF Nothing, Sources
  <2>2. pending' \in [paths : SUBSET Paths, rescan : BOOLEAN] /\ clock' \in Nat
    BY <1>12 DEF ToolSucceeds, ToolFails, Write, Paths
  <2>3. out' \in [Modules -> Outputs]
    <3>1. /\ [from |-> read[m].from, stamp |-> clock + 1, raced |-> read[m].raced] \in Outputs
          /\ [from |-> {<<m, Partial>>}, stamp |-> clock + 1, raced |-> FALSE] \in Outputs
      BY DEF Outputs, Sources
    <3> QED BY <1>12, <3>1 DEF ToolSucceeds, ToolFails, Write
  <2> QED
    BY <1>12, <2>1, <2>2, <2>3 DEF ToolSucceeds, ToolFails, Write, plan, bounds, UnitStates
<1>13. ASSUME NEW m \in Modules, Record(m) PROVE TypeOK'
  <2>1. [unit |-> m, key |-> Key(m), stamp |-> out[m].stamp]
          \in [unit : Modules, key : Sources, stamp : Nat]
    BY KeyIsSources DEF Outputs
  <2>2. cache' \in SUBSET [unit : Modules, key : Sources, stamp : Nat]
    BY <1>13, <2>1 DEF Record, Recorded
  <2> QED BY <1>13, <2>2 DEF Record, plan, bounds, UnitStates
<1>14. CASE UNCHANGED vars
  BY <1>14 DEF vars, disk, plan, bounds
<1> QED
  BY <1>1, <1>2, <1>3, <1>4, <1>5, <1>6, <1>7, <1>8, <1>9, <1>10, <1>11, <1>12, <1>13, <1>14
  DEF Next, SessionStep, Batch, UnitStep, CancelledStop, WatcherStops

LEMMA TypeInit == Init => TypeOK
<1> SUFFICES ASSUME Init PROVE TypeOK
  OBVIOUS
<1>1. /\ [from |-> {}, stamp |-> 0, raced |-> FALSE] \in Outputs
      /\ Nothing \in [from : Sources, raced : BOOLEAN]
      /\ Quiet \in [paths : SUBSET Paths, rescan : BOOLEAN]
  BY DEF Outputs, Sources, Nothing, Quiet
<1>2. edits \in 0 .. MaxEdits /\ drops \in 0 .. MaxDrops /\ sessions \in 0 .. MaxSessions
  BY BoundAssumption DEF Init
<1> QED BY <1>1, <1>2 DEF Init, TypeOK, UnitStates

-----------------------------------------------------------------------------
\* An output or a marker is never stamped in the future: writing an output
\* invalidates every marker there is.
StampsPast ==
  /\ \A m \in Modules : out[m].stamp <= clock
  /\ \A r \in cache : r.stamp <= clock

\* Only APPLY has units under way.
IdleOutsideApply == pc # "apply" => \A m \in Modules : state[m] = "idle"

\* What a unit has read, written or been spared of is what its key says,
\* unless an edit raced with it or with a unit below it.
Keyed ==
  \A m \in Modules :
    /\ state[m] = "running" => read[m].raced \/ read[m].from = Key(m)
    /\ state[m] \in {"hit", "wrote", "succeeded"} => out[m].raced \/ out[m].from = Key(m)

IInv == TypeOK /\ StampsPast /\ IdleOutsideApply /\ Keyed /\ HitsAreHonest

LEMMA InvInit == Init => IInv
<1> SUFFICES ASSUME Init PROVE IInv
  OBVIOUS
<1>1. IdleOutsideApply /\ Keyed /\ HitsAreHonest
  BY DEF Init, IdleOutsideApply, Keyed, HitsAreHonest
<1>2. StampsPast
  BY DEF Init, StampsPast
<1> QED BY <1>1, <1>2, TypeInit DEF IInv

\* The steps that leave the disk alone and no unit under way.
LEMMA RestKeepsInv ==
  ASSUME IInv, TypeOK', UNCHANGED <<out, clock, cache>>,
         \A m \in Modules : state'[m] = "idle"
  PROVE  IInv'
<1>1. StampsPast' /\ HitsAreHonest'
  BY DEF IInv, StampsPast, HitsAreHonest, Honest
<1>2. IdleOutsideApply' /\ Keyed'
  BY DEF IdleOutsideApply, Keyed
<1> QED BY <1>1, <1>2 DEF IInv

\* The steps that leave the disk, the plan and its units alone.
LEMMA QuietKeepsInv ==
  ASSUME IInv, TypeOK', UNCHANGED <<out, clock, cache, hashes, state, read>>,
         pc' = pc \/ pc # "apply"
  PROVE  IInv'
<1>1. StampsPast' /\ HitsAreHonest'
  BY DEF IInv, StampsPast, HitsAreHonest, Honest
<1>2. \A m \in Modules : Key(m)' = Key(m)
  BY DEF Key
<1>3. IdleOutsideApply' /\ Keyed'
  BY <1>2 DEF IInv, IdleOutsideApply, Keyed
<1> QED BY <1>1, <1>3 DEF IInv

\* A tool that starts reads just what its unit was keyed by, unless an edit
\* raced with it or with what it builds on.
LEMMA LaunchReadsKey ==
  ASSUME IInv, NEW m \in Modules, Launch(m)
  PROVE  read'[m].raced \/ read'[m].from = Key(m)
<1> DEFINE from == {<<m, src[m]>>} \cup UNION {out[d].from : d \in Deps[m]}
           raced == src[m] # hashes[m] \/ \E d \in Deps[m] : out[d].raced
<1>1. read'[m] = [from |-> from, raced |-> raced]
  BY DEF Launch, IInv, TypeOK
<1>2. read'[m].raced = raced /\ read'[m].from = from
  <2> HIDE DEF from, raced
  <2> QED BY <1>1
<1>3. raced \/ from = Key(m)
  <2> SUFFICES ASSUME src[m] = hashes[m], \A d \in Deps[m] : ~ out[d].raced
               PROVE  {<<m, src[m]>>} \cup UNION {out[d].from : d \in Deps[m]} = Key(m)
    OBVIOUS
  <2>1. \A d \in Deps[m] : out[d].from = Key(d)
    <3> SUFFICES ASSUME NEW d \in Deps[m] PROVE out[d].from = Key(d)
      OBVIOUS
    <3>1. d \in Modules /\ state[d] \in {"hit", "succeeded"}
      BY GraphAssumption DEF Launch
    <3> QED BY <3>1 DEF IInv, Keyed
  <2>2. UNION {out[d].from : d \in Deps[m]} = UNION {Key(d) : d \in Deps[m]}
    BY <2>1
  <2>3. Within(m) = {m} \cup UNION {Within(d) : d \in Deps[m]}
    <3>1. Below[m] = Deps[m] \cup UNION {Below[d] : d \in Deps[m]}
      BY GraphAssumption
    <3> QED BY <3>1 DEF Within
  <2>4. Key(m) = {<<m, hashes[m]>>} \cup UNION {Key(d) : d \in Deps[m]}
    BY <2>3 DEF Key
  <2> QED BY <2>2, <2>4
<1> QED BY <1>2, <1>3

LEMMA ApplyKeepsInv ==
  ASSUME IInv, TypeOK', NEW m \in Modules, Launch(m) \/ Block(m) \/ HashModule(m)
  PROVE  IInv'
<1> USE DEF IInv
<1>1. StampsPast' /\ HitsAreHonest'
  BY DEF Launch, Block, HashModule, disk, StampsPast, HitsAreHonest, Honest
<1>2. IdleOutsideApply'
  <2>1. CASE HashModule(m)
    BY <2>1 DEF HashModule, IdleOutsideApply
  <2>2. CASE Launch(m) \/ Block(m)
    BY <2>2 DEF Launch, Block, IdleOutsideApply
  <2> QED BY <2>1, <2>2
<1>3. CASE HashModule(m)
  <2>1. \A x \in Modules : state'[x] = "idle"
    BY <1>3 DEF HashModule, IdleOutsideApply
  <2> QED BY <1>1, <1>2, <2>1 DEF Keyed
<1>4. CASE Block(m)
  <2>1. \A x \in Modules : Key(x)' = Key(x) /\ out' = out /\ read' = read
    BY <1>4 DEF Block, Key, plan, disk
  <2>2. \A x \in Modules : state'[x] = IF x = m THEN "blocked" ELSE state[x]
    BY <1>4 DEF Block, TypeOK
  <2> QED BY <1>1, <1>2, <2>1, <2>2 DEF Keyed
<1>5. CASE Launch(m)
  <2>1. \A x \in Modules : Key(x)' = Key(x) /\ out' = out
    BY <1>5 DEF Launch, Key, plan, disk
  <2>2. \A x \in Modules : /\ state'[x] = IF x = m THEN "running" ELSE state[x]
                           /\ x # m => read'[x] = read[x]
    BY <1>5 DEF Launch, TypeOK
  <2>3. read'[m].raced \/ read'[m].from = Key(m)
    BY <1>5, LaunchReadsKey
  <2> QED BY <1>1, <1>2, <2>1, <2>2, <2>3 DEF Keyed
<1> QED BY <1>3, <1>4, <1>5

\* A tool that wrote: no marker matches its outputs any more.
LEMMA WriteKeepsInv ==
  ASSUME IInv, TypeOK', NEW m \in Modules, ToolSucceeds(m) \/ ToolFails(m)
  PROVE  IInv'
<1> USE DEF IInv
<1>1. /\ clock \in Nat /\ clock' = clock + 1 /\ cache' = cache
      /\ out'[m].stamp = clock + 1
      /\ \A x \in Modules : x # m => out'[x] = out[x]
      /\ \A x \in Modules : Key(x)' = Key(x)
      /\ \A x \in Modules : x # m => state'[x] = state[x] /\ read'[x] = read[x]
      /\ pc = "apply" /\ pc' = "apply"
  BY DEF ToolSucceeds, ToolFails, Write, TypeOK, plan, Key
<1>2. /\ \A x \in Modules : out[x].stamp \in Nat
      /\ \A r \in cache : r.stamp \in Nat /\ r.unit \in Modules
  BY DEF TypeOK, Outputs
<1>3. StampsPast'
  <2>1. \A x \in Modules : out'[x].stamp <= clock'
    BY <1>1, <1>2 DEF StampsPast
  <2>2. \A r \in cache' : r.stamp <= clock'
    BY <1>1, <1>2 DEF StampsPast
  <2> QED BY <2>1, <2>2 DEF StampsPast
<1>4. HitsAreHonest'
  <2> SUFFICES ASSUME NEW r \in cache, r.stamp = out'[r.unit].stamp
               PROVE  out'[r.unit].from = r.key \/ out'[r.unit].raced
    BY <1>1 DEF HitsAreHonest, Honest
  <2>1. r.unit # m
    BY <1>1, <1>2 DEF StampsPast
  <2> QED BY <1>1, <1>2, <2>1 DEF HitsAreHonest, Honest
<1>5. Keyed'
  <2>1. CASE ToolSucceeds(m)
    <3>1. state[m] = "running" /\ state'[m] = "wrote"
          /\ out'[m].raced = read[m].raced /\ out'[m].from = read[m].from
      BY <2>1 DEF ToolSucceeds, Write, TypeOK
    <3> QED BY <1>1, <3>1 DEF Keyed
  <2>2. CASE ToolFails(m)
    <3>1. state'[m] \in {"failed", "cancelled"}
      BY <2>2 DEF ToolFails, TypeOK
    <3> QED BY <1>1, <3>1 DEF Keyed
  <2> QED BY <2>1, <2>2
<1> QED BY <1>1, <1>3, <1>4, <1>5 DEF IdleOutsideApply

LEMMA RecordKeepsInv ==
  ASSUME IInv, TypeOK', NEW m \in Modules, Record(m)
  PROVE  IInv'
<1> USE DEF IInv
<1>1. /\ out' = out /\ clock' = clock /\ read' = read /\ pc = "apply" /\ pc' = "apply"
      /\ \A x \in Modules : Key(x)' = Key(x)
      /\ state[m] = "wrote"
      /\ \A x \in Modules : state'[x] = IF x = m THEN "succeeded" ELSE state[x]
      /\ cache' = Recorded(m, Key(m))
  BY DEF Record, TypeOK, plan, Key
<1>2. Keyed'
  BY <1>1 DEF Keyed
<1>3. StampsPast'
  BY <1>1 DEF StampsPast, Recorded
<1>4. HitsAreHonest'
  <2> SUFFICES ASSUME NEW r \in cache', r.stamp = out[r.unit].stamp
               PROVE  out[r.unit].from = r.key \/ out[r.unit].raced
    BY <1>1 DEF HitsAreHonest, Honest
  <2>1. CASE r \in cache
    BY <2>1 DEF HitsAreHonest, Honest
  <2>2. CASE r = [unit |-> m, key |-> Key(m), stamp |-> out[m].stamp]
    BY <1>1, <2>2 DEF Keyed
  <2> QED BY <1>1, <2>1, <2>2 DEF Recorded
<1> QED BY <1>1, <1>2, <1>3, <1>4 DEF IdleOutsideApply

\* A hit is believed because its marker is honest.
LEMMA DecideKeepsInv ==
  ASSUME IInv, TypeOK', DecideCache
  PROVE  IInv'
<1> USE DEF IInv
<1>1. StampsPast' /\ HitsAreHonest' /\ pc' = "apply"
  BY DEF DecideCache, disk, StampsPast, HitsAreHonest, Honest
<1>2. Keyed'
  <2> SUFFICES ASSUME NEW m \in Modules
               PROVE  /\ state'[m] \notin {"running", "wrote", "succeeded"}
                      /\ state'[m] = "hit" => out[m].raced \/ out[m].from = Key(m)
    BY DEF DecideCache, disk, plan, Keyed, Key
  <2>1. state'[m] = IF m \notin units THEN "idle"
                    ELSE IF Contains(m, Key(m)) THEN "hit" ELSE "pending"
    BY DEF DecideCache
  <2>2. Contains(m, Key(m)) => out[m].raced \/ out[m].from = Key(m)
    BY DEF Contains, HitsAreHonest, Honest
  <2> QED BY <2>1, <2>2
<1> QED BY <1>1, <1>2 DEF IdleOutsideApply

LEMMA InvStep == IInv /\ [Next]_vars => IInv'
<1> SUFFICES ASSUME IInv, [Next]_vars PROVE IInv'
  OBVIOUS
<1>0. TypeOK' /\ TypeOK
  BY TypeStep DEF IInv
<1>1. CASE DecideCache
  BY <1>0, <1>1, DecideKeepsInv
<1>2. CASE EndIteration \/ SessionFails
  BY <1>0, <1>2, DropPlanType, RestKeepsInv DEF EndIteration, SessionFails, disk
<1>3. CASE TakeRescan \/ StartSession
  <2>1. Iterate(Scope) /\ UNCHANGED <<out, clock, cache>>
    BY <1>3 DEF TakeRescan, StartSession, disk
  <2> QED BY <1>0, <2>1, IterateType, ScopeAssumption, RestKeepsInv
<1>4. ASSUME NEW paths \in SUBSET Paths, TakeBatch(paths) PROVE IInv'
  <2>1. CASE paths = {Artifact}
    BY <1>0, <1>4, <2>1, QuietKeepsInv DEF TakeBatch, disk, plan
  <2>2. CASE paths # {Artifact}
    <3>1. AffectedBy(paths \ {Artifact}) \in SUBSET Modules
      BY ClosureInModules DEF Paths
    <3>2. Iterate(AffectedBy(paths \ {Artifact})) /\ UNCHANGED <<out, clock, cache>>
      BY <1>4, <2>2 DEF TakeBatch, disk
    <3> QED BY <1>0, <3>1, <3>2, IterateType, RestKeepsInv
  <2> QED BY <2>1, <2>2
<1>5. CASE StopSession \/ Overflow \/ Interrupt \/ UNCHANGED vars
  BY <1>0, <1>5, QuietKeepsInv
  DEF StopSession, Overflow, Interrupt, vars, disk, plan, bounds
<1>6. ASSUME NEW m \in Modules, NEW content \in Contents, Edit(m, content) PROVE IInv'
  BY <1>0, <1>6, QuietKeepsInv DEF Edit, plan
<1>7. ASSUME NEW m \in Modules, UnitStep(m) PROVE IInv'
  BY <1>0, <1>7, ApplyKeepsInv, WriteKeepsInv, RecordKeepsInv DEF UnitStep
<1> QED
  BY <1>1, <1>2, <1>3, <1>4, <1>5, <1>6, <1>7
  DEF Next, SessionStep, Batch, CancelledStop, WatcherStops

\* Every reachable state of the watch session is well-typed, its markers,
\* outputs and plan included.
THEOREM TypeCorrect == Spec => []TypeOK
<1> QED BY TypeInit, TypeStep, PTL DEF Spec

\* A marker that answers HIT tells the truth about the outputs on disk, or the
\* tool read a source that was edited after PLAN had keyed it, whatever failed,
\* died, overflowed or was edited in between and in whichever session.
THEOREM CacheIsHonest == Spec => []HitsAreHonest
<1>1. IInv => HitsAreHonest
  BY DEF IInv
<1> QED BY <1>1, InvInit, InvStep, PTL DEF Spec
=============================================================================
