------------------------------ MODULE Finalizer ------------------------------
(***************************************************************************)
(* Orchestrator::finalize: primary keys, indexes, foreign keys (level by   *)
(* level of the dependency graph), check constraints and sequences, one    *)
(* phase after the other, with one task per table and a semaphore over     *)
(* them.  Failures are warnings, but for primary keys.                     *)
(***************************************************************************)
EXTENDS Integers, Sequences, FiniteSets

CONSTANTS Tables,
          Confs,       \* the schemas to finalize, one per behaviour
          Outside      \* any table that is not migrated

Phases == <<"pk", "index", "fk", "check", "sequence">>
PhaseNames == {Phases[i] : i \in DOMAIN Phases}

(* Only drop_recreate creates primary keys.  A table has one foreign key   *)
(* on each of the tables in fks.                                           *)
ASSUME FinalizerAssumption ==
  /\ IsFiniteSet(Tables) /\ Tables # {} /\ Outside \notin Tables
  /\ \A c \in Confs :
       /\ c.recreate \in BOOLEAN
       /\ c.keyed \subseteq Tables /\ c.indexed \subseteq Tables /\ c.checked \subseteq Tables
       /\ c.fks \in [Tables -> SUBSET (Tables \cup {Outside})]
       /\ c.permits \in Nat     \* finalizer_concurrency
       /\ c.panics \in BOOLEAN  \* a task may panic

VARIABLES
  conf,
  phase,       \* "idle", a phase, "ok" or "err"
  level,       \* the level of the foreign keys being created
  todo,        \* tables whose task has yet to be spawned
  running,     \* tasks, each with its permit
  left,        \* the constraints each task has yet to create
  failed,      \* pk_errors: tables whose primary key could not be created
  spawned      \* tasks spawned so far, by phase and table (history)

vars == <<conf, phase, level, todo, running, left, failed, spawned>>
-----------------------------------------------------------------------------
(* build_fk_dependency_levels                                              *)

Dependencies(t) == (conf.fks[t] \cap Tables) \ {t}

(* A variant: one satisfied dependency is enough.                          *)
PartlySatisfied(t, remaining) ==
  Dependencies(t) = {} \/ \E d \in Dependencies(t) : d \notin remaining

Satisfied(t, remaining) == Dependencies(t) \cap remaining = {}

(* A variant: tables on a cycle are given up.                              *)
NoneTaken(remaining) == {}

(* The tables of the next level: those whose dependencies are in earlier   *)
(* ones, or all that remain if there are none.                             *)
Cyclic(remaining) == remaining

NextLevel(remaining) ==
  LET ready == {t \in remaining : Satisfied(t, remaining)}
  IN  IF ready = {} THEN Cyclic(remaining) ELSE ready

(* What remains after n levels; there are at most as many as tables.       *)
Remaining ==
  LET rest[n \in 0..Cardinality(Tables)] ==
        IF n = 0 THEN Tables ELSE rest[n - 1] \ NextLevel(rest[n - 1])
  IN  rest

Level(n) == NextLevel(Remaining[n - 1])

LevelCount == Cardinality({n \in 1..Cardinality(Tables) : Level(n) # {}})
-----------------------------------------------------------------------------
(* The tables a phase, or a level of the foreign keys, spawns tasks for.   *)
Batch(ph, n) ==
  CASE ph = "pk"       -> IF conf.recreate THEN conf.keyed ELSE {}
    [] ph = "index"    -> conf.indexed
    [] ph = "fk"       -> {t \in Level(n) : conf.fks[t] # {}}
    [] ph = "check"    -> conf.checked
    [] ph = "sequence" -> Tables
    [] OTHER           -> {}

Items(t) == IF phase = "fk" THEN conf.fks[t] ELSE {phase}

NothingLeft == [t \in Tables |-> {}]
NotSpawned == [ph \in PhaseNames |-> [t \in Tables |-> 0]]

Init ==
  /\ conf \in Confs
  /\ phase = "idle" /\ level = 1
  /\ todo = {} /\ running = {} /\ left = NothingLeft
  /\ failed = {} /\ spawned = NotSpawned

(* run() calls finalize.                                                   *)
Begin ==
  /\ phase = "idle"
  /\ phase' = "pk"
  /\ todo' = Batch("pk", 1)
  /\ UNCHANGED <<conf, level, running, left, failed, spawned>>

(* A variant: the configured number, although it may be 0.                 *)
AsConfigured == conf.permits

MaxTasks == IF conf.permits > 1 THEN conf.permits ELSE 1

(* A variant: the semaphore is acquired and released at once.              *)
AlwaysRoom == TRUE

PermitFree == Cardinality(running) < MaxTasks

(* The loop waits for a permit before it spawns the table's task.          *)
Spawn(t) ==
  /\ t \in todo
  /\ PermitFree
  /\ todo' = todo \ {t}
  /\ running' = running \cup {t}
  /\ left' = [left EXCEPT ![t] = Items(t)]
  /\ spawned' = [spawned EXCEPT ![phase][t] = @ + 1]
  /\ UNCHANGED <<conf, phase, level, failed>>

(* A statement succeeds, or fails: an error of a primary key is kept, any  *)
(* other is a warning.                                                     *)
Create(t, item, ok) ==
  /\ t \in running /\ item \in left[t]
  /\ left' = [left EXCEPT ![t] = @ \ {item}]
  /\ failed' = IF ok \/ phase # "pk" THEN failed ELSE failed \cup {t}
  /\ UNCHANGED <<conf, phase, level, todo, running, spawned>>

TaskEnds(t) ==
  /\ t \in running /\ left[t] = {}
  /\ running' = running \ {t}
  /\ UNCHANGED <<conf, phase, level, todo, left, failed, spawned>>

(* Unwinding releases the permit; a panicked task is a warning as well.    *)
TaskPanics(t) ==
  /\ conf.panics /\ t \in running
  /\ running' = running \ {t}
  /\ left' = [left EXCEPT ![t] = {}]
  /\ UNCHANGED <<conf, phase, level, todo, failed, spawned>>

(* A variant: the first error ends the wait.                               *)
FirstErrorOrAll == todo = {} /\ (failed # {} \/ running = {})

AllJoined == todo = {} /\ running = {}

(* A variant: failed primary keys are warnings, too.                       *)
Tolerated == FALSE

KeysFailed == phase = "pk" /\ failed # {}

(* Every handle was awaited: the next level, the next phase, or the end.   *)
NextPhase ==
  CASE KeysFailed         -> "err"
    [] phase = "sequence" -> "ok"
    [] OTHER -> LET i == CHOOSE i \in DOMAIN Phases : Phases[i] = phase
                IN  Phases[i + 1]

Join ==
  /\ phase \in PhaseNames
  /\ AllJoined
  /\ IF phase = "fk" /\ level < LevelCount
     THEN level' = level + 1 /\ UNCHANGED phase
     ELSE level' = 1 /\ phase' = NextPhase
  /\ todo' = Batch(phase', level')
  /\ UNCHANGED <<conf, running, left, failed, spawned>>

Returned == phase \in {"ok", "err"}

Task(t) ==
  \/ \E item \in left[t], ok \in BOOLEAN : Create(t, item, ok)
  \/ TaskEnds(t)
  \/ TaskPanics(t)

Next ==
  \/ Begin
  \/ \E t \in Tables : Spawn(t) \/ Task(t)
  \/ Join
  \/ Returned /\ UNCHANGED vars

Spec == Init /\ [][Next]_vars

(* Every statement returns, and tokio polls every task and finalize.       *)
FairSpec == /\ Spec
            /\ WF_vars((\E t \in Tables : Spawn(t)) \/ Join)
            /\ WF_vars(\E t \in Tables : Task(t))
-----------------------------------------------------------------------------
(* The semaphore bounds the tasks in all phases.                           *)
TypeOK ==
  /\ conf \in Confs
  /\ phase \in PhaseNames \cup {"idle", "ok", "err"} /\ level \in 1..Cardinality(Tables)
  /\ todo \subseteq Tables
  /\ running \subseteq Tables /\ Cardinality(running) <= MaxTasks
  /\ left \in [Tables -> SUBSET (Tables \cup {Outside} \cup PhaseNames)]
  /\ failed \subseteq Tables
  /\ spawned \in [PhaseNames -> [Tables -> 0..1]]

(* t references, directly or not, tables that reference each other.        *)
BehindCycle(t) ==
  \E S \in SUBSET Tables : t \in S /\ \A s \in S : Dependencies(s) \cap S # {}

(* `Tables in level N only reference tables in levels 0..N-1`: the foreign *)
(* keys of a table are created when those of the tables it references are  *)
(* done, so that two concurrent ALTER TABLEs never lock each other's       *)
(* table; circular references excepted.                                    *)
ReferencesFirst ==
  phase = "fk" =>
    \A t \in running : ~BehindCycle(t) =>
      \A r \in Dependencies(t) :
        r \notin running \cup todo /\ (conf.fks[r] # {} => spawned["fk"][r] = 1)

(* No foreign key is tried before the primary keys it may refer to exist,  *)
(* and finalize does not succeed without them, short of a panic.           *)
KeysFirst ==
  (phase = "ok" \/ \E t \in Tables : spawned["fk"][t] > 0) /\ conf.recreate =>
    /\ failed = {}
    /\ \A t \in conf.keyed : spawned["pk"][t] = 1

(* When finalize returns, with an error or without, none of its tasks runs *)
(* on: run() closes the pools next, or leaves.                             *)
NothingLeftRunning == Returned => running = {}

(* finalize returns, however few permits there are and whatever fails;     *)
(* unless the process ends first.                                          *)
FinalizeEnds == phase \in PhaseNames ~> phase \notin PhaseNames
=============================================================================
