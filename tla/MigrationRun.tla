---------------------------- MODULE MigrationRun ----------------------------
(***************************************************************************)
(* The life of a migration over several invocations of the program: the    *)
(* orchestrator's run loop, the state it keeps in the target database, and *)
(* the source rows that change meanwhile.  A run may be cancelled by a     *)
(* signal, be killed at any point, or fail in a job, in the state backend, *)
(* in the preparation or in the finalization; the next run starts from     *)
(* what the state backend holds.                                           *)
(*                                                                         *)
(* A transfer job is what TransferPromise says of it.  Rows are versions:  *)
(* the time of their last change, which is also their date column.         *)
(***************************************************************************)
EXTENDS Integers, FiniteSets, FiniteSetsExt

CONSTANTS AllTables,
          Rows,       \* primary keys a table may have
          Mid,        \* largest key of the first partition or reader
          Confs,      \* the configurations to run, one per behaviour
          None

Faults == {"crash", "cancel", "job", "state", "prepare", "finalize", "boundaries"}

(* A configuration.  A table is "int" (integer key: its job reports a      *)
(* resume point), "other" (no resume point) or "large" (two partitions).   *)
ConfType ==
  [tables : SUBSET AllTables, kind : [AllTables -> {"int", "other", "large"}],
   modes  : SUBSET {"drop_recreate", "upsert"},   \* target modes the runs may have
   dates  : BOOLEAN,             \* date_updated_columns is set
   dated  : SUBSET AllTables,    \* the tables that have such a column
   parallel : BOOLEAN,           \* a second reader takes the keys above Mid
   atomic : BOOLEAN,             \* state backend: PostgreSQL or MySQL, not MSSQL
   fresh  : BOOLEAN,             \* runs that do not load the state (TUI)
   faults : SUBSET Faults,       \* what may go wrong
   rows   : SUBSET Rows,         \* the keys present at first
   runs   : Nat \ {0},           \* bound: invocations of the program
   until  : Nat \ {0}]           \* bound: the clock, advanced by source changes

(* What the state holds of a table.                                        *)
Status == {"pending", "in_progress", "completed", "failed"}

StateRow(until) ==
  [status : Status, last_pk : Rows \cup {None},
   last_sync : 1..until \cup {None}, began : 0..until]

ASSUME MigrationAssumption ==
  /\ IsFiniteSet(AllTables) /\ IsFiniteSet(Rows) /\ Rows \subseteq Nat \ {0}
  /\ Mid \in Nat
  /\ Confs \subseteq ConfType
  /\ None \notin Int /\ \A c \in Confs : None \notin StateRow(c.until)

VARIABLES
  conf,
  now,        \* the clock
  src,        \* source: when each row last changed, 0 if there is none
  tgt,        \* target: the version of each row, 0 if there is none
  db,         \* table_state: the stored rows of every run_id
  runs,       \* invocations so far
  phase,      \* where run() is; "idle" between invocations
  mode,       \* target_mode of this invocation
  run,        \* its run_id
  mem,        \* MigrationState::tables
  pending,    \* pending_tables still to be spawned
  jobs,       \* the JoinSet
  token,      \* table_cancel_tokens
  anyOk,      \* the keys of table_rows
  anyErr,     \* the keys of table_errors
  collected,  \* partition_completed
  cancel,     \* the token the signal handlers cancel
  outcome     \* status of the last invocation's MigrationResult, or "error"

durable == <<conf, now, src, tgt, db>>
tasks   == <<jobs, token>>
results == <<anyOk, anyErr, collected>>
vars == <<durable, runs, phase, mode, run, mem, pending, tasks, results,
          cancel, outcome>>

Tables == conf.tables
RunIds == 1..conf.runs
Parts  == 0..2                     \* 0 is the job of an unpartitioned table

(* TableState::new.  began is the table's sync_start_time; the program     *)
(* keeps it beside the state and stores only last_sync.                    *)
NewTable == [status |-> "pending", last_pk |-> None, last_sync |-> None, began |-> 0]

NoJob == [state |-> "none", left |-> {}, since |-> None, moved |-> {}]

Can(fault) == fault \in conf.faults

Idle ==
  /\ phase = "idle" /\ mode = "upsert" /\ run = 1
  /\ mem = [t \in Tables |-> NewTable]
  /\ pending = {}
  /\ jobs = [t \in Tables |-> [p \in Parts |-> NoJob]]
  /\ token = [t \in Tables |-> FALSE]
  /\ anyOk = {} /\ anyErr = {}
  /\ collected = [t \in Tables |-> 0]
  /\ cancel = FALSE

Init ==
  /\ conf \in Confs
  /\ now = 1
  /\ src = [t \in Tables |-> [k \in Rows |-> IF k \in conf.rows THEN 1 ELSE 0]]
  /\ tgt = [t \in Tables |-> [k \in Rows |-> 0]]
  /\ db = [r \in RunIds |-> [t \in Tables |-> None]]
  /\ runs = 0
  /\ Idle
  /\ outcome = "none"
-----------------------------------------------------------------------------
(* The source database                                                     *)

Change(t, k) ==
  /\ now < conf.until
  /\ now' = now + 1
  /\ src' = [src EXCEPT ![t][k] = now + 1]
  /\ UNCHANGED <<conf, tgt, db, runs, phase, mode, run, mem, pending, tasks,
                 results, cancel, outcome>>
-----------------------------------------------------------------------------
(* The state backend                                                       *)

Stored(r) == \E t \in Tables : db[r][t] # None

LatestRun == Max({0} \cup {r \in RunIds : Stored(r)})

(* save(): one transaction, or one MERGE per table with MSSQL.             *)
Save(m) == db' = [db EXCEPT ![run] = m]

(* A save that fails, or is cut off by a crash, half way.                  *)
SaveFails(m) ==
  /\ Can("state")
  /\ \E S \in IF conf.atomic THEN {{}} ELSE SUBSET Tables :
       db' = [db EXCEPT ![run] = [t \in Tables |-> IF t \in S THEN m[t] ELSE @[t]]]

(* get_last_sync_timestamp: over every run of this configuration.          *)
LastSync(t) ==
  LET stamps == {db[r][t].last_sync : r \in
                   {x \in RunIds : db[x][t] # None /\ db[x][t].status = "completed"}}
                  \ {None}
  IN  IF stamps = {} THEN None ELSE Max(stamps)
-----------------------------------------------------------------------------
(* run(): load the state, prepare the target                               *)

(* A variant that forgets the tables of the last run.                      *)
ForgetState(loaded, m) == [t \in Tables |-> NewTable]

InitTables(loaded, m) ==
  [t \in Tables |-> IF m = "drop_recreate" \/ loaded[t] = None
                    THEN NewTable ELSE loaded[t]]

Start(m, resume) ==
  /\ phase = "idle"
  /\ runs < conf.runs
  /\ LET known == resume /\ LatestRun > 0
     IN  /\ run' = IF known THEN LatestRun ELSE LatestRun + 1
         /\ mem' = InitTables(IF known THEN db[LatestRun] ELSE [t \in Tables |-> None], m)
  /\ runs' = runs + 1
  /\ phase' = "prepare"
  /\ mode' = m
  /\ outcome' = "none"
  /\ UNCHANGED <<durable, pending, tasks, results, cancel>>

(* The process is gone, or run() returned: nothing but the databases stays.*)
Leave ==
  /\ phase' = "idle" /\ mode' = "upsert" /\ run' = 1
  /\ mem' = [t \in Tables |-> NewTable]
  /\ pending' = {}
  /\ jobs' = [t \in Tables |-> [p \in Parts |-> NoJob]]
  /\ token' = [t \in Tables |-> FALSE]
  /\ anyOk' = {} /\ anyErr' = {}
  /\ collected' = [t \in Tables |-> 0]
  /\ cancel' = FALSE

Emptied(S) == [t \in Tables |-> IF t \in S THEN [k \in Rows |-> 0] ELSE tgt[t]]

Incremental == mode = "upsert" /\ conf.dates

(* pending_tables: an upsert without date columns skips completed tables.  *)
ToTransfer ==
  IF mode = "drop_recreate" \/ Incremental THEN Tables
  ELSE {t \in Tables : mem[t].status # "completed"}

(* prepare_target drops and recreates every table, in drop_recreate mode,  *)
(* and the state is saved.                                                 *)
Prepare ==
  /\ phase = "prepare"
  /\ tgt' = IF mode = "drop_recreate" THEN Emptied(Tables) ELSE tgt
  /\ \/ /\ Save(mem)
        /\ phase' = "spawn"
        /\ pending' = ToTransfer
        /\ UNCHANGED <<mode, run, mem, tasks, results, cancel, outcome>>
     \/ SaveFails(mem) /\ Leave /\ outcome' = "error"
  /\ UNCHANGED <<conf, now, src, runs>>

(* A DDL statement fails, or the program is killed, after some tables were *)
(* dropped.                                                                *)
PrepareFails ==
  /\ phase = "prepare" /\ (Can("prepare") \/ Can("crash"))
  /\ \E S \in SUBSET Tables :
       tgt' = IF mode = "drop_recreate" THEN Emptied(S) ELSE tgt
  /\ Leave
  /\ outcome' = "error"
  /\ UNCHANGED <<conf, now, src, db, runs>>
-----------------------------------------------------------------------------
(* transfer_data(): the spawn loop                                         *)

(* A variant that swallows the error.                                      *)
GiveUpQuietly ==
  /\ phase' = "finalize"
  /\ pending' = {}
  /\ jobs' = [t \in Tables |-> [p \in Parts |-> NoJob]]

(* An early return drops the JoinSet, which aborts every job; run() goes   *)
(* on to its tail with the error in hand.                                  *)
GiveUp ==
  /\ phase' = "failing"
  /\ pending' = {}
  /\ jobs' = [t \in Tables |-> [p \in Parts |-> NoJob]]

PartRows(p) == CASE p = 0 -> Rows
              [] p = 1 -> {k \in Rows : k <= Mid}
              [] p = 2 -> {k \in Rows : k > Mid}

(* resume_from_pk.  The status was set to in_progress just before.         *)
ResumeFrom(m, t) ==
  IF Incremental /\ m[t].status = "completed" THEN None ELSE m[t].last_pk

(* A variant: rows changed since the start of the last sync but for one.   *)
StaleFilter(t) == IF Incremental /\ t \in conf.dated /\ LastSync(t) # None
                  THEN LastSync(t) + 1 ELSE None

DateFilter(t) == IF Incremental /\ t \in conf.dated THEN LastSync(t) ELSE None

(* Only the first reader of a job begins at the resume point.              *)
Job(p, since, resume) ==
  [state |-> "running", since |-> since, moved |-> {},
   left |-> {k \in PartRows(p) : \/ resume = None \/ k > resume
                                 \/ conf.parallel /\ k > Mid}]

(* Record the start time, mark the table, save, spawn its job or jobs.     *)
Spawn(t) ==
  /\ phase = "spawn" /\ ~cancel
  /\ t \in pending
  /\ \E split \in IF conf.kind[t] # "large" THEN {FALSE}
                  ELSE IF Can("boundaries") THEN BOOLEAN ELSE {TRUE} :
       LET m == [mem EXCEPT ![t].status = "in_progress", ![t].began = now]
       IN  /\ mem' = m
           /\ \/ /\ Save(m)
                 /\ pending' = pending \ {t}
                 /\ jobs' = [jobs EXCEPT ![t] =
                      [p \in Parts |->
                         IF split # (p = 0)
                         THEN Job(p, DateFilter(t),
                                  IF split THEN None ELSE ResumeFrom(m, t))
                         ELSE NoJob]]
                 /\ UNCHANGED phase
              \/ SaveFails(m) /\ GiveUp
  /\ UNCHANGED <<conf, now, src, tgt, runs, mode, run, token, results, cancel, outcome>>

(* The watermark cannot be read.                                           *)
LastSyncFails(t) ==
  /\ phase = "spawn" /\ ~cancel
  /\ t \in pending /\ t \in conf.dated /\ Incremental /\ Can("state")
  /\ GiveUp
  /\ UNCHANGED <<durable, runs, mode, run, mem, token, results, cancel, outcome>>

(* A variant: a cancellation is left to the result loop.                   *)
AllSpawned == pending = {}

DoneSpawning == pending = {} \/ cancel

StopSpawning ==
  /\ phase = "spawn"
  /\ DoneSpawning
  /\ pending' = {}
  /\ phase' = "collect"
  /\ UNCHANGED <<durable, runs, mode, run, mem, tasks, results, cancel, outcome>>
-----------------------------------------------------------------------------
(* The jobs                                                                *)

SetJob(t, p, j) == jobs' = [jobs EXCEPT ![t][p] = j]

jobFrame == <<conf, now, db, runs, phase, mode, run, mem, pending, results,
              cancel, outcome>>

(* A row passes through the pipeline, if it is there and the WHERE clause  *)
(* selects it.  Parallel readers visit the rows in any order.              *)
Visit(t, p, k) ==
  LET j == jobs[t][p]
      hit == src[t][k] # 0 /\ (j.since = None \/ src[t][k] > j.since)
  IN  /\ j.state = "running" /\ k \in j.left
      /\ tgt' = IF hit THEN [tgt EXCEPT ![t][k] = src[t][k]] ELSE tgt
      /\ SetJob(t, p, [j EXCEPT !.left = @ \ {k},
                                !.moved = IF hit THEN @ \cup {k} ELSE @])
      /\ UNCHANGED <<src, token, jobFrame>>

(* Ok: everything was moved, or the table's token cut the job short.       *)
JobOk(t, p) ==
  /\ jobs[t][p].state = "running"
  /\ jobs[t][p].left = {} \/ token[t]
  /\ SetJob(t, p, [jobs[t][p] EXCEPT !.state = "ok"])
  /\ UNCHANGED <<src, tgt, token, jobFrame>>

(* Err: a writer cancels the table's token before it fails, a reader does  *)
(* not.                                                                    *)
JobErr(t, p) ==
  /\ jobs[t][p].state = "running" /\ Can("job")
  /\ SetJob(t, p, [jobs[t][p] EXCEPT !.state = "err"])
  /\ \E byWriter \in BOOLEAN : token' = [token EXCEPT ![t] = @ \/ byWriter]
  /\ UNCHANGED <<src, tgt, jobFrame>>
-----------------------------------------------------------------------------
(* transfer_data(): the result loop                                        *)

(* A variant that takes the time when the table is done.                   *)
StampedNow(row, ok) ==
  IF ok THEN [row EXCEPT !.status = "completed", !.last_sync = now]
  ELSE [row EXCEPT !.status = "failed"]

(* A variant: the last partition to return decides.                        *)
LastJobDecides(t, ok) == ok

JobsSucceeded(t, ok) == ok /\ t \notin anyErr

(* The state of a table whose last job has returned: completed with the    *)
(* time its sync started as the new watermark, or failed.                  *)
Settle(row, ok) ==
  IF ok THEN [row EXCEPT !.status = "completed", !.last_sync = row.began]
  ELSE [row EXCEPT !.status = "failed"]

(* TransferStats.last_pk: none, or the last row moved; see TransferPromise.*)
ReportedPk(t, j) ==
  IF conf.kind[t] = "other" \/ j.moved = {} THEN {None} ELSE {None, Max(j.moved)}

(* join_next() hands over a finished job while nobody cancelled the run.   *)
(* Err cancels the siblings; the last partition of a table decides for all *)
(* of them; an unpartitioned table also keeps its resume point.            *)
Collect(t, p) ==
  LET j   == jobs[t][p]
      ok  == j.state = "ok"
      n   == collected[t] + 1
  IN  /\ phase = "collect" /\ ~cancel
      /\ j.state \in {"ok", "err"}
      /\ anyOk'  = IF ok THEN anyOk \cup {t} ELSE anyOk
      /\ anyErr' = IF ok THEN anyErr ELSE anyErr \cup {t}
      /\ token'  = [token EXCEPT ![t] = @ \/ ~ok]
      /\ IF p # 0 /\ n < 2
         THEN /\ collected' = [collected EXCEPT ![t] = n]
              /\ SetJob(t, p, NoJob)
              /\ UNCHANGED <<mem, db, phase, pending>>
         ELSE /\ collected' = [collected EXCEPT ![t] = 0]
              /\ \E pk \in ReportedPk(t, j) :
                   mem' = [mem EXCEPT ![t] =
                     [Settle(mem[t], JobsSucceeded(t, ok)) EXCEPT !.last_pk =
                        IF p = 0 /\ ok THEN pk ELSE @]]
              /\ \/ /\ Save(mem')
                    /\ SetJob(t, p, NoJob)
                    /\ UNCHANGED <<phase, pending>>
                 \/ SaveFails(mem') /\ GiveUp
  /\ UNCHANGED <<conf, now, src, tgt, runs, mode, run, cancel, outcome>>

(* join_next() hands over a finished job after a cancellation: its result  *)
(* is dropped with the jobs still running.                                 *)
CollectCancelled ==
  /\ phase = "collect" /\ cancel
  /\ \E t \in Tables, p \in Parts : jobs[t][p].state \in {"ok", "err"}
  /\ jobs' = [t \in Tables |-> [p \in Parts |-> NoJob]]
  /\ \/ Save(mem) /\ phase' = "settle"
     \/ SaveFails(mem) /\ phase' = "failing"
  /\ UNCHANGED <<conf, now, src, tgt, runs, mode, run, mem, pending, token,
                 results, cancel, outcome>>

JobsLeft == \E t \in Tables, p \in Parts : jobs[t][p].state # "none"

AllCollected ==
  /\ phase = "collect" /\ ~JobsLeft
  /\ phase' = "settle"
  /\ UNCHANGED <<durable, runs, mode, run, mem, pending, tasks, results,
                 cancel, outcome>>

(* What the loops after the result loop make of a table: one with results  *)
(* but no error is completed, one with an error has failed.                *)
Final(t) ==
  CASE t \in anyErr /\ (t \in anyOk \/ mem[t].status # "completed")
         -> [mem[t] EXCEPT !.status = "failed"]
    [] t \in anyOk \ anyErr -> [mem[t] EXCEPT !.status = "completed"]
    [] OTHER                -> mem[t]

FailedTables(m) == {t \in Tables : m[t].status = "failed"}

SettleTables ==
  LET m == [t \in Tables |-> Final(t)]
  IN  /\ phase = "settle"
      /\ mem' = m
      /\ \/ /\ Save(m)
            /\ phase' = IF FailedTables(m) = {} THEN "finalize" ELSE "failing"
         \/ SaveFails(m) /\ phase' = "failing"
      /\ UNCHANGED <<conf, now, src, tgt, runs, mode, run, pending, tasks,
                     results, cancel, outcome>>
-----------------------------------------------------------------------------
(* run(): finalize, and the result                                         *)

Finalize ==
  /\ phase = "finalize"
  /\ phase' = "closing"
  /\ UNCHANGED <<durable, runs, mode, run, mem, pending, tasks, results,
                 cancel, outcome>>

(* `?` on finalize returns without saving the state again.                 *)
FinalizeFails ==
  /\ phase = "finalize" /\ Can("finalize")
  /\ Leave
  /\ outcome' = "error"
  /\ UNCHANGED <<durable, runs>>

Close ==
  /\ phase \in {"closing", "failing"}
  /\ \/ /\ Save(mem)
        /\ outcome' = IF phase = "failing" THEN "error"
                      ELSE IF FailedTables(mem) # {} THEN "failed"
                      ELSE IF cancel THEN "cancelled" ELSE "completed"
     \/ SaveFails(mem) /\ outcome' = "error"
  /\ Leave
  /\ UNCHANGED <<conf, now, src, tgt, runs>>
-----------------------------------------------------------------------------
(* Signals and crashes                                                     *)

(* SIGINT or SIGTERM cancels the token; run() looks at it only while it    *)
(* spawns and collects, and for its result.                                *)
Cancel ==
  /\ phase # "idle" /\ ~cancel /\ Can("cancel")
  /\ cancel' = TRUE
  /\ UNCHANGED <<durable, runs, phase, mode, run, mem, pending, tasks, results,
                 outcome>>

Crash ==
  /\ phase # "idle" /\ Can("crash")
  /\ Leave
  /\ outcome' = "error"
  /\ UNCHANGED <<durable, runs>>

Done == /\ phase = "idle" /\ runs = conf.runs
        /\ UNCHANGED vars

JobStep(t, p) == \/ \E k \in Rows : Visit(t, p, k)
                 \/ JobOk(t, p) \/ JobErr(t, p)

Orchestrate ==
  \/ Prepare \/ PrepareFails
  \/ \E t \in Tables : Spawn(t) \/ LastSyncFails(t)
  \/ StopSpawning
  \/ \E t \in Tables, p \in Parts : Collect(t, p)
  \/ CollectCancelled \/ AllCollected
  \/ SettleTables \/ Finalize \/ FinalizeFails \/ Close

Next ==
  \/ \E t \in Tables, k \in Rows : Change(t, k)
  \/ \E m \in conf.modes : Start(m, TRUE) \/ (conf.fresh /\ Start(m, FALSE))
  \/ Orchestrate
  \/ \E t \in Tables, p \in Parts : JobStep(t, p)
  \/ Cancel \/ Crash
  \/ Done

Spec == Init /\ [][Next]_vars

(* The tokio runtime polls the run loop and the jobs, and the databases    *)
(* answer.  Nobody has to start the program again.                         *)
FairSpec == /\ Spec
            /\ WF_vars(Orchestrate)
            /\ WF_vars(\E t \in Tables, p \in Parts : JobStep(t, p))
-----------------------------------------------------------------------------
TableRow == StateRow(conf.until)

TypeOK ==
  /\ conf \in Confs /\ now \in 1..conf.until
  /\ src \in [Tables -> [Rows -> 0..conf.until]]
  /\ tgt \in [Tables -> [Rows -> 0..conf.until]]
  /\ db \in [RunIds -> [Tables -> TableRow \cup {None}]]
  /\ runs \in 0..conf.runs /\ run \in RunIds
  /\ phase \in {"idle", "prepare", "spawn", "collect", "settle", "finalize",
                "closing", "failing"}
  /\ mode \in {"drop_recreate", "upsert"}
  /\ mem \in [Tables -> TableRow]
  /\ pending \subseteq Tables /\ anyOk \subseteq Tables /\ anyErr \subseteq Tables
  /\ jobs \in [Tables -> [Parts ->
       [state : {"none", "running", "ok", "err"}, left : SUBSET Rows,
        since : 0..conf.until \cup {None}, moved : SUBSET Rows]]]
  /\ token \in [Tables -> BOOLEAN] /\ collected \in [Tables -> 0..1]
  /\ cancel \in BOOLEAN
  /\ outcome \in {"none", "completed", "cancelled", "failed", "error"}

(* Every row last changed at or before time w is in the target.            *)
CopiedUpTo(t, w) ==
  \A k \in Rows : src[t][k] \in 1..w => tgt[t][k] = src[t][k]

(* The watermark the next incremental run would filter by is never later   *)
(* than a change that did not reach the target, whatever the runs before   *)
(* it went through (transfer_data takes the time before it reads and       *)
(* stores it only after the whole table is written).                       *)
WatermarkSound ==
  "upsert" \in conf.modes =>
    \A t \in Tables : LastSync(t) # None => CopiedUpTo(t, LastSync(t))

(* A table the stored state calls completed was copied as it was when its  *)
(* transfer started; so an upsert may skip it.  Of a drop_recreate run     *)
(* this holds if it succeeds: the state outlives the tables it is about.   *)
CompletedMeansCopied ==
  conf.modes = {"upsert"} \/ outcome = "completed" =>
    \A t \in Tables :
      LET row == db[Max({1, LatestRun})][t]
      IN  row # None /\ row.status = "completed" => CopiedUpTo(t, row.began)

(* Success is only reported when every table is done.                      *)
SuccessIsComplete ==
  outcome = "completed" =>
    \A t \in Tables : db[LatestRun][t] # None /\ db[LatestRun][t].status = "completed"

(* A resumed, failed or killed run never loses or turns back a watermark   *)
(* an upsert has stored.                                                   *)
WatermarkKept ==
  [][conf.modes = {"upsert"} =>
       \A r \in RunIds, t \in Tables :
         db[r][t] # None /\ db[r][t].last_sync # None =>
           /\ db'[r][t] # None /\ db'[r][t].last_sync # None
           /\ db'[r][t].last_sync >= db[r][t].last_sync]_vars

(* run() returns, whatever fails and whenever it is cancelled.             *)
RunEnds == phase # "idle" ~> phase = "idle"
=============================================================================
