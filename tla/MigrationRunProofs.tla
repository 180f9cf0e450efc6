-------------------------- MODULE MigrationRunProofs --------------------------
(***************************************************************************)
(* The life of a migration, for any tables, any number of runs and any     *)
(* clock: what the run loop makes of the results of its jobs, and what the *)
(* stored state may claim of the target.                                   *)
(***************************************************************************)
EXTENDS MigrationRun, FiniteSetTheorems, WellFoundedInduction, TLAPS


JobRow == [state : {"none", "running", "ok", "err"}, left : SUBSET Rows,
           since : 0..conf.until \cup {None}, moved : SUBSET Rows]

Busy(t) == \E p \in Parts : jobs[t][p].state # "none"
Loops == {"spawn", "collect"}
Early == phase \in {"idle", "prepare", "spawn"}

(* The run_ids of the state backend, and what goes with a run.             *)
RunInv ==
  /\ IF phase = "idle" THEN \A r \in RunIds, t \in Tables : r > runs => db[r][t] = None
     ELSE run <= runs /\ \A r \in RunIds, t \in Tables : r > run => db[r][t] = None
  /\ ~conf.fresh => run = 1 /\ \A r \in RunIds, t \in Tables : r > 1 => db[r][t] = None
  /\ outcome # "none" => phase = "idle"
  /\ cancel => Can("cancel")
  /\ phase # "idle" => mode \in conf.modes

(* A table is in progress while it has jobs, alone or as two partitions.   *)
JobsInv(t) ==
  /\ Busy(t) => /\ phase \in Loops /\ t \notin pending
                /\ mem[t].began >= 1 /\ mem[t].status = "in_progress"
  /\ jobs[t][0].state # "none" =>
       jobs[t][1].state = "none" /\ jobs[t][2].state = "none" /\ collected[t] = 0
  /\ phase \in Loops =>
       IF collected[t] = 1
       THEN /\ jobs[t][1].state # "none" <=> jobs[t][2].state = "none"
            /\ t \in anyOk \cup anyErr
       ELSE /\ jobs[t][1].state # "none" <=> jobs[t][2].state # "none"
            /\ Busy(t) => t \notin anyOk \cup anyErr
  /\ jobs[t][1].state # "none" \/ jobs[t][2].state # "none" \/ collected[t] = 1
       => conf.kind[t] = "large"

(* A table's token is cancelled only if a job of it failed.                *)
TokenInv(t) ==
  /\ token[t] /\ phase \in Loops \cup {"idle", "prepare"} =>
       t \in anyErr \/ \E p \in Parts : jobs[t][p].state = "err"
  /\ \A p \in Parts : jobs[t][p].state = "ok" => jobs[t][p].left = {} \/ token[t]

(* What the results collected so far make of a table, ...                  *)
ResultInv(t) ==
  /\ Early => t \notin anyOk \cup anyErr /\ collected[t] = 0
  /\ phase # "spawn" => pending = {}
  /\ phase \in {"collect", "settle"} =>
       /\ t \in anyErr => mem[t].status # "completed"
       /\ t \in anyOk \ anyErr => \/ mem[t].status = "completed"
                                  \/ collected[t] = 1 /\ (phase = "collect" \/ cancel)

(* ... and that none is forgotten unless the run was cancelled.            *)
AccountInv(t) ==
  /\ ~cancel /\ phase \in Loops \cup {"settle"} =>
       t \in pending \/ Busy(t) \/ t \in anyErr \/ mem[t].status = "completed"
  /\ ~cancel /\ phase \in {"finalize", "closing"} => mem[t].status = "completed"

LoopInv(t) == JobsInv(t) /\ TokenInv(t) /\ ResultInv(t) /\ AccountInv(t)

Above(S, x) == {y \in S : y > x}

(* A finite, non-empty set of integers has a greatest element.             *)
LEMMA GreatestExists ==
  ASSUME NEW S, S \subseteq Int, IsFiniteSet(S), S # {}
  PROVE  \E x \in S : \A y \in S : x >= y
<1> DEFINE T == {Above(S, x) : x \in S}
           R == StrictSubsetOrdering(S)
<1>1. IsWellFoundedOn(R, FiniteSubsetsOf(S))
  BY FS_StrictSubsetOrderingWellFounded
<1>2. T \subseteq FiniteSubsetsOf(S)
  BY FS_FiniteSubsetsOfFinite DEF Above
<1>3. T # {}
  OBVIOUS
<1>4. PICK B \in T : \A C \in T : <<C, B>> \notin R
  <2> HIDE DEF T, R
  <2> QED BY <1>1, <1>2, <1>3, WFMin
<1>5. PICK x \in S : B = Above(S, x)
  OBVIOUS
<1>6. ASSUME NEW y \in S, y > x
      PROVE  FALSE
  <2>1. Above(S, y) \subseteq B /\ Above(S, y) # B
    <3>1. y \in B
      BY <1>5, <1>6 DEF Above
    <3>2. y \notin Above(S, y)
      <4>1. y \in Int
        OBVIOUS
      <4> QED BY <4>1 DEF Above
    <3>3. ASSUME NEW z \in S, z > y
          PROVE  z > x
      <4>1. x \in Int /\ y \in Int /\ z \in Int
        OBVIOUS
      <4> QED BY <4>1, <3>3, <1>6
    <3> HIDE DEF T, R
    <3> QED BY <3>1, <3>2, <3>3, <1>5 DEF Above
  <2>2. <<Above(S, y), B>> \in R
    BY <2>1, <1>5 DEF StrictSubsetOrdering, Above
  <2> QED BY <2>2, <1>4, <1>6
<1> QED BY <1>6

(* What Max returns of a non-empty finite set of keys.                     *)
LEMMA MaxIsGreatest ==
  ASSUME NEW S, S \subseteq Int, IsFiniteSet(S), S # {}
  PROVE  Max(S) \in S /\ \A y \in S : Max(S) >= y
BY GreatestExists, Zenon DEF Max

LifeInv == TypeOK /\ RunInv /\ \A t \in Tables : LoopInv(t)
-----------------------------------------------------------------------------
LEMMA ConfFacts ==
  ASSUME conf \in Confs
  PROVE  /\ conf.runs \in Nat \ {0} /\ conf.until \in Nat \ {0} /\ 1 \in RunIds
         /\ conf.fresh \in BOOLEAN /\ conf.dates \in BOOLEAN
         /\ \A t \in Tables : conf.kind[t] \in {"int", "other", "large"}
         /\ None \notin Int /\ None \notin TableRow
         /\ conf.modes \subseteq {"drop_recreate", "upsert"}
<1>1. conf \in ConfType
  BY MigrationAssumption
<1>2. None \notin Int /\ None \notin TableRow
  BY MigrationAssumption DEF TableRow
<1>3. /\ conf.runs \in Nat \ {0} /\ conf.until \in Nat \ {0}
      /\ conf.fresh \in BOOLEAN /\ conf.dates \in BOOLEAN
      /\ conf.modes \subseteq {"drop_recreate", "upsert"}
      /\ conf.kind \in [AllTables -> {"int", "other", "large"}] /\ conf.tables \subseteq AllTables
  BY <1>1 DEF ConfType
<1> QED BY <1>2, <1>3 DEF RunIds, Tables

LEMMA RowFields ==
  ASSUME NEW r \in TableRow
  PROVE  /\ r.status \in Status /\ r.last_pk \in Rows \cup {None}
         /\ r.last_sync \in 1..conf.until \cup {None} /\ r.began \in 0..conf.until
BY DEF TableRow, StateRow

LEMMA NewRow == conf \in Confs => NewTable \in TableRow
BY ConfFacts DEF NewTable, TableRow, StateRow, Status

LEMMA NoJobRow == NoJob \in JobRow
BY DEF NoJob, JobRow

(* The stored runs.                                                        *)
LEMMA LargestRun ==
  ASSUME NEW n \in Nat, NEW S \in SUBSET (1..n)
  PROVE  /\ Max({0} \cup S) \in 0..n
         /\ Max({0} \cup S) > 0 => Max({0} \cup S) \in S
         /\ \A r \in S : r <= Max({0} \cup S)
<1>1. PICK T : T = {0} \cup S
  OBVIOUS
<1>2. IsFiniteSet(T) /\ T \subseteq 0..n /\ T # {}
  <2>1. IsFiniteSet(0..n)
    BY FS_Interval
  <2>2. T \in SUBSET (0..n)
    BY <1>1
  <2> QED BY <1>1, <2>1, <2>2, FS_Subset
<1>3. T \subseteq Int
  BY <1>2
<1>4. Max(T) \in T /\ \A y \in T : Max(T) >= y
  BY <1>2, <1>3, MaxIsGreatest
<1>5. PICK m : m = Max(T)
  OBVIOUS
<1>6. m \in T /\ \A y \in T : m >= y
  BY <1>4, <1>5
<1>7. m \in 0..n /\ (m > 0 => m \in S) /\ \A r \in S : r <= m
  BY <1>1, <1>2, <1>6
<1> QED BY <1>1, <1>5, <1>7

LEMMA LatestFacts ==
  ASSUME conf \in Confs
  PROVE  /\ LatestRun \in 0..conf.runs
         /\ LatestRun > 0 => LatestRun \in RunIds /\ Stored(LatestRun)
         /\ \A r \in RunIds : Stored(r) => r <= LatestRun
<1>1. conf.runs \in Nat /\ RunIds = 1..conf.runs
  BY ConfFacts DEF RunIds
<1>2. PICK S : S = {r \in RunIds : Stored(r)}
  OBVIOUS
<1>3. S \in SUBSET (1..conf.runs)
  BY <1>1, <1>2
<1>4. LatestRun = Max({0} \cup S)
  BY <1>2 DEF LatestRun
<1>5. PICK n \in Nat : n = conf.runs
  BY <1>1
<1>6. /\ Max({0} \cup S) \in 0..n
      /\ Max({0} \cup S) > 0 => Max({0} \cup S) \in S
      /\ \A r \in S : r <= Max({0} \cup S)
  BY <1>3, <1>5, LargestRun
<1> QED BY <1>2, <1>4, <1>5, <1>6

(* The watermark is that of a stored, completed row.                       *)
LEMMA LastSyncFacts ==
  ASSUME conf \in Confs, db \in [RunIds -> [Tables -> TableRow \cup {None}]], NEW t \in Tables
  PROVE  \/ LastSync(t) = None
         \/ /\ LastSync(t) \in 1..conf.until
            /\ \E r \in RunIds : db[r][t] # None /\ db[r][t].last_sync = LastSync(t)
<1>0. conf.until \in Nat
  BY ConfFacts
<1> DEFINE R == {x \in RunIds : db[x][t] # None /\ db[x][t].status = "completed"}
           S == {db[r][t].last_sync : r \in R} \ {None}
<1>1. S \subseteq 1..conf.until
  <2> SUFFICES ASSUME NEW r \in R, db[r][t].last_sync # None
               PROVE  db[r][t].last_sync \in 1..conf.until
    OBVIOUS
  <2>1. db[r][t] \in TableRow
    OBVIOUS
  <2> QED BY <2>1, RowFields
<1>2. LastSync(t) = IF S = {} THEN None ELSE Max(S)
  BY DEF LastSync
<1>3. ASSUME S # {}
      PROVE  Max(S) \in S
  <2>1. IsFiniteSet(S)
    <3>1. IsFiniteSet(1..conf.until)
      BY <1>0, FS_Interval
    <3>2. S \in SUBSET (1..conf.until)
      BY <1>1
    <3> HIDE DEF S
    <3> QED BY <3>1, <3>2, FS_Subset
  <2>2. S \subseteq Int
    BY <1>1, <1>0
  <2> HIDE DEF S
  <2> QED BY <2>1, <2>2, <1>3, MaxIsGreatest
<1> QED BY <1>1, <1>2, <1>3

LEMMA ReportedFacts ==
  ASSUME NEW t, NEW j, j.moved \subseteq Rows, NEW pk \in ReportedPk(t, j)
  PROVE  pk \in Rows \cup {None} /\ (conf.kind[t] = "other" => pk = None)
<1>1. CASE conf.kind[t] = "other" \/ j.moved = {}
  BY <1>1 DEF ReportedPk
<1>2. CASE ~(conf.kind[t] = "other" \/ j.moved = {})
  <2>1. PICK S : S = j.moved
    OBVIOUS
  <2>2. IsFiniteSet(S) /\ S \subseteq Int /\ S # {}
    <3>1. S \in SUBSET Rows /\ S # {}
      BY <1>2, <2>1
    <3>2. IsFiniteSet(Rows) /\ Rows \subseteq Int
      BY MigrationAssumption
    <3>3. IsFiniteSet(S)
      BY <3>1, <3>2, FS_Subset
    <3> QED BY <3>1, <3>2, <3>3
  <2>3. Max(S) \in S
    BY <2>2, MaxIsGreatest
  <2>4. pk = None \/ pk = Max(S)
    BY <1>2, <2>1 DEF ReportedPk
  <2> QED BY <1>2, <2>1, <2>3, <2>4
<1> QED BY <1>1, <1>2

(* A save, whole or in part, brings rows of m under this run's id.         *)
Stores(m) ==
  /\ db' \in [RunIds -> [Tables -> TableRow \cup {None}]]
  /\ \A r \in RunIds, t \in Tables : db'[r][t] = db[r][t] \/ (r = run /\ db'[r][t] = m[t])

LEMMA SaveStores ==
  ASSUME TypeOK, NEW m \in [Tables -> TableRow], Save(m)
  PROVE  Stores(m) /\ db'[run] = m
<1>1. /\ db \in [RunIds -> [Tables -> TableRow \cup {None}]] /\ run \in RunIds
      /\ db' = [db EXCEPT ![run] = m]
  BY DEF TypeOK, Save
<1>2. m \in [Tables -> TableRow \cup {None}]
  OBVIOUS
<1> QED BY <1>1, <1>2 DEF Stores

LEMMA SaveFailsStores ==
  ASSUME TypeOK, NEW m \in [Tables -> TableRow], SaveFails(m)
  PROVE  Stores(m) /\ Can("state")
<1>1. db \in [RunIds -> [Tables -> TableRow \cup {None}]] /\ run \in RunIds
  BY DEF TypeOK
<1>2. PICK S \in SUBSET Tables :
        db' = [db EXCEPT ![run] = [t \in Tables |-> IF t \in S THEN m[t] ELSE @[t]]]
  BY DEF SaveFails
<1>3. PICK f : f = [t \in Tables |-> IF t \in S THEN m[t] ELSE db[run][t]]
  OBVIOUS
<1>4. db' = [db EXCEPT ![run] = f]
  BY <1>2, <1>3
<1>5. f \in [Tables -> TableRow \cup {None}]
  BY <1>1, <1>3
<1>6. \A t \in Tables : f[t] = db[run][t] \/ f[t] = m[t]
  BY <1>3
<1>7. Can("state")
  BY DEF SaveFails
<1> QED BY <1>1, <1>4, <1>5, <1>6, <1>7 DEF Stores

LEMMA NothingStored ==
  ASSUME db' = db, TypeOK, conf' = conf, NEW m
  PROVE  Stores(m)
BY DEF Stores, TypeOK

LEMMA OneJob ==
  ASSUME jobs \in [Tables -> [Parts -> JobRow]], NEW t \in Tables, NEW p \in Parts,
         NEW j \in JobRow, SetJob(t, p, j)
  PROVE  /\ jobs' \in [Tables -> [Parts -> JobRow]]
         /\ jobs'[t][p] = j /\ \A q \in Parts \ {p} : jobs'[t][q] = jobs[t][q]
         /\ \A u \in Tables \ {t} : jobs'[u] = jobs[u]
BY DEF SetJob

LEMMA JobGone ==
  ASSUME jobs \in [Tables -> [Parts -> JobRow]], NEW t \in Tables, NEW p \in Parts,
         SetJob(t, p, NoJob)
  PROVE  /\ jobs' \in [Tables -> [Parts -> JobRow]]
         /\ jobs'[t][p] = NoJob /\ jobs'[t][p].state = "none"
         /\ \A q \in Parts \ {p} : jobs'[t][q] = jobs[t][q]
         /\ \A u \in Tables \ {t} : jobs'[u] = jobs[u]
<1>1. NoJob.state = "none"
  BY DEF NoJob
<1>2. PICK j \in JobRow : j = NoJob
  BY NoJobRow
<1>3. jobs' = [jobs EXCEPT ![t][p] = j]
  BY <1>2 DEF SetJob
<1> QED BY <1>1, <1>2, <1>3

LEMMA NoJobs ==
  ASSUME jobs' = [t \in Tables |-> [p \in Parts |-> NoJob]]
  PROVE  /\ jobs' \in [Tables -> [Parts -> JobRow]]
         /\ \A t \in Tables, p \in Parts : jobs'[t][p] = NoJob /\ jobs'[t][p].state = "none"
<1>1. NoJob \in JobRow /\ NoJob.state = "none"
  BY NoJobRow DEF NoJob
<1> QED BY <1>1
-----------------------------------------------------------------------------
LEMMA ConfStays ==
  ASSUME conf' = conf
  PROVE  /\ Tables' = Tables /\ RunIds' = RunIds /\ TableRow' = TableRow /\ JobRow' = JobRow
         /\ \A f : Can(f)' <=> Can(f)
BY DEF Tables, RunIds, TableRow, JobRow, Can

(* A table that a step does not touch.                                     *)
LEMMA OtherTable ==
  ASSUME conf' = conf, NEW u \in Tables, LoopInv(u), phase' = phase, cancel => cancel',
         mem'[u] = mem[u], jobs'[u] = jobs[u], token'[u] = token[u], collected'[u] = collected[u],
         u \in anyOk' <=> u \in anyOk, u \in anyErr' <=> u \in anyErr,
         u \in pending' <=> u \in pending, pending' \subseteq pending
  PROVE  LoopInv(u)'
<1>1. Busy(u)' <=> Busy(u)
  BY DEF Busy
<1>2. JobsInv(u)'
  BY <1>1 DEF LoopInv, JobsInv
<1>3. TokenInv(u)'
  BY DEF LoopInv, TokenInv
<1>4. ResultInv(u)'
  BY DEF LoopInv, ResultInv, Early
<1>5. AccountInv(u)'
  BY <1>1 DEF LoopInv, AccountInv
<1> QED BY <1>2, <1>3, <1>4, <1>5 DEF LoopInv

(* The jobs are dropped, or done, and the loops left.                      *)
LEMMA LoopsLeft ==
  ASSUME conf' = conf, NEW u \in Tables, LoopInv(u),
         phase' = "failing", pending' = {}, collected' \in [Tables -> 0..1],
         \A p \in Parts : jobs'[u][p].state = "none",
         collected'[u] = 1 => conf.kind[u] = "large"
  PROVE  LoopInv(u)'
<1>1. 0 \in Parts /\ 1 \in Parts /\ 2 \in Parts
  BY DEF Parts
<1>2. ~Busy(u)'
  BY DEF Busy
<1>3. JobsInv(u)'
  BY <1>1, <1>2 DEF JobsInv, Loops
<1>4. TokenInv(u)' /\ ResultInv(u)' /\ AccountInv(u)'
  BY DEF TokenInv, ResultInv, AccountInv, Loops, Early
<1> QED BY <1>3, <1>4 DEF LoopInv

LEMMA RunKept ==
  ASSUME LifeInv, phase # "idle", phase' # "idle", NEW m, Stores(m), cancel' => cancel \/ Can("cancel"),
         UNCHANGED <<conf, runs, mode, run, outcome>>
  PROVE  RunInv'
<1>1. RunIds' = RunIds /\ Tables' = Tables /\ (Can("cancel")' <=> Can("cancel"))
  BY ConfStays
<1>2. run \in RunIds /\ conf.runs \in Nat /\ \A r \in RunIds : r \in Nat
  BY ConfFacts DEF LifeInv, TypeOK, RunIds
<1>3. \A r \in RunIds, t \in Tables : r > run => db'[r][t] = db[r][t]
  BY <1>2 DEF Stores
<1> QED BY <1>1, <1>2, <1>3 DEF LifeInv, RunInv

LEMMA Left ==
  ASSUME LifeInv, Leave, UNCHANGED <<conf, runs>>, phase # "idle", NEW m, Stores(m)
  PROVE  /\ RunInv' /\ \A u \in Tables : LoopInv(u)'
         /\ phase' = "idle" /\ run' \in RunIds /\ mode' = "upsert"
         /\ mem' \in [Tables -> TableRow] /\ pending' = {}
         /\ jobs' \in [Tables -> [Parts -> JobRow]] /\ token' \in [Tables -> BOOLEAN]
         /\ anyOk' = {} /\ anyErr' = {} /\ collected' \in [Tables -> 0..1] /\ cancel' = FALSE
<1>1. RunIds' = RunIds /\ Tables' = Tables /\ (Can("cancel")' <=> Can("cancel"))
  BY ConfStays
<1>2. /\ run \in RunIds /\ conf.runs \in Nat /\ (\A r \in RunIds : r \in Nat) /\ conf \in Confs
      /\ runs \in Nat /\ 1 \in RunIds
  BY ConfFacts DEF LifeInv, TypeOK, RunIds
<1>3. \A r \in RunIds, t \in Tables : r > run => db'[r][t] = db[r][t]
  BY <1>2 DEF Stores
<1>4. /\ phase' = "idle" /\ run' = 1 /\ mode' = "upsert" /\ cancel' = FALSE /\ pending' = {}
      /\ anyOk' = {} /\ anyErr' = {}
      /\ mem' = [t \in Tables |-> NewTable]
      /\ jobs' = [t \in Tables |-> [p \in Parts |-> NoJob]]
      /\ token' = [t \in Tables |-> FALSE] /\ collected' = [t \in Tables |-> 0]
  BY DEF Leave
<1>5. RunInv'
  <2>1. \A r \in RunIds, t \in Tables : r > runs => r > run
    BY <1>2 DEF LifeInv, RunInv
  <2> QED BY <1>1, <1>2, <1>3, <1>4, <2>1 DEF LifeInv, RunInv
<1>6. ASSUME NEW u \in Tables
      PROVE  LoopInv(u)'
  <2>1. 0 \in Parts /\ 1 \in Parts /\ 2 \in Parts
    BY DEF Parts
  <2>2. \A p \in Parts : jobs'[u][p].state = "none"
    BY <1>4, NoJobs
  <2>3. ~Busy(u)'
    BY <2>2 DEF Busy
  <2>4. ~token'[u] /\ collected'[u] = 0
    BY <1>4
  <2>5. JobsInv(u)'
    BY <1>4, <2>1, <2>2, <2>3, <2>4 DEF JobsInv, Loops
  <2>6. TokenInv(u)' /\ ResultInv(u)' /\ AccountInv(u)'
    BY <1>4, <2>2, <2>4 DEF TokenInv, ResultInv, AccountInv, Loops, Early
  <2> QED BY <2>5, <2>6 DEF LoopInv
<1>7. /\ mem' \in [Tables -> TableRow] /\ jobs' \in [Tables -> [Parts -> JobRow]]
      /\ token' \in [Tables -> BOOLEAN] /\ collected' \in [Tables -> 0..1]
  BY <1>2, <1>4, NewRow, NoJobs
<1> QED BY <1>2, <1>4, <1>5, <1>6, <1>7

LEMMA LeavesLife ==
  ASSUME LifeInv, Leave, UNCHANGED <<conf, now, src, runs>>, phase # "idle", NEW m, Stores(m),
         tgt' \in [Tables -> [Rows -> 0..conf.until]],
         outcome' \in {"none", "completed", "cancelled", "failed", "error"}
  PROVE  LifeInv'
<1>1. /\ RunInv' /\ \A u \in Tables : LoopInv(u)'
      /\ phase' = "idle" /\ run' \in RunIds /\ mode' = "upsert"
      /\ mem' \in [Tables -> TableRow] /\ pending' = {}
      /\ jobs' \in [Tables -> [Parts -> JobRow]] /\ token' \in [Tables -> BOOLEAN]
      /\ anyOk' = {} /\ anyErr' = {} /\ collected' \in [Tables -> 0..1] /\ cancel' = FALSE
  BY Left
<1>2. Tables' = Tables /\ RunIds' = RunIds /\ TableRow' = TableRow /\ JobRow' = JobRow
  BY ConfStays
<1>3. TypeOK'
  BY <1>1, <1>2 DEF LifeInv, TypeOK, Stores, JobRow
<1> QED BY <1>1, <1>2, <1>3 DEF LifeInv
-----------------------------------------------------------------------------
LEMMA ChangeLife ==
  ASSUME LifeInv, NEW t \in Tables, NEW k \in Rows, Change(t, k)
  PROVE  LifeInv'
<1>1. /\ now < conf.until /\ now' = now + 1 /\ src' = [src EXCEPT ![t][k] = now + 1]
      /\ UNCHANGED <<conf, tgt, db, runs, phase, mode, run, mem, pending, jobs, token,
                     anyOk, anyErr, collected, cancel, outcome>>
  BY DEF Change, tasks, results
<1>2. conf \in Confs /\ conf.until \in Nat /\ now \in 1..conf.until
  BY ConfFacts DEF LifeInv, TypeOK
<1>3. PICK n : n = now + 1
  OBVIOUS
<1>4. n \in 0..conf.until /\ n \in 1..conf.until
  BY <1>1, <1>2, <1>3
<1>5. src' = [src EXCEPT ![t][k] = n] /\ now' = n
  BY <1>1, <1>3
<1>6. src' \in [Tables -> [Rows -> 0..conf.until]]
  BY <1>4, <1>5 DEF LifeInv, TypeOK
<1>7. Tables' = Tables /\ RunIds' = RunIds /\ TableRow' = TableRow /\ JobRow' = JobRow
      /\ (Can("cancel")' <=> Can("cancel"))
  BY <1>1, ConfStays
<1>8. TypeOK'
  BY <1>1, <1>4, <1>5, <1>6, <1>7 DEF LifeInv, TypeOK
<1>9. RunInv'
  BY <1>1, <1>7 DEF LifeInv, RunInv
<1>10. \A u \in Tables : LoopInv(u)'
  BY <1>1, OtherTable DEF LifeInv
<1> QED BY <1>7, <1>8, <1>9, <1>10 DEF LifeInv

LEMMA StartLife ==
  ASSUME LifeInv, NEW m \in conf.modes, NEW resume \in BOOLEAN, Start(m, resume),
         conf.fresh \/ resume
  PROVE  LifeInv'
<1>1. /\ phase = "idle" /\ runs < conf.runs /\ runs' = runs + 1 /\ phase' = "prepare"
      /\ mode' = m /\ outcome' = "none"
      /\ UNCHANGED <<conf, now, src, tgt, db, pending, jobs, token, anyOk, anyErr, collected,
                     cancel>>
  BY DEF Start, durable, tasks, results
<1>2. /\ conf \in Confs /\ conf.runs \in Nat \ {0} /\ runs \in 0..conf.runs
      /\ RunIds = 1..conf.runs /\ m \in {"drop_recreate", "upsert"}
      /\ db \in [RunIds -> [Tables -> TableRow \cup {None}]] /\ NewTable \in TableRow
  BY ConfFacts, NewRow DEF LifeInv, TypeOK, RunIds
<1>3. PICK L : L = LatestRun
  OBVIOUS
<1>4. L \in 0..conf.runs /\ (L > 0 => L \in RunIds /\ Stored(L))
      /\ \A r \in RunIds : Stored(r) => r <= L
  BY <1>2, <1>3, LatestFacts
<1>5. PICK known \in BOOLEAN : known = (resume /\ LatestRun > 0)
  OBVIOUS
<1>6. PICK loaded : loaded = IF known THEN db[LatestRun] ELSE [t \in Tables |-> None]
  OBVIOUS
<1>7. /\ run' = IF known THEN L ELSE L + 1
      /\ mem' = InitTables(loaded, m)
      /\ loaded = IF known THEN db[L] ELSE [t \in Tables |-> None]
  BY <1>3, <1>5, <1>6 DEF Start
<1>8. L <= runs
  <2>1. CASE L = 0
    BY <1>2, <2>1
  <2>2. CASE L > 0
    <3>1. L \in RunIds /\ \E t \in Tables : db[L][t] # None
      BY <1>4, <2>2 DEF Stored
    <3> QED BY <1>1, <1>2, <1>4, <3>1 DEF LifeInv, RunInv
  <2> QED BY <1>2, <1>4, <2>1, <2>2
<1>9. run' \in RunIds /\ run' <= runs'
  <2>1. CASE known
    <3>1. L > 0
      BY <1>3, <1>5, <2>1
    <3> QED BY <1>1, <1>2, <1>4, <1>7, <1>8, <2>1, <3>1
  <2>2. CASE ~known
    BY <1>1, <1>2, <1>4, <1>7, <1>8, <2>2
  <2> QED BY <2>1, <2>2
<1>10. mem' \in [Tables -> TableRow]
  <2>1. loaded \in [Tables -> TableRow \cup {None}]
    <3>1. CASE known
      <4>1. L \in RunIds
        BY <1>3, <1>4, <1>5, <3>1
      <4> QED BY <1>2, <1>7, <3>1, <4>1
    <3>2. CASE ~known
      BY <1>7, <3>2
    <3> QED BY <3>1, <3>2
  <2>2. \A t \in Tables : loaded[t] = None \/ loaded[t] \in TableRow
    BY <2>1
  <2> QED BY <1>2, <1>7, <2>2 DEF InitTables
<1>11. Tables' = Tables /\ RunIds' = RunIds /\ TableRow' = TableRow /\ JobRow' = JobRow
       /\ (Can("cancel")' <=> Can("cancel"))
  BY <1>1, ConfStays
<1>12. TypeOK'
  <2>1. runs' \in 0..conf.runs
    BY <1>1, <1>2
  <2> QED BY <1>1, <1>2, <1>9, <1>10, <1>11, <2>1 DEF LifeInv, TypeOK
<1>13. RunInv'
  <2>1. \A r \in RunIds, t \in Tables : r > run' => db[r][t] = None
    <3> SUFFICES ASSUME NEW r \in RunIds, NEW t \in Tables, r > run', db[r][t] # None
                 PROVE  FALSE
      OBVIOUS
    <3>1. r <= L
      BY <1>4 DEF Stored
    <3> QED BY <1>2, <1>4, <1>7, <3>1
  <2>2. ~conf.fresh => run' = 1 /\ \A r \in RunIds, t \in Tables : r > 1 => db[r][t] = None
    <3> SUFFICES ASSUME ~conf.fresh PROVE run' = 1 /\ \A r \in RunIds, t \in Tables : r > 1 => db[r][t] = None
      OBVIOUS
    <3>1. \A r \in RunIds, t \in Tables : r > 1 => db[r][t] = None
      BY DEF LifeInv, RunInv
    <3>2. L <= 1
      <4>1. L > 1 => \E t \in Tables : db[L][t] # None
        BY <1>2, <1>4 DEF Stored
      <4> QED BY <1>2, <1>4, <3>1, <4>1
    <3>3. known <=> L > 0
      BY <1>3, <1>5
    <3> QED BY <1>4, <1>7, <3>1, <3>2, <3>3
  <2> QED BY <1>1, <1>9, <1>11, <2>1, <2>2 DEF LifeInv, RunInv
<1>14. ASSUME NEW u \in Tables
       PROVE  LoopInv(u)'
  <2>1. LoopInv(u) /\ (Busy(u)' <=> Busy(u))
    BY <1>1 DEF LifeInv, Busy
  <2>2. JobsInv(u)'
    BY <1>1, <2>1 DEF LoopInv, JobsInv, Loops
  <2>3. TokenInv(u)'
    BY <1>1, <2>1 DEF LoopInv, TokenInv, Loops
  <2>4. ResultInv(u)' /\ AccountInv(u)'
    BY <1>1, <2>1 DEF LoopInv, ResultInv, AccountInv, Early, Loops
  <2> QED BY <2>2, <2>3, <2>4 DEF LoopInv
<1> QED BY <1>11, <1>12, <1>13, <1>14 DEF LifeInv

LEMMA EmptiedTyped ==
  ASSUME LifeInv, NEW S
  PROVE  Emptied(S) \in [Tables -> [Rows -> 0..conf.until]]
<1>1. 0 \in 0..conf.until /\ tgt \in [Tables -> [Rows -> 0..conf.until]]
  BY ConfFacts DEF LifeInv, TypeOK
<1> QED BY <1>1 DEF Emptied

LEMMA PrepareLife ==
  ASSUME LifeInv, Prepare
  PROVE  LifeInv'
<1>1. /\ phase = "prepare" /\ UNCHANGED <<conf, now, src, runs>>
      /\ tgt' \in [Tables -> [Rows -> 0..conf.until]] /\ mem \in [Tables -> TableRow]
  BY EmptiedTyped DEF Prepare, LifeInv, TypeOK
<1>2. CASE SaveFails(mem) /\ Leave /\ outcome' = "error"
  <2>1. Stores(mem)
    BY <1>1, <1>2, SaveFailsStores DEF LifeInv
  <2> QED BY <1>1, <1>2, <2>1, LeavesLife
<1>3. CASE /\ Save(mem) /\ phase' = "spawn" /\ pending' = ToTransfer
           /\ UNCHANGED <<mode, run, mem, tasks, results, cancel, outcome>>
  <2>1. Stores(mem)
    BY <1>1, <1>3, SaveStores DEF LifeInv
  <2>2. UNCHANGED <<mode, run, mem, jobs, token, anyOk, anyErr, collected, cancel, outcome>>
    BY <1>3 DEF tasks, results
  <2>3. Tables' = Tables /\ RunIds' = RunIds /\ TableRow' = TableRow /\ JobRow' = JobRow
    BY <1>1, ConfStays
  <2>4. pending' \subseteq Tables
    BY <1>3 DEF ToTransfer
  <2>5. TypeOK'
    BY <1>1, <1>3, <2>1, <2>2, <2>3, <2>4 DEF LifeInv, TypeOK, Stores
  <2>6. RunInv'
    BY <1>1, <1>3, <2>1, <2>2, RunKept
  <2>7. ASSUME NEW u \in Tables
        PROVE  LoopInv(u)'
    <3>1. LoopInv(u) /\ (Busy(u)' <=> Busy(u)) /\ ~Busy(u)
      BY <1>1, <2>2 DEF LifeInv, Busy, LoopInv, JobsInv, Loops
    <3>2. JobsInv(u)'
      BY <1>1, <1>3, <2>2, <3>1 DEF LoopInv, JobsInv, Loops, Busy, Parts, ResultInv, Early
    <3>3. TokenInv(u)'
      BY <1>1, <1>3, <2>2, <3>1 DEF LoopInv, TokenInv, Loops
    <3>4. ResultInv(u)'
      BY <1>1, <1>3, <2>2, <3>1 DEF LoopInv, ResultInv, Early
    <3>5. u \in ToTransfer \/ mem[u].status = "completed"
      BY DEF ToTransfer
    <3>6. AccountInv(u)'
      BY <1>1, <1>3, <2>2, <3>5 DEF AccountInv, Loops
    <3> QED BY <3>2, <3>3, <3>4, <3>6 DEF LoopInv
  <2> QED BY <2>3, <2>5, <2>6, <2>7 DEF LifeInv
<1> QED BY <1>2, <1>3 DEF Prepare

(* The ways out of a run that leave the database alone, or save it last.   *)
LEMMA EndLife ==
  ASSUME LifeInv, PrepareFails \/ FinalizeFails \/ Close \/ Crash
  PROVE  LifeInv'
<1>1. tgt \in [Tables -> [Rows -> 0..conf.until]] /\ mem \in [Tables -> TableRow]
  BY DEF LifeInv, TypeOK
<1>2. /\ Leave /\ UNCHANGED <<conf, now, src, runs>> /\ phase # "idle"
      /\ tgt' \in [Tables -> [Rows -> 0..conf.until]]
      /\ outcome' \in {"none", "completed", "cancelled", "failed", "error"}
      /\ db' = db \/ Save(mem) \/ SaveFails(mem)
  <2>1. CASE PrepareFails
    BY <1>1, <2>1, EmptiedTyped DEF PrepareFails
  <2>2. CASE FinalizeFails
    BY <1>1, <2>2 DEF FinalizeFails, durable
  <2>3. CASE Close
    BY <1>1, <2>3 DEF Close
  <2>4. CASE Crash
    BY <1>1, <2>4 DEF Crash, durable
  <2> QED BY <2>1, <2>2, <2>3, <2>4
<1>3. Stores(mem)
  BY <1>1, <1>2, SaveStores, SaveFailsStores, NothingStored DEF LifeInv
<1> QED BY <1>2, <1>3, LeavesLife

LEMMA CancelLife ==
  ASSUME LifeInv, Cancel
  PROVE  LifeInv'
<1>1. /\ phase # "idle" /\ Can("cancel") /\ cancel' = TRUE
      /\ UNCHANGED <<conf, now, src, tgt, db, runs, phase, mode, run, mem, pending, jobs, token,
                     anyOk, anyErr, collected, outcome>>
  BY DEF Cancel, durable, tasks, results
<1>2. Tables' = Tables /\ RunIds' = RunIds /\ TableRow' = TableRow /\ JobRow' = JobRow
  BY <1>1, ConfStays
<1>3. TypeOK'
  BY <1>1, <1>2 DEF LifeInv, TypeOK
<1>4. RunInv'
  BY <1>1, RunKept, NothingStored DEF LifeInv
<1>5. \A u \in Tables : LoopInv(u)'
  BY <1>1, OtherTable DEF LifeInv
<1> QED BY <1>2, <1>3, <1>4, <1>5 DEF LifeInv

(* The end of the spawn loop, ...                                          *)
LEMMA StopSpawningLife ==
  ASSUME LifeInv, StopSpawning
  PROVE  LifeInv'
<1>1. /\ phase = "spawn" /\ (pending = {} \/ cancel) /\ pending' = {} /\ phase' = "collect"
      /\ UNCHANGED <<conf, now, src, tgt, db, runs, mode, run, mem, jobs, token,
                     anyOk, anyErr, collected, cancel, outcome>>
  BY DEF StopSpawning, DoneSpawning, durable, tasks, results
<1>2. Tables' = Tables /\ RunIds' = RunIds /\ TableRow' = TableRow /\ JobRow' = JobRow
  BY <1>1, ConfStays
<1>3. TypeOK'
  BY <1>1, <1>2 DEF LifeInv, TypeOK
<1>4. RunInv'
  BY <1>1, RunKept, NothingStored DEF LifeInv
<1>5. ASSUME NEW u \in Tables
      PROVE  LoopInv(u)'
  <2>1. LoopInv(u) /\ (Busy(u)' <=> Busy(u))
    BY <1>1 DEF LifeInv, Busy
  <2>2. u \notin anyOk \cup anyErr /\ collected[u] = 0
    BY <1>1, <2>1 DEF LoopInv, ResultInv, Early
  <2>3. JobsInv(u)'
    BY <1>1, <2>1 DEF LoopInv, JobsInv, Loops
  <2>4. TokenInv(u)'
    BY <1>1, <2>1 DEF LoopInv, TokenInv, Loops
  <2>5. ResultInv(u)'
    BY <1>1, <2>2 DEF ResultInv, Early
  <2>6. AccountInv(u)'
    BY <1>1, <2>1 DEF LoopInv, AccountInv, Loops
  <2> QED BY <2>3, <2>4, <2>5, <2>6 DEF LoopInv
<1> QED BY <1>2, <1>3, <1>4, <1>5 DEF LifeInv

(* ... of the result loop, when nothing is left or after a cancellation,   *)
LEMMA AllCollectedLife ==
  ASSUME LifeInv, AllCollected
  PROVE  LifeInv'
<1>1. /\ phase = "collect" /\ ~JobsLeft /\ phase' = "settle"
      /\ UNCHANGED <<conf, now, src, tgt, db, runs, mode, run, mem, pending, jobs, token,
                     anyOk, anyErr, collected, cancel, outcome>>
  BY DEF AllCollected, durable, tasks, results
<1>2. Tables' = Tables /\ RunIds' = RunIds /\ TableRow' = TableRow /\ JobRow' = JobRow
  BY <1>1, ConfStays
<1>3. TypeOK'
  BY <1>1, <1>2 DEF LifeInv, TypeOK
<1>4. RunInv'
  BY <1>1, RunKept, NothingStored DEF LifeInv
<1>5. ASSUME NEW u \in Tables
      PROVE  LoopInv(u)'
  <2>1. LoopInv(u) /\ (Busy(u)' <=> Busy(u)) /\ ~Busy(u)
    BY <1>1 DEF LifeInv, Busy, JobsLeft
  <2>2. collected[u] = 0
    <3>1. jobs[u][1].state = "none" /\ jobs[u][2].state = "none"
      BY <1>1 DEF JobsLeft, Parts
    <3> QED BY <1>1, <2>1, <3>1 DEF LoopInv, JobsInv, Loops, LifeInv, TypeOK
  <2>3. JobsInv(u)'
    BY <1>1, <2>1 DEF LoopInv, JobsInv, Loops
  <2>4. TokenInv(u)'
    BY <1>1, <2>1 DEF LoopInv, TokenInv, Loops
  <2>5. ResultInv(u)'
    BY <1>1, <2>1, <2>2 DEF LoopInv, ResultInv, Early
  <2>6. AccountInv(u)'
    BY <1>1, <2>1 DEF LoopInv, AccountInv, Loops
  <2> QED BY <2>3, <2>4, <2>5, <2>6 DEF LoopInv
<1> QED BY <1>2, <1>3, <1>4, <1>5 DEF LifeInv

LEMMA CollectCancelledLife ==
  ASSUME LifeInv, CollectCancelled
  PROVE  LifeInv'
<1>1. /\ phase = "collect" /\ cancel
      /\ jobs' = [t \in Tables |-> [p \in Parts |-> NoJob]]
      /\ \/ Save(mem) /\ phase' = "settle"
         \/ SaveFails(mem) /\ phase' = "failing"
      /\ UNCHANGED <<conf, now, src, tgt, runs, mode, run, mem, pending, token,
                     anyOk, anyErr, collected, cancel, outcome>>
      /\ mem \in [Tables -> TableRow]
  BY DEF CollectCancelled, results, LifeInv, TypeOK
<1>2. Tables' = Tables /\ RunIds' = RunIds /\ TableRow' = TableRow /\ JobRow' = JobRow
  BY <1>1, ConfStays
<1>3. Stores(mem) /\ jobs' \in [Tables -> [Parts -> JobRow]]
      /\ \A t \in Tables, p \in Parts : jobs'[t][p].state = "none"
  BY <1>1, SaveStores, SaveFailsStores, NoJobs DEF LifeInv
<1>4. TypeOK'
  BY <1>1, <1>2, <1>3 DEF LifeInv, TypeOK, Stores, JobRow
<1>5. RunInv'
  BY <1>1, <1>3, RunKept DEF LifeInv
<1>6. ASSUME NEW u \in Tables
      PROVE  LoopInv(u)'
  <2>0. 0 \in Parts /\ 1 \in Parts /\ 2 \in Parts
    BY DEF Parts
  <2>1. LoopInv(u) /\ ~Busy(u)'
    BY <1>3 DEF LifeInv, Busy
  <2>2. JobsInv(u)'
    BY <1>1, <1>3, <2>0, <2>1 DEF LoopInv, JobsInv, Loops
  <2>3. TokenInv(u)'
    BY <1>1, <1>3 DEF TokenInv, Loops
  <2>4. ResultInv(u)' /\ AccountInv(u)'
    BY <1>1, <2>1 DEF LoopInv, ResultInv, AccountInv, Early, Loops
  <2> QED BY <2>2, <2>3, <2>4 DEF LoopInv
<1> QED BY <1>2, <1>4, <1>5, <1>6 DEF LifeInv

(* ... and of the loops over the tables.                                   *)
LEMMA FinalRow ==
  ASSUME LifeInv, NEW t \in Tables
  PROVE  /\ Final(t) \in TableRow
         /\ Final(t).last_pk = mem[t].last_pk /\ Final(t).last_sync = mem[t].last_sync
         /\ Final(t).began = mem[t].began
         /\ Final(t).status # mem[t].status => Final(t).status \in {"failed", "completed"}
         /\ t \in anyErr /\ (t \in anyOk \/ mem[t].status # "completed") => Final(t).status = "failed"
         /\ t \in anyErr /\ ~(t \in anyOk \/ mem[t].status # "completed") => Final(t) = mem[t]
         /\ t \in anyOk \ anyErr => Final(t).status = "completed"
         /\ t \notin anyErr \cup anyOk => Final(t) = mem[t]
<1>1. PICK row \in TableRow : row = mem[t]
  BY DEF LifeInv, TypeOK
<1>2. /\ [row EXCEPT !.status = "failed"] \in TableRow /\ [row EXCEPT !.status = "completed"] \in TableRow
      /\ [row EXCEPT !.status = "failed"].status = "failed"
      /\ [row EXCEPT !.status = "completed"].status = "completed"
  BY DEF TableRow, StateRow, Status
<1>3. CASE t \in anyErr /\ (t \in anyOk \/ mem[t].status # "completed")
  <2>1. Final(t) = [row EXCEPT !.status = "failed"]
    BY <1>1, <1>3 DEF Final
  <2> QED BY <1>1, <1>2, <1>3, <2>1 DEF TableRow, StateRow
<1>4. CASE t \in anyOk \ anyErr
  <2>1. Final(t) = [row EXCEPT !.status = "completed"]
    BY <1>1, <1>4 DEF Final
  <2> QED BY <1>1, <1>2, <1>4, <2>1 DEF TableRow, StateRow
<1>5. CASE ~(t \in anyErr /\ (t \in anyOk \/ mem[t].status # "completed")) /\ ~(t \in anyOk \ anyErr)
  <2>1. Final(t) = row
    BY <1>1, <1>5 DEF Final
  <2> QED BY <1>1, <1>5, <2>1
<1> QED BY <1>3, <1>4, <1>5

LEMMA SettleTablesLife ==
  ASSUME LifeInv, SettleTables
  PROVE  LifeInv'
<1>1. PICK m : m = [t \in Tables |-> Final(t)]
  OBVIOUS
<1>2. /\ phase = "settle" /\ mem' = m
      /\ \/ Save(m) /\ phase' = IF FailedTables(m) = {} THEN "finalize" ELSE "failing"
         \/ SaveFails(m) /\ phase' = "failing"
      /\ UNCHANGED <<conf, now, src, tgt, runs, mode, run, pending, jobs, token,
                     anyOk, anyErr, collected, cancel, outcome>>
  BY <1>1 DEF SettleTables, tasks, results
<1>3. m \in [Tables -> TableRow] /\ \A t \in Tables : m[t] = Final(t)
  BY <1>1, FinalRow
<1>4. Tables' = Tables /\ RunIds' = RunIds /\ TableRow' = TableRow /\ JobRow' = JobRow
  BY <1>2, ConfStays
<1>5. Stores(m)
  BY <1>2, <1>3, SaveStores, SaveFailsStores DEF LifeInv
<1>6. TypeOK'
  BY <1>2, <1>3, <1>4, <1>5 DEF LifeInv, TypeOK, Stores
<1>7. RunInv'
  BY <1>2, <1>5, RunKept DEF LifeInv
<1>8. ASSUME NEW u \in Tables
      PROVE  LoopInv(u)'
  <2>1. LoopInv(u) /\ (Busy(u)' <=> Busy(u)) /\ ~Busy(u)
    BY <1>2 DEF LifeInv, Busy, LoopInv, JobsInv, Loops
  <2>2. JobsInv(u)'
    BY <1>2, <2>1 DEF LoopInv, JobsInv, Loops
  <2>3. TokenInv(u)' /\ ResultInv(u)'
    BY <1>2, <2>1 DEF LoopInv, TokenInv, ResultInv, Early, Loops
  <2>4. ~cancel /\ phase' = "finalize" => m[u].status = "completed"
    <3> SUFFICES ASSUME ~cancel, phase' = "finalize"
                 PROVE  m[u].status = "completed"
      OBVIOUS
    <3>1. m[u].status # "failed"
      BY <1>2, <1>3 DEF FailedTables
    <3>2. u \in anyErr \/ mem[u].status = "completed"
      BY <1>2, <2>1 DEF LoopInv, AccountInv, ResultInv, Loops
    <3>3. u \notin anyErr
      BY <1>2, <1>3, <2>1, <3>1, FinalRow DEF LoopInv, ResultInv
    <3> QED BY <1>3, <3>2, <3>3, FinalRow
  <2>5. AccountInv(u)'
    BY <1>2, <2>4 DEF AccountInv, Loops
  <2> QED BY <2>2, <2>3, <2>5 DEF LoopInv
<1> QED BY <1>4, <1>6, <1>7, <1>8 DEF LifeInv

LEMMA FinalizeLife ==
  ASSUME LifeInv, Finalize
  PROVE  LifeInv'
<1>1. /\ phase = "finalize" /\ phase' = "closing"
      /\ UNCHANGED <<conf, now, src, tgt, db, runs, mode, run, mem, pending, jobs, token,
                     anyOk, anyErr, collected, cancel, outcome>>
  BY DEF Finalize, durable, tasks, results
<1>2. Tables' = Tables /\ RunIds' = RunIds /\ TableRow' = TableRow /\ JobRow' = JobRow
  BY <1>1, ConfStays
<1>3. TypeOK'
  BY <1>1, <1>2 DEF LifeInv, TypeOK
<1>4. RunInv'
  BY <1>1, RunKept, NothingStored DEF LifeInv
<1>5. ASSUME NEW u \in Tables
      PROVE  LoopInv(u)'
  <2>1. LoopInv(u) /\ (Busy(u)' <=> Busy(u)) /\ ~Busy(u)
    BY <1>1 DEF LifeInv, Busy, LoopInv, JobsInv, Loops
  <2>2. JobsInv(u)' /\ TokenInv(u)'
    BY <1>1, <2>1 DEF LoopInv, JobsInv, TokenInv, Loops
  <2>3. ResultInv(u)' /\ AccountInv(u)'
    BY <1>1, <2>1 DEF LoopInv, ResultInv, AccountInv, Early, Loops
  <2> QED BY <2>2, <2>3 DEF LoopInv
<1> QED BY <1>2, <1>3, <1>4, <1>5 DEF LifeInv

(* An early return from the loops.                                         *)
LEMMA GiveUpLife ==
  ASSUME LifeInv, GiveUp, phase # "idle",
         UNCHANGED <<conf, now, src, tgt, runs, mode, run, cancel, outcome>>,
         mem' \in [Tables -> TableRow], NEW m, Stores(m),
         token' \in [Tables -> BOOLEAN], anyOk' \subseteq Tables, anyErr' \subseteq Tables,
         collected' \in [Tables -> 0..1],
         \A t \in Tables : collected'[t] = 1 => conf.kind[t] = "large"
  PROVE  LifeInv'
<1>1. /\ phase' = "failing" /\ pending' = {}
      /\ jobs' = [t \in Tables |-> [p \in Parts |-> NoJob]]
  BY DEF GiveUp
<1>2. Tables' = Tables /\ RunIds' = RunIds /\ TableRow' = TableRow /\ JobRow' = JobRow
  BY ConfStays
<1>3. /\ jobs' \in [Tables -> [Parts -> JobRow]]
      /\ \A t \in Tables, p \in Parts : jobs'[t][p].state = "none"
  BY <1>1, NoJobs
<1>4. TypeOK'
  BY <1>1, <1>2, <1>3 DEF LifeInv, TypeOK, Stores, JobRow
<1>5. RunInv'
  BY <1>1, RunKept
<1>6. \A u \in Tables : LoopInv(u)'
  BY <1>1, <1>3, LoopsLeft DEF LifeInv
<1> QED BY <1>2, <1>4, <1>5, <1>6 DEF LifeInv

LEMMA LastSyncFailsLife ==
  ASSUME LifeInv, NEW t \in Tables, LastSyncFails(t)
  PROVE  LifeInv'
<1>1. /\ phase = "spawn" /\ GiveUp
      /\ UNCHANGED <<conf, now, src, tgt, db, runs, mode, run, mem, token, anyOk, anyErr,
                     collected, cancel, outcome>>
  BY DEF LastSyncFails, durable, results
<1>2. Stores(mem) /\ mem' \in [Tables -> TableRow] /\ token' \in [Tables -> BOOLEAN]
      /\ anyOk' \subseteq Tables /\ anyErr' \subseteq Tables /\ collected' \in [Tables -> 0..1]
  BY <1>1, NothingStored DEF LifeInv, TypeOK
<1>3. \A u \in Tables : collected'[u] = 1 => conf.kind[u] = "large"
  BY <1>1 DEF LifeInv, LoopInv, JobsInv
<1> QED BY <1>1, <1>2, <1>3, GiveUpLife

LEMMA NewJob ==
  ASSUME NEW p \in Parts, NEW since \in 0..conf.until \cup {None}, NEW resume
  PROVE  /\ Job(p, since, resume) \in JobRow
         /\ Job(p, since, resume).state = "running" /\ Job(p, since, resume).since = since
         /\ Job(p, since, resume).moved = {}
         /\ resume = None => Job(p, since, resume).left = PartRows(p)
<1>1. PartRows(p) \subseteq Rows
  BY DEF PartRows, Parts
<1>2. PICK L : L = {k \in PartRows(p) : \/ resume = None \/ k > resume
                                        \/ conf.parallel /\ k > Mid}
  OBVIOUS
<1>3. L \subseteq Rows /\ (resume = None => L = PartRows(p))
  BY <1>1, <1>2
<1>4. Job(p, since, resume) = [state |-> "running", since |-> since, moved |-> {}, left |-> L]
  BY <1>2 DEF Job
<1> QED BY <1>3, <1>4 DEF JobRow

(* What the spawn loop makes of a table.                                   *)
Spawned(t, split, resume) ==
  [p \in Parts |-> IF split # (p = 0) THEN Job(p, DateFilter(t), resume) ELSE NoJob]

LEMMA SpawnFacts ==
  ASSUME LifeInv, NEW t \in Tables, Spawn(t)
  PROVE  /\ phase = "spawn" /\ ~cancel /\ t \in pending /\ mem' \in [Tables -> TableRow]
         /\ mem'[t].status = "in_progress" /\ mem'[t].began = now
         /\ mem'[t].last_pk = mem[t].last_pk /\ mem'[t].last_sync = mem[t].last_sync
         /\ \A u \in Tables \ {t} : mem'[u] = mem[u]
         /\ UNCHANGED <<conf, now, src, tgt, runs, mode, run, token, anyOk, anyErr, collected,
                        cancel, outcome>>
         /\ \/ /\ Save(mem') /\ pending' = pending \ {t} /\ phase' = phase
               /\ \E split \in BOOLEAN :
                    /\ split => conf.kind[t] = "large"
                    /\ ~split => conf.kind[t] # "large" \/ Can("boundaries")
                    /\ jobs' = [jobs EXCEPT ![t] =
                         Spawned(t, split, IF split THEN None ELSE mem'[t].last_pk)]
            \/ SaveFails(mem') /\ GiveUp
<1> DEFINE m == [mem EXCEPT ![t].status = "in_progress", ![t].began = now]
<1>1. PICK split \in IF conf.kind[t] # "large" THEN {FALSE}
                     ELSE IF Can("boundaries") THEN BOOLEAN ELSE {TRUE} :
        /\ mem' = m
        /\ \/ /\ Save(m)
              /\ pending' = pending \ {t}
              /\ jobs' = [jobs EXCEPT ![t] =
                   [p \in Parts |->
                      IF split # (p = 0)
                      THEN Job(p, DateFilter(t),
                               IF split THEN None ELSE ResumeFrom(m, t))
                      ELSE NoJob]]
              /\ UNCHANGED phase
           \/ SaveFails(m) /\ GiveUp
  BY Zenon DEF Spawn
<1>2. m = [mem EXCEPT ![t].status = "in_progress", ![t].began = now]
  OBVIOUS
<1> HIDE DEF m
<1>3. PICK row \in TableRow : row = mem[t]
  BY DEF LifeInv, TypeOK
<1>4. PICK new : new = [row EXCEPT !.status = "in_progress", !.began = now]
  OBVIOUS
<1>5. now \in 0..conf.until
  BY ConfFacts DEF LifeInv, TypeOK
<1>6. /\ new \in TableRow /\ new.status = "in_progress" /\ new.began = now
      /\ new.last_pk = row.last_pk /\ new.last_sync = row.last_sync
  BY <1>4, <1>5 DEF TableRow, StateRow, Status
<1>7. m = [mem EXCEPT ![t] = new]
  BY <1>2, <1>3, <1>4 DEF LifeInv, TypeOK
<1>8. m \in [Tables -> TableRow] /\ m[t] = new /\ \A u \in Tables \ {t} : m[u] = mem[u]
  BY <1>6, <1>7 DEF LifeInv, TypeOK
<1>9. mem' = m
  BY <1>1, Zenon
<1>10. ResumeFrom(m, t) = m[t].last_pk
  BY <1>6, <1>8 DEF ResumeFrom
<1>11. split \in BOOLEAN /\ (split => conf.kind[t] = "large")
       /\ (~split => conf.kind[t] # "large" \/ Can("boundaries"))
  BY <1>1
<1>12. \/ /\ Save(mem') /\ pending' = pending \ {t} /\ phase' = phase
          /\ jobs' = [jobs EXCEPT ![t] = Spawned(t, split, IF split THEN None ELSE mem'[t].last_pk)]
       \/ SaveFails(mem') /\ GiveUp
  <2>1. CASE SaveFails(m) /\ GiveUp
    BY <1>9, <2>1
  <2>2. CASE ~(SaveFails(m) /\ GiveUp)
    <3>1. jobs' = [jobs EXCEPT ![t] =
                     [p \in Parts |->
                        IF split # (p = 0)
                        THEN Job(p, DateFilter(t), IF split THEN None ELSE ResumeFrom(m, t))
                        ELSE NoJob]]
      BY <1>1, <2>2, Zenon
    <3>2. jobs' = [jobs EXCEPT ![t] = Spawned(t, split, IF split THEN None ELSE ResumeFrom(m, t))]
      BY <3>1, Zenon DEF Spawned
    <3>3. Save(m) /\ pending' = pending \ {t} /\ phase' = phase
      BY <1>1, <2>2, Zenon
    <3> QED BY <1>9, <1>10, <3>2, <3>3
  <2> QED BY <2>1, <2>2
<1>13. /\ phase = "spawn" /\ ~cancel /\ t \in pending
       /\ UNCHANGED <<conf, now, src, tgt, runs, mode, run, token, anyOk, anyErr, collected,
                      cancel, outcome>>
  BY DEF Spawn, results
<1> QED BY <1>3, <1>6, <1>8, <1>9, <1>11, <1>12, <1>13

LEMMA FilterTyped ==
  ASSUME LifeInv, NEW t \in Tables
  PROVE  DateFilter(t) \in 0..conf.until \cup {None}
<1>1. LastSync(t) = None \/ LastSync(t) \in 0..conf.until
  BY ConfFacts, LastSyncFacts DEF LifeInv, TypeOK
<1> QED BY <1>1 DEF DateFilter

LEMMA SpawnedFacts ==
  ASSUME LifeInv, NEW t \in Tables, NEW split \in BOOLEAN, NEW resume,
         jobs' = [jobs EXCEPT ![t] = Spawned(t, split, resume)]
  PROVE  /\ jobs' \in [Tables -> [Parts -> JobRow]]
         /\ \A u \in Tables \ {t} : jobs'[u] = jobs[u]
         /\ split => /\ jobs'[t][0] = NoJob
                     /\ jobs'[t][1] = Job(1, DateFilter(t), resume)
                     /\ jobs'[t][2] = Job(2, DateFilter(t), resume)
         /\ ~split => /\ jobs'[t][0] = Job(0, DateFilter(t), resume)
                      /\ jobs'[t][1] = NoJob /\ jobs'[t][2] = NoJob
<1>0. jobs \in [Tables -> [Parts -> JobRow]] /\ Parts = {0, 1, 2}
  BY DEF LifeInv, TypeOK, JobRow, Parts
<1>1. PICK f : f = Spawned(t, split, resume)
  OBVIOUS
<1>2. DOMAIN f = Parts /\ f = [p \in Parts |-> f[p]]
  BY <1>1 DEF Spawned
<1> DEFINE d == DateFilter(t)
<1>5. \A p \in Parts : f[p] = IF split # (p = 0) THEN Job(p, d, resume) ELSE NoJob
  BY <1>1, Zenon DEF Spawned
<1>6. \A p \in Parts : Job(p, d, resume) \in JobRow
  <2>1. PICK s \in 0..conf.until \cup {None} : s = d
    BY FilterTyped
  <2>2. \A p \in Parts : Job(p, s, resume) \in JobRow
    BY NewJob
  <2> HIDE DEF d
  <2> QED BY <2>1, <2>2
<1> HIDE DEF d
<1>7. f \in [Parts -> JobRow]
  <2>1. \A p \in Parts : f[p] \in JobRow
    BY <1>5, <1>6, NoJobRow
  <2> QED BY <1>2, <2>1
<1>8. 0 \in Parts /\ 1 \in Parts /\ 2 \in Parts /\ (0 = 0) = TRUE /\ (1 = 0) = FALSE
      /\ (2 = 0) = FALSE
  BY <1>0
<1>3. CASE split = TRUE
  <2>1. /\ f[0] = NoJob /\ f[1] = Job(1, d, resume) /\ f[2] = Job(2, d, resume)
    BY <1>3, <1>5, <1>8, Zenon
  <2> QED BY <1>0, <1>1, <1>3, <1>7, <2>1 DEF d
<1>4. CASE split = FALSE
  <2>1. f[0] = Job(0, d, resume) /\ f[1] = NoJob /\ f[2] = NoJob
    BY <1>4, <1>5, <1>8, Zenon
  <2> QED BY <1>0, <1>1, <1>4, <1>7, <2>1 DEF d
<1> QED BY <1>3, <1>4

LEMMA SpawnLife ==
  ASSUME LifeInv, NEW t \in Tables, Spawn(t)
  PROVE  LifeInv'
<1>1. /\ phase = "spawn" /\ ~cancel /\ t \in pending /\ mem' \in [Tables -> TableRow]
      /\ mem'[t].status = "in_progress" /\ mem'[t].began = now
      /\ \A u \in Tables \ {t} : mem'[u] = mem[u]
      /\ UNCHANGED <<conf, now, src, tgt, runs, mode, run, token, anyOk, anyErr, collected,
                     cancel, outcome>>
  BY SpawnFacts
<1>2. CASE SaveFails(mem') /\ GiveUp
  <2>1. PICK m : m = mem'
    OBVIOUS
  <2>2. Stores(m)
    BY <1>1, <1>2, <2>1, SaveFailsStores DEF LifeInv
  <2>3. /\ token' \in [Tables -> BOOLEAN] /\ anyOk' \subseteq Tables /\ anyErr' \subseteq Tables
        /\ collected' \in [Tables -> 0..1]
        /\ \A u \in Tables : collected'[u] = 1 => conf.kind[u] = "large"
    BY <1>1 DEF LifeInv, TypeOK, LoopInv, JobsInv
  <2> QED BY <1>1, <1>2, <2>2, <2>3, GiveUpLife
<1>3. ASSUME Save(mem'), pending' = pending \ {t}, phase' = phase, NEW split \in BOOLEAN,
             split => conf.kind[t] = "large", NEW resume,
             jobs' = [jobs EXCEPT ![t] = Spawned(t, split, resume)]
      PROVE  LifeInv'
  <2>1. Tables' = Tables /\ RunIds' = RunIds /\ TableRow' = TableRow /\ JobRow' = JobRow
    BY <1>1, ConfStays
  <2>2. PICK m : m = mem'
    OBVIOUS
  <2>3. Stores(m)
    BY <1>1, <1>3, <2>2, SaveStores DEF LifeInv
  <2>4. /\ jobs' \in [Tables -> [Parts -> JobRow]]
        /\ \A u \in Tables \ {t} : jobs'[u] = jobs[u]
    BY <1>3, SpawnedFacts
  <2>5. TypeOK'
    BY <1>1, <1>3, <2>1, <2>3, <2>4 DEF LifeInv, TypeOK, Stores, JobRow
  <2>6. RunInv'
    BY <1>1, <1>3, <2>3, RunKept DEF LifeInv
  <2>7. ASSUME NEW u \in Tables \ {t}
        PROVE  LoopInv(u)'
    BY <1>1, <1>3, <2>4, OtherTable DEF LifeInv
  <2>8. LoopInv(t)'
    <3>1. LoopInv(t) /\ t \notin anyOk \cup anyErr /\ collected[t] = 0 /\ now \in Nat /\ now >= 1
      BY <1>1, ConfFacts DEF LifeInv, TypeOK, LoopInv, ResultInv, Early
    <3>2. ~token[t]
      BY <1>1, <3>1 DEF LoopInv, JobsInv, TokenInv, Loops, Busy
    <3>10. NoJob.state = "none" /\ \A p \in Parts : Job(p, DateFilter(t), resume).state = "running"
      BY DEF NoJob, Job
    <3>4. /\ split => /\ jobs'[t][0].state = "none" /\ jobs'[t][1].state = "running"
                      /\ jobs'[t][2].state = "running"
          /\ ~split => /\ jobs'[t][0].state = "running" /\ jobs'[t][1].state = "none"
                       /\ jobs'[t][2].state = "none"
      <4>1. PICK d : d = DateFilter(t)
        OBVIOUS
      <4>2. /\ split => /\ jobs'[t][0] = NoJob /\ jobs'[t][1] = Job(1, d, resume)
                        /\ jobs'[t][2] = Job(2, d, resume)
            /\ ~split => /\ jobs'[t][0] = Job(0, d, resume)
                         /\ jobs'[t][1] = NoJob /\ jobs'[t][2] = NoJob
        BY <1>3, <4>1, SpawnedFacts
      <4>3. \A p \in Parts : Job(p, d, resume).state = "running"
        BY <3>10, <4>1
      <4>4. 0 \in Parts /\ 1 \in Parts /\ 2 \in Parts
        BY DEF Parts
      <4> QED BY <3>10, <4>2, <4>3, <4>4, Zenon
    <3>3. \A p \in Parts : jobs'[t][p].state \in {"none", "running"}
      <4>1. Parts = {0, 1, 2}
        BY DEF Parts
      <4> QED BY <3>4, <4>1
    <3>5. JobsInv(t)'
      BY <1>1, <1>3, <3>1, <3>4 DEF JobsInv, Loops
    <3>6. TokenInv(t)'
      BY <1>1, <3>2, <3>3 DEF TokenInv
    <3>7. ResultInv(t)'
      BY <1>1, <1>3, <3>1 DEF ResultInv, Early
    <3>8. Busy(t)'
      BY <3>4 DEF Busy, Parts
    <3>9. AccountInv(t)'
      BY <1>1, <1>3, <3>8 DEF AccountInv
    <3> QED BY <3>5, <3>6, <3>7, <3>9 DEF LoopInv
  <2> QED BY <2>1, <2>5, <2>6, <2>7, <2>8 DEF LifeInv
<1> QED BY <1>2, <1>3, SpawnFacts
-----------------------------------------------------------------------------
(* The jobs.                                                               *)
LEMMA VisitFacts ==
  ASSUME LifeInv, NEW t \in Tables, NEW p \in Parts, NEW k \in Rows, Visit(t, p, k)
  PROVE  /\ UNCHANGED <<conf, now, src, db, runs, phase, mode, run, mem, pending, token,
                        anyOk, anyErr, collected, cancel, outcome>>
         /\ jobs[t][p].state = "running" /\ k \in jobs[t][p].left
         /\ \/ /\ tgt' = [tgt EXCEPT ![t][k] = src[t][k]] /\ src[t][k] # 0
            \/ /\ tgt' = tgt
               /\ ~(src[t][k] # 0 /\ (jobs[t][p].since = None \/ src[t][k] > jobs[t][p].since))
         /\ \E j \in JobRow : /\ SetJob(t, p, j)
                              /\ j.state = jobs[t][p].state /\ j.since = jobs[t][p].since
                              /\ j.left = jobs[t][p].left \ {k}
<1> DEFINE hit == src[t][k] # 0 /\ (jobs[t][p].since = None \/ src[t][k] > jobs[t][p].since)
<1>1. /\ jobs[t][p].state = "running" /\ k \in jobs[t][p].left
      /\ tgt' = IF hit THEN [tgt EXCEPT ![t][k] = src[t][k]] ELSE tgt
      /\ SetJob(t, p, [jobs[t][p] EXCEPT !.left = @ \ {k},
                                         !.moved = IF hit THEN @ \cup {k} ELSE @])
      /\ UNCHANGED <<src, token, jobFrame>>
  BY Zenon DEF Visit
<1>2. /\ \/ /\ tgt' = [tgt EXCEPT ![t][k] = src[t][k]] /\ src[t][k] # 0
         \/ tgt' = tgt /\ ~hit
  BY <1>1
<1>3. PICK h \in BOOLEAN : h = hit
  OBVIOUS
<1>7. SetJob(t, p, [jobs[t][p] EXCEPT !.left = @ \ {k}, !.moved = IF h THEN @ \cup {k} ELSE @])
  BY <1>1, <1>3, Zenon
<1> HIDE DEF hit
<1>4. PICK old \in JobRow : old = jobs[t][p]
  BY DEF LifeInv, TypeOK, JobRow
<1>5. PICK new : new = [old EXCEPT !.left = @ \ {k}, !.moved = IF h THEN @ \cup {k} ELSE @]
  OBVIOUS
<1>6. /\ new \in JobRow /\ new.state = old.state /\ new.since = old.since
      /\ new.left = old.left \ {k}
  BY <1>5 DEF JobRow
<1>8. SetJob(t, p, new)
  BY <1>4, <1>5, <1>7
<1>9. UNCHANGED <<conf, now, src, db, runs, phase, mode, run, mem, pending, token,
                  anyOk, anyErr, collected, cancel, outcome>>
  BY <1>1 DEF jobFrame, results
<1>10. \E j \in JobRow : /\ SetJob(t, p, j)
                         /\ j.state = jobs[t][p].state /\ j.since = jobs[t][p].since
                         /\ j.left = jobs[t][p].left \ {k}
  BY <1>4, <1>6, <1>8
<1> QED BY <1>1, <1>2, <1>9, <1>10 DEF hit

(* A job goes on, or ends.                                                 *)
LEMMA JobLife ==
  ASSUME LifeInv, NEW t \in Tables, NEW p \in Parts, NEW j \in JobRow, SetJob(t, p, j),
         UNCHANGED <<conf, now, src, db, runs, phase, mode, run, mem, pending,
                     anyOk, anyErr, collected, cancel, outcome>>,
         tgt' \in [Tables -> [Rows -> 0..conf.until]],
         jobs[t][p].state = "running", j.state \in {"running", "ok", "err"},
         token' \in [Tables -> BOOLEAN], \A u \in Tables \ {t} : token'[u] = token[u],
         token[t] => token'[t],
         token'[t] => token[t] \/ j.state = "err",
         j.state = "ok" => j.left = {} \/ token[t]
  PROVE  LifeInv'
<1>1. Tables' = Tables /\ RunIds' = RunIds /\ TableRow' = TableRow /\ JobRow' = JobRow
  BY ConfStays
<1>2. /\ jobs' \in [Tables -> [Parts -> JobRow]]
      /\ jobs'[t][p] = j /\ \A q \in Parts \ {p} : jobs'[t][q] = jobs[t][q]
      /\ \A u \in Tables \ {t} : jobs'[u] = jobs[u]
  BY OneJob DEF LifeInv, TypeOK, JobRow
<1>3. TypeOK'
  BY <1>1, <1>2 DEF LifeInv, TypeOK, JobRow
<1>4. RunInv'
  <2>1. phase # "idle"
    BY DEF LifeInv, LoopInv, JobsInv, Busy, Loops
  <2> QED BY <2>1, RunKept, NothingStored DEF LifeInv
<1>5. ASSUME NEW u \in Tables \ {t}
      PROVE  LoopInv(u)'
  BY <1>2, OtherTable DEF LifeInv
<1>6. LoopInv(t)'
  <2>1. LoopInv(t) /\ Busy(t) /\ Busy(t)'
    BY <1>2 DEF LifeInv, Busy
  <2>2. \A q \in Parts : jobs'[t][q].state # "none" <=> jobs[t][q].state # "none"
    BY <1>2
  <2>3. 0 \in Parts /\ 1 \in Parts /\ 2 \in Parts
    BY DEF Parts
  <2>4. JobsInv(t)'
    BY <2>1, <2>2, <2>3 DEF LoopInv, JobsInv
  <2>5. TokenInv(t)'
    <3>1. \A q \in Parts : jobs'[t][q].state = "ok" => jobs'[t][q].left = {} \/ token'[t]
      BY <1>2, <2>1 DEF LoopInv, TokenInv
    <3>2. token'[t] => t \in anyErr \/ \E q \in Parts : jobs'[t][q].state = "err"
      <4> SUFFICES ASSUME token'[t], t \notin anyErr
                   PROVE  \E q \in Parts : jobs'[t][q].state = "err"
        OBVIOUS
      <4>1. CASE j.state = "err"
        BY <1>2, <4>1
      <4>2. CASE j.state # "err"
        <5>1. phase \in Loops /\ token[t]
          BY <2>1, <4>2 DEF LoopInv, JobsInv
        <5>2. PICK q \in Parts : jobs[t][q].state = "err"
          BY <2>1, <5>1 DEF LoopInv, TokenInv
        <5>3. q # p
          BY <5>2
        <5> QED BY <1>2, <5>2, <5>3
      <4> QED BY <4>1, <4>2
    <3> QED BY <3>1, <3>2 DEF TokenInv
  <2>6. ResultInv(t)' /\ AccountInv(t)'
    BY <2>1 DEF LoopInv, ResultInv, AccountInv, Early
  <2> QED BY <2>4, <2>5, <2>6 DEF LoopInv
<1> QED BY <1>1, <1>3, <1>4, <1>5, <1>6 DEF LifeInv

LEMMA VisitLife ==
  ASSUME LifeInv, NEW t \in Tables, NEW p \in Parts, NEW k \in Rows, Visit(t, p, k)
  PROVE  LifeInv'
<1>1. PICK j \in JobRow : /\ SetJob(t, p, j)
                          /\ j.state = jobs[t][p].state /\ j.since = jobs[t][p].since
                          /\ j.left = jobs[t][p].left \ {k}
  BY VisitFacts
<1>2. /\ UNCHANGED <<conf, now, src, db, runs, phase, mode, run, mem, pending, token,
                     anyOk, anyErr, collected, cancel, outcome>>
      /\ jobs[t][p].state = "running"
      /\ tgt' = tgt \/ tgt' = [tgt EXCEPT ![t][k] = src[t][k]]
  BY VisitFacts
<1>3. tgt' \in [Tables -> [Rows -> 0..conf.until]]
  <2>1. PICK T : T = 0..conf.until
    OBVIOUS
  <2>2. tgt \in [Tables -> [Rows -> T]] /\ src[t][k] \in T
    BY <2>1 DEF LifeInv, TypeOK
  <2>3. tgt' \in [Tables -> [Rows -> T]]
    BY <1>2, <2>2
  <2> QED BY <2>1, <2>3
<1>4. token' \in [Tables -> BOOLEAN] /\ token' = token
  BY <1>2 DEF LifeInv, TypeOK
<1> QED BY <1>1, <1>2, <1>3, <1>4, JobLife

LEMMA JobEnds ==
  ASSUME LifeInv, NEW t \in Tables, NEW p \in Parts, NEW s \in {"ok", "err"},
         SetJob(t, p, [jobs[t][p] EXCEPT !.state = s])
  PROVE  \E j \in JobRow : /\ SetJob(t, p, j) /\ j.state = s
                           /\ j.left = jobs[t][p].left /\ j.since = jobs[t][p].since
<1>1. PICK old \in JobRow : old = jobs[t][p]
  BY DEF LifeInv, TypeOK, JobRow
<1>2. PICK new : new = [old EXCEPT !.state = s]
  OBVIOUS
<1>3. new \in JobRow /\ new.state = s /\ new.left = old.left /\ new.since = old.since
  BY <1>2 DEF JobRow
<1> QED BY <1>1, <1>2, <1>3

LEMMA JobOkLife ==
  ASSUME LifeInv, NEW t \in Tables, NEW p \in Parts, JobOk(t, p)
  PROVE  LifeInv'
<1>1. /\ jobs[t][p].state = "running" /\ (jobs[t][p].left = {} \/ token[t])
      /\ SetJob(t, p, [jobs[t][p] EXCEPT !.state = "ok"])
      /\ UNCHANGED <<conf, now, src, tgt, db, runs, phase, mode, run, mem, pending, token,
                     anyOk, anyErr, collected, cancel, outcome>>
  BY DEF JobOk, jobFrame, results
<1>2. PICK j \in JobRow : /\ SetJob(t, p, j) /\ j.state = "ok"
                          /\ j.left = jobs[t][p].left /\ j.since = jobs[t][p].since
  BY <1>1, JobEnds
<1>3. token' \in [Tables -> BOOLEAN] /\ tgt' \in [Tables -> [Rows -> 0..conf.until]]
  BY <1>1 DEF LifeInv, TypeOK
<1> QED BY <1>1, <1>2, <1>3, JobLife

LEMMA JobErrLife ==
  ASSUME LifeInv, NEW t \in Tables, NEW p \in Parts, JobErr(t, p)
  PROVE  LifeInv'
<1>1. /\ jobs[t][p].state = "running"
      /\ SetJob(t, p, [jobs[t][p] EXCEPT !.state = "err"])
      /\ UNCHANGED <<conf, now, src, tgt, db, runs, phase, mode, run, mem, pending,
                     anyOk, anyErr, collected, cancel, outcome>>
      /\ \E byWriter \in BOOLEAN : token' = [token EXCEPT ![t] = @ \/ byWriter]
  BY DEF JobErr, jobFrame, results
<1>2. PICK j \in JobRow : /\ SetJob(t, p, j) /\ j.state = "err"
                          /\ j.left = jobs[t][p].left /\ j.since = jobs[t][p].since
  BY <1>1, JobEnds
<1>3. tgt' \in [Tables -> [Rows -> 0..conf.until]]
  BY <1>1 DEF LifeInv, TypeOK
<1>4. PICK b \in BOOLEAN : token' = [token EXCEPT ![t] = token[t] \/ b]
  BY <1>1
<1>5. token \in [Tables -> BOOLEAN]
  BY DEF LifeInv, TypeOK
<1>6. PICK c \in BOOLEAN : c = (token[t] \/ b)
  OBVIOUS
<1>7. token' = [token EXCEPT ![t] = c]
  BY <1>4, <1>6, Zenon
<1>8. /\ token' \in [Tables -> BOOLEAN] /\ token'[t] = c
      /\ \A u \in Tables \ {t} : token'[u] = token[u]
  BY <1>5, <1>7
<1>9. token[t] => token'[t]
  BY <1>6, <1>8
<1> QED BY <1>1, <1>2, <1>3, <1>8, <1>9, JobLife
-----------------------------------------------------------------------------
(* The result loop.                                                        *)
LEMMA CollectFacts ==
  ASSUME LifeInv, NEW t \in Tables, NEW p \in Parts, Collect(t, p),
         NEW ok, ok = (jobs[t][p].state = "ok")
  PROVE  /\ phase = "collect" /\ ~cancel /\ jobs[t][p].state \in {"ok", "err"}
         /\ UNCHANGED <<conf, now, src, tgt, runs, mode, run, cancel, outcome>>
         /\ anyOk' = (IF ok THEN anyOk \cup {t} ELSE anyOk)
         /\ anyErr' = (IF ok THEN anyErr ELSE anyErr \cup {t})
         /\ token' \in [Tables -> BOOLEAN] /\ (\A u \in Tables \ {t} : token'[u] = token[u])
         /\ token'[t] <=> token[t] \/ ~ok
         /\ \/ /\ p # 0 /\ collected[t] = 0 /\ collected' = [collected EXCEPT ![t] = 1]
               /\ SetJob(t, p, NoJob)
               /\ UNCHANGED <<mem, db, phase, pending>>
            \/ /\ p = 0 \/ collected[t] = 1
               /\ collected' = [collected EXCEPT ![t] = 0]
               /\ mem' \in [Tables -> TableRow] /\ (\A u \in Tables \ {t} : mem'[u] = mem[u])
               /\ mem'[t].began = mem[t].began
               /\ ok /\ t \notin anyErr =>
                    mem'[t].status = "completed" /\ mem'[t].last_sync = mem[t].began
               /\ ~(ok /\ t \notin anyErr) =>
                    mem'[t].status = "failed" /\ mem'[t].last_sync = mem[t].last_sync
               /\ p = 0 /\ ok => mem'[t].last_pk \in ReportedPk(t, jobs[t][p])
               /\ ~(p = 0 /\ ok) => mem'[t].last_pk = mem[t].last_pk
               /\ \/ Save(mem') /\ SetJob(t, p, NoJob) /\ UNCHANGED <<phase, pending>>
                  \/ SaveFails(mem') /\ GiveUp
<1>1. PICK n : n = collected[t]
  OBVIOUS
<1>2. n \in 0..1 /\ (p # 0 /\ n + 1 < 2 <=> p # 0 /\ n = 0)
  BY <1>1 DEF LifeInv, TypeOK
<1>3. /\ phase = "collect" /\ ~cancel /\ jobs[t][p].state \in {"ok", "err"}
      /\ UNCHANGED <<conf, now, src, tgt, runs, mode, run, cancel, outcome>>
      /\ anyOk' = (IF ok THEN anyOk \cup {t} ELSE anyOk)
      /\ anyErr' = (IF ok THEN anyErr ELSE anyErr \cup {t})
      /\ token' = [token EXCEPT ![t] = @ \/ ~ok]
  BY Zenon DEF Collect
<1>4. IF p # 0 /\ n + 1 < 2
      THEN /\ collected' = [collected EXCEPT ![t] = n + 1]
           /\ SetJob(t, p, NoJob)
           /\ UNCHANGED <<mem, db, phase, pending>>
      ELSE /\ collected' = [collected EXCEPT ![t] = 0]
           /\ \E pk \in ReportedPk(t, jobs[t][p]) :
                mem' = [mem EXCEPT ![t] =
                  [Settle(mem[t], JobsSucceeded(t, ok)) EXCEPT !.last_pk =
                     IF p = 0 /\ ok THEN pk ELSE @]]
           /\ \/ /\ Save(mem')
                 /\ SetJob(t, p, NoJob)
                 /\ UNCHANGED <<phase, pending>>
              \/ SaveFails(mem') /\ GiveUp
  BY <1>1, Zenon DEF Collect
<1>5. PICK c \in BOOLEAN : c = (token[t] \/ ~ok)
  OBVIOUS
<1>6. /\ token' \in [Tables -> BOOLEAN] /\ token'[t] = c
      /\ \A u \in Tables \ {t} : token'[u] = token[u]
  <2>1. token' = [token EXCEPT ![t] = c]
    BY <1>3, <1>5, Zenon
  <2>2. token \in [Tables -> BOOLEAN]
    BY DEF LifeInv, TypeOK
  <2> QED BY <2>1, <2>2
<1>7. CASE p # 0 /\ n = 0
  <2>1. n + 1 = 1
    BY <1>7
  <2>2. collected' = [collected EXCEPT ![t] = 1] /\ SetJob(t, p, NoJob)
        /\ UNCHANGED <<mem, db, phase, pending>>
    BY <1>2, <1>4, <1>7, <2>1
  <2> QED BY <1>1, <1>3, <1>5, <1>6, <1>7, <2>2
<1>8. CASE ~(p # 0 /\ n = 0)
  <2>1. PICK pk \in ReportedPk(t, jobs[t][p]) :
           mem' = [mem EXCEPT ![t] =
             [Settle(mem[t], JobsSucceeded(t, ok)) EXCEPT !.last_pk =
                IF p = 0 /\ ok THEN pk ELSE @]]
    BY <1>2, <1>4, <1>8, Zenon
  <2>2. /\ collected' = [collected EXCEPT ![t] = 0]
        /\ \/ Save(mem') /\ SetJob(t, p, NoJob) /\ UNCHANGED <<phase, pending>>
           \/ SaveFails(mem') /\ GiveUp
    BY <1>2, <1>4, <1>8
  <2>3. PICK row \in TableRow : row = mem[t]
    BY DEF LifeInv, TypeOK
  <2>4. PICK done \in BOOLEAN : done = JobsSucceeded(t, ok)
    BY <1>3 DEF JobsSucceeded
  <2>5. PICK mid : mid = Settle(row, done)
    OBVIOUS
  <2>6. row.began \in 1..conf.until
    <3>1. Busy(t)
      BY <1>3 DEF Busy
    <3> QED BY <2>3, <3>1, RowFields, ConfFacts DEF LifeInv, LoopInv, JobsInv, TypeOK
  <2>7. /\ mid \in TableRow /\ mid.began = row.began /\ mid.last_pk = row.last_pk
        /\ done => mid.status = "completed" /\ mid.last_sync = row.began
        /\ ~done => mid.status = "failed" /\ mid.last_sync = row.last_sync
    <3>1. CASE done
      <4>1. mid = [row EXCEPT !.status = "completed", !.last_sync = row.began]
        BY <2>5, <3>1 DEF Settle
      <4> QED BY <2>6, <3>1, <4>1 DEF TableRow, StateRow, Status
    <3>2. CASE ~done
      <4>1. mid = [row EXCEPT !.status = "failed"]
        BY <2>5, <3>2 DEF Settle
      <4> QED BY <3>2, <4>1 DEF TableRow, StateRow, Status
    <3> QED BY <3>1, <3>2
  <2>8. PICK x : x = IF p = 0 /\ ok THEN pk ELSE mid.last_pk
    OBVIOUS
  <2>9. x \in Rows \cup {None}
    <3>1. jobs[t][p].moved \subseteq Rows
      BY DEF LifeInv, TypeOK
    <3>2. pk \in Rows \cup {None}
      BY <3>1, ReportedFacts
    <3> QED BY <2>7, <2>8, <3>2, RowFields
  <2>10. PICK new : new = [mid EXCEPT !.last_pk = x]
    OBVIOUS
  <2>11. /\ new \in TableRow /\ new.began = mid.began /\ new.last_pk = x
         /\ new.status = mid.status /\ new.last_sync = mid.last_sync
    BY <2>7, <2>9, <2>10 DEF TableRow, StateRow
  <2>12. mem' = [mem EXCEPT ![t] = new]
    <3> DEFINE old == Settle(mem[t], JobsSucceeded(t, ok))
    <3>3. mem' = [mem EXCEPT ![t] = [old EXCEPT !.last_pk = IF p = 0 /\ ok THEN pk ELSE @]]
      BY <2>1
    <3>4. old = mid
      BY <2>3, <2>4, <2>5, Zenon
    <3> HIDE DEF old
    <3>1. mem' = [mem EXCEPT ![t] = [mid EXCEPT !.last_pk = IF p = 0 /\ ok THEN pk ELSE @]]
      BY <3>3, <3>4
    <3>2. mem' = [mem EXCEPT ![t] = [mid EXCEPT !.last_pk =
                                       IF p = 0 /\ ok THEN pk ELSE mid.last_pk]]
      BY <3>1
    <3> QED BY <2>8, <2>10, <3>2, Zenon
  <2>13. /\ mem' \in [Tables -> TableRow] /\ mem'[t] = new
         /\ \A u \in Tables \ {t} : mem'[u] = mem[u]
    BY <2>11, <2>12 DEF LifeInv, TypeOK
  <2>14. done <=> ok /\ t \notin anyErr
    BY <2>4 DEF JobsSucceeded
  <2>15. p = 0 \/ collected[t] = 1
    BY <1>1, <1>2, <1>8
  <2>16. /\ p = 0 /\ ok => mem'[t].last_pk \in ReportedPk(t, jobs[t][p])
         /\ ~(p = 0 /\ ok) => mem'[t].last_pk = mem[t].last_pk
    BY <2>3, <2>7, <2>8, <2>11, <2>13
  <2>17. /\ mem'[t].began = mem[t].began
         /\ ok /\ t \notin anyErr =>
              mem'[t].status = "completed" /\ mem'[t].last_sync = mem[t].began
         /\ ~(ok /\ t \notin anyErr) =>
              mem'[t].status = "failed" /\ mem'[t].last_sync = mem[t].last_sync
    BY <2>3, <2>7, <2>11, <2>13, <2>14
  <2> QED BY <1>3, <1>5, <1>6, <2>2, <2>13, <2>15, <2>16, <2>17
<1> QED BY <1>7, <1>8

(* A job whose result settles its table is the only one of the table left. *)
LEMMA LastJob ==
  ASSUME LifeInv, phase = "collect", NEW t \in Tables, NEW p \in Parts,
         jobs[t][p].state # "none", p = 0 \/ collected[t] = 1
  PROVE  \A q \in Parts \ {p} : jobs[t][q].state = "none"
<1>1. LoopInv(t) /\ Parts = {0, 1, 2}
  BY DEF LifeInv, Parts
<1>2. CASE p = 0
  BY <1>1, <1>2 DEF LoopInv, JobsInv
<1>3. CASE p # 0
  <2>1. collected[t] = 1
    BY <1>3
  <2>2. jobs[t][0].state = "none"
    BY <1>1, <2>1 DEF LoopInv, JobsInv
  <2>3. jobs[t][1].state # "none" <=> jobs[t][2].state = "none"
    BY <1>1, <2>1 DEF LoopInv, JobsInv, Loops
  <2> QED BY <1>1, <2>2, <2>3
<1> QED BY <1>2, <1>3

LEMMA CollectLife ==
  ASSUME LifeInv, NEW t \in Tables, NEW p \in Parts, Collect(t, p)
  PROVE  LifeInv'
<1>1. PICK ok \in BOOLEAN : ok = (jobs[t][p].state = "ok")
  OBVIOUS
<1>2. /\ phase = "collect" /\ ~cancel /\ jobs[t][p].state \in {"ok", "err"}
      /\ UNCHANGED <<conf, now, src, tgt, runs, mode, run, cancel, outcome>>
      /\ anyOk' = (IF ok THEN anyOk \cup {t} ELSE anyOk)
      /\ anyErr' = (IF ok THEN anyErr ELSE anyErr \cup {t})
      /\ token' \in [Tables -> BOOLEAN] /\ (\A u \in Tables \ {t} : token'[u] = token[u])
      /\ token'[t] <=> token[t] \/ ~ok
  BY <1>1, CollectFacts
<1>3. Tables' = Tables /\ RunIds' = RunIds /\ TableRow' = TableRow /\ JobRow' = JobRow
  BY <1>2, ConfStays
<1>4. anyOk' \subseteq Tables /\ anyErr' \subseteq Tables
  BY <1>2 DEF LifeInv, TypeOK
<1>5. /\ t \in anyOk' \cup anyErr' /\ (ok \/ t \in anyErr')
      /\ \A u \in Tables \ {t} : (u \in anyOk' <=> u \in anyOk) /\ (u \in anyErr' <=> u \in anyErr)
  BY <1>2
<1>6. LoopInv(t) /\ Busy(t) /\ Parts = {0, 1, 2} /\ collected[t] \in {0, 1}
  BY <1>2 DEF LifeInv, Busy, Parts, TypeOK
<1>7. ASSUME SetJob(t, p, NoJob)
      PROVE  /\ jobs' \in [Tables -> [Parts -> JobRow]]
             /\ jobs'[t][p].state = "none" /\ \A q \in Parts \ {p} : jobs'[t][q] = jobs[t][q]
             /\ \A u \in Tables \ {t} : jobs'[u] = jobs[u]
  <2>1. jobs \in [Tables -> [Parts -> JobRow]]
    BY DEF LifeInv, TypeOK, JobRow
  <2> QED BY <1>7, <2>1, JobGone
(* The token says that a job failed.                                       *)
<1>8. token'[t] => t \in anyErr' \/ \E q \in Parts \ {p} : jobs[t][q].state = "err"
  <2>1. token[t] => t \in anyErr \/ \E q \in Parts : jobs[t][q].state = "err"
    BY <1>2, <1>6 DEF LoopInv, TokenInv, Loops
  <2>2. jobs[t][p].state = "err" => t \in anyErr'
    BY <1>1, <1>2
  <2> QED BY <1>2, <2>1, <2>2
<1>9. CASE p # 0 /\ collected[t] = 0 /\ collected' = [collected EXCEPT ![t] = 1]
           /\ SetJob(t, p, NoJob) /\ UNCHANGED <<mem, db, phase, pending>>
  <2>1. /\ collected' \in [Tables -> 0..1] /\ collected'[t] = 1
        /\ \A u \in Tables \ {t} : collected'[u] = collected[u]
    BY <1>9 DEF LifeInv, TypeOK
  <2>2. TypeOK'
    BY <1>2, <1>3, <1>4, <1>7, <1>9, <2>1 DEF LifeInv, TypeOK, JobRow
  <2>3. RunInv'
    BY <1>2, <1>9, RunKept, NothingStored DEF LifeInv
  <2>4. ASSUME NEW u \in Tables \ {t}
        PROVE  LoopInv(u)'
    BY <1>2, <1>5, <1>7, <1>9, <2>1, OtherTable DEF LifeInv
  <2>5. LoopInv(t)'
    <3>1. /\ jobs[t][0].state = "none"
          /\ jobs[t][1].state # "none" /\ jobs[t][2].state # "none"
          /\ mem[t].status = "in_progress" /\ mem[t].began >= 1 /\ t \notin pending
          /\ conf.kind[t] = "large"
      BY <1>2, <1>6, <1>9 DEF LoopInv, JobsInv, Loops
    <3>2. /\ jobs'[t][0].state = "none"
          /\ jobs'[t][1].state # "none" <=> jobs'[t][2].state = "none"
      BY <1>6, <1>7, <1>9, <3>1
    <3>3. Busy(t)'
      BY <1>6, <3>2 DEF Busy
    <3>4. JobsInv(t)'
      BY <1>2, <1>5, <1>9, <2>1, <3>1, <3>2 DEF JobsInv, Loops
    <3>5. TokenInv(t)'
      <4>1. \A q \in Parts : jobs'[t][q].state = "ok" => jobs'[t][q].left = {} \/ token'[t]
        BY <1>2, <1>6, <1>7, <1>9 DEF LoopInv, TokenInv
      <4>2. token'[t] => t \in anyErr' \/ \E q \in Parts : jobs'[t][q].state = "err"
        BY <1>7, <1>8, <1>9
      <4> QED BY <4>1, <4>2 DEF TokenInv
    <3>6. ResultInv(t)'
      BY <1>2, <1>6, <1>9, <2>1, <3>1 DEF LoopInv, ResultInv, Early
    <3>7. AccountInv(t)'
      BY <1>2, <1>9, <3>3 DEF AccountInv
    <3> QED BY <3>4, <3>5, <3>6, <3>7 DEF LoopInv
  <2> QED BY <1>3, <2>2, <2>3, <2>4, <2>5 DEF LifeInv
<1>10. ASSUME p = 0 \/ collected[t] = 1,
              collected' = [collected EXCEPT ![t] = 0],
              mem' \in [Tables -> TableRow], \A u \in Tables \ {t} : mem'[u] = mem[u],
              ok /\ t \notin anyErr => mem'[t].status = "completed",
              ~(ok /\ t \notin anyErr) => mem'[t].status = "failed",
              \/ Save(mem') /\ SetJob(t, p, NoJob) /\ UNCHANGED <<phase, pending>>
              \/ SaveFails(mem') /\ GiveUp
       PROVE  LifeInv'
  <2>1. /\ collected' \in [Tables -> 0..1] /\ collected'[t] = 0
        /\ \A u \in Tables \ {t} : collected'[u] = collected[u]
    BY <1>10 DEF LifeInv, TypeOK
  <2>2. PICK m : m = mem'
    OBVIOUS
  <2>3. Stores(m)
    BY <1>10, <2>2, SaveStores, SaveFailsStores DEF LifeInv
  <2>4. CASE SaveFails(mem') /\ GiveUp
    <3>1. \A u \in Tables : collected'[u] = 1 => conf.kind[u] = "large"
      BY <2>1 DEF LifeInv, LoopInv, JobsInv
    <3> QED BY <1>2, <1>4, <1>10, <2>1, <2>3, <2>4, <3>1, GiveUpLife
  <2>5. CASE SetJob(t, p, NoJob) /\ UNCHANGED <<phase, pending>>
    <3>1. TypeOK'
      BY <1>2, <1>3, <1>4, <1>7, <1>10, <2>1, <2>3, <2>5 DEF LifeInv, TypeOK, JobRow, Stores
    <3>2. RunInv'
      BY <1>2, <2>3, <2>5, RunKept DEF LifeInv
    <3>3. ASSUME NEW u \in Tables \ {t}
          PROVE  LoopInv(u)'
      BY <1>2, <1>5, <1>7, <1>10, <2>1, <2>5, OtherTable DEF LifeInv
    <3>4. LoopInv(t)'
      <4>1. \A q \in Parts \ {p} : jobs[t][q].state = "none"
        BY <1>2, <1>10, LastJob
      <4>2. \A q \in Parts : jobs'[t][q].state = "none"
        BY <1>7, <2>5, <4>1
      <4>3. ~Busy(t)'
        BY <4>2 DEF Busy
      <4>4. JobsInv(t)'
        BY <1>2, <1>6, <2>1, <2>5, <4>2, <4>3 DEF JobsInv, Loops
      <4>5. TokenInv(t)'
        BY <1>8, <4>1, <4>2 DEF TokenInv
      <4>6. mem'[t].status \in {"completed", "failed"}
            /\ (mem'[t].status = "completed" <=> t \notin anyErr')
        BY <1>2, <1>10
      <4>7. ResultInv(t)'
        BY <1>2, <1>6, <2>5, <4>6 DEF LoopInv, ResultInv, Early
      <4>8. AccountInv(t)'
        BY <1>2, <2>5, <4>6 DEF AccountInv
      <4> QED BY <4>4, <4>5, <4>7, <4>8 DEF LoopInv
    <3> QED BY <1>3, <3>1, <3>2, <3>3, <3>4 DEF LifeInv
  <2> QED BY <1>10, <2>4, <2>5
<1> QED BY <1>1, <1>9, <1>10, CollectFacts
-----------------------------------------------------------------------------
LEMMA InitLife == Init => LifeInv
<1> SUFFICES ASSUME Init PROVE LifeInv
  OBVIOUS
<1>1. /\ conf \in Confs /\ now = 1
      /\ src = [t \in Tables |-> [k \in Rows |-> IF k \in conf.rows THEN 1 ELSE 0]]
      /\ tgt = [t \in Tables |-> [k \in Rows |-> 0]]
      /\ db = [r \in RunIds |-> [t \in Tables |-> None]]
      /\ runs = 0 /\ outcome = "none"
      /\ phase = "idle" /\ mode = "upsert" /\ run = 1
      /\ mem = [t \in Tables |-> NewTable]
      /\ pending = {} /\ jobs = [t \in Tables |-> [p \in Parts |-> NoJob]]
      /\ token = [t \in Tables |-> FALSE]
      /\ anyOk = {} /\ anyErr = {}
      /\ collected = [t \in Tables |-> 0]
      /\ cancel = FALSE
  BY DEF Init, Idle
<1>2. conf.runs \in Nat \ {0} /\ conf.until \in Nat \ {0} /\ 1 \in RunIds
  BY <1>1, ConfFacts
<1>3. \A t \in Tables, p \in Parts : jobs[t][p] = NoJob /\ jobs[t][p].state = "none"
  BY <1>1 DEF NoJob
<1>4. TypeOK
  <2>1. NewTable \in TableRow /\ NoJob \in JobRow
    BY <1>1, NewRow, NoJobRow
  <2>2. jobs \in [Tables -> [Parts -> JobRow]]
    BY <1>1, <2>1
  <2>3. src \in [Tables -> [Rows -> 0..conf.until]] /\ tgt \in [Tables -> [Rows -> 0..conf.until]]
    BY <1>1, <1>2
  <2>4. db \in [RunIds -> [Tables -> TableRow \cup {None}]] /\ mem \in [Tables -> TableRow]
    BY <1>1, <2>1
  <2>5. /\ now \in 1..conf.until /\ runs \in 0..conf.runs /\ run \in RunIds
        /\ token \in [Tables -> BOOLEAN] /\ collected \in [Tables -> 0..1]
    BY <1>1, <1>2
  <2> QED BY <1>1, <2>2, <2>3, <2>4, <2>5 DEF TypeOK, JobRow
<1>5. RunInv
  BY <1>1 DEF RunInv
<1>6. ASSUME NEW t \in Tables
      PROVE  LoopInv(t)
  <2>1. ~Busy(t) /\ ~token[t] /\ collected[t] = 0 /\ 0 \in Parts /\ 1 \in Parts /\ 2 \in Parts
    BY <1>1, <1>3 DEF Busy, Parts
  <2>2. JobsInv(t)
    BY <1>1, <1>3, <2>1 DEF JobsInv, Loops
  <2>3. TokenInv(t) /\ ResultInv(t) /\ AccountInv(t)
    BY <1>1, <1>3, <2>1 DEF TokenInv, ResultInv, AccountInv, Early, Loops
  <2> QED BY <2>2, <2>3 DEF LoopInv
<1> QED BY <1>4, <1>5, <1>6 DEF LifeInv

LEMMA NextLife == LifeInv /\ [Next]_vars => LifeInv'
<1> SUFFICES ASSUME LifeInv, [Next]_vars
             PROVE  LifeInv'
  OBVIOUS
<1>1. CASE \E t \in Tables, k \in Rows : Change(t, k)
  BY <1>1, ChangeLife
<1>2. CASE \E m \in conf.modes : Start(m, TRUE) \/ (conf.fresh /\ Start(m, FALSE))
  <2>1. PICK m \in conf.modes : Start(m, TRUE) \/ (conf.fresh /\ Start(m, FALSE))
    BY <1>2
  <2>2. CASE Start(m, TRUE)
    <3>1. TRUE \in BOOLEAN
      OBVIOUS
    <3> QED BY <2>2, <3>1, StartLife, Zenon
  <2>3. CASE conf.fresh /\ Start(m, FALSE)
    <3>1. FALSE \in BOOLEAN
      OBVIOUS
    <3> QED BY <2>3, <3>1, StartLife, Zenon
  <2> QED BY <2>1, <2>2, <2>3
<1>3. CASE Orchestrate
  <2>1. CASE \E t \in Tables : Spawn(t) \/ LastSyncFails(t)
    BY <2>1, SpawnLife, LastSyncFailsLife
  <2>2. CASE \E t \in Tables, p \in Parts : Collect(t, p)
    BY <2>2, CollectLife
  <2>3. CASE Prepare \/ PrepareFails \/ FinalizeFails \/ Close
    BY <2>3, PrepareLife, EndLife
  <2>4. CASE StopSpawning \/ CollectCancelled \/ AllCollected \/ SettleTables \/ Finalize
    BY <2>4, StopSpawningLife, CollectCancelledLife, AllCollectedLife, SettleTablesLife,
       FinalizeLife
  <2> QED BY <1>3, <2>1, <2>2, <2>3, <2>4 DEF Orchestrate
<1>4. CASE \E t \in Tables, p \in Parts : JobStep(t, p)
  <2>1. PICK t \in Tables, p \in Parts :
          (\E k \in Rows : Visit(t, p, k)) \/ JobOk(t, p) \/ JobErr(t, p)
    BY <1>4 DEF JobStep
  <2> QED BY <2>1, VisitLife, JobOkLife, JobErrLife
<1>5. CASE Cancel \/ Crash
  BY <1>5, CancelLife, EndLife
<1>6. CASE Done \/ UNCHANGED vars
  <2>1. UNCHANGED <<conf, now, src, tgt, db, runs, phase, mode, run, mem, pending, jobs, token,
                    anyOk, anyErr, collected, cancel, outcome>>
    BY <1>6 DEF Done, vars, durable, tasks, results
  <2>2. Tables' = Tables /\ RunIds' = RunIds /\ TableRow' = TableRow /\ JobRow' = JobRow
        /\ (Can("cancel")' <=> Can("cancel"))
    BY <2>1, ConfStays
  <2>3. TypeOK' /\ RunInv'
    BY <2>1, <2>2 DEF LifeInv, TypeOK, RunInv
  <2>4. \A t \in Tables : LoopInv(t)'
    BY <2>1, OtherTable DEF LifeInv
  <2> QED BY <2>2, <2>3, <2>4 DEF LifeInv
<1> QED BY <1>1, <1>2, <1>3, <1>4, <1>5, <1>6 DEF Next

(* What holds of a run at every step: the tables in progress are those     *)
(* with jobs, no more than one partition of two is counted, a cancelled    *)
(* token says that a job failed, and no table is forgotten.                *)
THEOREM LifeInvariant == Spec => []LifeInv
<1> QED BY InitLife, NextLife, PTL DEF Spec

(* Type correctness, of the stored rows too: whatever a run loads was      *)
(* written by a run.                                                       *)
THEOREM LifeTypes == Spec => []TypeOK
<1>1. LifeInv => TypeOK
  BY DEF LifeInv
<1> QED BY <1>1, LifeInvariant, PTL
-----------------------------------------------------------------------------
(* The steps of an invocation that is under way.  A row keeps its          *)
(* watermark, or takes the time its jobs began as the new one; it is       *)
(* stored as it is afterwards, if at all.                                  *)
RowWorks(t) ==
  /\ \/ mem'[t].last_sync = mem[t].last_sync
     \/ Busy(t) /\ mem'[t].last_sync = mem[t].began
  /\ mem'[t].began \in {mem[t].began, now}
  /\ Busy(t)' => \/ mem'[t].began = now /\ mem'[t].last_sync = mem[t].last_sync
                 \/ Busy(t) /\ mem'[t] = mem[t]
  /\ \A p \in Parts : jobs'[t][p].since \in {None, jobs[t][p].since, DateFilter(t)}

Works ==
  /\ phase # "idle" /\ phase' # "idle" /\ Stores(mem')
  /\ UNCHANGED <<conf, now, src, runs, mode, run, outcome>>
  /\ \A t \in Tables : RowWorks(t)

(* The steps that end it.  One that drops tables can fail, and one that    *)
(* reports success has stored the state of every table.                    *)
Leaves ==
  /\ phase # "idle" /\ Leave /\ Stores(mem)
  /\ UNCHANGED <<conf, now, src, runs>>
  /\ \/ tgt' = tgt
     \/ /\ phase = "prepare" /\ mode = "drop_recreate"
        /\ Can("prepare") \/ Can("crash") \/ Can("state")
  /\ outcome' = "completed" =>
       Save(mem) /\ tgt' = tgt /\ \A t \in Tables : mem[t].status = "completed"

LEMMA NoSince ==
  ASSUME NEW t \in Tables, jobs' = [u \in Tables |-> [p \in Parts |-> NoJob]]
  PROVE  \A p \in Parts : jobs'[t][p].since = None
BY DEF NoJob

LEMMA SameRowWorks ==
  ASSUME NEW t \in Tables, mem'[t] = mem[t],
         \/ jobs'[t] = jobs[t]
         \/ jobs' = [u \in Tables |-> [p \in Parts |-> NoJob]]
  PROVE  RowWorks(t)
<1>1. CASE jobs'[t] = jobs[t]
  BY <1>1 DEF RowWorks, Busy
<1>2. CASE jobs' = [u \in Tables |-> [p \in Parts |-> NoJob]]
  <2>1. \A p \in Parts : jobs'[t][p].since = None
    BY <1>2, NoSince
  <2>2. ~Busy(t)'
    BY <1>2, NoJobs DEF Busy
  <2> QED BY <2>1, <2>2 DEF RowWorks
<1> QED BY <1>1, <1>2

LEMMA SpawnWorks ==
  ASSUME LifeInv, NEW t \in Tables, Spawn(t)
  PROVE  Works
<1>1. /\ phase = "spawn" /\ mem' \in [Tables -> TableRow]
      /\ mem'[t].began = now /\ mem'[t].last_sync = mem[t].last_sync
      /\ \A u \in Tables \ {t} : mem'[u] = mem[u]
      /\ UNCHANGED <<conf, now, src, runs, mode, run, outcome>>
      /\ \/ /\ Save(mem') /\ phase' = phase
            /\ \E split \in BOOLEAN :
                 jobs' = [jobs EXCEPT ![t] =
                      Spawned(t, split, IF split THEN None ELSE mem'[t].last_pk)]
         \/ SaveFails(mem') /\ GiveUp
  BY SpawnFacts
<1>2. PICK m : m = mem'
  OBVIOUS
<1>3. Stores(m)
  BY <1>1, <1>2, SaveStores, SaveFailsStores DEF LifeInv
<1>4. phase' # "idle"
  BY <1>1 DEF GiveUp
<1>5. /\ \A u \in Tables \ {t} : \/ jobs'[u] = jobs[u]
                                 \/ jobs' = [v \in Tables |-> [p \in Parts |-> NoJob]]
      /\ \A p \in Parts : jobs'[t][p].since \in {None, DateFilter(t)}
  <2>1. CASE SaveFails(mem') /\ GiveUp
    BY <2>1, NoSince DEF GiveUp
  <2>2. CASE \E split \in BOOLEAN :
               jobs' = [jobs EXCEPT ![t] =
                    Spawned(t, split, IF split THEN None ELSE mem'[t].last_pk)]
    <3>0. PICK split \in BOOLEAN :
                 \E r : jobs' = [jobs EXCEPT ![t] = Spawned(t, split, r)]
      BY <2>2
    <3>1. PICK resume : jobs' = [jobs EXCEPT ![t] = Spawned(t, split, resume)]
      BY <3>0
    <3>2. PICK d : d = DateFilter(t)
      OBVIOUS
    <3>3. /\ \A u \in Tables \ {t} : jobs'[u] = jobs[u]
          /\ split => /\ jobs'[t][0] = NoJob /\ jobs'[t][1] = Job(1, d, resume)
                      /\ jobs'[t][2] = Job(2, d, resume)
          /\ ~split => /\ jobs'[t][0] = Job(0, d, resume)
                       /\ jobs'[t][1] = NoJob /\ jobs'[t][2] = NoJob
      BY <3>1, <3>2, SpawnedFacts
    <3>4. NoJob.since = None /\ \A p \in Parts : Job(p, d, resume).since = d
      BY DEF NoJob, Job
    <3>5. Parts = {0, 1, 2}
      BY DEF Parts
    <3>6. \A p \in Parts : jobs'[t][p].since \in {None, d}
      BY <3>3, <3>4, <3>5
    <3> QED BY <3>2, <3>3, <3>6
  <2> QED BY <1>1, <2>1, <2>2
<1>6. RowWorks(t)
  BY <1>1, <1>5 DEF RowWorks
<1>7. \A u \in Tables \ {t} : RowWorks(u)
  BY <1>1, <1>5, SameRowWorks
<1> QED BY <1>1, <1>2, <1>3, <1>4, <1>6, <1>7 DEF Works

LEMMA CollectWorks ==
  ASSUME LifeInv, NEW t \in Tables, NEW p \in Parts, Collect(t, p)
  PROVE  Works
<1>1. PICK ok \in BOOLEAN : ok = (jobs[t][p].state = "ok")
  OBVIOUS
<1>2. /\ phase = "collect" /\ jobs[t][p].state \in {"ok", "err"}
      /\ UNCHANGED <<conf, now, src, tgt, runs, mode, run, cancel, outcome>>
      /\ \/ SetJob(t, p, NoJob) /\ UNCHANGED <<mem, db, phase>>
         \/ /\ p = 0 \/ collected[t] = 1
            /\ mem' \in [Tables -> TableRow] /\ (\A u \in Tables \ {t} : mem'[u] = mem[u])
            /\ mem'[t].began = mem[t].began
            /\ mem'[t].last_sync \in {mem[t].began, mem[t].last_sync}
            /\ \/ Save(mem') /\ SetJob(t, p, NoJob) /\ UNCHANGED <<phase>>
               \/ SaveFails(mem') /\ GiveUp
  BY <1>1, CollectFacts
<1>3. Busy(t)
  BY <1>2 DEF Busy
<1>4. ASSUME SetJob(t, p, NoJob)
      PROVE  /\ jobs'[t][p] = NoJob /\ \A q \in Parts \ {p} : jobs'[t][q] = jobs[t][q]
             /\ \A u \in Tables \ {t} : jobs'[u] = jobs[u]
  <2>1. jobs \in [Tables -> [Parts -> JobRow]]
    BY DEF LifeInv, TypeOK, JobRow
  <2> QED BY <1>4, <2>1, JobGone
<1>5. NoJob.since = None /\ NoJob.state = "none"
  BY DEF NoJob
<1>6. CASE SetJob(t, p, NoJob) /\ UNCHANGED <<mem, db, phase>>
  <2>1. \A u \in Tables \ {t} : RowWorks(u)
    BY <1>4, <1>6, SameRowWorks
  <2>2. RowWorks(t)
    <3>1. \A q \in Parts : jobs'[t][q].since \in {None, jobs[t][q].since}
      BY <1>4, <1>5, <1>6
    <3> QED BY <1>3, <1>6, <3>1 DEF RowWorks
  <2>3. Stores(mem')
    <3>1. PICK m : m = mem'
      OBVIOUS
    <3> QED BY <1>2, <1>6, <3>1, NothingStored DEF LifeInv
  <2> QED BY <1>2, <1>6, <2>1, <2>2, <2>3 DEF Works
<1>7. ASSUME p = 0 \/ collected[t] = 1,
             mem' \in [Tables -> TableRow], \A u \in Tables \ {t} : mem'[u] = mem[u],
             mem'[t].began = mem[t].began,
             mem'[t].last_sync \in {mem[t].began, mem[t].last_sync},
             \/ Save(mem') /\ SetJob(t, p, NoJob) /\ UNCHANGED <<phase>>
             \/ SaveFails(mem') /\ GiveUp
      PROVE  Works
  <2>1. PICK m : m = mem'
    OBVIOUS
  <2>2. Stores(m) /\ phase' # "idle"
    BY <1>2, <1>7, <2>1, SaveStores, SaveFailsStores DEF LifeInv, GiveUp
  <2>3. \A u \in Tables \ {t} : RowWorks(u)
    BY <1>4, <1>7, SameRowWorks DEF GiveUp
  <2>4. \A q \in Parts : jobs'[t][q].since \in {None, jobs[t][q].since}
    BY <1>4, <1>5, <1>7, NoSince DEF GiveUp
  <2>5. ~Busy(t)'
    <3>1. CASE GiveUp
      BY <3>1, NoJobs DEF GiveUp, Busy
    <3>2. CASE SetJob(t, p, NoJob)
      <4>1. \A q \in Parts \ {p} : jobs[t][q].state = "none"
        BY <1>2, <1>7, LastJob
      <4> QED BY <1>4, <1>5, <3>2, <4>1 DEF Busy
    <3> QED BY <1>7, <3>1, <3>2
  <2>6. RowWorks(t)
    BY <1>3, <1>7, <2>4, <2>5 DEF RowWorks
  <2> QED BY <1>2, <2>1, <2>2, <2>3, <2>6 DEF Works
<1> QED BY <1>2, <1>6, <1>7

LEMMA StepKinds ==
  ASSUME LifeInv, [Next]_vars
  PROVE  \/ \E t \in Tables, k \in Rows : Change(t, k)
         \/ \E m \in conf.modes, resume \in BOOLEAN : Start(m, resume) /\ (conf.fresh \/ resume)
         \/ Works
         \/ Leaves
         \/ UNCHANGED vars
<1>0. mem \in [Tables -> TableRow] /\ jobs \in [Tables -> [Parts -> JobRow]]
  BY DEF LifeInv, TypeOK, JobRow
<1>1. CASE \E m \in conf.modes : Start(m, TRUE) \/ (conf.fresh /\ Start(m, FALSE))
  <2>1. TRUE \in BOOLEAN /\ FALSE \in BOOLEAN
    OBVIOUS
  <2> QED BY <1>1, <2>1, Zenon
<1>2. CASE \E t \in Tables : Spawn(t) \/ LastSyncFails(t)
  <2>1. PICK t \in Tables : Spawn(t) \/ LastSyncFails(t)
    BY <1>2
  <2>2. CASE LastSyncFails(t)
    <3>1. /\ phase # "idle" /\ GiveUp
          /\ UNCHANGED <<conf, now, src, db, runs, mode, run, mem, outcome>>
      BY <2>2 DEF LastSyncFails, durable
    <3>2. phase' # "idle" /\ Stores(mem')
      BY <3>1, NothingStored DEF GiveUp, LifeInv
    <3>3. \A u \in Tables : RowWorks(u)
      BY <3>1, SameRowWorks DEF GiveUp
    <3> QED BY <3>1, <3>2, <3>3 DEF Works
  <2> QED BY <2>1, <2>2, SpawnWorks
<1>3. CASE \E t \in Tables, p \in Parts : Collect(t, p)
  BY <1>3, CollectWorks
<1>4. CASE Prepare
  <2>1. CASE SaveFails(mem) /\ Leave /\ outcome' = "error"
    <3>1. /\ phase = "prepare" /\ UNCHANGED <<conf, now, src, runs>>
          /\ tgt' = IF mode = "drop_recreate" THEN Emptied(Tables) ELSE tgt
      BY <1>4 DEF Prepare
    <3>2. Stores(mem) /\ Can("state")
      BY <1>0, <2>1, SaveFailsStores DEF LifeInv
    <3> QED BY <2>1, <3>1, <3>2 DEF Leaves
  <2>2. CASE /\ Save(mem) /\ phase' = "spawn" /\ pending' = ToTransfer
             /\ UNCHANGED <<mode, run, mem, tasks, results, cancel, outcome>>
    <3>1. /\ phase # "idle" /\ phase' # "idle"
          /\ UNCHANGED <<conf, now, src, runs, mode, run, mem, jobs, outcome>>
      BY <1>4, <2>2 DEF Prepare, tasks
    <3>2. Stores(mem)
      BY <1>0, <2>2, SaveStores DEF LifeInv
    <3>3. Stores(mem')
      BY <3>1, <3>2
    <3>4. \A u \in Tables : RowWorks(u)
      BY <3>1, SameRowWorks
    <3> QED BY <3>1, <3>3, <3>4 DEF Works
  <2> QED BY <1>4, <2>1, <2>2 DEF Prepare
<1>5. CASE PrepareFails \/ FinalizeFails \/ Close \/ Crash
  <2>1. /\ phase # "idle" /\ Leave /\ UNCHANGED <<conf, now, src, runs>>
        /\ db' = db \/ Save(mem) \/ SaveFails(mem)
    BY <1>5 DEF PrepareFails, FinalizeFails, Close, Crash, durable
  <2>2. Stores(mem)
    BY <1>0, <2>1, SaveStores, SaveFailsStores, NothingStored DEF LifeInv
  <2>3. \/ tgt' = tgt
        \/ phase = "prepare" /\ mode = "drop_recreate" /\ (Can("prepare") \/ Can("crash"))
    BY <1>5 DEF PrepareFails, FinalizeFails, Close, Crash, durable
  <2>4. ASSUME outcome' = "completed"
        PROVE  Save(mem) /\ tgt' = tgt /\ \A t \in Tables : mem[t].status = "completed"
    <3>1. Close
      BY <1>5, <2>4 DEF PrepareFails, FinalizeFails, Crash
    <3>2. phase = "closing" /\ ~cancel /\ Save(mem) /\ tgt' = tgt
      BY <2>4, <3>1 DEF Close
    <3> QED BY <3>2 DEF LifeInv, LoopInv, AccountInv
  <2> QED BY <2>1, <2>2, <2>3, <2>4 DEF Leaves
<1>6. CASE StopSpawning \/ AllCollected \/ Finalize \/ Cancel
  <2>1. /\ phase # "idle" /\ phase' # "idle"
        /\ UNCHANGED <<conf, now, src, db, runs, mode, run, mem, jobs, outcome>>
    BY <1>6 DEF StopSpawning, AllCollected, Finalize, Cancel, durable, tasks
  <2>2. Stores(mem')
    BY <2>1, NothingStored DEF LifeInv
  <2>3. \A u \in Tables : RowWorks(u)
    BY <2>1, SameRowWorks
  <2> QED BY <2>1, <2>2, <2>3 DEF Works
<1>7. CASE CollectCancelled
  <2>1. /\ phase # "idle" /\ phase' # "idle"
        /\ jobs' = [t \in Tables |-> [p \in Parts |-> NoJob]]
        /\ Save(mem) \/ SaveFails(mem)
        /\ UNCHANGED <<conf, now, src, runs, mode, run, mem, outcome>>
    BY <1>7 DEF CollectCancelled
  <2>2. Stores(mem)
    BY <1>0, <2>1, SaveStores, SaveFailsStores DEF LifeInv
  <2>3. Stores(mem')
    BY <2>1, <2>2
  <2>4. \A u \in Tables : RowWorks(u)
    BY <2>1, SameRowWorks
  <2> QED BY <2>1, <2>3, <2>4 DEF Works
<1>8. CASE SettleTables
  <2>1. PICK m : m = [t \in Tables |-> Final(t)]
    OBVIOUS
  <2>2. /\ phase = "settle" /\ phase' # "idle" /\ mem' = m
        /\ Save(m) \/ SaveFails(m)
        /\ UNCHANGED <<conf, now, src, runs, mode, run, jobs, outcome>>
    BY <1>8, <2>1 DEF SettleTables, tasks
  <2>3. m \in [Tables -> TableRow] /\ \A t \in Tables : m[t] = Final(t)
    BY <2>1, FinalRow
  <2>4. Stores(m)
    BY <2>2, <2>3, SaveStores, SaveFailsStores DEF LifeInv
  <2>5. ASSUME NEW t \in Tables
        PROVE  RowWorks(t)
    <3>1. mem'[t].last_sync = mem[t].last_sync /\ mem'[t].began = mem[t].began
      BY <2>2, <2>3, FinalRow
    <3>2. ~Busy(t)'
      <4>1. ~Busy(t)
        BY <2>2 DEF LifeInv, LoopInv, JobsInv, Loops
      <4> QED BY <2>2, <4>1 DEF Busy
    <3> QED BY <2>2, <3>1, <3>2 DEF RowWorks
  <2> QED BY <2>2, <2>4, <2>5 DEF Works
<1>9. CASE \E t \in Tables, p \in Parts : JobStep(t, p)
  <2>1. PICK t \in Tables, p \in Parts :
          (\E k \in Rows : Visit(t, p, k)) \/ JobOk(t, p) \/ JobErr(t, p)
    BY <1>9 DEF JobStep
  <2>2. /\ UNCHANGED <<conf, now, src, db, runs, phase, mode, run, mem, outcome>>
        /\ jobs[t][p].state = "running"
        /\ \E j \in JobRow : SetJob(t, p, j) /\ j.state # "none" /\ j.since = jobs[t][p].since
    <3>1. CASE \E k \in Rows : Visit(t, p, k)
      BY <3>1, VisitFacts
    <3>2. CASE JobOk(t, p)
      <4>1. /\ UNCHANGED <<conf, now, src, db, runs, phase, mode, run, mem, outcome>>
            /\ jobs[t][p].state = "running"
            /\ SetJob(t, p, [jobs[t][p] EXCEPT !.state = "ok"])
        BY <3>2 DEF JobOk, jobFrame
      <4>2. PICK j \in JobRow : SetJob(t, p, j) /\ j.state = "ok" /\ j.since = jobs[t][p].since
        BY <4>1, JobEnds
      <4> QED BY <4>1, <4>2
    <3>3. CASE JobErr(t, p)
      <4>1. /\ UNCHANGED <<conf, now, src, db, runs, phase, mode, run, mem, outcome>>
            /\ jobs[t][p].state = "running"
            /\ SetJob(t, p, [jobs[t][p] EXCEPT !.state = "err"])
        BY <3>3 DEF JobErr, jobFrame
      <4>2. PICK j \in JobRow : SetJob(t, p, j) /\ j.state = "err" /\ j.since = jobs[t][p].since
        BY <4>1, JobEnds
      <4> QED BY <4>1, <4>2
    <3> QED BY <2>1, <3>1, <3>2, <3>3
  <2>3. PICK j \in JobRow : SetJob(t, p, j) /\ j.state # "none" /\ j.since = jobs[t][p].since
    BY <2>2
  <2>4. /\ jobs'[t][p] = j /\ \A q \in Parts \ {p} : jobs'[t][q] = jobs[t][q]
        /\ \A u \in Tables \ {t} : jobs'[u] = jobs[u]
    BY <1>0, <2>3, OneJob, Zenon
  <2>5. Busy(t)
    BY <2>2 DEF Busy
  <2>6. phase # "idle" /\ Stores(mem')
    BY <2>2, <2>5, NothingStored DEF LifeInv, LoopInv, JobsInv, Loops
  <2>7. \A u \in Tables \ {t} : RowWorks(u)
    BY <2>2, <2>4, SameRowWorks
  <2>8. RowWorks(t)
    BY <2>2, <2>3, <2>4, <2>5 DEF RowWorks
  <2> QED BY <2>2, <2>6, <2>7, <2>8 DEF Works
<1>10. CASE Done
  BY <1>10 DEF Done
<1> QED BY <1>1, <1>2, <1>3, <1>4, <1>5, <1>6, <1>7, <1>8, <1>9, <1>10 DEF Next, Orchestrate
-----------------------------------------------------------------------------
(* The clock: nothing is dated later than now, and a watermark only grows. *)
Timed(row, w) == row.began <= w /\ (row.last_sync # None => row.last_sync <= w)

Newer(new, old) ==
  old # None /\ old.last_sync # None =>
    new # None /\ new.last_sync # None /\ new.last_sync >= old.last_sync

ClockInv(t) ==
  /\ \A k \in Rows : src[t][k] <= now
  /\ Timed(mem[t], now)
  /\ \A r \in RunIds : db[r][t] # None => Timed(db[r][t], now)
  /\ \A p \in Parts : jobs[t][p].since # None => jobs[t][p].since <= now
  /\ Busy(t) /\ mem[t].last_sync # None => mem[t].last_sync <= mem[t].began
  /\ phase # "idle" /\ conf.modes = {"upsert"} => Newer(mem[t], db[run][t])

TimeInv == LifeInv /\ \A t \in Tables : ClockInv(t)

(* What a run finds: a table it knows nothing of, or the row of its run_id.*)
LEMMA StartFacts ==
  ASSUME LifeInv, NEW m, NEW resume \in BOOLEAN, Start(m, resume), NEW t \in Tables
  PROVE  /\ mem'[t] = NewTable \/ (mem'[t] = db[run'][t] /\ db[run'][t] # None)
         /\ m = "drop_recreate" => mem'[t] = NewTable
         /\ m # "drop_recreate" /\ run' \in RunIds /\ db[run'][t] # None => mem'[t] = db[run'][t]
<1>1. PICK L : L = LatestRun
  OBVIOUS
<1>2. L \in Nat /\ \A r \in RunIds : Stored(r) => r <= L
  BY <1>1, LatestFacts, ConfFacts DEF LifeInv, TypeOK
<1>3. PICK known \in BOOLEAN : known = (resume /\ LatestRun > 0)
  OBVIOUS
<1>4. PICK loaded : loaded = IF known THEN db[LatestRun] ELSE [u \in Tables |-> None]
  OBVIOUS
<1>5. /\ run' = IF known THEN L ELSE L + 1
      /\ mem' = InitTables(loaded, m)
      /\ loaded = IF known THEN db[L] ELSE [u \in Tables |-> None]
  BY <1>1, <1>3, <1>4 DEF Start
<1>6. mem'[t] = IF m = "drop_recreate" \/ loaded[t] = None THEN NewTable ELSE loaded[t]
  BY <1>5 DEF InitTables
<1>7. CASE known
  <2>1. run' = L /\ loaded = db[run']
    BY <1>5, <1>7
  <2> QED BY <1>6, <2>1
<1>8. CASE ~known
  <2>1. loaded[t] = None /\ run' = L + 1
    BY <1>5, <1>8
  <2>2. run' \in RunIds => ~Stored(run')
    BY <1>2, <2>1
  <2> QED BY <1>6, <2>1, <2>2 DEF Stored
<1> QED BY <1>7, <1>8

LEMMA NewTimed == \A w \in Nat : Timed(NewTable, w)
BY DEF Timed, NewTable

(* A watermark that a step brings to the database is no older than what it *)
(* replaces.                                                               *)
LEMMA StoredNewer ==
  ASSUME LifeInv, NEW t \in Tables, NEW m \in [Tables -> TableRow], Stores(m),
         Newer(m[t], db[run][t])
  PROVE  /\ Newer(m[t], db'[run][t])
         /\ \A r \in RunIds : Newer(db'[r][t], db[r][t])
<1>1. /\ db \in [RunIds -> [Tables -> TableRow \cup {None}]] /\ run \in RunIds
      /\ \A r \in RunIds : db'[r][t] = db[r][t] \/ (r = run /\ db'[r][t] = m[t])
  BY DEF LifeInv, TypeOK, Stores
<1>2. \A row \in TableRow : row.last_sync # None => row.last_sync \in Int
  BY RowFields, ConfFacts DEF LifeInv, TypeOK
<1>3. m[t] \in TableRow /\ m[t] # None
  BY ConfFacts DEF LifeInv, TypeOK
<1>4. \A r \in RunIds : db[r][t] \in TableRow \cup {None}
  BY <1>1
<1>5. \A row \in TableRow \cup {None} : Newer(row, row)
  BY <1>2 DEF Newer
<1> QED BY <1>1, <1>3, <1>4, <1>5

LEMMA FilterTimed ==
  ASSUME TimeInv, NEW t \in Tables
  PROVE  DateFilter(t) # None => DateFilter(t) \in Nat /\ DateFilter(t) <= now
<1>1. LastSync(t) # None =>
        /\ LastSync(t) \in Nat
        /\ \E r \in RunIds : db[r][t] # None /\ db[r][t].last_sync = LastSync(t)
  BY LastSyncFacts, ConfFacts DEF TimeInv, LifeInv, TypeOK
<1>2. \A r \in RunIds : db[r][t] # None /\ db[r][t].last_sync # None => db[r][t].last_sync <= now
  BY DEF TimeInv, ClockInv, Timed
<1> QED BY <1>1, <1>2 DEF DateFilter

LEMMA WorksTime ==
  ASSUME TimeInv, Works, LifeInv', NEW t \in Tables
  PROVE  /\ ClockInv(t)'
         /\ conf.modes = {"upsert"} => \A r \in RunIds : Newer(db'[r][t], db[r][t])
<1>1. /\ phase # "idle" /\ phase' # "idle" /\ Stores(mem') /\ RowWorks(t)
      /\ UNCHANGED <<conf, now, src, runs, mode, run, outcome>>
  BY DEF Works
<1>2. LifeInv /\ ClockInv(t) /\ conf \in Confs /\ now \in Nat /\ conf.until \in Nat
      /\ None \notin Int /\ mem \in [Tables -> TableRow] /\ Tables' = Tables /\ RunIds' = RunIds
  BY <1>1, ConfFacts, ConfStays DEF TimeInv, LifeInv, TypeOK
<1>3. mem' \in [Tables -> TableRow]
  BY <1>1, ConfStays DEF LifeInv, TypeOK
<1>4. PICK m \in [Tables -> TableRow] : m = mem'
  BY <1>3
<1>5. Stores(m)
  BY <1>1, <1>4
<1>6. PICK old \in TableRow, new \in TableRow : old = mem[t] /\ new = mem'[t]
  BY <1>2, <1>3
<1>7. /\ old.began \in Nat /\ new.began \in Nat
      /\ old.last_sync # None => old.last_sync \in Nat
      /\ new.last_sync # None => new.last_sync \in Nat
  BY <1>2, RowFields
<1>8. Timed(new, now) /\ (conf.modes = {"upsert"} => Newer(new, db[run][t]))
  <2>1. /\ Timed(old, now) /\ (Busy(t) /\ old.last_sync # None => old.last_sync <= old.began)
        /\ conf.modes = {"upsert"} => Newer(old, db[run][t])
    BY <1>1, <1>2, <1>6 DEF ClockInv
  <2>2. /\ new.last_sync = old.last_sync \/ (Busy(t) /\ new.last_sync = old.began)
        /\ new.began \in {old.began, now}
    BY <1>1, <1>6 DEF RowWorks
  <2>3. Timed(new, now)
    BY <1>2, <1>7, <2>1, <2>2 DEF Timed
  <2>4. ASSUME conf.modes = {"upsert"}
        PROVE  Newer(new, db[run][t])
    <3>1. \/ db[run][t] = None
          \/ db[run][t] \in TableRow
      BY <1>2 DEF LifeInv, TypeOK
    <3>2. CASE db[run][t] \in TableRow
      <4>1. PICK row \in TableRow : row = db[run][t]
        BY <3>2
      <4>2. row.last_sync # None => row.last_sync \in Nat
        BY <1>2, RowFields
      <4>3. row # None /\ new # None /\ Newer(old, row)
        BY <1>2, <2>1, <2>4, <4>1, ConfFacts
      <4>4. Newer(new, row)
        BY <1>2, <1>7, <2>1, <2>2, <4>2, <4>3 DEF Newer
      <4> QED BY <4>1, <4>4
    <3> QED BY <3>1, <3>2 DEF Newer
  <2> QED BY <2>3, <2>4
<1>9. conf.modes = {"upsert"} =>
        Newer(new, db'[run][t]) /\ \A r \in RunIds : Newer(db'[r][t], db[r][t])
  BY <1>2, <1>4, <1>5, <1>6, <1>8, StoredNewer
<1>10. \A r \in RunIds : db'[r][t] # None => Timed(db'[r][t], now)
  BY <1>1, <1>2, <1>4, <1>5, <1>6, <1>8 DEF Stores, ClockInv
<1>11. \A p \in Parts : jobs'[t][p].since # None => jobs'[t][p].since <= now
  <2>1. DateFilter(t) # None => DateFilter(t) <= now
    BY FilterTimed
  <2> QED BY <1>1, <1>2, <2>1 DEF RowWorks, ClockInv
<1>12. Busy(t)' /\ new.last_sync # None => new.last_sync <= new.began
  BY <1>1, <1>2, <1>6 DEF RowWorks, ClockInv, Timed
<1>13. ClockInv(t)'
  BY <1>1, <1>2, <1>6, <1>8, <1>9, <1>10, <1>11, <1>12 DEF ClockInv
<1> QED BY <1>1, <1>9, <1>13

LEMMA LeavesTime ==
  ASSUME TimeInv, Leaves, NEW t \in Tables
  PROVE  /\ ClockInv(t)'
         /\ conf.modes = {"upsert"} => \A r \in RunIds : Newer(db'[r][t], db[r][t])
<1>1. /\ phase # "idle" /\ Leave /\ Stores(mem) /\ UNCHANGED <<conf, now, src, runs>>
  BY DEF Leaves
<1>2. LifeInv /\ ClockInv(t) /\ conf \in Confs /\ now \in Nat
      /\ mem \in [Tables -> TableRow] /\ Tables' = Tables /\ RunIds' = RunIds
  BY <1>1, ConfFacts, ConfStays DEF TimeInv, LifeInv, TypeOK
<1>3. mem'[t] = NewTable /\ phase' = "idle"
      /\ jobs' = [u \in Tables |-> [p \in Parts |-> NoJob]]
  BY <1>1 DEF Leave
<1>4. conf.modes = {"upsert"} => \A r \in RunIds : Newer(db'[r][t], db[r][t])
  BY <1>1, <1>2, StoredNewer DEF ClockInv
<1>5. \A r \in RunIds : db'[r][t] # None => Timed(db'[r][t], now)
  BY <1>1, <1>2 DEF Stores, ClockInv
<1>6. ~Busy(t)' /\ \A p \in Parts : jobs'[t][p].since = None
  BY <1>3, NoJobs, NoSince DEF Busy
<1>7. Timed(mem'[t], now)
  BY <1>2, <1>3, NewTimed
<1> QED BY <1>1, <1>2, <1>3, <1>4, <1>5, <1>6, <1>7 DEF ClockInv

LEMMA StartTime ==
  ASSUME TimeInv, NEW m \in conf.modes, NEW resume \in BOOLEAN, Start(m, resume),
         LifeInv', NEW t \in Tables
  PROVE  ClockInv(t)'
<1>1. /\ phase = "idle" /\ mode' = m /\ UNCHANGED <<conf, now, src, tgt, db, jobs>>
  BY DEF Start, durable, tasks
<1>2. LifeInv /\ ClockInv(t) /\ conf \in Confs /\ now \in Nat
      /\ RunIds' = RunIds /\ run' \in RunIds
  BY <1>1, ConfFacts, ConfStays DEF TimeInv, LifeInv, TypeOK
<1>3. ~Busy(t)'
  <2>1. ~Busy(t)
    BY <1>1, <1>2 DEF LifeInv, LoopInv, JobsInv, Loops
  <2> QED BY <1>1, <2>1 DEF Busy
<1>4. Timed(mem'[t], now)
  BY <1>2, StartFacts, NewTimed DEF ClockInv
<1>5. conf.modes = {"upsert"} => Newer(mem'[t], db[run'][t])
  <2> SUFFICES ASSUME conf.modes = {"upsert"}, db[run'][t] # None
               PROVE  Newer(mem'[t], db[run'][t])
    BY DEF Newer
  <2>1. mem'[t] = db[run'][t]
    BY <1>2, StartFacts
  <2>2. PICK row \in TableRow : row = db[run'][t]
    BY <1>2 DEF LifeInv, TypeOK
  <2>3. row.last_sync # None => row.last_sync \in Nat
    BY <1>2, RowFields, ConfFacts
  <2>4. Newer(row, row)
    BY <2>2, <2>3 DEF Newer
  <2> QED BY <2>1, <2>2, <2>4
<1> QED BY <1>1, <1>2, <1>3, <1>4, <1>5 DEF ClockInv

LEMMA ChangeTime ==
  ASSUME TimeInv, NEW u \in Tables, NEW k \in Rows, Change(u, k), NEW t \in Tables
  PROVE  ClockInv(t)'
<1>1. /\ now' = now + 1 /\ src' = [src EXCEPT ![u][k] = now + 1]
      /\ UNCHANGED <<conf, tgt, db, phase, mode, run, mem, jobs>>
  BY DEF Change, tasks
<1>2. LifeInv /\ ClockInv(t) /\ conf \in Confs /\ now \in Nat /\ None \notin Int
      /\ RunIds' = RunIds /\ (Busy(t)' <=> Busy(t))
      /\ src \in [Tables -> [Rows -> 0..conf.until]] /\ conf.until \in Nat
  BY <1>1, ConfFacts, ConfStays DEF TimeInv, LifeInv, TypeOK, Busy
<1>3. \A row \in TableRow : Timed(row, now) => Timed(row, now + 1)
  BY <1>2, RowFields DEF Timed
<1>4. PICK n : n = now + 1
  OBVIOUS
<1>5. \A i \in Rows : src'[t][i] <= now'
  <2>1. \A i \in Rows : src[t][i] \in Int /\ src[t][i] <= now
    BY <1>2 DEF ClockInv
  <2>2. \A i \in Rows : src'[t][i] = src[t][i] \/ src'[t][i] = n
    BY <1>1, <1>2, <1>4
  <2> QED BY <1>1, <1>2, <1>4, <2>1, <2>2
<1>6. Timed(mem'[t], now')
  BY <1>1, <1>2, <1>3 DEF ClockInv, LifeInv, TypeOK
<1>7. \A r \in RunIds : db'[r][t] # None => Timed(db'[r][t], now')
  <2>1. \A r \in RunIds : db[r][t] # None => db[r][t] \in TableRow
    BY <1>2 DEF LifeInv, TypeOK
  <2> QED BY <1>1, <1>2, <1>3, <2>1 DEF ClockInv
<1>8. \A p \in Parts : jobs'[t][p].since # None => jobs'[t][p].since <= now'
  <2>1. \A p \in Parts : jobs[t][p].since # None => jobs[t][p].since \in Int
    BY <1>2 DEF LifeInv, TypeOK
  <2> QED BY <1>1, <1>2, <2>1 DEF ClockInv
<1> QED BY <1>1, <1>2, <1>5, <1>6, <1>7, <1>8 DEF ClockInv

LEMMA NextTime == TimeInv /\ [Next]_vars => TimeInv'
<1> SUFFICES ASSUME TimeInv, [Next]_vars
             PROVE  TimeInv'
  OBVIOUS
<1>1. LifeInv /\ LifeInv'
  BY NextLife DEF TimeInv
<1>2. ASSUME NEW t \in Tables
      PROVE  ClockInv(t)'
  <2>1. CASE \E u \in Tables, k \in Rows : Change(u, k)
    BY <2>1, ChangeTime
  <2>2. CASE \E m \in conf.modes, resume \in BOOLEAN :
               Start(m, resume) /\ (conf.fresh \/ resume)
    BY <1>1, <2>2, StartTime
  <2>3. CASE Works \/ Leaves
    BY <1>1, <2>3, WorksTime, LeavesTime
  <2>4. CASE UNCHANGED vars
    <3>1. UNCHANGED <<conf, now, src, db, phase, run, mem, jobs>> /\ RunIds' = RunIds
          /\ (Busy(t)' <=> Busy(t))
      BY <2>4 DEF vars, durable, tasks, RunIds, Busy
    <3> QED BY <3>1 DEF TimeInv, ClockInv
  <2> QED BY <1>1, <2>1, <2>2, <2>3, <2>4, StepKinds
<1>3. Tables' = Tables
  <2>1. conf' = conf
    BY <1>1, StepKinds DEF Change, Start, Works, Leaves, vars, durable
  <2> QED BY <2>1 DEF Tables
<1> QED BY <1>1, <1>2, <1>3 DEF TimeInv

LEMMA InitTime == Init => TimeInv
<1> SUFFICES ASSUME Init PROVE TimeInv
  OBVIOUS
<1>1. LifeInv /\ now = 1 /\ phase = "idle"
  BY InitLife DEF Init, Idle
<1>2. ASSUME NEW t \in Tables
      PROVE  ClockInv(t)
  <2>1. \A k \in Rows : src[t][k] = IF k \in conf.rows THEN 1 ELSE 0
    BY DEF Init
  <2>2. mem[t] = NewTable /\ (\A r \in RunIds : db[r][t] = None)
        /\ \A p \in Parts : jobs[t][p] = NoJob
    BY DEF Init, Idle
  <2>3. ~Busy(t) /\ \A p \in Parts : jobs[t][p].since = None
    BY <2>2 DEF Busy, NoJob
  <2> QED BY <1>1, <2>1, <2>2, <2>3, NewTimed DEF ClockInv
<1> QED BY <1>1, <1>2 DEF TimeInv

(* Start times, filters and watermarks are times that have been, and a     *)
(* table's watermark is not later than the start of its transfer.          *)
THEOREM TimeInvariant == Spec => []TimeInv
<1> QED BY InitTime, NextTime, PTL DEF Spec

(* No step of a resumed, failed or killed run loses or turns back a        *)
(* watermark of upserts: what a save brings is never older than what it    *)
(* replaces, since a table's jobs began after its watermark was taken.     *)
THEOREM WatermarksOnlyGrow == Spec => WatermarkKept
<1>1. TimeInv /\ [Next]_vars =>
        [conf.modes = {"upsert"} =>
           \A r \in RunIds, t \in Tables :
             db[r][t] # None /\ db[r][t].last_sync # None =>
               /\ db'[r][t] # None /\ db'[r][t].last_sync # None
               /\ db'[r][t].last_sync >= db[r][t].last_sync]_vars
  <2> SUFFICES ASSUME TimeInv, [Next]_vars, ~UNCHANGED vars, conf.modes = {"upsert"},
                      NEW r \in RunIds, NEW t \in Tables
               PROVE  Newer(db'[r][t], db[r][t])
    BY DEF Newer
  <2>1. LifeInv /\ LifeInv'
    BY NextLife DEF TimeInv
  <2>2. CASE Works \/ Leaves
    BY <2>1, <2>2, WorksTime, LeavesTime
  <2>3. CASE db' = db
    <3>1. db[r][t] = None \/ db[r][t] \in TableRow
      BY <2>1 DEF LifeInv, TypeOK
    <3>2. \A row \in TableRow : row.last_sync # None => row.last_sync \in Nat
      BY <2>1, RowFields, ConfFacts DEF LifeInv, TypeOK
    <3> QED BY <2>3, <3>1, <3>2 DEF Newer
  <2>4. Works \/ Leaves \/ db' = db
    BY <2>1, StepKinds DEF Change, Start, durable
  <2> QED BY <2>2, <2>3, <2>4
<1> QED BY <1>1, TimeInvariant, PTL DEF Spec, WatermarkKept
-----------------------------------------------------------------------------
(* Success.                                                                *)
LEMMA LatestSaved ==
  ASSUME LifeInv, phase # "idle", Save(mem), conf' = conf, NEW t \in Tables
  PROVE  LatestRun' = run
<1>1. /\ conf.runs \in Nat /\ RunIds = 1..conf.runs /\ run \in 1..conf.runs
      /\ mem \in [Tables -> TableRow] /\ mem[t] # None
      /\ RunIds' = RunIds /\ Tables' = Tables
  BY ConfFacts, ConfStays DEF LifeInv, TypeOK, RunIds
<1>2. PICK S : S = {r \in RunIds : \E u \in Tables : db'[r][u] # None}
  OBVIOUS
<1>3. LatestRun' = Max({0} \cup S)
  <2>1. {r \in RunIds' : Stored(r)'} = S
    BY <1>1, <1>2 DEF Stored
  <2> QED BY <2>1 DEF LatestRun
<1>4. db'[run] = mem /\ Stores(mem)
  BY <1>1, SaveStores DEF LifeInv
<1>5. run \in S
  BY <1>1, <1>2, <1>4
<1>6. \A r \in S : r <= run
  <2> SUFFICES ASSUME NEW r \in S, r > run PROVE FALSE
    BY <1>1, <1>2
  <2>1. \A u \in Tables : db'[r][u] = None
    BY <1>1, <1>2, <1>4 DEF Stores, LifeInv, RunInv
  <2> QED BY <1>2, <2>1
<1>7. PICK n \in Nat : n = conf.runs
  BY <1>1
<1>8. S \in SUBSET (1..n)
  BY <1>1, <1>2, <1>7
<1>9. PICK m : m = Max({0} \cup S)
  OBVIOUS
<1>10. m \in 0..n /\ (m > 0 => m \in S) /\ \A r \in S : r <= m
  BY <1>8, <1>9, LargestRun
<1>11. m = run
  BY <1>1, <1>5, <1>6, <1>7, <1>10
<1> QED BY <1>3, <1>9, <1>11

SuccessInv ==
  /\ LifeInv
  /\ outcome = "completed" => \A t \in Tables :
       db[LatestRun][t] # None /\ db[LatestRun][t].status = "completed"

LEMMA NextSuccess == SuccessInv /\ [Next]_vars => SuccessInv'
<1> SUFFICES ASSUME SuccessInv, [Next]_vars
             PROVE  SuccessInv'
  OBVIOUS
<1>1. LifeInv /\ LifeInv'
  BY NextLife DEF SuccessInv
<1>2. ASSUME outcome' = "completed", NEW t \in Tables'
      PROVE  db'[LatestRun'][t] # None /\ db'[LatestRun'][t].status = "completed"
  <2>1. CASE Leaves
    <3>1. /\ conf' = conf /\ phase # "idle" /\ Save(mem)
          /\ \A u \in Tables : mem[u].status = "completed"
      BY <1>2, <2>1 DEF Leaves
    <3>2. t \in Tables /\ mem \in [Tables -> TableRow] /\ mem[t] # None
      BY <1>1, <3>1, ConfStays, ConfFacts DEF LifeInv, TypeOK
    <3>3. db'[run] = mem
      BY <1>1, <3>1, <3>2, SaveStores DEF LifeInv
    <3>4. LatestRun' = run
      BY <1>1, <3>1, <3>2, LatestSaved
    <3> QED BY <3>1, <3>2, <3>3, <3>4
  <2>2. CASE UNCHANGED <<conf, db, outcome>>
    <3>1. LatestRun' = LatestRun /\ t \in Tables
      BY <2>2 DEF LatestRun, RunIds, Stored, Tables
    <3> QED BY <1>2, <2>2, <3>1 DEF SuccessInv
  <2>3. Leaves \/ UNCHANGED <<conf, db, outcome>>
    <3>1. outcome = "completed" => phase = "idle"
      BY <1>1 DEF LifeInv, RunInv
    <3> QED BY <1>1, <1>2, <3>1, StepKinds
            DEF Change, Start, Works, vars, durable
  <2> QED BY <2>1, <2>2, <2>3
<1> QED BY <1>1, <1>2 DEF SuccessInv

(* When a run reports success, the stored state, which the next run loads, *)
(* has every table completed: no table is forgotten between the spawn      *)
(* loop, the results and the signals.                                      *)
THEOREM SuccessCoversAll == Spec => []SuccessIsComplete
<1>1. Init => SuccessInv
  BY InitLife DEF SuccessInv, Init
<1>2. SuccessInv => SuccessIsComplete
  BY DEF SuccessInv, SuccessIsComplete
<1> QED BY <1>1, <1>2, NextSuccess, PTL DEF Spec
-----------------------------------------------------------------------------
(* Resume points.  A job that starts over must read every row its table    *)
(* has; one that resumes trusts what a run before it has written.  So a    *)
(* table about to be transferred must have no resume point: not from a     *)
(* completed transfer before, which is where an incremental run gets one   *)
(* for a table with an integer key.                                        *)
Resumable ==
  conf.dates /\ "upsert" \in conf.modes =>
    \A t \in Tables : \/ conf.kind[t] = "other"
                      \/ conf.kind[t] = "large" /\ ~Can("boundaries")

NoPk(row) ==
  (conf.dates /\ "upsert" \in conf.modes) \/ row.status # "completed" => row.last_pk = None

PkInv(t) ==
  /\ NoPk(mem[t])
  /\ \A r \in RunIds : db[r][t] # None => NoPk(db[r][t])
  /\ phase = "prepare" /\ mode = "drop_recreate" => mem[t] = NewTable
  /\ t \in pending => mem[t].last_pk = None
  /\ jobs[t][0].state # "none" => conf.kind[t] # "large" \/ Can("boundaries")

ResumeInv == LifeInv /\ (Resumable => \A t \in Tables : PkInv(t))

LEMMA WorksPk ==
  ASSUME LifeInv, Works, NEW t \in Tables, PkInv(t), NoPk(mem'[t]),
         t \in pending' => mem'[t].last_pk = None,
         jobs'[t][0].state # "none" => conf.kind[t] # "large" \/ Can("boundaries"),
         phase' = "prepare" => phase = "prepare" /\ mem'[t] = mem[t]
  PROVE  PkInv(t)'
<1>1. Stores(mem') /\ conf' = conf /\ mode' = mode
  BY DEF Works
<1>2. RunIds' = RunIds /\ (Can("boundaries")' <=> Can("boundaries"))
  BY <1>1, ConfStays
<1>3. PICK m : m = mem'[t]
  OBVIOUS
<1>4. \A r \in RunIds : db'[r][t] = db[r][t] \/ db'[r][t] = m
  BY <1>1, <1>3 DEF Stores
<1>5. \A r \in RunIds : db'[r][t] # None => NoPk(db'[r][t])
  BY <1>3, <1>4 DEF PkInv
<1> QED BY <1>1, <1>2, <1>5 DEF PkInv, NoPk

LEMMA QuietPk ==
  ASSUME LifeInv, Works, NEW t \in Tables, PkInv(t), mem'[t] = mem[t],
         t \in pending' => t \in pending,
         jobs'[t][0].state # "none" => jobs[t][0].state # "none",
         phase' = "prepare" => phase = "prepare"
  PROVE  PkInv(t)'
<1>1. /\ NoPk(mem'[t]) /\ (t \in pending' => mem'[t].last_pk = None)
      /\ jobs'[t][0].state # "none" => conf.kind[t] # "large" \/ Can("boundaries")
  BY DEF PkInv
<1> QED BY <1>1, WorksPk

LEMMA SpawnPk ==
  ASSUME LifeInv, NEW u \in Tables, Spawn(u), Works, NEW t \in Tables, PkInv(t)
  PROVE  PkInv(t)'
<1>1. /\ phase = "spawn" /\ u \in pending
      /\ mem'[u].status = "in_progress" /\ mem'[u].last_pk = mem[u].last_pk
      /\ \A v \in Tables \ {u} : mem'[v] = mem[v]
      /\ \/ /\ pending' = pending \ {u} /\ phase' = phase
            /\ \E split \in BOOLEAN :
                    /\ ~split => conf.kind[u] # "large" \/ Can("boundaries")
                    /\ jobs' = [jobs EXCEPT ![u] =
                         Spawned(u, split, IF split THEN None ELSE mem'[u].last_pk)]
         \/ GiveUp
  BY SpawnFacts
<1>2. 0 \in Parts
  BY DEF Parts
<1>3. CASE GiveUp
  <2>1. pending' = {} /\ phase' = "failing" /\ jobs'[t][0].state = "none"
    BY <1>2, <1>3, NoJobs DEF GiveUp
  <2>2. mem[u].last_pk = None \/ t # u
    BY <1>1 DEF PkInv
  <2>3. NoPk(mem'[t])
    <3>1. CASE t = u
      BY <1>1, <2>2, <3>1 DEF NoPk
    <3>2. CASE t # u
      BY <1>1, <3>2 DEF PkInv
    <3> QED BY <3>1, <3>2
  <2> QED BY <2>1, <2>3, WorksPk
<1>4. ASSUME pending' = pending \ {u}, phase' = phase, NEW split \in BOOLEAN,
             ~split => conf.kind[u] # "large" \/ Can("boundaries"), NEW resume,
             jobs' = [jobs EXCEPT ![u] = Spawned(u, split, resume)]
      PROVE  PkInv(t)'
  <2>1. CASE t = u
    <3>1. mem'[u].last_pk = None /\ NoPk(mem'[t]) /\ t \notin pending'
      BY <1>1, <1>4, <2>1 DEF PkInv, NoPk
    <3>2. split => jobs'[u][0] = NoJob
      BY <1>4, SpawnedFacts
    <3>3. jobs'[t][0].state # "none" => conf.kind[t] # "large" \/ Can("boundaries")
      BY <1>4, <2>1, <3>2 DEF NoJob
    <3> QED BY <1>1, <1>4, <3>1, <3>3, WorksPk
  <2>2. CASE t # u
    <3>1. jobs'[t] = jobs[t]
      BY <1>4, <2>2, SpawnedFacts
    <3> QED BY <1>1, <1>4, <2>2, <3>1, QuietPk
  <2> QED BY <2>1, <2>2
<1> QED BY <1>1, <1>3, <1>4

LEMMA CollectPk ==
  ASSUME LifeInv, NEW u \in Tables, NEW p \in Parts, Collect(u, p), Works, NEW t \in Tables,
         Resumable, PkInv(t)
  PROVE  PkInv(t)'
<1>1. PICK ok \in BOOLEAN : ok = (jobs[u][p].state = "ok")
  OBVIOUS
<1>2. /\ phase = "collect" /\ jobs[u][p].state \in {"ok", "err"}
      /\ \/ SetJob(u, p, NoJob) /\ UNCHANGED <<mem, phase, pending>>
         \/ /\ p = 0 \/ collected[u] = 1
            /\ mem' \in [Tables -> TableRow] /\ (\A v \in Tables \ {u} : mem'[v] = mem[v])
            /\ ok /\ u \notin anyErr => mem'[u].status = "completed"
            /\ p = 0 /\ ok => mem'[u].last_pk \in ReportedPk(u, jobs[u][p])
            /\ ~(p = 0 /\ ok) => mem'[u].last_pk = mem[u].last_pk
            /\ \/ SetJob(u, p, NoJob) /\ UNCHANGED <<phase, pending>>
               \/ GiveUp
  BY <1>1, CollectFacts
<1>3. phase' # "prepare" /\ pending = {} /\ pending' = {}
  BY <1>2 DEF LifeInv, LoopInv, ResultInv, GiveUp
<1>4. jobs'[t][0].state # "none" => jobs[t][0].state # "none"
  <2>1. 0 \in Parts /\ NoJob.state = "none" /\ NoJob \in JobRow
    BY NoJobRow DEF Parts, NoJob
  <2>2. CASE GiveUp
    BY <2>1, <2>2, NoJobs DEF GiveUp
  <2>3. CASE SetJob(u, p, NoJob)
    <3>1. jobs \in [Tables -> [Parts -> JobRow]]
      BY DEF LifeInv, TypeOK, JobRow
    <3>2. /\ jobs'[u][p] = NoJob /\ \A q \in Parts \ {p} : jobs'[u][q] = jobs[u][q]
          /\ \A v \in Tables \ {u} : jobs'[v] = jobs[v]
      BY <2>3, <3>1, JobGone
    <3> QED BY <2>1, <3>2
  <2> QED BY <1>2, <2>2, <2>3
<1>5. CASE mem'[t] = mem[t]
  BY <1>3, <1>4, <1>5, QuietPk
<1>6. CASE mem'[t] # mem[t]
  <2>1. t = u
    BY <1>2, <1>6
  <2>2. Busy(t) /\ mem[t].status = "in_progress" /\ mem[t].last_pk = None
    BY <1>2, <2>1 DEF LifeInv, LoopInv, JobsInv, Busy, PkInv, NoPk
  <2>3. NoPk(mem'[t])
    <3>1. CASE p = 0 /\ ok
      <4>1. mem'[t].status = "completed"
        <5>1. t \notin anyErr
          BY <1>2, <2>1, <2>2, <3>1 DEF LifeInv, LoopInv, JobsInv, Loops
        <5> QED BY <1>2, <1>6, <2>1, <3>1, <5>1
      <4>2. conf.dates /\ "upsert" \in conf.modes => conf.kind[t] = "other"
        BY <1>2, <2>1, <3>1 DEF Resumable, PkInv
      <4>3. conf.dates /\ "upsert" \in conf.modes => mem'[t].last_pk = None
        <5>1. mem'[t].last_pk \in ReportedPk(t, jobs[t][p])
          BY <1>2, <1>6, <2>1, <3>1
        <5> QED BY <4>2, <5>1 DEF ReportedPk
      <4> QED BY <4>1, <4>3 DEF NoPk
    <3>2. CASE ~(p = 0 /\ ok)
      <4>1. mem'[t].last_pk = None
        BY <1>2, <1>6, <2>1, <2>2, <3>2
      <4> QED BY <4>1 DEF NoPk
    <3> QED BY <3>1, <3>2
  <2>4. jobs'[t][0].state # "none" => conf.kind[t] # "large" \/ Can("boundaries")
    BY <1>4 DEF PkInv
  <2> QED BY <1>3, <2>3, <2>4, WorksPk
<1> QED BY <1>5, <1>6

LEMMA SettlePk ==
  ASSUME LifeInv, SettleTables, Works, NEW t \in Tables, PkInv(t)
  PROVE  PkInv(t)'
<1>1. PICK m : m = [u \in Tables |-> Final(u)]
  OBVIOUS
<1>2. /\ phase = "settle" /\ phase' # "prepare" /\ mem' = m /\ pending' = pending
      /\ jobs' = jobs
  BY <1>1 DEF SettleTables, tasks
<1>3. mem'[t] = Final(t)
  BY <1>1, <1>2
<1>4. pending = {} /\ (t \in anyErr => mem[t].status # "completed")
  BY <1>2 DEF LifeInv, LoopInv, ResultInv
<1>5. NoPk(mem'[t])
  BY <1>3, <1>4, FinalRow DEF PkInv, NoPk
<1> QED BY <1>2, <1>4, <1>5, WorksPk DEF PkInv

LEMMA JobStepPk ==
  ASSUME LifeInv, NEW u \in Tables, NEW p \in Parts, JobStep(u, p), Works, NEW t \in Tables,
         PkInv(t)
  PROVE  PkInv(t)'
<1>1. (\E k \in Rows : Visit(u, p, k)) \/ JobOk(u, p) \/ JobErr(u, p)
  BY DEF JobStep
<1>2. UNCHANGED <<phase, mem, pending>> /\ jobs[u][p].state = "running"
      /\ \E j : SetJob(u, p, j)
  BY <1>1 DEF Visit, JobOk, JobErr, jobFrame
<1>3. PICK j : SetJob(u, p, j)
  BY <1>2
<1>4. jobs'[t][0].state # "none" => jobs[t][0].state # "none"
  <2>1. jobs \in [Tables -> [Parts -> JobRow]] /\ 0 \in Parts
    BY DEF LifeInv, TypeOK, JobRow, Parts
  <2>2. jobs'[t][0] = jobs[t][0] \/ (t = u /\ p = 0)
    BY <1>3, <2>1 DEF SetJob
  <2> QED BY <1>2, <2>2
<1> QED BY <1>2, <1>4, QuietPk

LEMMA PreparePk ==
  ASSUME LifeInv, Prepare, Works, NEW t \in Tables, Resumable, PkInv(t)
  PROVE  PkInv(t)'
<1>1. /\ phase = "prepare" /\ phase' = "spawn" /\ pending' = ToTransfer
      /\ mem' = mem /\ jobs' = jobs
  BY DEF Prepare, Works, Leave, tasks
<1>2. ASSUME t \in ToTransfer
      PROVE  mem[t].last_pk = None
  <2>1. mode \in conf.modes
    BY <1>1 DEF LifeInv, RunInv
  <2>2. CASE mode = "drop_recreate"
    BY <1>1, <2>2 DEF PkInv, NewTable
  <2>3. CASE Incremental
    BY <2>1, <2>3 DEF Incremental, PkInv, NoPk
  <2>4. CASE mode # "drop_recreate" /\ ~Incremental
    <3>1. mem[t].status # "completed"
      BY <1>2, <2>4 DEF ToTransfer
    <3> QED BY <3>1 DEF PkInv, NoPk
  <2> QED BY <2>2, <2>3, <2>4
<1> QED BY <1>1, <1>2, WorksPk DEF PkInv

LEMMA NewNoPk == NoPk(NewTable)
BY DEF NoPk, NewTable

LEMMA NextResume == ResumeInv /\ [Next]_vars => ResumeInv'
<1> SUFFICES ASSUME ResumeInv, [Next]_vars
             PROVE  ResumeInv'
  OBVIOUS
<1>1. LifeInv /\ LifeInv'
  BY NextLife DEF ResumeInv
<1>2. conf' = conf
  BY <1>1, StepKinds DEF Change, Start, Works, Leaves, vars, durable
<1>3. Tables' = Tables /\ RunIds' = RunIds /\ (Resumable' <=> Resumable)
      /\ (Can("boundaries")' <=> Can("boundaries"))
  BY <1>2, ConfStays DEF Resumable
<1>4. ASSUME Resumable, NEW t \in Tables
      PROVE  PkInv(t)'
  <2>0. PkInv(t)
    BY <1>4 DEF ResumeInv
  <2>1. CASE \/ \E u \in Tables, k \in Rows : Change(u, k)
             \/ UNCHANGED vars
    <3>1. UNCHANGED <<conf, db, phase, mode, mem, pending, jobs>>
      BY <2>1 DEF Change, vars, durable, tasks
    <3> QED BY <1>3, <2>0, <3>1 DEF PkInv, NoPk
  <2>2. CASE \E m \in conf.modes, resume \in BOOLEAN :
               Start(m, resume) /\ (conf.fresh \/ resume)
    <3>1. PICK m \in conf.modes, resume \in BOOLEAN : Start(m, resume)
      BY <2>2
    <3>2. phase = "idle" /\ mode' = m /\ UNCHANGED <<conf, db, pending, jobs>>
      BY <3>1 DEF Start, durable, tasks
    <3>3. /\ mem'[t] = NewTable \/ (mem'[t] = db[run'][t] /\ db[run'][t] # None)
          /\ m = "drop_recreate" => mem'[t] = NewTable
      BY <1>1, <3>1, StartFacts
    <3>4. run' \in RunIds /\ pending = {}
      BY <1>1, <1>3, <3>2 DEF LifeInv, TypeOK, LoopInv, ResultInv
    <3>5. NoPk(mem'[t])
      BY <2>0, <3>3, <3>4, NewNoPk DEF PkInv
    <3> QED BY <1>3, <2>0, <3>2, <3>3, <3>4, <3>5 DEF PkInv, NoPk
  <2>3. CASE Leaves
    <3>1. Leave /\ Stores(mem) /\ 0 \in Parts
      BY <2>3 DEF Leaves, Parts
    <3>2. phase' = "idle" /\ mem'[t] = NewTable /\ pending' = {} /\ jobs'[t][0] = NoJob
      BY <3>1, NoJobs DEF Leave
    <3>3. \A r \in RunIds : db'[r][t] # None => NoPk(db'[r][t])
      BY <2>0, <3>1 DEF Stores, PkInv
    <3> QED BY <1>2, <1>3, <3>2, <3>3, NewNoPk DEF PkInv, NoPk, NoJob
  <2>4. CASE Works
    <3>1. CASE \E u \in Tables : Spawn(u)
      BY <1>1, <2>0, <2>4, <3>1, SpawnPk
    <3>2. CASE \E u \in Tables, p \in Parts : Collect(u, p)
      BY <1>1, <1>4, <2>0, <2>4, <3>2, CollectPk
    <3>3. CASE Prepare
      BY <1>1, <1>4, <2>0, <2>4, <3>3, PreparePk
    <3>4. CASE SettleTables
      BY <1>1, <2>0, <2>4, <3>4, SettlePk
    <3>5. CASE \E u \in Tables, p \in Parts : JobStep(u, p)
      BY <1>1, <2>0, <2>4, <3>5, JobStepPk
    <3>6. CASE \/ StopSpawning \/ AllCollected \/ Finalize \/ Cancel \/ CollectCancelled
               \/ \E u \in Tables : LastSyncFails(u)
      <4>1. /\ mem' = mem /\ (pending' = {} \/ pending' = pending)
            /\ phase' = "prepare" => phase = "prepare"
            /\ jobs' = jobs \/ jobs' = [u \in Tables |-> [p \in Parts |-> NoJob]]
        BY <3>6 DEF StopSpawning, AllCollected, Finalize, Cancel, CollectCancelled,
                    LastSyncFails, GiveUp, tasks
      <4>2. jobs'[t][0].state # "none" => jobs[t][0].state # "none"
        BY <4>1, NoJobs DEF Parts
      <4> QED BY <1>1, <2>0, <2>4, <4>1, <4>2, QuietPk
    <3>7. ~(PrepareFails \/ FinalizeFails \/ Close \/ Crash)
      BY <2>4 DEF Works, PrepareFails, FinalizeFails, Close, Crash, Leave
    <3>8. ~\E u \in Tables, k \in Rows : Change(u, k)
      <4>1. now' = now
        BY <2>4 DEF Works
      <4>2. now \in Nat
        BY <1>1, ConfFacts DEF LifeInv, TypeOK
      <4> QED BY <4>1, <4>2 DEF Change
    <3>9. ~(Done \/ UNCHANGED vars) \/ PkInv(t)'
      <4>1. UNCHANGED vars => UNCHANGED <<phase, mem, pending, jobs>>
        BY DEF vars, tasks
      <4> QED BY <1>1, <2>0, <2>4, <4>1, QuietPk DEF Done
    <3>10. ~\E m \in conf.modes : Start(m, TRUE) \/ (conf.fresh /\ Start(m, FALSE))
      BY <2>4 DEF Works, Start
    <3> QED BY <3>1, <3>2, <3>3, <3>4, <3>5, <3>6, <3>7, <3>8, <3>9, <3>10
            DEF Next, Orchestrate
  <2> QED BY <1>1, <2>1, <2>2, <2>3, <2>4, StepKinds
<1> QED BY <1>1, <1>3, <1>4 DEF ResumeInv

LEMMA InitResume == Init => ResumeInv
<1> SUFFICES ASSUME Init PROVE ResumeInv
  OBVIOUS
<1>1. LifeInv
  BY InitLife
<1>2. ASSUME NEW t \in Tables
      PROVE  PkInv(t)
  <2>1. mem[t] = NewTable /\ (\A r \in RunIds : db[r][t] = None) /\ pending = {}
        /\ jobs[t][0] = NoJob
    BY DEF Init, Idle, Parts
  <2> QED BY <2>1, NewNoPk DEF PkInv, NoJob, NewTable
<1> QED BY <1>1, <1>2 DEF ResumeInv
-----------------------------------------------------------------------------
(* What the stored state may claim of the target.  UpTo is CopiedUpTo of   *)
(* a table with source rows S and target rows T.                           *)
UpTo(S, T, w) == \A k \in Rows : S[k] \in 1..w => T[k] = S[k]

(* Upserts never take a row from the target.  A run that drops the tables  *)
(* must forget what is stored of them in the same run, before it can end.  *)
UpsertsOnly   == conf.modes = {"upsert"}
DropsRecorded == ~conf.fresh /\ ~Can("crash") /\ ~Can("prepare") /\ ~Can("state")
DbTrusted     == UpsertsOnly \/ DropsRecorded
Trusted       == DbTrusted \/ "upsert" \notin conf.modes

(* A cancellation between the partitions of a table marks it completed.    *)
CancelSafe == Can("cancel") => \A t \in Tables : conf.kind[t] # "large"

Sound(row, S, T) ==
  /\ row.last_sync # None => UpTo(S, T, row.last_sync)
  /\ CancelSafe /\ row.status = "completed" => UpTo(S, T, row.began)

LastRow(t) == db[Max({1, LatestRun})][t]

(* A row that changed before its table's jobs began is in the target, or   *)
(* still before one of the jobs, unless a job has failed.                  *)
Covered(t) ==
  \A k \in Rows : src[t][k] \in 1..mem[t].began =>
    \/ tgt[t][k] = src[t][k]
    \/ t \in anyErr
    \/ \E p \in Parts : jobs[t][p].state = "err"
    \/ \E p \in Parts : jobs[t][p].state # "none" /\ k \in jobs[t][p].left

CopyInv(t) ==
  /\ Sound(mem[t], src[t], tgt[t])
  /\ DbTrusted => \A r \in RunIds : db[r][t] # None => Sound(db[r][t], src[t], tgt[t])
  /\ outcome = "completed" /\ LastRow(t) # None => Sound(LastRow(t), src[t], tgt[t])
  /\ \A p \in Parts : jobs[t][p].since # None => UpTo(src[t], tgt[t], jobs[t][p].since)
  /\ phase \in {"idle", "prepare"} => \A p \in Parts : jobs[t][p].since = None
  /\ Busy(t) => Covered(t)

CopyTrusted == Resumable /\ Trusted

SoundInv == TimeInv /\ ResumeInv /\ (CopyTrusted => \A t \in Tables : CopyInv(t))

(* Nothing that was copied is lost.                                        *)
Grows(t) ==
  \A w \in Nat : w <= now /\ UpTo(src[t], tgt[t], w) => UpTo(src'[t], tgt'[t], w)

LEMMA NewSound == \A S, T : Sound(NewTable, S, T)
BY DEF Sound, NewTable

LEMMA SameGrows ==
  ASSUME NEW t, src'[t] = src[t], tgt'[t] = tgt[t]
  PROVE  Grows(t)
BY DEF Grows

LEMMA ChangeGrows ==
  ASSUME LifeInv, NEW u \in Tables, NEW k \in Rows, Change(u, k), NEW t \in Tables
  PROVE  Grows(t)
<1>1. now \in Nat /\ src \in [Tables -> [Rows -> 0..conf.until]] /\ conf.until \in Nat
  BY ConfFacts DEF LifeInv, TypeOK
<1>2. src' = [src EXCEPT ![u][k] = now + 1] /\ tgt' = tgt
  BY DEF Change
<1>3. PICK n : n = now + 1
  OBVIOUS
<1>4. \A i \in Rows : src'[t][i] = src[t][i] \/ src'[t][i] = n
  BY <1>1, <1>2, <1>3
<1>5. \A w \in Nat : w <= now => n \notin 1..w
  BY <1>1, <1>3
<1> QED BY <1>2, <1>4, <1>5 DEF Grows, UpTo

LEMMA VisitGrows ==
  ASSUME LifeInv, NEW u \in Tables, NEW p \in Parts, NEW k \in Rows, Visit(u, p, k),
         NEW t \in Tables
  PROVE  Grows(t)
<1>1. src' = src /\ (tgt' = [tgt EXCEPT ![u][k] = src[u][k]] \/ tgt' = tgt)
  BY VisitFacts
<1>2. tgt \in [Tables -> [Rows -> 0..conf.until]]
  BY DEF LifeInv, TypeOK
<1>3. \A i \in Rows : tgt'[t][i] = tgt[t][i] \/ tgt'[t][i] = src[t][i]
  BY <1>1, <1>2
<1> QED BY <1>1, <1>3 DEF Grows, UpTo

LEMMA SoundGrows ==
  ASSUME LifeInv, NEW t \in Tables, Grows(t), NEW row \in TableRow, Timed(row, now),
         Sound(row, src[t], tgt[t])
  PROVE  Sound(row, src'[t], tgt'[t])
<1>1. conf.until \in Nat /\ row.began \in Nat /\ (row.last_sync # None => row.last_sync \in Nat)
  BY RowFields, ConfFacts DEF LifeInv, TypeOK
<1> QED BY <1>1 DEF Sound, Grows, Timed

LEMMA ClassStays ==
  ASSUME conf' = conf
  PROVE  /\ DbTrusted' <=> DbTrusted
         /\ CopyTrusted' <=> CopyTrusted
         /\ \A row, S, T : Sound(row, S, T)' <=> Sound(row, S, T)
<1>1. \A f : Can(f)' <=> Can(f)
  BY DEF Can
<1>2. Tables' = Tables /\ (CancelSafe' <=> CancelSafe)
  BY <1>1 DEF CancelSafe, Tables
<1>3. (DbTrusted' <=> DbTrusted) /\ (Trusted' <=> Trusted) /\ (Resumable' <=> Resumable)
  BY <1>1, <1>2 DEF DbTrusted, Trusted, UpsertsOnly, DropsRecorded, Resumable
<1> QED BY <1>2, <1>3 DEF CopyTrusted, Sound, UpTo

(* A new job filters by a watermark, so what came before it is copied.     *)
LEMMA FilterSound ==
  ASSUME TimeInv, CopyTrusted, NEW t \in Tables, CopyInv(t), phase # "idle",
         DateFilter(t) # None
  PROVE  UpTo(src[t], tgt[t], DateFilter(t))
<1>1. LifeInv /\ conf \in Confs
  BY DEF TimeInv, LifeInv, TypeOK
<1>2. Incremental /\ DateFilter(t) = LastSync(t)
  BY DEF DateFilter
<1>3. DbTrusted
  BY <1>1, <1>2 DEF Incremental, LifeInv, RunInv, CopyTrusted, Trusted
<1>4. PICK r \in RunIds : db[r][t] # None /\ db[r][t].last_sync = LastSync(t)
  BY <1>1, <1>2, LastSyncFacts DEF LifeInv, TypeOK
<1>5. Sound(db[r][t], src[t], tgt[t])
  BY <1>3, <1>4 DEF CopyInv
<1>6. PICK row : row = db[r][t]
  OBVIOUS
<1>7. UpTo(src[t], tgt[t], row.last_sync)
  BY <1>2, <1>4, <1>5, <1>6 DEF Sound
<1> QED BY <1>2, <1>4, <1>6, <1>7

LEMMA WorksCopy ==
  ASSUME TimeInv, LifeInv', Works, CopyTrusted, NEW t \in Tables, CopyInv(t), Grows(t),
         Sound(mem'[t], src'[t], tgt'[t]),
         phase' = "prepare" => phase = "prepare" /\ jobs'[t] = jobs[t],
         Busy(t)' => Covered(t)'
  PROVE  CopyInv(t)'
<1>1. /\ phase # "idle" /\ phase' # "idle" /\ Stores(mem') /\ RowWorks(t)
      /\ UNCHANGED <<conf, now, outcome>>
  BY DEF Works
<1>2. LifeInv /\ ClockInv(t) /\ conf \in Confs /\ now \in Nat /\ None \notin Int
      /\ RunIds' = RunIds /\ conf.until \in Nat
  BY <1>1, ConfFacts, ConfStays DEF TimeInv, LifeInv, TypeOK
<1>3. /\ DbTrusted' <=> DbTrusted
      /\ \A row, S, T : Sound(row, S, T)' <=> Sound(row, S, T)
  BY <1>1, ClassStays
<1>4. outcome' # "completed"
  BY <1>1, <1>2 DEF LifeInv, RunInv
<1>5. DbTrusted => \A r \in RunIds : db'[r][t] # None => Sound(db'[r][t], src'[t], tgt'[t])
  <2> SUFFICES ASSUME DbTrusted, NEW r \in RunIds, db'[r][t] # None
               PROVE  Sound(db'[r][t], src'[t], tgt'[t])
    OBVIOUS
  <2>1. PICK new : new = mem'[t]
    OBVIOUS
  <2>2. db'[r][t] = db[r][t] \/ db'[r][t] = new
    BY <1>1, <2>1 DEF Stores
  <2>3. CASE db'[r][t] = new
    BY <2>1, <2>3
  <2>4. CASE db'[r][t] = db[r][t]
    <3>1. PICK row \in TableRow : row = db[r][t]
      BY <1>2, <2>4 DEF LifeInv, TypeOK
    <3>2. Timed(row, now) /\ Sound(row, src[t], tgt[t])
      BY <1>2, <2>4, <3>1 DEF ClockInv, CopyInv
    <3>3. Sound(row, src'[t], tgt'[t])
      BY <1>2, <3>2, SoundGrows
    <3> QED BY <2>4, <3>1, <3>3
  <2> QED BY <2>2, <2>3, <2>4
<1>6. ASSUME NEW p \in Parts, jobs'[t][p].since # None
      PROVE  UpTo(src'[t], tgt'[t], jobs'[t][p].since)
  <2>1. PICK w : w = jobs'[t][p].since
    OBVIOUS
  <2>2. w \in Nat /\ w <= now /\ UpTo(src[t], tgt[t], w)
    <3>1. CASE w = jobs[t][p].since
      BY <1>2, <1>6, <2>1, <3>1 DEF ClockInv, CopyInv, LifeInv, TypeOK
    <3>2. CASE w = DateFilter(t)
      <4>1. w \in Nat /\ w <= now
        BY <1>6, <2>1, <3>2, FilterTimed
      <4>2. UpTo(src[t], tgt[t], DateFilter(t))
        BY <1>1, <1>6, <2>1, <3>2, FilterSound
      <4> QED BY <3>2, <4>1, <4>2
    <3> QED BY <1>1, <1>6, <2>1, <3>1, <3>2 DEF RowWorks
  <2> QED BY <2>1, <2>2 DEF Grows
<1>7. phase' \in {"idle", "prepare"} => \A p \in Parts : jobs'[t][p].since = None
  BY <1>1 DEF CopyInv
<1>8. Sound(mem'[t], src'[t], tgt'[t])
  OBVIOUS
<1>9. Sound(mem[t], src[t], tgt[t])'
  BY <1>1, <1>8, ClassStays DEF Sound, CancelSafe, Can, Tables, UpTo
<1>10. DbTrusted' => \A r \in RunIds' : db'[r][t] # None => Sound(db[r][t], src[t], tgt[t])'
  BY <1>1, <1>2, <1>3, <1>5, ClassStays DEF Sound, CancelSafe, Can, Tables, UpTo
<1> QED BY <1>4, <1>6, <1>7, <1>9, <1>10 DEF CopyInv

LEMMA KeptSound ==
  ASSUME TimeInv, NEW t \in Tables, CopyInv(t), Grows(t), mem'[t] = mem[t]
  PROVE  Sound(mem'[t], src'[t], tgt'[t])
<1>1. PICK row \in TableRow : row = mem[t]
  BY DEF TimeInv, LifeInv, TypeOK
<1>2. Timed(row, now) /\ Sound(row, src[t], tgt[t]) /\ LifeInv
  BY <1>1 DEF TimeInv, ClockInv, CopyInv
<1> QED BY <1>1, <1>2, SoundGrows

LEMMA QuietCopy ==
  ASSUME TimeInv, LifeInv', Works, CopyTrusted, NEW t \in Tables, CopyInv(t),
         src'[t] = src[t], tgt'[t] = tgt[t], mem'[t] = mem[t], t \in anyErr => t \in anyErr',
         \/ jobs'[t] = jobs[t]
         \/ jobs' = [v \in Tables |-> [p \in Parts |-> NoJob]] /\ phase' # "prepare",
         phase' = "prepare" => phase = "prepare"
  PROVE  CopyInv(t)'
<1>1. Grows(t)
  BY SameGrows
<1>2. Sound(mem'[t], src'[t], tgt'[t])
  BY <1>1, KeptSound
<1>3. Busy(t)' => Covered(t)'
  <2>1. CASE jobs'[t] = jobs[t]
    BY <2>1 DEF Busy, Covered, CopyInv
  <2>2. CASE jobs' = [v \in Tables |-> [p \in Parts |-> NoJob]]
    BY <2>2, NoJobs DEF Busy
  <2> QED BY <2>1, <2>2
<1> QED BY <1>1, <1>2, <1>3, WorksCopy

LEMMA SpawnCopy ==
  ASSUME TimeInv, LifeInv', NEW u \in Tables, Spawn(u), Works, CopyTrusted, NEW t \in Tables,
         PkInv(t), CopyInv(t)
  PROVE  CopyInv(t)'
<1>1. /\ phase = "spawn" /\ u \in pending
      /\ mem'[u].status = "in_progress" /\ mem'[u].last_pk = mem[u].last_pk
      /\ mem'[u].last_sync = mem[u].last_sync
      /\ \A v \in Tables \ {u} : mem'[v] = mem[v]
      /\ UNCHANGED <<src, tgt, anyErr>>
      /\ \/ /\ phase' = phase
            /\ \E split \in BOOLEAN :
                 jobs' = [jobs EXCEPT ![u] =
                    Spawned(u, split, IF split THEN None ELSE mem'[u].last_pk)]
         \/ GiveUp
  BY SpawnFacts DEF TimeInv
<1>2. LifeInv /\ Grows(t) /\ phase' # "prepare"
  BY <1>1, SameGrows DEF TimeInv, GiveUp
<1>3. CASE GiveUp
  <2>1. ~Busy(t)'
    BY <1>3, NoJobs DEF GiveUp, Busy
  <2>2. CASE t # u
    BY <1>1, <1>2, <1>3, <2>2, QuietCopy DEF GiveUp
  <2>3. CASE t = u
    <3>1. Sound(mem'[t], src'[t], tgt'[t])
      BY <1>1, <2>3 DEF CopyInv, Sound
    <3> QED BY <1>2, <2>1, <3>1, WorksCopy
  <2> QED BY <2>2, <2>3
<1>4. ASSUME NEW split \in BOOLEAN,
             jobs' = [jobs EXCEPT ![u] =
                Spawned(u, split, IF split THEN None ELSE mem'[u].last_pk)]
      PROVE  CopyInv(t)'
  <2>1. CASE t # u
    <3>1. PICK resume : resume = IF split THEN None ELSE mem'[u].last_pk
      OBVIOUS
    <3>2. jobs'[t] = jobs[t]
      BY <1>2, <1>4, <2>1, <3>1, SpawnedFacts
    <3> QED BY <1>1, <1>2, <2>1, <3>2, QuietCopy
  <2>2. CASE t = u
    <3>1. Sound(mem'[t], src'[t], tgt'[t])
      BY <1>1, <2>2 DEF CopyInv, Sound
    <3>2. (IF split THEN None ELSE mem'[u].last_pk) = None
      BY <1>1, <2>2 DEF PkInv
    <3>3. jobs' = [jobs EXCEPT ![u] = Spawned(u, split, None)]
      BY <1>4, <3>2
    <3>4. PICK d \in 0..conf.until \cup {None} : d = DateFilter(t)
      BY <1>2, FilterTyped
    <3>5. PICK none : none = None
      OBVIOUS
    <3>6. /\ split => /\ jobs'[t][1] = Job(1, d, none) /\ jobs'[t][2] = Job(2, d, none)
          /\ ~split => jobs'[t][0] = Job(0, d, none)
      BY <1>2, <2>2, <3>3, <3>4, <3>5, SpawnedFacts
    <3>7. \A p \in Parts : /\ Job(p, d, none).state = "running"
                           /\ Job(p, d, none).left = PartRows(p)
      BY <3>4, <3>5, NewJob
    <3>8. 0 \in Parts /\ 1 \in Parts /\ 2 \in Parts
      BY DEF Parts
    <3>9. \A k \in Rows : \E p \in Parts : jobs'[t][p].state # "none" /\ k \in jobs'[t][p].left
      <4> SUFFICES ASSUME NEW k \in Rows
                   PROVE  \E p \in Parts : jobs'[t][p].state # "none" /\ k \in jobs'[t][p].left
        OBVIOUS
      <4>1. PartRows(0) = Rows /\ (k \in PartRows(1) \/ k \in PartRows(2))
        <5>1. PartRows(0) = Rows
          BY DEF PartRows
        <5>2. PartRows(1) = {i \in Rows : i <= Mid} /\ PartRows(2) = {i \in Rows : i > Mid}
          BY DEF PartRows
        <5>3. k \in Nat /\ Mid \in Nat
          BY MigrationAssumption
        <5> QED BY <5>1, <5>2, <5>3
      <4>2. CASE split
        <5>1. k \in PartRows(1) => jobs'[t][1].state # "none" /\ k \in jobs'[t][1].left
          BY <3>6, <3>7, <3>8, <4>2
        <5>2. k \in PartRows(2) => jobs'[t][2].state # "none" /\ k \in jobs'[t][2].left
          BY <3>6, <3>7, <3>8, <4>2
        <5> QED BY <3>8, <4>1, <5>1, <5>2
      <4>3. CASE ~split
        BY <3>6, <3>7, <3>8, <4>1, <4>3
      <4> QED BY <4>2, <4>3
    <3>10. Covered(t)'
      BY <3>9 DEF Covered
    <3> QED BY <1>2, <3>1, <3>10, WorksCopy
  <2> QED BY <2>1, <2>2
<1> QED BY <1>1, <1>3, <1>4

(* When the last job of a table returns and none has failed, nothing is    *)
(* left of what changed before the jobs began.                             *)
LEMMA CollectCopy ==
  ASSUME TimeInv, LifeInv', NEW u \in Tables, NEW p \in Parts, Collect(u, p), Works,
         CopyTrusted, NEW t \in Tables, CopyInv(t)
  PROVE  CopyInv(t)'
<1>1. PICK ok \in BOOLEAN : ok = (jobs[u][p].state = "ok")
  OBVIOUS
<1>2. LifeInv
  BY DEF TimeInv
<1>3. /\ phase = "collect" /\ jobs[u][p].state \in {"ok", "err"}
      /\ UNCHANGED <<src, tgt>>
      /\ anyErr' = (IF ok THEN anyErr ELSE anyErr \cup {u})
      /\ \/ SetJob(u, p, NoJob) /\ UNCHANGED <<mem, phase>>
         \/ /\ p = 0 \/ collected[u] = 1
            /\ mem' \in [Tables -> TableRow] /\ (\A v \in Tables \ {u} : mem'[v] = mem[v])
            /\ mem'[u].began = mem[u].began
            /\ ok /\ u \notin anyErr =>
                 mem'[u].status = "completed" /\ mem'[u].last_sync = mem[u].began
            /\ ~(ok /\ u \notin anyErr) =>
                 mem'[u].status = "failed" /\ mem'[u].last_sync = mem[u].last_sync
            /\ \/ SetJob(u, p, NoJob) /\ UNCHANGED phase
               \/ GiveUp
  BY <1>1, <1>2, CollectFacts
<1>4. Grows(t) /\ phase' # "prepare" /\ (t \in anyErr => t \in anyErr')
  BY <1>3, SameGrows DEF GiveUp
<1>5. \/ SetJob(u, p, NoJob)
      \/ jobs' = [v \in Tables |-> [q \in Parts |-> NoJob]]
  BY <1>3 DEF GiveUp
<1>6. ASSUME SetJob(u, p, NoJob)
      PROVE  /\ jobs'[u][p] = NoJob /\ jobs'[u][p].state = "none"
             /\ \A q \in Parts \ {p} : jobs'[u][q] = jobs[u][q]
             /\ \A v \in Tables \ {u} : jobs'[v] = jobs[v]
  <2>1. jobs \in [Tables -> [Parts -> JobRow]]
    BY <1>2 DEF LifeInv, TypeOK, JobRow
  <2> QED BY <1>6, <2>1, JobGone
<1>7. CASE t # u
  <2>1. mem'[t] = mem[t]
    BY <1>3, <1>7
  <2> QED BY <1>3, <1>4, <1>5, <1>6, <1>7, <2>1, QuietCopy
<1>8. CASE t = u
  <2>1. Busy(t) /\ Covered(t)
    BY <1>3, <1>8 DEF Busy, CopyInv
(* What the job still had before it when it returned.                      *)
  <2>2. jobs[t][p].state = "ok" =>
          \/ jobs[t][p].left = {} \/ t \in anyErr
          \/ \E q \in Parts \ {p} : jobs[t][q].state = "err"
    BY <1>2, <1>3 DEF LifeInv, LoopInv, TokenInv, Loops
  <2>3. Busy(t)' => Covered(t)'
    <3> SUFFICES ASSUME Busy(t)', NEW k \in Rows, src'[t][k] \in 1..mem'[t].began
                 PROVE  \/ tgt'[t][k] = src'[t][k]
                        \/ t \in anyErr'
                        \/ \E q \in Parts : jobs'[t][q].state = "err"
                        \/ \E q \in Parts : jobs'[t][q].state # "none" /\ k \in jobs'[t][q].left
      BY DEF Covered
    <3>1. SetJob(u, p, NoJob)
      BY <1>5, NoJobs DEF Busy
    <3>2. mem'[t].began = mem[t].began
      BY <1>3, <1>8
    <3>3. \/ tgt[t][k] = src[t][k]
          \/ t \in anyErr
          \/ \E q \in Parts : jobs[t][q].state = "err"
          \/ \E q \in Parts : jobs[t][q].state # "none" /\ k \in jobs[t][q].left
      BY <1>3, <2>1, <3>2 DEF Covered
    <3>4. jobs[t][p].state = "err" => t \in anyErr'
      BY <1>1, <1>3, <1>8
    <3>5. (\E q \in Parts : jobs[t][q].state = "err") =>
             t \in anyErr' \/ \E q \in Parts : jobs'[t][q].state = "err"
      BY <1>6, <1>8, <3>1, <3>4
    <3> QED BY <1>3, <1>4, <1>6, <1>8, <2>2, <3>1, <3>3, <3>4, <3>5
  <2>4. Sound(mem'[t], src'[t], tgt'[t])
    <3>1. CASE mem'[t] = mem[t]
      BY <1>4, <3>1, KeptSound
    <3>2. CASE ~(ok /\ u \notin anyErr) /\ mem'[t] # mem[t]
      <4>1. mem'[t].status = "failed" /\ mem'[t].last_sync = mem[t].last_sync
        BY <1>3, <1>8, <3>2
      <4> QED BY <1>3, <4>1 DEF CopyInv, Sound
    <3>3. CASE ok /\ u \notin anyErr /\ mem'[t] # mem[t]
      <4>1. /\ mem'[t].began = mem[t].began /\ mem'[t].last_sync = mem[t].began
            /\ p = 0 \/ collected[t] = 1
        BY <1>3, <1>8, <3>3
      <4>2. \A q \in Parts \ {p} : jobs[t][q].state = "none"
        BY <1>2, <1>3, <1>8, <4>1, LastJob
      <4>3. jobs[t][p].state = "ok" /\ jobs[t][p].left = {}
        BY <1>1, <1>8, <2>2, <3>3, <4>2
      <4>4. UpTo(src[t], tgt[t], mem[t].began)
        BY <1>8, <2>1, <3>3, <4>2, <4>3 DEF Covered, UpTo
      <4> QED BY <1>3, <4>1, <4>4 DEF Sound
    <3> QED BY <3>1, <3>2, <3>3
  <2> QED BY <1>4, <2>3, <2>4, WorksCopy
<1> QED BY <1>7, <1>8

LEMMA SettleCopy ==
  ASSUME TimeInv, LifeInv', SettleTables, Works, CopyTrusted, NEW t \in Tables, CopyInv(t)
  PROVE  CopyInv(t)'
<1>1. PICK m : m = [u \in Tables |-> Final(u)]
  OBVIOUS
<1>2. /\ phase = "settle" /\ phase' # "prepare" /\ mem' = m
      /\ UNCHANGED <<src, tgt, jobs, anyErr>>
  BY <1>1 DEF SettleTables, tasks, results
<1>3. mem'[t] = Final(t)
  BY <1>1, <1>2
<1>4. LifeInv /\ Grows(t)
  BY <1>2, SameGrows DEF TimeInv
<1>5. ~Busy(t)'
  <2>1. ~Busy(t)
    BY <1>2, <1>4 DEF LifeInv, LoopInv, JobsInv, Loops
  <2> QED BY <1>2, <2>1 DEF Busy
<1>6. CancelSafe /\ mem'[t].status = "completed" => mem[t].status = "completed"
  <2> SUFFICES ASSUME CancelSafe, mem'[t].status = "completed", mem[t].status # "completed"
               PROVE  FALSE
    OBVIOUS
  <2>1. t \in anyOk \ anyErr
    BY <1>3, <1>4, FinalRow
  <2>2. collected[t] = 1 /\ cancel
    BY <1>2, <1>4, <2>1 DEF LifeInv, LoopInv, ResultInv
  <2> QED BY <1>4, <2>2 DEF LifeInv, LoopInv, JobsInv, RunInv, CancelSafe
<1>7. mem'[t].last_sync = mem[t].last_sync /\ mem'[t].began = mem[t].began
  BY <1>3, <1>4, FinalRow
<1>8. Sound(mem'[t], src'[t], tgt'[t])
  BY <1>2, <1>6, <1>7 DEF CopyInv, Sound
<1> QED BY <1>2, <1>4, <1>5, <1>8, WorksCopy

(* A row a job passes over is copied, not there, or older than the filter. *)
LEMMA VisitCopy ==
  ASSUME TimeInv, LifeInv', NEW u \in Tables, NEW p \in Parts, NEW k \in Rows, Visit(u, p, k),
         Works, CopyTrusted, NEW t \in Tables, CopyInv(t)
  PROVE  CopyInv(t)'
<1>0. LifeInv
  BY DEF TimeInv
<1>1. LifeInv /\ src \in [Tables -> [Rows -> 0..conf.until]] /\ conf.until \in Nat
      /\ tgt \in [Tables -> [Rows -> 0..conf.until]]
      /\ jobs \in [Tables -> [Parts -> JobRow]] /\ None \notin Int
  BY ConfFacts DEF TimeInv, LifeInv, TypeOK, JobRow
<1>2. /\ UNCHANGED <<src, phase, mem, anyErr>>
      /\ jobs[u][p].state = "running"
      /\ \/ tgt' = [tgt EXCEPT ![u][k] = src[u][k]]
         \/ /\ tgt' = tgt
            /\ ~(src[u][k] # 0 /\ (jobs[u][p].since = None \/ src[u][k] > jobs[u][p].since))
  BY <1>1, VisitFacts
<1>3. PICK j \in JobRow : /\ SetJob(u, p, j)
                          /\ j.state = jobs[u][p].state /\ j.since = jobs[u][p].since
                          /\ j.left = jobs[u][p].left \ {k}
  BY <1>0, VisitFacts
<1>4. /\ jobs'[u][p] = j /\ \A q \in Parts \ {p} : jobs'[u][q] = jobs[u][q]
      /\ \A v \in Tables \ {u} : jobs'[v] = jobs[v]
  BY <1>1, <1>3, OneJob
<1>5. Grows(t) /\ Sound(mem'[t], src'[t], tgt'[t])
  BY <1>1, <1>2, VisitGrows, KeptSound
<1>6. CASE t # u
  <2>1. tgt'[t] = tgt[t] /\ jobs'[t] = jobs[t]
    BY <1>1, <1>2, <1>4, <1>6
  <2> QED BY <1>2, <1>6, <2>1, QuietCopy
<1>7. CASE t = u
  <2>1. Busy(t) /\ Covered(t) /\ phase # "prepare"
    BY <1>1, <1>2, <1>7 DEF Busy, CopyInv, LifeInv, LoopInv, JobsInv, Loops
  <2>2. \A i \in Rows : tgt[t][i] = src[t][i] => tgt'[t][i] = src[t][i]
    BY <1>1, <1>2, <1>7
  <2>3. src[t][k] # 0 => tgt'[t][k] = src[t][k]
    <3> SUFFICES ASSUME src[t][k] # 0, tgt' = tgt
                 PROVE  tgt[t][k] = src[t][k]
      BY <1>1, <1>2, <1>7
    <3>1. \/ jobs[t][p].since # None /\ ~(src[t][k] > jobs[t][p].since)
          \/ tgt[t][k] = src[t][k]
      BY <1>1, <1>2, <1>7
    <3>2. ASSUME jobs[t][p].since # None, ~(src[t][k] > jobs[t][p].since)
          PROVE  tgt[t][k] = src[t][k]
      <4>1. PICK w : w = jobs[t][p].since
        OBVIOUS
      <4>2. w \in Nat /\ UpTo(src[t], tgt[t], w)
        BY <1>1, <3>2, <4>1 DEF CopyInv, LifeInv, TypeOK
      <4>3. src[t][k] \in 1..w
        BY <1>1, <3>2, <4>1, <4>2
      <4> QED BY <4>2, <4>3 DEF UpTo
    <3> QED BY <3>1, <3>2
  <2>4. Covered(t)'
    <3> SUFFICES ASSUME NEW i \in Rows, src'[t][i] \in 1..mem'[t].began
                 PROVE  \/ tgt'[t][i] = src'[t][i]
                        \/ t \in anyErr'
                        \/ \E q \in Parts : jobs'[t][q].state = "err"
                        \/ \E q \in Parts : jobs'[t][q].state # "none" /\ i \in jobs'[t][q].left
      BY DEF Covered
    <3>1. \/ tgt[t][i] = src[t][i]
          \/ t \in anyErr
          \/ \E q \in Parts : jobs[t][q].state = "err"
          \/ \E q \in Parts : jobs[t][q].state # "none" /\ i \in jobs[t][q].left
      BY <1>2, <2>1 DEF Covered
    <3>2. CASE i = k
      BY <1>1, <1>2, <2>3, <3>2
    <3>3. CASE i # k
      <4>1. \A q \in Parts : /\ jobs'[t][q].state = jobs[t][q].state
                             /\ i \in jobs[t][q].left => i \in jobs'[t][q].left
        BY <1>3, <1>4, <1>7, <3>3
      <4> QED BY <1>2, <2>2, <3>1, <4>1
    <3> QED BY <3>2, <3>3
  <2> QED BY <1>2, <1>5, <2>1, <2>4, WorksCopy
<1> QED BY <1>6, <1>7

LEMMA JobStepCopy ==
  ASSUME TimeInv, LifeInv', NEW u \in Tables, NEW p \in Parts, JobStep(u, p), Works,
         CopyTrusted, NEW t \in Tables, CopyInv(t)
  PROVE  CopyInv(t)'
<1>1. CASE \E k \in Rows : Visit(u, p, k)
  BY <1>1, VisitCopy
<1>2. ASSUME NEW s \in {"ok", "err"}, SetJob(u, p, [jobs[u][p] EXCEPT !.state = s]),
             jobs[u][p].state = "running", UNCHANGED <<src, tgt, phase, mem, anyErr>>
      PROVE  CopyInv(t)'
  <2>1. LifeInv /\ jobs \in [Tables -> [Parts -> JobRow]]
    BY DEF TimeInv, LifeInv, TypeOK, JobRow
  <2>2. PICK j \in JobRow : /\ SetJob(u, p, j) /\ j.state = s
                            /\ j.left = jobs[u][p].left /\ j.since = jobs[u][p].since
    BY <1>2, <2>1, JobEnds
  <2>3. /\ jobs'[u][p] = j /\ \A q \in Parts \ {p} : jobs'[u][q] = jobs[u][q]
        /\ \A v \in Tables \ {u} : jobs'[v] = jobs[v]
    BY <2>1, <2>2, OneJob
  <2>4. Grows(t)
    BY <1>2, SameGrows
  <2>5. Sound(mem'[t], src'[t], tgt'[t])
    BY <1>2, <2>4, KeptSound
  <2>6. CASE t # u
    BY <1>2, <2>3, <2>6, QuietCopy
  <2>7. CASE t = u
    <3>1. Covered(t) /\ phase # "prepare"
      BY <1>2, <2>1, <2>7 DEF Busy, CopyInv, LifeInv, LoopInv, JobsInv, Loops
    <3>2. \A q \in Parts : /\ jobs[t][q].state = "err" => jobs'[t][q].state = "err"
                           /\ jobs[t][q].state # "none" => jobs'[t][q].state # "none"
                           /\ jobs'[t][q].left = jobs[t][q].left
      BY <1>2, <2>2, <2>3, <2>7
    <3>3. Covered(t)'
      BY <1>2, <3>1, <3>2 DEF Covered
    <3> QED BY <1>2, <2>4, <2>5, <3>1, <3>3, WorksCopy
  <2> QED BY <2>6, <2>7
<1>3. CASE JobOk(u, p)
  <2>1. "ok" \in {"ok", "err"}
    OBVIOUS
  <2> QED BY <1>2, <1>3, <2>1 DEF JobOk, jobFrame, results
<1>4. CASE JobErr(u, p)
  <2>1. "err" \in {"ok", "err"}
    OBVIOUS
  <2> QED BY <1>2, <1>4, <2>1 DEF JobErr, jobFrame, results
<1> QED BY <1>1, <1>3, <1>4 DEF JobStep

(* Dropping the tables is sound if what is stored of them goes with them.  *)
LEMMA PrepareCopy ==
  ASSUME TimeInv, LifeInv', Prepare, Works, CopyTrusted, NEW t \in Tables, PkInv(t), CopyInv(t)
  PROVE  CopyInv(t)'
<1>1. /\ phase = "prepare" /\ phase' = "spawn" /\ Save(mem)
      /\ tgt' = (IF mode = "drop_recreate" THEN Emptied(Tables) ELSE tgt)
      /\ UNCHANGED <<conf, src, mem, jobs, anyErr, outcome>>
  BY DEF Prepare, Works, Leave, tasks, results
<1>2. CASE mode # "drop_recreate"
  BY <1>1, <1>2, QuietCopy
<1>3. CASE mode = "drop_recreate"
  <2>1. LifeInv /\ mem \in [Tables -> TableRow] /\ RunIds' = RunIds /\ mode \in conf.modes
    BY <1>1, ConfStays DEF TimeInv, LifeInv, TypeOK, RunInv
  <2>2. mem[t] = NewTable
    BY <1>1, <1>3 DEF PkInv
  <2>3. ASSUME DbTrusted, NEW r \in RunIds, db'[r][t] # None
        PROVE  db'[r][t] = NewTable
    <3>1. DropsRecorded
      BY <1>3, <2>1, <2>3 DEF DbTrusted, UpsertsOnly
    <3>2. run = 1 /\ (r > 1 => db[r][t] = None) /\ (r = 1 \/ r > 1)
      BY <2>1, <3>1 DEF LifeInv, RunInv, DropsRecorded, RunIds
    <3>3. db'[run] = mem /\ Stores(mem)
      BY <1>1, <2>1, SaveStores DEF LifeInv
    <3> QED BY <2>2, <2>3, <3>2, <3>3 DEF Stores
  <2>4. outcome' # "completed" /\ ~Busy(t)'
    <3>1. outcome # "completed" /\ ~Busy(t)
      BY <1>1, <2>1 DEF LifeInv, RunInv, LoopInv, JobsInv, Loops
    <3> QED BY <1>1, <3>1 DEF Busy
  <2>5. \A p \in Parts : jobs'[t][p].since = None
    BY <1>1 DEF CopyInv
  <2>6. \A row, S, T : Sound(row, S, T)' <=> Sound(row, S, T)
    BY <1>1, ClassStays
  <2>7. Sound(mem[t], src[t], tgt[t])'
    BY <1>1, <2>2 DEF Sound, NewTable
  <2>8. DbTrusted' => \A r \in RunIds' : db'[r][t] # None => Sound(db[r][t], src[t], tgt[t])'
    <3>1. DbTrusted' <=> DbTrusted
      BY <1>1, ClassStays
    <3> QED BY <2>1, <2>3, <3>1 DEF Sound, NewTable
  <2> QED BY <1>1, <2>4, <2>5, <2>7, <2>8 DEF CopyInv
<1> QED BY <1>2, <1>3

LEMMA MaxOfOne ==
  ASSUME NEW n \in Nat
  PROVE  Max({1, n}) = IF n >= 1 THEN n ELSE 1
<1>1. PICK S : S = {1, n}
  OBVIOUS
<1>2. IsFiniteSet(S) /\ S \subseteq Int /\ S # {}
  <2>1. IsFiniteSet(0..(n + 1))
    BY FS_Interval
  <2>2. S \in SUBSET (0..(n + 1))
    BY <1>1
  <2> QED BY <1>1, <2>1, <2>2, FS_Subset
<1>3. Max(S) \in S /\ \A y \in S : Max(S) >= y
  BY <1>2, MaxIsGreatest
<1>4. PICK m : m = Max(S)
  OBVIOUS
<1>5. m = IF n >= 1 THEN n ELSE 1
  BY <1>1, <1>3, <1>4
<1> QED BY <1>1, <1>4, <1>5

LEMMA LastRowFacts ==
  ASSUME LifeInv, NEW t \in Tables, LastRow(t) # None
  PROVE  /\ Max({1, LatestRun}) \in RunIds /\ LastRow(t) \in TableRow
         /\ \E r \in RunIds : LastRow(t) = db[r][t]
<1>1. conf \in Confs /\ db \in [RunIds -> [Tables -> TableRow \cup {None}]]
  BY DEF LifeInv, TypeOK
<1>2. conf.runs \in Nat \ {0} /\ RunIds = 1..conf.runs
  BY <1>1, ConfFacts DEF RunIds
<1>3. PICK L : L = LatestRun
  OBVIOUS
<1>4. L \in 0..conf.runs
  BY <1>1, <1>3, LatestFacts
<1>5. PICK m : m = Max({1, L})
  OBVIOUS
<1>6. m \in RunIds
  BY <1>2, <1>4, <1>5, MaxOfOne
<1>7. LastRow(t) = db[m][t]
  BY <1>3, <1>5 DEF LastRow
<1> QED BY <1>1, <1>3, <1>5, <1>6, <1>7

LEMMA LastRowStays ==
  ASSUME UNCHANGED <<conf, db>>, NEW t
  PROVE  LastRow(t)' = LastRow(t)
BY DEF LastRow, LatestRun, RunIds, Stored, Tables

LEMMA LeavesCopy ==
  ASSUME TimeInv, Leaves, CopyTrusted, NEW t \in Tables, CopyInv(t)
  PROVE  CopyInv(t)'
<1>1. /\ phase # "idle" /\ Leave /\ Stores(mem) /\ UNCHANGED <<conf, src>>
      /\ \/ tgt' = tgt
         \/ /\ phase = "prepare" /\ mode = "drop_recreate"
            /\ Can("prepare") \/ Can("crash") \/ Can("state")
      /\ outcome' = "completed" => Save(mem) /\ tgt' = tgt
  BY DEF Leaves
<1>2. LifeInv /\ mem \in [Tables -> TableRow] /\ RunIds' = RunIds /\ Tables' = Tables
  BY <1>1, ConfStays DEF TimeInv, LifeInv, TypeOK
<1>3. /\ mem' = [u \in Tables |-> NewTable]
      /\ jobs' = [u \in Tables |-> [p \in Parts |-> NoJob]]
  BY <1>1 DEF Leave
<1>4. ~Busy(t)' /\ \A p \in Parts : jobs'[t][p].since = None
  BY <1>3, NoJobs, NoSince DEF Busy
<1>5. (DbTrusted' <=> DbTrusted) /\ (CancelSafe' <=> CancelSafe)
  BY <1>1, ClassStays DEF CancelSafe, Can, Tables
<1>6. Sound(mem[t], src[t], tgt[t])'
  BY <1>3 DEF Sound, NewTable
<1>7. DbTrusted => tgt' = tgt
  BY <1>1, <1>2 DEF DbTrusted, UpsertsOnly, DropsRecorded, LifeInv, RunInv
<1>8. DbTrusted' => \A r \in RunIds' : db'[r][t] # None => Sound(db[r][t], src[t], tgt[t])'
  <2> SUFFICES ASSUME DbTrusted, NEW r \in RunIds, db'[r][t] # None
               PROVE  Sound(db[r][t], src[t], tgt[t])'
    BY <1>2, <1>5
  <2>1. PICK row : row = db'[r][t]
    OBVIOUS
  <2>2. row = db[r][t] \/ row = mem[t]
    BY <1>1, <2>1 DEF Stores
  <2>3. Sound(row, src[t], tgt[t])
    BY <2>1, <2>2 DEF CopyInv
  <2> QED BY <1>1, <1>5, <1>7, <2>1, <2>3 DEF Sound, UpTo
<1>9. outcome' = "completed" => LastRow(t)' = mem[t]
  <2> SUFFICES ASSUME outcome' = "completed"
               PROVE  LastRow(t)' = mem[t]
    OBVIOUS
  <2>1. Save(mem) /\ LatestRun' = run /\ db'[run] = mem
    BY <1>1, <1>2, LatestSaved, SaveStores DEF LifeInv
  <2>2. run \in Nat /\ run >= 1
    BY <1>2, ConfFacts DEF LifeInv, TypeOK, RunIds
  <2>3. Max({1, run}) = run
    BY <2>2, MaxOfOne
  <2> QED BY <2>1, <2>3 DEF LastRow
<1>10. outcome' = "completed" => Sound(LastRow(t), src[t], tgt[t])'
  <2> SUFFICES ASSUME outcome' = "completed"
               PROVE  Sound(LastRow(t), src[t], tgt[t])'
    OBVIOUS
  <2>1. PICK row : row = mem[t]
    OBVIOUS
  <2>2. Sound(row, src[t], tgt[t]) /\ LastRow(t)' = row
    BY <1>9, <2>1 DEF CopyInv
  <2> QED BY <1>1, <1>5, <2>2 DEF Sound, UpTo
<1> QED BY <1>4, <1>6, <1>8, <1>10 DEF CopyInv

LEMMA StartCopy ==
  ASSUME TimeInv, LifeInv', NEW m \in conf.modes, NEW resume \in BOOLEAN, Start(m, resume),
         CopyTrusted, NEW t \in Tables, CopyInv(t)
  PROVE  CopyInv(t)'
<1>1. /\ phase = "idle" /\ phase' = "prepare" /\ outcome' = "none"
      /\ UNCHANGED <<conf, src, tgt, db, jobs>>
  BY DEF Start, durable, tasks
<1>2. LifeInv /\ RunIds' = RunIds /\ run' \in RunIds
  BY <1>1, ConfStays DEF TimeInv, LifeInv, TypeOK
<1>3. (DbTrusted' <=> DbTrusted) /\ (CancelSafe' <=> CancelSafe)
  BY <1>1, ClassStays DEF CancelSafe, Can, Tables
<1>4. ~Busy(t)'
  <2>1. ~Busy(t)
    BY <1>1, <1>2 DEF LifeInv, LoopInv, JobsInv, Loops
  <2> QED BY <1>1, <2>1 DEF Busy
<1>5. Sound(mem'[t], src[t], tgt[t])
  <2>1. /\ mem'[t] = NewTable \/ (mem'[t] = db[run'][t] /\ db[run'][t] # None)
        /\ m = "drop_recreate" => mem'[t] = NewTable
    BY <1>2, StartFacts
  <2>2. CASE m = "drop_recreate"
    BY <2>1, <2>2, NewSound
  <2>3. CASE m # "drop_recreate"
    <3>1. "upsert" \in conf.modes
      BY <1>2, <2>3, ConfFacts DEF LifeInv, TypeOK
    <3>2. DbTrusted
      BY <3>1 DEF CopyTrusted, Trusted
    <3> QED BY <1>2, <2>1, <3>2, NewSound DEF CopyInv
  <2> QED BY <2>2, <2>3
<1>6. Sound(mem[t], src[t], tgt[t])'
  BY <1>1, <1>3, <1>5 DEF Sound, UpTo
<1>7. DbTrusted' => \A r \in RunIds' : db'[r][t] # None => Sound(db[r][t], src[t], tgt[t])'
  BY <1>1, <1>2, <1>3 DEF CopyInv, Sound, UpTo
<1> QED BY <1>1, <1>4, <1>6, <1>7 DEF CopyInv

LEMMA ChangeCopy ==
  ASSUME TimeInv, NEW u \in Tables, NEW k \in Rows, Change(u, k), CopyTrusted, NEW t \in Tables,
         CopyInv(t)
  PROVE  CopyInv(t)'
<1>1. /\ now' = now + 1 /\ src' = [src EXCEPT ![u][k] = now + 1]
      /\ UNCHANGED <<conf, tgt, db, phase, mem, jobs, anyErr, outcome>>
  BY DEF Change, tasks, results
<1>2. LifeInv /\ ClockInv(t) /\ conf \in Confs /\ now \in Nat /\ None \notin Int
      /\ RunIds' = RunIds /\ conf.until \in Nat
      /\ src \in [Tables -> [Rows -> 0..conf.until]]
  BY <1>1, ConfFacts, ConfStays DEF TimeInv, LifeInv, TypeOK
<1>3. Grows(t)
  BY <1>2, ChangeGrows
<1>4. (DbTrusted' <=> DbTrusted) /\ (CancelSafe' <=> CancelSafe)
  BY <1>1, ClassStays DEF CancelSafe, Can, Tables
<1>5. Sound(mem[t], src[t], tgt[t])'
  <2>1. Sound(mem'[t], src'[t], tgt'[t])
    BY <1>1, <1>3, KeptSound
  <2> QED BY <1>4, <2>1 DEF Sound, UpTo
<1>6. DbTrusted' => \A r \in RunIds' : db'[r][t] # None => Sound(db[r][t], src[t], tgt[t])'
  <2> SUFFICES ASSUME DbTrusted, NEW r \in RunIds, db[r][t] # None
               PROVE  Sound(db[r][t], src[t], tgt[t])'
    BY <1>1, <1>2, <1>4
  <2>1. PICK row \in TableRow : row = db[r][t]
    BY <1>2 DEF LifeInv, TypeOK
  <2>2. Timed(row, now) /\ Sound(row, src[t], tgt[t])
    BY <2>1 , <1>2 DEF ClockInv, CopyInv
  <2>3. Sound(row, src'[t], tgt'[t])
    BY <1>2, <1>3, <2>2, SoundGrows
  <2> QED BY <1>1, <1>4, <2>1, <2>3 DEF Sound, UpTo
<1>7. outcome' = "completed" /\ LastRow(t)' # None => Sound(LastRow(t), src[t], tgt[t])'
  <2> SUFFICES ASSUME outcome = "completed", LastRow(t) # None
               PROVE  Sound(LastRow(t), src[t], tgt[t])'
    BY <1>1, LastRowStays
  <2>1. PICK row \in TableRow : row = LastRow(t)
    BY <1>2, LastRowFacts
  <2>2. Timed(row, now)
    BY <1>2, <2>1, LastRowFacts DEF ClockInv
  <2>3. Sound(row, src'[t], tgt'[t])
    BY <1>2, <1>3, <2>1, <2>2, SoundGrows DEF CopyInv
  <2>4. LastRow(t)' = row
    BY <1>1, <2>1, LastRowStays
  <2> QED BY <1>4, <2>3, <2>4 DEF Sound, UpTo
<1>8. \A p \in Parts : jobs'[t][p].since # None => UpTo(src'[t], tgt'[t], jobs'[t][p].since)
  <2> SUFFICES ASSUME NEW p \in Parts, jobs[t][p].since # None
               PROVE  UpTo(src'[t], tgt'[t], jobs[t][p].since)
    BY <1>1
  <2>1. PICK w : w = jobs[t][p].since
    OBVIOUS
  <2>2. w \in Nat /\ w <= now /\ UpTo(src[t], tgt[t], w)
    BY <1>2, <2>1 DEF ClockInv, CopyInv, LifeInv, TypeOK
  <2> QED BY <1>3, <2>1, <2>2 DEF Grows
<1>9. Busy(t)' => Covered(t)'
  <2> SUFFICES ASSUME Busy(t) PROVE Covered(t)'
    BY <1>1 DEF Busy
  <2>1. mem[t].began \in Nat /\ mem[t].began <= now
    BY <1>2, RowFields DEF ClockInv, Timed, LifeInv, TypeOK
  <2>2. PICK n : n = now + 1
    OBVIOUS
  <2>3. \A i \in Rows : src'[t][i] = src[t][i] \/ src'[t][i] = n
    BY <1>1, <1>2, <2>2
  <2>4. \A i \in Rows : src'[t][i] \in 1..mem[t].began => src'[t][i] = src[t][i]
    BY <1>2, <2>1, <2>2, <2>3
  <2> QED BY <1>1, <2>4 DEF Covered, CopyInv
<1> QED BY <1>1, <1>5, <1>6, <1>7, <1>8, <1>9 DEF CopyInv

LEMMA WorksCases ==
  ASSUME LifeInv, [Next]_vars, Works
  PROVE  \/ \E u \in Tables : Spawn(u)
         \/ \E u \in Tables, p \in Parts : Collect(u, p)
         \/ \E u \in Tables, p \in Parts : JobStep(u, p)
         \/ Prepare
         \/ SettleTables
         \/ /\ mem' = mem /\ (pending' = {} \/ pending' = pending)
            /\ UNCHANGED <<src, tgt, anyErr>>
            /\ phase' = "prepare" => phase = "prepare"
            /\ \/ jobs' = jobs
               \/ /\ jobs' = [u \in Tables |-> [p \in Parts |-> NoJob]]
                  /\ phase' # "prepare"
<1>1. CASE \/ StopSpawning \/ AllCollected \/ Finalize \/ Cancel \/ CollectCancelled
           \/ \E u \in Tables : LastSyncFails(u)
  BY <1>1 DEF StopSpawning, AllCollected, Finalize, Cancel, CollectCancelled, LastSyncFails,
              GiveUp, tasks, results, durable
<1>2. ~(PrepareFails \/ FinalizeFails \/ Close \/ Crash)
  BY DEF Works, PrepareFails, FinalizeFails, Close, Crash, Leave
<1>3. ~\E u \in Tables, k \in Rows : Change(u, k)
  <2>1. now' = now /\ now \in Nat
    BY ConfFacts DEF Works, LifeInv, TypeOK
  <2> QED BY <2>1 DEF Change
<1>4. CASE Done \/ UNCHANGED vars
  BY <1>4 DEF Done, vars, durable, tasks, results
<1>5. ~\E m \in conf.modes : Start(m, TRUE) \/ (conf.fresh /\ Start(m, FALSE))
  BY DEF Works, Start
<1> QED BY <1>1, <1>2, <1>3, <1>4, <1>5 DEF Next, Orchestrate

LEMMA NextSound == SoundInv /\ [Next]_vars => SoundInv'
<1> SUFFICES ASSUME SoundInv, [Next]_vars
             PROVE  SoundInv'
  OBVIOUS
<1>1. TimeInv /\ ResumeInv /\ LifeInv
  BY DEF SoundInv, TimeInv
<1>2. TimeInv' /\ ResumeInv' /\ LifeInv'
  BY <1>1, NextTime, NextResume, NextLife
<1>3. conf' = conf
  BY <1>1, StepKinds DEF Change, Start, Works, Leaves, vars, durable
<1>4. Tables' = Tables /\ (CopyTrusted' <=> CopyTrusted)
  BY <1>3, ClassStays DEF Tables
<1>5. ASSUME CopyTrusted, NEW t \in Tables
      PROVE  CopyInv(t)'
  <2>0. CopyInv(t) /\ PkInv(t)
    BY <1>1, <1>5 DEF SoundInv, ResumeInv, CopyTrusted
  <2>1. CASE \E u \in Tables, k \in Rows : Change(u, k)
    BY <1>1, <1>5, <2>0, <2>1, ChangeCopy
  <2>2. CASE \E m \in conf.modes, resume \in BOOLEAN :
               Start(m, resume) /\ (conf.fresh \/ resume)
    BY <1>1, <1>2, <1>5, <2>0, <2>2, StartCopy
  <2>3. CASE Works
    <3>1. CASE \E u \in Tables : Spawn(u)
      BY <1>1, <1>2, <1>5, <2>0, <2>3, <3>1, SpawnCopy
    <3>2. CASE \E u \in Tables, p \in Parts : Collect(u, p)
      BY <1>1, <1>2, <1>5, <2>0, <2>3, <3>2, CollectCopy
    <3>3. CASE \E u \in Tables, p \in Parts : JobStep(u, p)
      BY <1>1, <1>2, <1>5, <2>0, <2>3, <3>3, JobStepCopy
    <3>4. CASE Prepare
      BY <1>1, <1>2, <1>5, <2>0, <2>3, <3>4, PrepareCopy
    <3>5. CASE SettleTables
      BY <1>1, <1>2, <1>5, <2>0, <2>3, <3>5, SettleCopy
    <3>6. CASE /\ mem' = mem
               /\ UNCHANGED <<src, tgt, anyErr>>
               /\ phase' = "prepare" => phase = "prepare"
               /\ \/ jobs' = jobs
                  \/ /\ jobs' = [u \in Tables |-> [p \in Parts |-> NoJob]]
                     /\ phase' # "prepare"
      BY <1>1, <1>2, <1>5, <2>0, <2>3, <3>6, QuietCopy
    <3> QED BY <1>1, <2>3, <3>1, <3>2, <3>3, <3>4, <3>5, <3>6, WorksCases
  <2>4. CASE Leaves
    BY <1>1, <1>5, <2>0, <2>4, LeavesCopy
  <2>5. CASE UNCHANGED vars
    <3>1. UNCHANGED <<conf, now, src, tgt, db, phase, mem, jobs, anyErr, outcome>>
          /\ RunIds' = RunIds /\ (Busy(t)' <=> Busy(t))
      BY <2>5 DEF vars, durable, tasks, results, RunIds, Busy
    <3>2. LastRow(t)' = LastRow(t)
      BY <3>1, LastRowStays
    <3>3. (DbTrusted' <=> DbTrusted) /\ (CancelSafe' <=> CancelSafe)
      BY <3>1, ClassStays DEF CancelSafe, Can, Tables
    <3> QED BY <2>0, <3>1, <3>2, <3>3 DEF CopyInv, Covered, Sound, UpTo
  <2> QED BY <1>1, <2>1, <2>2, <2>3, <2>4, <2>5, StepKinds
<1> QED BY <1>2, <1>4, <1>5 DEF SoundInv

LEMMA InitSound == Init => SoundInv
<1> SUFFICES ASSUME Init PROVE SoundInv
  OBVIOUS
<1>1. TimeInv /\ ResumeInv
  BY InitTime, InitResume
<1>2. ASSUME NEW t \in Tables
      PROVE  CopyInv(t)
  <2>1. mem[t] = NewTable /\ (\A r \in RunIds : db[r][t] = None) /\ outcome = "none"
        /\ \A p \in Parts : jobs[t][p] = NoJob
    BY DEF Init, Idle
  <2>2. ~Busy(t) /\ \A p \in Parts : jobs[t][p].since = None
    BY <2>1 DEF Busy, NoJob
  <2> QED BY <2>1, <2>2, NewSound DEF CopyInv
<1> QED BY <1>1, <1>2 DEF SoundInv

(* What the state in memory and, where drops are recorded, the stored      *)
(* state claim of a table is true of the target, and what a running        *)
(* transfer will claim is copied or still before one of its jobs.          *)
THEOREM SoundInvariant == Spec => []SoundInv
<1> QED BY InitSound, NextSound, PTL DEF Spec

(* Whatever happens to the runs before it, the watermark an incremental    *)
(* upsert filters by is not later than a change its table is still without:*)
(* no row that changed between two runs is ever filtered out.  That holds  *)
(* of every configuration whose transfers begin at the start of a table    *)
(* (Resumable), and whose drops of tables are recorded (Trusted).          *)
THEOREM WatermarksAreSound == Spec => [](CopyTrusted => WatermarkSound)
<1>1. SoundInv => (CopyTrusted => WatermarkSound)
  <2> SUFFICES ASSUME SoundInv, CopyTrusted, "upsert" \in conf.modes,
                      NEW t \in Tables, LastSync(t) # None
               PROVE  CopiedUpTo(t, LastSync(t))
    BY DEF WatermarkSound
  <2>1. LifeInv /\ CopyInv(t) /\ DbTrusted
    BY DEF SoundInv, TimeInv, CopyTrusted, Trusted
  <2>2. conf \in Confs /\ db \in [RunIds -> [Tables -> TableRow \cup {None}]]
    BY <2>1 DEF LifeInv, TypeOK
  <2>3. PICK r \in RunIds : db[r][t] # None /\ db[r][t].last_sync = LastSync(t)
    BY <2>2, LastSyncFacts
  <2>4. UpTo(src[t], tgt[t], LastSync(t))
    BY <2>1, <2>3 DEF CopyInv, Sound
  <2> QED BY <2>4 DEF CopiedUpTo, UpTo
<1> QED BY <1>1, SoundInvariant, PTL

(* A table the last stored state calls completed has every row as it was   *)
(* when its transfer began, so an upsert may skip it: after any run of     *)
(* upserts, however it ended, and after a successful run of any mode.      *)
THEOREM CompletedIsCopied == Spec => [](CopyTrusted /\ CancelSafe => CompletedMeansCopied)
<1>1. SoundInv => (CopyTrusted /\ CancelSafe => CompletedMeansCopied)
  <2> SUFFICES ASSUME SoundInv, CopyTrusted, CancelSafe,
                      conf.modes = {"upsert"} \/ outcome = "completed",
                      NEW t \in Tables,
                      LastRow(t) # None, LastRow(t).status = "completed"
               PROVE  CopiedUpTo(t, LastRow(t).began)
    BY DEF CompletedMeansCopied, LastRow
  <2>1. LifeInv /\ CopyInv(t)
    BY DEF SoundInv, TimeInv
  <2>2. Sound(LastRow(t), src[t], tgt[t])
    <3>1. CASE conf.modes = {"upsert"}
      <4>1. PICK r \in RunIds : LastRow(t) = db[r][t]
        BY <2>1, LastRowFacts
      <4> QED BY <2>1, <3>1, <4>1 DEF CopyInv, DbTrusted, UpsertsOnly
    <3>2. CASE outcome = "completed"
      BY <2>1, <3>2 DEF CopyInv
    <3> QED BY <3>1, <3>2
  <2> QED BY <2>2 DEF Sound, CopiedUpTo, UpTo
<1> QED BY <1>1, SoundInvariant, PTL
=============================================================================
