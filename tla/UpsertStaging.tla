---------------------------- MODULE UpsertStaging ----------------------------
(***************************************************************************)
(* upsert_chunk of the three target drivers.  Every upsert writer loads    *)
(* each of its chunks into a staging table and merges that into the        *)
(* target, on a connection it takes from the pool for this one chunk.  In  *)
(* PostgreSQL the staging table is a temporary one and belongs to the      *)
(* session of the connection; in SQL Server and MySQL it is an ordinary    *)
(* table of the target schema, which every session sees.                   *)
(*                                                                         *)
(* A statement that the database executes is one step; between two of them *)
(* any other writer may run one of its own.                                *)
(***************************************************************************)
EXTENDS Naturals, Sequences, FiniteSets, Functions

CONSTANTS Writers,      \* the writer tasks of all jobs that run at once
          Scenarios,    \* kind of target, jobs of the writers, rows of leftover tables
          Sessions,     \* the connections of the pool
          MaxRetries,   \* DEADLOCK_MAX_RETRIES, 5 in the code
          MaxFaults,    \* bound on the statements that fail
          None

ASSUME StagingAssumption ==
  /\ MaxRetries \in Nat /\ MaxFaults \in Nat
  /\ "schema" \notin Sessions /\ None \notin Sessions

(* The writers of a job are numbered, the jobs of a table are of different *)
(* partitions, and each row is read, and sent to one of them, once.        *)
ASSUME JobAssumption ==
  \A s \in Scenarios :
    /\ s.kind \in {"postgres", "mysql", "mssql"}
    /\ \A w \in Writers : /\ s.job[w].table \in Seq(Range(s.job[w].table))
                          /\ s.job[w].chunks \in Seq(SUBSET UNION Range(s.job[w].chunks))
    /\ \A v, w \in Writers : v # w /\ s.job[v].table = s.job[w].table =>
         <<s.job[v].partition_id, s.job[v].writer_id>> # <<s.job[w].partition_id, s.job[w].writer_id>>
    /\ \A v, w \in Writers : s.job[v].table = s.job[w].table =>
         \A i \in DOMAIN s.job[v].chunks, j \in DOMAIN s.job[w].chunks :
           v # w \/ i # j => s.job[v].chunks[i] \cap s.job[w].chunks[j] = {}

VARIABLES
  scen,      \* the scenario of this behaviour
  pc,        \* what each writer does next
  sess,      \* the connection each writer holds
  chunk,     \* how many chunks each writer has finished
  loaded,    \* the rows of the current chunk each writer has staged
  tries,     \* retries of the current merge
  staged,    \* the staging tables that exist, with their rows
  identity,  \* for each session, the table for which IDENTITY_INSERT is ON
  target,    \* the rows of each target table
  hit,       \* the writers that met a failure of their own, with its kind
  faults     \* statements that failed so far

vars == <<scen, pc, sess, chunk, loaded, tries, staged, identity, target, hit, faults>>

Kind      == scen.kind
Table(w)  == scen.job[w].table
Chunks(w) == scen.job[w].chunks
Tables    == {Table(w) : w \in Writers}
Chunk(w)  == Chunks(w)[chunk[w] + 1]

(* A variant: the writers of a table share one staging table.              *)
StagingNameOfTable(w) == Table(w)

(* format!("_staging_{}_p{}_{}") or format!("_staging_{}_{}"): the parts   *)
(* of the name are joined by the character that table names may contain    *)
(* too, so that a name is a sequence of parts, whoever contributed them.   *)
StagingName(w) ==
  LET j == scen.job[w]
  IN  j.table \o (IF j.partition_id = None THEN << >> ELSE <<j.partition_id>>)
              \o <<j.writer_id>>

Names == {StagingName(w) : w \in Writers}

Place(w) == <<IF Kind = "postgres" THEN sess[w] ELSE "schema", StagingName(w)>>
Exists(w) == Place(w) \in DOMAIN staged
WithTable(w, rows) == [p \in DOMAIN staged \cup {Place(w)} |->
                         IF p = Place(w) THEN rows ELSE staged[p]]
WithoutTable(w) == Restrict(staged, DOMAIN staged \ {Place(w)})

(* A run that was killed may have left its staging tables in the schema.   *)
Init ==
  /\ scen \in Scenarios
  /\ pc = [w \in Writers |-> "idle"]
  /\ sess = [w \in Writers |-> None]
  /\ chunk = [w \in Writers |-> 0]
  /\ loaded = [w \in Writers |-> {}]
  /\ tries = [w \in Writers |-> 0]
  /\ staged = [p \in {"schema"} \X (IF scen.leftover = {} THEN {} ELSE Names) |-> scen.leftover]
  /\ identity = [s \in Sessions |-> None]
  /\ target = [t \in Tables |-> {}]
  /\ hit = {}
  /\ faults = 0

Go(w, next) == pc' = [pc EXCEPT ![w] = next]

Free(s) == \A w \in Writers : sess[w] # s

(* pool.get() for the next chunk.                                          *)
Checkout(w) ==
  /\ pc[w] = "idle" /\ chunk[w] < Len(Chunks(w))
  /\ \E s \in Sessions : Free(s) /\ sess' = [sess EXCEPT ![w] = s]
  /\ Go(w, CASE Kind = "postgres" -> "create"
             [] Kind = "mssql"    -> "check"
             [] Kind = "mysql"    -> "drop")
  /\ loaded' = [loaded EXCEPT ![w] = {}]
  /\ tries' = [tries EXCEPT ![w] = 0]
  /\ UNCHANGED <<scen, chunk, staged, identity, target, hit, faults>>

(* write_rx.recv() has nothing more to give: the writer task ends.         *)
EndWriter(w) ==
  /\ pc[w] = "idle" /\ chunk[w] = Len(Chunks(w))
  /\ Go(w, "end")
  /\ UNCHANGED <<scen, sess, chunk, loaded, tries, staged, identity, target, hit, faults>>

Release(w) == sess' = [sess EXCEPT ![w] = None]

(* A variant: the connection is not given back on the way out.             *)
FailsHolding(w) == Go(w, "failed") /\ UNCHANGED sess

(* upsert_chunk returns an error and the writer task ends with it.         *)
Fails(w) == Go(w, "failed") /\ Release(w)

(* SELECT OBJECT_ID(...) before DROP TABLE.                                *)
CheckStaging(w) ==
  /\ pc[w] = "check"
  /\ Go(w, IF Exists(w) THEN "drop" ELSE "create")
  /\ UNCHANGED <<scen, sess, chunk, loaded, tries, staged, identity, target, hit, faults>>

DropStaging(w) ==
  /\ pc[w] = "drop"
  /\ IF Kind = "mssql" /\ ~Exists(w)
     THEN Fails(w) /\ UNCHANGED staged
     ELSE Go(w, "create") /\ staged' = WithoutTable(w) /\ UNCHANGED sess
  /\ UNCHANGED <<scen, chunk, loaded, tries, identity, target, hit, faults>>

(* CREATE TABLE, or CREATE TEMP TABLE IF NOT EXISTS followed by TRUNCATE.  *)
CreateStaging(w) ==
  /\ pc[w] = "create"
  /\ CASE Kind = "postgres" /\ Exists(w) -> Go(w, "truncate") /\ UNCHANGED <<sess, staged>>
       [] Kind # "postgres" /\ Exists(w) -> Fails(w) /\ UNCHANGED staged
       [] ~Exists(w) -> /\ Go(w, IF Kind = "postgres" THEN "truncate" ELSE "load")
                        /\ staged' = WithTable(w, {}) /\ UNCHANGED sess
  /\ UNCHANGED <<scen, chunk, loaded, tries, identity, target, hit, faults>>

Truncate(w) ==
  /\ pc[w] = "truncate"
  /\ Go(w, "load") /\ staged' = WithTable(w, {})
  /\ UNCHANGED <<scen, sess, chunk, loaded, tries, identity, target, hit, faults>>

(* What one statement loads: a COPY takes the whole chunk, a bulk load the *)
(* rows without long strings, an INSERT as many as it has parameters for.  *)
Loads(w) == IF Kind = "postgres" THEN {Chunk(w)}
            ELSE SUBSET (Chunk(w) \ loaded[w]) \ {{}}

LoadStaging(w) ==
  /\ pc[w] = "load"
  /\ IF ~Exists(w)
     THEN Fails(w) /\ UNCHANGED <<loaded, staged>>
     ELSE \E part \in Loads(w) :
            /\ loaded' = [loaded EXCEPT ![w] = @ \cup part]
            /\ staged' = WithTable(w, staged[Place(w)] \cup part)
            /\ Go(w, IF loaded'[w] = Chunk(w) THEN "merge" ELSE "load")
            /\ UNCHANGED sess
  /\ UNCHANGED <<scen, chunk, tries, identity, target, hit, faults>>

HasIdentity(w) == Kind = "mssql" /\ Table(w) \in scen.identity

(* SET IDENTITY_INSERT is refused while it is ON for another table.        *)
IdentityRefused(w) == HasIdentity(w) /\ identity[sess[w]] \notin {None, Table(w)}

(* The session when the batch is aborted before SET IDENTITY_INSERT OFF.   *)
LeftOn(w) == IF HasIdentity(w) /\ ~IdentityRefused(w)
             THEN [identity EXCEPT ![sess[w]] = Table(w)] ELSE identity

MergedRows(w) == [target EXCEPT ![Table(w)] = @ \cup staged[Place(w)]]
UpsertDone(w) == /\ Go(w, "idle") /\ Release(w)
                 /\ chunk' = [chunk EXCEPT ![w] = @ + 1]

(* A variant: the connection keeps IDENTITY_INSERT ON after the merge.     *)
MergeLeavingOn(w) ==
  /\ pc[w] = "merge" /\ Exists(w)
  /\ IF IdentityRefused(w)
     THEN Fails(w) /\ UNCHANGED <<chunk, target, identity>>
     ELSE /\ target' = MergedRows(w)
          /\ identity' = LeftOn(w)
          /\ IF Kind = "mssql" THEN UpsertDone(w)
             ELSE Go(w, "cleanup") /\ UNCHANGED <<sess, chunk>>
  /\ UNCHANGED <<scen, loaded, tries, staged, hit, faults>>

(* MERGE or INSERT ... SELECT, with SET IDENTITY_INSERT ON and OFF around  *)
(* it.  Where the SET is refused the MERGE fails too, because it gives the *)
(* identity column a value.                                                *)
Merge(w) ==
  /\ pc[w] = "merge"
  /\ IF Exists(w) /\ ~IdentityRefused(w)
     THEN /\ target' = MergedRows(w)
          /\ identity' = IF HasIdentity(w) THEN [identity EXCEPT ![sess[w]] = None] ELSE identity
          /\ IF Kind = "mssql" THEN UpsertDone(w)
             ELSE Go(w, "cleanup") /\ UNCHANGED <<sess, chunk>>
     ELSE Fails(w) /\ identity' = LeftOn(w) /\ UNCHANGED <<chunk, target>>
  /\ UNCHANGED <<scen, loaded, tries, staged, hit, faults>>

(* A variant: the count starts over when it reaches its limit.             *)
RetryForever(w) == /\ tries' = [tries EXCEPT ![w] = (@ + 1) % (MaxRetries + 1)]
                   /\ UNCHANGED <<pc, sess, chunk, hit>>

(* A deadlock aborts the batch, which is sent again up to MaxRetries times.*)
Retry(w) == /\ tries[w] < MaxRetries
            /\ tries' = [tries EXCEPT ![w] = @ + 1]
            /\ UNCHANGED <<pc, sess, chunk, hit>>

(* A variant: the loop is left as after a merge that succeeded.            *)
GiveUpQuietly(w) == /\ tries[w] = MaxRetries
                    /\ UpsertDone(w) /\ UNCHANGED <<tries, hit>>

GiveUp(w) == /\ tries[w] = MaxRetries
             /\ Fails(w) /\ hit' = hit \cup {<<w, "deadlock">>}
             /\ UNCHANGED <<chunk, tries>>

Deadlock(w) ==
  /\ Kind = "mssql" /\ pc[w] = "merge" /\ Exists(w) /\ ~IdentityRefused(w)
  /\ Retry(w) \/ GiveUp(w)
  /\ identity' = LeftOn(w)
  /\ UNCHANGED <<scen, loaded, staged, target, faults>>

(* The final DROP TABLE IF EXISTS; SQL Server has none.                    *)
Cleanup(w) ==
  /\ pc[w] = "cleanup"
  /\ staged' = WithoutTable(w)
  /\ UpsertDone(w)
  /\ UNCHANGED <<scen, loaded, tries, identity, target, hit, faults>>

Working(w) == pc[w] \notin {"idle", "end", "failed"}

(* A statement fails without an effect, or a row of the merge is refused;  *)
(* what the writer did before stays, and the connection goes back to the   *)
(* pool as it is.  PostgreSQL ignores an error of the final DROP.          *)
StatementFails(w) ==
  /\ Working(w) /\ faults < MaxFaults
  /\ faults' = faults + 1
  /\ IF Kind = "postgres" /\ pc[w] = "cleanup"
     THEN UpsertDone(w) /\ UNCHANGED hit
     ELSE Fails(w) /\ hit' = hit \cup {<<w, "statement">>} /\ UNCHANGED chunk
  /\ identity' = IF pc[w] = "merge" /\ HasIdentity(w) /\ ~IdentityRefused(w)
                 THEN [identity EXCEPT ![sess[w]] = None] ELSE identity
  /\ UNCHANGED <<scen, loaded, tries, staged, target>>

(* The connection is lost before the answer to a statement; the pool       *)
(* replaces it, and what belonged to the session is gone.                  *)
SessionLost(w) ==
  /\ Working(w) /\ faults < MaxFaults
  /\ faults' = faults + 1
  /\ Fails(w) /\ hit' = hit \cup {<<w, "session">>}
  /\ staged' = Restrict(staged, {p \in DOMAIN staged : p[1] # sess[w]})
  /\ identity' = [identity EXCEPT ![sess[w]] = None]
  /\ \/ UNCHANGED target
     \/ pc[w] = "merge" /\ Exists(w) /\ ~IdentityRefused(w) /\ target' = MergedRows(w)
  /\ UNCHANGED <<scen, chunk, loaded, tries>>

(* bb8 gives up waiting for a connection after POOL_CONNECTION_TIMEOUT.    *)
WaitTimesOut(w) ==
  /\ Kind = "mssql" /\ pc[w] = "idle" /\ chunk[w] < Len(Chunks(w))
  /\ ~\E s \in Sessions : Free(s)
  /\ faults < MaxFaults /\ faults' = faults + 1
  /\ Fails(w) /\ hit' = hit \cup {<<w, "wait">>}
  /\ UNCHANGED <<scen, chunk, loaded, tries, staged, identity, target>>

Upsert(w) ==
  \/ Checkout(w) \/ CheckStaging(w) \/ DropStaging(w) \/ CreateStaging(w)
  \/ Truncate(w) \/ LoadStaging(w) \/ Merge(w) \/ Deadlock(w) \/ Cleanup(w)
  \/ EndWriter(w) \/ StatementFails(w) \/ SessionLost(w) \/ WaitTimesOut(w)

AllEnded == \A w \in Writers : pc[w] \in {"end", "failed"}
Next == (\E w \in Writers : Upsert(w)) \/ (AllEnded /\ UNCHANGED vars)
Spec == Init /\ [][Next]_vars
FairSpec == Spec /\ \A w \in Writers : WF_vars(Upsert(w))
-----------------------------------------------------------------------------
Rows == scen.leftover \cup UNION {UNION Range(Chunks(w)) : w \in Writers}

(* Every variable has its type, and no connection is in two hands.         *)
TypeOK ==
  /\ pc \in [Writers -> {"idle", "check", "drop", "create", "truncate", "load",
                         "merge", "cleanup", "end", "failed"}]
  /\ \A w \in Writers : /\ chunk[w] \in 0..Len(Chunks(w))
                        /\ sess[w] \in Sessions <=> Working(w)
  /\ \A v, w \in Writers : v # w /\ Working(v) => sess[v] # sess[w]
  /\ loaded \in [Writers -> SUBSET Rows] /\ tries \in [Writers -> 0..MaxRetries]
  /\ DOMAIN staged \subseteq (Sessions \cup {"schema"}) \X Names
  /\ \A p \in DOMAIN staged : staged[p] \subseteq Rows
  /\ identity \in [Sessions -> Tables \cup {None}] /\ target \in [Tables -> SUBSET Rows]

(* A table whose name, with that of a partition, makes the name of another *)
(* table: their writers meet in one staging table.  The code does not      *)
(* exclude it, and the properties below say nothing of such tables.        *)
Ambiguous(t) == \E v, w \in Writers : /\ Table(v) = t /\ Table(w) # t
                                      /\ StagingName(v) = StagingName(w)

(* No other writer of the table, no retry and no failed statement makes a  *)
(* chunk reach its target in part, and no row reaches another table:       *)
(* whatever is merged from a staging table is what its writer loaded.      *)
WholeChunksOnly ==
  \A t \in Tables : ~Ambiguous(t) =>
    /\ target[t] \subseteq UNION {UNION Range(Chunks(w)) : w \in {v \in Writers : Table(v) = t}}
    /\ \A w \in Writers : Table(w) = t =>
         \A i \in DOMAIN Chunks(w) :
           Chunks(w)[i] \subseteq target[t] \/ Chunks(w)[i] \cap target[t] = {}

(* Ok from upsert_chunk means the whole chunk is in the target, however    *)
(* often the merge was retried.                                            *)
OkMeansMerged ==
  \A w \in Writers : ~Ambiguous(Table(w)) =>
    \A i \in 1..chunk[w] : Chunks(w)[i] \subseteq target[Table(w)]

(* A writer fails only for a failure of its own, never for what another    *)
(* writer left on the connection or in the schema.  The one exception is a *)
(* SQL Server table with an identity column whose merge was aborted, by    *)
(* its last deadlock or because its staging table was taken away: the      *)
(* connection keeps IDENTITY_INSERT ON, and the merges of other tables     *)
(* with an identity column fail on it.                                     *)
FailuresContained ==
  \A w \in Writers : pc[w] = "failed" /\ ~Ambiguous(Table(w)) =>
    \/ \E h \in hit : h[1] = w
    \/ HasIdentity(w) /\ \E v \in Writers :
         /\ HasIdentity(v) /\ Table(v) # Table(w) /\ pc[v] = "failed"
         /\ <<v, "deadlock">> \in hit \/ Ambiguous(Table(v))

(* Every writer ends: merges are not retried for ever, and a writer that   *)
(* fails gives its connection back to those that wait for one.             *)
EveryUpsertEnds == \A w \in Writers : <>(pc[w] \in {"end", "failed"})
=============================================================================
