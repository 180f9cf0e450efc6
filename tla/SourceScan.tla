----------------------------- MODULE SourceScan -----------------------------
(***************************************************************************)
(* Reading one table while others change it: the table is cut into         *)
(* partitions by the source driver, each partition is a transfer job, each *)
(* job has one or more readers, and each reader issues one query after the *)
(* other, in transactions of their own.  Writers are left out: a row that  *)
(* a query returns is delivered.                                           *)
(***************************************************************************)
EXTENDS KeysetPaging

CONSTANTS Keys,      \* primary keys rows may have
          Scans      \* the scans to run, one per behaviour

(* driver is the kind of get_partition_boundaries: NTILE (SQL Server and   *)
(* PostgreSQL) or the arithmetic split of [MIN, MAX] (MySQL); parts is the *)
(* result of partition_count; changes bounds the concurrent changes.       *)
ScanType ==
  [driver : {"ntile", "minmax"}, paging : {"keyset", "offset"},
   parts : Nat \ {0}, readers : Nat \ {0}, chunk_size : Nat \ {0},
   rows : SUBSET Keys, changes : Nat]

ASSUME ScanAssumption ==
  /\ Keys \subseteq Int /\ IsFiniteSet(Keys)
  /\ Scans \subseteq ScanType

VARIABLES
  scan,       \* the scan
  src,        \* the keys in the source table
  stable,     \* those that were there all the time (history)
  changed,    \* changes so far
  jobs,       \* the transfer jobs
  plan,       \* the key ranges of each job's readers, once it has started
  pos,        \* last_pk of each reader
  fresh,      \* is_first_chunk of each reader
  offset,     \* total_rows of each reader
  open,       \* the readers that have not ended
  count       \* how often each key was delivered

vars == <<scan, src, stable, changed, jobs, plan, pos, fresh, offset, open, count>>
-----------------------------------------------------------------------------
(* Partition boundaries                                                    *)

Rank(k, keys) == Cardinality({j \in keys : j < k})

(* NTILE(n) OVER (ORDER BY pk): the first r groups have one row more.      *)
Ntile(k, keys, n) ==
  LET q == Cardinality(keys) \div n
      r == Cardinality(keys) % n
      i == Rank(k, keys)
  IN  IF i < r * (q + 1) THEN i \div (q + 1) + 1
      ELSE r + (i - r * (q + 1)) \div q + 1

NtileBounds(keys, n) ==
  [p \in 1..Min({n, Cardinality(keys)}) |->
     LET group == {k \in keys : Ntile(k, keys, n) = p}
     IN  [min |-> Min(group), max |-> Max(group)]]

NoBounds == << [min |-> None, max |-> None] >>

(* MySQL: min + i * size up to min + (i + 1) * size, open at both ends.    *)
MinMaxBounds(keys, n) ==
  IF n <= 1 \/ Cardinality(keys) <= 1 THEN NoBounds
  ELSE LET min  == Min(keys)
           size == (Max(keys) - min) \div n
       IN  [p \in 1..n |->
              [min |-> IF p = 1 THEN None ELSE min + (p - 1) * size,
               max |-> IF p = n THEN None ELSE min + p * size]]

(* A variant of the NTILE partitions that share their boundary rows.       *)
TouchingPartitions(keys) ==
  LET b == NtileBounds(keys, scan.parts)
  IN  [p \in DOMAIN b |-> [min |-> b[p].min,
                           max |-> IF p < Len(b) THEN b[p + 1].min ELSE b[p].max]]

Boundaries(keys) ==
  IF scan.driver = "ntile" THEN NtileBounds(keys, scan.parts)
  ELSE MinMaxBounds(keys, scan.parts)

JobOf(b, partitioned) ==
  [paging |-> scan.paging, readers |-> scan.readers, chunk_size |-> scan.chunk_size,
   upsert |-> FALSE, partitioned |-> partitioned,
   min_pk |-> b.min, max_pk |-> b.max, resume_from_pk |-> None]
-----------------------------------------------------------------------------
Init ==
  /\ scan \in Scans
  /\ src = scan.rows /\ stable = scan.rows /\ changed = 0
  /\ jobs = << >>
  /\ plan = << >> /\ pos = << >> /\ fresh = << >> /\ offset = << >>
  /\ open = {<<0, 0>>}                  \* the orchestrator has yet to plan
  /\ count = [k \in Keys |-> 0]

(* Other sessions insert and delete rows.                                  *)
ChangeSource ==
  /\ changed < scan.changes
  /\ changed' = changed + 1
  /\ \/ \E k \in Keys \ src : src' = src \cup {k} /\ UNCHANGED stable
     \/ \E k \in src : src' = src \ {k} /\ stable' = stable \ {k}
  /\ UNCHANGED <<scan, jobs, plan, pos, fresh, offset, open, count>>

(* transfer_data: the boundaries are read once, then all jobs are spawned. *)
PlanJobs ==
  /\ <<0, 0>> \in open
  /\ LET bounds == IF scan.parts > 1 THEN Boundaries(src) ELSE NoBounds
     IN  /\ jobs' = [j \in DOMAIN bounds |-> JobOf(bounds[j], scan.parts > 1)]
         /\ plan'   = [j \in DOMAIN bounds |-> << >>]
         /\ pos'    = [j \in DOMAIN bounds |-> << >>]
         /\ fresh'  = [j \in DOMAIN bounds |-> << >>]
         /\ offset' = [j \in DOMAIN bounds |-> << >>]
         /\ open'   = {<<j, 0>> : j \in DOMAIN bounds}
  /\ UNCHANGED <<scan, src, stable, changed, count>>

(* A job starts: get_max_pk where it is needed, and the readers' ranges.   *)
StartJob(j) ==
  /\ <<j, 0>> \in open /\ j # 0
  /\ LET ranges == ReaderRanges(jobs[j], src)
     IN  /\ plan'   = [plan EXCEPT ![j] = ranges]
         /\ pos'    = [pos EXCEPT ![j] = [r \in DOMAIN ranges |-> ranges[r].from]]
         /\ fresh'  = [fresh EXCEPT ![j] = [r \in DOMAIN ranges |-> ranges[r].fresh]]
         /\ offset' = [offset EXCEPT ![j] = [r \in DOMAIN ranges |-> 0]]
         /\ open'   = (open \ {<<j, 0>>}) \cup {<<j, r>> : r \in DOMAIN ranges}
  /\ UNCHANGED <<scan, src, stable, changed, jobs, count>>

(* OFFSET total_rows LIMIT chunk_size.                                     *)
OffsetRows(j, r) ==
  {k \in src : Rank(k, src) >= offset[j][r]
               /\ Rank(k, src) < offset[j][r] + scan.chunk_size}

QueryRows(j, r) ==
  IF scan.paging = "offset" THEN OffsetRows(j, r)
  ELSE KeysetChunk(src, pos[j][r], fresh[j][r], plan[j][r].to, scan.chunk_size)

(* A variant: an empty chunk does not end the loop.                        *)
IgnoresEmpty(j, r, rows) ==
  /\ rows # {}
  /\ \/ scan.paging = "keyset" /\ plan[j][r].to # None /\ Max(rows) >= plan[j][r].to
     \/ (scan.paging = "offset" \/ scan.readers > 1) /\ Cardinality(rows) < scan.chunk_size

(* The loop is left on an empty chunk, at the end of the range, and, under *)
(* OFFSET or with several readers configured, after a short chunk.         *)
LastQuery(j, r, rows) ==
  \/ rows = {}
  \/ scan.paging = "keyset" /\ plan[j][r].to # None /\ Max(rows) >= plan[j][r].to
  \/ (scan.paging = "offset" \/ scan.readers > 1) /\ Cardinality(rows) < scan.chunk_size

Query(j, r) ==
  /\ <<j, r>> \in open /\ r # 0
  /\ LET rows == QueryRows(j, r)
     IN  /\ count' = [k \in Keys |-> IF k \in rows THEN count[k] + 1 ELSE count[k]]
         /\ pos' = [pos EXCEPT ![j][r] =
              IF rows = {} THEN @ ELSE IF scan.paging = "offset" THEN None ELSE Max(rows)]
         /\ fresh' = [fresh EXCEPT ![j][r] = FALSE]
         /\ offset' = [offset EXCEPT ![j][r] = @ + Cardinality(rows)]
         /\ open' = IF LastQuery(j, r, rows) THEN open \ {<<j, r>>} ELSE open
  /\ UNCHANGED <<scan, src, stable, changed, jobs, plan>>

Finished == open = {}

Next ==
  \/ ChangeSource
  \/ PlanJobs
  \/ \E t \in open : t[1] # 0 /\ (StartJob(t[1]) \/ Query(t[1], t[2]))
  \/ Finished /\ UNCHANGED vars

Spec == Init /\ [][Next]_vars

(* Every query returns.                                                    *)
FairSpec == Spec /\ WF_vars(PlanJobs)
                 /\ WF_vars(\E t \in open : t[1] # 0 /\ (StartJob(t[1]) \/ Query(t[1], t[2])))
-----------------------------------------------------------------------------
(* The jobs of a table are well formed, their readers' cursors stay within *)
(* their ranges, and no key is delivered more often than there are queries.*)
TypeOK ==
  /\ scan \in Scans /\ src \subseteq Keys /\ stable \subseteq src
  /\ changed \in 0..scan.changes
  /\ \A j \in DOMAIN jobs :
       /\ jobs[j] \in JobType
       /\ DOMAIN plan[j] = DOMAIN pos[j]
       /\ \A r \in DOMAIN plan[j] :
            /\ pos[j][r] \in Opt(Int)
            /\ offset[j][r] \in 0..Cardinality(Keys)
  /\ count \in [Keys -> Nat]

(* `Divides a table into n partitions`: whatever other sessions insert and *)
(* delete, no row is delivered twice by a keyset scan, by two partitions,  *)
(* two readers of one, or two queries of a reader.  A plain insert of the  *)
(* chunk would otherwise fail or duplicate the row.                        *)
NoRowTwice == \A k \in Keys : count[k] <= 1

(* A row that was there all the time is delivered by the time the last     *)
(* reader has ended: ranges leave no gap, and no reader stops early.       *)
NoRowMissed == Finished => \A k \in stable : count[k] >= 1

(* The scan ends, however short the ranges and the chunks are.             *)
ScanEnds == <>Finished
=============================================================================
