---------------------------- MODULE KeysetPaging ----------------------------
(***************************************************************************)
(* How the transfer engine walks a source table: the rows one keyset query *)
(* returns, the key range each parallel reader of a job is given, and the  *)
(* rows a job is responsible for.  Pure operators over sets of primary     *)
(* keys; Option<i64> is an integer or None.                                *)
(***************************************************************************)
EXTENDS Integers, Sequences, FiniteSets, FiniteSetsExt

CONSTANTS None              \* Option::None

ASSUME NoneAssumption == None \notin Int

Opt(S) == S \cup {None}

OrElse(a, b) == IF a = None THEN b ELSE a

(* A variant for the runs to tell from the code: always `>`.               *)
SelectsAbove(k, last, firstChunk, max) ==
  (last = None \/ k > last) /\ (max = None \/ k <= max)

(* A variant: `>=` on every chunk.                                         *)
SelectsFrom(k, last, firstChunk, max) ==
  (last = None \/ k >= last) /\ (max = None \/ k <= max)

(* WHERE of a keyset query: `>=` on the first chunk of a fresh range, `>`  *)
(* once a key was read or when resuming; `<=` the end of the range.        *)
Selects(k, last, firstChunk, max) ==
  /\ \/ last = None
     \/ k > last
     \/ firstChunk /\ k = last
  /\ max = None \/ k <= max

(* ORDER BY pk LIMIT n over the selected rows.                             *)
Limit(S, n) == {k \in S : Cardinality({j \in S : j < k}) < n}

KeysetChunk(keys, last, firstChunk, max, n) ==
  Limit({k \in keys : Selects(k, last, firstChunk, max)}, n)

(***************************************************************************)
(* split_pk_range: n sub-ranges of equal width, the last one to the end.   *)
(***************************************************************************)
SplitPkRange(min, max, n) ==
  LET size == (max - min) \div n
  IN  IF n <= 1 \/ max <= min \/ size < 1
      THEN << [lo |-> min, hi |-> max] >>
      ELSE [i \in 1..n |-> [lo |-> min + (i - 1) * size,
                            hi |-> IF i = n THEN max ELSE min + i * size]]

(***************************************************************************)
(* A transfer job: how its rows are paged ("copy" is the PostgreSQL COPY   *)
(* stream, "keyset" WHERE pk > last, "offset" OFFSET pagination), the      *)
(* configured number of readers and chunk_size, whether it is one          *)
(* partition of a table, and its bounds.                                   *)
(***************************************************************************)
JobType ==
  [paging : {"copy", "keyset", "offset"}, readers : Nat \ {0},
   chunk_size : Nat \ {0}, upsert : BOOLEAN, partitioned : BOOLEAN,
   min_pk : Opt(Int), max_pk : Opt(Int), resume_from_pk : Opt(Int)]

(* The rows the job has to move: those above its resume point or from its  *)
(* lower bound on, up to its upper bound.                                  *)
JobRows(job, keys) ==
  IF job.paging = "offset" THEN keys
  ELSE {k \in keys :
          /\ \/ job.resume_from_pk # None /\ k > job.resume_from_pk
             \/ job.resume_from_pk = None /\ job.min_pk # None /\ k >= job.min_pk
             \/ job.resume_from_pk = None /\ job.min_pk = None
          /\ job.max_pk # None => k <= job.max_pk}

(* The single reader of read_table_chunks, and the WHERE of the COPY query *)
SingleRange(job) ==
  IF job.paging = "offset" THEN [from |-> None, fresh |-> TRUE, to |-> None]
  ELSE [from  |-> OrElse(job.resume_from_pk, job.min_pk),
        fresh |-> job.resume_from_pk = None,
        to    |-> job.max_pk]

(* The readers of read_table_chunks_parallel: the first one starts at the  *)
(* resume point or the job's lower bound, the others just above their      *)
(* sub-range's lower end.  A job with bounds of its own is not split again.*)
ParallelRanges(job, keys) ==
  LET lo     == IF job.min_pk = None THEN 0 ELSE job.min_pk
      hi     == IF job.max_pk # None THEN job.max_pk
                ELSE IF keys = {} THEN 0 ELSE Max(keys)
      n      == IF job.min_pk # None \/ job.partitioned THEN 1 ELSE job.readers
      ranges == SplitPkRange(lo, hi, n)
  IN  [i \in DOMAIN ranges |->
         IF i = 1 THEN [from  |-> OrElse(job.resume_from_pk, job.min_pk),
                        fresh |-> job.resume_from_pk = None,
                        to    |-> ranges[1].hi]
         ELSE [from |-> ranges[i].lo, fresh |-> FALSE, to |-> ranges[i].hi]]

IsParallel(job) == job.paging = "keyset" /\ job.readers > 1

PlannedRanges(job, keys) ==
  IF IsParallel(job) THEN ParallelRanges(job, keys) ELSE << SingleRange(job) >>

(* A variant: every reader includes the lower end of its range.            *)
AllFresh(job, keys) ==
  LET plan == PlannedRanges(job, keys)
  IN  [i \in DOMAIN plan |-> [plan[i] EXCEPT !.fresh = TRUE]]

ReaderRanges(job, keys) == PlannedRanges(job, keys)
=============================================================================
