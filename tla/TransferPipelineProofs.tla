----------------------- MODULE TransferPipelineProofs -----------------------
(***************************************************************************)
(* Type correctness of the pipeline, safety of its resume point, the count *)
(* of its rows, and its promise to the orchestrator, for every table, job, *)
(* number of readers and writers and channel capacity.                     *)
(***************************************************************************)
EXTENDS TransferPipeline, RangeTrackerLemmas

(* What TypeOK needs to be inductive: a coordinator that still joins has a *)
(* reader to join, a reader that sends has a chunk with rows in hand, and  *)
(* the tracker is a finite map.                                            *)
TypeInv ==
  /\ TypeOK
  /\ coord \in {"start", "join"} => joined < Len(Plan)
  /\ \A r \in Readers : rd[r] = "send" => out[r] \in Chunk /\ out[r].rows # {}
  /\ TrackedRanges(ranges)

-----------------------------------------------------------------------------
(* The plan, the job's rows and the tracker's start depend on the job only.*)
LEMMA PlanStable ==
  ASSUME job' = job
  PROVE  Plan' = Plan /\ Readers' = Readers /\ Rows' = Rows /\ Start' = Start
         /\ Chunk' = Chunk
BY DEF Plan, Readers, Rows, Start, Chunk

(* The readers of a job are 1..m, each with a key range.                   *)
LEMMA PlanTyped ==
  ASSUME job \in Jobs
  PROVE  /\ Len(Plan) \in Nat \ {0}
         /\ Readers = 1..Len(Plan)
         /\ Plan \in [1..Len(Plan) -> RangeType]
         /\ job.paging # "keyset" => Len(Plan) = 1
         /\ Plan[1].fresh <=> (job.paging = "offset" \/ job.resume_from_pk = None)
         /\ job.paging # "offset" => Plan[1].from = OrElse(job.resume_from_pk, job.min_pk)
         /\ \A r \in Readers \ {1} :
              job.resume_from_pk # None \/ (Plan[r].from # None /\ Plan[r].from > Start)
<1>1. job \in JobType /\ Keys \subseteq Int /\ IsFiniteSet(Keys)
  BY PipelineAssumption
<1>2. PICK m \in Nat \ {0} :
           /\ Plan \in [1..m -> RangeType]
           /\ job.paging # "keyset" => m = 1
           /\ Plan[1].fresh <=> (job.paging = "offset" \/ job.resume_from_pk = None)
           /\ job.paging # "offset" => Plan[1].from = OrElse(job.resume_from_pk, job.min_pk)
           /\ \A i \in 2..m : job.resume_from_pk # None \/ (Plan[i].from # None /\ Plan[i].from > Start)
  BY <1>1, PlanFacts DEF Plan, Start
<1>3. Len(Plan) = m
  BY <1>2
<1>4. Readers = 1..m
  BY <1>2 DEF Readers
<1> QED BY <1>2, <1>3, <1>4

(* What a query of a reader returns is a chunk of the table.               *)
LEMMA ChunkTyped ==
  ASSUME TypeInv, NEW r \in Readers, NextRows(r) # {}
  PROVE  /\ ChunkOf(r, NextRows(r)) \in Chunk
         /\ NextRows(r) \subseteq Keys /\ IsFiniteSet(NextRows(r))
         /\ Max(NextRows(r)) \in NextRows(r) /\ Min(NextRows(r)) \in NextRows(r)
         /\ \A k \in NextRows(r) : Min(NextRows(r)) <= k /\ k <= Max(NextRows(r))
<1> DEFINE N == NextRows(r)
<1>1. N \subseteq Keys /\ N \subseteq Int /\ IsFiniteSet(N)
  BY ChunkSelected, FS_Subset, PipelineAssumption DEF NextRows
<1>2. /\ Max(N) \in N /\ \A k \in N : Max(N) >= k
      /\ Min(N) \in N /\ \A k \in N : Min(N) <= k
  BY <1>1, MaxIsGreatest, MinIsLeast
<1>3. pos[r] \in Opt(Int)
  BY DEF TypeInv, TypeOK
<1>4. ChunkOf(r, N) \in Chunk
  BY <1>1, <1>2, <1>3, Zenon DEF ChunkOf, Chunk, Opt
<1>5. \A k \in N : k <= Max(N)
  BY <1>1, <1>2
<1> HIDE DEF N
<1> QED BY <1>1, <1>2, <1>4, <1>5 DEF N

(* execute starts well typed ...                                           *)
LEMMA InitTypeInv == Init => TypeInv
<1> SUFFICES ASSUME Init PROVE TypeInv
  OBVIOUS
<1> USE DEF Init
<1>1. job \in Jobs
  OBVIOUS
<1>2. /\ Len(Plan) \in Nat \ {0} /\ Readers = 1..Len(Plan)
      /\ \A r \in Readers : Plan[r] \in RangeType
  BY <1>1, PlanTyped
<1>3. /\ pos \in [Readers -> Opt(Int)] /\ fresh \in [Readers -> BOOLEAN]
  BY <1>2 DEF RangeType
<1>4. TrackedRanges(ranges)
  BY FS_EmptySet DEF TrackedRanges, NoRanges
<1>5. readQ \in Seq(Chunk) /\ Len(readQ) <= ReadAhead
  BY PipelineAssumption
<1>6. writeQ \in Seq(SUBSET Keys) /\ Len(writeQ) <= 2 * Cardinality(Writers)
  BY PipelineAssumption, FS_CardinalityType
<1>7. /\ rd \in [Readers -> ReaderState]
      /\ out \in [Readers -> Chunk \cup {NoChunk}]
      /\ \A r \in Readers : rd[r] # "send"
  BY DEF ReaderState
<1>8. joined \in 0..Len(Plan) /\ joined < Len(Plan)
  BY <1>2
<1>9. wr \in [Writers -> {"open", "recv", "write", "ended", "failed"}]
  BY Zenon
<1>10. hand \in [Writers -> SUBSET Keys] /\ done \in [Writers -> Nat]
  OBVIOUS
<1>11. DOMAIN ranges \subseteq Int /\ \A a \in DOMAIN ranges : ranges[a] \in Int
  BY <1>4 DEF TrackedRanges
<1> QED BY <1>1, <1>3, <1>4, <1>5, <1>6, <1>7, <1>8, <1>9, <1>10, <1>11
        DEF TypeInv, TypeOK

(* ... and every step of its tasks keeps it so.                            *)
LEMMA NextTypeInv == TypeInv /\ [Next]_vars => TypeInv'
<1> SUFFICES ASSUME TypeInv, [Next]_vars PROVE TypeInv'
  OBVIOUS
<1> USE DEF TypeInv, TypeOK
<1>0. /\ job \in Jobs
      /\ Len(Plan) \in Nat \ {0} /\ Readers = 1..Len(Plan)
  BY PlanTyped
<1>1. CASE SpawnReaders
  <2>1. job' = job
    BY <1>1 DEF SpawnReaders
  <2> QED BY <1>0, <1>1, <2>1, PlanStable
          DEF SpawnReaders, writerVars, ReaderState
<1>2. CASE MaxPkFail
  <2>1. job' = job
    BY <1>2 DEF MaxPkFail
  <2> QED BY <1>0, <1>2, <2>1, PlanStable DEF MaxPkFail, writerVars, Ends
<1>3. ASSUME NEW r \in Readers, ReadChunk(r)
      PROVE  TypeInv'
  <2>1. job' = job
    BY <1>3 DEF ReadChunk
  <2>2. CASE NextRows(r) = {}
    <3>1. /\ rd' \in [Readers -> ReaderState] /\ fresh' \in [Readers -> BOOLEAN]
          /\ \A s \in Readers : rd'[s] = "send" => rd[s] = "send"
      BY <1>3, <2>2 DEF ReadChunk, ReaderState, Ends
    <3> QED BY <1>0, <1>3, <2>1, <2>2, <3>1, PlanStable DEF ReadChunk, writerVars
  <2>3. CASE NextRows(r) # {}
    <3>1. ChunkOf(r, NextRows(r)) \in Chunk /\ ChunkOf(r, NextRows(r)).rows # {}
      BY <2>3, ChunkTyped DEF ChunkOf
    <3>2. /\ rd' \in [Readers -> ReaderState] /\ fresh' \in [Readers -> BOOLEAN]
          /\ out' \in [Readers -> Chunk \cup {NoChunk}]
          /\ out'[r] = ChunkOf(r, NextRows(r))
          /\ \A s \in Readers \ {r} : rd'[s] = rd[s] /\ out'[s] = out[s]
      BY <1>3, <2>3, <3>1 DEF ReadChunk, ReaderState
    <3>3. \A s \in Readers : rd'[s] = "send" => out'[s] \in Chunk /\ out'[s].rows # {}
      BY <3>1, <3>2
    <3> QED BY <1>0, <1>3, <2>1, <2>3, <3>2, <3>3, PlanStable DEF ReadChunk, writerVars
  <2> QED BY <2>2, <2>3
<1>4. ASSUME NEW r \in Readers, ReadFail(r)
      PROVE  TypeInv'
  <2>1. job' = job
    BY <1>4 DEF ReadFail
  <2>2. /\ rd' \in [Readers -> ReaderState]
        /\ \A s \in Readers : rd'[s] = "send" => rd[s] = "send"
    BY <1>4 DEF ReadFail, ReaderState, Ends
  <2> QED BY <1>0, <1>4, <2>1, <2>2, PlanStable DEF ReadFail, writerVars
<1>5. ASSUME NEW r \in Readers, SendChunk(r)
      PROVE  TypeInv'
  <2>1. job' = job
    BY <1>5 DEF SendChunk
  <2>2. out[r] \in Chunk /\ out[r].rows # {}
    BY <1>5 DEF SendChunk
  <2>3. Max(out[r].rows) \in Int
    <3>1. out[r].rows \subseteq Int /\ IsFiniteSet(out[r].rows)
      BY <2>2, FS_Subset, PipelineAssumption DEF Chunk
    <3> QED BY <2>2, <3>1, MaxIsGreatest
  <2>4. readQ' \in Seq(Chunk) /\ Len(readQ') <= ReadAhead
    BY <1>5, <2>2, PipelineAssumption DEF SendChunk, ReadRoom
  <2>5. /\ rd' \in [Readers -> ReaderState] /\ pos' \in [Readers -> Opt(Int)]
        /\ out' \in [Readers -> Chunk \cup {NoChunk}]
        /\ \A s \in Readers : rd'[s] = "send" => rd[s] = "send" /\ s # r /\ out'[s] = out[s]
    BY <1>5, <2>3 DEF SendChunk, ReaderState, Ends, Opt
  <2> QED BY <1>0, <1>5, <2>1, <2>4, <2>5, PlanStable DEF SendChunk, writerVars
<1>6. ASSUME NEW r \in Readers, SendClosed(r)
      PROVE  TypeInv'
  <2>1. job' = job
    BY <1>6 DEF SendClosed
  <2> QED BY <1>0, <1>6, <2>1, PlanStable DEF SendClosed, writerVars, ReaderState, Ends
<1>7. CASE JoinReader
  <2>1. job' = job
    BY <1>7 DEF JoinReader
  <2>2. joined + 1 \in Readers
    BY <1>0, <1>7 DEF JoinReader
  <2>3. /\ joined' \in 0..Len(Plan)
        /\ coord' \in {"start", "join"} \cup Ends
        /\ coord' \in {"start", "join"} => joined' < Len(Plan)
    BY <1>0, <1>7, <2>2 DEF JoinReader, Finished, Ends, ReaderState
  <2> QED BY <1>0, <1>7, <2>1, <2>3, PlanStable DEF JoinReader, writerVars
<1>8. CASE Recv
  <2>1. job' = job
    BY <1>8 DEF Recv
  <2>2. readQ' \in Seq(Chunk) /\ Len(readQ') <= ReadAhead /\ held' \in Chunk
    BY <1>8, PipelineAssumption DEF Recv
  <2> QED BY <1>0, <1>8, <2>1, <2>2, PlanStable DEF Recv, readerVars, writerVars
<1>9. CASE Send
  <2>1. job' = job
    BY <1>9 DEF Send
  <2>2. Start \in Int
    BY <1>0, PipelineAssumption DEF Start, TrackerStart, OrElse, Opt, JobType
  <2>3. held.rows \subseteq Keys /\ held.first \in Opt(Int) /\ held.last \in Opt(Int)
    BY DEF Chunk, NoChunk, Opt
  <2>4. TrackedRanges(ranges')
    BY <1>9, <2>2, <2>3, AddRangeTracked DEF Send
  <2>5. DOMAIN ranges' \subseteq Int /\ \A a \in DOMAIN ranges' : ranges'[a] \in Int
    BY <2>4 DEF TrackedRanges
  <2>6. writeQ' \in Seq(SUBSET Keys) /\ Len(writeQ') <= 2 * Cardinality(Writers)
    <3>1. Cardinality(Writers) \in Nat
      BY PipelineAssumption, FS_CardinalityType
    <3> QED BY <1>9, <2>3, <3>1 DEF Send
  <2>7. held' \in Chunk \cup {NoChunk} /\ queued' \subseteq Keys /\ main' = "recv"
    BY <1>9, <2>3 DEF Send
  <2> QED BY <1>0, <1>9, <2>1, <2>4, <2>5, <2>6, <2>7, PlanStable
          DEF Send, readerVars, writerVars
<1>10. CASE LeaveLoop
  <2>1. job' = job
    BY <1>10 DEF LeaveLoop
  <2>2. readQ' \in Seq(Chunk) /\ Len(readQ') <= ReadAhead
    BY <1>10, PipelineAssumption DEF LeaveLoop
  <2> QED BY <1>0, <1>10, <2>1, <2>2, PlanStable DEF LeaveLoop, readerVars, writerVars
<1>11. CASE JoinReaders
  <2>1. job' = job
    BY <1>11 DEF JoinReaders
  <2> QED BY <1>0, <1>11, <2>1, PlanStable DEF JoinReaders, readerVars, writerVars
<1>12. CASE JoinWriters
  <2>1. job' = job
    BY <1>12 DEF JoinWriters
  <2> QED BY <1>0, <1>12, <2>1, PlanStable DEF JoinWriters, readerVars, writerVars
<1>13. ASSUME NEW w \in Writers, OpenWriter(w)
       PROVE  TypeInv'
  <2>1. job' = job
    BY <1>13 DEF OpenWriter
  <2>2. wr' \in [Writers -> {"open", "recv", "write", "ended", "failed"}]
    BY <1>0, <1>13 DEF OpenWriter
  <2> QED BY <1>0, <1>13, <2>1, <2>2, PlanStable DEF OpenWriter, readerVars
<1>14. ASSUME NEW w \in Writers, TakeJob(w)
       PROVE  TypeInv'
  <2>1. job' = job
    BY <1>14 DEF TakeJob
  <2>2. /\ writeQ' \in Seq(SUBSET Keys) /\ Len(writeQ') <= 2 * Cardinality(Writers)
        /\ hand' \in [Writers -> SUBSET Keys]
    <3>1. Cardinality(Writers) \in Nat
      BY PipelineAssumption, FS_CardinalityType
    <3> QED BY <1>14, <3>1 DEF TakeJob
  <2> QED BY <1>0, <1>14, <2>1, <2>2, PlanStable DEF TakeJob, readerVars
<1>15. ASSUME NEW w \in Writers, WriteOk(w)
       PROVE  TypeInv'
  <2>1. job' = job
    BY <1>15 DEF WriteOk
  <2>2. done' \in [Writers -> Nat] /\ written' \subseteq Keys /\ hand' \in [Writers -> SUBSET Keys]
    <3>1. hand[w] \subseteq Keys
      OBVIOUS
    <3>2. Cardinality(hand[w]) \in Nat
      BY <3>1, PipelineAssumption, FS_Subset, FS_CardinalityType
    <3> QED BY <1>15, <3>1, <3>2 DEF WriteOk
  <2> QED BY <1>0, <1>15, <2>1, <2>2, PlanStable DEF WriteOk, readerVars
<1>16. ASSUME NEW w \in Writers, WriteFail(w)
       PROVE  TypeInv'
  <2>1. job' = job
    BY <1>16 DEF WriteFail
  <2>2. written' \subseteq Keys /\ hand' \in [Writers -> SUBSET Keys]
    BY <1>16 DEF WriteFail
  <2> QED BY <1>0, <1>16, <2>1, <2>2, PlanStable DEF WriteFail, readerVars
<1>17. ASSUME NEW w \in Writers, EndWriter(w)
       PROVE  TypeInv'
  <2>1. job' = job
    BY <1>17 DEF EndWriter
  <2> QED BY <1>0, <1>17, <2>1, PlanStable DEF EndWriter, readerVars
<1>18. CASE SiblingCancel
  <2>1. job' = job
    BY <1>18 DEF SiblingCancel
  <2> QED BY <1>0, <1>18, <2>1, PlanStable DEF SiblingCancel, readerVars, writerVars
<1>19. CASE Abort
  <2>1. job' = job
    BY <1>19 DEF Abort
  <2>2. readQ' \in Seq(Chunk) /\ Len(readQ') <= ReadAhead
    BY <1>19, PipelineAssumption DEF Abort
  <2> QED BY <1>0, <1>19, <2>1, <2>2, PlanStable DEF Abort, readerVars, writerVars
<1>20. CASE UNCHANGED vars
  <2>1. job' = job
    BY <1>20 DEF vars
  <2> QED BY <1>0, <1>20, <2>1, PlanStable DEF vars, readerVars, writerVars
<1>21. ASSUME NEW w \in Writers, WriterPanics(w)
       PROVE  TypeInv'
  <2>1. job' = job
    BY <1>21 DEF WriterPanics
  <2>2. hand' \in [Writers -> SUBSET Keys]
    BY <1>21 DEF WriterPanics
  <2> QED BY <1>0, <1>21, <2>1, <2>2, PlanStable DEF WriterPanics, readerVars
<1> QED
  BY <1>1, <1>2, <1>3, <1>4, <1>5, <1>6, <1>7, <1>8, <1>9, <1>10, <1>11, <1>12,
     <1>13, <1>14, <1>15, <1>16, <1>17, <1>18, <1>19, <1>20, <1>21
  DEF Next, ReaderTask, Coordinator, Execute, WriterTask, Terminated,
      RecvNone, SeeCancel, SendRefused

(* Every reachable state is well-typed, and the channels keep to their     *)
(* capacities.                                                             *)
THEOREM TypeCorrect == Spec => []TypeOK
<1>1. TypeInv => TypeOK
  BY DEF TypeInv
<1> QED BY InitTypeInv, NextTypeInv, <1>1, PTL DEF Spec
-----------------------------------------------------------------------------
(***************************************************************************)
(* The resume point of a successful job is safe, for every table, job and  *)
(* configuration.  A chunk is settled if, once all the chunks ahead of it  *)
(* are in the write channel, recording its range loses no row: its rows    *)
(* are all the job's rows in that range and, for the first reader (the     *)
(* only one to see rows up to the tracker's start), every row up to its    *)
(* end is in it or ahead of it.                                            *)
(***************************************************************************)

(* Row k is handed over, or about to be, ahead of the i-th waiting chunk.  *)
Ahead(k, i) == \/ k \in queued
               \/ k \in held.rows
               \/ \E j \in 1..(i - 1) : k \in readQ[j].rows

Low(c) == OrElse(c.first, Start)

AboveStart(p) == job.resume_from_pk # None \/ (p # None /\ p > Start)

Settled(c, i) ==
  c.last # None =>
    /\ \A k \in Rows : Low(c) < k /\ k <= c.last => k \in c.rows
    /\ c.reader = 1 => \A k \in Rows : k <= c.last => Ahead(k, i) \/ k \in c.rows
    /\ c.reader # 1 => AboveStart(Low(c))

Behind == Len(readQ) + 1

(* A reader with a chunk in hand, and one about to read.                   *)
OutInv(r) ==
  rd[r] = "send" =>
    /\ Settled(out[r], Behind)
    /\ out[r].reader = r
    /\ job.paging # "offset" => out[r].last = Max(out[r].rows)
    /\ r # 1 => AboveStart(Max(out[r].rows))

CursorInv(r) ==
  job.paging # "offset" =>
    /\ r = 1 /\ rd[r] \in {"idle", "read"} =>
         \A k \in Rows : Selects(k, pos[r], fresh[r], None) \/ Ahead(k, Behind)
    /\ r # 1 => AboveStart(pos[r])

DispatchInv ==
  /\ coord = "start" => \A r \in Readers : rd[r] = "idle"
  /\ main = "recv" => held.rows = {}
  /\ Settled(held, 1)
  /\ \A i \in 1..Len(readQ) : Settled(readQ[i], i)
  /\ \A r \in Readers : OutInv(r) /\ CursorInv(r)

(* What the tracker records was handed over.                               *)
TrackerInv ==
  \A a \in DOMAIN ranges : \A k \in Rows :
    k <= ranges[a] /\ (a < k \/ a <= Start) => k \in queued

(* What was handed over is written, waiting or in a writer's hands, unless *)
(* a writer failed; a writer only ends on a drained channel.               *)
WriterInv ==
  /\ \/ \E w \in Writers : wr[w] = "failed"
     \/ \A k \in queued : \/ k \in written
                          \/ \E i \in 1..Len(writeQ) : k \in writeQ[i]
                          \/ \E w \in Writers : k \in hand[w]
  /\ \A w \in Writers : wr[w] # "write" => hand[w] = {}
  /\ \A w \in Writers : wr[w] = "ended" => ~Dispatching /\ writeQ = << >>
  /\ main = "ok" => \A w \in Writers : wr[w] = "ended"

SafeInv == (Dispatching => DispatchInv) /\ TrackerInv /\ WriterInv
-----------------------------------------------------------------------------
(* RangeTracker::new starts at a key.                                      *)
LEMMA StartTyped == TypeInv => Start \in Int
BY PipelineAssumption
   DEF TypeInv, TypeOK, Start, TrackerStart, OrElse, Opt, JobType

(* The rows of a job, and where the first reader begins.                   *)
LEMMA RowFacts ==
  ASSUME TypeInv, NEW k \in Rows
  PROVE  /\ k \in Keys /\ k \in Int
         /\ job.paging # "offset" /\ job.resume_from_pk # None => k > Start
         /\ job.paging # "offset"
              => Selects(k, OrElse(job.resume_from_pk, job.min_pk), job.resume_from_pk = None, None)
<1>1. job \in JobType /\ Keys \subseteq Int
  BY PipelineAssumption DEF TypeInv, TypeOK
<1>2. k \in Keys /\ k \in Int
  BY <1>1 DEF Rows, JobRows
<1>3. job.paging # "offset"
        => Selects(k, OrElse(job.resume_from_pk, job.min_pk), job.resume_from_pk = None, job.max_pk)
  BY <1>1, <1>2 DEF Rows, JobRows, Selects, OrElse, JobType, Opt
<1>4. job.paging # "offset" /\ job.resume_from_pk # None => k > Start
  BY DEF Rows, JobRows, Start, TrackerStart, OrElse
<1> QED BY <1>2, <1>3, <1>4 DEF Selects

(* Only a keyset job has a second reader.                                  *)
LEMMA LaterReader ==
  ASSUME TypeInv, NEW r \in Readers, r # 1
  PROVE  job.paging = "keyset"
BY PlanTyped DEF TypeInv, TypeOK

(* A step that leaves the readers and the read channel alone keeps what is *)
(* said of them.                                                           *)
LEMMA DispatchFrame ==
  ASSUME DispatchInv, UNCHANGED <<job, rd, pos, fresh, out, readQ, held, queued>>,
         main' = "recv" => main = "recv", coord' = "start" => coord = "start"
  PROVE  DispatchInv'
BY PlanStable
   DEF DispatchInv, Settled, OutInv, CursorInv, Ahead, Low, AboveStart, Behind

(* Handing over more rows keeps the recorded ranges justified.             *)
LEMMA TrackerFrame ==
  ASSUME TrackerInv, UNCHANGED <<job, ranges>>, queued \subseteq queued'
  PROVE  TrackerInv'
BY PlanStable DEF TrackerInv

(* The strengthened invariant holds when execute starts ...                *)
LEMMA InitSafeInv == Init => SafeInv
<1> SUFFICES ASSUME Init PROVE SafeInv
  OBVIOUS
<1>0. TypeInv
  BY InitTypeInv
<1>1. DispatchInv
  <2>1. /\ held.rows = {} /\ held.last = None /\ readQ = << >>
        /\ \A r \in Readers : rd[r] # "send"
    BY DEF Init, NoChunk
  <2>2. Settled(held, 1) /\ \A i \in 1..Len(readQ) : Settled(readQ[i], i)
    BY <2>1 DEF Settled
  <2>3. ASSUME NEW r \in Readers
        PROVE  OutInv(r) /\ CursorInv(r)
    <3>1. job \in Jobs
      BY DEF Init
    <3>2. OutInv(r)
      BY <2>1 DEF OutInv
    <3>3. pos[r] = Plan[r].from /\ fresh[r] = Plan[r].fresh
      BY DEF Init
    <3>4. job.paging # "offset" /\ r = 1 => \A k \in Rows : Selects(k, pos[r], fresh[r], None)
      <4> SUFFICES ASSUME job.paging # "offset", r = 1, NEW k \in Rows
                   PROVE  Selects(k, pos[r], fresh[r], None)
        OBVIOUS
      <4>1. pos[r] = OrElse(job.resume_from_pk, job.min_pk)
        BY <3>1, <3>3, PlanTyped
      <4>2. fresh[r] <=> (job.resume_from_pk = None)
        BY <3>1, <3>3, PlanTyped
      <4>3. Selects(k, OrElse(job.resume_from_pk, job.min_pk), job.resume_from_pk = None, None)
        BY <1>0, RowFacts
      <4> QED BY <4>1, <4>2, <4>3 DEF Selects
    <3>5. r # 1 => AboveStart(pos[r])
      BY <3>1, <3>3, PlanTyped DEF AboveStart
    <3> QED BY <3>2, <3>4, <3>5 DEF CursorInv
  <2>4. \A r \in Readers : rd[r] = "idle"
    BY DEF Init
  <2> QED BY <2>1, <2>2, <2>3, <2>4 DEF DispatchInv
<1>2. TrackerInv
  BY DEF Init, TrackerInv, NoRanges
<1>3. WriterInv
  BY DEF Init, WriterInv
<1> QED BY <1>1, <1>2, <1>3 DEF SafeInv
-----------------------------------------------------------------------------
(* A query's chunk is settled.                                             *)
LEMMA ReadChunkSafe ==
  ASSUME TypeInv, DispatchInv, NEW r \in Readers, ReadChunk(r)
  PROVE  DispatchInv'
<1> DEFINE N == NextRows(r)
           c == ChunkOf(r, N)
<1>0. job' = job /\ UNCHANGED <<pos, readQ, held, queued, main>>
  BY DEF ReadChunk
<1>1. /\ Plan' = Plan /\ Readers' = Readers /\ Rows' = Rows /\ Start' = Start
  BY <1>0, PlanStable
<1>2. \A k, i : Ahead(k, i)' <=> Ahead(k, i)
  BY <1>0 DEF Ahead
<1>3. \A p : AboveStart(p)' <=> AboveStart(p)
  BY <1>0, <1>1 DEF AboveStart
<1>4. \A ch, i : Settled(ch, i) => Settled(ch, i)'
  BY <1>1, <1>2, <1>3 DEF Settled, Low
<1>5. Settled(held, 1)' /\ (main' = "recv" => held'.rows = {})
      /\ (\A i \in 1..Len(readQ) : Settled(readQ[i], i))'
  BY <1>0, <1>4 DEF DispatchInv, Settled, Ahead, Low, AboveStart
<1>6. ASSUME NEW s \in Readers, s # r
      PROVE  (OutInv(s) /\ CursorInv(s))'
  <2>1. rd'[s] = rd[s] /\ out'[s] = out[s] /\ fresh'[s] = fresh[s]
    BY <1>6 DEF ReadChunk, TypeInv, TypeOK
  <2>2. Behind' = Behind
    BY <1>0 DEF Behind
  <2>3. OutInv(s) /\ CursorInv(s)
    BY DEF DispatchInv
  <2> QED BY <1>0, <1>1, <1>2, <1>3, <1>4, <2>1, <2>2, <2>3 DEF OutInv, CursorInv, Settled, Low
<1>7. CursorInv(r)'
  <2>1. rd'[r] \in {"ok", "send"}
    BY DEF ReadChunk, TypeInv, TypeOK
  <2>2. CursorInv(r)
    BY DEF DispatchInv
  <2> QED BY <1>0, <1>3, <2>1, <2>2 DEF CursorInv
<1>8. OutInv(r)'
  <2>1. CASE N = {}
    BY <2>1 DEF ReadChunk, TypeInv, TypeOK, OutInv
  <2>2. CASE N # {}
    <3>1. out'[r] = c
      BY <2>2 DEF ReadChunk, TypeInv, TypeOK
    <3>2. /\ c \in Chunk /\ N \subseteq Keys /\ N \subseteq Int /\ IsFiniteSet(N)
          /\ Max(N) \in N /\ Min(N) \in N
          /\ \A k \in N : Min(N) <= k /\ k <= Max(N)
      BY <2>2, ChunkTyped, PipelineAssumption
    <3>3. c.reader = r /\ c.rows = N /\ (job.paging # "offset" => c.last = Max(N))
          /\ (job.paging = "offset" => c.last = None)
          /\ (job.paging = "keyset" => c.first = pos[r])
          /\ (job.paging = "copy" => c.first = Min(N))
      BY DEF ChunkOf
    <3>4. job \in JobType /\ pos[r] \in Opt(Int) /\ fresh[r] \in BOOLEAN
          /\ Plan[r].to \in Opt(Int) /\ Start \in Int
      BY PipelineAssumption, PlanTyped, StartTyped DEF TypeInv, TypeOK, RangeType
    <3>5. ASSUME NEW k \in Rows, k <= Max(N), Selects(k, pos[r], fresh[r], None)
          PROVE  k \in N
      BY <3>2, <3>4, <3>5, RowFacts, ChunkSkipsNothing, PipelineAssumption DEF NextRows, JobType
    <3>6. \A k \in N : pos[r] # None => k >= pos[r]
      <4>1. \A k \in N : Selects(k, pos[r], fresh[r], Plan[r].to)
        BY ChunkSelected DEF NextRows
      <4> QED BY <4>1, <3>2, <3>4 DEF Selects, Opt
    <3>7. CursorInv(r)
      BY DEF DispatchInv
    <3>8. r # 1 => job.paging = "keyset"
      BY LaterReader
    <3>9. r # 1 => AboveStart(pos[r]) /\ AboveStart(Max(N)) /\ AboveStart(Low(c))
      <4> SUFFICES ASSUME r # 1 PROVE AboveStart(pos[r]) /\ AboveStart(Max(N)) /\ AboveStart(Low(c))
        OBVIOUS
      <4>1. AboveStart(pos[r]) /\ c.first = pos[r]
        BY <3>3, <3>7, <3>8 DEF CursorInv
      <4>2. Max(N) # None /\ Max(N) \in Int
        BY <3>2, NoneAssumption
      <4>3. pos[r] # None => pos[r] \in Int /\ Max(N) >= pos[r]
        BY <3>2, <3>4, <3>6 DEF Opt
      <4> QED BY <3>4, <4>1, <4>2, <4>3 DEF AboveStart, Low, OrElse
    <3>10. ASSUME c.last # None, NEW k \in Rows, Low(c) < k, k <= c.last
           PROVE  k \in c.rows
      <4>1. job.paging # "offset" /\ k <= Max(N) /\ k \in Int
        BY <3>3, <3>10, RowFacts
      <4>2. CASE job.paging = "keyset"
        <5>1. Selects(k, pos[r], fresh[r], None)
          BY <3>3, <3>10, <4>2 DEF Selects, Low, OrElse
        <5> QED BY <3>3, <3>5, <4>1, <5>1
      <4>3. CASE job.paging = "copy"
        <5>1. Low(c) = Min(N)
          BY <3>2, <3>3, <4>3, NoneAssumption DEF Low, OrElse
        <5>2. pos[r] = None \/ k > pos[r]
          BY <3>2, <3>4, <3>6, <3>10, <4>1, <5>1 DEF Opt
        <5>3. Selects(k, pos[r], fresh[r], None)
          BY <5>2 DEF Selects
        <5> QED BY <3>3, <3>5, <4>1, <5>3
      <4> QED BY <3>4, <4>1, <4>2, <4>3 DEF JobType
    <3>11. ASSUME c.last # None, r = 1, NEW k \in Rows, k <= c.last
           PROVE  Ahead(k, Behind) \/ k \in c.rows
      <4>1. job.paging # "offset" /\ k <= Max(N)
        BY <3>3, <3>11
      <4>2. rd[r] = "read"
        BY DEF ReadChunk
      <4>3. Selects(k, pos[r], fresh[r], None) \/ Ahead(k, Behind)
        BY <3>7, <3>11, <4>1, <4>2 DEF CursorInv
      <4> QED BY <3>3, <3>5, <4>1, <4>3
    <3>12. Settled(c, Behind)
      BY <3>3, <3>9, <3>10, <3>11 DEF Settled
    <3>13. PICK d, e : d = c /\ e = Max(N)
      OBVIOUS
    <3>14. Settled(d, Behind)' /\ (r # 1 => AboveStart(e)')
      <4>1. Settled(d, Behind) /\ (r # 1 => AboveStart(e))
        BY <3>9, <3>12, <3>13
      <4>2. Behind' = Behind
        BY <1>0 DEF Behind
      <4> HIDE DEF c, N
      <4> QED BY <1>1, <1>2, <1>3, <4>1, <4>2 DEF Settled, Low
    <3>15. out'[r] = d /\ d.reader = r /\ Max(d.rows) = e
           /\ (job'.paging # "offset" => d.last = e)
      BY <1>0, <3>1, <3>3, <3>13
    <3> HIDE DEF c, N
    <3> QED BY <3>14, <3>15 DEF OutInv, Settled, Low, AboveStart, Ahead
  <2> QED BY <2>1, <2>2
<1>9. coord' # "start"
  BY DEF ReadChunk, DispatchInv
<1> QED BY <1>1, <1>5, <1>6, <1>7, <1>8, <1>9 DEF DispatchInv
(* A reader that starts or fails has no chunk in hand; its cursor stays.   *)
LEMMA ReaderStateSafe ==
  ASSUME TypeInv, DispatchInv, SpawnReaders \/ \E r \in Readers : ReadFail(r)
  PROVE  DispatchInv'
<1>1. UNCHANGED <<job, pos, fresh, out, readQ, held, queued, main>>
  BY DEF SpawnReaders, ReadFail
<1>2. Readers' = Readers /\ Rows' = Rows /\ Start' = Start
  BY <1>1, PlanStable
<1>3. \A r \in Readers :
        /\ rd'[r] = "send" => rd[r] = "send"
        /\ rd'[r] \in {"idle", "read"} => rd[r] \in {"idle", "read"}
  BY DEF SpawnReaders, ReadFail, TypeInv, TypeOK, DispatchInv
<1>4. coord' # "start"
  BY DEF SpawnReaders, ReadFail, DispatchInv
<1> QED BY <1>1, <1>2, <1>3, <1>4
        DEF DispatchInv, Settled, OutInv, CursorInv, Ahead, Low, AboveStart, Behind

(* The chunk a reader sends is the last one in the read channel, and every *)
(* row up to its end is in it or ahead of it.                              *)
LEMMA SendChunkSafe ==
  ASSUME TypeInv, DispatchInv, NEW r \in Readers, SendChunk(r)
  PROVE  DispatchInv'
<1>n. PICK n : n = Len(readQ)
  OBVIOUS
<1>0. UNCHANGED <<job, fresh, held, queued, main, coord>> /\ rd[r] = "send"
  BY DEF SendChunk
<1>1. Readers' = Readers /\ Rows' = Rows /\ Start' = Start
  BY <1>0, PlanStable
<1>2. PICK c : c = out[r]
  OBVIOUS
<1>3. /\ c \in Chunk /\ c.rows # {} /\ c.rows \subseteq Int /\ IsFiniteSet(c.rows)
      /\ c.reader = r
      /\ Max(c.rows) \in c.rows
      /\ job.paging # "offset" => c.last = Max(c.rows)
      /\ r # 1 => AboveStart(Max(c.rows))
      /\ Settled(c, n + 1)
  <2>1. c \in Chunk /\ c.rows # {}
    BY <1>0, <1>2 DEF TypeInv
  <2>2. c.rows \subseteq Int /\ IsFiniteSet(c.rows)
    BY <2>1, PipelineAssumption, FS_Subset DEF Chunk
  <2>3. Max(c.rows) \in c.rows
    BY <2>1, <2>2, MaxIsGreatest
  <2>4. OutInv(r)
    BY DEF DispatchInv
  <2> QED BY <1>n, <1>0, <1>2, <2>1, <2>2, <2>3, <2>4 DEF OutInv, Behind
<1>4. /\ n \in Nat /\ Len(readQ') = n + 1 /\ readQ'[n + 1] = c
      /\ \A i \in 1..n : readQ'[i] = readQ[i]
  BY <1>n, <1>2 DEF SendChunk, TypeInv, TypeOK
<1>5. \A k : \A i \in 1..(n + 1) : Ahead(k, i)' <=> Ahead(k, i)
  BY <1>0, <1>4 DEF Ahead
<1>6. \A k : Ahead(k, n + 2)' <=> Ahead(k, n + 1) \/ k \in c.rows
  <2> SUFFICES ASSUME NEW k
               PROVE  (\E j \in 1..(n + 1) : k \in readQ'[j].rows)
                        <=> (\E j \in 1..n : k \in readQ[j].rows) \/ k \in c.rows
    <3>1. (n + 2) - 1 = n + 1 /\ (n + 1) - 1 = n
      BY <1>4
    <3> QED BY <1>0, <3>1 DEF Ahead
  <2>1. 1..(n + 1) = 1..n \cup {n + 1}
    BY <1>4
  <2> QED BY <1>4, <2>1
<1>7. \A p : AboveStart(p)' <=> AboveStart(p)
  BY <1>0, <1>1 DEF AboveStart
<1>8. \A ch : \A i \in 1..(n + 1) : Settled(ch, i) => Settled(ch, i)'
  BY <1>1, <1>5, <1>7 DEF Settled, Low
<1>9. \A ch : Settled(ch, n + 1) => Settled(ch, n + 2)'
  BY <1>1, <1>6, <1>7 DEF Settled, Low
<1>10. Settled(held, 1)' /\ (main' = "recv" => held'.rows = {})
  <2>1. Settled(held, 1)
    BY DEF DispatchInv
  <2> QED BY <1>0, <1>1, <1>4, <1>5, <1>7, <2>1 DEF DispatchInv, Settled, Low
<1>11. \A i \in 1..(n + 1) : Settled(readQ[i], i)'
  <2>1. ASSUME NEW i \in 1..(n + 1) PROVE Settled(readQ[i], i)'
    <3>1. PICK d : d = readQ'[i]
      OBVIOUS
    <3>2. Settled(d, i)
      <4>1. CASE i = n + 1
        BY <1>3, <1>4, <3>1, <4>1
      <4>2. CASE i \in 1..n
        BY <1>n, <1>4, <3>1, <4>2 DEF DispatchInv
      <4> QED BY <1>4, <4>1, <4>2
    <3>3. Settled(d, i)'
      BY <1>8, <3>2
    <3> QED BY <3>1, <3>3 DEF Settled, Low
  <2> QED BY <2>1
<1>12. ASSUME NEW s \in Readers
       PROVE  OutInv(s)'
  <2>1. rd'[s] = "send" => s # r /\ rd[s] = "send" /\ out'[s] = out[s]
    BY DEF SendChunk, TypeInv, TypeOK
  <2>2. PICK d : d = out[s]
    OBVIOUS
  <2>3. rd'[s] = "send" => Settled(d, n + 2)' /\ (s # 1 => AboveStart(Max(d.rows))')
    BY <1>n, <1>7, <1>9, <2>1, <2>2 DEF DispatchInv, OutInv, Behind
  <2>4. Behind' = n + 2
    BY <1>4 DEF Behind
  <2>5. rd'[s] = "send" => out'[s] = d /\ d.reader = s
          /\ (job'.paging # "offset" => d.last = Max(d.rows))
    BY <1>0, <2>1, <2>2 DEF DispatchInv, OutInv
  <2> QED BY <2>3, <2>4, <2>5 DEF OutInv, Settled, Low, AboveStart
<1>13. ASSUME NEW s \in Readers, job.paging # "offset"
       PROVE  CursorInv(s)'
  <2>1. Behind' = n + 2
    BY <1>4 DEF Behind
  <2>2. CASE s = r
    <3>1. pos'[r] = Max(c.rows)
      BY <1>2 DEF SendChunk, TypeInv, TypeOK
    <3>2. ASSUME r = 1, NEW k \in Rows
          PROVE  k > Max(c.rows) \/ Ahead(k, n + 2)'
      <4>1. k \in Int /\ Max(c.rows) \in Int /\ c.last = Max(c.rows) /\ c.last # None
        BY <1>3, <1>13, RowFacts, NoneAssumption
      <4>2. k <= c.last => Ahead(k, n + 1) \/ k \in c.rows
        BY <1>3, <3>2, <4>1 DEF Settled
      <4> QED BY <1>6, <4>1, <4>2
    <3>3. r # 1 => AboveStart(pos[r])'
      <4>1. PICK e : e = Max(c.rows)
        OBVIOUS
      <4>2. r # 1 => AboveStart(e)'
        BY <1>3, <1>7, <4>1
      <4> QED BY <3>1, <4>1, <4>2 DEF AboveStart
    <3>4. r = 1 => \A k \in Rows : Selects(k, pos'[r], fresh'[r], None) \/ Ahead(k, n + 2)'
      BY <3>1, <3>2 DEF Selects
    <3> QED BY <1>0, <1>1, <2>1, <2>2, <3>3, <3>4 DEF CursorInv, Ahead
  <2>3. CASE s # r
    <3>1. pos'[s] = pos[s] /\ rd'[s] = rd[s] /\ fresh'[s] = fresh[s]
      BY <1>0, <2>3 DEF SendChunk, TypeInv, TypeOK
    <3>2. CursorInv(s)
      BY DEF DispatchInv
    <3>3. s # 1 => AboveStart(pos[s])'
      <4>1. PICK e : e = pos[s]
        OBVIOUS
      <4>2. s # 1 => AboveStart(e)'
        BY <1>7, <1>13, <3>2, <4>1 DEF CursorInv
      <4> QED BY <3>1, <4>1, <4>2 DEF AboveStart
    <3>4. \A k : Ahead(k, Behind) => Ahead(k, Behind)'
      <4>1. Behind = n + 1
        BY <1>n DEF Behind
      <4> QED BY <1>6, <2>1, <4>1 DEF Ahead
    <3> QED BY <1>0, <1>1, <1>13, <3>1, <3>2, <3>3, <3>4 DEF CursorInv
  <2> QED BY <2>2, <2>3
<1>14. \A s \in Readers : CursorInv(s)'
  <2>1. job.paging = "offset" => \A s \in Readers : CursorInv(s)'
    BY <1>0 DEF CursorInv
  <2> QED BY <1>13, <2>1
<1>15. coord' # "start"
  BY <1>0 DEF DispatchInv
<1> QED BY <1>1, <1>4, <1>10, <1>11, <1>12, <1>14, <1>15 DEF DispatchInv

(* Taking the first chunk moves every other one a place forward.           *)
LEMMA RecvSafe ==
  ASSUME TypeInv, DispatchInv, Recv
  PROVE  DispatchInv'
<1>0. UNCHANGED <<job, rd, pos, fresh, out, queued, coord>> /\ main = "recv" /\ main' = "send"
  BY DEF Recv, readerVars
<1>1. Readers' = Readers /\ Rows' = Rows /\ Start' = Start
  BY <1>0, PlanStable
<1>2. /\ Len(readQ) \in Nat \ {0} /\ Len(readQ') = Len(readQ) - 1
      /\ held' = readQ[1] /\ held.rows = {}
      /\ \A i \in 1..Len(readQ') : readQ'[i] = readQ[i + 1]
  BY <1>0 DEF Recv, TypeInv, TypeOK, DispatchInv
<1>3. \A k : \A i \in 1..(Len(readQ') + 1) : Ahead(k, i)' <=> Ahead(k, i + 1)
  <2> SUFFICES ASSUME NEW k, NEW i \in 1..(Len(readQ') + 1)
               PROVE  Ahead(k, i)' <=> Ahead(k, i + 1)
    OBVIOUS
  <2>1. (\E j \in 1..(i - 1) : k \in readQ'[j].rows) <=> \E j \in 2..i : k \in readQ[j].rows
    <3>1. ASSUME NEW j \in 1..(i - 1), k \in readQ'[j].rows
          PROVE  \E m \in 2..i : k \in readQ[m].rows
      <4>1. j + 1 \in 2..i /\ readQ'[j] = readQ[j + 1]
        BY <1>2
      <4> QED BY <3>1, <4>1
    <3>2. ASSUME NEW j \in 2..i, k \in readQ[j].rows
          PROVE  \E m \in 1..(i - 1) : k \in readQ'[m].rows
      <4>1. j - 1 \in 1..(i - 1) /\ readQ'[j - 1] = readQ[j]
        BY <1>2
      <4> QED BY <3>2, <4>1
    <3> QED BY <3>1, <3>2
  <2>2. Ahead(k, i + 1) <=> k \in queued \/ k \in readQ[1].rows \/ \E j \in 2..i : k \in readQ[j].rows
    BY <1>2 DEF Ahead
  <2> QED BY <1>0, <1>2, <2>1, <2>2 DEF Ahead
<1>4. \A p : AboveStart(p)' <=> AboveStart(p)
  BY <1>0, <1>1 DEF AboveStart
<1>5. \A c : \A i \in 1..(Len(readQ') + 1) : Settled(c, i + 1) => Settled(c, i)'
  BY <1>1, <1>3, <1>4 DEF Settled, Low
<1>6. Settled(held, 1)'
  <2>1. PICK c : c = held'
    OBVIOUS
  <2>2. Settled(c, 1)
    BY <1>2, <2>1 DEF DispatchInv
  <2>3. \A k : Ahead(k, 1) => Ahead(k, 1)'
    BY <1>0, <1>2 DEF Ahead
  <2> QED BY <1>1, <1>4, <2>1, <2>2, <2>3 DEF Settled, Low
<1>7. \A i \in 1..Len(readQ') : Settled(readQ[i], i)'
  <2> SUFFICES ASSUME NEW i \in 1..Len(readQ') PROVE Settled(readQ[i], i)'
    OBVIOUS
  <2>1. PICK c : c = readQ'[i]
    OBVIOUS
  <2>2. Settled(c, i + 1)
    <3>1. i + 1 \in 1..Len(readQ) /\ c = readQ[i + 1]
      BY <1>2, <2>1
    <3> QED BY <3>1 DEF DispatchInv
  <2>3. Settled(c, i)'
    BY <1>2, <1>5, <2>2
  <2> QED BY <2>1, <2>3 DEF Settled, Low
<1>8. Behind' + 1 = Behind /\ Behind' \in 1..(Len(readQ') + 1)
  BY <1>2 DEF Behind
<1>9. ASSUME NEW r \in Readers
      PROVE  OutInv(r)' /\ CursorInv(r)'
  <2>1. OutInv(r) /\ CursorInv(r)
    BY DEF DispatchInv
  <2>2. PICK c : c = out[r]
    OBVIOUS
  <2>3. rd[r] = "send" => Settled(c, Behind)'
    <3>1. PICK b : b = Behind'
      OBVIOUS
    <3>2. rd[r] = "send" => Settled(c, b)'
      BY <1>5, <1>8, <2>1, <2>2, <3>1 DEF OutInv
    <3> QED BY <3>1, <3>2 DEF Settled
  <2>4. OutInv(r)'
    <3>1. PICK e : e = Max(c.rows)
      OBVIOUS
    <3>2. rd[r] = "send" /\ r # 1 => AboveStart(e)'
      BY <1>4, <2>1, <2>2, <3>1 DEF OutInv
    <3> QED BY <1>0, <2>1, <2>2, <2>3, <3>1, <3>2 DEF OutInv, Settled, Low, AboveStart
  <2>5. CursorInv(r)'
    <3>1. PICK b, e : b = Behind' /\ e = pos[r]
      OBVIOUS
    <3>2. \A k : Ahead(k, Behind) => Ahead(k, b)'
      BY <1>3, <1>8, <3>1
    <3>3. AboveStart(e) => AboveStart(e)'
      BY <1>4
    <3> QED BY <1>0, <1>1, <2>1, <3>1, <3>2, <3>3 DEF CursorInv, AboveStart, Ahead
  <2> QED BY <2>4, <2>5
<1> QED BY <1>0, <1>1, <1>6, <1>7, <1>9 DEF DispatchInv
(* Handing a chunk over changes nothing for the chunks behind it.          *)
LEMMA SendKeepsOrder ==
  ASSUME TypeInv, DispatchInv, Send
  PROVE  DispatchInv'
<1>0. /\ UNCHANGED <<job, rd, pos, fresh, out, readQ, coord>>
      /\ held' = NoChunk /\ queued' = queued \cup held.rows
  BY DEF Send, readerVars
<1>1. Readers' = Readers /\ Rows' = Rows /\ Start' = Start /\ Behind' = Behind
  BY <1>0, PlanStable DEF Behind
<1>2. \A k, i : Ahead(k, i) => Ahead(k, i)'
  BY <1>0 DEF Ahead
<1>3. \A p : AboveStart(p)' <=> AboveStart(p)
  BY <1>0, <1>1 DEF AboveStart
<1>4. \A c, i : Settled(c, i) => Settled(c, i)'
  BY <1>1, <1>2, <1>3 DEF Settled, Low
<1>5. Settled(held, 1)' /\ held'.rows = {}
  BY <1>0 DEF Settled, NoChunk
<1>6. ASSUME NEW i \in 1..Len(readQ)
      PROVE  Settled(readQ[i], i)'
  <2>1. PICK c : c = readQ[i]
    OBVIOUS
  <2>2. Settled(c, i)'
    BY <1>4, <2>1 DEF DispatchInv
  <2> QED BY <1>0, <2>1, <2>2 DEF Settled, Low
<1>7. ASSUME NEW r \in Readers
      PROVE  OutInv(r)' /\ CursorInv(r)'
  <2>1. OutInv(r) /\ CursorInv(r)
    BY DEF DispatchInv
  <2>2. PICK c, b, e, q : c = out[r] /\ b = Behind /\ e = Max(c.rows) /\ q = pos[r]
    OBVIOUS
  <2>3. rd[r] = "send" => Settled(c, b)' /\ (r # 1 => AboveStart(e)')
    BY <1>3, <1>4, <2>1, <2>2 DEF OutInv
  <2>4. OutInv(r)'
    BY <1>0, <1>1, <2>1, <2>2, <2>3 DEF OutInv, Settled, Low, AboveStart
  <2>5. (AboveStart(q) => AboveStart(q)') /\ \A k : Ahead(k, b) => Ahead(k, b)'
    BY <1>2, <1>3
  <2>6. CursorInv(r)'
    BY <1>0, <1>1, <2>1, <2>2, <2>5 DEF CursorInv, AboveStart, Ahead
  <2> QED BY <2>4, <2>6
<1> QED BY <1>0, <1>1, <1>5, <1>6, <1>7 DEF DispatchInv

(* Recording the range of the chunk just handed over loses no row.         *)
LEMMA SendTracked ==
  ASSUME TypeInv, DispatchInv, TrackerInv, Send
  PROVE  TrackerInv'
<1>0. /\ job' = job /\ queued' = queued \cup held.rows
      /\ ranges' = AddRange(ranges, Start, held.first, held.last)
  BY DEF Send, readerVars
<1>1. Rows' = Rows /\ Start' = Start
  BY <1>0, PlanStable
<1>2. CASE held.last = None
  BY <1>0, <1>1, <1>2 DEF TrackerInv, AddRange
<1>3. CASE held.last # None
  <2>1. /\ held \in Chunk /\ Settled(held, 1)
        /\ \A k : Ahead(k, 1) <=> k \in queued \/ k \in held.rows
    BY <1>3 DEF TypeInv, TypeOK, NoChunk, DispatchInv, Ahead
  <2>2. Low(held) \in Int /\ held.last \in Int /\ Start \in Int
    BY <1>3, <2>1, StartTyped DEF Low, OrElse, Chunk, Opt
  <2>3. ASSUME NEW k \in Rows, k <= held.last, Low(held) < k \/ Low(held) <= Start
        PROVE  k \in queued'
    <3>1. k \in Int
      BY RowFacts
    <3>2. CASE Low(held) < k
      BY <1>0, <1>3, <2>1, <2>3, <3>2 DEF Settled
    <3>3. CASE Low(held) <= Start /\ held.reader = 1
      BY <1>0, <1>3, <2>1, <2>3, <3>3 DEF Settled
    <3>4. CASE Low(held) <= Start /\ held.reader # 1 /\ ~(Low(held) < k)
      <4>1. job.resume_from_pk # None
        BY <1>3, <2>1, <2>2, <3>4 DEF Settled, AboveStart
      <4>2. held.reader \in Readers
        BY <2>1 DEF Chunk
      <4>3. job.paging = "keyset"
        BY <3>4, <4>2, LaterReader
      <4>4. k > Start
        BY <4>1, <4>3, RowFacts
      <4> QED BY <2>2, <3>1, <3>4, <4>4
    <3> QED BY <2>3, <3>2, <3>3, <3>4
  <2>4. ranges' = [a \in DOMAIN ranges \cup {Low(held)} |->
                     IF a = Low(held) THEN held.last ELSE ranges[a]]
    BY <1>0, <1>3 DEF AddRange, Low
  <2>5. ASSUME NEW a \in DOMAIN ranges', NEW k \in Rows, k <= ranges'[a], a < k \/ a <= Start
        PROVE  k \in queued'
    <3>1. CASE a = Low(held)
      BY <2>3, <2>4, <2>5, <3>1
    <3>2. CASE a # Low(held)
      BY <1>0, <2>4, <2>5, <3>2 DEF TrackerInv
    <3> QED BY <3>1, <3>2
  <2> QED BY <1>1, <2>5 DEF TrackerInv
<1> QED BY <1>2, <1>3
-----------------------------------------------------------------------------
(* The writers' side.                                                      *)
LEMMA WriterSafe ==
  ASSUME TypeInv, WriterInv, [Next]_vars
  PROVE  WriterInv'
<1> USE DEF WriterInv
<1>1. CASE UNCHANGED <<wr, hand, written, writeQ, queued>>
           /\ (Dispatching' => Dispatching) /\ (main' = "ok" => main = "ok")
  BY <1>1
<1>2. CASE Send
  <2>1. /\ UNCHANGED <<wr, hand, written>> /\ main = "send" /\ main' = "recv"
        /\ writeQ' = Append(writeQ, held.rows) /\ queued' = queued \cup held.rows
    BY <1>2 DEF Send, writerVars
  <2>2. /\ Len(writeQ) \in Nat /\ Len(writeQ') = Len(writeQ) + 1
        /\ writeQ'[Len(writeQ) + 1] = held.rows
        /\ \A i \in 1..Len(writeQ) : writeQ'[i] = writeQ[i]
    BY <2>1 DEF TypeInv, TypeOK
  <2>3. Dispatching
    BY <2>1 DEF Dispatching
  <2>4. \A w \in Writers : wr[w] # "ended"
    BY <2>3
  <2>5. ASSUME \A w \in Writers : wr[w] # "failed", NEW k \in queued'
        PROVE  \/ k \in written
               \/ \E i \in 1..Len(writeQ') : k \in writeQ'[i]
               \/ \E w \in Writers : k \in hand[w]
    <3>1. CASE k \in held.rows
      BY <2>2, <3>1
    <3>2. CASE k \in queued
      <4>1. CASE \E i \in 1..Len(writeQ) : k \in writeQ[i]
        <5>1. PICK i \in 1..Len(writeQ) : k \in writeQ[i]
          BY <4>1
        <5>2. i \in 1..Len(writeQ') /\ k \in writeQ'[i]
          BY <2>2, <5>1
        <5> QED BY <5>2
      <4> QED BY <2>5, <3>2, <4>1
    <3> QED BY <2>1, <3>1, <3>2
  <2> QED BY <2>1, <2>4, <2>5
<1>3. ASSUME NEW w \in Writers, TakeJob(w)
      PROVE  WriterInv'
  <2>1. /\ UNCHANGED <<main, written, queued>> /\ wr[w] = "recv" /\ writeQ # << >>
        /\ wr' = [wr EXCEPT ![w] = "write"] /\ hand' = [hand EXCEPT ![w] = Head(writeQ)]
        /\ writeQ' = Tail(writeQ)
    BY <1>3 DEF TakeJob
  <2>2. /\ Len(writeQ) \in Nat \ {0} /\ Len(writeQ') = Len(writeQ) - 1
        /\ hand'[w] = writeQ[1] /\ hand[w] = {} /\ wr'[w] = "write"
        /\ \A v \in Writers \ {w} : hand'[v] = hand[v] /\ wr'[v] = wr[v]
        /\ \A i \in 1..Len(writeQ') : writeQ'[i] = writeQ[i + 1]
    <3>1. /\ writeQ \in Seq(SUBSET Keys) /\ hand \in [Writers -> SUBSET Keys]
          /\ DOMAIN wr = Writers
      BY DEF TypeInv, TypeOK
    <3>2. /\ hand'[w] = Head(writeQ) /\ wr'[w] = "write" /\ hand[w] = {}
          /\ \A v \in Writers \ {w} : hand'[v] = hand[v] /\ wr'[v] = wr[v]
      BY <2>1, <3>1
    <3>3. /\ Len(writeQ) \in Nat \ {0} /\ Len(writeQ') = Len(writeQ) - 1
          /\ Head(writeQ) = writeQ[1]
          /\ \A i \in 1..Len(writeQ') : writeQ'[i] = writeQ[i + 1]
      BY <2>1, <3>1
    <3> QED BY <3>2, <3>3
  <2>3. \A v \in Writers : wr[v] # "ended"
    BY <2>1
  <2>4. ASSUME NEW k, NEW i \in 1..Len(writeQ), k \in writeQ[i]
        PROVE  k \in hand'[w] \/ \E j \in 1..Len(writeQ') : k \in writeQ'[j]
    <3>1. CASE i = 1
      BY <2>2, <2>4, <3>1
    <3>2. CASE i # 1
      <4>1. i - 1 \in 1..Len(writeQ') /\ writeQ'[i - 1] = writeQ[i]
        BY <2>2, <3>2
      <4> QED BY <2>4, <4>1
    <3> QED BY <3>1, <3>2
  <2>5. ASSUME \A v \in Writers : wr'[v] # "failed", NEW k \in queued
        PROVE  \/ k \in written
               \/ \E i \in 1..Len(writeQ') : k \in writeQ'[i]
               \/ \E v \in Writers : k \in hand'[v]
    <3>1. \A v \in Writers : wr[v] # "failed"
      BY <2>1, <2>2, <2>5
    <3>2. CASE \E v \in Writers : k \in hand[v]
      BY <2>2, <3>2
    <3> QED BY <2>4, <2>5, <3>1, <3>2
  <2> QED BY <2>1, <2>2, <2>3, <2>5 DEF Dispatching
<1>4. ASSUME NEW w \in Writers, WriteOk(w)
      PROVE  WriterInv'
  <2>1. /\ UNCHANGED <<main, writeQ, queued>> /\ wr[w] = "write"
        /\ written' = written \cup hand[w]
        /\ wr' = [wr EXCEPT ![w] = "recv"] /\ hand' = [hand EXCEPT ![w] = {}]
    BY <1>4 DEF WriteOk
  <2>2. /\ hand'[w] = {} /\ wr'[w] = "recv"
        /\ \A v \in Writers \ {w} : hand'[v] = hand[v] /\ wr'[v] = wr[v]
    BY <2>1 DEF TypeInv, TypeOK
  <2> QED BY <2>1, <2>2 DEF Dispatching
<1>5. ASSUME NEW w \in Writers, WriteFail(w) \/ WriterPanics(w)
      PROVE  WriterInv'
  <2>1. /\ UNCHANGED <<main, writeQ, queued>> /\ wr[w] = "write"
        /\ wr' = [wr EXCEPT ![w] = "failed"] /\ hand' = [hand EXCEPT ![w] = {}]
    BY <1>5 DEF WriteFail, WriterPanics
  <2>2. /\ hand'[w] = {} /\ wr'[w] = "failed"
        /\ \A v \in Writers \ {w} : hand'[v] = hand[v] /\ wr'[v] = wr[v]
    BY <2>1 DEF TypeInv, TypeOK
  <2> QED BY <2>1, <2>2 DEF Dispatching
<1>6. ASSUME NEW w \in Writers, OpenWriter(w)
      PROVE  WriterInv'
  <2>1. /\ UNCHANGED <<main, writeQ, queued, hand, written>> /\ wr[w] = "open"
        /\ wr'[w] = "recv"
        /\ \A v \in Writers \ {w} : wr'[v] = wr[v]
    BY <1>6 DEF OpenWriter, TypeInv, TypeOK
  <2> QED BY <2>1 DEF Dispatching
<1>7. ASSUME NEW w \in Writers, EndWriter(w)
      PROVE  WriterInv'
  <2>1. /\ UNCHANGED <<main, writeQ, queued, hand, written>> /\ wr[w] = "recv"
        /\ wr'[w] = "ended" /\ writeQ = << >> /\ ~Dispatching
        /\ \A v \in Writers \ {w} : wr'[v] = wr[v]
    BY <1>7 DEF EndWriter, TypeInv, TypeOK
  <2> QED BY <2>1 DEF Dispatching
<1>8. CASE JoinWriters
  BY <1>8 DEF JoinWriters, AllWritersJoined, writerVars, Dispatching
<1> QED
  BY <1>1, <1>2, <1>3, <1>4, <1>5, <1>6, <1>7, <1>8
  DEF Next, ReaderTask, Coordinator, Execute, WriterTask, Terminated, Dispatching,
      SpawnReaders, MaxPkFail, ReadChunk, ReadFail, SendChunk, SendClosed, JoinReader,
      Recv, RecvNone, SeeCancel, SendRefused, LeaveLoop, JoinReaders, SiblingCancel,
      Abort, vars, writerVars
-----------------------------------------------------------------------------
(* ... is kept by every step of readers, dispatcher and writers ...        *)
LEMMA NextSafeInv == TypeInv /\ SafeInv /\ [Next]_vars => SafeInv'
<1> SUFFICES ASSUME TypeInv, SafeInv, [Next]_vars PROVE SafeInv'
  OBVIOUS
<1>1. WriterInv'
  BY WriterSafe DEF SafeInv
<1>2. CASE UNCHANGED <<job, rd, pos, fresh, out, readQ, held, queued, ranges, main>>
           /\ (coord' = "start" => coord = "start")
  BY <1>1, <1>2, DispatchFrame, TrackerFrame DEF SafeInv, Dispatching
<1>3. CASE UNCHANGED <<job, queued, ranges>> /\ ~Dispatching'
  BY <1>1, <1>3, TrackerFrame DEF SafeInv
<1>4. ASSUME NEW r \in Readers, ReadChunk(r)
      PROVE  SafeInv'
  <2>1. UNCHANGED <<job, queued, ranges, main>>
    BY <1>4 DEF ReadChunk
  <2> QED BY <1>1, <1>4, <2>1, ReadChunkSafe, TrackerFrame DEF SafeInv, Dispatching
<1>5. ASSUME SpawnReaders \/ \E r \in Readers : ReadFail(r)
      PROVE  SafeInv'
  <2>1. UNCHANGED <<job, queued, ranges, main>>
    BY <1>5 DEF SpawnReaders, ReadFail
  <2> QED BY <1>1, <1>5, <2>1, ReaderStateSafe, TrackerFrame DEF SafeInv, Dispatching
<1>6. ASSUME NEW r \in Readers, SendChunk(r)
      PROVE  SafeInv'
  <2>1. UNCHANGED <<job, queued, ranges, main>> /\ Dispatching
    BY <1>6 DEF SendChunk
  <2> QED BY <1>1, <1>6, <2>1, SendChunkSafe, TrackerFrame DEF SafeInv, Dispatching
<1>7. ASSUME NEW r \in Readers, SendClosed(r)
      PROVE  SafeInv'
  BY <1>3, <1>7 DEF SendClosed, Dispatching
<1>8. CASE Recv
  <2>1. UNCHANGED <<job, queued, ranges>> /\ Dispatching
    BY <1>8 DEF Recv, Dispatching, readerVars
  <2> QED BY <1>1, <1>8, <2>1, RecvSafe, TrackerFrame DEF SafeInv
<1>9. CASE Send
  <2>1. Dispatching
    BY <1>9 DEF Send, Dispatching
  <2> QED BY <1>1, <1>9, <2>1, SendKeepsOrder, SendTracked DEF SafeInv
<1>10. CASE JoinReaders \/ JoinWriters
  <2>1. UNCHANGED <<job, queued, ranges>> /\ ~Dispatching'
    BY <1>10 DEF JoinReaders, JoinWriters, Dispatching, readerVars, writerVars
  <2> QED BY <1>3, <2>1
<1>11. CASE LeaveLoop \/ Abort
  <2>1. UNCHANGED <<job, queued, ranges>> /\ ~Dispatching'
    BY <1>11 DEF LeaveLoop, Abort, Dispatching, readerVars, writerVars
  <2> QED BY <1>3, <2>1
<1>12. CASE MaxPkFail \/ JoinReader \/ SiblingCancel \/ \E w \in Writers : WriterTask(w)
  <2>1. UNCHANGED <<job, rd, pos, fresh, out, readQ, held, queued, ranges, main>>
    BY <1>12 DEF MaxPkFail, JoinReader, SiblingCancel, WriterTask, OpenWriter, TakeJob,
                 WriteOk, WriteFail, WriterPanics, EndWriter, readerVars, writerVars
  <2>2. coord' = "start" => coord = "start"
    BY <1>12 DEF MaxPkFail, JoinReader, SiblingCancel, WriterTask, OpenWriter, TakeJob,
                 WriteOk, WriteFail, WriterPanics, EndWriter, readerVars, TypeInv, TypeOK, Ends, ReaderState,
                 Finished
  <2> QED BY <1>2, <2>1, <2>2
<1>13. CASE UNCHANGED vars
  BY <1>2, <1>13 DEF vars, readerVars
<1> QED
  BY <1>4, <1>5, <1>6, <1>7, <1>8, <1>9, <1>10, <1>11, <1>12, <1>13
  DEF Next, ReaderTask, Coordinator, Execute, Terminated, RecvNone, SeeCancel, SendRefused

(* ... and makes the reported resume point safe.                           *)
LEMMA SafeInvImplies == TypeInv /\ SafeInv => ResumePointSafe
<1> SUFFICES ASSUME TypeInv, SafeInv, main = "ok", LastPk # None,
                    NEW k \in Rows, k <= LastPk
             PROVE  k \in written
  BY DEF ResumePointSafe
<1>1. /\ Start \in Int /\ k \in Int /\ TrackedRanges(ranges)
      /\ LastPk = SafeEnd(ranges, Start) /\ SafeEnd(ranges, Start) > Start
  BY StartTyped, RowFacts DEF LastPk, SafeResumePoint, TypeInv
<1>2. k \in queued
  <2>1. CASE k > Start
    <3>1. Covered(ranges, k)
      BY <1>1, <2>1, SafeEndCovered
    <3> QED BY <3>1 DEF Covered, SafeInv, TrackerInv
  <2>2. CASE k <= Start
    <3>1. PICK a \in DOMAIN ranges : a <= Start /\ ranges[a] > Start
      BY <1>1, SafeEndReached
    <3>2. k <= ranges[a]
      BY <1>1, <2>2, <3>1 DEF TrackedRanges
    <3> QED BY <3>1, <3>2 DEF SafeInv, TrackerInv
  <2> QED BY <1>1, <2>1, <2>2
<1>3. \A w \in Writers : wr[w] = "ended" /\ hand[w] = {} /\ writeQ = << >>
  BY DEF SafeInv, WriterInv
<1> QED BY <1>2, <1>3, PipelineAssumption DEF SafeInv, WriterInv

(* The resume point a job reports never passes a row that is not in the    *)
(* target: SafeInv is inductive, a tracked range stands for rows handed    *)
(* over, and a job that ends well has written what it handed over.         *)
THEOREM ResumePointIsSafe == Spec => []ResumePointSafe
<1>1. Init => TypeInv /\ SafeInv
  BY InitTypeInv, InitSafeInv
<1>2. (TypeInv /\ SafeInv) /\ [Next]_vars => (TypeInv /\ SafeInv)'
  BY NextTypeInv, NextSafeInv
<1>3. TypeInv /\ SafeInv => ResumePointSafe
  BY SafeInvImplies
<1> QED BY <1>1, <1>2, <1>3, PTL DEF Spec
-----------------------------------------------------------------------------
(***************************************************************************)
(* A job keeps its promise.  The planned ranges leave no gap; every row of *)
(* a range is still to be read, in the reader's hands, or ahead of the     *)
(* last place in the read channel; and the dispatcher leaves its loop      *)
(* undisturbed only when nothing is left to be read.                       *)
(***************************************************************************)
(* Row k lies in the key range of reader r.                                *)
Assigned(r, k) == Selects(k, Plan[r].from, Plan[r].fresh, Plan[r].to)

(* Reader r has yet to send k; a reader that failed never will.            *)
ToSend(r, k) ==
  \/ rd[r] \in {"idle", "read"} /\ Selects(k, pos[r], fresh[r], Plan[r].to)
  \/ rd[r] = "send" /\ \/ k \in out[r].rows
                       \/ Selects(k, Max(out[r].rows), FALSE, Plan[r].to)
  \/ rd[r] \in Ends \ {"ok"}

ReaderCovers(r) ==
  /\ \A k \in Rows : Assigned(r, k) => ToSend(r, k) \/ Ahead(k, Behind)
  /\ rd[r] = "send" /\ Cardinality(out[r].rows) < job.chunk_size
       => \A k \in Rows : ~Selects(k, Max(out[r].rows), FALSE, Plan[r].to)

(* The coordinator returns Ok once it has joined every reader.             *)
JoinInv ==
  /\ coord = "start" => joined = 0
  /\ \A r \in Readers : r <= joined => rd[r] = "ok"
  /\ coord = "ok" => joined = Len(Plan)

Disturbed == cancel \/ \E w \in Writers : wr[w] = "failed"

(* What leaving the loop undisturbed means.                                *)
LeftInv ==
  /\ main = "join_readers" =>
       Disturbed \/ (coord \in Ends /\ (coord = "ok" => Rows \subseteq queued))
  /\ main \in {"join_writers", "ok"} => Disturbed \/ Rows \subseteq queued

CompleteInv ==
  /\ JoinInv
  /\ Dispatching => \A r \in Readers : ReaderCovers(r)
  /\ LeftInv
-----------------------------------------------------------------------------
(* Every row of a job is in the range of one of its readers.               *)
LEMMA PlanCovers ==
  ASSUME TypeInv, NEW k \in Rows
  PROVE  \E r \in Readers : Assigned(r, k)
<1>1. /\ job \in JobType /\ Keys \subseteq Int /\ IsFiniteSet(Keys)
      /\ k \in Keys /\ k \in Int /\ k \in JobRows(job, Keys)
  BY PipelineAssumption, RowFacts DEF TypeInv, TypeOK, Rows
<1>2. CASE ~IsParallel(job)
  <2>1. Plan = << SingleRange(job) >>
    BY <1>2, Zenon DEF Plan, ReaderRanges, PlannedRanges
  <2>2. 1 \in Readers /\ Plan[1] = SingleRange(job)
    BY <2>1 DEF Readers
  <2>3. CASE job.paging = "offset"
    <3>1. Plan[1].from = None /\ Plan[1].to = None
      BY <2>2, <2>3 DEF SingleRange
    <3> QED BY <2>2, <3>1 DEF Assigned, Selects
  <2>4. CASE job.paging # "offset"
    <3>1. /\ Plan[1].from = OrElse(job.resume_from_pk, job.min_pk)
          /\ Plan[1].fresh <=> (job.resume_from_pk = None)
          /\ Plan[1].to = job.max_pk
      <4>1. SingleRange(job).fresh <=> (job.resume_from_pk = None)
        BY <2>4, Zenon DEF SingleRange
      <4>2. /\ SingleRange(job).from = OrElse(job.resume_from_pk, job.min_pk)
            /\ SingleRange(job).to = job.max_pk
        BY <2>4 DEF SingleRange
      <4> QED BY <2>2, <4>1, <4>2
    <3>2. Selects(k, OrElse(job.resume_from_pk, job.min_pk), job.resume_from_pk = None, job.max_pk)
      BY <1>1, <2>4 DEF JobRows, Selects, OrElse, JobType, Opt
    <3> QED BY <2>2, <3>1, <3>2 DEF Assigned, Selects
  <2> QED BY <2>3, <2>4
<1>3. CASE IsParallel(job)
  <2> DEFINE lo == IF job.min_pk = None THEN 0 ELSE job.min_pk
             hi == IF job.max_pk # None THEN job.max_pk
                   ELSE IF Keys = {} THEN 0 ELSE Max(Keys)
             n  == IF job.min_pk # None \/ job.partitioned THEN 1 ELSE job.readers
             s  == SplitPkRange(lo, hi, n)
  <2>1. Plan = [i \in DOMAIN s |->
                  IF i = 1 THEN [from  |-> OrElse(job.resume_from_pk, job.min_pk),
                                 fresh |-> job.resume_from_pk = None,
                                 to    |-> s[1].hi]
                  ELSE [from |-> s[i].lo, fresh |-> FALSE, to |-> s[i].hi]]
    BY <1>3 DEF Plan, ReaderRanges, PlannedRanges, ParallelRanges
  <2>2. lo \in Int /\ n \in Nat \ {0} /\ hi \in Int
    <3>1. job.min_pk \in Opt(Int) /\ job.max_pk \in Opt(Int) /\ job.readers \in Nat \ {0}
      BY <1>1 DEF JobType
    <3>2. Keys # {} => Max(Keys) \in Int
      BY <1>1, MaxIsGreatest
    <3> QED BY <3>1, <3>2 DEF Opt
  <2>3. job.paging = "keyset"
    BY <1>3 DEF IsParallel
  <2>4. k <= hi
    BY <1>1, <2>3, MaxIsGreatest DEF JobRows
  <2>5. Selects(k, OrElse(job.resume_from_pk, job.min_pk), job.resume_from_pk = None, None)
    BY <1>1, <2>3 DEF JobRows, Selects, OrElse, JobType, Opt
  <2> HIDE DEF lo, hi, n
  <2>6. PICK i \in DOMAIN s : (i = 1 \/ s[i].lo < k) /\ k <= s[i].hi
    BY <1>1, <2>2, <2>4, SplitTiles
  <2>7. PICK m \in Nat \ {0} : s \in [1..m -> [lo : Int, hi : Int]]
    BY <2>2, SplitFacts
  <2> HIDE DEF s
  <2>8. i \in Readers /\ s[i].lo \in Int /\ s[i].hi \in Int
    BY <2>1, <2>6, <2>7 DEF Readers
  <2>9. Assigned(i, k)
    <3>1. CASE i = 1
      <4>1. /\ Plan[1].from = OrElse(job.resume_from_pk, job.min_pk)
            /\ Plan[1].fresh = (job.resume_from_pk = None)
            /\ Plan[1].to = s[1].hi
        BY <2>1, <2>6, <3>1, Zenon
      <4> QED BY <2>5, <2>6, <3>1, <4>1 DEF Assigned, Selects
    <3>2. CASE i # 1
      <4>1. Plan[i].from = s[i].lo /\ Plan[i].to = s[i].hi
        BY <2>1, <2>6, <3>2
      <4> QED BY <1>1, <2>6, <2>8, <3>2, <4>1 DEF Assigned, Selects
    <3> QED BY <3>1, <3>2
  <2> QED BY <2>8, <2>9
<1> QED BY <1>2, <1>3
-----------------------------------------------------------------------------
(* Leaving the loop is final, and so is a disturbance.                     *)
LEMMA OnlyForward ==
  ASSUME TypeInv, [Next]_vars
  PROVE  /\ job' = job
         /\ Dispatching' => Dispatching
         /\ Disturbed => Disturbed'
         /\ queued \subseteq queued'
<1>1. job' = job /\ (Dispatching' => Dispatching) /\ queued \subseteq queued'
  BY DEF Next, ReaderTask, Coordinator, Execute, WriterTask, Terminated, Dispatching,
         SpawnReaders, MaxPkFail, ReadChunk, ReadFail, SendChunk, SendClosed, JoinReader,
         Recv, Send, RecvNone, SeeCancel, SendRefused, LeaveLoop, JoinReaders, JoinWriters,
         OpenWriter, TakeJob, WriteOk, WriteFail, WriterPanics, EndWriter,
         SiblingCancel, Abort, vars, writerVars
<1>2. cancel => cancel'
  BY DEF Next, ReaderTask, Coordinator, Execute, WriterTask, Terminated,
         SpawnReaders, MaxPkFail, ReadChunk, ReadFail, SendChunk, SendClosed, JoinReader,
         Recv, Send, RecvNone, SeeCancel, SendRefused, LeaveLoop, JoinReaders, JoinWriters,
         OpenWriter, TakeJob, WriteOk, WriteFail, WriterPanics, EndWriter,
         SiblingCancel, Abort, vars
<1>3. \A w \in Writers : wr[w] = "failed" => wr'[w] = "failed"
  <2>1. CASE UNCHANGED wr
    BY <2>1
  <2>2. ASSUME NEW v \in Writers, WriterTask(v)
        PROVE  \A w \in Writers : wr[w] = "failed" => wr'[w] = "failed"
    <3>1. wr[v] # "failed" /\ \A w \in Writers \ {v} : wr'[w] = wr[w]
      BY <2>2 DEF WriterTask, OpenWriter, TakeJob, WriteOk, WriteFail, WriterPanics,
                  EndWriter, TypeInv, TypeOK
    <3> QED BY <3>1
  <2> QED
    BY <2>1, <2>2
    DEF Next, ReaderTask, Coordinator, Execute, Terminated,
        SpawnReaders, MaxPkFail, ReadChunk, ReadFail, SendChunk, SendClosed, JoinReader,
        Recv, Send, RecvNone, SeeCancel, SendRefused, LeaveLoop, JoinReaders, JoinWriters,
        SiblingCancel, Abort, vars, writerVars
<1> QED BY <1>1, <1>2, <1>3 DEF Disturbed

(* What is ahead of the last place in the read channel stays ahead of it.  *)
LEMMA AheadKept ==
  ASSUME TypeInv, DispatchInv, [Next]_vars, Dispatching'
  PROVE  \A k : Ahead(k, Behind) => Ahead(k, Behind)'
<1>1. CASE UNCHANGED <<queued, held, readQ>>
  BY <1>1 DEF Ahead, Behind
<1>2. ASSUME NEW r \in Readers, SendChunk(r)
      PROVE  \A k : Ahead(k, Behind) => Ahead(k, Behind)'
  <2>1. /\ UNCHANGED <<queued, held>>
        /\ Len(readQ) \in Nat /\ Len(readQ') = Len(readQ) + 1
        /\ \A i \in 1..Len(readQ) : readQ'[i] = readQ[i]
    BY <1>2 DEF SendChunk, TypeInv, TypeOK
  <2>2. (Len(readQ) + 1) - 1 = Len(readQ) /\ (Len(readQ') + 1) - 1 = Len(readQ) + 1
    BY <2>1
  <2>3. \A j \in 1..Len(readQ) : j \in 1..(Len(readQ) + 1)
    BY <2>1
  <2> QED BY <2>1, <2>2, <2>3 DEF Ahead, Behind
<1>3. CASE Recv
  <2>1. /\ queued' = queued /\ held' = readQ[1] /\ held.rows = {}
        /\ Len(readQ) \in Nat \ {0} /\ Len(readQ') = Len(readQ) - 1
        /\ \A i \in 1..Len(readQ') : readQ'[i] = readQ[i + 1]
    BY <1>3 DEF Recv, TypeInv, TypeOK, DispatchInv
  <2>2. ASSUME NEW k, NEW j \in 1..Len(readQ), k \in readQ[j].rows
        PROVE  Ahead(k, Behind)'
    <3>1. CASE j = 1
      BY <2>1, <2>2, <3>1 DEF Ahead
    <3>2. CASE j # 1
      <4>1. j - 1 \in 1..((Len(readQ') + 1) - 1) /\ readQ'[j - 1] = readQ[j]
        BY <2>1, <3>2
      <4> QED BY <2>2, <4>1 DEF Ahead, Behind
    <3> QED BY <3>1, <3>2
  <2>3. (Len(readQ) + 1) - 1 = Len(readQ)
    BY <2>1
  <2> QED BY <2>1, <2>2, <2>3 DEF Ahead, Behind
<1>4. CASE Send
  BY <1>4 DEF Send, Ahead, Behind
<1>5. CASE LeaveLoop \/ Abort \/ JoinReaders \/ JoinWriters
  BY <1>5 DEF LeaveLoop, Abort, JoinReaders, JoinWriters, Dispatching
<1> QED
  BY <1>1, <1>2, <1>3, <1>4, <1>5
  DEF Next, ReaderTask, Coordinator, Execute, WriterTask, Terminated,
      SpawnReaders, MaxPkFail, ReadChunk, ReadFail, SendClosed, JoinReader,
      RecvNone, SeeCancel, SendRefused, OpenWriter, TakeJob, WriteOk, WriteFail,
      WriterPanics, EndWriter, SiblingCancel, vars
-----------------------------------------------------------------------------
(* What a query leaves out is still to be read, and a short chunk leaves   *)
(* out nothing.                                                            *)
LEMMA ReadChunkCovers ==
  ASSUME TypeInv, NEW r \in Readers, ReadChunk(r)
  PROVE  /\ \A k \in Rows : ToSend(r, k) => ToSend(r, k)' \/ Ahead(k, Behind)
         /\ rd'[r] = "send" /\ Cardinality(out'[r].rows) < job.chunk_size
              => \A k \in Rows : ~Selects(k, Max(out'[r].rows), FALSE, Plan[r].to)
         /\ rd'[r] = "ok" => \A k \in Rows : ~ToSend(r, k)
<1> DEFINE N == NextRows(r)
<1>1. /\ job \in JobType /\ pos[r] \in Opt(Int) /\ fresh[r] \in BOOLEAN
      /\ Plan[r].to \in Opt(Int) /\ Keys \subseteq Int /\ IsFiniteSet(Keys)
      /\ job.chunk_size \in Nat \ {0} /\ rd[r] = "read" /\ Plan' = Plan
  BY PipelineAssumption, PlanTyped, PlanStable DEF TypeInv, TypeOK, RangeType, ReadChunk, JobType
<1>2. \A k \in Rows : ToSend(r, k) => k \in Keys /\ k \in Int /\ Selects(k, pos[r], fresh[r], Plan[r].to)
  BY <1>1, RowFacts DEF ToSend, Ends
<1>3. CASE N = {}
  <2>1. \A k \in Keys : ~Selects(k, pos[r], fresh[r], Plan[r].to)
    BY <1>1, <1>3, EmptyChunkIsEnd DEF NextRows
  <2>2. rd'[r] = "ok"
    BY <1>3 DEF ReadChunk, TypeInv, TypeOK
  <2> QED BY <1>2, <2>1, <2>2
<1>4. CASE N # {}
  <2>1. /\ rd'[r] = "send" /\ out'[r].rows = N
    BY <1>4 DEF ReadChunk, TypeInv, TypeOK, ChunkOf
  <2>2. Max(N) \in N /\ N \subseteq Int
    BY <1>1, <1>4, ChunkTyped
  <2>3. ASSUME NEW k \in Rows, Selects(k, pos[r], fresh[r], Plan[r].to)
        PROVE  k \in N \/ Selects(k, Max(N), FALSE, Plan[r].to)
    <3>1. k \in Keys /\ k \in Int
      BY RowFacts
    <3>2. CASE k <= Max(N)
      <4>1. Selects(k, pos[r], fresh[r], None)
        BY <2>3 DEF Selects
      <4> QED BY <1>1, <2>2, <3>1, <3>2, <4>1, ChunkSkipsNothing DEF NextRows
    <3>3. CASE ~(k <= Max(N))
      BY <2>2, <2>3, <3>1, <3>3 DEF Selects
    <3> QED BY <3>2, <3>3
  <2>4. ASSUME Cardinality(N) < job.chunk_size, NEW k \in Rows,
               Selects(k, Max(N), FALSE, Plan[r].to)
        PROVE  FALSE
    <3>1. k \in Keys /\ k \in Int
      BY RowFacts
    <3>2. k > Max(N)
      BY <2>2, <2>4, NoneAssumption DEF Selects
    <3>3. Selects(Max(N), pos[r], fresh[r], Plan[r].to)
      BY <2>2, ChunkSelected DEF NextRows
    <3>4. Selects(k, pos[r], fresh[r], Plan[r].to)
      BY <1>1, <2>2, <2>4, <3>1, <3>2, <3>3 DEF Selects, Opt
    <3>5. k <= Max(N)
      BY <1>1, <1>4, <2>4, <3>1, <3>4, ShortChunkIsLast DEF NextRows
    <3> QED BY <2>2, <3>1, <3>2, <3>5
  <2>5. PICK m : m = N
    OBVIOUS
  <2> HIDE DEF N
  <2>6. ASSUME NEW k \in Rows, ToSend(r, k)
        PROVE  ToSend(r, k)'
    BY <1>1, <1>2, <2>1, <2>3, <2>6 DEF ToSend
  <2> QED BY <2>1, <2>4, <2>6
<1> QED BY <1>3, <1>4

(* A reader that stops after a chunk has nothing left to send.             *)
LEMMA SendChunkCovers ==
  ASSUME TypeInv, DispatchInv, NEW r \in Readers, SendChunk(r), ReaderCovers(r)
  PROVE  \A k \in Rows : ToSend(r, k) => ToSend(r, k)' \/ Ahead(k, Behind)'
<1>1. PICK c : c = out[r]
  OBVIOUS
<1>2. /\ c \in Chunk /\ c.rows # {} /\ c.rows \subseteq Int /\ IsFiniteSet(c.rows)
      /\ Max(c.rows) \in c.rows
  <2>1. c \in Chunk /\ c.rows # {}
    BY <1>1 DEF TypeInv, SendChunk
  <2>2. c.rows \subseteq Int /\ IsFiniteSet(c.rows)
    BY <2>1, PipelineAssumption, FS_Subset DEF Chunk
  <2> QED BY <2>1, <2>2, MaxIsGreatest
<1>3. /\ rd[r] = "send" /\ pos'[r] = Max(c.rows) /\ fresh' = fresh /\ Plan' = Plan
      /\ rd'[r] = IF LastChunk(r, c.rows) THEN "ok" ELSE "read"
      /\ Plan[r].to \in Opt(Int)
  BY <1>1, PlanStable, PlanTyped DEF SendChunk, TypeInv, TypeOK, RangeType
<1>4. ASSUME NEW k, k \in c.rows
      PROVE  Ahead(k, Behind)'
  <2>1. Len(readQ) \in Nat /\ Len(readQ') = Len(readQ) + 1 /\ readQ'[Len(readQ) + 1] = c
    BY <1>1 DEF SendChunk, TypeInv, TypeOK
  <2>2. Len(readQ') \in 1..((Len(readQ') + 1) - 1) /\ readQ'[Len(readQ')] = c
    BY <2>1
  <2> QED BY <1>4, <2>2 DEF Ahead, Behind
<1>5. ASSUME NEW k \in Rows, Selects(k, Max(c.rows), FALSE, Plan[r].to)
      PROVE  ToSend(r, k)'
  <2>1. ~LastChunk(r, c.rows)
    <3>1. k \in Int /\ k > Max(c.rows) /\ (Plan[r].to # None => k <= Plan[r].to)
      BY <1>2, <1>5, RowFacts, NoneAssumption DEF Selects
    <3>2. ~(Plan[r].to # None /\ Max(c.rows) >= Plan[r].to)
      BY <1>2, <1>3, <3>1 DEF Opt
    <3>3. ~(Cardinality(c.rows) < job.chunk_size)
      BY <1>1, <1>3, <1>5 DEF ReaderCovers
    <3> QED BY <3>2, <3>3 DEF LastChunk
  <2>2. rd'[r] = "read"
    BY <1>3, <2>1
  <2>3. PICK p : p = Max(c.rows)
    OBVIOUS
  <2>4. Selects(k, p, fresh'[r], Plan[r].to)
    BY <1>5, <2>3 DEF Selects
  <2> QED BY <1>3, <2>2, <2>3, <2>4 DEF ToSend
<1>6. ASSUME NEW k \in Rows, ToSend(r, k)
      PROVE  k \in c.rows \/ Selects(k, Max(c.rows), FALSE, Plan[r].to)
  BY <1>1, <1>3, <1>6 DEF ToSend, Ends
<1> QED BY <1>4, <1>5, <1>6

(* execute starts with every row still to be read ...                      *)
LEMMA InitCompleteInv == Init => CompleteInv
<1> SUFFICES ASSUME Init PROVE CompleteInv
  OBVIOUS
<1>1. job \in Jobs /\ Readers = 1..Len(Plan) /\ Len(Plan) \in Nat \ {0}
  BY PlanTyped DEF Init
<1>2. JoinInv
  BY <1>1 DEF Init, JoinInv
<1>3. LeftInv
  BY DEF Init, LeftInv
<1>4. ASSUME NEW r \in Readers
      PROVE  ReaderCovers(r)
  <2>1. rd[r] = "idle" /\ pos[r] = Plan[r].from /\ fresh[r] = Plan[r].fresh
    BY DEF Init
  <2>2. \A k \in Rows : Assigned(r, k) => ToSend(r, k)
    BY <2>1 DEF Assigned, ToSend
  <2> QED BY <2>1, <2>2 DEF ReaderCovers
<1> QED BY <1>2, <1>3, <1>4 DEF CompleteInv

(* ... the coordinator's count is of readers that ended well ...           *)
LEMMA NextJoinInv ==
  ASSUME TypeInv, JoinInv, [Next]_vars
  PROVE  JoinInv'
<1>0. /\ job \in Jobs /\ Len(Plan) \in Nat \ {0} /\ Readers = 1..Len(Plan)
      /\ Plan' = Plan /\ Readers' = Readers
  BY PlanTyped, PlanStable, OnlyForward DEF TypeInv, TypeOK
<1>1. CASE SpawnReaders
  BY <1>0, <1>1 DEF SpawnReaders, JoinInv, TypeInv, TypeOK
<1>2. CASE MaxPkFail
  BY <1>0, <1>2 DEF MaxPkFail, JoinInv
<1>3. ASSUME NEW r \in Readers, ReaderTask(r)
      PROVE  JoinInv'
  <2>1. /\ UNCHANGED <<joined, coord>> /\ rd[r] # "ok"
        /\ \A s \in Readers \ {r} : rd'[s] = rd[s]
    BY <1>3 DEF ReaderTask, ReadChunk, ReadFail, SendChunk, SendClosed, TypeInv, TypeOK
  <2> QED BY <1>0, <2>1 DEF JoinInv
<1>4. CASE JoinReader
  <2>1. rd' = rd /\ joined + 1 \in Readers /\ coord = "join"
    BY <1>0, <1>4 DEF JoinReader, TypeInv, TypeOK
  <2>2. CASE rd[joined + 1] = "ok"
    BY <1>0, <1>4, <2>1, <2>2 DEF JoinReader, JoinInv, TypeInv, TypeOK
  <2>3. CASE rd[joined + 1] # "ok"
    <3>1. joined' = joined /\ coord' # "start" /\ coord' # "ok"
      BY <1>4, <2>1, <2>3 DEF JoinReader, Finished, Ends
    <3> QED BY <1>0, <2>1, <3>1 DEF JoinInv
  <2> QED BY <2>2, <2>3
<1>5. CASE UNCHANGED <<rd, joined, coord>>
  BY <1>0, <1>5 DEF JoinInv
<1> QED
  BY <1>1, <1>2, <1>3, <1>4, <1>5
  DEF Next, Coordinator, Execute, WriterTask, Terminated, Recv, Send, RecvNone, SeeCancel,
      SendRefused, LeaveLoop, JoinReaders, JoinWriters, OpenWriter, TakeJob, WriteOk,
      WriteFail, WriterPanics, EndWriter, SiblingCancel, Abort, vars, readerVars

(* ... no reader loses sight of a row ...                                  *)
LEMMA NextReaderCovers ==
  ASSUME TypeInv, DispatchInv, \A r \in Readers : ReaderCovers(r), [Next]_vars, Dispatching'
  PROVE  (\A r \in Readers : ReaderCovers(r))'
<1>0. /\ job' = job /\ Plan' = Plan /\ Readers' = Readers /\ Rows' = Rows
      /\ \A k : Ahead(k, Behind) => Ahead(k, Behind)'
  BY OnlyForward, PlanStable, AheadKept
<1>1. \A r, k : Assigned(r, k)' <=> Assigned(r, k)
  BY <1>0 DEF Assigned
<1>2. ASSUME NEW s \in Readers, rd'[s] = rd[s], pos'[s] = pos[s], fresh'[s] = fresh[s],
             out'[s] = out[s]
      PROVE  ReaderCovers(s)'
  <2>1. PICK c : c = out[s]
    OBVIOUS
  <2>2. \A k : ToSend(s, k) <=> ToSend(s, k)'
    BY <1>0, <1>2 DEF ToSend
  <2> QED BY <1>0, <1>1, <1>2, <2>2 DEF ReaderCovers
<1>3. ASSUME NEW r \in Readers, ReaderTask(r), NEW s \in Readers
      PROVE  ReaderCovers(s)'
  <2>1. CASE s # r
    <3>1. rd'[s] = rd[s] /\ pos'[s] = pos[s] /\ fresh'[s] = fresh[s] /\ out'[s] = out[s]
      BY <1>3, <2>1 DEF ReaderTask, ReadChunk, ReadFail, SendChunk, SendClosed, TypeInv, TypeOK
    <3> QED BY <1>2, <3>1
  <2>2. CASE s = r /\ ReadChunk(r)
    <3>1. \A k \in Rows : ToSend(r, k) => ToSend(r, k)' \/ Ahead(k, Behind)
      BY <2>2, ReadChunkCovers
    <3>2. rd'[r] = "send" /\ Cardinality(out'[r].rows) < job.chunk_size
            => \A k \in Rows : ~Selects(k, Max(out'[r].rows), FALSE, Plan[r].to)
      BY <2>2, ReadChunkCovers
    <3> QED BY <1>0, <1>1, <2>2, <3>1, <3>2 DEF ReaderCovers
  <2>3. CASE s = r /\ SendChunk(r)
    <3>1. \A k \in Rows : ToSend(r, k) => ToSend(r, k)' \/ Ahead(k, Behind)'
      BY <2>3, SendChunkCovers
    <3>2. rd'[r] # "send"
      BY <2>3 DEF SendChunk, TypeInv, TypeOK
    <3> QED BY <1>0, <1>1, <2>3, <3>1, <3>2 DEF ReaderCovers
  <2>4. CASE s = r /\ ReadFail(r)
    <3>1. rd'[r] \in Ends \ {"ok"}
      BY <2>4 DEF ReadFail, TypeInv, TypeOK, Ends
    <3> QED BY <2>4, <3>1 DEF ReaderCovers, ToSend, Ends
  <2>5. CASE s = r /\ SendClosed(r)
    BY <2>5 DEF SendClosed, Dispatching
  <2> QED BY <1>3, <2>1, <2>2, <2>3, <2>4, <2>5 DEF ReaderTask
<1>4. CASE SpawnReaders
  <2> SUFFICES ASSUME NEW s \in Readers PROVE ReaderCovers(s)'
    BY <1>0
  <2>1. rd[s] = "idle" /\ rd'[s] = "read" /\ pos' = pos /\ fresh' = fresh
    BY <1>4 DEF SpawnReaders, DispatchInv
  <2>2. \A k : ToSend(s, k) => ToSend(s, k)'
    BY <1>0, <2>1 DEF ToSend, Ends
  <2> QED BY <1>0, <1>1, <2>1, <2>2 DEF ReaderCovers
<1>5. CASE UNCHANGED <<rd, pos, fresh, out>>
  BY <1>0, <1>2, <1>5
<1> QED
  BY <1>0, <1>3, <1>4, <1>5
  DEF Next, Coordinator, Execute, WriterTask, Terminated, MaxPkFail, JoinReader, Recv, Send,
      RecvNone, SeeCancel, SendRefused, LeaveLoop, JoinReaders, JoinWriters, OpenWriter,
      TakeJob, WriteOk, WriteFail, WriterPanics, EndWriter, SiblingCancel, Abort, vars,
      readerVars

(* ... and an undisturbed dispatcher leaves its loop once every reader     *)
(* has ended and the channel is drained.                                   *)
LEMMA NextLeftInv ==
  ASSUME TypeInv, SafeInv, CompleteInv, [Next]_vars
  PROVE  LeftInv'
<1>0. /\ job' = job /\ Rows' = Rows /\ (Disturbed => Disturbed') /\ queued \subseteq queued'
  BY OnlyForward, PlanStable
<1>1. CASE main' = main /\ (coord \in Ends => coord' = coord)
  BY <1>0, <1>1 DEF CompleteInv, LeftInv
<1>2. CASE RecvNone
  <2>1. /\ main = "recv" /\ readQ = << >> /\ coord \in Ends /\ coord' = coord
        /\ queued' = queued /\ main' = "join_readers"
    BY <1>2 DEF RecvNone, SendersGone, LeaveLoop, readerVars
  <2>2. ASSUME coord = "ok", NEW k \in Rows
        PROVE  k \in queued
    <3>1. PICK r \in Readers : Assigned(r, k)
      BY PlanCovers
    <3>2. rd[r] = "ok"
      BY <2>2, PlanTyped DEF CompleteInv, JoinInv, TypeInv, TypeOK
    <3>3. ~ToSend(r, k)
      BY <3>2 DEF ToSend
    <3>4. Ahead(k, Behind)
      BY <2>1, <3>1, <3>3 DEF CompleteInv, ReaderCovers, Dispatching
    <3>5. held.rows = {}
      BY <2>1 DEF SafeInv, DispatchInv, Dispatching
    <3> QED BY <2>1, <3>4, <3>5 DEF Ahead, Behind
  <2> QED BY <1>0, <2>1, <2>2 DEF LeftInv
<1>3. CASE SeeCancel
  BY <1>3 DEF SeeCancel, LeaveLoop, LeftInv, Disturbed
<1>4. CASE SendRefused
  <2>1. /\ main = "send" /\ main' = "join_readers" /\ wr' = wr
        /\ \A w \in Writers : wr[w] \in {"ended", "failed"}
    BY <1>4 DEF SendRefused, LeaveLoop, WriterLeft, writerVars, TypeInv, TypeOK
  <2>2. \A w \in Writers : wr[w] = "failed"
    BY <2>1 DEF SafeInv, WriterInv, Dispatching
  <2> QED BY <2>1, <2>2, PipelineAssumption DEF LeftInv, Disturbed
<1>5. CASE JoinReaders
  BY <1>0, <1>5 DEF JoinReaders, CompleteInv, LeftInv, Disturbed, readerVars
<1>6. CASE JoinWriters
  BY <1>0, <1>6 DEF JoinWriters, CompleteInv, LeftInv
<1>7. CASE Abort \/ Recv \/ Send
  BY <1>7 DEF Abort, Recv, Send, LeftInv
<1> QED
  BY <1>1, <1>2, <1>3, <1>4, <1>5, <1>6, <1>7
  DEF Next, ReaderTask, Coordinator, Execute, WriterTask, Terminated, SpawnReaders,
      MaxPkFail, ReadChunk, ReadFail, SendChunk, SendClosed, JoinReader, OpenWriter,
      TakeJob, WriteOk, WriteFail, WriterPanics, EndWriter, SiblingCancel, vars, readerVars,
      Ends

LEMMA NextCompleteInv == TypeInv /\ SafeInv /\ CompleteInv /\ [Next]_vars => CompleteInv'
<1> SUFFICES ASSUME TypeInv, SafeInv, CompleteInv, [Next]_vars PROVE CompleteInv'
  OBVIOUS
<1>1. JoinInv'
  BY NextJoinInv DEF CompleteInv
<1>2. LeftInv'
  BY NextLeftInv
<1>3. Dispatching' => (\A r \in Readers : ReaderCovers(r))'
  BY OnlyForward, NextReaderCovers DEF CompleteInv, SafeInv
<1> QED BY <1>1, <1>2, <1>3 DEF CompleteInv

(* What an Ok rests on: every row was handed over and none is waiting.     *)
LEMMA AllWritten ==
  ASSUME TypeInv, SafeInv, CompleteInv, main \in {"join_writers", "ok"}, AllWritersJoined, ~cancel
  PROVE  Rows \subseteq written
<1>1. ~Disturbed
  BY DEF Disturbed, AllWritersJoined
<1>2. Rows \subseteq queued
  BY <1>1 DEF CompleteInv, LeftInv
<1>3. writeQ = << >> /\ \A w \in Writers : hand[w] = {}
  BY PipelineAssumption DEF SafeInv, WriterInv, AllWritersJoined
<1> QED BY <1>2, <1>3 DEF SafeInv, WriterInv, AllWritersJoined

(* An Ok whose token was never cancelled moved every row of the job.       *)
THEOREM OkIsComplete == Spec => []OkMeansComplete
<1>1. Init => TypeInv /\ SafeInv /\ CompleteInv
  BY InitTypeInv, InitSafeInv, InitCompleteInv
<1>2. (TypeInv /\ SafeInv /\ CompleteInv) /\ [Next]_vars => (TypeInv /\ SafeInv /\ CompleteInv)'
  BY NextTypeInv, NextSafeInv, NextCompleteInv
<1>3. TypeInv /\ SafeInv /\ CompleteInv => OkMeansComplete
  BY AllWritten DEF OkMeansComplete, SafeInv, WriterInv, AllWritersJoined
<1> QED BY <1>1, <1>2, <1>3, PTL DEF Spec
-----------------------------------------------------------------------------
(***************************************************************************)
(* Each row is counted once.  No key is in the ranges of two readers, and  *)
(* a reader has yet to send only keys of its range that it did not send;   *)
(* the chunks under way share no row with each other, nor with what was    *)
(* handed over or written.  A resumed job with several readers is left     *)
(* out: only its first reader starts at the resume point.                  *)
(***************************************************************************)
Counted == job.resume_from_pk = None \/ Len(Plan) = 1

(* Reader r may still send k.                                              *)
Yet(r, k) ==
  \/ rd[r] \in {"idle", "read"} /\ Selects(k, pos[r], fresh[r], Plan[r].to)
  \/ rd[r] = "send" /\ (k \in out[r].rows \/ Selects(k, Max(out[r].rows), FALSE, Plan[r].to))

(* Row k was sent, and not thrown away with the read channel.              *)
Sent(k) == \/ k \in queued
           \/ k \in held.rows
           \/ \E i \in 1..Len(readQ) : k \in readQ[i].rows

ReadApart ==
  /\ coord = "start" => \A r \in Readers : rd[r] = "idle"
  /\ \A r \in Readers : rd[r] = "send" => fresh[r] = FALSE
  /\ \A r \in Readers, k \in Keys : Yet(r, k) => Assigned(r, k) /\ ~Sent(k)

QueueApart ==
  /\ \A k \in Keys : Sent(k) => k \in Rows
  /\ \A k \in held.rows : k \notin queued
  /\ \A i \in 1..Len(readQ) : \A k \in readQ[i].rows :
       /\ k \notin queued /\ k \notin held.rows
       /\ \A j \in 1..Len(readQ) : k \in readQ[j].rows => j = i

WriteApart ==
  /\ written \subseteq queued
  /\ \A i \in 1..Len(writeQ) : \A k \in writeQ[i] :
       /\ k \in queued /\ k \notin written
       /\ \A j \in 1..Len(writeQ) : k \in writeQ[j] => j = i
  /\ \A w \in Writers : \A k \in hand[w] :
       /\ k \in queued /\ k \notin written
       /\ \A i \in 1..Len(writeQ) : k \notin writeQ[i]
       /\ \A v \in Writers : k \in hand[v] => v = w

Tally == (\A w \in Writers : wr[w] # "failed") => StatsRows = Cardinality(written)

OnceInv == Counted => ReadApart /\ QueueApart /\ WriteApart /\ Tally
-----------------------------------------------------------------------------
(* A reader that is counted reads rows of the job, and no row of another.  *)
LEMMA PlanTiles ==
  ASSUME TypeInv, Counted
  PROVE  /\ \A r \in Readers, k \in Keys : Assigned(r, k) => k \in Rows
         /\ \A r, s \in Readers, k \in Keys : Assigned(r, k) /\ Assigned(s, k) => r = s
<1>1. /\ job \in JobType /\ Keys \subseteq Int /\ IsFiniteSet(Keys)
      /\ job.min_pk \in Opt(Int) /\ job.max_pk \in Opt(Int) /\ job.resume_from_pk \in Opt(Int)
      /\ job.readers \in Nat \ {0}
      /\ Len(Plan) \in Nat \ {0} /\ Readers = 1..Len(Plan)
      /\ job.paging # "keyset" => Len(Plan) = 1
  BY PipelineAssumption, PlanTyped DEF TypeInv, TypeOK, JobType
<1>2. CASE ~IsParallel(job)
  <2>1. Plan = << SingleRange(job) >>
    BY <1>2, Zenon DEF Plan, ReaderRanges, PlannedRanges
  <2>2. Readers = {1} /\ Plan[1] = SingleRange(job)
    BY <2>1 DEF Readers
  <2>3. CASE job.paging = "offset"
    <3>1. Rows = Keys
      BY <2>3 DEF Rows, JobRows
    <3> QED BY <2>2, <3>1
  <2>4. CASE job.paging # "offset"
    <3>1. SingleRange(job).fresh <=> (job.resume_from_pk = None)
      BY <2>4, Zenon DEF SingleRange
    <3>2. /\ SingleRange(job).from = OrElse(job.resume_from_pk, job.min_pk)
          /\ SingleRange(job).to = job.max_pk
      BY <2>4 DEF SingleRange
    <3>3. ASSUME NEW k \in Keys, Assigned(1, k)
          PROVE  k \in Rows
      <4>1. k \in Int /\ Selects(k, OrElse(job.resume_from_pk, job.min_pk),
                                 job.resume_from_pk = None, job.max_pk)
        BY <1>1, <2>2, <3>1, <3>2, <3>3 DEF Assigned, Selects
      <4>2. k \in JobRows(job, Keys)
        BY <1>1, <2>4, <4>1 DEF JobRows, Selects, OrElse, Opt
      <4> QED BY <4>2 DEF Rows
    <3> QED BY <2>2, <3>3
  <2> QED BY <2>3, <2>4
<1>3. CASE IsParallel(job) /\ job.resume_from_pk = None
  <2>1. job.paging = "keyset"
    BY <1>3 DEF IsParallel
  <2>2. /\ \A r \in Readers, k \in Int : Claims(Plan[r], k) => Within(BoundOf(job), k)
        /\ \A r, s \in Readers : r # s => \A k \in Int : ~(Claims(Plan[r], k) /\ Claims(Plan[s], k))
    BY <1>1, <1>3, <2>1, ReadersTile DEF Plan, Readers
  <2>3. \A k \in Keys : k \in Int
    BY <1>1
  <2>4. ASSUME NEW k \in Keys, Within(BoundOf(job), k)
        PROVE  k \in Rows
    BY <1>3, <2>1, <2>4 DEF Within, BoundOf, Rows, JobRows
  <2>5. \A r, k : Assigned(r, k) <=> Claims(Plan[r], k)
    BY DEF Assigned, Claims
  <2> QED BY <2>2, <2>3, <2>4, <2>5
<1>4. CASE IsParallel(job) /\ job.resume_from_pk # None
  <2>1. Readers = {1} /\ job.paging = "keyset"
    <3>1. Len(Plan) = 1 /\ job.paging = "keyset"
      BY <1>4 DEF Counted, IsParallel
    <3>2. Readers = 1..1
      BY <1>1, <3>1
    <3> QED BY <3>1, <3>2
  <2> DEFINE lo == IF job.min_pk = None THEN 0 ELSE job.min_pk
             hi == IF job.max_pk # None THEN job.max_pk
                   ELSE IF Keys = {} THEN 0 ELSE Max(Keys)
             n  == IF job.min_pk # None \/ job.partitioned THEN 1 ELSE job.readers
             s  == SplitPkRange(lo, hi, n)
  <2>2. Plan = [i \in DOMAIN s |->
                  IF i = 1 THEN [from  |-> OrElse(job.resume_from_pk, job.min_pk),
                                 fresh |-> job.resume_from_pk = None,
                                 to    |-> s[1].hi]
                  ELSE [from |-> s[i].lo, fresh |-> FALSE, to |-> s[i].hi]]
    BY <1>4 DEF Plan, ReaderRanges, PlannedRanges, ParallelRanges
  <2>3. lo \in Int /\ n \in Nat \ {0} /\ hi \in Int /\ (job.max_pk # None => hi = job.max_pk)
    <3>1. Keys # {} => Max(Keys) \in Int
      BY <1>1, MaxIsGreatest
    <3> QED BY <1>1, <3>1 DEF Opt
  <2> HIDE DEF lo, hi, n
  <2>4. 1 \in DOMAIN s /\ s[1].hi \in Int /\ s[1].hi <= hi
    BY <2>3, SplitOrdered
  <2> HIDE DEF s
  <2>5. /\ Plan[1].from = job.resume_from_pk /\ Plan[1].fresh = FALSE
        /\ Plan[1].to = s[1].hi
    <3>1. OrElse(job.resume_from_pk, job.min_pk) = job.resume_from_pk
          /\ (job.resume_from_pk = None) = FALSE
      BY <1>4 DEF OrElse
    <3> QED BY <2>2, <2>4, <3>1
  <2>6. ASSUME NEW k \in Keys, Assigned(1, k)
        PROVE  k \in Rows
    <3>1. k \in Int /\ k > job.resume_from_pk /\ k <= s[1].hi
      BY <1>1, <1>4, <2>4, <2>5, <2>6, NoneAssumption DEF Assigned, Selects
    <3>2. job.max_pk # None => k <= job.max_pk
      BY <1>1, <2>3, <2>4, <3>1 DEF Opt
    <3> QED BY <1>4, <2>1, <3>1, <3>2 DEF Rows, JobRows
  <2> QED BY <2>1, <2>6
<1> QED BY <1>2, <1>3, <1>4

(* What a reader has in hand.                                              *)
LEMMA InHand ==
  ASSUME TypeInv, NEW r \in Readers, rd[r] = "send"
  PROVE  /\ out[r] \in Chunk /\ out[r].rows \subseteq Keys /\ out[r].rows \subseteq Int
         /\ Max(out[r].rows) \in out[r].rows
         /\ \A k \in out[r].rows : k <= Max(out[r].rows)
         /\ \A k \in out[r].rows : Yet(r, k)
<1>1. out[r] \in Chunk /\ out[r].rows # {} /\ Keys \subseteq Int /\ IsFiniteSet(Keys)
  BY PipelineAssumption DEF TypeInv
<1>2. PICK rows : rows = out[r].rows
  OBVIOUS
<1>3. rows \subseteq Keys /\ rows \subseteq Int /\ IsFiniteSet(rows) /\ rows # {}
  BY <1>1, <1>2, FS_Subset DEF Chunk
<1>4. Max(rows) \in rows /\ \A k \in rows : Max(rows) >= k
  BY <1>3, MaxIsGreatest
<1>5. \A k \in rows : k <= Max(rows)
  BY <1>3, <1>4
<1> QED BY <1>1, <1>2, <1>3, <1>4, <1>5 DEF Yet

(* No step gives a reader more to send.                                    *)
LEMMA YetShrinks ==
  ASSUME TypeInv, ReadApart, NEW r \in Readers, NEW k \in Keys, [Next]_vars, Yet(r, k)'
  PROVE  Yet(r, k) /\ (SendChunk(r) => k \notin out[r].rows)
<1>1. Plan' = Plan /\ k \in Int /\ Plan[r].to \in Opt(Int) /\ pos[r] \in Opt(Int)
  BY OnlyForward, PlanStable, PlanTyped, PipelineAssumption DEF TypeInv, TypeOK, RangeType
<1>2. CASE ReadChunk(r)
  <2> DEFINE N == NextRows(r)
  <2>1. rd[r] = "read" /\ N # {} /\ rd'[r] = "send" /\ out'[r].rows = N
    <3>1. N # {}
      <4>1. rd'[r] # "ok"
        BY DEF Yet
      <4> QED BY <1>2, <4>1 DEF ReadChunk, TypeInv, TypeOK
    <3> QED BY <1>2, <3>1 DEF ReadChunk, TypeInv, TypeOK, ChunkOf
  <2>2. Max(N) \in N /\ \A j \in N : Selects(j, pos[r], fresh[r], Plan[r].to)
    BY <2>1, ChunkTyped, ChunkSelected DEF NextRows
  <2>3. N \subseteq Int
    BY <2>1, ChunkTyped, PipelineAssumption
  <2> HIDE DEF N
  <2>4. k \in N \/ Selects(k, Max(N), FALSE, Plan[r].to)
    BY <1>1, <2>1 DEF Yet
  <2>5. Selects(k, pos[r], fresh[r], Plan[r].to)
    <3>1. CASE k \in N
      BY <2>2, <3>1
    <3>2. CASE Selects(k, Max(N), FALSE, Plan[r].to)
      <4>1. PICK m \in N : m = Max(N)
        BY <2>2
      <4>2. k > m /\ m \in Int /\ m # None
        BY <2>3, <3>2, <4>1, NoneAssumption DEF Selects
      <4>3. Selects(m, pos[r], fresh[r], Plan[r].to)
        BY <2>2
      <4> QED BY <1>1, <3>2, <4>2, <4>3 DEF Selects, Opt
    <3> QED BY <2>4, <3>1, <3>2
  <2> QED BY <2>1, <2>5 DEF Yet, SendChunk
<1>3. CASE SendChunk(r)
  <2>1. rd[r] = "send" /\ fresh'[r] = FALSE
    BY <1>3 DEF SendChunk, ReadApart
  <2>2. rd'[r] = "read" /\ pos'[r] = Max(out[r].rows)
    BY <1>3 DEF SendChunk, TypeInv, TypeOK, Yet
  <2>3. Selects(k, Max(out[r].rows), FALSE, Plan[r].to)
    BY <1>1, <2>1, <2>2 DEF Yet
  <2>4. Max(out[r].rows) \in Int
    BY <2>1, InHand
  <2>5. k > Max(out[r].rows)
    BY <2>3, <2>4, NoneAssumption DEF Selects
  <2>6. k \notin out[r].rows
    BY <1>1, <2>1, <2>4, <2>5, InHand
  <2> QED BY <2>1, <2>3, <2>6 DEF Yet
<1>4. CASE SpawnReaders
  <2>1. rd[r] = "idle" /\ rd'[r] = "read" /\ UNCHANGED <<pos, fresh, out>>
    BY <1>4 DEF SpawnReaders, ReadApart
  <2> QED BY <1>1, <2>1 DEF Yet, SendChunk
<1>5. CASE UNCHANGED <<rd, pos, fresh, out>>
  <2>1. ~SendChunk(r)
    BY <1>5 DEF SendChunk, TypeInv, TypeOK
  <2> QED BY <1>1, <1>5, <2>1 DEF Yet
<1>6. CASE ReadFail(r) \/ SendClosed(r)
  BY <1>6 DEF ReadFail, SendClosed, Yet, TypeInv, TypeOK
<1>7. ASSUME NEW v \in Readers \ {r}, ReaderTask(v)
      PROVE  Yet(r, k) /\ (SendChunk(r) => k \notin out[r].rows)
  <2>1. rd'[r] = rd[r] /\ pos'[r] = pos[r] /\ fresh'[r] = fresh[r] /\ out'[r] = out[r]
    BY <1>7 DEF ReaderTask, ReadChunk, ReadFail, SendChunk, SendClosed, TypeInv, TypeOK
  <2>2. ~SendChunk(r)
    BY <2>1 DEF SendChunk, TypeInv, TypeOK
  <2> QED BY <1>1, <2>1, <2>2 DEF Yet
<1>8. ASSUME NEW v \in Readers, ReaderTask(v)
      PROVE  Yet(r, k) /\ (SendChunk(r) => k \notin out[r].rows)
  BY <1>2, <1>3, <1>6, <1>7, <1>8 DEF ReaderTask
<1> QED
  BY <1>4, <1>5, <1>8
  DEF Next, Coordinator, Execute, WriterTask, Terminated, MaxPkFail, JoinReader,
      Recv, Send, RecvNone, SeeCancel, SendRefused, LeaveLoop, JoinReaders, JoinWriters,
      OpenWriter, TakeJob, WriteOk, WriteFail, WriterPanics, EndWriter,
      SiblingCancel, Abort, vars, readerVars

(* A row is sent by the reader that has it in hand.                        *)
LEMMA SentBy ==
  ASSUME TypeInv, [Next]_vars, NEW k, Sent(k)'
  PROVE  Sent(k) \/ \E v \in Readers : SendChunk(v) /\ k \in out[v].rows
<1>1. CASE UNCHANGED <<queued, held, readQ>>
  BY <1>1 DEF Sent
<1>2. ASSUME NEW v \in Readers, SendChunk(v)
      PROVE  Sent(k) \/ k \in out[v].rows
  <2>1. /\ UNCHANGED <<queued, held>>
        /\ Len(readQ) \in Nat /\ Len(readQ') = Len(readQ) + 1
        /\ \A i \in 1..Len(readQ) : readQ'[i] = readQ[i]
        /\ readQ'[Len(readQ) + 1] = out[v]
    BY <1>2 DEF SendChunk, TypeInv, TypeOK
  <2>2. \A i \in 1..Len(readQ') : i \in 1..Len(readQ) \/ i = Len(readQ) + 1
    BY <2>1
  <2> QED BY <2>1, <2>2 DEF Sent
<1>3. CASE Recv
  <2>1. /\ queued' = queued /\ held' = readQ[1]
        /\ Len(readQ) \in Nat \ {0} /\ Len(readQ') = Len(readQ) - 1
        /\ \A i \in 1..Len(readQ') : readQ'[i] = readQ[i + 1]
    BY <1>3 DEF Recv, TypeInv, TypeOK
  <2>2. 1 \in 1..Len(readQ) /\ \A i \in 1..Len(readQ') : i + 1 \in 1..Len(readQ)
    BY <2>1
  <2> QED BY <2>1, <2>2 DEF Sent
<1>4. CASE Send
  BY <1>4 DEF Send, Sent, NoChunk
<1>5. CASE LeaveLoop \/ Abort
  BY <1>5 DEF LeaveLoop, Abort, Sent, NoChunk
<1> QED
  BY <1>1, <1>2, <1>3, <1>4, <1>5
  DEF Next, ReaderTask, Coordinator, Execute, WriterTask, Terminated,
      SpawnReaders, MaxPkFail, ReadChunk, ReadFail, SendClosed, JoinReader,
      RecvNone, SeeCancel, SendRefused, JoinReaders, JoinWriters,
      OpenWriter, TakeJob, WriteOk, WriteFail,
      WriterPanics, EndWriter, SiblingCancel, vars

(* The ranges of the readers stay apart ...                                *)
LEMMA NextReadApart ==
  ASSUME TypeInv, Counted, ReadApart, [Next]_vars
  PROVE  ReadApart'
<1>1. job' = job /\ Readers' = Readers /\ Plan' = Plan
  BY OnlyForward, PlanStable
<1>2. coord' = "start" => \A r \in Readers : rd'[r] = "idle"
  <2>1. CASE UNCHANGED <<coord, rd>>
    BY <2>1 DEF ReadApart
  <2>2. ASSUME NEW r \in Readers, ReaderTask(r)
        PROVE  coord' = coord /\ rd[r] # "idle"
    BY <2>2 DEF ReaderTask, ReadChunk, ReadFail, SendChunk, SendClosed
  <2>3. CASE Coordinator
    <3>1. CASE SpawnReaders \/ MaxPkFail
      BY <3>1 DEF SpawnReaders, MaxPkFail
    <3>2. CASE JoinReader
      <4>1. Finished(joined + 1) /\ coord' \in {"ok", "join", "source_err", rd[joined + 1]}
        BY <3>2, Zenon DEF JoinReader
      <4>2. coord' # "start"
        BY <4>1 DEF Finished, Ends
      <4> QED BY <4>2
    <3> QED BY <2>3, <3>1, <3>2 DEF Coordinator
  <2> QED
    BY <2>1, <2>2, <2>3
    DEF ReadApart, Next, Execute, WriterTask, Terminated,
        Recv, Send, RecvNone, SeeCancel, SendRefused, LeaveLoop, JoinReaders, JoinWriters,
        OpenWriter, TakeJob, WriteOk, WriteFail, WriterPanics, EndWriter,
        SiblingCancel, Abort, vars, readerVars
<1>3. \A r \in Readers : rd'[r] = "send" => fresh'[r] = FALSE
  <2>1. CASE UNCHANGED <<rd, fresh>>
    BY <2>1 DEF ReadApart
  <2>2. ASSUME NEW v \in Readers, ReaderTask(v)
        PROVE  \A r \in Readers : rd'[r] = "send" => fresh'[r] = FALSE
    <3>1. /\ \A r \in Readers \ {v} : rd'[r] = rd[r] /\ fresh'[r] = fresh[r]
          /\ rd'[v] = "send" => fresh'[v] = FALSE
      BY <2>2 DEF ReaderTask, ReadChunk, ReadFail, SendChunk, SendClosed, TypeInv, TypeOK
    <3> QED BY <3>1 DEF ReadApart
  <2>3. CASE SpawnReaders
    BY <2>3 DEF SpawnReaders
  <2> QED
    BY <2>1, <2>2, <2>3
    DEF Next, Coordinator, Execute, WriterTask, Terminated, MaxPkFail, JoinReader,
        Recv, Send, RecvNone, SeeCancel, SendRefused, LeaveLoop, JoinReaders, JoinWriters,
        OpenWriter, TakeJob, WriteOk, WriteFail, WriterPanics, EndWriter,
        SiblingCancel, Abort, vars, readerVars
<1>4. ASSUME NEW r \in Readers, NEW k \in Keys, Yet(r, k)'
      PROVE  Assigned(r, k)' /\ ~Sent(k)'
  <2>1. Yet(r, k) /\ (SendChunk(r) => k \notin out[r].rows)
    BY <1>4, YetShrinks
  <2>2. Assigned(r, k) /\ ~Sent(k)
    BY <2>1 DEF ReadApart
  <2>3. ASSUME NEW v \in Readers, SendChunk(v), k \in out[v].rows
        PROVE  FALSE
    <3>1. Yet(v, k)
      BY <2>3, InHand DEF SendChunk
    <3>2. v = r
      BY <2>2, <3>1, PlanTiles DEF ReadApart
    <3> QED BY <2>1, <2>3, <3>2
  <2> QED BY <1>1, <2>2, <2>3, SentBy DEF Assigned
<1> QED BY <1>1, <1>2, <1>3, <1>4 DEF ReadApart

(* ... the chunks under way too ...                                        *)
LEMMA NextQueueApart ==
  ASSUME TypeInv, Counted, ReadApart, QueueApart, [Next]_vars
  PROVE  QueueApart'
<1>1. Rows' = Rows
  BY OnlyForward, PlanStable
<1>2. ASSUME NEW v \in Readers, NEW k, SendChunk(v), k \in out[v].rows
      PROVE  k \in Keys /\ k \in Rows /\ ~Sent(k)
  <2>1. k \in Keys /\ Yet(v, k)
    BY <1>2, InHand DEF SendChunk
  <2> QED BY <2>1, PlanTiles DEF ReadApart
<1>3. \A k \in Keys : Sent(k)' => k \in Rows'
  BY <1>1, <1>2, SentBy DEF QueueApart
<1>4. CASE UNCHANGED <<queued, held, readQ>>
  BY <1>3, <1>4 DEF QueueApart
<1>5. ASSUME NEW v \in Readers, SendChunk(v)
      PROVE  QueueApart'
  <2> DEFINE m == Len(readQ)
  <2>1. /\ UNCHANGED <<queued, held>>
        /\ m \in Nat /\ Len(readQ') = m + 1
        /\ \A i \in 1..m : readQ'[i] = readQ[i]
        /\ readQ'[m + 1] = out[v]
    BY <1>5 DEF SendChunk, TypeInv, TypeOK
  <2> HIDE DEF m
  <2>2. \A i \in 1..(m + 1) : i \in 1..m \/ i = m + 1
    BY <2>1
  <2>3. \A k \in out[v].rows : k \notin queued /\ k \notin held.rows
                               /\ \A i \in 1..m : k \notin readQ[i].rows
    BY <1>2, <1>5 DEF Sent, m
  <2>4. ASSUME NEW i \in 1..(m + 1), NEW k \in readQ'[i].rows
        PROVE  /\ k \notin queued /\ k \notin held.rows
               /\ \A j \in 1..(m + 1) : k \in readQ'[j].rows => j = i
    <3>1. CASE i \in 1..m
      BY <2>1, <2>2, <2>3, <2>4, <3>1 DEF QueueApart, m
    <3>2. CASE i = m + 1
      BY <2>1, <2>2, <2>3, <2>4, <3>2
    <3> QED BY <2>2, <3>1, <3>2
  <2> QED BY <1>3, <2>1, <2>4 DEF QueueApart
<1>6. CASE Recv
  <2> DEFINE m == Len(readQ')
  <2>1. /\ queued' = queued /\ held' = readQ[1]
        /\ m \in Nat /\ Len(readQ) = m + 1
        /\ \A i \in 1..m : readQ'[i] = readQ[i + 1]
    BY <1>6 DEF Recv, TypeInv, TypeOK
  <2> HIDE DEF m
  <2>2. /\ 1 \in 1..(m + 1)
        /\ \A i \in 1..m : i \in Int /\ i + 1 \in 1..(m + 1) /\ i + 1 # 1
    BY <2>1
  <2>3. ASSUME NEW i \in 1..m, NEW k \in readQ'[i].rows
        PROVE  /\ k \notin queued' /\ k \notin held'.rows
               /\ \A j \in 1..m : k \in readQ'[j].rows => j = i
    <3>1. i + 1 \in 1..(m + 1) /\ k \in readQ[i + 1].rows
      BY <2>1, <2>2
    <3>2. /\ k \notin queued
          /\ \A j \in 1..(m + 1) : k \in readQ[j].rows => j = i + 1
      BY <2>1, <3>1 DEF QueueApart
    <3>3. k \notin readQ[1].rows
      BY <2>2, <3>2
    <3>4. ASSUME NEW j \in 1..m, k \in readQ'[j].rows
          PROVE  j = i
      <4>1. j + 1 = i + 1
        BY <2>1, <2>2, <3>2, <3>4
      <4> QED BY <2>2, <4>1
    <3> QED BY <2>1, <3>2, <3>3, <3>4
  <2>4. \A k \in held'.rows : k \notin queued'
    BY <2>1, <2>2 DEF QueueApart
  <2> QED BY <1>3, <2>3, <2>4 DEF QueueApart, m
<1>7. CASE Send
  <2>1. queued' = queued \cup held.rows /\ held'.rows = {} /\ readQ' = readQ
    BY <1>7 DEF Send, NoChunk
  <2> QED BY <1>3, <2>1 DEF QueueApart
<1>8. CASE LeaveLoop \/ Abort
  <2>1. held'.rows = {} /\ readQ' = << >>
    BY <1>8 DEF LeaveLoop, Abort, NoChunk
  <2>2. Len(readQ') = 0
    BY <2>1
  <2> QED BY <1>3, <2>1, <2>2 DEF QueueApart
<1> QED
  BY <1>4, <1>5, <1>6, <1>7, <1>8
  DEF Next, ReaderTask, Coordinator, Execute, WriterTask, Terminated,
      SpawnReaders, MaxPkFail, ReadChunk, ReadFail, SendClosed, JoinReader,
      RecvNone, SeeCancel, SendRefused, JoinReaders, JoinWriters,
      OpenWriter, TakeJob, WriteOk, WriteFail,
      WriterPanics, EndWriter, SiblingCancel, vars

(* ... and what was handed over is in one place: the target, the write     *)
(* channel, or the hands of one writer ...                                 *)
LEMMA NextWriteApart ==
  ASSUME TypeInv, QueueApart, WriteApart, [Next]_vars
  PROVE  WriteApart'
<1>1. CASE UNCHANGED <<queued, written, writeQ, hand>>
  BY <1>1 DEF WriteApart
<1>2. CASE Send
  <2> DEFINE m == Len(writeQ)
  <2>1. /\ queued' = queued \cup held.rows /\ UNCHANGED <<written, hand>>
        /\ m \in Nat /\ Len(writeQ') = m + 1
        /\ \A i \in 1..m : writeQ'[i] = writeQ[i]
        /\ writeQ'[m + 1] = held.rows
    BY <1>2 DEF Send, writerVars, TypeInv, TypeOK
  <2>2. \A i \in 1..(m + 1) : i \in 1..m \/ i = m + 1
    BY <2>1
  <2>3. \A k \in held.rows : k \notin queued
    BY DEF QueueApart
  <2>4. /\ written' \subseteq queued'
        /\ \A k \in held.rows : k \notin written /\ \A w \in Writers : k \notin hand[w]
        /\ \A k \in held.rows : \A i \in 1..m : k \notin writeQ[i]
    BY <2>1, <2>3 DEF WriteApart
  <2> HIDE DEF m
  <2>5. ASSUME NEW i \in 1..(m + 1), NEW k \in writeQ'[i]
        PROVE  /\ k \in queued' /\ k \notin written'
               /\ \A j \in 1..(m + 1) : k \in writeQ'[j] => j = i
    <3>1. CASE i \in 1..m
      BY <2>1, <2>2, <2>4, <2>5, <3>1 DEF WriteApart, m
    <3>2. CASE i = m + 1
      BY <2>1, <2>2, <2>4, <2>5, <3>2
    <3> QED BY <2>2, <3>1, <3>2
  <2>6. ASSUME NEW w \in Writers, NEW k \in hand'[w]
        PROVE  /\ k \in queued' /\ k \notin written'
               /\ \A i \in 1..(m + 1) : k \notin writeQ'[i]
               /\ \A v \in Writers : k \in hand'[v] => v = w
    BY <2>1, <2>2, <2>4, <2>6 DEF WriteApart, m
  <2> QED BY <2>1, <2>4, <2>5, <2>6 DEF WriteApart
<1>3. ASSUME NEW w \in Writers, TakeJob(w)
      PROVE  WriteApart'
  <2> DEFINE m == Len(writeQ')
  <2>1. /\ UNCHANGED <<queued, written>>
        /\ m \in Nat /\ Len(writeQ) = m + 1
        /\ \A i \in 1..m : writeQ'[i] = writeQ[i + 1]
        /\ hand'[w] = writeQ[1] /\ \A v \in Writers \ {w} : hand'[v] = hand[v]
    BY <1>3 DEF TakeJob, TypeInv, TypeOK
  <2> HIDE DEF m
  <2>2. /\ 1 \in 1..(m + 1)
        /\ \A i \in 1..m : i \in Int /\ i + 1 \in 1..(m + 1) /\ i + 1 # 1
    BY <2>1
  <2>3. ASSUME NEW i \in 1..m, NEW k \in writeQ'[i]
        PROVE  /\ k \in queued' /\ k \notin written'
               /\ \A j \in 1..m : k \in writeQ'[j] => j = i
    <3>1. i + 1 \in 1..(m + 1) /\ k \in writeQ[i + 1]
      BY <2>1, <2>2
    <3>2. /\ k \in queued /\ k \notin written
          /\ \A j \in 1..(m + 1) : k \in writeQ[j] => j = i + 1
      BY <2>1, <3>1 DEF WriteApart
    <3>3. ASSUME NEW j \in 1..m, k \in writeQ'[j]
          PROVE  j = i
      <4>1. j + 1 = i + 1
        BY <2>1, <2>2, <3>2, <3>3
      <4> QED BY <2>2, <4>1
    <3> QED BY <2>1, <3>2, <3>3
  <2>4. ASSUME NEW v \in Writers, NEW k \in hand'[v]
        PROVE  /\ k \in queued' /\ k \notin written'
               /\ \A i \in 1..m : k \notin writeQ'[i]
               /\ \A u \in Writers : k \in hand'[u] => u = v
    <3>1. CASE v = w
      <4>1. /\ k \in writeQ[1] /\ k \in queued /\ k \notin written
            /\ \A j \in 1..(m + 1) : k \in writeQ[j] => j = 1
        BY <2>1, <2>2, <2>4, <3>1 DEF WriteApart
      <4>2. \A i \in 1..m : k \notin writeQ'[i]
        BY <2>1, <2>2, <4>1
      <4>3. \A u \in Writers \ {w} : k \notin hand[u]
        BY <2>1, <2>2, <4>1 DEF WriteApart
      <4> QED BY <2>1, <3>1, <4>1, <4>2, <4>3
    <3>2. CASE v # w
      <4>1. /\ k \in hand[v] /\ k \in queued /\ k \notin written
            /\ \A i \in 1..(m + 1) : k \notin writeQ[i]
            /\ \A u \in Writers : k \in hand[u] => u = v
        BY <2>1, <2>4, <3>2 DEF WriteApart
      <4>2. \A i \in 1..m : k \notin writeQ'[i]
        BY <2>1, <2>2, <4>1
      <4>3. k \notin hand'[w]
        BY <2>1, <2>2, <4>1
      <4> QED BY <2>1, <3>2, <4>1, <4>2, <4>3
    <3> QED BY <3>1, <3>2
  <2> QED BY <2>1, <2>3, <2>4 DEF WriteApart, m
<1>4. ASSUME NEW w \in Writers, WriteOk(w) \/ WriteFail(w) \/ WriterPanics(w)
      PROVE  WriteApart'
  <2>1. /\ UNCHANGED <<queued, writeQ>>
        /\ written' \subseteq written \cup hand[w]
        /\ hand'[w] = {} /\ \A v \in Writers \ {w} : hand'[v] = hand[v]
    BY <1>4 DEF WriteOk, WriteFail, WriterPanics, TypeInv, TypeOK
  <2>2. written' \subseteq queued'
    BY <2>1 DEF WriteApart
  <2>3. \A i \in 1..Len(writeQ) : \A k \in writeQ[i] : k \notin hand[w]
    BY DEF WriteApart
  <2>4. ASSUME NEW v \in Writers, NEW k \in hand'[v]
        PROVE  /\ k \in queued' /\ k \notin written'
               /\ \A i \in 1..Len(writeQ) : k \notin writeQ[i]
               /\ \A u \in Writers : k \in hand'[u] => u = v
    <3>1. v # w /\ k \in hand[v]
      BY <2>1, <2>4
    <3>2. k \notin hand[w]
      BY <3>1 DEF WriteApart
    <3> QED BY <2>1, <3>1, <3>2 DEF WriteApart
  <2> QED BY <2>1, <2>2, <2>3, <2>4 DEF WriteApart
<1> QED
  BY <1>1, <1>2, <1>3, <1>4
  DEF Next, ReaderTask, Coordinator, Execute, WriterTask, Terminated,
      SpawnReaders, MaxPkFail, ReadChunk, ReadFail, SendChunk, SendClosed, JoinReader,
      Recv, RecvNone, SeeCancel, SendRefused, LeaveLoop, JoinReaders, JoinWriters,
      OpenWriter, EndWriter, SiblingCancel, Abort, vars, readerVars, writerVars

(* ... and the writers' counts add up to what was written.                 *)
LEMMA NextTally ==
  ASSUME TypeInv, WriteApart, Tally, [Next]_vars
  PROVE  Tally'
<1> SUFFICES ASSUME \A w \in Writers : wr'[w] # "failed"
             PROVE  StatsRows' = Cardinality(written')
  BY DEF Tally
<1>1. \A w \in Writers : wr[w] # "failed"
  <2>1. ASSUME NEW w \in Writers, wr[w] = "failed"
        PROVE  wr'[w] = "failed"
    <3>1. CASE UNCHANGED wr
      BY <2>1, <3>1
    <3>2. ASSUME NEW v \in Writers, WriterTask(v)
          PROVE  wr'[w] = "failed"
      BY <2>1, <3>2 DEF WriterTask, OpenWriter, TakeJob, WriteOk, WriteFail, WriterPanics,
                        EndWriter, TypeInv, TypeOK
    <3> QED
      BY <3>1, <3>2
      DEF Next, ReaderTask, Coordinator, Execute, Terminated,
          SpawnReaders, MaxPkFail, ReadChunk, ReadFail, SendChunk, SendClosed, JoinReader,
          Recv, Send, RecvNone, SeeCancel, SendRefused, LeaveLoop, JoinReaders, JoinWriters,
          SiblingCancel, Abort, vars, writerVars
  <2> QED BY <2>1
<1>2. StatsRows = Cardinality(written)
  BY <1>1 DEF Tally
<1>3. CASE UNCHANGED <<done, written>>
  BY <1>2, <1>3 DEF StatsRows
<1>4. ASSUME NEW w \in Writers, WriteOk(w)
      PROVE  StatsRows' = Cardinality(written')
  <2> DEFINE n == Cardinality(hand[w])
  <2>1. /\ IsFiniteSet(hand[w]) /\ IsFiniteSet(written) /\ IsFiniteSet(Writers)
        /\ done \in [Writers -> Nat]
    BY PipelineAssumption, FS_Subset DEF TypeInv, TypeOK
  <2>2. n \in Nat
    BY <2>1, FS_CardinalityType
  <2>3. written' = written \cup hand[w] /\ done' = [done EXCEPT ![w] = @ + n]
    BY <1>4 DEF WriteOk
  <2> HIDE DEF n
  <2>4. SumFunction(done') = SumFunction(done) + n
    BY <2>1, <2>2, <2>3, SumGrows
  <2>5. written \cap hand[w] = {}
    BY DEF WriteApart
  <2>6. Cardinality(written') = Cardinality(written) + n
    <3>1. Cardinality(written \cup hand[w])
            = Cardinality(written) + Cardinality(hand[w]) - Cardinality(written \cap hand[w])
      BY <2>1, FS_Union
    <3>2. Cardinality({}) = 0 /\ Cardinality(written) \in Nat
      BY <2>1, FS_EmptySet, FS_CardinalityType
    <3>3. Cardinality(written \cup hand[w]) = Cardinality(written) + n - 0
      BY <2>5, <3>1, <3>2 DEF n
    <3>4. Cardinality(written') = Cardinality(written \cup hand[w])
      BY <2>3
    <3> QED BY <2>2, <3>2, <3>3, <3>4
  <2> QED BY <1>2, <2>4, <2>6 DEF StatsRows
<1>5. ASSUME NEW w \in Writers, WriteFail(w)
      PROVE  FALSE
  BY <1>5 DEF WriteFail, TypeInv, TypeOK
<1> QED
  BY <1>3, <1>4, <1>5
  DEF Next, ReaderTask, Coordinator, Execute, WriterTask, Terminated,
      SpawnReaders, MaxPkFail, ReadChunk, ReadFail, SendChunk, SendClosed, JoinReader,
      Recv, Send, RecvNone, SeeCancel, SendRefused, LeaveLoop, JoinReaders, JoinWriters,
      OpenWriter, TakeJob, WriterPanics, EndWriter, SiblingCancel, Abort, vars, writerVars

(* execute starts with nothing sent and nothing counted.                   *)
LEMMA InitOnceInv == Init => OnceInv
<1> SUFFICES ASSUME Init PROVE OnceInv
  OBVIOUS
<1>1. job \in Jobs
  BY DEF Init
<1>2. ~ \E k \in Keys : Sent(k)
  BY DEF Init, Sent, NoChunk
<1>3. ReadApart
  BY <1>2 DEF Init, ReadApart, Yet, Assigned
<1>4. QueueApart
  BY <1>2 DEF Init, QueueApart, NoChunk
<1>5. WriteApart
  BY DEF Init, WriteApart
<1>6. StatsRows = Cardinality(written)
  <2>1. done = [w \in Writers |-> 0] /\ written = {}
    BY DEF Init
  <2>2. SumFunction([w \in Writers |-> 0]) = 0
    BY PipelineAssumption, SumOfZeros
  <2> QED BY <2>1, <2>2, FS_EmptySet DEF StatsRows
<1> QED BY <1>3, <1>4, <1>5, <1>6 DEF OnceInv, Tally

LEMMA NextOnceInv == TypeInv /\ OnceInv /\ [Next]_vars => OnceInv'
<1> SUFFICES ASSUME TypeInv, OnceInv, [Next]_vars, Counted'
             PROVE  (ReadApart /\ QueueApart /\ WriteApart /\ Tally)'
  BY DEF OnceInv
<1>1. Counted
  <2>1. job' = job /\ Plan' = Plan
    BY OnlyForward, PlanStable
  <2> QED BY <2>1 DEF Counted
<1> QED
  BY <1>1, NextReadApart, NextQueueApart, NextWriteApart, NextTally DEF OnceInv

(* The rows a successful job reports are the rows it moved, each counted   *)
(* once (RowsCountedOnce), for every job, number of readers and writers:   *)
(* execute adds up local_rows of the writers it joined.                    *)
THEOREM EachRowCounted == Spec => []RowsCountedOnce
<1>1. Init => TypeInv /\ SafeInv /\ OnceInv
  BY InitTypeInv, InitSafeInv, InitOnceInv
<1>2. (TypeInv /\ SafeInv /\ OnceInv) /\ [Next]_vars => (TypeInv /\ SafeInv /\ OnceInv)'
  BY NextTypeInv, NextSafeInv, NextOnceInv
<1>3. TypeInv /\ SafeInv /\ OnceInv => RowsCountedOnce
  <2> SUFFICES ASSUME TypeInv, SafeInv, OnceInv, main = "ok", Counted
               PROVE  written \subseteq Rows /\ StatsRows = Cardinality(written)
    BY DEF RowsCountedOnce, Counted
  <2>1. \A w \in Writers : wr[w] # "failed"
    <3>1. \A w \in Writers : wr[w] = "ended"
      BY DEF SafeInv, WriterInv
    <3> QED BY <3>1
  <2>2. written \subseteq queued /\ queued \subseteq Keys
    BY DEF OnceInv, WriteApart, TypeInv, TypeOK
  <2>3. \A k \in queued : k \in Rows
    BY <2>2 DEF OnceInv, QueueApart, Sent
  <2> QED BY <2>1, <2>2, <2>3 DEF OnceInv, Tally
<1> QED BY <1>1, <1>2, <1>3, PTL DEF Spec
-----------------------------------------------------------------------------
(* The promise's state, seen from the pipeline's.                          *)
JobOutcome ==
  CASE main = "ok" -> IF cancel THEN "partial" ELSE "complete"
    [] main \in {"reader_err", "writer_err", "aborted"} -> "failed"
    [] OTHER -> "running"

JobResume == IF main = "ok" THEN LastPk ELSE None

(* Once a job returned Ok its writers have ended, so that nothing more is  *)
(* written and nobody is left to cancel the token.                         *)
LEMMA QuietAfterOk ==
  ASSUME TypeInv, SafeInv, main = "ok", [Next]_vars
  PROVE  UNCHANGED <<main, ranges, cancel, written>>
<1>1. \A w \in Writers : wr[w] = "ended"
  BY DEF SafeInv, WriterInv
<1>2. ~ \E w \in Writers : WriterTask(w)
  BY <1>1 DEF WriterTask, OpenWriter, TakeJob, WriteOk, WriteFail, WriterPanics, EndWriter
<1> QED
  BY <1>2
  DEF Next, ReaderTask, Coordinator, Execute, Terminated, SpawnReaders, MaxPkFail, ReadChunk,
      ReadFail, SendChunk, SendClosed, JoinReader, Recv, Send, RecvNone, SeeCancel,
      SendRefused, LeaveLoop, JoinReaders, JoinWriters, SiblingCancel, Abort, vars,
      writerVars, Returned, Dispatching

(* A step of the pipeline that is no return and no failure of execute      *)
(* delivers rows or changes nothing of the promise's state.                *)
LEMMA Delivers ==
  ASSUME TypeInv, SafeInv, [Next]_vars
  PROVE  /\ written \subseteq written'
         /\ main = "ok" => written' = written
<1>1. written \subseteq written'
  BY DEF Next, ReaderTask, Coordinator, Execute, WriterTask, Terminated, SpawnReaders,
         MaxPkFail, ReadChunk, ReadFail, SendChunk, SendClosed, JoinReader, Recv, Send,
         RecvNone, SeeCancel, SendRefused, LeaveLoop, JoinReaders, JoinWriters, OpenWriter,
         TakeJob, WriteOk, WriteFail, WriterPanics, EndWriter, SiblingCancel, Abort, vars,
         writerVars
<1> QED BY <1>1, QuietAfterOk

(* The control states of execute move towards a return, once.              *)
LEMMA Outcomes ==
  ASSUME TypeInv, SafeInv, [Next]_vars
  PROVE  \/ main' # "ok" /\ main # "ok" /\ JobOutcome' = JobOutcome
         \/ main' = "ok" /\ main = "ok" /\ JobOutcome' = JobOutcome /\ JobResume' = JobResume
         \/ JoinWriters /\ main' = "ok"
         \/ JobOutcome = "running" /\ JobOutcome' = "failed" /\ main' # "ok" /\ written' = written
<1>1. CASE main = "ok"
  <2>1. LastPk' = LastPk
    BY <1>1, QuietAfterOk, OnlyForward, PlanStable DEF LastPk
  <2> QED BY <1>1, <2>1, QuietAfterOk DEF JobOutcome, JobResume
<1>2. CASE main # "ok" /\ main' = main
  BY <1>2 DEF JobOutcome
<1>3. CASE Abort \/ (JoinReaders /\ main' = "reader_err") \/ (JoinWriters /\ main' = "writer_err")
  BY <1>3 DEF Abort, JoinReaders, JoinWriters, Returned, JobOutcome, writerVars, TypeInv, TypeOK
<1>4. CASE Recv \/ Send \/ (LeaveLoop /\ Dispatching) \/ (JoinReaders /\ main' = "join_writers")
  BY <1>4 DEF Recv, Send, LeaveLoop, JoinReaders, Dispatching, JobOutcome
<1>5. CASE JoinReaders
  <2>1. main' = "join_writers" \/ main' = "reader_err"
    BY <1>5 DEF JoinReaders
  <2> QED BY <1>3, <1>4, <1>5, <2>1
<1>6. CASE JoinWriters
  <2>1. main' = "ok" \/ main' = "writer_err"
    BY <1>6 DEF JoinWriters
  <2> QED BY <1>3, <1>6, <2>1
<1>7. \/ main' = main \/ Abort \/ Recv \/ Send \/ JoinReaders \/ JoinWriters
      \/ (LeaveLoop /\ Dispatching)
  BY DEF Next, ReaderTask, Coordinator, Execute, WriterTask, Terminated, SpawnReaders,
         MaxPkFail, ReadChunk, ReadFail, SendChunk, SendClosed, JoinReader, RecvNone,
         SeeCancel, SendRefused, OpenWriter, TakeJob, WriteOk, WriteFail, WriterPanics,
         EndWriter, SiblingCancel, Dispatching, vars
<1> QED BY <1>1, <1>2, <1>3, <1>4, <1>5, <1>6, <1>7

(* Every step of the pipeline is a step of the promise or a stutter.       *)
LEMMA StepKeepsPromise ==
  ASSUME TypeInv, SafeInv, CompleteInv, TypeInv', SafeInv', [Next]_vars
  PROVE  [Promise!Next]_Promise!vars
<1>1. Rows' = Rows /\ written \subseteq written'
  BY OnlyForward, PlanStable, Delivers
<1>2. /\ Promise!Deliver <=> /\ JobOutcome \in {"running", "failed"}
                             /\ written \cap Rows \subseteq written' \cap Rows'
                             /\ written' \cap Rows' \subseteq Rows
                             /\ Rows' = Rows /\ JobOutcome' = JobOutcome /\ JobResume' = JobResume
      /\ Promise!Fail <=> /\ JobOutcome = "running" /\ JobOutcome' = "failed"
                          /\ Rows' = Rows /\ written' \cap Rows' = written \cap Rows
                          /\ JobResume' = JobResume
  BY DEF Promise!Deliver, Promise!Fail, JobOutcome, JobResume
<1>3. CASE main' # "ok" /\ main # "ok" /\ JobOutcome' = JobOutcome
  <2>1. JobOutcome \in {"running", "failed"} /\ JobResume' = JobResume
    BY <1>3 DEF JobOutcome, JobResume
  <2> QED BY <1>1, <1>2, <1>3, <2>1 DEF Promise!Next
<1>4. CASE main' = "ok" /\ main = "ok" /\ JobOutcome' = JobOutcome /\ JobResume' = JobResume
  <2>1. written' = written
    BY <1>4, Delivers
  <2> QED BY <1>1, <1>4, <2>1 DEF Promise!vars, JobOutcome, JobResume
<1>5. CASE JobOutcome = "running" /\ JobOutcome' = "failed" /\ main' # "ok" /\ written' = written
  <2>1. JobResume' = JobResume
    BY <1>5 DEF JobOutcome, JobResume
  <2> QED BY <1>1, <1>2, <1>5, <2>1 DEF Promise!Next
<1>6. CASE JoinWriters /\ main' = "ok"
  <2>1. /\ main = "join_writers" /\ written' = written /\ cancel' = cancel /\ AllWritersJoined
    BY <1>6 DEF JoinWriters, writerVars
  <2>2. JobOutcome = "running" /\ JobOutcome' = (IF cancel THEN "partial" ELSE "complete")
    BY <1>6, <2>1 DEF JobOutcome
  <2>3. ~cancel => Rows \subseteq written \cap Rows
    BY <2>1, AllWritten
  <2>4. ResumePointSafe'
    BY SafeInvImplies, PTL
  <2>5. JobResume' = None \/ \A k \in Rows : k <= JobResume' => k \in written \cap Rows
    BY <1>1, <1>6, <2>1, <2>4 DEF ResumePointSafe, JobResume
  <2>6. Promise!Return
    BY <1>1, <2>1, <2>2, <2>3, <2>5
    DEF Promise!Return, Promise!SafeResume, JobOutcome, JobResume
  <2> QED BY <2>6 DEF Promise!Next
<1> QED BY <1>3, <1>4, <1>5, <1>6, Outcomes

(* execute implements what the orchestrator relies on: rows of the job     *)
(* reach the target; an Ok with a token never cancelled means all of them  *)
(* did; the resume point leaves no row behind it; nothing is written after *)
(* an Ok.                                                                  *)
THEOREM PipelineKeepsPromise == Spec => KeepsPromise
<1>1. Init => TypeInv /\ SafeInv /\ CompleteInv
  BY InitTypeInv, InitSafeInv, InitCompleteInv
<1>2. (TypeInv /\ SafeInv /\ CompleteInv) /\ [Next]_vars => (TypeInv /\ SafeInv /\ CompleteInv)'
  BY NextTypeInv, NextSafeInv, NextCompleteInv
<1>3. Init => Promise!Init
  BY DEF Init, Promise!Init
<1>4. (TypeInv /\ SafeInv /\ CompleteInv) /\ (TypeInv /\ SafeInv)' /\ [Next]_vars
        => [Promise!Next]_Promise!vars
  BY StepKeepsPromise
<1> QED BY <1>1, <1>2, <1>3, <1>4, PTL DEF Spec, KeepsPromise, Promise!Spec
=============================================================================
