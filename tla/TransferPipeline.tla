-------------------------- MODULE TransferPipeline --------------------------
(***************************************************************************)
(* TransferEngine::execute: one transfer job as a pipeline of tokio tasks. *)
(* Reader tasks page through the source and send chunks to a bounded read  *)
(* channel; the dispatcher (the body of execute) hands every chunk to the  *)
(* bounded write channel, from which the writer tasks take their work.  A  *)
(* CancellationToken, shared with the other partitions of the same table,  *)
(* stops the dispatcher when a writer fails.                               *)
(*                                                                         *)
(* The source does not change during the job (SourceScan covers that).     *)
(***************************************************************************)
EXTENDS RangeTracker

CONSTANTS Keys,            \* primary keys of the source rows the job's filter selects
          Jobs,            \* the jobs to run, one per behaviour
          Writers,         \* parallel_writers
          ReadAhead        \* capacity of the read channel

ASSUME PipelineAssumption ==
  /\ Keys \subseteq Int /\ IsFiniteSet(Keys)
  /\ Jobs \subseteq JobType
  /\ IsFiniteSet(Writers) /\ Writers # {}
  /\ ReadAhead \in Nat \ {0}

VARIABLES
  job,       \* the TransferJob
  rd,        \* state of each reader task
  pos,       \* last_pk of each reader: the key its next query starts from
  fresh,     \* is_first_chunk of each reader
  out,       \* the chunk each reader is about to send
  joined,    \* how many reader handles the reader coordinator has awaited
  coord,     \* state of the task behind reader_handle
  readQ,     \* the read channel
  main,      \* control state of execute itself (the dispatcher loop first)
  held,      \* the chunk the dispatcher is handing over
  ranges,    \* RangeTracker
  writeQ,    \* the write channel
  wr,        \* state of each writer task
  hand,      \* the rows each writer is writing
  done,      \* local_rows of each writer
  cancel,    \* the CancellationToken
  queued,    \* rows handed to the write channel (history)
  written    \* rows the target has accepted

readerVars == <<rd, pos, fresh, out, joined, coord>>
writerVars == <<wr, hand, done, written>>
vars == <<job, readerVars, readQ, main, held, ranges, writeQ, writerVars,
          cancel, queued>>

NoChunk == [reader |-> 0, rows |-> {}, first |-> None, last |-> None]

Plan    == ReaderRanges(job, Keys)
Readers == DOMAIN Plan
Rows    == JobRows(job, Keys)
Start   == TrackerStart(OrElse(job.resume_from_pk, job.min_pk))

(* A variant: the read channel is closed only after the readers are joined.*)
DispatchingOrJoining == main \in {"recv", "send", "join_readers"}

(* write_tx and read_rx live until the dispatcher loop is left.            *)
Dispatching == main \in {"recv", "send"}
Returned    == main \in {"ok", "reader_err", "writer_err", "aborted"}
Ends == {"ok", "source_err", "closed_err", "panic"}
Finished(r) == rd[r] \in Ends
WriterLeft  == \E w \in Writers : wr[w] \in {"open", "recv", "write"}

(* None from read_rx.recv(): the channel is empty and every sender, the    *)
(* readers' and the coordinator's, is gone.                                *)
SendersGone == /\ coord \in Ends
               /\ \A r \in Readers : rd[r] # "idle" => Finished(r)

Init ==
  /\ job \in Jobs
  /\ rd    = [r \in Readers |-> "idle"]
  /\ pos   = [r \in Readers |-> Plan[r].from]
  /\ fresh = [r \in Readers |-> Plan[r].fresh]
  /\ out   = [r \in Readers |-> NoChunk]
  /\ joined = 0
  /\ coord = "start"
  /\ readQ = << >>
  /\ main = "recv"
  /\ held = NoChunk
  /\ ranges = NoRanges
  /\ writeQ = << >>
  /\ wr   = [w \in Writers |-> IF job.upsert THEN "open" ELSE "recv"]
  /\ hand = [w \in Writers |-> {}]
  /\ done = [w \in Writers |-> 0]
  /\ cancel = FALSE
  /\ queued = {}
  /\ written = {}
-----------------------------------------------------------------------------
(* Readers                                                                 *)

SpawnReaders ==
  /\ coord = "start"
  /\ coord' = "join"
  /\ rd' = [r \in Readers |-> "read"]
  /\ UNCHANGED <<job, pos, fresh, out, joined, readQ, main, held, ranges,
                 writeQ, writerVars, cancel, queued>>

(* get_max_pk fails before any parallel reader is spawned.                 *)
MaxPkFail ==
  /\ coord = "start"
  /\ IsParallel(job) /\ job.max_pk = None
  /\ coord' = "source_err"
  /\ UNCHANGED <<job, rd, pos, fresh, out, joined, readQ, main, held, ranges,
                 writeQ, writerVars, cancel, queued>>

(* The source does not change, so that the cursor stands for the position  *)
(* in a COPY stream and for OFFSET total_rows as well.                     *)
NextRows(r) ==
  KeysetChunk(Keys, pos[r], fresh[r], Plan[r].to, job.chunk_size)

(* The bounds a chunk reports: the cursor before and after it, the keys of *)
(* its own first and last row on the COPY path, none under OFFSET.         *)
ChunkOf(r, rows) ==
  [reader |-> r, rows |-> rows,
   first  |-> CASE job.paging = "keyset" -> pos[r]
                [] job.paging = "copy"   -> Min(rows)
                [] OTHER                 -> None,
   last   |-> IF job.paging = "offset" THEN None ELSE Max(rows)]

ReadChunk(r) ==
  /\ rd[r] = "read"
  /\ fresh' = [fresh EXCEPT ![r] = FALSE]
  /\ IF NextRows(r) = {}
     THEN /\ rd' = [rd EXCEPT ![r] = "ok"]
          /\ UNCHANGED out
     ELSE /\ rd' = [rd EXCEPT ![r] = "send"]
          /\ out' = [out EXCEPT ![r] = ChunkOf(r, NextRows(r))]
  /\ UNCHANGED <<job, pos, joined, coord, readQ, main, held, ranges, writeQ,
                 writerVars, cancel, queued>>

(* A failed query, or a value whose conversion panics (row.get::<i32>);    *)
(* the COPY stream has a task of its own, whose panic is an error.         *)
ReadFail(r) ==
  /\ rd[r] = "read"
  /\ \E e \in {"source_err", "panic"} :
       (e = "panic" => job.paging # "copy") /\ rd' = [rd EXCEPT ![r] = e]
  /\ UNCHANGED <<job, pos, fresh, out, joined, coord, readQ, main, held,
                 ranges, writeQ, writerVars, cancel, queued>>

(* The stop tests after a chunk was sent: the end of the range is reached  *)
(* (keyset), or the chunk was short (OFFSET and the parallel readers).     *)
LastChunk(r, rows) ==
  \/ /\ job.paging = "keyset"
     /\ Plan[r].to # None
     /\ Max(rows) >= Plan[r].to
  \/ /\ job.paging = "offset" \/ IsParallel(job)
     /\ Cardinality(rows) < job.chunk_size

(* A variant of the bounded channel: room for one chunk too many.          *)
OneMoreFits == Len(readQ) <= ReadAhead

ReadRoom == Len(readQ) < ReadAhead

SendChunk(r) ==
  /\ rd[r] = "send"
  /\ Dispatching
  /\ ReadRoom
  /\ readQ' = Append(readQ, out[r])
  /\ pos' = [pos EXCEPT ![r] = Max(out[r].rows)]
  /\ rd' = [rd EXCEPT ![r] = IF LastChunk(r, out[r].rows) THEN "ok" ELSE "read"]
  /\ out' = [out EXCEPT ![r] = NoChunk]
  /\ UNCHANGED <<job, fresh, joined, coord, main, held, ranges, writeQ,
                 writerVars, cancel, queued>>

SendClosed(r) ==
  /\ rd[r] = "send"
  /\ ~Dispatching
  /\ rd' = [rd EXCEPT ![r] = "closed_err"]
  /\ UNCHANGED <<job, pos, fresh, out, joined, coord, readQ, main, held,
                 ranges, writeQ, writerVars, cancel, queued>>

(* The coordinator awaits the reader handles in order and returns the      *)
(* first error, leaving the later readers running on their own.  A single  *)
(* reader runs in the coordinator's task, so that its panic is the task's. *)
JoinReader ==
  /\ coord = "join"
  /\ LET r == joined + 1
     IN  /\ Finished(r)
         /\ IF rd[r] = "ok"
            THEN /\ joined' = r
                 /\ coord' = IF r = Len(Plan) THEN "ok" ELSE "join"
            ELSE /\ coord' = IF rd[r] = "panic" /\ IsParallel(job)
                             THEN "source_err" ELSE rd[r]
                 /\ UNCHANGED joined
  /\ UNCHANGED <<job, rd, pos, fresh, out, readQ, main, held, ranges, writeQ,
                 writerVars, cancel, queued>>
-----------------------------------------------------------------------------
(* execute: the dispatcher loop and the joins after it                     *)

Recv ==
  /\ main = "recv"
  /\ readQ # << >>
  /\ held' = Head(readQ)
  /\ readQ' = Tail(readQ)
  /\ main' = "send"
  /\ UNCHANGED <<job, readerVars, ranges, writeQ, writerVars, cancel, queued>>

(* The range is recorded only once the chunk is in the write channel.      *)
Send ==
  /\ main = "send"
  /\ WriterLeft
  /\ Len(writeQ) < 2 * Cardinality(Writers)
  /\ writeQ' = Append(writeQ, held.rows)
  /\ queued' = queued \cup held.rows
  /\ ranges' = AddRange(ranges, Start, held.first, held.last)
  /\ held' = NoChunk
  /\ main' = "recv"
  /\ UNCHANGED <<job, readerVars, readQ, writerVars, cancel>>

(* A variant: the range of a chunk is recorded although it was not handed  *)
(* over.                                                                   *)
LeaveLoopRecording ==
  /\ main' = "join_readers"
  /\ readQ' = << >>
  /\ held' = NoChunk
  /\ ranges' = AddRange(ranges, Start, held.first, held.last)
  /\ UNCHANGED <<job, readerVars, writeQ, writerVars, cancel, queued>>

(* Leaving the loop drops write_tx and read_rx, and with it the chunks     *)
(* still in the read channel and the one in hand.                          *)
LeaveLoop ==
  /\ main' = "join_readers"
  /\ readQ' = << >>
  /\ held' = NoChunk
  /\ UNCHANGED <<job, readerVars, ranges, writeQ, writerVars, cancel, queued>>

RecvNone == main = "recv" /\ readQ = << >> /\ SendersGone /\ LeaveLoop

SeeCancel == Dispatching /\ cancel /\ LeaveLoop

SendRefused == main = "send" /\ ~WriterLeft /\ LeaveLoop

(* A reader's error is returned at once unless the token is cancelled, a   *)
(* panic in any case; the writers are then left draining the write channel *)
(* on their own.                                                           *)
JoinReaders ==
  /\ main = "join_readers"
  /\ coord \in Ends
  /\ main' = IF coord = "ok" \/ (cancel /\ coord # "panic")
             THEN "join_writers" ELSE "reader_err"
  /\ UNCHANGED <<job, readerVars, readQ, held, ranges, writeQ, writerVars,
                 cancel, queued>>

(* A variant: returning as soon as one writer has ended.                   *)
AnyWriterJoined == \E w \in Writers : wr[w] = "ended"

AllWritersJoined == \A w \in Writers : wr[w] = "ended"

(* try_join_all: the first writer error ends the job.                      *)
JoinWriters ==
  /\ main = "join_writers"
  /\ \/ (\E w \in Writers : wr[w] = "failed") /\ main' = "writer_err"
     \/ AllWritersJoined /\ main' = "ok"
  /\ UNCHANGED <<job, readerVars, readQ, held, ranges, writeQ, writerVars,
                 cancel, queued>>

(* TransferStats of a job that returned Ok.                                *)
LastPk    == SafeResumePoint(ranges, Start)
StatsRows == SumFunction(done)
-----------------------------------------------------------------------------
(* Writers                                                                 *)

(* get_upsert_writer, which fails for none of the three targets.           *)
OpenWriter(w) ==
  /\ wr[w] = "open"
  /\ wr' = [wr EXCEPT ![w] = "recv"]
  /\ UNCHANGED <<job, readerVars, readQ, main, held, ranges, writeQ, hand,
                 done, written, cancel, queued>>

TakeJob(w) ==
  /\ wr[w] = "recv"
  /\ writeQ # << >>
  /\ hand' = [hand EXCEPT ![w] = Head(writeQ)]
  /\ writeQ' = Tail(writeQ)
  /\ wr' = [wr EXCEPT ![w] = "write"]
  /\ UNCHANGED <<job, readerVars, readQ, main, held, ranges, done, written,
                 cancel, queued>>

WriteOk(w) ==
  /\ wr[w] = "write"
  /\ written' = written \cup hand[w]
  /\ done' = [done EXCEPT ![w] = @ + Cardinality(hand[w])]
  /\ hand' = [hand EXCEPT ![w] = {}]
  /\ wr' = [wr EXCEPT ![w] = "recv"]
  /\ UNCHANGED <<job, readerVars, readQ, main, held, ranges, writeQ, cancel,
                 queued>>

(* A chunk written in several statements (MySQL INSERT) may fail half way. *)
WriteFail(w) ==
  /\ wr[w] = "write"
  /\ \E part \in SUBSET hand[w] : written' = written \cup part
  /\ cancel' = TRUE
  /\ hand' = [hand EXCEPT ![w] = {}]
  /\ wr' = [wr EXCEPT ![w] = "failed"]
  /\ UNCHANGED <<job, readerVars, readQ, main, held, ranges, writeQ, done,
                 queued>>

(* The name of an upsert writer's staging table may be longer than a name  *)
(* can be, and quoting it panics (`expect`) before anything is written.    *)
(* The panic ends the task without cancelling the token.                   *)
WriterPanics(w) ==
  /\ job.upsert
  /\ wr[w] = "write"
  /\ hand' = [hand EXCEPT ![w] = {}]
  /\ wr' = [wr EXCEPT ![w] = "failed"]
  /\ UNCHANGED <<job, readerVars, readQ, main, held, ranges, writeQ, done,
                 written, cancel, queued>>

(* recv() on the closed and drained write channel.                         *)
EndWriter(w) ==
  /\ wr[w] = "recv"
  /\ writeQ = << >>
  /\ ~Dispatching
  /\ wr' = [wr EXCEPT ![w] = "ended"]
  /\ UNCHANGED <<job, readerVars, readQ, main, held, ranges, writeQ, hand,
                 done, written, cancel, queued>>
-----------------------------------------------------------------------------
(* The orchestrator                                                        *)

(* Another partition of the table failed, and cancelled the shared token.  *)
SiblingCancel ==
  /\ job.partitioned /\ ~cancel /\ ~Returned
  /\ cancel' = TRUE
  /\ UNCHANGED <<job, readerVars, readQ, main, held, ranges, writeQ,
                 writerVars, queued>>

(* JoinSet::abort_all drops the future of execute; the reader and writer   *)
(* tasks it spawned are detached, not stopped.                             *)
Abort ==
  /\ ~Returned
  /\ main' = "aborted"
  /\ readQ' = << >>
  /\ held' = NoChunk
  /\ UNCHANGED <<job, readerVars, ranges, writeQ, writerVars, cancel, queued>>

ReaderTask(r) == ReadChunk(r) \/ ReadFail(r) \/ SendChunk(r) \/ SendClosed(r)
Coordinator   == SpawnReaders \/ MaxPkFail \/ JoinReader
Execute       == Recv \/ Send \/ RecvNone \/ SeeCancel \/ SendRefused
                   \/ JoinReaders \/ JoinWriters
WriterTask(w) == OpenWriter(w) \/ TakeJob(w) \/ WriteOk(w) \/ WriteFail(w)
                   \/ WriterPanics(w) \/ EndWriter(w)

AllEnded == /\ Returned
            /\ SendersGone
            /\ ~WriterLeft

Terminated == AllEnded /\ UNCHANGED vars

Next ==
  \/ \E r \in Readers : ReaderTask(r)
  \/ Coordinator
  \/ Execute
  \/ \E w \in Writers : WriterTask(w)
  \/ SiblingCancel
  \/ Abort
  \/ Terminated

Spec == Init /\ [][Next]_vars

(* tokio polls every runnable task, and every database call returns, with  *)
(* a result or an error.                                                   *)
Fairness ==
  /\ WF_vars(\E r \in Readers : ReaderTask(r))
  /\ WF_vars(Coordinator)
  /\ WF_vars(Execute)
  /\ WF_vars(\E w \in Writers : WriterTask(w))

FairSpec == Spec /\ Fairness
-----------------------------------------------------------------------------
ReaderState == {"idle", "read", "send"} \cup Ends

Chunk ==
  [reader : Readers, rows : SUBSET Keys, first : Opt(Int), last : Opt(Int)]

(* Every variable ranges over the values its Rust type can take; the two   *)
(* channels never hold more than their capacity.                           *)
TypeOK ==
  /\ job \in Jobs
  /\ rd \in [Readers -> ReaderState]
  /\ pos \in [Readers -> Opt(Int)]
  /\ fresh \in [Readers -> BOOLEAN]
  /\ out \in [Readers -> Chunk \cup {NoChunk}]
  /\ joined \in 0..Len(Plan)
  /\ coord \in {"start", "join"} \cup Ends
  /\ readQ \in Seq(Chunk) /\ Len(readQ) <= ReadAhead
  /\ main \in {"recv", "send", "join_readers", "join_writers",
               "ok", "reader_err", "writer_err", "aborted"}
  /\ held \in Chunk \cup {NoChunk}
  /\ DOMAIN ranges \subseteq Int
  /\ \A a \in DOMAIN ranges : ranges[a] \in Int
  /\ writeQ \in Seq(SUBSET Keys) /\ Len(writeQ) <= 2 * Cardinality(Writers)
  /\ wr \in [Writers -> {"open", "recv", "write", "ended", "failed"}]
  /\ hand \in [Writers -> SUBSET Keys]
  /\ done \in [Writers -> Nat]
  /\ cancel \in BOOLEAN
  /\ queued \subseteq Keys
  /\ written \subseteq Keys

(* The resume point a job reports never passes a row that is not in the    *)
(* target, although chunks arrive out of order from several readers and    *)
(* the dispatcher may leave its loop with chunks in hand (RangeTracker).   *)
ResumePointSafe ==
  main = "ok" /\ LastPk # None => \A k \in Rows : k <= LastPk => k \in written

(* An Ok whose token was never cancelled moved every row of the job: no    *)
(* reader stops short of its range, and the ranges leave no gap between    *)
(* them.                                                                   *)
OkMeansComplete ==
  main = "ok" /\ ~cancel => Rows \subseteq written

(* The rows a successful job reports are the rows it moved, each counted   *)
(* once: no two readers and no two chunks share a row.  (A resumed job     *)
(* with several readers re-reads rows below the resume point, because only *)
(* the first reader starts there.)                                         *)
RowsCountedOnce ==
  main = "ok" /\ (job.resume_from_pk = None \/ Len(Plan) = 1)
     => written \subseteq Rows /\ StatsRows = Cardinality(written)

(* What the orchestrator relies on: the job implements its promise.        *)
Promise == INSTANCE TransferPromise WITH
  todo    <- Rows,
  written <- written \cap Rows,
  outcome <- CASE main = "ok" -> IF cancel THEN "partial" ELSE "complete"
               [] main \in {"reader_err", "writer_err", "aborted"} -> "failed"
               [] OTHER -> "running",
  resume  <- IF main = "ok" THEN LastPk ELSE None

KeepsPromise == Promise!Spec

(* Whatever fails, execute returns, and every task it spawned ends: no     *)
(* reader stays blocked on a full read channel, no writer waits for work   *)
(* that cannot come, and the dispatcher is never stuck behind dead writers.*)
EveryTaskEnds == <>[]AllEnded
=============================================================================
