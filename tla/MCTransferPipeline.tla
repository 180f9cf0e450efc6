------------------------- MODULE MCTransferPipeline -------------------------
(* A table with keys on both sides of zero, gaps, and chunks that end both *)
(* inside and at the end of a range.  Chunks of one row fill the write     *)
(* channel (4 for two writers), so that the dispatcher waits for room, and *)
(* leave a reader with more to send when every writer has panicked.        *)
EXTENDS TransferPipeline

MCKeys == {-2, 0, 1, 2, 5}

Whole(paging, readers, upsert) ==
  [paging |-> paging, readers |-> readers, chunk_size |-> 2,
   upsert |-> upsert, partitioned |-> FALSE,
   min_pk |-> None, max_pk |-> None, resume_from_pk |-> None]

Partition(paging, lo, hi) ==
  [Whole(paging, 2, FALSE) EXCEPT !.partitioned = TRUE, !.min_pk = lo, !.max_pk = hi]

Resumed(paging, readers, pk) ==
  [Whole(paging, readers, TRUE) EXCEPT !.resume_from_pk = pk]

MCJobs ==
  {Whole("keyset", 2, FALSE), Whole("keyset", 1, FALSE), Partition("keyset", 0, 2),
   Partition("keyset", None, 1), Resumed("keyset", 2, 0), Resumed("keyset", 2, 3),
   Whole("copy", 2, FALSE), Partition("copy", 0, 2), Resumed("copy", 1, 0),
   Whole("offset", 2, TRUE), [Whole("copy", 1, TRUE) EXCEPT !.chunk_size = 1]}

=============================================================================
