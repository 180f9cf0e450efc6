----------------------------- MODULE CopyStream -----------------------------
(***************************************************************************)
(* COPY ... TO STDOUT (FORMAT BINARY) read as it arrives: the loop of      *)
(* copy_rows_binary_for_target (postgres/reader.rs) around the             *)
(* BinaryRowParser of common/pg_binary.rs.  The network cuts the stream    *)
(* anywhere, also within a header, a length or a value; the parser takes a *)
(* row once all of it is buffered.  The stream is its layout: what counts  *)
(* is how many of its bytes have come and how many are consumed.           *)
(***************************************************************************)
EXTENDS Integers, Sequences, SequencesExt

CONSTANTS HeaderBytes, CountBytes, LengthBytes, \* 19, 2 and 4 in the format
          Layouts,      \* the streams there may be to read
          Packets,      \* the sizes in which the network delivers
          BatchRows     \* batch_size
ASSUME CopyStreamAssumption ==
    /\ HeaderBytes \in Nat /\ CountBytes \in Nat \ {0} /\ LengthBytes \in Nat
    /\ Layouts \subseteq Seq(Seq(Int))
    /\ Packets \subseteq Nat \ {0} /\ BatchRows \in Nat \ {0}

VARIABLES layout,   \* the lengths of the fields of each row; -1 for NULL
          got, used,          \* bytes received, bytes consumed of them
          opened, complete,   \* header_parsed, and the trailer was seen
          parsed, batch,      \* total_rows, the rows not sent yet
          sent,               \* the batches given to the channel
          loop                \* "recv", "parse", "done" or "failed"
streamVars == <<layout, got, used, opened, complete, parsed, batch, sent, loop>>

RowBytes(row) ==
    CountBytes + SumFunction([i \in DOMAIN row |-> LengthBytes + (IF row[i] >= 0 THEN row[i] ELSE 0)])
\* Where row n ends, and the trailer begins after the last one.
AfterRow(n) == HeaderBytes + SumFunctionOnSet([r \in DOMAIN layout |-> RowBytes(layout[r])], 1..n)
StreamBytes == AfterRow(Len(layout)) + CountBytes

StreamInit ==
    /\ got = 0 /\ used = 0 /\ parsed = 0
    /\ opened = FALSE /\ complete = FALSE
    /\ batch = << >> /\ sent = << >> /\ loop = "recv"

\* The next item of the stream is data.
Arrive ==
    /\ loop = "recv" /\ got < StreamBytes
    /\ \E n \in Packets : got' = IF got + n < StreamBytes THEN got + n ELSE StreamBytes
    /\ loop' = "parse"
    /\ UNCHANGED <<layout, used, opened, complete, parsed, batch, sent>>

\* try_parse_header: the header is consumed with the first row asked for.
HeaderThere == opened \/ got - used >= HeaderBytes
Start == IF opened THEN used ELSE used + HeaderBytes
AtTrailer == parsed = Len(layout)
\* A variant: the bytes of the field count are not counted.
RowThereShort == HeaderThere /\ ~AtTrailer /\ got - Start >= RowBytes(layout[parsed + 1]) - CountBytes
RowThere == HeaderThere /\ ~AtTrailer /\ got - Start >= RowBytes(layout[parsed + 1])
TrailerThere == HeaderThere /\ AtTrailer /\ ~complete /\ got - Start >= CountBytes

\* next_row returns a row, and a full batch is sent.
TakeRow ==
    /\ loop = "parse" /\ RowThere
    /\ opened' = TRUE
    /\ used' = Start + RowBytes(layout[parsed + 1])
    /\ parsed' = parsed + 1
    /\ LET rows == Append(batch, parsed + 1)
       IN  IF Len(rows) >= BatchRows THEN sent' = Append(sent, rows) /\ batch' = << >>
           ELSE batch' = rows /\ UNCHANGED sent
    /\ UNCHANGED <<layout, got, complete, loop>>

\* next_row returns None: it needs more data, or has consumed the trailer.
NoRow ==
    /\ loop = "parse" /\ ~RowThere
    /\ opened' = HeaderThere
    /\ used' = IF HeaderThere THEN Start + (IF TrailerThere THEN CountBytes ELSE 0) ELSE used
    /\ complete' = (complete \/ TrailerThere)
    /\ loop' = "recv"
    /\ UNCHANGED <<layout, got, parsed, batch, sent>>

\* The stream is over: what is left of a batch is sent.
EndOfStream ==
    /\ loop = "recv" /\ got = StreamBytes
    /\ sent' = IF batch = << >> THEN sent ELSE Append(sent, batch)
    /\ batch' = << >>
    /\ loop' = "done"
    /\ UNCHANGED <<layout, got, used, opened, complete, parsed>>

\* The next item of the stream is an error, which the job fails with.
StreamBreaks ==
    /\ loop = "recv"
    /\ loop' = "failed"
    /\ UNCHANGED <<layout, got, used, opened, complete, parsed, batch, sent>>

\* A batch cannot be sent, for the receiver has gone; the loop's variables end with it.
BatchRefused ==
    /\ \/ loop = "parse" /\ RowThere /\ Len(batch) + 1 >= BatchRows
       \/ loop = "recv" /\ got = StreamBytes /\ batch # << >>
    /\ loop' = "failed"
    /\ UNCHANGED <<layout, got, used, opened, complete, parsed, batch, sent>>

StreamNext == Arrive \/ TakeRow \/ NoRow \/ EndOfStream \/ StreamBreaks \/ BatchRefused
StreamSpec == layout \in Layouts /\ StreamInit /\ [][StreamNext]_streamVars
----------------------------------------------------------------------------
\* The type invariant.
StreamTypeOK ==
    /\ layout \in Layouts
    /\ got \in 0..StreamBytes /\ used \in 0..got /\ parsed \in 0..Len(layout)
    /\ opened \in BOOLEAN /\ complete \in BOOLEAN
    /\ batch \in Seq(Nat) /\ sent \in Seq(Seq(Nat))
    /\ loop \in {"recv", "parse", "done", "failed"}

\* Wherever the network cuts the COPY stream: rows are parsed once each and in
\* order, never beyond what has arrived, none is left behind in the buffer
\* while the reader waits, and all of them are sent at the end.
StreamInOrder ==
    /\ FlattenSeq(sent) \o batch = [r \in 1..parsed |-> r]
    /\ used <= got /\ Len(batch) < BatchRows
    /\ loop = "recv" => ~RowThere
    /\ loop = "done" => parsed = Len(layout) /\ batch = << >> /\ complete /\ used = got
=============================================================================
