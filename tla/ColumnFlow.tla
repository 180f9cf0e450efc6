----------------------------- MODULE ColumnFlow -----------------------------
(***************************************************************************)
(* One column on its way: the types the AI is asked about, the target      *)
(* column that is created, the rows as they are read (a COPY stream from   *)
(* PostgreSQL, a query elsewhere), converted and written.  The composition *)
(* of CopyStream with the mappers, readers and writers.                    *)
(***************************************************************************)
EXTENDS CanonicalTypes, TargetValues, CopyStream

CONSTANTS Flows,         \* records: source, target, column, value, load
          RowsPerInsert  \* rows that one INSERT statement has parameters for
ASSUME InsertAssumption == RowsPerInsert \in Nat \ {0}

VARIABLES flow,    \* the case at hand
          stage,   \* "extracted", "warmed", "moving", "done" or "failed"
          asked,   \* the AI was asked about the column's type
          mapped,  \* the mapping that CREATE TABLE used
          read,    \* the SqlValues of the rows read so far
          stored,  \* what the target holds of each row that it holds
          written  \* batches written
flowVars == <<flow, stage, asked, mapped, read, stored, written, streamVars>>

\* The rows of the table: the value, a NULL, the value again.
Rows == <<flow.value, "NULL", flow.value>>

PgBytes == [bool |-> 1, int2 |-> 2, int4 |-> 4, int8 |-> 8, float4 |-> 4, float8 |-> 8, uuid |-> 16,
            date |-> 4, time |-> 8, timestamp |-> 8, timestamptz |-> 8]
\* The bytes of a value on PostgreSQL's wire; a text stands for five.
FieldBytes(c, v) ==
    CASE v = "NULL" -> -1
      [] v # "NULL" /\ c.type = "numeric" -> 8 + 2 * Len(Numeric(v).digits)
      [] v # "NULL" /\ c.type \in DOMAIN PgBytes -> PgBytes[c.type]
      [] OTHER -> 5
\* What next_row makes of a row; a query's rows have no layout.
Layout(f) == IF f.source = "postgres"
             THEN [r \in 1..3 |-> <<FieldBytes(f.column, IF r = 2 THEN "NULL" ELSE f.value)>>]
             ELSE << >>
ASSUME FlowAssumption == \A f \in Flows : f.source = "postgres" => Layout(f) \in Layouts
Converted(r) == Read(flow.source, flow.column, Rows[r])

FlowInit ==
    /\ flow \in Flows
    /\ stage = "extracted" /\ asked = FALSE /\ mapped = << >>
    /\ read = << >> /\ stored = << >> /\ written = 0
    /\ layout = Layout(flow) /\ StreamInit

\* warm_up: the catalog's mapper says whether a type is unknown.
WarmUp ==
    /\ stage = "extracted"
    /\ stage' = "warmed"
    /\ asked' = CatalogType(flow.source, flow.target, flow.column).fallback
    /\ UNCHANGED <<flow, mapped, read, stored, written, streamVars>>

\* map_type of the target's writer, and the CREATE TABLE that it is part of.
CreateTable ==
    /\ stage = "warmed"
    /\ LET m == TargetType(flow.source, flow.target, flow.column)
       IN  /\ mapped' = <<m>>
           /\ stage' = IF ValidType(flow.target, m.to) THEN "moving" ELSE "failed"
    /\ UNCHANGED <<flow, asked, read, stored, written, streamVars>>

Streaming == stage = "moving" /\ flow.source = "postgres"

\* The reader's steps on the COPY stream. A value that it cannot parse ends its task.
Stream ==
    /\ Streaming
    /\ \/ Arrive \/ NoRow \/ EndOfStream
       \/ TakeRow /\ Converted(parsed + 1) # Error
    /\ read' = IF parsed' = parsed THEN read ELSE Append(read, Converted(parsed'))
    /\ UNCHANGED <<flow, stage, asked, mapped, stored, written>>
ReaderEnds ==
    /\ Streaming
    /\ \/ StreamBreaks \/ BatchRefused
       \/ /\ loop = "parse" /\ RowThere /\ Converted(parsed + 1) = Error
          /\ UNCHANGED streamVars
    /\ stage' = "failed"
    /\ UNCHANGED <<flow, asked, mapped, read, stored, written>>

\* query_rows_fast: all rows of a page, or none.
FetchRows ==
    /\ stage = "moving" /\ flow.source # "postgres" /\ loop = "recv"
    /\ LET values == [r \in 1..3 |-> Converted(r)]
       IN  IF Error \in {values[r] : r \in 1..3}
           THEN stage' = "failed" /\ UNCHANGED <<read, parsed, sent, loop>>
           ELSE /\ read' = values /\ parsed' = 3
                /\ sent' = << <<1, 2, 3>> >> /\ loop' = "done"
                /\ UNCHANGED stage
    /\ UNCHANGED <<flow, asked, mapped, stored, written, layout, got, used, opened, complete, batch>>

\* The INSERTs that some rows are written by.
Inserts(rows) ==
    [n \in 1..(Len(rows) + RowsPerInsert - 1) \div RowsPerInsert |->
        SubSeq(rows, (n - 1) * RowsPerInsert + 1, Min({n * RowsPerInsert, Len(rows)}))]
\* The statements of write_batch, each of which takes all of its rows or none:
\* one COPY, LOAD DATA or bulk load; INSERTs for the rows that a bulk load of SQL
\* Server does not take, after the others, and for all of MySQL's without LOAD DATA.
Statements(rows) ==
    LET Large(r) == Oversized(read[r])
        Small(r) == ~Large(r)
        bulk == SelectSeq(rows, Small)
    IN  CASE flow.target = "mssql" ->
                (IF bulk = << >> THEN << >> ELSE <<bulk>>) \o Inserts(SelectSeq(rows, Large))
          [] flow.target = "mysql" /\ ~flow.load -> Inserts(rows)
          [] OTHER -> <<rows>>

\* write_batch: the rows of the statements before one that is refused stay.
WriteBatch ==
    /\ stage = "moving" /\ written < Len(sent)
    /\ LET rows == sent[written + 1]
           statements == Statements(rows)
           May(r) == Outcomes(flow.target, mapped[1].to, read[r], flow.load)
       IN  \E ends \in [Range(rows) -> UNION {May(r) : r \in Range(rows)}] :
             LET refused == {n \in DOMAIN statements :
                                \E r \in Range(statements[n]) : ends[r] = "refused"}
                 before == IF refused = {} THEN Len(statements) ELSE Min(refused) - 1
                 kept == UNION {Range(statements[n]) : n \in 1..before}
             IN  /\ \A r \in Range(rows) : ends[r] \in May(r)
                 /\ stored' = Restrict(ends, kept) @@ stored
                 /\ IF refused = {} THEN written' = written + 1 /\ UNCHANGED stage
                    ELSE stage' = "failed" /\ UNCHANGED written
    /\ UNCHANGED <<flow, asked, mapped, read, streamVars>>

Finish ==
    /\ stage = "moving" /\ loop = "done" /\ written = Len(sent)
    /\ stage' = "done"
    /\ UNCHANGED <<flow, asked, mapped, read, stored, written, streamVars>>

FlowNext == WarmUp \/ CreateTable \/ Stream \/ ReaderEnds \/ FetchRows \/ WriteBatch \/ Finish
FlowSpec == FlowInit /\ [][FlowNext]_flowVars

\* A column of PostgreSQL arrives over its COPY stream, which keeps its rows.
RowsArriveInOrder == flow.source = "postgres" => StreamInOrder
=============================================================================
