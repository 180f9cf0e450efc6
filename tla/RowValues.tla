----------------------------- MODULE RowValues -----------------------------
(***************************************************************************)
(* What becomes of one value: the reader turns what the source sent into   *)
(* a SqlValue variant (mssql/reader.rs, mysql/reader.rs, pg_binary.rs),    *)
(* the writer turns that into what the target is sent, and the target      *)
(* takes it or not.  A value is a name; NULL carries the variant it was    *)
(* typed with.  What drivers and servers do is modelled from how the code  *)
(* uses them.                                                              *)
(***************************************************************************)
EXTENDS PgNumeric, TypeMapping, Sequences

CONSTANTS Digits,  \* the numbers by name: a decimal of PgNumeric for each
          Ticks,   \* the moments by name, in ticks of 100 ns, the finest that SQL Server
                   \* has: since PostgreSQL's epoch, 2000, or since midnight
          Second, Epoch,  \* ticks in a second, 1970 in ticks before 2000
          FloatDigits     \* decimal digits that an f64 keeps
ASSUME RowValuesAssumption ==
    /\ Second \in Nat \ {0} /\ Second % 1000000 = 0 /\ Epoch \in Nat /\ FloatDigits \in Nat
    /\ {"NULL", "altered", "garbled"} \cap (DOMAIN Digits \cup DOMAIN Ticks) = {}

Value(kind, v) == [kind |-> kind, value |-> v]
Error == Value("Error", "NULL")  \* the reader fails, or panics, and the job with it
IsNull(x) == x.value = "NULL"

\* The name of a number or moment, if it has one of its own.
NumberName(d) == IF \E n \in DOMAIN Digits : SameNumber(Digits[n], d)
                 THEN CHOOSE n \in DOMAIN Digits : SameNumber(Digits[n], d) ELSE "altered"
MomentName(t) == IF \E m \in DOMAIN Ticks : Ticks[m] = t
                 THEN CHOOSE m \in DOMAIN Ticks : Ticks[m] = t ELSE "altered"

Milli == Second \div 1000
Micro == Second \div 1000000

Kind(table, t) == IF t \in DOMAIN table THEN table[t] ELSE "Text"
----------------------------------------------------------------------------
\* from_pg_type, and to_null_type for the type of a NULL.
PgKinds ==
    [bool |-> "Bool", int2 |-> "I16", int4 |-> "I32", int8 |-> "I64", float4 |-> "F32",
     float8 |-> "F64", numeric |-> "Decimal", uuid |-> "Uuid", date |-> "Date", time |-> "Time",
     timestamp |-> "DateTime", timestamptz |-> "DateTimeOffset", bytea |-> "Bytes"]

\* Types whose binary form is their text; jsonb puts a version byte before it,
\* and the rest of what is read as text has a form of its own.
SentAsText == {"text", "varchar", "bpchar", "name", "json", "xml", "mood"}
Versioned(v) == "1" \o v
TextOf(t, v) == IF t \in SentAsText THEN v ELSE IF t = "jsonb" THEN Versioned(v) ELSE "garbled"

\* What the server stores of a number, and the bytes it takes on the wire.
Numeric(v) == IF v = "NaN" THEN NaN ELSE Encode(Digits[v])

\* The timestamp arms of parse_field: seconds and the rest are cut towards
\* zero; a negative rest, cast to u32, is no number of nanoseconds, infinity
\* no date, and either becomes 1970.
Moment(t) == LET unix == t + Epoch
             IN  IF unix < 0 /\ unix % Second # 0 THEN -Epoch ELSE t

\* parse_field of the COPY stream.
ReadPostgres(c, v) ==
    LET kind == Kind(PgKinds, c.type)
        number == Decode(Numeric(v))
    IN  CASE v = "NULL" -> Value(kind, v)
          [] v # "NULL" /\ kind = "Decimal" ->
                IF number.ok THEN Value(kind, NumberName(number.value)) ELSE Error
          [] v # "NULL" /\ kind \in {"DateTime", "DateTimeOffset"} ->
                Value(kind, MomentName(IF v = "infinity" THEN -Epoch ELSE Moment(Ticks[v])))
          [] v # "NULL" /\ kind = "Text" -> Value(kind, TextOf(c.type, v))
          [] OTHER -> Value(kind, v)

MssqlKinds ==
    [bit |-> "Bool", tinyint |-> "I16", smallint |-> "I16", int |-> "I32", bigint |-> "I64",
     real |-> "F32", float |-> "F64", uniqueidentifier |-> "Uuid", datetime |-> "DateTime",
     datetime2 |-> "DateTime", smalldatetime |-> "DateTime", date |-> "Date", time |-> "Time",
     binary |-> "Bytes", varbinary |-> "Bytes", image |-> "Bytes", decimal |-> "Decimal",
     numeric |-> "Decimal", money |-> "Decimal", smallmoney |-> "Decimal"]

TooWide(v) == Len(Digits[v].int) > MaxDigits
ThroughFloat(v) ==
    IF Len(Digits[v].int) + Len(Digits[v].frac) <= FloatDigits THEN v ELSE "altered"

\* convert_row_value_for_target: `get` panics on a type it does not expect, and
\* on a number that a Decimal cannot hold.
ReadMssql(c, v) ==
    LET kind == Kind(MssqlKinds, c.type)
    IN  CASE c.type \in {"datetimeoffset", "hierarchyid"} -> Error
          [] c.type \in {"decimal", "numeric"} /\ v # "NULL" /\ TooWide(v) -> Error
          [] c.type \in {"money", "smallmoney"} /\ v # "NULL" -> Value(kind, ThroughFloat(v))
          [] OTHER -> Value(kind, v)

MysqlKinds ==
    [tinyint |-> "I16", smallint |-> "I16", mediumint |-> "I32", int |-> "I32", bigint |-> "I64",
     float |-> "F32", double |-> "F64", decimal |-> "Decimal", bit |-> "Bool",
     binary |-> "Bytes", varbinary |-> "Bytes", tinyblob |-> "Bytes", blob |-> "Bytes",
     mediumblob |-> "Bytes", longblob |-> "Bytes", date |-> "Date", time |-> "Time",
     datetime |-> "DateTime", timestamp |-> "DateTime"]

\* What the signed integers, clock times and calendar dates asked for cannot be.
OutOfRange == [tinyint |-> {"200"}, int |-> {"3e9"}, bigint |-> {"18e18"}, time |-> {"-01:00"},
               date |-> {"0000"}, datetime |-> {"0000"}, timestamp |-> {"0000"}]
\* convert_value_for_target: such a value panics; a decimal that a Decimal
\* cannot hold becomes NULL.
ReadMysql(c, v) ==
    LET kind == Kind(MysqlKinds, c.type)
    IN  CASE c.type \in DOMAIN OutOfRange /\ v \in OutOfRange[c.type] -> Error
          [] kind = "Decimal" /\ v # "NULL" /\ TooWide(v) -> Value(kind, "NULL")
          [] OTHER -> Value(kind, v)

Read(source, c, v) ==
    CASE source = "postgres" -> ReadPostgres(c, v)
      [] source = "mssql" -> ReadMssql(c, v)
      [] OTHER -> ReadMysql(c, v)
=============================================================================
