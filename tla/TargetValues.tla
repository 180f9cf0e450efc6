---------------------------- MODULE TargetValues ----------------------------
(***************************************************************************)
(* The writing half of a value's way: the three writers' conversions of a  *)
(* SqlValue (write_binary_value, sql_value_to_column_data,                 *)
(* sql_value_to_mysql, escape_tsv_value) and what a target column takes.   *)
(***************************************************************************)
EXTENDS RowValues

\* write_binary_value: a variant has one binary form, whatever the column is.
PgForms ==
    [Bool |-> "bool", I16 |-> "int2", I32 |-> "int4", I64 |-> "int8", F32 |-> "float4",
     F64 |-> "float8", Text |-> "text", Bytes |-> "bytea", Uuid |-> "uuid",
     Decimal |-> "numeric", DateTime |-> "timestamp", DateTimeOffset |-> "timestamptz",
     Date |-> "date", Time |-> "time"]
\* num_microseconds cuts towards zero.
Microseconds(t) == IF t >= 0 THEN t - (t % Micro) ELSE t + ((-t) % Micro)
IsMoment(x) == x.kind \in {"DateTime", "DateTimeOffset", "Time"} /\ x.value \in DOMAIN Ticks
\* Text loses its NUL characters; a number is encoded digit by digit; moments
\* and times of day are sent in microseconds.
ToPostgres(x) ==
    CASE x.kind = "Text" /\ x.value = "nul" -> Value(x.kind, "altered")
      [] x.kind = "Decimal" /\ x.value \in DOMAIN Digits ->
            Value(x.kind, NumberName(Meaning(Encode(Digits[x.value]))))
      [] IsMoment(x) -> Value(x.kind, MomentName(Microseconds(Ticks[x.value])))
      [] OTHER -> x

\* A variant: times of day sent as datetime2, to columns that are datetime.
MssqlFormsUpcast ==
    [Bool |-> "bit", I16 |-> "smallint", I32 |-> "int", I64 |-> "bigint", F32 |-> "real",
     F64 |-> "float", Text |-> "nvarchar", Bytes |-> "varbinary", Uuid |-> "uniqueidentifier",
     Decimal |-> "decimal", DateTime |-> "datetime2", DateTimeOffset |-> "datetimeoffset",
     Date |-> "datetime2", Time |-> "time"]

\* sql_value_to_column_data: the TDS type of a variant. A NULL date is typed
\* as datetime, a date as datetime2; NaN becomes NULL.
MssqlForms ==
    [Bool |-> "bit", I16 |-> "smallint", I32 |-> "int", I64 |-> "bigint", F32 |-> "real",
     F64 |-> "float", Text |-> "nvarchar", Bytes |-> "varbinary", Uuid |-> "uniqueidentifier",
     Decimal |-> "decimal", DateTime |-> "datetime", DateTimeOffset |-> "datetimeoffset",
     Date |-> "datetime2", Time |-> "time"]
MssqlForm(x) == IF IsNull(x) /\ x.kind = "Date" THEN "datetime" ELSE MssqlForms[x.kind]
\* A datetime has fragments of 1/300 s: (seconds * 1000 + millis) * 3 / 10 of them,
\* whole seconds and whole milliseconds; tiberius reads a fragment as 3333333 ns.
\* The other moments are sent in ticks.
Fragments(t) == (((t % Second) \div Milli) * 3) \div 10
DateTimeOf(t) == t - (t % Second) + (Fragments(t) * (Second \div 100)) \div 3
ToMssql(x) ==
    CASE x.kind \in {"F32", "F64"} /\ x.value = "nan" -> Value(x.kind, "NULL")
      [] IsMoment(x) /\ x.kind = "DateTime" -> Value(x.kind, MomentName(DateTimeOf(Ticks[x.value])))
      [] OTHER -> x

\* escape_tsv_bytes: LOAD DATA reads the escapes of bytes that are not
\* printable as other characters. INSERT binds the bytes. Both have six digits
\* for the fraction of a second.
ToMysql(x, load) ==
    CASE load /\ x.kind = "Bytes" /\ x.value = "octets" -> Value(x.kind, "altered")
      [] IsMoment(x) -> Value(x.kind, MomentName(Ticks[x.value] - (Ticks[x.value] % Micro)))
      [] OTHER -> x

Written(target, x, load) ==
    CASE target = "postgres" -> ToPostgres(x)
      [] target = "mssql" -> ToMssql(x)
      [] OTHER -> ToMysql(x, load)

----------------------------------------------------------------------------
\* What a column of a DDL type is to COPY, to a bulk load, and to MySQL.
PgColumns ==
    [boolean |-> "bool", smallint |-> "int2", integer |-> "int4", bigint |-> "int8",
     real |-> "float4", varchar |-> "text", char |-> "text", json |-> "text", xml |-> "text",
     name |-> "text", bpchar |-> "text", mood |-> "text"]
PgColumn(t) == IF t = "double precision" THEN "float8"
               ELSE IF t \in DOMAIN PgColumns THEN PgColumns[t] ELSE t
MssqlColumns ==
    [nchar |-> "nvarchar", char |-> "nvarchar", varchar |-> "nvarchar", binary |-> "varbinary",
     numeric |-> "decimal"]
MssqlColumn(t) == IF t \in DOMAIN MssqlColumns THEN MssqlColumns[t] ELSE t

MysqlIntegers == {"TINYINT", "TINYINT UNSIGNED", "SMALLINT", "INT", "BIGINT", "BIGINT UNSIGNED"}
MysqlTexts == {"CHAR", "VARCHAR", "TEXT", "LONGTEXT"}
MysqlTakes(t, kind) ==
    CASE t \in MysqlIntegers \cup {"FLOAT", "DOUBLE", "DECIMAL"} ->
            kind \in {"Bool", "I16", "I32", "I64", "F32", "F64", "Decimal"}
      [] t \in MysqlTexts -> TRUE
      [] t \in {"BLOB", "LONGBLOB", "VARBINARY", "BINARY"} -> kind \in {"Bytes", "Text"}
      [] t = "DATETIME" -> kind \in {"DateTime", "DateTimeOffset"}
      [] t \in {"DATE", "TIME"} -> kind = IF t = "DATE" THEN "Date" ELSE "Time"
      [] OTHER -> t = "JSON" /\ kind = "Text"

\* row_has_oversized_strings: such rows go to SQL Server by INSERT.
Oversized(x) == x.value = "huge"
\* The form of the value is the column's: COPY and bulk load accept no other;
\* the parameters of an INSERT are converted.
Takes(target, t, x) ==
    CASE target = "postgres" ->
            \/ IsNull(x)
            \/ PgForms[x.kind] = PgColumn(t.type)
            \/ t.type = "jsonb" /\ x.value = Versioned("doc")
      [] target = "mssql" -> Oversized(x) \/ MssqlForm(x) = MssqlColumn(t.type)
      [] OTHER -> IsNull(x) \/ MysqlTakes(t.type, x.kind)

\* A DDL type that the target knows.
ValidType(target, t) ==
    CASE target = "mssql" -> /\ t.type \in {"binary", "varbinary"} => t.len # 0
                             /\ t.prec <= 38
      [] target = "mysql" -> t.type = "VARCHAR" => t.len <= 16383
      [] OTHER -> TRUE

IntegerValues == {"-1", "200", "30000", "2e9", "3e9", "9e18", "18e18"}
Shorts == {"-1", "200", "30000"}
IntegerRange ==
    [tinyint |-> {"200"}, TINYINT |-> {"-1"}, smallint |-> Shorts, SMALLINT |-> Shorts,
     int2 |-> Shorts, int |-> Shorts \cup {"2e9"}, INT |-> Shorts \cup {"2e9"},
     integer |-> Shorts \cup {"2e9"}, int4 |-> Shorts \cup {"2e9"}]

\* A number fits a precision and a scale, where the type has them.
DecimalFits(t, d) ==
    t.prec = 0 \/ (Len(d.int) <= t.prec - t.scale /\ Len(DropTrailing(d.frac, 0)) <= t.scale)
\* MySQL's DATETIME and TIME have no fraction, SQL Server's datetime starts in 1753.
MomentFits(target, t, v) ==
    /\ target = "mysql" => Ticks[v] % Second = 0
    /\ target = "mssql" /\ t.type = "datetime" => v # "1700"

\* The column can hold the value as it is.
Holds(target, t, x) ==
    CASE x.value \in DOMAIN Digits /\ x.kind = "Decimal" -> DecimalFits(t, Digits[x.value])
      [] IsMoment(x) -> MomentFits(target, t, x.value)
      [] x.value \in IntegerValues /\ t.type \in DOMAIN IntegerRange ->
            x.value \in IntegerRange[t.type]
      [] x.value = "garbled" -> target # "postgres" /\ t.type # "JSON"
      [] x.value = Versioned("doc") -> t.type # "JSON"
      [] x.value = "nan" -> target = "postgres"
      [] x.value = "octets" -> t.type \notin MysqlTexts
      [] OTHER -> TRUE

\* What may come of a value sent to a column: its name there, or a refusal.
\* A server that cannot hold a value refuses or changes it; LOAD DATA LOCAL,
\* whose errors are warnings, only changes it.
Outcomes(target, t, x, load) ==
    LET y == Written(target, x, load)
        kept == IF t.type = "jsonb" /\ y.value = Versioned("doc") THEN "doc" ELSE y.value
    IN  CASE x.kind = "Error" -> {"refused"}
          [] x.kind # "Error" /\ Takes(target, t, y) /\ Holds(target, t, y) -> {kept}
          [] x.kind # "Error" /\ ~Takes(target, t, y) -> IF load THEN {"altered"} ELSE {"refused"}
          [] OTHER -> IF load THEN {"altered"} ELSE {"refused", "altered"}
=============================================================================
