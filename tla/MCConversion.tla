---------------------------- MODULE MCConversion ----------------------------
(***************************************************************************)
(* The columns and values of ColumnFlow's runs: for each source, column    *)
(* types as its catalog reports them, with values at the edges of what     *)
(* readers, mappers and writers tell apart.                                *)
(***************************************************************************)
EXTENDS ColumnFlow

MCDigits ==
    ("12.34" :> Decimal(FALSE, <<1, 2>>, <<3, 4>>))
    @@ ("-0.00005" :> Decimal(TRUE, << >>, <<0, 0, 0, 0, 5>>))
    @@ ("10000.00" :> Decimal(FALSE, <<1, 0, 0, 0, 0>>, <<0, 0>>))
    @@ ("0.00" :> Decimal(FALSE, << >>, <<0, 0>>))
    @@ ("wide" :> Decimal(FALSE, [i \in 1..29 |-> 9], << >>))
    @@ ("cash" :> Decimal(FALSE, <<9, 2, 2, 3, 3, 7, 2, 0, 3, 6, 8, 5, 4, 7, 7>>, <<5, 8, 0, 7>>))

\* Seconds and their fractions are real, but a year is one second, and so is an
\* hour of the times of day: what matters is the order of 1970 and the moments,
\* and what is left of a fraction. 10 ms are three fragments of a datetime,
\* 3 ms stands for one, as its reader sees it.
Sec == 10000000
MCTicks ==
    ("1700" :> -60 * Sec) @@ ("1960.5" :> -39 * Sec - (Sec \div 2)) @@ ("1970" :> -30 * Sec)
    @@ ("1975.5" :> -24 * Sec - (Sec \div 2)) @@ ("2024" :> 24 * Sec) @@ ("2024+10ms" :> 24 * Sec + 100000)
    @@ ("2024+3ms" :> 24 * Sec + 33333) @@ ("2024+1us" :> 24 * Sec + 10) @@ ("2024+100ns" :> 24 * Sec + 1)
    @@ ("infinity" :> 100 * Sec)
    @@ ("10:00" :> 10 * Sec) @@ ("10:00+1us" :> 10 * Sec + 10) @@ ("10:00+100ns" :> 10 * Sec + 1)

C(t, values) == {<<Type(t), v>> : v \in values}
N(t, n, values) == {<<Sized(t, n), v>> : v \in values}
D(t, p, s, values) == {<<Scaled(t, p, s), v>> : v \in values}
Moments == {"1960.5", "1970", "1975.5", "2024"}

PgColumnsAndValues ==
    C("bool", {"true"}) \cup C("int2", {"-1", "30000"}) \cup C("int4", {"2e9"}) \cup C("int8", {"9e18"})
    \cup C("float8", {"1.5", "nan"})
    \cup D("numeric", 10, 5, {"12.34", "-0.00005", "10000.00", "0.00", "NaN"})
    \cup D("numeric", 50, 0, {"wide"}) \cup C("numeric", {"12.34"})
    \cup C("text", {"word", "huge"}) \cup N("varchar", 20, {"word"}) \cup N("varchar", 20000, {"word"})
    \cup N("bpchar", 4, {"word"}) \cup C("bytea", {"octets"}) \cup C("uuid", {"id"})
    \cup C("date", {"day"}) \cup C("time", {"10:00", "10:00+1us"})
    \cup C("timestamp", Moments \cup {"infinity", "1700", "2024+1us"}) \cup C("timestamptz", {"2024", "1975.5", "2024+1us"})
    \cup C("json", {"doc"}) \cup C("jsonb", {"doc"}) \cup C("_int4", {"list"}) \cup C("mood", {"happy"})
    \cup C("interval", {"month"}) \cup C("inet", {"host"}) \cup C("money", {"cash"}) \cup C("oid", {"200"})
    \cup N("bit", 1, {"bits"}) \cup N("bit", 8, {"bits"})
    \cup UNION {C(t, {"NULL"}) : t \in DOMAIN PostgresCanonicalNames \ {"xml"}}

MssqlColumnsAndValues ==
    C("bit", {"true"}) \cup C("tinyint", {"200"}) \cup C("int", {"2e9"}) \cup C("bigint", {"9e18"})
    \cup C("float", {"1.5"}) \cup D("decimal", 10, 5, {"12.34", "10000.00", "-0.00005"})
    \cup D("decimal", 38, 0, {"wide"}) \cup C("money", {"12.34", "cash"})
    \cup N("nvarchar", 20, {"word", "nul"}) \cup N("nvarchar", MaxLength, {"word", "huge"})
    \cup N("nvarchar", 4000, {"word"}) \cup N("varchar", 8000, {"word"})
    \cup N("varbinary", 20, {"octets"}) \cup N("binary", 20, {"octets"}) \cup C("uniqueidentifier", {"id"})
    \cup C("date", {"day"}) \cup C("time", {"10:00", "10:00+1us", "10:00+100ns"})
    \cup C("datetime", {"1970", "1975.5", "2024+10ms", "2024+3ms"})
    \cup C("datetime2", Moments \cup {"1700", "2024+1us", "2024+100ns"})
    \cup C("datetimeoffset", {"2024"}) \cup C("hierarchyid", {"node"}) \cup C("timestamp", {"NULL"})
    \cup UNION {C(t, {"NULL"}) : t \in DOMAIN MssqlCanonicalNames \ {"xml", "smalldatetime"}}

MysqlColumnsAndValues ==
    C("tinyint", {"-1", "200"}) \cup C("int", {"2e9", "3e9"}) \cup C("bigint", {"9e18", "18e18"})
    \cup C("double", {"1.5"}) \cup D("decimal", 10, 5, {"12.34", "10000.00"}) \cup D("decimal", 65, 0, {"wide"})
    \cup N("varchar", 20, {"word", "nul"}) \cup N("varchar", 16000, {"word"}) \cup C("text", {"word"}) \cup C("longtext", {"huge"})
    \cup N("varbinary", 20, {"octets"}) \cup C("blob", {"octets"}) \cup C("bit", {"true"})
    \cup C("date", {"day", "0000"}) \cup C("time", {"10:00", "10:00+1us", "-01:00"})
    \cup C("datetime", {"2024", "1975.5", "1960.5", "2024+1us"}) \cup C("year", {"2020"}) \cup C("json", {"doc"})
    \cup C("enum", {"word"})
    \cup UNION {C(t, {"NULL"}) : t \in DOMAIN MysqlCanonicalNames}

FlowsFrom(source, pairs) ==
    {[source |-> source, target |-> t, column |-> p[1], value |-> p[2], load |-> l] :
        t \in {"postgres", "mssql", "mysql"}, p \in pairs, l \in BOOLEAN}
\* What the bulk load of SQL Server is not known to take is not copied back to it.
NotBulk == {"text", "ntext", "image", "geometry", "geography", "timestamp"}
MCFlows ==
    {f \in FlowsFrom("postgres", PgColumnsAndValues) \cup FlowsFrom("mssql", MssqlColumnsAndValues)
           \cup FlowsFrom("mysql", MysqlColumnsAndValues) :
        /\ f.load => f.target = "mysql"
        /\ f.source = "mssql" /\ f.target = "mssql" => f.column.type \notin NotBulk}
MCLayouts == {Layout(f) : f \in MCFlows}
MCNumbers == {f \in MCFlows : f.source = "postgres" /\ f.value \in {"12.34", "10000.00", "0.00"}}

----------------------------------------------------------------------------
\* Where the code is known to differ from what its mappings promise.

\* Types of PostgreSQL whose binary form is read as text, and values that
\* parse_field changes; types and values that the other readers panic on,
\* or make NULL of.
Unread ==
    [postgres |-> {"_int4", "bit", "varbit", "interval", "inet", "money", "oid", "point"},
     mssql |-> {"datetimeoffset", "hierarchyid"}, mysql |-> {}]
Changed ==
    [postgres |-> {"NaN", "infinity", "1960.5", "10000.00", "wide"},
     mssql |-> {"cash", "wide"}, mysql |-> {"3e9", "18e18", "0000", "-01:00", "wide"}]
ReaderGap(f) ==
    \/ f.column.type \in Unread[f.source]
    \/ f.value \in Changed[f.source]
    \/ f.source = "mysql" /\ f.column.type = "tinyint" /\ f.value = "200"

\* A moment with a rest that a unit of time leaves.
HasRest(v, unit) == v \in DOMAIN Ticks /\ Ticks[v] % unit # 0

\* Column types that the TDS value sent is not of, with or without a value.
OtherForm == {"date", "datetime2", "money", "smallmoney", "tinyint"}
\* Values and columns that the writers change or that are not created.
WriterGap(f, type) ==
    CASE f.target = "mssql" ->
            \/ type \in OtherForm \/ f.value = "nan"
            \/ type = "datetime" /\ HasRest(f.value, 10 * Milli)
            \/ f.source = "mysql" /\ f.column.type \in {"bit", "year"}
      [] f.target = "postgres" ->
            f.value = "nul" \/ HasRest(f.value, Micro) \/ (f.source = "mysql" /\ f.column.type \in {"bit", "json", "year"})
      [] OTHER ->
            \/ f.load /\ f.value = "octets"
            \/ f.value = "nan" \/ HasRest(f.value, Second)
            \/ type = "VARCHAR" /\ f.column.len > 16383
            \/ f.source = "postgres" /\ f.column.type = "jsonb"
            \/ f.source = "postgres" /\ f.column = Type("numeric")
            \/ f.source = "mysql" /\ f.column.type = "blob"

\* The mapping promises to keep the value, and nothing known is against it.
Promised == mapped # << >> /\ ~mapped[1].lossy /\ ~ReaderGap(flow) /\ ~WriterGap(flow, mapped[1].to.type)

\* What a finished transfer leaves in the target is what the source had: the
\* conversions of reader and writer and the mapping chosen for the column fit
\* together (the comment "All mappings are lossless", dialect/typemap.rs).
ValuesSurvive == stage = "done" /\ Promised => stored = Rows

\* No value of the source, NULL included, stops a transfer into the column that
\* its type was mapped to: the type is one the target has, the reader parses the
\* value, and the writer sends it in the form the column takes.
NothingRefused == stage = "failed" /\ Promised => loop = "failed"

\* Two mappers describe a column: the catalog's, which AI is asked by, and the
\* writer's, which CREATE TABLE uses. They know the same types and choose the
\* same names; but the one from SQL Server to PostgreSQL calls no type unknown,
\* and some types are spelled or chosen differently.
DifferentNames ==
    {<<"mysql", "postgres", "bit">>, <<"mysql", "postgres", "json">>, <<"mysql", "mssql", "binary">>,
     <<"postgres", "mssql", "date">>, <<"postgres", "mssql", "timetz">>, <<"postgres", "mysql", "oid">>,
     <<"mssql", "mysql", "binary">>, <<"mssql", "mysql", "image">>, <<"mssql", "mysql", "geometry">>,
     <<"mssql", "mysql", "geography">>, <<"mysql", "mssql", "bit">>}
MappersAgree ==
    mapped # << >> /\ flow.source # flow.target =>
        /\ <<flow.source, flow.target>> # <<"mssql", "postgres">> => asked = mapped[1].fallback
        /\ <<flow.source, flow.target, flow.column.type>> \notin DifferentNames =>
               mapped[1].to.type = CatalogType(flow.source, flow.target, flow.column).to.type

\* Every number that a NUMERIC column of PostgreSQL shows reaches its target,
\* as "Remove trailing zeros from the digit array (PostgreSQL does this)"
\* (postgres/writer.rs:1358) supposes: the reader must expect numbers
\* whose last groups are not on the wire.
NumbersArrive == stage = "failed" /\ flow.column.type = "numeric" => loop = "failed"
=============================================================================
