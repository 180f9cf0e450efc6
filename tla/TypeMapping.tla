---------------------------- MODULE TypeMapping ----------------------------
(***************************************************************************)
(* The type mappers that the target writers are built with                 *)
(* (dialect/typemap.rs, orchestrator/pools.rs): from a column of the       *)
(* source's catalog to the type its target column is created with.         *)
(* A type is a name with a length, a precision and a scale; the tables     *)
(* hold the names a catalog reports (udt_name in PostgreSQL, DATA_TYPE     *)
(* elsewhere), not the SQL spellings that the code accepts besides.        *)
(***************************************************************************)
EXTENDS Integers, FiniteSetsExt

MaxLength == -1  \* the length reported for (max) columns
Type(t) == [type |-> t, len |-> 0, prec |-> 0, scale |-> 0]
Sized(t, n) == [Type(t) EXCEPT !.len = n]
Scaled(t, p, s) == [Type(t) EXCEPT !.prec = p, !.scale = s]

Mapping(t, lossy, fallback) == [to |-> t, lossy |-> lossy, fallback |-> fallback]
Lossless(t) == Mapping(t, FALSE, FALSE)
Lossy(t) == Mapping(t, TRUE, FALSE)
Fallback(t) == Mapping(t, TRUE, TRUE)

\* A mapper's table of plain names, flagged lossy for the names in Loses.
Named(table, loses, c) == Mapping(Type(table[c.type]), c.type \in loses, FALSE)
\* A length within the target's limit is kept, any other becomes `else`.
UpTo(c, limit, t, else) == IF c.len > 0 /\ c.len <= limit THEN Sized(t, c.len) ELSE Type(else)

ArrayElement == [_int4 |-> "int4", _text |-> "text"]
IsArray(c) == c.type \in DOMAIN ArrayElement
\* What PostgreSQL columns of these types become in another database: a string.
Geometric == {"point", "line", "lseg", "box", "path", "polygon", "circle"}
Searched == {"tsvector", "tsquery"}
Ranges == {"int4range", "int8range", "numrange", "tsrange", "tstzrange", "daterange"}
Spatial == {"geometry", "point", "linestring", "polygon"}

----------------------------------------------------------------------------
MssqlPostgresNames ==
    [bit |-> "boolean", tinyint |-> "smallint", smallint |-> "smallint", int |-> "integer",
     bigint |-> "bigint", float |-> "double precision", real |-> "real", text |-> "text",
     ntext |-> "text", binary |-> "bytea", varbinary |-> "bytea", image |-> "bytea",
     date |-> "date", time |-> "time", datetime |-> "timestamp", datetime2 |-> "timestamp",
     smalldatetime |-> "timestamp", datetimeoffset |-> "timestamptz",
     uniqueidentifier |-> "uuid", xml |-> "xml", geometry |-> "text", geography |-> "text"]

\* No mapping is flagged, an unknown type least of all.
MssqlToPostgres(c) ==
    Lossless(CASE c.type \in {"decimal", "numeric"} ->
                     IF c.prec > 0 THEN Scaled("numeric", c.prec, c.scale) ELSE Type("numeric")
               [] c.type = "money" -> Scaled("numeric", 19, 4)
               [] c.type = "smallmoney" -> Scaled("numeric", 10, 4)
               [] c.type \in {"char", "nchar"} -> UpTo(c, 10485760, "char", "text")
               [] c.type \in {"varchar", "nvarchar"} -> UpTo(c, 10485760, "varchar", "text")
               [] c.type \in DOMAIN MssqlPostgresNames -> Type(MssqlPostgresNames[c.type])
               [] OTHER -> Type("text"))

PostgresMssqlNames ==
    [bool |-> "bit", int2 |-> "smallint", int4 |-> "int", int8 |-> "bigint", money |-> "money",
     float4 |-> "real", float8 |-> "float", date |-> "datetime2", time |-> "time",
     timetz |-> "datetimeoffset", timestamp |-> "datetime", timestamptz |-> "datetimeoffset",
     uuid |-> "uniqueidentifier", xml |-> "xml", oid |-> "bigint"]
PostgresMssqlLosses == {"date", "timetz", "timestamp"}

PostgresToMssql(c) ==
    CASE c.type \in DOMAIN PostgresMssqlNames -> Named(PostgresMssqlNames, PostgresMssqlLosses, c)
      [] c.type = "numeric" ->
            Lossless(IF c.prec > 0 THEN Scaled("decimal", c.prec, c.scale) ELSE Scaled("decimal", 38, 10))
      [] c.type = "bpchar" -> Lossless(IF c.len > 0 /\ c.len <= 4000 THEN Sized("nchar", c.len)
                                       ELSE Sized("nvarchar", MaxLength))
      [] c.type = "varchar" -> Lossless(Sized("nvarchar", IF c.len > 0 /\ c.len <= 4000 THEN c.len
                                                          ELSE MaxLength))
      [] c.type = "text" -> Lossless(Sized("nvarchar", MaxLength))
      [] c.type = "name" -> Lossless(Sized("nvarchar", 128))
      [] c.type \in {"bytea", "varbit"} -> Lossless(Sized("varbinary", MaxLength))
      [] c.type = "bit" -> Lossless(IF c.len = 1 THEN Type("bit")
                                    ELSE Sized("binary", (c.len + 7) \div 8))
      [] c.type \in {"json", "jsonb"} \cup Geometric \cup Searched \/ IsArray(c) ->
            Lossy(Sized("nvarchar", MaxLength))
      [] c.type \in Ranges \cup {"interval"} -> Lossy(Sized("nvarchar", 100))
      [] c.type \in {"inet", "cidr"} -> Lossy(Sized("varchar", 50))
      [] c.type \in {"macaddr", "macaddr8"} -> Lossy(Sized("char", 17))
      [] OTHER -> Fallback(Sized("nvarchar", MaxLength))

MysqlPostgresNames ==
    [tinyint |-> "smallint", smallint |-> "smallint", mediumint |-> "integer", int |-> "integer",
     bigint |-> "bigint", float |-> "real", double |-> "double precision", tinytext |-> "text",
     text |-> "text", mediumtext |-> "text", longtext |-> "text", binary |-> "bytea",
     varbinary |-> "bytea", tinyblob |-> "bytea", blob |-> "bytea", mediumblob |-> "bytea",
     longblob |-> "bytea", date |-> "date", time |-> "time", datetime |-> "timestamp",
     timestamp |-> "timestamp", year |-> "smallint", json |-> "jsonb", enum |-> "text",
     set |-> "text", geometry |-> "text", point |-> "text", linestring |-> "text",
     polygon |-> "text"]
MysqlPostgresLosses == {"enum", "set"} \cup Spatial

MysqlToPostgres(c) ==
    IF c.type = "tinyint" /\ c.len = 1 THEN Lossless(Type("boolean"))
    ELSE CASE c.type = "decimal" ->
                 Lossless(IF c.prec > 0 THEN Scaled("numeric", c.prec, c.scale) ELSE Type("numeric"))
           [] c.type = "char" -> Lossless(UpTo(c, 10485760, "char", "text"))
           [] c.type = "varchar" -> Lossless(UpTo(c, 10485760, "varchar", "text"))
           [] c.type = "bit" -> Lossless(Type(IF c.len = 1 THEN "boolean"
                                              ELSE IF c.len <= 64 THEN "bit varying" ELSE "bytea"))
           [] c.type \in DOMAIN MysqlPostgresNames -> Named(MysqlPostgresNames, MysqlPostgresLosses, c)
           [] OTHER -> Fallback(Type("text"))

PostgresMysqlNames ==
    [int2 |-> "SMALLINT", int4 |-> "INT", int8 |-> "BIGINT", float4 |-> "FLOAT",
     float8 |-> "DOUBLE", text |-> "LONGTEXT", bytea |-> "LONGBLOB", date |-> "DATE",
     time |-> "TIME", timetz |-> "TIME", timestamp |-> "DATETIME", timestamptz |-> "DATETIME",
     json |-> "JSON", jsonb |-> "JSON", xml |-> "LONGTEXT", varbit |-> "BLOB",
     oid |-> "BIGINT UNSIGNED"]
PostgresMysqlLosses == {"timetz", "timestamptz", "xml"}

\* At most MySQL's 65 digits, else the widest there is, flagged.
MysqlDecimal(c) ==
    CASE c.prec > 65 -> Lossy(Scaled("DECIMAL", 65, Min({c.scale, 30})))
      [] c.prec \in 1..65 -> Lossless(Scaled("DECIMAL", c.prec, c.scale))
      [] OTHER -> Lossless(Scaled("DECIMAL", 10, 0))

PostgresToMysql(c) ==
    CASE c.type = "bool" -> Lossless(Sized("TINYINT", 1))
      [] IsArray(c) -> Lossy(Type("JSON"))
      [] c.type = "numeric" -> MysqlDecimal(c)
      [] c.type = "money" -> Lossless(Scaled("DECIMAL", 19, 4))
      [] c.type = "bpchar" -> Lossless(UpTo(c, 255, "CHAR", "TEXT"))
      [] c.type = "varchar" -> Lossless(UpTo(c, 65535, "VARCHAR", "LONGTEXT"))
      [] c.type = "name" -> Lossless(Sized("VARCHAR", 63))
      [] c.type = "bit" -> Lossless(IF c.len <= 64 THEN Sized("BIT", c.len) ELSE Type("BLOB"))
      [] c.type \in DOMAIN PostgresMysqlNames -> Named(PostgresMysqlNames, PostgresMysqlLosses, c)
      [] c.type = "uuid" -> Lossy(Sized("VARCHAR", 36))
      [] c.type \in Ranges \cup {"interval"} -> Lossy(Sized("VARCHAR", 100))
      [] c.type \in {"inet", "cidr"} -> Lossy(Sized("VARCHAR", 50))
      [] c.type \in {"macaddr", "macaddr8"} -> Lossy(Sized("CHAR", 17))
      [] c.type \in Geometric -> Lossy(Type("TEXT"))
      [] c.type \in Searched -> Lossy(Type("LONGTEXT"))
      [] OTHER -> Fallback(Type("LONGTEXT"))

MysqlMssqlNames ==
    [tinyint |-> "tinyint", smallint |-> "smallint", mediumint |-> "int", int |-> "int",
     bigint |-> "bigint", float |-> "real", double |-> "float", date |-> "date", time |-> "time",
     datetime |-> "datetime", timestamp |-> "datetime", year |-> "smallint"]
MysqlMssqlLosses == {"datetime", "timestamp"}

MysqlToMssql(c) ==
    IF c.type = "tinyint" /\ c.len = 1 THEN Lossless(Type("bit"))
    ELSE CASE c.type = "decimal" ->
                 IF c.prec > 38 THEN Lossy(Scaled("decimal", 38, Min({c.scale, 38})))
                 ELSE Lossless(IF c.prec > 0 THEN Scaled("decimal", c.prec, c.scale)
                               ELSE Scaled("decimal", 18, 0))
           [] c.type \in {"char", "varchar"} ->
                 Lossless(IF c.len > 0 /\ c.len <= 4000
                          THEN Sized(IF c.type = "char" THEN "nchar" ELSE "nvarchar", c.len)
                          ELSE Sized("nvarchar", MaxLength))
           [] c.type \in {"tinytext", "text", "mediumtext", "longtext"} ->
                 Lossless(Sized("nvarchar", MaxLength))
           [] c.type \in {"binary", "varbinary"} ->
                 Lossless(Sized("varbinary", IF c.len > 0 /\ c.len <= 8000 THEN c.len ELSE MaxLength))
           [] c.type \in {"tinyblob", "blob", "mediumblob", "longblob"} ->
                 Lossless(Sized("varbinary", MaxLength))
           [] c.type = "bit" -> Lossless(IF c.len = 1 THEN Type("bit")
                                         ELSE Sized("binary", (c.len + 7) \div 8))
           [] c.type \in DOMAIN MysqlMssqlNames -> Named(MysqlMssqlNames, MysqlMssqlLosses, c)
           [] c.type = "enum" -> Lossy(Sized("nvarchar", 255))
           [] c.type \in {"json", "set"} \cup Spatial -> Lossy(Sized("nvarchar", MaxLength))
           [] OTHER -> Fallback(Sized("nvarchar", MaxLength))

MssqlMysqlNames ==
    [tinyint |-> "TINYINT UNSIGNED", smallint |-> "SMALLINT", int |-> "INT", bigint |-> "BIGINT",
     float |-> "DOUBLE", real |-> "FLOAT", text |-> "LONGTEXT", ntext |-> "LONGTEXT",
     date |-> "DATE", time |-> "TIME", datetime |-> "DATETIME", datetime2 |-> "DATETIME",
     smalldatetime |-> "DATETIME", datetimeoffset |-> "DATETIME", xml |-> "LONGTEXT",
     geometry |-> "LONGTEXT", geography |-> "LONGTEXT"]
MssqlMysqlLosses == {"datetimeoffset", "xml", "geometry", "geography"}

MssqlToMysql(c) ==
    CASE c.type = "bit" -> Lossless(Sized("TINYINT", 1))
      [] c.type \in {"decimal", "numeric"} -> MysqlDecimal(c)
      [] c.type = "money" -> Lossless(Scaled("DECIMAL", 19, 4))
      [] c.type = "smallmoney" -> Lossless(Scaled("DECIMAL", 10, 4))
      [] c.type \in {"char", "nchar"} -> Lossless(UpTo(c, 255, "CHAR", "TEXT"))
      [] c.type \in {"varchar", "nvarchar"} -> Lossless(UpTo(c, 65535, "VARCHAR", "LONGTEXT"))
      [] c.type \in {"binary", "varbinary", "image"} ->
            Lossless(UpTo(c, 65535, "VARBINARY", "LONGBLOB"))
      [] c.type \in DOMAIN MssqlMysqlNames -> Named(MssqlMysqlNames, MssqlMysqlLosses, c)
      [] c.type = "uniqueidentifier" -> Lossy(Sized("VARCHAR", 36))
      [] OTHER -> Fallback(Type("LONGTEXT"))

----------------------------------------------------------------------------
\* Without a mapper the writers rebuild the type they were given, and log nothing.
FormatPostgresType(c) ==
    CASE c.type = "numeric" -> IF c.prec > 0 THEN Scaled("numeric", c.prec, c.scale) ELSE Type("numeric")
      [] c.type = "varchar" -> UpTo(c, c.len, "varchar", "text")
      [] c.type = "bpchar" -> UpTo(c, c.len, "char", "char")
      [] OTHER -> Type(c.type)

FormatMssqlType(c) ==
    CASE c.type \in {"decimal", "numeric"} ->
            IF c.prec > 0 THEN Scaled(c.type, c.prec, c.scale) ELSE Scaled(c.type, 18, 0)
      [] c.type \in {"char", "varchar", "nchar", "nvarchar", "binary", "varbinary"} ->
            Sized(c.type, IF c.len = 0 THEN 255 ELSE c.len)
      [] OTHER -> Type(c.type)

\* TargetPoolImpl::from_config gives each writer the mapper of its source; a
\* MySQL writer without one takes its source for SQL Server.
TargetType(source, target, c) ==
    CASE <<source, target>> = <<"mssql", "postgres">> -> MssqlToPostgres(c)
      [] <<source, target>> = <<"mysql", "postgres">> -> MysqlToPostgres(c)
      [] <<source, target>> = <<"postgres", "mssql">> -> PostgresToMssql(c)
      [] <<source, target>> = <<"mysql", "mssql">> -> MysqlToMssql(c)
      [] <<source, target>> = <<"postgres", "mysql">> -> PostgresToMysql(c)
      [] <<source, target>> = <<"mssql", "mysql">> -> MssqlToMysql(c)
      [] <<source, target>> = <<"postgres", "postgres">> -> Lossless(FormatPostgresType(c))
      [] <<source, target>> = <<"mssql", "mssql">> -> Lossless(FormatMssqlType(c))
      [] OTHER -> Lossless(MssqlToMysql(c).to)
=============================================================================
