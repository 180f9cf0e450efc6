--------------------------- MODULE CanonicalTypes ---------------------------
(***************************************************************************)
(* The hub-and-spoke mappers of the driver catalog (dialect/canonical.rs,  *)
(* dialect/typemap.rs from line 1119, core/catalog.rs): source type ->     *)
(* canonical type -> target type.  The catalog's mappers decide which      *)
(* types AI is asked about; the writers use those of TypeMapping.          *)
(***************************************************************************)
EXTENDS TypeMapping

U16(n) == n % 65536  \* `as u16`
Canonical(t, lossy) == [canonical |-> t, lossy |-> lossy]
Plain(table, loses, c) == Canonical(Type(table[c.type]), c.type \in loses)
\* A length that the catalog did not report becomes `default`.
WithLength(t, c, default) == Canonical(Sized(t, IF c.len > 0 THEN c.len ELSE default), FALSE)
DecimalOf(c, default) ==
    Canonical(Scaled("Decimal", IF c.prec > 0 THEN U16(c.prec) ELSE default, U16(c.scale)), FALSE)
\* A variant: an unknown type passes for a text.
UnknownText(c) == Canonical(Type("Text"), TRUE)
Unknown(c) == Canonical(Type("Unknown"), TRUE)

MssqlCanonicalNames ==
    [bit |-> "Boolean", tinyint |-> "UInt8", smallint |-> "Int16", int |-> "Int32",
     bigint |-> "Int64", money |-> "Money", smallmoney |-> "SmallMoney", float |-> "Float64",
     real |-> "Float32", text |-> "Text", ntext |-> "Text", image |-> "Blob", date |-> "Date",
     time |-> "Time", datetime |-> "DateTime", datetime2 |-> "DateTime",
     smalldatetime |-> "DateTime", datetimeoffset |-> "DateTimeTz", uniqueidentifier |-> "Uuid",
     xml |-> "Xml", geometry |-> "Geometry", geography |-> "Geography"]

MssqlToCanonical(c) ==
    CASE c.type \in {"decimal", "numeric"} -> DecimalOf(c, 18)
      [] c.type \in {"char", "nchar"} -> WithLength("Char", c, 1)
      [] c.type \in {"varchar", "nvarchar"} /\ c.len = MaxLength -> Canonical(Type("Text"), FALSE)
      [] c.type \in {"varchar", "nvarchar"} /\ c.len # MaxLength -> WithLength("Varchar", c, 255)
      [] c.type = "binary" -> WithLength("Binary", c, 1)
      [] c.type = "varbinary" /\ c.len = MaxLength -> Canonical(Type("Blob"), FALSE)
      [] c.type = "varbinary" /\ c.len # MaxLength -> WithLength("Varbinary", c, 255)
      [] c.type \in DOMAIN MssqlCanonicalNames ->
            Plain(MssqlCanonicalNames, {"geometry", "geography"}, c)
      [] OTHER -> Unknown(c)

PostgresCanonicalNames ==
    [bool |-> "Boolean", int2 |-> "Int16", int4 |-> "Int32", int8 |-> "Int64",
     float4 |-> "Float32", float8 |-> "Float64", money |-> "Money", text |-> "Text",
     bytea |-> "Blob", date |-> "Date", time |-> "Time", timetz |-> "Time",
     timestamp |-> "DateTime", timestamptz |-> "DateTimeTz", interval |-> "Interval",
     uuid |-> "Uuid", json |-> "Json", jsonb |-> "JsonBinary", xml |-> "Xml",
     inet |-> "InetAddr", cidr |-> "CidrAddr", macaddr |-> "MacAddr", macaddr8 |-> "MacAddr",
     point |-> "Point", line |-> "Line", lseg |-> "Line", box |-> "Polygon", path |-> "Polygon",
     polygon |-> "Polygon", circle |-> "Polygon", tsvector |-> "TsVector", tsquery |-> "TsQuery",
     int4range |-> "Range", int8range |-> "Range", numrange |-> "Range", tsrange |-> "Range",
     tstzrange |-> "Range", daterange |-> "Range", oid |-> "Int64"]

PostgresToCanonical(c) ==
    CASE IsArray(c) -> Canonical(Type("Array"), FALSE)
      [] c.type = "numeric" -> DecimalOf(c, 38)
      [] c.type = "bpchar" -> WithLength("Char", c, 1)
      [] c.type = "varchar" -> WithLength("Varchar", c, 0)
      [] c.type = "name" -> Canonical(Sized("Varchar", 63), FALSE)
      [] c.type = "bit" -> WithLength("Bit", c, 1)
      [] c.type = "varbit" -> WithLength("VarBit", c, 0)
      [] c.type \in DOMAIN PostgresCanonicalNames ->
            Plain(PostgresCanonicalNames, {"timetz", "jsonb"}, c)
      [] OTHER -> Unknown(c)

MysqlCanonicalNames ==
    [tinyint |-> "UInt8", smallint |-> "Int16", mediumint |-> "Int32", int |-> "Int32",
     bigint |-> "Int64", float |-> "Float32", double |-> "Float64", tinytext |-> "Text",
     text |-> "Text", mediumtext |-> "Text", longtext |-> "Text", tinyblob |-> "Blob",
     blob |-> "Blob", mediumblob |-> "Blob", longblob |-> "Blob", date |-> "Date",
     time |-> "Time", datetime |-> "DateTime", timestamp |-> "DateTime", year |-> "Year",
     json |-> "Json", enum |-> "Enum", set |-> "Set", geometry |-> "Geometry",
     point |-> "Geometry", linestring |-> "Geometry", polygon |-> "Geometry"]

MysqlToCanonical(c) ==
    IF c.type = "tinyint" /\ c.len = 1 THEN Canonical(Type("Boolean"), FALSE)
    ELSE CASE c.type = "decimal" -> DecimalOf(c, 10)
           [] c.type = "char" -> WithLength("Char", c, 1)
           [] c.type = "varchar" -> WithLength("Varchar", c, 255)
           [] c.type = "binary" -> WithLength("Binary", c, 1)
           [] c.type = "varbinary" -> WithLength("Varbinary", c, 255)
           [] c.type = "bit" -> IF c.len \in {0, 1} THEN Canonical(Type("Boolean"), FALSE)
                                ELSE WithLength("Bit", c, 1)
           [] c.type \in DOMAIN MysqlCanonicalNames ->
                 Plain(MysqlCanonicalNames, {"enum", "set"} \cup Spatial, c)
           [] OTHER -> Unknown(c)

----------------------------------------------------------------------------
FromNames(table, loses, t) == Mapping(Type(table[t.type]), t.type \in loses, FALSE)
\* A length from 1 to the limit is kept, 0 and longer ones become `else`.
Fits(t, limit, name, else) == Lossless(IF t.len \in 1..limit THEN Sized(name, t.len) ELSE else)

PostgresNames ==
    [Boolean |-> "boolean", UInt8 |-> "smallint", Int16 |-> "smallint", Int32 |-> "integer",
     Int64 |-> "bigint", Float32 |-> "real", Float64 |-> "double precision", Text |-> "text",
     Binary |-> "bytea", Varbinary |-> "bytea", Blob |-> "bytea", Date |-> "date",
     Time |-> "time", DateTime |-> "timestamp", DateTimeTz |-> "timestamptz",
     Interval |-> "interval", Year |-> "smallint", Uuid |-> "uuid", Json |-> "json",
     JsonBinary |-> "jsonb", Xml |-> "xml", InetAddr |-> "inet", CidrAddr |-> "cidr",
     MacAddr |-> "macaddr", Point |-> "point", Line |-> "line", Polygon |-> "polygon",
     Geometry |-> "text", Geography |-> "text", TsVector |-> "tsvector", TsQuery |-> "tsquery",
     Enum |-> "text", Set |-> "text"]

PostgresFromCanonical(t) ==
    CASE t.type = "Decimal" -> Lossless(Scaled("numeric", t.prec, t.scale))
      [] t.type = "Money" -> Lossless(Scaled("numeric", 19, 4))
      [] t.type = "SmallMoney" -> Lossless(Scaled("numeric", 10, 4))
      [] t.type = "Char" -> Fits(t, 10485760, "char", Type("text"))
      [] t.type = "Varchar" -> Fits(t, 10485760, "varchar", Type("text"))
      [] t.type = "Bit" -> Lossless(IF t.len = 1 THEN Type("boolean") ELSE Sized("bit", t.len))
      [] t.type = "VarBit" -> Lossless(Sized("bit varying", t.len))
      [] t.type \in DOMAIN PostgresNames ->
            FromNames(PostgresNames, {"Geometry", "Geography", "Enum", "Set"}, t)
      [] OTHER -> Fallback(Type("text"))

MssqlNames ==
    [Boolean |-> "bit", UInt8 |-> "tinyint", Int16 |-> "smallint", Int32 |-> "int",
     Int64 |-> "bigint", Float32 |-> "real", Float64 |-> "float", Money |-> "money",
     SmallMoney |-> "smallmoney", Date |-> "date", Time |-> "time", DateTime |-> "datetime",
     DateTimeTz |-> "datetimeoffset", Year |-> "smallint", Uuid |-> "uniqueidentifier",
     Xml |-> "xml"]

MssqlFromCanonical(t) ==
    CASE t.type = "Decimal" ->
            Mapping(Scaled("decimal", Min({t.prec, 38}), Min({t.scale, t.prec, 38})),
                    t.prec > 38, FALSE)
      [] t.type = "Char" -> Fits(t, 4000, "nchar", Sized("nvarchar", MaxLength))
      [] t.type = "Varchar" -> Fits(t, 4000, "nvarchar", Sized("nvarchar", MaxLength))
      [] t.type = "Text" -> Lossless(Sized("nvarchar", MaxLength))
      [] t.type = "Binary" -> Fits(t, 8000, "binary", Sized("varbinary", MaxLength))
      [] t.type = "Varbinary" -> Fits(t, 8000, "varbinary", Sized("varbinary", MaxLength))
      [] t.type \in {"Blob", "VarBit"} -> Lossless(Sized("varbinary", MaxLength))
      [] t.type = "Bit" -> Lossless(IF t.len = 1 THEN Type("bit")
                                    ELSE Sized("binary", (t.len + 7) \div 8))
      [] t.type \in DOMAIN MssqlNames -> FromNames(MssqlNames, {"DateTime"}, t)
      [] t.type \in {"Interval", "Range"} -> Lossy(Sized("nvarchar", 100))
      [] t.type \in {"InetAddr", "CidrAddr"} -> Lossy(Sized("varchar", 50))
      [] t.type = "MacAddr" -> Lossy(Sized("char", 17))
      [] t.type = "Enum" -> Lossy(Sized("nvarchar", 255))
      [] t.type = "Unknown" -> Fallback(Sized("nvarchar", MaxLength))
      [] OTHER -> Lossy(Sized("nvarchar", MaxLength))

MysqlNames ==
    [UInt8 |-> "TINYINT UNSIGNED", Int16 |-> "SMALLINT", Int32 |-> "INT", Int64 |-> "BIGINT",
     Float32 |-> "FLOAT", Float64 |-> "DOUBLE", Text |-> "LONGTEXT", Blob |-> "LONGBLOB",
     Date |-> "DATE", Time |-> "TIME", DateTime |-> "DATETIME", DateTimeTz |-> "DATETIME",
     Year |-> "YEAR", Json |-> "JSON", JsonBinary |-> "JSON", Xml |-> "LONGTEXT",
     VarBit |-> "BLOB", Point |-> "TEXT", Line |-> "TEXT", Polygon |-> "TEXT",
     Geometry |-> "TEXT", Geography |-> "TEXT", TsVector |-> "LONGTEXT", TsQuery |-> "LONGTEXT",
     Array |-> "JSON", Enum |-> "TEXT", Set |-> "TEXT"]
MysqlLossless == {"UInt8", "Int16", "Int32", "Int64", "Float32", "Float64", "Text", "Blob",
                  "Date", "Time", "DateTime", "Year", "Json", "JsonBinary", "VarBit"}

MysqlFromCanonical(t) ==
    CASE t.type = "Boolean" -> Lossless(Sized("TINYINT", 1))
      [] t.type = "Decimal" ->
            Mapping(Scaled("DECIMAL", Min({t.prec, 65}), Min({t.scale, 30, t.prec, 65})),
                    t.prec > 65, FALSE)
      [] t.type = "Money" -> Lossless(Scaled("DECIMAL", 19, 4))
      [] t.type = "SmallMoney" -> Lossless(Scaled("DECIMAL", 10, 4))
      [] t.type = "Char" -> Fits(t, 255, "CHAR", Type("TEXT"))
      [] t.type = "Varchar" -> Fits(t, 65535, "VARCHAR", Type("LONGTEXT"))
      [] t.type = "Binary" -> Fits(t, 255, "BINARY", Type("BLOB"))
      [] t.type = "Varbinary" -> Fits(t, 65535, "VARBINARY", Type("LONGBLOB"))
      [] t.type = "Bit" -> Fits(t, 64, "BIT", Type("BLOB"))
      [] t.type \in DOMAIN MysqlNames ->
            FromNames(MysqlNames, DOMAIN MysqlNames \ MysqlLossless, t)
      [] t.type \in {"Interval", "Range"} -> Lossy(Sized("VARCHAR", 100))
      [] t.type = "Uuid" -> Lossy(Sized("VARCHAR", 36))
      [] t.type \in {"InetAddr", "CidrAddr"} -> Lossy(Sized("VARCHAR", 50))
      [] t.type = "MacAddr" -> Lossy(Sized("CHAR", 17))
      [] OTHER -> Fallback(Type("LONGTEXT"))

----------------------------------------------------------------------------
\* ComposedMapper::map_type: a loss of either half flags the whole.
Composed(first, second) == [second EXCEPT !.lossy = second.lossy \/ first.lossy]

\* IdentityMapper: the name with the parameters SQL Server needs.
Identity(c) ==
    Lossless(CASE c.type \in {"nvarchar", "nchar", "varchar", "char", "varbinary", "binary"} ->
                     Sized(c.type, c.len)
               [] c.type \in {"decimal", "numeric"} /\ c.prec > 0 -> Scaled(c.type, c.prec, c.scale)
               [] OTHER -> Type(c.type))

ToCanonical(source, c) ==
    CASE source = "mssql" -> MssqlToCanonical(c)
      [] source = "postgres" -> PostgresToCanonical(c)
      [] OTHER -> MysqlToCanonical(c)
FromCanonical(target, t) ==
    CASE target = "mssql" -> MssqlFromCanonical(t)
      [] target = "postgres" -> PostgresFromCanonical(t)
      [] OTHER -> MysqlFromCanonical(t)

\* What DriverCatalog::with_builtins registers for the pair.
CatalogType(source, target, c) ==
    IF source = target THEN Identity(c)
    ELSE LET first == ToCanonical(source, c)
         IN  Composed(first, FromCanonical(target, first.canonical))
=============================================================================
