------------------------- MODULE SqlSchemaDescriber -------------------------
(***************************************************************************)
(* How the schema of a database is read back, one describer per database:  *)
(* from the catalog tables of Postgres and MySQL, from the pragmas of      *)
(* SQLite.  The rows of a key or an index are taken together already.      *)
(***************************************************************************)
EXTENDS SqlDatabase

FamilyOf(types, type, otherwise) ==
    LET kinds == {k \in DOMAIN types : type \in types[k]}
    IN  IF kinds = {} THEN otherwise ELSE CHOOSE k \in kinds : TRUE

\* The types each describer knows, by the names the databases report.
postgres_types ==
    [Int |-> {"int2", "int4", "int8", "oid"}, Float |-> {"float4", "float8", "numeric", "money"}, Boolean |-> {"bool"},
     String |-> {"text", "citext", "varchar", "bit", "varbit", "bpchar", "interval", "inet"},
     DateTime |-> {"date", "time", "timetz", "timestamp", "timestamptz"}, Binary |-> {"bytea"},
     Json |-> {"json", "jsonb"}, Uuid |-> {"uuid"}, LogSequenceNumber |-> {"pg_lsn"}, TextSearch |-> {"tsquery", "tsvector"},
     Geometric |-> {"box", "circle", "line", "lseg", "path", "polygon"}, TransactionId |-> {"txid_snapshot"}]

mysql_types ==
    [Int |-> {"int", "smallint", "tinyint", "mediumint", "bigint", "bit", "year"},
     Float |-> {"decimal", "numeric", "float", "double"}, Boolean |-> {"tinyint(1)"},
     String |-> {"char", "varchar", "text", "tinytext", "mediumtext", "longtext", "set"},
     DateTime |-> {"date", "time", "datetime", "timestamp"}, Json |-> {"json"},
     Binary |-> {"binary", "varbinary", "blob", "tinyblob", "mediumblob", "longblob"},
     Geometric |-> {"geometry", "point", "linestring", "polygon", "multipoint", "multilinestring", "multipolygon",
                    "geometrycollection"}]

sqlite_types ==
    [Int |-> {"int", "integer", "serial"}, Float |-> {"real", "float", "double"}, Boolean |-> {"boolean"},
     String |-> {"text"}, DateTime |-> {"date", "datetime", "timestamp"}, Binary |-> {"binary"}]

\* How a database reports the type of a column it was given.
Reported ==
    ("boolean" :> "bool" @@ "timestamp(3)" :> "timestamp" @@ "integer" :> "int4" @@ "text" :> "text"
     @@ "jsonb" :> "jsonb" @@ "Decimal(65,30)" :> "numeric" @@ "uuid" :> "uuid" @@ "bytea" :> "bytea")
ReportedByMysql ==
    ("boolean" :> "tinyint(1)" @@ "datetime(3)" :> "datetime" @@ "int" :> "int" @@ "varchar(191)" :> "varchar"
     @@ "json" :> "json" @@ "Decimal(65,30)" :> "decimal" @@ "varbinary(20)" :> "varbinary")
ReportedBySqlite ==
    ("BOOLEAN" :> "boolean" @@ "DATE" :> "date" @@ "REAL" :> "real" @@ "INTEGER" :> "integer" @@ "TEXT" :> "text"
     @@ "BLOB" :> "blob")

postgres_column_type(db, column) ==
    IF HasNamed(db.types, column.type) THEN EnumFamily(column.type)
    ELSE Family(FamilyOf(postgres_types, Reported[column.type], "Unsupported"))

\* The enum of a MySQL column is called after the table and the column.
mysql_column_type(table, column) ==
    IF column.type = "ENUM" THEN EnumFamily(table.name \o "_" \o column.name)
    ELSE Family(FamilyOf(mysql_types, ReportedByMysql[column.type], "Unsupported"))

sqlite_column_type(column) == Family(FamilyOf(sqlite_types, ReportedBySqlite[column.type], "Unsupported"))

-----------------------------------------------------------------------------
(* Defaults.  What is not understood is kept as text.                      *)

Literal(text) == [kind |-> "VALUE", value |-> text.value]
Generated(text) == [kind |-> "DBGENERATED", value |-> text.value]
Now == [kind |-> "NOW", value |-> ""]

\* Digits only: a negative number is not a value.
parse_int(text) ==
    IF text.kind = "literal" /\ SubSeq(text.value, 1, 1) # "-" THEN Literal(text) ELSE Generated(text)
parse_float(text) == IF text.kind = "literal" THEN Literal(text) ELSE Generated(text)
parse_bool(text) == IF text.kind = "literal" /\ text.value \in {"true", "false"} THEN Literal(text) ELSE Generated(text)

parse_now(text) == IF text.kind = "current_timestamp" THEN Now ELSE Generated(text)

\* Strings and enums come with a cast, which names the type unquoted.
postgres_default(type, text) ==
    CASE type.kind = "Int" /\ text.kind = "nextval" -> [kind |-> "SEQUENCE", value |-> ""]
      [] type.kind = "Int" /\ text.kind # "nextval" -> parse_int(text)
      [] type.kind = "Float" -> parse_float(text)
      [] type.kind = "Boolean" -> parse_bool(text)
      [] type.kind = "String" /\ text.cast = "text" -> Literal(text)
      [] type.kind = "DateTime" -> parse_now(text)
      [] type.kind = "Enum" /\ text.cast = type.enum -> Literal(text)
      [] OTHER -> Generated(text)

mysql_default(type, text) ==
    CASE type.kind = "Int" -> parse_int(text)
      [] type.kind = "Float" -> parse_float(text)
      [] type.kind = "Boolean" -> parse_bool(text)
      [] type.kind \in {"String", "Enum"} -> Literal(text)
      [] type.kind = "DateTime" -> parse_now(text)
      [] OTHER -> Generated(text)

sqlite_default(type, text) ==
    CASE type.kind = "Int" -> parse_int(text)
      [] type.kind = "Float" -> parse_float(text)
      [] type.kind = "Boolean" -> parse_bool(text)
      [] type.kind = "String" -> Literal(text)
      [] type.kind = "DateTime" -> parse_now(text)
      [] OTHER -> Generated(text)

-----------------------------------------------------------------------------
(* Columns, in the order of their names.                                   *)

Arity(column) == IF column.notNull THEN "Required" ELSE "Nullable"

Described(column, type, arity, default, auto) ==
    [name |-> column.name, family |-> type, arity |-> arity, default |-> default, auto |-> auto]

OrNone(text, default) == IF text.kind = "none" THEN NoDefault ELSE default

postgres_column(column, type, default) ==
    Described(column, type, IF column.list THEN "List" ELSE Arity(column), default, default.kind = "SEQUENCE")
postgres_typed(column, type) ==
    postgres_column(column, type, OrNone(column.default, postgres_default(type, column.default)))
postgres_get_columns(db, table) ==
    SortByName(MapSeq(table.columns, LAMBDA c : postgres_typed(c, postgres_column_type(db, c))))

mysql_typed(column, type) ==
    Described(column, type, Arity(column), OrNone(column.default, mysql_default(type, column.default)), column.auto)
mysql_get_all_columns(table) ==
    SortByName(MapSeq(table.columns, LAMBDA c : mysql_typed(c, mysql_column_type(table, c))))

\* An integer that is the whole primary key is the row id.
sqlite_typed(table, column, type) ==
    Described(column, type, Arity(column), OrNone(column.default, sqlite_default(type, column.default)),
              table.pk = <<column.name>> /\ column.type = "INTEGER")
sqlite_get_columns(table) ==
    SortByName(MapSeq(table.columns, LAMBDA c : sqlite_typed(table, c, sqlite_column_type(c))))

-----------------------------------------------------------------------------
(* Keys and indexes.                                                       *)

ColumnsLt(a, b) == \E i \in DOMAIN a : i \in DOMAIN b /\ NameLt(a[i], b[i]) /\ \A j \in 1..(i - 1) : a[j] = b[j]

\* The keys of a table in the order of their columns.
postgres_get_foreign_keys(table) == SortSeq(table.fks, LAMBDA a, b : ColumnsLt(a.columns, b.columns))
mysql_get_foreign_keys(table) == SortSeq(table.fks, LAMBDA a, b : ColumnsLt(a.columns, b.columns))

\* The name of a foreign key is not known.
sqlite_get_foreign_keys(table) ==
    SortSeq(MapSeq(table.fks, LAMBDA fk : [fk EXCEPT !.name = ""]), LAMBDA a, b : ColumnsLt(a.columns, b.columns))

\* The indexes that belong to no primary key.
postgres_get_indices(table) == table.indices
mysql_get_all_indexes(table) == SortByName(table.indices)
sqlite_get_indices(table) == table.indices

-----------------------------------------------------------------------------
(* Tables and enums.                                                       *)

Table(table, columns, indices, fks) ==
    [name |-> table.name, columns |-> columns, indices |-> indices, pk |-> table.pk, fks |-> fks]

postgres_get_table(db, table) ==
    Table(table, postgres_get_columns(db, table), postgres_get_indices(table), postgres_get_foreign_keys(table))
mysql_get_table(table) ==
    Table(table, mysql_get_all_columns(table), mysql_get_all_indexes(table), mysql_get_foreign_keys(table))
sqlite_get_table(table) ==
    Table(table, sqlite_get_columns(table), sqlite_get_indices(table), sqlite_get_foreign_keys(table))

\* The enums of the columns of a MySQL table.
get_column_enums(table) ==
    MapSeq(FindAll(SortByName(table.columns), LAMBDA c : c.type = "ENUM"),
           LAMBDA c : [name |-> table.name \o "_" \o c.name, values |-> c.values])

\* The values of an enum are read in the order of their names, not as declared.
postgres_get_enums(db) ==
    MapSeq(SortByName(db.types), LAMBDA e : [e EXCEPT !.values = SortSeq(@, NameLt)])

postgres_describe(db) ==
    [tables |-> MapSeq(SortByName(db.tables), LAMBDA t : postgres_get_table(db, t)), enums |-> postgres_get_enums(db)]
mysql_describe(db) ==
    [tables |-> MapSeq(SortByName(db.tables), mysql_get_table), enums |-> FlatMap(SortByName(db.tables), get_column_enums)]
sqlite_describe(db) == [tables |-> MapSeq(db.tables, sqlite_get_table), enums |-> <<>>]

describe(family, db) ==
    CASE family = Postgres -> postgres_describe(db)
      [] family = Mysql -> mysql_describe(db)
      [] family = Sqlite -> sqlite_describe(db)
=============================================================================
