----------------------------- MODULE SqlDatabase -----------------------------
(***************************************************************************)
(* The statements a migration step is rendered to, and what a database     *)
(* does with them.                                                         *)
(*                                                                         *)
(* A database is [tables, types, fkOn]: its tables in the order they were  *)
(* created, the enum types of Postgres, and SQLite's foreign_keys pragma.  *)
(* A table holds columns as the database stores them: the SQL type, the    *)
(* text of the default.  Of the rows only two facts are kept: whether the  *)
(* table has some, and which columns hold values.                          *)
(*                                                                         *)
(* Apply says what a statement does; it is a model of the databases        *)
(* themselves, from their documentation and from what the code relies on.  *)
(***************************************************************************)
EXTENDS SqlSchemaDiffer

\* The names Postgres writes without quotes.
CONSTANT PlainNames

-----------------------------------------------------------------------------
(* Rendering of columns.                                                   *)

NoText == [kind |-> "none", value |-> "", cast |-> ""]

postgres_render_column_type(kind) ==
    CASE kind = "Boolean" -> "boolean" [] kind = "DateTime" -> "timestamp(3)" [] kind = "Float" -> "Decimal(65,30)"
      [] kind = "Int" -> "integer" [] kind = "String" -> "text" [] kind = "Json" -> "jsonb"

mysql_render_column_type(kind) ==
    CASE kind = "Boolean" -> "boolean" [] kind = "DateTime" -> "datetime(3)" [] kind = "Float" -> "Decimal(65,30)"
      [] kind = "Int" -> "int" [] kind = "String" -> "varchar(191)" [] kind = "Enum" -> "ENUM" [] kind = "Json" -> "json"

sqlite_render_column_type(kind) ==
    CASE kind = "Boolean" -> "BOOLEAN" [] kind = "DateTime" -> "DATE" [] kind = "Float" -> "REAL"
      [] kind = "Int" -> "INTEGER" [] kind = "String" -> "TEXT"

\* Postgres stores a literal with a cast to the column's type; the name of
\* an enum is quoted unless it is plain.
CastTo(column) ==
    CASE column.family.kind = "Enum" ->
            IF column.family.enum \in PlainNames THEN column.family.enum ELSE "\"" \o column.family.enum \o "\""
      [] column.family.kind = "String" -> "text"
      [] OTHER -> ""

render_default(family, column) ==
    CASE column.default.kind = "VALUE" ->
            [kind |-> "literal", value |-> column.default.value,
             cast |-> IF family = Postgres THEN CastTo(column) ELSE ""]
      [] column.default.kind = "NOW" -> [NoText EXCEPT !.kind = "current_timestamp"]
      [] column.default.kind = "DBGENERATED" ->
            [kind |-> "literal", value |-> column.default.value,
             cast |-> IF family = Postgres THEN CastTo(column) ELSE ""]
      [] OTHER -> NoText

NativeColumn(name, type, notNull, default) ==
    [name |-> name, type |-> type, values |-> <<>>, list |-> FALSE, notNull |-> notNull, default |-> default,
     auto |-> FALSE]

\* A SERIAL column is an integer that is not null and has a sequence.
postgres_render_column(column) ==
    IF column.auto
      THEN NativeColumn(column.name, "integer", TRUE, [NoText EXCEPT !.kind = "nextval"])
      ELSE [NativeColumn(column.name,
                         IF column.family.kind = "Enum" THEN column.family.enum
                         ELSE postgres_render_column_type(column.family.kind),
                         column.arity = "Required", render_default(Postgres, column))
            EXCEPT !.list = column.arity = "List"]

\* The variants of an enum are written out; a foreign key column does not
\* count up.
mysql_render_column(next, table, column) ==
    [NativeColumn(column.name, mysql_render_column_type(column.family.kind), column.arity = "Required",
                  render_default(Mysql, column))
     EXCEPT !.values = IF column.family.kind = "Enum" THEN Named(next.enums, column.family.enum).values ELSE <<>>,
            !.auto = column.auto /\ foreign_key_for_column(table, column.name) = <<>>]

sqlite_render_column(column) ==
    [NativeColumn(column.name, sqlite_render_column_type(column.family.kind), column.arity = "Required",
                  render_default(Sqlite, column))
     EXCEPT !.auto = column.auto]

render_column(family, next, table, column) ==
    CASE family = Postgres -> postgres_render_column(column)
      [] family = Mysql -> mysql_render_column(next, table, column)
      [] family = Sqlite -> sqlite_render_column(column)

-----------------------------------------------------------------------------
(* Rendering of steps.                                                     *)

NoNative == NativeColumn("", "", FALSE, NoText)
EmptyTable == [name |-> "", columns |-> <<>>, indices |-> <<>>, pk |-> <<>>, fks |-> <<>>, rows |-> FALSE,
               filled |-> {}]

Statement(op, name) ==
    [op |-> op, name |-> name, new |-> "", table |-> EmptyTable, clauses |-> <<>>, index |-> NoIndex, fk |-> NoKey,
     values |-> <<>>, column |-> NoNative, copied |-> <<>>, coalesced |-> <<>>]

Clause(op, name, column) == [op |-> op, name |-> name, column |-> column]

\* SQLite's AUTOINCREMENT makes its column the primary key, and writes the
\* foreign keys with the table.
CreateTableStatement(family, next, table) ==
    LET serial == FindAll(table.columns, LAMBDA c : c.auto)
    IN  [Statement("CREATE TABLE", table.name) EXCEPT
            !.table = [EmptyTable EXCEPT
                          !.name = table.name,
                          !.columns = MapSeq(table.columns, LAMBDA c : render_column(family, next, table, c)),
                          !.pk = IF family = Sqlite /\ serial # <<>> THEN <<serial[1].name>> ELSE table.pk,
                          !.fks = IF family = Sqlite THEN table.fks ELSE <<>>]]

\* In place where the database can, else dropped and added again.
safe_alter_column(family, next, table, previous, column) ==
    LET expanded == expand_alter_column(family, previous, column)
        native == render_column(family, next, table, [column EXCEPT !.auto = FALSE])
    IN  IF expanded.some
          THEN MapSeq(expanded.lines, LAMBDA line : Clause(line, column.name, native))
          ELSE <<Clause("DropColumn", column.name, NoNative),
                 Clause("AddColumn", column.name, render_column(family, next, table, column))>>

RenderChange(family, current, next, step, c) ==
    CASE c.kind = "AddColumn" -> <<Clause("AddColumn", c.name, render_column(family, next, step.table, c.column))>>
      [] c.kind = "DropColumn" -> <<Clause("DropColumn", c.name, NoNative)>>
      [] c.kind = "AlterColumn" ->
            safe_alter_column(family, next, step.table,
                              Named(Named(current.tables, step.name).columns, c.name), c.column)
      [] c.kind = "DropForeignKey" ->
            IF family = Sqlite THEN <<>> ELSE <<Clause("DropForeignKey", c.name, NoNative)>>

render_alter_table(family, current, next, step) ==
    LET lines == FlatMap(step.changes, LAMBDA c : RenderChange(family, current, next, step, c))
    IN  IF lines = <<>> THEN <<>> ELSE <<[Statement("ALTER TABLE", step.name) EXCEPT !.clauses = lines]>>

EnumColumns(next, name) ==
    FlatMap(next.tables, LAMBDA t :
        MapSeq(FindAll(t.columns, LAMBDA c : c.family = EnumFamily(name)),
               LAMBDA c : [table |-> t.name, column |-> c.name]))

\* A type that loses a value is replaced by a new one, column by column; the
\* columns of the next schema are altered, and given the first value as
\* their default.
postgres_alter_enum(next, step) ==
    LET new_enum == Named(next.enums, step.name)
        new == step.name \o "_new"
        old == step.name \o "_old"
        first == [kind |-> "literal", value |-> new_enum.values[1], cast |-> "\"" \o step.name \o "\""]
        Renamed(from, to) == [Statement("RENAME TYPE", from) EXCEPT !.new = to]
    IN  IF step.enum.dropped = <<>>
          THEN MapSeq(step.enum.created, LAMBDA v : [Statement("ADD VALUE", step.name) EXCEPT !.values = <<v>>])
          ELSE <<[Statement("CREATE TYPE", new) EXCEPT !.values = new_enum.values]>>
               \o MapSeq(EnumColumns(next, step.name), LAMBDA c :
                      [Statement("RETYPE COLUMN", c.table) EXCEPT
                          !.column = NativeColumn(c.column, new, FALSE, first)])
               \o <<Renamed(step.name, old), Renamed(new, step.name), Statement("DROP TYPE", old)>>

\* The column is written anew, without NOT NULL or a default.
mysql_alter_enum(next, step) ==
    LET c == EnumColumns(next, step.name)[1]
    IN  <<[Statement("CHANGE COLUMN", c.table) EXCEPT
              !.column = [NativeColumn(c.column, "ENUM", FALSE, NoText)
                          EXCEPT !.values = Named(next.enums, step.name).values]]>>

render_alter_enum(family, next, step) ==
    CASE family = Postgres -> postgres_alter_enum(next, step)
      [] family = Mysql -> mysql_alter_enum(next, step)
      [] OTHER -> <<>>

\* A SQLite table is dropped between two pragmas, whatever the pragma was.
render_drop_table(family, step) ==
    IF family = Sqlite
      THEN <<Statement("PRAGMA OFF", ""), Statement("DROP TABLE", step.name), Statement("PRAGMA ON", "")>>
      ELSE <<Statement("DROP TABLE", step.name)>>

render_create_index(step) == [Statement("CREATE INDEX", step.name) EXCEPT !.index = step.index]

render_raw_sql(family, current, next, step) ==
    CASE step.kind = "CreateEnum" ->
            IF family = Postgres THEN <<[Statement("CREATE TYPE", step.name) EXCEPT !.values = step.enum.values]>>
            ELSE <<>>
      [] step.kind = "DropEnum" -> IF family = Postgres THEN <<Statement("DROP TYPE", step.name)>> ELSE <<>>
      [] step.kind = "AlterEnum" -> render_alter_enum(family, next, step)
      [] step.kind = "CreateTable" -> <<CreateTableStatement(family, next, step.table)>>
      [] step.kind = "DropTable" -> render_drop_table(family, step)
      [] step.kind = "RenameTable" -> <<[Statement("RENAME TABLE", step.name) EXCEPT !.new = step.new]>>
      [] step.kind = "AddForeignKey" ->
            IF family = Sqlite THEN <<>>
            ELSE <<[Statement("ADD FOREIGN KEY", step.name) EXCEPT !.fk = step.fk]>>
      [] step.kind = "AlterTable" -> render_alter_table(family, current, next, step)
      [] step.kind = "CreateIndex" -> <<render_create_index(step)>>
      [] step.kind = "DropIndex" -> <<[Statement("DROP INDEX", step.name) EXCEPT !.index = step.index]>>
      [] step.kind = "AlterIndex" ->
            <<[Statement("RENAME INDEX", step.name) EXCEPT !.index = step.index, !.new = step.new]>>
      [] step.kind = "RawCopy" -> <<[Statement("INSERT SELECT", step.name) EXCEPT
                                        !.new = step.new, !.copied = step.copied, !.coalesced = step.coalesced]>>
      [] step.kind = "PragmaOff" -> <<Statement("PRAGMA OFF", "")>>
      [] step.kind = "PragmaOn" -> <<Statement("PRAGMA ON", "")>>
      [] step.kind = "ForeignKeyCheck" -> <<Statement("FOREIGN KEY CHECK", "")>>

-----------------------------------------------------------------------------
(* What the databases do with a statement.                                 *)

EmptyDatabase == [tables |-> <<>>, types |-> <<>>, fkOn |-> TRUE]

WithTable(db, table) == [db EXCEPT !.tables = MapSeq(@, LAMBDA t : IF t.name = table.name THEN table ELSE t)]
Without(s, name) == FindAll(s, LAMBDA x : x.name # name)
Replaced(s, x) == MapSeq(s, LAMBDA y : IF y.name = x.name THEN x ELSE y)

Refused(db) == [ok |-> FALSE, db |-> db]
Accepted(db) == [ok |-> TRUE, db |-> db]
AcceptedIf(test, db, new) == IF test THEN Accepted(new) ELSE Refused(db)

\* Foreign keys of other tables, and of all tables, on a table.
ReferencedByOther(db, name) == Has(db.tables, LAMBDA t : t.name # name /\ Has(t.fks, LAMBDA fk : fk.ref = name))
ColumnReferenced(db, name, column) ==
    Has(db.tables, LAMBDA t : Has(t.fks, LAMBDA fk : fk.ref = name /\ Contains(fk.refColumns, column)))

\* Postgres wants a unique key of exactly these columns, MySQL an index that
\* starts with them.
HasKeyFor(family, table, columns) ==
    IF family = Postgres
      THEN \/ ToSet(table.pk) = ToSet(columns)
           \/ Has(table.indices, LAMBDA ix : ix.unique /\ ToSet(ix.columns) = ToSet(columns))
      ELSE IsPrefix(columns, table.pk) \/ Has(table.indices, LAMBDA ix : IsPrefix(columns, ix.columns))

\* An index that a foreign key rests on.
KeyNeeded(family, db, table, index) ==
    LET rest == [table EXCEPT !.indices = Without(@, index.name)]
        TargetOf(fk) == fk.ref = table.name /\ HasKeyFor(family, table, fk.refColumns)
    IN  \/ Has(db.tables, LAMBDA t : Has(t.fks, LAMBDA fk : TargetOf(fk) /\ ~HasKeyFor(family, rest, fk.refColumns)))
        \/ family = Mysql /\ Has(table.fks, LAMBDA fk : ~HasKeyFor(family, rest, fk.columns))

Type(table, name) == Named(table.columns, name).type

\* The index MySQL makes for a foreign key without one, named after it.
ConstraintName(family, table, fk) ==
    IF family = Postgres THEN table.name \o "_" \o Join(fk.columns) \o "_fkey"
    ELSE table.name \o "_ibfk_" \o Join(fk.columns)

AddForeignKey_(family, db, s) ==
    LET table == Named(db.tables, s.name)
        target == Named(db.tables, s.fk.ref)
        fk == [s.fk EXCEPT !.name = ConstraintName(family, table, s.fk)]
        indexed == IF family = Mysql /\ ~HasKeyFor(Mysql, table, fk.columns)
                     THEN Append(table.indices, [name |-> fk.name, columns |-> fk.columns, unique |-> FALSE])
                     ELSE table.indices
    IN  AcceptedIf(/\ HasNamed(db.tables, s.name) /\ HasNamed(db.tables, s.fk.ref)
                   /\ Len(fk.columns) = Len(fk.refColumns)
                   /\ \A i \in DOMAIN fk.columns :
                          /\ HasNamed(table.columns, fk.columns[i]) /\ HasNamed(target.columns, fk.refColumns[i])
                          /\ Type(table, fk.columns[i]) = Type(target, fk.refColumns[i])
                          /\ (family = Mysql /\ fk.onDelete = "SetNull" => ~Named(table.columns, fk.columns[i]).notNull)
                   /\ HasKeyFor(family, target, fk.refColumns),
                   db, WithTable(db, [table EXCEPT !.fks = Append(@, fk), !.indices = indexed]))

\* The column leaves the keys of its table: in Postgres the keys go with it,
\* in MySQL they shrink.
WithoutColumn(family, table, name) ==
    LET Rest(columns) == FindAll(columns, LAMBDA c : c # name)
        Gone(ix) == IF family = Postgres THEN Contains(ix.columns, name) ELSE Rest(ix.columns) = <<>>
    IN  [table EXCEPT
            !.columns = Without(@, name), !.filled = @ \ {name},
            !.pk = IF family = Postgres /\ Contains(@, name) THEN <<>> ELSE Rest(@),
            !.fks = FindAll(@, LAMBDA fk : ~Contains(fk.columns, name)),
            !.indices = MapSeq(FindAll(@, LAMBDA ix : ~Gone(ix)), LAMBDA ix : [ix EXCEPT !.columns = Rest(@)])]

DropColumn_(family, db, table, c) ==
    AcceptedIf(/\ HasNamed(table.columns, c.name)
               /\ ~ColumnReferenced(db, table.name, c.name)
               /\ (family = Mysql => foreign_key_for_column(table, c.name) = <<>>),
               db, WithTable(db, WithoutColumn(family, table, c.name)))

KnownType(family, db, type) ==
    family # Postgres \/ HasNamed(db.types, type)
    \/ type \in {postgres_render_column_type(k) : k \in {"Boolean", "DateTime", "Float", "Int", "String", "Json"}}

\* A table with rows takes a required column in MySQL only, without a default.
AddColumn_(family, db, table, c) ==
    LET valued == c.column.notNull \/ c.column.default.kind # "none"
    IN  AcceptedIf(/\ ~HasNamed(table.columns, c.name)
                   /\ KnownType(family, db, c.column.type)
                   /\ (family = Mysql => ~c.column.auto)
                   /\ (table.rows /\ c.column.notNull /\ c.column.default.kind = "none" => family = Mysql),
                   db, WithTable(db, [table EXCEPT !.columns = Append(@, c.column),
                                                   !.filled = IF table.rows /\ valued THEN @ \cup {c.name} ELSE @]))

\* Postgres refuses to separate the types of a foreign key and its target.
SetType_(db, table, c) ==
    AcceptedIf(/\ ~ColumnReferenced(db, table.name, c.name) /\ foreign_key_for_column(table, c.name) = <<>>,
               db, WithTable(db, [table EXCEPT !.columns =
                       Replaced(@, [Named(@, c.name) EXCEPT !.type = c.column.type])]))

ApplyClause(family, db, name, c) ==
    LET table == Named(db.tables, name)
        old == Named(table.columns, c.name)
        Altered(column) == Accepted(WithTable(db, [table EXCEPT !.columns = Replaced(@, column)]))
    IN  CASE c.op = "AddColumn" -> AddColumn_(family, db, table, c)
          [] c.op = "DropColumn" -> DropColumn_(family, db, table, c)
          [] c.op = "DropForeignKey" ->
                AcceptedIf(family = Postgres \/ HasNamed(table.fks, c.name),
                           db, WithTable(db, [table EXCEPT !.fks = Without(@, c.name)]))
          [] c.op = "SetType" -> SetType_(db, table, c)
          [] c.op = "DropNotNull" ->
                IF Contains(table.pk, c.name) THEN Refused(db) ELSE Altered([old EXCEPT !.notNull = FALSE])
          [] c.op \in {"SetDefault", "DropDefault"} -> Altered([old EXCEPT !.default = c.column.default])

\* One statement is all or nothing.  SQLite reads a single change.
AlterTable_(family, db, s) ==
    LET result == FoldLeft(LAMBDA acc, c : IF acc.ok THEN ApplyClause(family, acc.db, s.name, c) ELSE acc,
                           Accepted(db), s.clauses)
    IN  IF ~HasNamed(db.tables, s.name) \/ ~result.ok \/ (family = Sqlite /\ Len(s.clauses) > 1)
          THEN Refused(db) ELSE result

\* A new index of MySQL replaces the one it made for a foreign key.
CreateIndex_(family, db, s) ==
    LET table == Named(db.tables, s.name)
        taken == IF family = Mysql THEN HasNamed(table.indices, s.index.name)
                 ELSE Has(db.tables, LAMBDA t : HasNamed(t.indices, s.index.name))
        superseded == {fk.name : fk \in {f \in ToSet(table.fks) : family = Mysql /\ IsPrefix(f.columns, s.index.columns)}}
    IN  AcceptedIf(/\ HasNamed(db.tables, s.name) /\ ~taken
                   /\ \A c \in ToSet(s.index.columns) : HasNamed(table.columns, c),
                   db, WithTable(db, [table EXCEPT !.indices =
                           Append(FindAll(@, LAMBDA ix : ix.name \notin superseded), s.index)]))

DropIndex_(family, db, s) ==
    LET table == Named(db.tables, s.name)
    IN  AcceptedIf(/\ HasNamed(db.tables, s.name) /\ HasNamed(table.indices, s.index.name)
                   /\ (family = Sqlite \/ ~KeyNeeded(family, db, table, Named(table.indices, s.index.name))),
                   db, WithTable(db, [table EXCEPT !.indices = Without(@, s.index.name)]))

RenameIndex_(db, s) ==
    LET table == Named(db.tables, s.name)
    IN  AcceptedIf(HasNamed(db.tables, s.name) /\ HasNamed(table.indices, s.index.name),
                   db, WithTable(db, [table EXCEPT !.indices =
                           MapSeq(@, LAMBDA ix : IF ix.name = s.index.name THEN [ix EXCEPT !.name = s.new] ELSE ix)]))

\* Copied columns keep their values; a coalesced column of a table with rows
\* has values afterwards.
InsertSelect_(db, s) ==
    LET from == Named(db.tables, s.name)
        into == Named(db.tables, s.new)
        defaulted == {c.name : c \in {x \in ToSet(into.columns) : x.default.kind # "none"}}
        omitted == defaulted \ ToSet(s.copied)
        given == ToSet(s.copied) \cup ToSet(s.coalesced) \cup defaulted
    IN  AcceptedIf(/\ HasNamed(db.tables, s.name) /\ HasNamed(db.tables, s.new)
                   /\ (from.rows => \A c \in ToSet(into.columns) : c.notNull /\ ~c.auto => c.name \in given),
                   db, WithTable(db, [into EXCEPT
                           !.rows = from.rows,
                           !.filled = (from.filled \cap ToSet(s.copied))
                                      \cup (IF from.rows THEN ToSet(s.coalesced) \cup omitted ELSE {})]))

UsesType(db, name) == Has(db.tables, LAMBDA t : Has(t.columns, LAMBDA c : c.type = name))

\* A column of a renamed type follows it.
RenameType_(db, s) ==
    LET Follow(c) == IF c.type = s.name THEN [c EXCEPT !.type = s.new] ELSE c
    IN  AcceptedIf(HasNamed(db.types, s.name) /\ ~HasNamed(db.types, s.new), db,
            [db EXCEPT !.types = MapSeq(@, LAMBDA e : IF e.name = s.name THEN [e EXCEPT !.name = s.new] ELSE e),
                       !.tables = MapSeq(@, LAMBDA t : [t EXCEPT !.columns = MapSeq(@, Follow)])])

RetypeColumn_(db, s) ==
    LET table == Named(db.tables, s.name)
    IN  AcceptedIf(HasNamed(db.tables, s.name) /\ HasNamed(table.columns, s.column.name),
                   db, WithTable(db, [table EXCEPT !.columns = Replaced(@, [Named(@, s.column.name) EXCEPT
                           !.type = s.column.type, !.default = s.column.default, !.list = FALSE])]))

Apply(family, db, s) ==
    CASE s.op = "CREATE TYPE" -> AcceptedIf(~HasNamed(db.types, s.name), db,
                [db EXCEPT !.types = Append(@, [name |-> s.name, values |-> s.values])])
      [] s.op = "DROP TYPE" -> AcceptedIf(HasNamed(db.types, s.name) /\ ~UsesType(db, s.name), db,
                [db EXCEPT !.types = Without(@, s.name)])
      [] s.op = "ADD VALUE" -> Accepted(
                [db EXCEPT !.types = Replaced(@, [Named(@, s.name) EXCEPT !.values = @ \o s.values])])
      [] s.op = "RENAME TYPE" -> RenameType_(db, s)
      [] s.op = "RETYPE COLUMN" -> RetypeColumn_(db, s)
      [] s.op = "CHANGE COLUMN" -> Accepted(WithTable(db, [Named(db.tables, s.name) EXCEPT
                !.columns = Replaced(@, s.column)]))
      [] s.op = "CREATE TABLE" -> AcceptedIf(/\ ~HasNamed(db.tables, s.name)
                                             /\ \A fk \in ToSet(s.table.fks) : Len(fk.columns) = Len(fk.refColumns)
                                             /\ \A c \in ToSet(s.table.columns) : KnownType(family, db, c.type), db,
                [db EXCEPT !.tables = Append(@, s.table)])
      [] s.op = "DROP TABLE" -> AcceptedIf(/\ HasNamed(db.tables, s.name)
                                           /\ (family = Sqlite \/ ~ReferencedByOther(db, s.name)), db,
                [db EXCEPT !.tables = Without(@, s.name)])
      [] s.op = "RENAME TABLE" -> AcceptedIf(HasNamed(db.tables, s.name) /\ ~HasNamed(db.tables, s.new), db,
                [db EXCEPT !.tables = MapSeq(@, LAMBDA t : IF t.name = s.name THEN [t EXCEPT !.name = s.new] ELSE t)])
      [] s.op = "ALTER TABLE" -> AlterTable_(family, db, s)
      [] s.op = "ADD FOREIGN KEY" -> AddForeignKey_(family, db, s)
      [] s.op = "CREATE INDEX" -> CreateIndex_(family, db, s)
      [] s.op = "DROP INDEX" -> DropIndex_(family, db, s)
      [] s.op = "RENAME INDEX" -> RenameIndex_(db, s)
      [] s.op = "INSERT SELECT" -> InsertSelect_(db, s)
      [] s.op = "PRAGMA OFF" -> Accepted([db EXCEPT !.fkOn = FALSE])
      [] s.op = "PRAGMA ON" -> Accepted([db EXCEPT !.fkOn = TRUE])
      [] s.op = "FOREIGN KEY CHECK" -> Accepted(db)

\* Statements the data can make fail: duplicates under a new unique index,
\* dangling references under a new foreign key, values that cannot be cast,
\* NULLs or dangling references copied into a new table.
DataMayRefuse(family, db, s) ==
    LET Rows(name) == HasNamed(db.tables, name) /\ Named(db.tables, name).rows
        Filled(name, column) == HasNamed(db.tables, name) /\ column \in Named(db.tables, name).filled
    IN  \/ s.op = "CREATE INDEX" /\ s.index.unique /\ Rows(s.name)
        \/ s.op = "ADD FOREIGN KEY" /\ Rows(s.name)
        \/ s.op \in {"RETYPE COLUMN", "CHANGE COLUMN"} /\ Filled(s.name, s.column.name)
        \/ /\ s.op = "INSERT SELECT" /\ Rows(s.name)
           /\ LET from == Named(db.tables, s.name)
                  into == Named(db.tables, s.new)
              IN  \/ db.fkOn /\ into.fks # <<>>
                  \/ \E c \in ToSet(s.copied) : Named(into.columns, c).notNull /\ ~Named(from.columns, c).notNull
=============================================================================
