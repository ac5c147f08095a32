---------------------------- MODULE SqlMigration ----------------------------
(***************************************************************************)
(* Migrations of a SQL database, statement by statement.                   *)
(*                                                                         *)
(* A migration reads the schema of the database (Infer), counts the rows   *)
(* it would destroy (Check), and sends its statements one after the other  *)
(* on one connection, without a transaction.  A statement the database     *)
(* refuses, or a lost connection, ends it where it is.  A migration that   *)
(* was applied can be rolled back with the steps inferred along with it.   *)
(* Meanwhile the application adds rows.                                    *)
(***************************************************************************)
EXTENDS SqlSchemaDescriber

CONSTANTS
    Families,       \* the databases
    Datamodels(_),  \* the datamodels of a database, standardised
    MaxMigrations,  \* migrations and rollbacks started after the first
    MaxInserts,     \* rows the application adds
    MaxFaults       \* lost connections

VARIABLES
    family,         \* the database
    db,             \* its content
    phase,          \* idle, inferred, running, failed, rejected, done
    migration,      \* the migration at hand: schemas and direction
    plan,           \* its steps, both ways
    todo,           \* the statements not sent yet
    warnings,       \* what the checker warned of
    held,           \* the values there were when it checked
    applied,        \* the applied migrations
    intact,         \* no migration has failed since the last that was applied
    started, inserts, faults

vars == <<family, db, phase, migration, plan, todo, warnings, held, applied, intact, started, inserts,
          faults>>

\* A migration is stored with the steps both ways; they depend on nothing
\* but its two schemas.
Plan(f, m) == infer(f, m.before, m.after)

-----------------------------------------------------------------------------
(* The destructive changes checker.                                        *)

RowsIn(table) == HasNamed(db.tables, table) /\ Named(db.tables, table).rows
ValuesIn(table, column) == HasNamed(db.tables, table) /\ column \in Named(db.tables, table).filled

Warning(kind, table, column) == {[kind |-> kind, table |-> table, column |-> column]}

check_table_drop(name) == IF RowsIn(name) THEN Warning("table", name, "") ELSE {}

check_column_drop(table, c) == IF ValuesIn(table.name, c.name) THEN Warning("column", table.name, c.name) ELSE {}

column_is_required_without_default(column) == column.arity = "Required" /\ column.default.kind = "none"

check_add_column(table, c) ==
    IF column_is_required_without_default(c.column) /\ RowsIn(table.name)
      THEN Warning("unexecutable", table.name, c.name) ELSE {}

alter_column_is_safe(previous, next) ==
    CASE family = Sqlite -> /\ ~column_type_changed(previous, next)
                            /\ ~(previous.arity = "Nullable" /\ next.arity = "Required")
      [] family = Postgres -> LET e == expand_postgres_alter_column(previous, next)
                              IN  e.some /\ ~Contains(e.lines, "SetType")
      [] family = Mysql -> expand_mysql_alter_column(previous, next).some

check_for_column_arity_change(table, previous, next) ==
    IF /\ previous.arity # next.arity /\ next.arity = "Required" /\ next.default.kind = "none"
       /\ RowsIn(table.name)
      THEN Warning("unexecutable", table.name, next.name) ELSE {}

check_alter_column(table, c) ==
    LET previous == Named(table.columns, c.name)
        lost == IF ValuesIn(table.name, c.name) THEN Warning("column", table.name, c.name)
                ELSE IF /\ foreign_key_for_column(table, c.name) # <<>>
                        /\ c.column.default.kind = "none" /\ previous.default.kind # "none"
                       THEN Warning("default", table.name, c.name) ELSE {}
    IN  IF alter_column_is_safe(previous, c.column) THEN {}
        ELSE check_for_column_arity_change(table, previous, c.column) \cup lost

\* A column that is dropped is not looked at.
check_change_no_drops(table, c) ==
    CASE c.kind = "AlterColumn" -> check_alter_column(table, c)
      [] c.kind = "AddColumn" -> check_add_column(table, c)
      [] OTHER -> {}

check_change(table, c) ==
    CASE c.kind = "DropColumn" -> check_column_drop(table, c)
      [] c.kind = "AlterColumn" -> check_alter_column(table, c)
      [] c.kind = "AddColumn" -> check_add_column(table, c)
      [] OTHER -> {}

\* The unexecutable changes are warnings too.
check_impl(steps, before) ==
    UNION {CASE s.kind = "DropTable" -> check_table_drop(s.name)
             [] s.kind = "AlterTable" /\ HasNamed(before.tables, s.name) ->
                   UNION {check_change(Named(before.tables, s.name), c) : c \in ToSet(s.changes)}
             [] OTHER -> {} : s \in ToSet(steps)}

\* The steps of the differ are checked before a migration, the corrected
\* steps before a rollback.
StepsToCheck == IF migration.forward THEN plan.original_steps ELSE plan.rollback
SchemaBefore == IF migration.forward THEN migration.before ELSE migration.after

check == check_impl(StepsToCheck, SchemaBefore)

Missing(table, column) == ~HasNamed(db.tables, table) \/ ~HasNamed(Named(db.tables, table).columns, column)

\* A change that the database need not be asked about is not looked up.
ChangeCheckFails(table, c) ==
    \/ c.kind = "DropColumn" /\ Missing(table.name, c.name)
    \/ /\ c.kind = "AlterColumn" /\ Missing(table.name, c.name)
       /\ ~alter_column_is_safe(Named(table.columns, c.name), c.column)
    \/ /\ c.kind = "AddColumn" /\ ~HasNamed(db.tables, table.name)
       /\ column_is_required_without_default(c.column)

\* The queries of the checks ask for a table or a column that is not there.
CheckFails ==
    \E s \in ToSet(StepsToCheck) :
        \/ s.kind = "DropTable" /\ ~HasNamed(db.tables, s.name)
        \/ /\ s.kind = "AlterTable" /\ HasNamed(SchemaBefore.tables, s.name)
           /\ \E c \in ToSet(s.changes) : ChangeCheckFails(Named(SchemaBefore.tables, s.name), c)

-----------------------------------------------------------------------------
MigrationTable == [EmptyTable EXCEPT !.name = MIGRATION_TABLE_NAME, !.rows = TRUE]

Rendered(f, from, to, steps) == FlatMap(steps, LAMBDA s : render_raw_sql(f, from, to, s))

Statements(m, p) ==
    IF m.forward
      THEN Rendered(family, m.before, m.after, p.corrected_steps)
      ELSE Rendered(family, m.after, m.before, p.rollback)

\* The schemas of the datamodels a migration can be asked for.
Schemas == [f \in Families |-> {calculate(f, dm) : dm \in Datamodels(f)}]

\* A first migration of an empty database, and the database after it.
FirstMigration(expected) ==
    [before |-> EmptySchema, after |-> expected, forward |-> TRUE, clean |-> TRUE, again |-> FALSE]
After(f, m) ==
    FoldLeft(LAMBDA content, s : Apply(f, content, s).db, [EmptyDatabase EXCEPT !.tables = <<MigrationTable>>],
             Rendered(f, m.before, m.after, Plan(f, m).corrected_steps))

Init ==
    /\ family \in Families
    /\ \E expected \in Schemas[family] :
          /\ migration = FirstMigration(expected)
          /\ db = After(family, migration)
          /\ applied = <<migration>>
    /\ plan = Plan(family, migration)
    /\ phase = "done" /\ todo = <<>> /\ warnings = {} /\ held = {} /\ intact = TRUE
    /\ started = 0 /\ inserts = 0 /\ faults = 0

Idle == phase \in {"idle", "failed", "rejected", "done"}

\* The database is as the last applied migration wanted it.
Expected == IF applied = <<>> THEN EmptySchema ELSE Last(applied).after
InSync(current) == intact /\ diff_steps(family, current, Expected) = <<>>

Infer ==
    /\ Idle /\ started < MaxMigrations
    /\ \E current \in {describe(family, db)}, expected \in Schemas[family] :
          migration' = [before |-> current, after |-> expected, forward |-> TRUE, clean |-> InSync(current),
                        again |-> migration.clean /\ phase = "failed" /\ migration.after = expected]
    /\ plan' = Plan(family, migration')
    /\ phase' = "inferred" /\ started' = started + 1
    /\ UNCHANGED <<family, db, todo, warnings, held, applied, intact, inserts, faults>>

\* The last applied migration is taken back.
Unapply ==
    /\ Idle /\ applied # <<>> /\ started < MaxMigrations
    /\ migration' = [Last(applied) EXCEPT !.forward = FALSE, !.clean = InSync(describe(family, db)), !.again = FALSE]
    /\ plan' = Plan(family, migration')
    /\ phase' = "inferred" /\ started' = started + 1
    /\ UNCHANGED <<family, db, todo, warnings, held, applied, intact, inserts, faults>>

Held == UNION {{<<t.name, c>> : c \in t.filled} : t \in ToSet(db.tables)}

\* With warnings, a migration stops here unless the force flag is given; a
\* rollback does when the flag is given as false.
Check ==
    /\ phase = "inferred"
    /\ \E fails \in {CheckFails} : \E found \in {IF fails THEN {} ELSE check} :
          /\ warnings' = found
          /\ \/ /\ fails \/ found # {}
                /\ phase' = "idle" /\ todo' = <<>>
             \/ /\ ~fails
                /\ phase' = "running" /\ todo' = Statements(migration, plan)
    /\ held' = Held
    /\ UNCHANGED <<family, db, migration, plan, applied, intact, started, inserts, faults>>

Execute ==
    /\ phase = "running" /\ todo # <<>>
    /\ \E result \in {Apply(family, db, Head(todo))} :
          /\ db' = result.db
          /\ IF result.ok THEN todo' = Tail(todo) /\ phase' = phase ELSE todo' = todo /\ phase' = "rejected"
          /\ intact' = (intact /\ result.ok)
    /\ UNCHANGED <<family, migration, plan, warnings, held, applied, started, inserts, faults>>

\* The statement fails for what the rows hold, or the connection is lost.
Fail ==
    /\ phase = "running" /\ todo # <<>>
    /\ \/ DataMayRefuse(family, db, Head(todo)) /\ faults' = faults
       \/ faults < MaxFaults /\ faults' = faults + 1
    /\ phase' = "failed" /\ intact' = FALSE
    /\ UNCHANGED <<family, db, migration, plan, todo, warnings, held, applied, started, inserts>>

Finish ==
    /\ phase = "running" /\ todo = <<>>
    /\ phase' = "done"
    /\ applied' = IF migration.forward THEN Append(applied, migration) ELSE Front(applied)
    /\ intact' = (intact \/ migration.forward)
    /\ UNCHANGED <<family, db, migration, plan, todo, warnings, held, started, inserts, faults>>

\* A row with a value in every column; what it requires is there.  Inferring
\* reads no rows: an insert right after it is one right before.
Insert(name) ==
    /\ phase # "inferred" /\ inserts < MaxInserts
    /\ LET table == Named(db.tables, name)
       IN  /\ ~table.rows /\ name # MIGRATION_TABLE_NAME
           /\ \A fk \in ToSet(table.fks) : fk.ref # name => RowsIn(fk.ref)
           /\ db' = WithTable(db, [table EXCEPT !.rows = TRUE, !.filled = ToSet(Names(table.columns))])
    /\ inserts' = inserts + 1
    /\ UNCHANGED <<family, phase, migration, plan, todo, warnings, held, applied, intact, started, faults>>

Next ==
    \/ Infer
    \/ Unapply
    \/ Check
    \/ Execute
    \/ Fail
    \/ Finish
    \/ \E name \in ToSet(Names(db.tables)) : Insert(name)

Spec == Init /\ [][Next]_vars

-----------------------------------------------------------------------------
(* Properties.                                                             *)

Phases == {"idle", "inferred", "running", "failed", "rejected", "done"}

\* The table the statement is about had no rows when the checker looked.
RowsSinceCheck == RowsIn(Head(todo).name) /\ \A v \in held : v[1] # Head(todo).name

Forward == migration.forward

\* The database is recreated for a change of the type of an id.
Radical == family # Sqlite /\ has_id_type_change(migration.before, plan.original_steps)

\* A column that is dropped and added again, and whose indexes are gone then.
IndexedColumnRecreated ==
    /\ family # Sqlite
    /\ \E s \in ToSet(StepsToCheck) : \E c \in ToSet(s.changes) :
          /\ s.kind = "AlterTable" /\ c.kind = "AlterColumn"
          /\ LET table == Named(SchemaBefore.tables, s.name)
             IN  /\ ~expand_alter_column(family, Named(table.columns, c.name), c.column).some
                 /\ \E ix \in ToSet(table.indices) : Contains(ix.columns, c.name)

\* SQLite reads one change per statement.
SeveralChanges == family = Sqlite /\ Len(Head(todo).clauses) > 1

\* The refusals that are known: the drops of fix_id_column_type_change,
\* which leaves foreign keys in place, several columns added at once in
\* SQLite, an index renamed after its column was recreated; and those to be
\* expected: the checker warned of the table, or its rows came after the
\* check.
RefusalExplained ==
    \/ \E w \in warnings : w.table = Head(todo).name
    \/ SeveralChanges \/ RowsSinceCheck \/ Radical \/ IndexedColumnRecreated

\* A foreign key that the migration made, or one of a column that it
\* changed, is to be dropped by its name, which a calculated schema lacks.
UnnamedKeyGoes ==
    \E t \in ToSet(migration.after.tables) : \E k \in ToSet(t.fks) :
        \/ ~HasNamed(migration.before.tables, t.name)
        \/ ~Has(Named(migration.before.tables, t.name).fks, LAMBDA p :
               p.columns = k.columns /\ p.ref = k.ref /\ p.refColumns = k.refColumns)
        \/ \E s \in ToSet(plan.rollback) : \E c \in ToSet(s.changes) :
              s.name = t.name /\ c.kind = "AlterColumn" /\ Contains(k.columns, c.name)

\* MySQL made the index for a foreign key, and it is there still.
RecreatesKeyIndex(s) ==
    /\ family = Mysql /\ s.op = "CREATE INDEX"
    /\ HasNamed(Named(db.tables, s.name).fks, s.index.name)

\* An attempt that was cut short has left behind what the statement makes:
\* the new table of SQLite, the new type of a Postgres enum.
LeftBehind(s) ==
    \/ s.op = "CREATE TABLE" /\ HasNamed(db.tables, s.name)
    \/ s.op = "CREATE TYPE" /\ HasNamed(db.types, s.name)

\* The order of the steps and the way each is rendered suit the database
\* (into_steps in sql_schema_differ.rs orders the steps, render_raw_sql
\* renders them, and none runs in a transaction): no statement is refused
\* without an explanation, whatever the two datamodels, when a migration
\* starts from a schema as the last one left it, when it is started again
\* after it was cut short at any of its statements, and when it is rolled
\* back.
NoStatementRejected ==
    phase = "rejected" =>
        /\ Forward /\ migration.clean => RefusalExplained
        /\ Forward /\ migration.again => RefusalExplained \/ LeftBehind(Head(todo))
        /\ ~Forward /\ migration.clean => RefusalExplained \/ UnnamedKeyGoes \/ RecreatesKeyIndex(Head(todo))

Remaining == diff_steps(family, describe(family, db), migration.after)

SamePrimaryKeys(previous, next) ==
    \A t \in ToSet(next.tables) : HasNamed(previous.tables, t.name) => Named(previous.tables, t.name).pk = t.pk

\* What the steps do not render: the arity and default of a MySQL column
\* whose enum changes, the default of a Postgres enum that loses a value,
\* the foreign key of a column added to a SQLite table, the indexes of a
\* recreated column, the drop of the Postgres enums of a recreated database.
NotMigrated ==
    \/ \E s \in ToSet(plan.corrected_steps) :
          \/ s.kind = "AlterEnum" /\ (family = Mysql \/ s.enum.dropped # <<>>)
          \/ s.kind = "AddForeignKey" /\ family = Sqlite /\ HasNamed(migration.before.tables, s.name)
    \/ Radical \/ IndexedColumnRecreated

\* A migration whose statements were all accepted leaves the schema its
\* datamodel asks for, read back by the describer: another migration to the
\* same datamodel has no steps and every table has its primary key.  This
\* holds from any schema, that of a failed migration included.
SchemaReached ==
    phase = "done" /\ Forward =>
        \/ Remaining = <<>> /\ SamePrimaryKeys(describe(family, db), migration.after)
        \/ NotMigrated

\* What a rollback cannot undo: foreign keys that are to go, and what a
\* migration cannot do.
NotRolledBack ==
    \/ Radical \/ IndexedColumnRecreated
    \/ UnnamedKeyGoes
    \/ \E s \in ToSet(plan.rollback) : s.kind = "AlterEnum"

\* A rollback that went through has brought back the schema its migration
\* was inferred from (the rollback steps of infer).
RollbackRestores ==
    phase = "done" /\ ~Forward /\ migration.clean =>
        diff_steps(family, describe(family, db), migration.before) = <<>> \/ NotRolledBack

\* The values of a column are where they were, or in the new table that is
\* about to take the place of the old one.
StillThere(table, column) == ValuesIn(table, column) \/ ValuesIn("new_" \o table, column)

Warned(table, column) ==
    \E w \in warnings : w.table = table /\ (w.kind = "table" \/ w.column = column)

\* No migration destroys values without a warning, at no point of its way
\* and wherever it stops: a value the checker saw is still there or its
\* column or table was in a warning (check_impl).  The drops of a recreated
\* database are the exception.
NoUnwarnedLoss ==
    phase \in {"running", "failed", "rejected", "done"} =>
        \A v \in held : StillThere(v[1], v[2]) \/ Warned(v[1], v[2]) \/ Radical

\* Every table with rows that a migration deletes was in a warning.  This is
\* what the comment in check_impl promises; the tables a change of the type
\* of an id drops are not among the steps it is given.
DroppedTablesAreWarned ==
    phase \in {"running", "failed", "rejected", "done"} =>
        \A v \in held : RowsIn(v[1]) \/ RowsIn("new_" \o v[1]) \/ \E w \in warnings : w.table = v[1]
=============================================================================
