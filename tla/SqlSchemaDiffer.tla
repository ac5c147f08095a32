--------------------------- MODULE SqlSchemaDiffer ---------------------------
(***************************************************************************)
(* The steps from one database schema to another: the differ over tables,  *)
(* columns, indexes, foreign keys and enums, the order of its steps, and   *)
(* the corrections the inferrer makes for SQLite and for a change of the   *)
(* type of an id.                                                          *)
(*                                                                         *)
(* A step is [kind, name, table, changes, index, fk, enum, new].           *)
(***************************************************************************)
EXTENDS SqlSchemaCalculator

NoTable == [name |-> "", columns |-> <<>>, indices |-> <<>>, pk |-> <<>>, fks |-> <<>>]
NoIndex == [name |-> "", columns |-> <<>>, unique |-> FALSE]
NoKey == [name |-> "", columns |-> <<>>, ref |-> "", refColumns |-> <<>>, onDelete |-> ""]
NoColumn == [name |-> "", family |-> Family(""), arity |-> "", default |-> NoDefault, auto |-> FALSE]
NoEnum == [name |-> "", created |-> <<>>, dropped |-> <<>>, values |-> <<>>]
EmptySchema == [tables |-> <<>>, enums |-> <<>>]
MIGRATION_TABLE_NAME == "_Migration"

\* A step of a kind about the thing called name.
Step(kind, name) ==
    [kind |-> kind, name |-> name, table |-> NoTable, changes |-> <<>>, index |-> NoIndex, fk |-> NoKey,
     enum |-> NoEnum, new |-> "", copied |-> <<>>, coalesced |-> <<>>]

Change(kind, name, column) == [kind |-> kind, name |-> name, column |-> column]

foreign_key_for_column(table, column) == FindAll(table.fks, LAMBDA fk : Contains(fk.columns, column))

-----------------------------------------------------------------------------
(* Columns.                                                                *)

\* A default that only the database can have made is never migrated to.
defaults_match(previous, next) ==
    \/ previous.auto
    \/ next.default.kind \in {"DBGENERATED", "SEQUENCE"}
    \/ next.default.kind \in {"none", "NOW"} /\ previous.default.kind = next.default.kind
    \/ next.default.kind = "VALUE" /\ previous.default = next.default

column_type_changed(previous, next) == previous.family # next.family

\* The changes in the order the code lists them.
all_changes(previous, next) ==
    (IF column_type_changed(previous, next) THEN <<"Type">> ELSE <<>>)
    \o (IF previous.arity # next.arity THEN <<"Arity">> ELSE <<>>)
    \o (IF ~defaults_match(previous, next) THEN <<"Default">> ELSE <<>>)

differs_in_something(previous, next) == all_changes(previous, next) # <<>>

\* How a database alters the column in place: [some, lines]; without some
\* the column is dropped and added again.
NotInPlace == [some |-> FALSE, lines |-> <<>>]

SetOrDropDefault(next) == IF next.default.kind = "none" THEN "DropDefault" ELSE "SetDefault"

expand_mysql_alter_column(previous, next) ==
    LET changes == all_changes(previous, next)
    IN  IF ToSet(changes) \subseteq {"Default"}
          THEN [some |-> TRUE, lines |-> MapSeq(changes, LAMBDA c : SetOrDropDefault(next))]
          ELSE NotInPlace

expand_postgres_alter_column(previous, next) ==
    LET changes == all_changes(previous, next)
        loosened == previous.arity = "Required" /\ next.arity = "Nullable"
        int_to_text == previous.family = Family("Int") /\ next.family = Family("String")
        Line(c) == CASE c = "Type" -> "SetType" [] c = "Arity" -> "DropNotNull" [] OTHER -> SetOrDropDefault(next)
    IN  IF (Contains(changes, "Arity") => loosened) /\ (Contains(changes, "Type") => int_to_text)
          THEN [some |-> TRUE, lines |-> MapSeq(changes, Line)]
          ELSE NotInPlace

expand_alter_column(family, previous, next) ==
    CASE family = Postgres -> expand_postgres_alter_column(previous, next)
      [] family = Mysql -> expand_mysql_alter_column(previous, next)
      [] family = Sqlite -> NotInPlace

-----------------------------------------------------------------------------
(* Tables.                                                                 *)

column_pairs(previous, next) ==
    MapSeq(FindAll(previous.columns, LAMBDA c : HasNamed(next.columns, c.name)),
           LAMBDA c : [previous |-> c, next |-> Named(next.columns, c.name)])

dropped_columns(previous, next) == FindAll(previous.columns, LAMBDA c : ~HasNamed(next.columns, c.name))
added_columns(previous, next) == FindAll(next.columns, LAMBDA c : ~HasNamed(previous.columns, c.name))

foreign_keys_match(p, n) ==
    p.ref = n.ref /\ p.refColumns = n.refColumns /\ p.columns = n.columns /\ p.onDelete = n.onDelete

created_foreign_keys(previous, next) ==
    FindAll(next.fks, LAMBDA n : ~Has(previous.fks, LAMBDA p : foreign_keys_match(p, n)))
dropped_foreign_keys(previous, next) ==
    FindAll(previous.fks, LAMBDA p : ~Has(next.fks, LAMBDA n : foreign_keys_match(p, n)))

\* Indexes are the same whatever their names.
indexes_match(a, b) == a.columns = b.columns /\ a.unique = b.unique

created_indexes(previous, next) ==
    FindAll(next.indices, LAMBDA n : ~Has(previous.indices, LAMBDA p : indexes_match(p, n)))
dropped_indexes(previous, next) ==
    FindAll(previous.indices, LAMBDA p : ~Has(next.indices, LAMBDA n : indexes_match(p, n)))

\* The renamed indexes with their new names.
index_pairs(previous, next) ==
    LET Renamed(p) == FindAll(next.indices, LAMBDA n : indexes_match(p, n) /\ p.name # n.name)
    IN  MapSeq(FindAll(previous.indices, LAMBDA p : Renamed(p) # <<>>),
               LAMBDA p : [old |-> p.name, new |-> Renamed(p)[1].name])

index_covers_fk(table, index) == Has(table.fks, LAMBDA fk : fk.columns = index.columns)

foreign_key_changed(previous, next) ==
    \/ (previous = <<>>) # (next = <<>>)
    \/ previous # <<>> /\ next # <<>> /\ ~foreign_keys_match(previous[1], next[1])

-----------------------------------------------------------------------------
(* The changes of a table, in the order they are written.                  *)

\* A foreign key whose name is not known is not dropped.
drop_foreign_keys(previous, next) ==
    MapSeq(FindAll(dropped_foreign_keys(previous, next), LAMBDA fk : fk.name # ""),
           LAMBDA fk : Change("DropForeignKey", fk.name, NoColumn))

drop_columns(previous, next) ==
    MapSeq(dropped_columns(previous, next), LAMBDA c : Change("DropColumn", c.name, NoColumn))

add_columns(previous, next) == MapSeq(added_columns(previous, next), LAMBDA c : Change("AddColumn", c.name, c))

alter_columns(previous, next) ==
    MapSeq(FindAll(column_pairs(previous, next), LAMBDA pair :
               \/ differs_in_something(pair.previous, pair.next)
               \/ foreign_key_changed(foreign_key_for_column(previous, pair.previous.name),
                                      foreign_key_for_column(next, pair.next.name))),
           LAMBDA pair : Change("AlterColumn", pair.previous.name, pair.next))

table_changes(previous, next) ==
    drop_foreign_keys(previous, next) \o drop_columns(previous, next)
    \o add_columns(previous, next) \o alter_columns(previous, next)

-----------------------------------------------------------------------------
(* Schemas.                                                                *)

table_is_ignored(table) == table.name = MIGRATION_TABLE_NAME

\* The pairs of tables of a name, with previous in its order.
table_pairs(previous, next) ==
    MapSeq(FindAll(previous.tables, LAMBDA t : HasNamed(next.tables, t.name)),
           LAMBDA t : [previous |-> t, next |-> Named(next.tables, t.name)])

created_tables(previous, next) ==
    FindAll(next.tables, LAMBDA t : ~table_is_ignored(t) /\ ~HasNamed(previous.tables, t.name))
dropped_tables(previous, next) ==
    FindAll(previous.tables, LAMBDA t : ~table_is_ignored(t) /\ ~HasNamed(next.tables, t.name))

create_tables(previous, next) ==
    MapSeq(created_tables(previous, next), LAMBDA t : [Step("CreateTable", t.name) EXCEPT !.table = t])

drop_tables(previous, next) == MapSeq(dropped_tables(previous, next), LAMBDA t : Step("DropTable", t.name))

\* The foreign keys of dropped tables go first, one step each.
drop_foreign_keys_of_dropped(previous, next) ==
    FlatMap(dropped_tables(previous, next), LAMBDA t :
        MapSeq(FindAll(t.fks, LAMBDA fk : fk.name # ""), LAMBDA fk :
            [Step("AlterTable", t.name) EXCEPT !.table = t, !.changes = <<Change("DropForeignKey", fk.name, NoColumn)>>]))

alter_tables(previous, next) ==
    MapSeq(FindAll(table_pairs(previous, next), LAMBDA pair : table_changes(pair.previous, pair.next) # <<>>),
           LAMBDA pair : [Step("AlterTable", pair.next.name) EXCEPT
                              !.table = pair.next, !.changes = table_changes(pair.previous, pair.next)])
    \o drop_foreign_keys_of_dropped(previous, next)

AddKey(table, fk) == [Step("AddForeignKey", table.name) EXCEPT !.fk = fk]

add_foreign_keys(previous, next) ==
    FlatMap(created_tables(previous, next), LAMBDA t : MapSeq(t.fks, LAMBDA fk : AddKey(t, fk)))
    \o FlatMap(table_pairs(previous, next), LAMBDA pair :
           MapSeq(created_foreign_keys(pair.previous, pair.next), LAMBDA fk : AddKey(pair.next, fk)))

NewIndex(table, index) == [Step("CreateIndex", table.name) EXCEPT !.index = index]

create_indexes(previous, next) ==
    FlatMap(created_tables(previous, next), LAMBDA t : MapSeq(t.indices, LAMBDA ix : NewIndex(t, ix)))
    \o FlatMap(table_pairs(previous, next), LAMBDA pair :
           MapSeq(created_indexes(pair.previous, pair.next), LAMBDA ix : NewIndex(pair.next, ix)))

\* MySQL makes an index for a foreign key itself.
drop_indexes(family, previous, next) ==
    FlatMap(table_pairs(previous, next), LAMBDA pair :
        MapSeq(FindAll(dropped_indexes(pair.previous, pair.next),
                       LAMBDA ix : ~(family = Mysql /\ index_covers_fk(pair.previous, ix))),
               LAMBDA ix : [Step("DropIndex", pair.previous.name) EXCEPT !.index = ix]))

alter_indexes(previous, next) ==
    FlatMap(table_pairs(previous, next), LAMBDA pair :
        MapSeq(index_pairs(pair.previous, pair.next), LAMBDA r :
            [Step("AlterIndex", pair.next.name) EXCEPT !.index = [NoIndex EXCEPT !.name = r.old], !.new = r.new]))

create_enums(previous, next) ==
    MapSeq(FindAll(next.enums, LAMBDA e : ~HasNamed(previous.enums, e.name)),
           LAMBDA e : [Step("CreateEnum", e.name) EXCEPT !.enum.values = e.values])
drop_enums(previous, next) ==
    MapSeq(FindAll(previous.enums, LAMBDA e : ~HasNamed(next.enums, e.name)), LAMBDA e : Step("DropEnum", e.name))

created_values(previous, next) == FindAll(next.values, LAMBDA v : ~Contains(previous.values, v))
dropped_values(previous, next) == FindAll(previous.values, LAMBDA v : ~Contains(next.values, v))

alter_enums(previous, next) ==
    LET Altered(e) ==
            LET n == Named(next.enums, e.name)
            IN  [name |-> e.name, created |-> created_values(e, n), dropped |-> dropped_values(e, n), values |-> <<>>]
        pairs == MapSeq(FindAll(previous.enums, LAMBDA e : HasNamed(next.enums, e.name)), Altered)
    IN  MapSeq(FindAll(pairs, LAMBDA a : a.created # <<>> \/ a.dropped # <<>>),
               LAMBDA a : [Step("AlterEnum", a.name) EXCEPT !.enum = a])

\* Foreign keys before the columns they are on.
diff_steps_keys_first(family, previous, next) ==
    create_enums(previous, next)
    \o alter_enums(previous, next)
    \o drop_indexes(family, previous, next)
    \o create_tables(previous, next)
    \o add_foreign_keys(previous, next)
    \o alter_tables(previous, next)
    \o create_indexes(previous, next)
    \o drop_tables(previous, next)
    \o drop_enums(previous, next)
    \o alter_indexes(previous, next)

\* The differ, and the order of its steps.
diff_steps(family, previous, next) ==
    create_enums(previous, next)
    \o alter_enums(previous, next)
    \o drop_indexes(family, previous, next)
    \o create_tables(previous, next)
    \o alter_tables(previous, next)
    \o create_indexes(previous, next)
    \o add_foreign_keys(previous, next)
    \o drop_tables(previous, next)
    \o drop_enums(previous, next)
    \o alter_indexes(previous, next)

-----------------------------------------------------------------------------
(* SQLite cannot alter most of a table: the table is built again.          *)

needs_fix(step) ==
    Has(step.changes, LAMBDA c : c.kind # "AddColumn" \/ c.column.arity = "Required")

\* Columns that became required get their default instead of NULL.
copy_current_table_into_new_table(current, next) ==
    LET Defaulted(pair) == /\ pair.previous.arity # pair.next.arity
                           /\ pair.next.arity = "Required" /\ pair.next.default.kind # "none"
        NamesOf(pairs) == MapSeq(pairs, LAMBDA pair : pair.next.name)
        pairs == column_pairs(current, next)
    IN  [Step("RawCopy", current.name) EXCEPT
            !.new = "new_" \o next.name,
            !.copied = NamesOf(FindAll(pairs, LAMBDA pair : ~Defaulted(pair))),
            !.coalesced = NamesOf(FindAll(pairs, Defaulted))]

\* The indexes of the old table are not made again.
fix_table_without_indexes(current, next) ==
    LET temporary == [next EXCEPT !.name = "new_" \o next.name]
    IN  <<[Step("CreateTable", temporary.name) EXCEPT !.table = temporary],
          copy_current_table_into_new_table(current, next),
          Step("DropTable", current.name),
          [Step("RenameTable", temporary.name) EXCEPT !.new = next.name]>>

fix_table(current, next) ==
    LET temporary == [next EXCEPT !.name = "new_" \o next.name]
    IN  <<[Step("CreateTable", temporary.name) EXCEPT !.table = temporary],
          copy_current_table_into_new_table(current, next),
          Step("DropTable", current.name),
          [Step("RenameTable", temporary.name) EXCEPT !.new = next.name]>>
        \o MapSeq(next.indices, LAMBDA ix : NewIndex(next, ix))

\* The steps with the tables that need it built again.  A table built again
\* has its foreign keys and indexes; the steps that would add them later are
\* skipped.  The list `fixed` grows as the steps are visited.
fix_step(current, next, acc, step) ==
    LET Rebuilt(name) == [steps |-> acc.steps \o fix_table(Named(current.tables, name), Named(next.tables, name)),
                          fixed |-> acc.fixed \cup {name}]
    IN  CASE step.kind = "AlterTable" /\ needs_fix(step) /\ HasNamed(current.tables, step.name) ->
                Rebuilt(step.name)
          [] step.kind = "AlterIndex" -> Rebuilt(step.name)
          [] step.kind \in {"AddForeignKey", "CreateIndex"} /\ step.name \in acc.fixed -> acc
          [] OTHER -> [acc EXCEPT !.steps = Append(@, step)]

sqlite_fix(current, next, steps) ==
    LET fixed == FoldLeft(LAMBDA acc, s : fix_step(current, next, acc, s),
                          [steps |-> <<Step("PragmaOff", "")>>, fixed |-> {}], steps).steps
    IN  IF Len(fixed) = 1 THEN <<>>
        ELSE fixed \o <<Step("ForeignKeyCheck", ""), Step("PragmaOn", "")>>

-----------------------------------------------------------------------------
(* A change of the type of an id recreates the database.                   *)

has_id_type_change(from, steps) ==
    Has(steps, LAMBDA s :
        /\ s.kind = "AlterTable" /\ HasNamed(from.tables, s.name)
        /\ LET current == Named(from.tables, s.name)
           IN  Has(s.changes, LAMBDA c :
                   /\ c.kind = "AlterColumn"
                   /\ Contains(current.pk, c.name)
                   /\ Named(current.columns, c.name).family # c.column.family))

fix_id_column_type_change(family, from, to, steps) ==
    IF has_id_type_change(from, steps)
      THEN MapSeq(FindAll(from.tables, LAMBDA t : ~table_is_ignored(t)), LAMBDA t : Step("DropTable", t.name))
           \o diff_steps(family, EmptySchema, to)
      ELSE steps

-----------------------------------------------------------------------------
\* The steps as the checker sees them and as they are applied.
fix(family, from, to, steps) ==
    [original |-> steps,
     corrected |-> IF family = Sqlite THEN sqlite_fix(from, to, steps)
                   ELSE fix_id_column_type_change(family, from, to, steps)]

infer_database_migration_steps_and_fix(family, from, to) == fix(family, from, to, diff_steps(family, from, to))

DatabaseMigration(current, expected, forward, backward) ==
    [before |-> current, after |-> expected, original_steps |-> forward.original,
     corrected_steps |-> forward.corrected, rollback |-> backward.corrected]

\* The rollback as another migration forward.
infer_no_way_back(family, current, expected) ==
    DatabaseMigration(current, expected, infer_database_migration_steps_and_fix(family, current, expected),
                      infer_database_migration_steps_and_fix(family, expected, expected))

infer(family, current, expected) ==
    DatabaseMigration(current, expected,
                      infer_database_migration_steps_and_fix(family, current, expected),
                      infer_database_migration_steps_and_fix(family, expected, current))
=============================================================================
