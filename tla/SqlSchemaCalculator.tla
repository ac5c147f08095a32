------------------------- MODULE SqlSchemaCalculator -------------------------
(***************************************************************************)
(* The database schema a datamodel asks for: a table for each model, with  *)
(* the columns, indexes and foreign keys of its fields, a table for each   *)
(* many-to-many relation, and the enums.                                   *)
(*                                                                         *)
(* A schema is [tables, enums].  A table without a primary key has pk =    *)
(* <<>>, a foreign key whose constraint has no known name has name = "".   *)
(***************************************************************************)
EXTENDS DatamodelConverter

Postgres == "postgres"
Mysql == "mysql"
Sqlite == "sqlite"

Family(kind) == [kind |-> kind, enum |-> ""]
EnumFamily(name) == [kind |-> "Enum", enum |-> name]

column_arity(field) == IF field.arity = "Optional" THEN "Nullable" ELSE field.arity

\* An enum of MySQL belongs to its column.
enum_name(family, dm, model, field) ==
    IF family = Mysql THEN final_database_name(model) \o "_" \o final_database_name(field)
    ELSE final_database_name(find_enum(dm, field.type))

\* A column of a SQL database without enums is text.
column_family(family, dm, model, field) ==
    CASE field.kind = "base" -> Family(field.type)
      [] field.kind = "enum" /\ family \in {Postgres, Mysql} -> EnumFamily(enum_name(family, dm, model, field))
      [] OTHER -> Family("String")

\* The default of an id is left to the engine, as are generated values
\* other than now().  An enum value is looked up by its name.
migration_value_new(dm, field) ==
    CASE field.isId \/ field.default.kind = "none" -> NoDefault
      [] ~field.isId /\ field.default.kind = "now" -> [kind |-> "NOW", value |-> ""]
      [] ~field.isId /\ field.default.kind = "value" ->
            [kind |-> "VALUE",
             value |-> IF field.kind = "enum"
                         THEN final_database_name(Named(find_enum(dm, field.type).values, field.default.value))
                         ELSE field.default.value]
      [] OTHER -> NoDefault

\* The lookup of migration_value_new fails.
DefaultPanics(dm, field) ==
    /\ field.kind = "enum" /\ ~field.isId /\ field.default.kind = "value"
    /\ ~HasNamed(find_enum(dm, field.type).values, field.default.value)

calculate_enums(family, dm) ==
    CASE family = Postgres -> MapSeq(dm.enums, LAMBDA e : [name |-> final_database_name(e),
                                                           values |-> database_values(e)])
      [] family = Mysql ->
            FlatMap(dm.models, LAMBDA model :
                MapSeq(FindAll(model.fields, LAMBDA f : f.kind = "enum"), LAMBDA f :
                    [name |-> enum_name(family, dm, model, f), values |-> database_values(find_enum(dm, f.type))]))
      [] OTHER -> <<>>

-----------------------------------------------------------------------------
(* Tables of models.                                                       *)

ModelColumns(family, dm, model) ==
    MapSeq(FindAll(model.fields, LAMBDA f : f.kind \in {"base", "enum"}), LAMBDA f :
        [name |-> final_database_name(f), family |-> column_family(family, dm, model, f),
         arity |-> column_arity(f), default |-> migration_value_new(dm, f),
         auto |-> f.kind = "base" /\ f.default.kind = "autoincrement"])

ModelIndices(model) ==
    MapSeq(FindAll(model.fields, LAMBDA f : f.isUnique), LAMBDA f :
        [name |-> final_database_name(model) \o "." \o final_database_name(f),
         columns |-> <<final_database_name(f)>>, unique |-> TRUE])
    \o MapSeq(model.indices, LAMBDA ix :
        LET columns == DbNames(FieldsNamed(model, ix.fields))
        IN  [name |-> IF ix.name # "" THEN ix.name ELSE final_database_name(model) \o "." \o Join(columns),
             columns |-> columns, unique |-> ix.unique])

calculate_model_table(family, dm, model) ==
    [name |-> final_database_name(model), columns |-> ModelColumns(family, dm, model),
     indices |-> ModelIndices(model), pk |-> DbNames(id_fields(model)), fks |-> <<>>]

add_one_to_one_relation_unique_index(table, columns) ==
    IF Has(table.indices, LAMBDA ix : ix.columns = columns /\ ix.unique) THEN table
    ELSE [table EXCEPT !.indices = Append(@, [name |-> table.name \o "_" \o Join(columns),
                                              columns |-> columns, unique |-> TRUE])]

add_inline_relation(dm, model, table, field) ==
    LET columns == referencing_columns(model, field)
        indexed == IF is_one_to_one(dm, model, field)
                     THEN add_one_to_one_relation_unique_index(table, columns) ELSE table
    IN  [indexed EXCEPT !.fks = Append(@, [name |-> "", columns |-> columns,
                                           ref |-> referenced_table_name(dm, field),
                                           refColumns |-> referenced_columns(dm, field),
                                           onDelete |-> IF is_required(field) THEN "Cascade" ELSE "SetNull"])]

add_inline_relations_to_model_table(dm, model, table) ==
    FoldLeft(LAMBDA t, field : add_inline_relation(dm, model, t, field), table,
             FindAll(model.fields, LAMBDA f : is_relation(f) /\ ~is_virtual(f)))

-----------------------------------------------------------------------------
(* Tables of many-to-many relations.                                       *)

PlainColumn(name, family, arity) ==
    [name |-> name, family |-> family, arity |-> arity, default |-> NoDefault, auto |-> FALSE]

\* The type of the id, or of the first unique field; an enum counts as text.
relation_table_columns(model, name) ==
    LET BaseFamily(f) == IF f.kind = "base" THEN Family(f.type) ELSE Family("String")
        single == singular_id_fields(model) \o FindAll(model.fields, LAMBDA f : f.isUnique)
    IN  IF model.idFields = <<>>
          THEN <<PlainColumn(name, BaseFamily(single[1]), column_arity(single[1]))>>
          ELSE MapSeq(id_fields(model), LAMBDA f :
                   PlainColumn(name \o "_" \o final_database_name(f), BaseFamily(f), column_arity(f)))

\* The primary key, a required unique field, or a unique index; <<>> when
\* the code gives up.
first_unique_criterion(model) ==
    LET required == FindAll(model.fields, LAMBDA f : f.isUnique /\ is_required(f))
    IN  CASE id_fields(model) # <<>> -> id_fields(model)
          [] id_fields(model) = <<>> /\ required # <<>> -> <<required[1]>>
          [] OTHER -> IF UniqueIndices(model) = <<>> THEN <<>>
                      ELSE FieldsNamed(model, UniqueIndices(model)[1].fields)

calculate_relation_table(r) ==
    LET a_columns == relation_table_columns(r.model_a, "A")
        b_columns == relation_table_columns(r.model_b, "B")
        columns == a_columns \o b_columns
        Key(model, cs) == [name |-> "", columns |-> Names(cs), ref |-> final_database_name(model),
                           refColumns |-> DbNames(first_unique_criterion(model)), onDelete |-> "Cascade"]
    IN  [name |-> table_name(r), columns |-> columns,
         indices |-> <<[name |-> table_name(r) \o "_AB_unique", columns |-> Names(columns), unique |-> TRUE],
                       [name |-> table_name(r) \o "_B_index", columns |-> Names(b_columns), unique |-> FALSE]>>,
         pk |-> <<>>, fks |-> <<Key(r.model_a, a_columns), Key(r.model_b, b_columns)>>]

calculate_relation_tables(dm) ==
    MapSeq(FindAll(calculate_relations(dm), LAMBDA r : r.manifestation.kind = "Table"),
           calculate_relation_table)

-----------------------------------------------------------------------------
\* The tables of the models in order, then those of the relations; the
\* columns of each sorted by name as the describer returns them.
calculate(family, dm) ==
    LET model_tables == MapSeq(dm.models, LAMBDA model :
            add_inline_relations_to_model_table(dm, model, calculate_model_table(family, dm, model)))
    IN  [tables |-> MapSeq(model_tables \o calculate_relation_tables(dm), LAMBDA t :
                        [t EXCEPT !.columns = SortByName(@)]),
         enums |-> calculate_enums(family, dm)]
=============================================================================
