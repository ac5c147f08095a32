---------------------------- MODULE Introspection ----------------------------
(***************************************************************************)
(* The datamodel the introspection engine reads off a database: one model  *)
(* per table, fields for its columns and foreign keys, the back relations, *)
(* the many-to-many relations of relation tables, names that are valid in  *)
(* a schema, and what has to be commented out.                             *)
(*                                                                         *)
(* The schema is the one SqlSchemaDescriber returns.  An enum value that   *)
(* is the empty string is left out, as are the version checks and the id   *)
(* defaults of databases that Prisma 1 made.                               *)
(***************************************************************************)
EXTENDS Dml

StartsWith(name, c) == SubSeq(name, 1, 1) = c

Columns(table, names) == MapSeq(names, LAMBDA n : Named(table.columns, n))

MIGRATION_COLUMNS ==
    {"revision", "name", "datamodel", "status", "applied", "rolled_back", "datamodel_steps", "database_migration",
     "errors", "started_at", "finished_at"}

is_migration_table(table) ==
    table.name = "_Migration" /\ MIGRATION_COLUMNS \subseteq ToSet(Names(table.columns))

is_relay_table(table) ==
    /\ table.name = "_RelayId"
    /\ table.columns[1].name = "id" /\ table.columns[2].name \in {"stableModelIdentifier", "stablemodelidentifier"}

is_a(column) == column \in {"A", "a"}
is_b(column) == column \in {"B", "b"}

common_prisma_m_to_n_relation_conditions(table) ==
    /\ StartsWith(table.name, "_")
    /\ Has(table.indices, LAMBDA ix : /\ ix.unique /\ Len(ix.columns) = 2
                                      /\ is_a(ix.columns[1]) /\ is_b(ix.columns[2]))
    /\ Has(table.indices, LAMBDA ix : ~ix.unique /\ Len(ix.columns) = 1 /\ is_b(ix.columns[1]))
    /\ Len(table.fks) = 2
    /\ IF ~NameLt(table.fks[2].ref, table.fks[1].ref)
         THEN is_a(table.fks[1].columns[1]) /\ is_b(table.fks[2].columns[1])
         ELSE is_b(table.fks[1].columns[1]) /\ is_a(table.fks[2].columns[1])

is_prisma_1_point_1_or_2_join_table(table) ==
    Len(table.columns) = 2 /\ Len(table.indices) >= 2 /\ common_prisma_m_to_n_relation_conditions(table)

is_prisma_1_point_0_join_table(table) ==
    /\ Len(table.columns) = 3 /\ Len(table.indices) >= 2 /\ HasNamed(table.columns, "id")
    /\ common_prisma_m_to_n_relation_conditions(table)

IsJoinTable(table) == is_prisma_1_point_1_or_2_join_table(table) \/ is_prisma_1_point_0_join_table(table)

-----------------------------------------------------------------------------
(* Fields.                                                                 *)

is_column_unique(table, column) == Has(table.indices, LAMBDA ix : ix.unique /\ ix.columns = <<column>>)

is_single_primary_key(table, column) == table.pk = <<column>>

ScalarOf ==
    [Boolean |-> "Boolean", DateTime |-> "DateTime", Float |-> "Float", Int |-> "Int", String |-> "String",
     Uuid |-> "String", Json |-> "Json"]

calculate_scalar_field_type(column) ==
    CASE column.family.kind = "Enum" -> Field_new(column.name, "enum", column.family.enum)
      [] column.family.kind \in DOMAIN ScalarOf -> Field_new(column.name, "base", ScalarOf[column.family.kind])
      [] OTHER -> [Field_new(column.name, "unsupported", column.family.kind) EXCEPT !.commentedOut = TRUE]

Generating(kind) == [kind |-> kind, value |-> ""]

\* Mutant: values are not taken over.
calculate_default_functions(column) ==
    IF column.arity = "List" THEN NoDefault
    ELSE IF (column.family.kind = "Int" /\ column.auto) \/ column.default.kind = "SEQUENCE"
           THEN Generating("autoincrement")
    ELSE CASE column.default.kind = "NOW" /\ column.family.kind = "DateTime" -> Generating("now")
           [] column.default.kind = "DBGENERATED" -> Generating("dbgenerated")
           [] OTHER -> NoDefault

\* The sequence of a primary key makes its column auto-incremented.
calculate_default(column) ==
    IF column.arity = "List" THEN NoDefault
    ELSE IF (column.family.kind = "Int" /\ column.auto) \/ column.default.kind = "SEQUENCE"
           THEN Generating("autoincrement")
    ELSE CASE column.default.kind = "NOW" /\ column.family.kind = "DateTime" -> Generating("now")
           [] column.default.kind = "DBGENERATED" -> Generating("dbgenerated")
           [] column.default.kind = "VALUE" -> [kind |-> "value", value |-> column.default.value]
           [] OTHER -> NoDefault

ArityOf == [Required |-> "Required", Nullable |-> "Optional", List |-> "List"]

calculate_scalar_field(table, column) ==
    [calculate_scalar_field_type(column) EXCEPT
        !.arity = IF column.auto /\ column.family.kind = "Int" THEN "Required" ELSE ArityOf[column.arity],
        !.default = calculate_default(column),
        !.isId = is_single_primary_key(table, column.name),
        !.isUnique = is_column_unique(table, column.name) /\ ~is_single_primary_key(table, column.name)]

RelationField(name, arity, rel) == [Field_new(name, "relation", rel.to) EXCEPT !.arity = arity, !.rel = rel]

\* Mutant: keys in both directions are not told apart.
calculate_relation_name_one_way(schema, fk, table) ==
    LET ambiguous == Len(FindAll(table.fks, LAMBDA k : k.ref = fk.ref)) >= 2
        this == IF ambiguous THEN table.name \o "_" \o Join(fk.columns) ELSE table.name
    IN  IF NameLt(table.name, fk.ref) THEN this \o "To" \o fk.ref ELSE fk.ref \o "To" \o this

\* The names of two tables that refer to each other once are enough.
calculate_relation_name(schema, fk, table) ==
    LET ambiguous == \/ Len(FindAll(table.fks, LAMBDA k : k.ref = fk.ref)) >= 2
                     \/ Has(Named(schema.tables, fk.ref).fks, LAMBDA k : k.ref = table.name)
        this == IF ambiguous THEN table.name \o "_" \o Join(fk.columns) ELSE table.name
    IN  IF NameLt(table.name, fk.ref) THEN this \o "To" \o fk.ref ELSE fk.ref \o "To" \o this

calculate_relation_field(schema, table, fk) ==
    RelationField(fk.ref,
                  IF Has(Columns(table, fk.columns), LAMBDA c : c.arity = "Required") THEN "Required" ELSE "Optional",
                  [to |-> fk.ref, name |-> calculate_relation_name(schema, fk, table), fields |-> fk.columns,
                   toFields |-> fk.refColumns])

columns_match(a, b) == Len(a) = Len(b) /\ ToSet(a) \subseteq ToSet(b)

other_is_unique(table, columns) ==
    IF Len(columns) = 1 THEN is_column_unique(table, columns[1])
    ELSE Has(table.indices, LAMBDA ix : ix.unique /\ columns_match(ix.columns, columns))

calculate_backrelation_field(table, model, field) ==
    RelationField(IF field.rel.to = model.name /\ field.name = model.name THEN "other_" \o model.name ELSE model.name,
                  IF other_is_unique(table, field.rel.fields) THEN "Optional" ELSE "List",
                  [NoRelation EXCEPT !.to = model.name, !.name = field.rel.name])

calculate_many_to_many_field(fk, name, is_self_relation) ==
    RelationField(IF is_self_relation THEN fk.ref \o "_" \o fk.columns[1] ELSE fk.ref, "List",
                  [NoRelation EXCEPT !.to = fk.ref, !.name = name, !.toFields = fk.refColumns])

calculate_index(index) == [name |-> index.name, fields |-> index.columns, unique |-> index.unique]

-----------------------------------------------------------------------------
(* Models, and the fields of other tables' keys.                           *)

UnsupportedIn(fields, name) == Named(fields, name).kind = "unsupported"

ModelOf(schema, table, scalars) ==
    [Model_new(table.name, scalars \o
        MapSeq(FindAll(UniqueBy(table.fks, LAMBDA k : k),
                       LAMBDA k : \A i \in DOMAIN k.columns : ~UnsupportedIn(scalars, k.columns[i])),
               LAMBDA k : calculate_relation_field(schema, table, k))) EXCEPT
        !.indices = MapSeq(FindAll(table.indices, LAMBDA ix : ~(ix.unique /\ Len(ix.columns) = 1)), calculate_index),
        !.idFields = IF Len(table.pk) > 1 THEN table.pk ELSE <<>>]

IsModelTable(table) == ~is_migration_table(table) /\ ~IsJoinTable(table) /\ ~is_relay_table(table)

TablesAndEnums(schema) ==
    [models |-> MapSeq(FindAll(schema.tables, IsModelTable), LAMBDA t :
                    ModelOf(schema, t, MapSeq(t.columns, LAMBDA c : calculate_scalar_field(t, c)))),
     enums |-> MapSeq(schema.enums, LAMBDA e :
                   [name |-> e.name, db |-> "",
                    values |-> MapSeq(e.values, LAMBDA v : [name |-> v, db |-> "", commentedOut |-> FALSE])])]

\* The search compares the names of the fields, whatever their models.
HasBackRelation(dm, model, field) ==
    Has(find_model(dm, field.rel.to).fields, LAMBDA f :
        /\ is_relation(f) /\ f.rel.to = model.name /\ f.rel.name = field.rel.name
        /\ f.name # field.name)

NewField(model, field) == [model |-> model, field |-> field]

BackRelations(schema, dm) ==
    FlatMap(dm.models, LAMBDA model :
        MapSeq(FindAll(model.fields, LAMBDA f : is_relation(f) /\ ~HasBackRelation(dm, model, f)), LAMBDA f :
            NewField(f.rel.to, calculate_backrelation_field(Named(schema.tables, model.name), model, f))))

ManyToMany(schema) ==
    FlatMap(FindAll(schema.tables, IsJoinTable), LAMBDA t :
        LET self == t.fks[1].ref = t.fks[2].ref
        IN  <<NewField(t.fks[2].ref, calculate_many_to_many_field(t.fks[1], Tail(t.name), self)),
              NewField(t.fks[1].ref, calculate_many_to_many_field(t.fks[2], Tail(t.name), self))>>)

AddFieldsTo(dm, added) ==
    [dm EXCEPT !.models = MapSeq(@, LAMBDA m :
        [m EXCEPT !.fields = @ \o MapSeq(FindAll(added, LAMBDA a : a.model = m.name), LAMBDA a : a.field)])]

WithRelations(schema, dm) == AddFieldsTo(dm, BackRelations(schema, dm) \o ManyToMany(schema))

-----------------------------------------------------------------------------
(* Names that a schema can have.                                           *)

Letters == "ABCDEFGHIJKLMNOPQRSTUVWXYZabcdefghijklmnopqrstuvwxyz"
LetterSet == {SubSeq(Letters, i, i) : i \in 1..Len(Letters)}
WordSet == LetterSet \cup {"_", "0", "1", "2", "3", "4", "5", "6", "7", "8", "9"}

FromFirstLetter(name) ==
    LET at == {i \in 1..Len(name) : SubSeq(name, i, i) \in LetterSet}
    IN  IF at = {} THEN "" ELSE SubSeq(name, CHOOSE i \in at : \A j \in at : i <= j, Len(name))

Cleaned(name) ==
    FoldLeft(LAMBDA text, i : text \o (IF SubSeq(name, i, i) \in WordSet THEN SubSeq(name, i, i) ELSE "_"), "",
             [i \in 1..Len(name) |-> i])

\* Without what comes before the first letter, other characters replaced.
sanitize_name(name) == Cleaned(FromFirstLetter(name))

\* The name in the database, when it had to be changed.
Unsanitized(name) == IF sanitize_name(name) = name THEN "" ELSE name

\* A MySQL enum is called after its column and changes its name with it.
SanitizedEnum(model, field) ==
    IF field.type # model.name \o "_" \o field.name THEN sanitize_name(field.type)
    ELSE IF Unsanitized(model.name) = "" /\ Unsanitized(field.name) = "" THEN field.type
    ELSE sanitize_name(model.name) \o "_" \o sanitize_name(field.name)

SanitizedDefault(default) ==
    CASE default.kind # "value" -> default
      [] default.kind = "value" /\ sanitize_name(default.value) = "" -> Generating("dbgenerated")
      [] OTHER -> [default EXCEPT !.value = sanitize_name(@)]

SanitizedField(model, field) ==
    [field EXCEPT
        !.name = sanitize_name(@),
        !.db = IF is_relation(field) THEN @ ELSE Unsanitized(field.name),
        !.type = CASE field.kind = "enum" -> SanitizedEnum(model, field)
                   [] is_relation(field) -> sanitize_name(@)
                   [] OTHER -> @,
        !.default = IF field.kind = "enum" THEN SanitizedDefault(@) ELSE @,
        !.rel = IF is_relation(field)
                  THEN [to |-> sanitize_name(@.to), name |-> sanitize_name(@.name),
                        fields |-> MapSeq(@.fields, sanitize_name), toFields |-> MapSeq(@.toFields, sanitize_name)]
                  ELSE @]

SanitizedModel(model) ==
    [model EXCEPT !.name = sanitize_name(@), !.db = Unsanitized(model.name),
                  !.fields = MapSeq(@, LAMBDA f : SanitizedField(model, f)),
                  !.idFields = MapSeq(@, sanitize_name),
                  !.indices = MapSeq(@, LAMBDA ix : [ix EXCEPT !.fields = MapSeq(@, sanitize_name)])]

\* The new names of an enum whose name changed with a field's.
EnumRenames(dm, enum) ==
    FlatMap(dm.models, LAMBDA m :
        MapSeq(FindAll(m.fields, LAMBDA f : /\ f.kind = "enum" /\ f.type = enum.name
                                            /\ SanitizedEnum(m, f) # f.type),
               LAMBDA f : SanitizedEnum(m, f)))

\* The last of them counts.
SanitizedEnumName(enum, renames) == IF renames = <<>> THEN sanitize_name(enum.name) ELSE Last(renames)

RenamedEnum(enum, name) ==
    [enum EXCEPT !.name = name, !.db = IF name = enum.name THEN "" ELSE enum.name,
                 !.values = MapSeq(@, LAMBDA v : [v EXCEPT !.name = sanitize_name(@), !.db = Unsanitized(v.name)])]

sanitize_datamodel_names(dm) ==
    [models |-> MapSeq(dm.models, SanitizedModel),
     enums |-> MapSeq(dm.enums, LAMBDA e : RenamedEnum(e, SanitizedEnumName(e, EnumRenames(dm, e))))]

-----------------------------------------------------------------------------
(* What cannot be part of a schema is commented out.                       *)

\* The other side as it is searched for: a self relation may find itself.
OtherSides(dm, model, field) ==
    FindAll(find_model(dm, field.rel.to).fields, LAMBDA f :
        is_relation(f) /\ f.rel.to = model.name /\ f.rel.name = field.rel.name)

SingularRelations(model) == FindAll(model.fields, LAMBDA f : is_relation(f) /\ ~is_list(f))

IsOneToOne(sides) == sides # <<>> /\ ~is_list(sides[1])

HasOneToOneRelation(dm, model) ==
    Has(SingularRelations(model), LAMBDA f : IsOneToOne(OtherSides(dm, model, f)))

\* Names that became the same hide the other side, which is unwrapped; the search
\* of a model ends with its first one-to-one relation.
UnwrapsOtherSide(dm, model, fields) ==
    \E i \in DOMAIN fields :
        /\ OtherSides(dm, model, fields[i]) = <<>>
        /\ \A j \in 1..(i - 1) : ~IsOneToOne(OtherSides(dm, model, fields[j]))

OtherSideIsMissing(dm) == Has(dm.models, LAMBDA m : UnwrapsOtherSide(dm, m, SingularRelations(m)))

\* A relation field has no other name to take.
NamelessRelation(dm) == Has(dm.models, LAMBDA m : Has(m.fields, LAMBDA f : is_relation(f) /\ f.name = ""))

CommentOutNameless(x) == IF x.name = "" THEN [x EXCEPT !.name = x.db, !.commentedOut = TRUE] ELSE x

Unsupported(model) == {f.name : f \in {g \in ToSet(model.fields) : g.kind = "unsupported"}}

DropKeysOver(model, names) ==
    [model EXCEPT !.indices = FindAll(@, LAMBDA ix : ToSet(ix.fields) \cap names = {}),
                  !.idFields = IF ToSet(@) \cap names = {} THEN @ ELSE <<>>]

HasIdentifier(model) ==
    \/ model.idFields # <<>>
    \/ Has(model.fields, LAMBDA f : (f.isId \/ f.isUnique) /\ ~f.commentedOut)
    \/ UniqueIndices(model) # <<>>

GuardedModel(model, one_to_one) == [model EXCEPT !.commentedOut = ~HasIdentifier(model) /\ ~one_to_one]

WithoutUnsupported(model) == DropKeysOver(model, Unsupported(model))

GuardedModels(dm) ==
    MapSeq(dm.models, LAMBDA m :
        GuardedModel(WithoutUnsupported([m EXCEPT !.fields = MapSeq(@, CommentOutNameless)]),
                     HasOneToOneRelation(dm, m)))

WithoutFieldsTo(models, gone) ==
    MapSeq(models, LAMBDA m : [m EXCEPT !.fields = FindAll(@, LAMBDA f : ~(is_relation(f) /\ f.rel.to \in gone))])

CommentedOut(models) == {m.name : m \in {x \in ToSet(models) : x.commentedOut}}

RemoveBackRelations(models) == WithoutFieldsTo(models, CommentedOut(models))

commenting_out_guardrails(dm) ==
    [models |-> RemoveBackRelations(GuardedModels(dm)),
     enums |-> MapSeq(dm.enums, LAMBDA e : [e EXCEPT !.values = MapSeq(@, CommentOutNameless)])]

-----------------------------------------------------------------------------
(* Relation fields with the name of another field.                         *)

DuplicatedRelationFields(model) ==
    FindAll(model.fields, LAMBDA f : is_relation(f) /\ Len(FindAll(model.fields, LAMBDA g : g.name = f.name)) > 1)

\* The first relation field that still has the name.
RenameRelationField(model, field) ==
    [model EXCEPT !.fields[SelectInSeq(model.fields, LAMBDA f : is_relation(f) /\ f.name = field.name)].name =
        @ \o "_" \o field.rel.name]

deduplicate_field_names(dm) ==
    [dm EXCEPT !.models = MapSeq(@, LAMBDA m : FoldLeft(RenameRelationField, m, DuplicatedRelationFields(m)))]

Guarded(dm) ==
    IF OtherSideIsMissing(dm) \/ NamelessRelation(dm) THEN [status |-> "panic", value |-> dm]
    ELSE [status |-> "ok", value |-> deduplicate_field_names(commenting_out_guardrails(dm))]

calculate_datamodel(schema) == Guarded(sanitize_datamodel_names(WithRelations(schema, TablesAndEnums(schema))))
=============================================================================
