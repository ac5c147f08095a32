------------------------------ MODULE Datamodel ------------------------------
(***************************************************************************)
(* A schema file and a database, and the operations that derive one from   *)
(* the other: the formatter rewrites the file, the migration engine        *)
(* renders a datamodel and creates the database of an accepted file,       *)
(* introspection replaces the file by what it reads off the database.      *)
(* Every operation starts by parsing the file again.                       *)
(***************************************************************************)
EXTENDS DatamodelValidator, Introspection, SqlSchemaDescriber

CONSTANTS
    Providers,      \* the providers of a data source, NoSource among them
    Files(_),       \* the schemas somebody wrote for a provider
    Databases(_),   \* the databases somebody made with other tools
    MaxOperations

VARIABLES
    family,         \* the provider
    file,           \* the schema
    parsed,         \* what parsing the file returns
    database,       \* the content of the database
    origin,         \* whether the file or the database was there first
    operation,      \* the last operation
    operations

vars == <<family, file, parsed, database, origin, operation, operations>>

NoFile == <<>>
Unread == [status |-> "unread", value |-> EmptyDatamodel]

Init ==
    /\ family \in Providers
    /\ \/ file \in Files(family) /\ database = EmptyDatabase /\ origin = "file"
       \/ database \in Databases(family) /\ file = NoFile /\ origin = "database"
    /\ parsed = Unread
    /\ operation = "none" /\ operations = 0

Operate(name) == operations < MaxOperations /\ operation' = name /\ operations' = operations + 1

Save(schema) == file' = schema /\ parsed' = parse_datamodel(file', family)

Parse ==
    /\ parsed = Unread /\ file # NoFile
    /\ Save(file)
    /\ operation' = "Parse"
    /\ UNCHANGED <<family, database, origin, operations>>

\* The formatter parses the file itself; when that panics nothing is written.
Format ==
    /\ Operate("Format")
    /\ parsed # Unread /\ parsed.status # "panic"
    /\ Save(reformat(file, parsed))
    /\ UNCHANGED <<family, database, origin>>

Render ==
    /\ Operate("Render")
    /\ parsed.status = "ok"
    /\ Save(lower(parsed.value))
    /\ UNCHANGED <<family, database, origin>>

CalculatorPanics(dm) ==
    \/ ConverterPanics(dm)
    \/ Has(dm.models, LAMBDA m : Has(m.fields, LAMBDA f : DefaultPanics(dm, f)))

\* The first migration: it ends at the first statement that is refused.
Created(steps, expected) ==
    FoldLeft(LAMBDA r, s : IF r.ok THEN Apply(family, r.db, s) ELSE r, [ok |-> TRUE, db |-> EmptyDatabase],
             FlatMap(steps, LAMBDA s : render_raw_sql(family, EmptySchema, expected, s)))

CreatedFor(expected) == Created(infer(family, EmptySchema, expected).corrected_steps, expected)

Migrate ==
    /\ family # NoSource /\ database = EmptyDatabase
    /\ parsed.status = "ok" /\ ~CalculatorPanics(parsed.value)
    /\ \E result \in {CreatedFor(calculate(family, parsed.value))} :
          /\ Operate(IF result.ok THEN "Migrate" ELSE "FailedMigrate")
          /\ database' = result.db
    /\ UNCHANGED <<family, file, parsed, origin>>

\* An empty result is an error and the file stays.
Introspect ==
    /\ Operate("Introspect")
    /\ family # NoSource
    /\ \E introspected \in {calculate_datamodel(describe(family, database))} :
          /\ introspected.status = "ok"
          /\ introspected.value.models # <<>> \/ introspected.value.enums # <<>>
          /\ Save(lower(introspected.value))
    /\ UNCHANGED <<family, database, origin>>

Next == Parse \/ Format \/ Render \/ Migrate \/ Introspect

Spec == Init /\ [][Next]_vars

-----------------------------------------------------------------------------
IsValid == parsed.status = "ok"

SomeField(dm, Test(_, _)) == Has(dm.models, LAMBDA m : Has(m.fields, LAMBDA f : Test(m, f)))

-----------------------------------------------------------------------------
(* What the validation and the standardiser let through.                   *)

\* The only unique field of a model is optional: an identity for the
\* validation, nothing to reference for the standardiser.
OnlyOptionalCriteria(model) == strict_unique_criterias(model) = <<>> /\ loose_unique_criterias(model) # <<>>

\* The references of a relation are in the file.
WritesReferences(model, field) ==
    Has(file, LAMBDA top :
        /\ top.kind = "model" /\ top.name = model.name
        /\ Has(top.fields, LAMBDA f :
              f.name = field.name /\ Has(f.directives, LAMBDA d :
                  d.name = "relation" /\ Has(d.arguments, LAMBDA a : a.name = "references"))))

\* References that the standardiser fills in are not compared with the
\* fields they belong to, neither in number nor in type.
Mismatched(dm, model, field) ==
    /\ field.rel.fields # <<>> /\ ~WritesReferences(model, field)
    /\ \/ Len(field.rel.fields) # Len(field.rel.toFields)
       \/ \E i \in DOMAIN field.rel.fields :
             find_field(model, field.rel.fields[i]).type
               # find_field(find_model(dm, field.rel.to), field.rel.toFields[i]).type
MismatchedReferences(dm) == SomeField(dm, LAMBDA m, f : is_relation(f) /\ Mismatched(dm, m, f))

\* A name that was given is the default name of another relation.
SharedName(dm) ==
    SomeField(dm, LAMBDA m, f :
        /\ is_relation(f)
        /\ Len(FindAll(m.fields, LAMBDA g : is_relation(g) /\ g.rel.name = f.rel.name))
             > (IF f.rel.to = m.name THEN 2 ELSE 1))

\* A MySQL relation may reference any fields, a MySQL key only indexed ones.
ReferencesWithoutIndex(dm) ==
    /\ family = Mysql
    /\ SomeField(dm, LAMBDA m, f :
          /\ is_relation(f) /\ f.rel.toFields # <<>>
          /\ ~references_unique_criteria(find_model(dm, f.rel.to), f.rel.toFields))

\* The value of an enum's default is not looked up.
UnknownDefault(dm) == SomeField(dm, LAMBDA m, f : DefaultPanics(dm, f))

\* A datamodel keeps the names of aliases and not their definitions.
UsesAlias(dm) == SomeField(dm, LAMBDA m, f : f.alias # "")

-----------------------------------------------------------------------------
(* Parsing.                                                                *)

\* Whatever the schema, parsing it ends with a datamodel or with errors: the
\* lookups that the validator and the standardiser unwrap find something.
\* They do not when a relation leads to a model that only an
\* optional field identifies, in schemas with two models of one name, and in
\* embedded models.
NoPanic ==
    parsed.status = "panic" =>
        \/ SomeField(parsed.value, LAMBDA m, f :
               is_relation(f) /\ OnlyOptionalCriteria(find_model(parsed.value, f.rel.to)))
        \/ ~NoDuplicates(file)
        \/ Has(parsed.value.models, LAMBDA m : m.embedded)

Unconverted(templates) ==
    Has(templates.models, LAMBDA m : Has(m.fields, LAMBDA f :
        f.kind = "panic" \/ (f.kind = "relation" /\ f.side = "panic")))

StoredInline(schema, dm, model, field) ==
    Has(Named(schema.tables, final_database_name(model)).fks, LAMBDA k :
        /\ k.ref = referenced_table_name(dm, field)
        /\ k.columns = referencing_columns(model, field)
        /\ k.refColumns = referenced_columns(dm, field))

Stored(schema, dm, r) ==
    IF r.manifestation.kind = "Table" THEN HasNamed(schema.tables, table_name(r))
    ELSE StoredInline(schema, dm, find_model(dm, r.manifestation.table),
                      find_field(find_model(dm, r.manifestation.table), r.manifestation.field))

StoredIn(schema, dm) == \A r \in ToSet(calculate_relations(dm)) : Stored(schema, dm, r)

\* The query engine and the migration engine read an accepted schema the
\* same way: the converter finds both sides of every relation, and in the
\* schema the calculator makes there is the foreign key or the relation
\* table in which the query engine will look for the relation.
EnginesAgree ==
    IsValid /\ operation = "Parse" =>
        \/ SharedName(parsed.value)
        \/ /\ ~ConverterPanics(parsed.value)
           /\ ~Unconverted(convert(parsed.value))
           /\ \/ family = NoSource \/ UnknownDefault(parsed.value)
              \/ StoredIn(calculate(family, parsed.value), parsed.value)

\* Generated or written, a field is the same field.
Meaning(dm) ==
    [dm EXCEPT !.models = MapSeq(@, LAMBDA m : [m EXCEPT !.fields = MapSeq(@, LAMBDA f :
        [f EXCEPT !.generated = FALSE])])]

SameMeaning(r, s) == r.status = s.status /\ (r.status = "ok" => Meaning(r.value) = Meaning(s.value))

\* A schema means the same in whatever order its models, enums and aliases
\* are declared, although the standardiser goes through the models one after
\* the other and fills in names, fields and references as it goes.
OrderDoesNotMatter ==
    operation = "Parse" /\ NoDuplicates(file) =>
        \E other \in {parse_datamodel(Reverse(file), family)} :
            /\ other.status = parsed.status
            /\ IsValid => ToSet(Meaning(other.value).models) = ToSet(Meaning(parsed.value).models)

-----------------------------------------------------------------------------
(* Formatting and rendering.                                               *)

\* Writing the fields that the standardiser added into the schema changes
\* nothing of what it means: the text of a generated field is lifted to the
\* same field again, with the name of its relation and what it references.
FormatKeepsMeaning == [][operation' = "Format" => SameMeaning(parsed, parsed')]_vars

\* The migration engine stores a datamodel as the text it renders and parses
\* it again: what is left out of the text, because the standardiser would
\* add it, comes back.
RenderKeepsMeaning ==
    [][operation' = "Render" =>
           \/ MismatchedReferences(parsed.value) \/ SharedName(parsed.value) \/ UsesAlias(parsed.value)
           \/ SameMeaning(parsed, parsed')]_vars

-----------------------------------------------------------------------------
(* The database.                                                           *)

\* The database accepts every statement of the first migration of a schema
\* that the validator accepted.
ValidIsCreatable ==
    operation = "FailedMigrate" => MismatchedReferences(parsed.value) \/ ReferencesWithoutIndex(parsed.value)

\* A relation table has the name that the foreign key of another relation
\* between its tables is given.
IntrospectedNamesClash(schema) == SharedName(WithRelations(schema, TablesAndEnums(schema)))

\* A many-to-many relation needs models with an id of one field.
RelationTableWithoutIds(schema) ==
    Has(schema.tables, LAMBDA t : IsJoinTable(t) /\ Has(t.fks, LAMBDA k : Named(schema.tables, k.ref).pk # k.refColumns))

\* A one-to-one relation counts as the identity of a table without keys.
KeylessOneToOne(schema) ==
    Has(schema.tables, LAMBDA t : Has(t.fks, LAMBDA k :
        /\ other_is_unique(t, k.columns)
        /\ Named(schema.tables, k.ref).pk = <<>>
        /\ ~Has(Named(schema.tables, k.ref).indices, LAMBDA ix : ix.unique)))

\* Keys over columns without a letter in their names are kept, with "".
KeyColumns(table) ==
    ToSet(table.pk) \cup UNION {ToSet(ix.columns) : ix \in ToSet(table.indices)}
      \cup UNION {ToSet(k.columns \o k.refColumns) : k \in ToSet(table.fks)}
KeyOverNameless(schema) == Has(schema.tables, LAMBDA t : \E c \in KeyColumns(t) : sanitize_name(c) = "")

\* SQLite lets a foreign key have other types than what it references.
MistypedKey(schema) ==
    Has(schema.tables, LAMBDA t : Has(t.fks, LAMBDA k : \E i \in DOMAIN k.columns :
        Named(t.columns, k.columns[i]).family # Named(Named(schema.tables, k.ref).columns, k.refColumns[i]).family))

\* What introspection writes is a schema that the validator accepts, also
\* when tables, columns and enum values have names that no schema can have,
\* types that are not supported, or keys to each other in both directions.
IntrospectedIsAccepted ==
    operation = "Introspect" =>
        \/ IsValid
        \/ \E schema \in {describe(family, database)} :
              \/ IntrospectedNamesClash(schema) \/ RelationTableWithoutIds(schema) \/ KeylessOneToOne(schema)
              \/ KeyOverNameless(schema) \/ MistypedKey(schema)

\* A default that the describer cannot read.
UnreadDefaults(schema) == Has(schema.tables, LAMBDA t : Has(t.columns, LAMBDA c : c.default.kind = "DBGENERATED"))

\* Introspecting a database that a migration made and migrating to the
\* result changes nothing in the database, but the names of indexes.
IntrospectionIsFaithful ==
    operation = "Introspect" /\ IsValid /\ origin = "file" =>
        \E schema \in {describe(family, database)} :
            \/ UnreadDefaults(schema)
            \/ \A s \in ToSet(diff_steps(family, schema, calculate(family, parsed.value))) : s.kind = "AlterIndex"
=============================================================================
