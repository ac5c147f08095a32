-------------------------- MODULE DatamodelValidator --------------------------
(***************************************************************************)
(* The validation pipeline of a schema: prechecks, lifting, validation of  *)
(* the models, standardising (relation names, back relation fields and     *)
(* what relations reference are filled in) and the validation of what came *)
(* out of it; and the reformatter, which writes the added fields back into *)
(* the schema.                                                             *)
(*                                                                         *)
(* A family is the provider of the schema's data source, or NoSource.      *)
(***************************************************************************)
EXTENDS DatamodelLift, SqlSchemaCalculator

NoSource == "none"

supports_enums(family) == family \in {NoSource, Postgres, Mysql}
supports_scalar_lists(family) == family = Postgres
supports_json(family) == family \in {Postgres, Mysql}
supports_relations_over_non_unique_criteria(family) == family = Mysql

RelationFields(model) == FindAll(model.fields, is_relation)

has_related_field(dm, model, field) ==
    related_fields(find_model(dm, field.rel.to), model.name, field.rel.name, field.name) # <<>>

related(dm, model, field) ==
    related_field(find_model(dm, field.rel.to), model.name, field.rel.name, field.name)

-----------------------------------------------------------------------------
(* Validation of the lifted models.                                        *)

Digits == {"0", "1", "2", "3", "4", "5", "6", "7", "8", "9"}

\* An identifier as the grammar reads it: not empty, letters, digits, _ and -.
is_valid_identifier(name) ==
    SubSeq(name, 1, 1) \notin Digits /\ \A i \in 1..Len(name) : SubSeq(name, i, i) # "-"

validate_directives(x) == \A i \in DOMAIN x.directives : is_valid_identifier(x.directives[i].name)

validate_names(schema) ==
    \A i \in DOMAIN schema :
        schema[i].kind \in {"model", "enum"} =>
            \A x \in {schema[i]} \cup ToSet(Children(schema[i])) :
                is_valid_identifier(x.name) /\ validate_directives(x)

\* One id at most, and some unique criterion.
validate_model_has_id(model) ==
    /\ Len(singular_id_fields(model)) <= 1
    /\ singular_id_fields(model) = <<>> \/ model.idFields = <<>>
    /\ \/ singular_id_fields(model) # <<>> \/ model.idFields # <<>>
       \/ Has(model.fields, LAMBDA f : f.isUnique)
       \/ UniqueIndices(model) # <<>>

RESERVED_MODEL_NAMES ==
    {"Query", "Mutation", "Subscription", "dmmf", "PromiseType", "PromiseReturnType", "Enumerable",
     "MergeTruthyValues", "CleanupNever", "Subset", "AtLeastOne", "atMostOne", "OnlyOne", "StringFilter", "IDFilter",
     "FloatFilter", "IntFilter", "BooleanFilter", "DateTimeFilter", "NullableStringFilter", "NullableIDFilter",
     "NullableFloatFilter", "NullableIntFilter", "NullableBooleanFilter", "NullableDateTimeFilter",
     "PrismaClientFetcher", "PrismaClient", "Engine", "BatchPayload", "Datasources", "ErrorFormat", "Hooks",
     "LogLevel", "LogDefinition", "GetLogType", "GetEvents", "QueryEvent", "LogEvent", "ModelDelegate",
     "QueryDelegate", "missingArg", "ArgError", "InvalidFieldError", "InvalidFieldNameError",
     "InvalidFieldTypeError", "EmptySelectError", "NoTrueSelectError", "IncludeAndSelectError",
     "EmptyIncludeError", "InvalidArgError", "InvalidArgNameError", "MissingArgError", "InvalidArgTypeError",
     "AtLeastOneError", "AtMostOneError", "PrismaClientRequestError", "PrismaClientOptions",
     "PrismaClientKnownRequestError", "PrismaClientUnknownRequestError", "PrismaClientInitializationError",
     "PrismaClientRustPanicError", "PrismaVersion", "await", "async", "break", "case", "catch", "class", "const",
     "continue", "debugger", "default", "delete", "do", "else", "enum", "export", "extends", "false", "finally",
     "for", "function", "if", "implements", "import", "in", "instanceof", "interface", "let", "new", "null",
     "package", "private", "protected", "public", "return", "super", "switch", "this", "throw", "true", "try",
     "typeof", "var", "void", "while", "with", "yield"}

validate_model_name(model) == model.name \notin RESERVED_MODEL_NAMES

\* Only the names that were given are compared.
validate_relations_not_ambiguous(model) ==
    LET fields == ToSet(RelationFields(model))
        IsSelf(f) == f.rel.to = model.name
        SameName(f, g) == f.rel.name = g.rel.name
    IN  \A a, b \in fields : a # b =>
            /\ ~IsSelf(a) /\ ~IsSelf(b) => a.rel.to # b.rel.to \/ ~SameName(a, b)
            /\ IsSelf(a) /\ IsSelf(b) =>
                 /\ \A c \in fields \ {a, b} : ~(IsSelf(c) /\ SameName(a, b) /\ SameName(a, c))
                 /\ a.rel.name # "" \/ b.rel.name # ""

\* The first relation field decides; back relations are not there yet.
validate_embedded_types_have_no_back_relation(dm, model) ==
    LET Wrong(f) == ~has_related_field(dm, model, f) \/ f.rel.toFields = <<>>
        wrong == FindAll(RelationFields(model), Wrong)
    IN  IF ~model.embedded \/ wrong = <<>> THEN "ok"
        ELSE IF has_related_field(dm, model, wrong[1]) THEN "error" ELSE "panic"

validate_field_arities(family, model) ==
    \A i \in DOMAIN model.fields :
        is_list(model.fields[i]) /\ ~is_relation(model.fields[i]) => supports_scalar_lists(family)

validate_field_types(family, model) ==
    \A i \in DOMAIN model.fields :
        model.fields[i].kind = "base" /\ model.fields[i].type = "Json" => supports_json(family)

\* The scalar fields under a relation, and its arity.
ValidBaseFields(model, field) ==
    LET names == field.rel.fields
        BaseIs(i, arity) == has_field(model, names[i]) /\ find_field(model, names[i]).arity = arity
    IN  /\ ReferToScalars(model, names)
        /\ (\E i \in DOMAIN names : BaseIs(i, "Required")) => is_required(field)
        /\ (names # <<>> /\ \A i \in DOMAIN names : BaseIs(i, "Optional")) => ~is_required(field)

validate_base_fields_for_relation(model) ==
    \A i \in DOMAIN model.fields : is_relation(model.fields[i]) => ValidBaseFields(model, model.fields[i])

CountOf(x, s) == Cardinality({i \in DOMAIN s : s[i] = x})

SameNames(s, t) == Len(s) = Len(t) /\ \A i \in DOMAIN s : CountOf(s[i], s) = CountOf(s[i], t)

references_unique_criteria(related_model, names) ==
    Has(loose_unique_criterias(related_model), LAMBDA criterion : SameNames(Names(criterion), names))

\* Mutant: any fields may be referenced.
ValidReferencesToAny(family, dm, model, field, related_model) ==
    LET names == field.rel.toFields
    IN  /\ ReferToScalars(related_model, names)
        /\ names # <<>> /\ field.rel.fields # <<>> => Len(names) = Len(field.rel.fields)
        /\ \A i \in DOMAIN names \cap DOMAIN field.rel.fields :
             has_field(model, field.rel.fields[i]) =>
                 is_compatible_with(find_field(model, field.rel.fields[i]), find_field(related_model, names[i]))

\* Of a field and the model it points to.
ValidReferences(family, dm, model, field, related_model) ==
    LET names == field.rel.toFields
        is_many_to_many == /\ is_list(field)
                           /\ has_related_field(dm, model, field)
                           /\ is_list(related(dm, model, field))
    IN  /\ ReferToScalars(related_model, names)
        /\ names # <<>> =>
             /\ \/ references_unique_criteria(related_model, names)
                \/ supports_relations_over_non_unique_criteria(family)
             /\ is_many_to_many => Len(names) = 1 /\ find_field(related_model, names[1]).isId
        /\ names # <<>> /\ field.rel.fields # <<>> => Len(names) = Len(field.rel.fields)
        /\ \A i \in DOMAIN names \cap DOMAIN field.rel.fields :
             has_field(model, field.rel.fields[i]) =>
                 is_compatible_with(find_field(model, field.rel.fields[i]), find_field(related_model, names[i]))

validate_referenced_fields_for_relation(family, dm, model) ==
    \A i \in DOMAIN model.fields :
        is_relation(model.fields[i]) =>
            ValidReferences(family, dm, model, model.fields[i], find_model(dm, model.fields[i].rel.to))

\* Each field is looked up in the first model of that name.
FieldsAreDeclared(schema, model) ==
    \A i \in DOMAIN model.fields : HasNamed(Named(Tops(schema, "model"), model.name).fields, model.fields[i].name)

ValidModel(family, dm, model) ==
    /\ validate_model_has_id(model)
    /\ validate_model_name(model)
    /\ validate_relations_not_ambiguous(model)
    /\ validate_field_arities(family, model)
    /\ validate_field_types(family, model)
    /\ validate_base_fields_for_relation(model)
    /\ validate_referenced_fields_for_relation(family, dm, model)

ValidateModel(schema, family, dm, model) ==
    IF FieldsAreDeclared(schema, model)
      THEN Worse(validate_embedded_types_have_no_back_relation(dm, model),
                 IF ValidModel(family, dm, model) THEN "ok" ELSE "error")
      ELSE "panic"

validate(schema, family, dm) ==
    FoldLeft(LAMBDA s, model : Worse(s, ValidateModel(schema, family, dm, model)),
             IF validate_names(schema) THEN "ok" ELSE "error", dm.models)

-----------------------------------------------------------------------------
(* Standardising.                                                          *)

Upper == "ABCDEFGHIJKLMNOPQRSTUVWXYZ"
Lower == "abcdefghijklmnopqrstuvwxyz"

\* The first letter exchanged, the rest kept.
ChangeFirst(name, from, to) ==
    LET at == {i \in 1..26 : SubSeq(from, i, i) = SubSeq(name, 1, 1)}
    IN  IF at = {} THEN name ELSE SubSeq(to, CHOOSE i \in at : TRUE, CHOOSE i \in at : TRUE) \o Tail(name)

camel_case(name) == ChangeFirst(name, Upper, Lower)
pascal_case(name) == ChangeFirst(name, Lower, Upper)

name_unnamed_relations(dm) ==
    [dm EXCEPT !.models = MapSeq(@, LAMBDA model :
        [model EXCEPT !.fields = MapSeq(@, LAMBDA f :
            IF is_relation(f) /\ f.rel.name = ""
              THEN [f EXCEPT !.rel.name = default_relation_name(model.name, f.rel.to)] ELSE f)])]

\* A model without any criterion did not pass the validation.
unique_criteria(model) == loose_unique_criterias(model)[1]

underlying_fields_for_unique_criteria(criterion, model_name) ==
    MapSeq(criterion, LAMBDA f :
        [Field_new(camel_case(model_name) \o pascal_case(f.name), f.kind, f.type) EXCEPT
            !.arity = "Optional", !.alias = f.alias])

Clashes(model, field) == has_field(model, field.name) /\ ~is_compatible_with(find_field(model, field.name), field)

MissingField(model, field, underlying, conflict) ==
    [model |-> model, field |-> field, underlying |-> underlying, conflict |-> conflict]

\* The other side of a single field: a list.
BackOfSingular(model, field) ==
    MissingField(field.rel.to,
                 [Field_new_generated(model.name, [NoRelation EXCEPT !.to = model.name, !.name = field.rel.name])
                     EXCEPT !.arity = "List"],
                 <<>>, FALSE)

BackOfListWith(model, field, related_model, criterion, underlying) ==
    MissingField(field.rel.to,
                 Field_new_generated(model.name, [to |-> model.name, name |-> field.rel.name,
                                                  fields |-> Names(underlying), toFields |-> Names(criterion)]),
                 FindAll(underlying, LAMBDA f : ~has_field(related_model, f.name)),
                 Has(underlying, LAMBDA f : Clashes(related_model, f)))

Renamed(related_model, field, f) ==
    IF Clashes(related_model, f) THEN [f EXCEPT !.name = @ \o "_" \o field.rel.name] ELSE f

\* The other side of a list: an optional field over new scalar fields,
\* renamed when a field of another type has their name.
BackOfList(model, field, related_model, criterion) ==
    BackOfListWith(model, field, related_model, criterion,
                   MapSeq(underlying_fields_for_unique_criteria(criterion, model.name), LAMBDA f :
                       Renamed(related_model, field, f)))

find_missing_back_relation_fields(dm, model) ==
    MapSeq(FindAll(RelationFields(model), LAMBDA f : ~has_related_field(dm, model, f)), LAMBDA f :
        IF is_singular(f) THEN BackOfSingular(model, f)
        ELSE BackOfList(model, f, find_model(dm, f.rel.to), unique_criteria(model)))

AddMissing(model, missing) ==
    FoldLeft(LAMBDA m, f : IF has_field(m, f.name) THEN m ELSE add_field(m, f),
             add_field(model, missing.field), missing.underlying)

\* A field of that name may have come with an earlier one.
AddBackRelation(r, missing) ==
    IF has_field(find_model(r.value, missing.model), missing.field.name) THEN Error(r.value)
    ELSE [r EXCEPT !.value.models = MapSeq(@, LAMBDA m :
              IF m.name = missing.model THEN AddMissing(m, missing) ELSE m)]

AddAll(dm, missing) ==
    IF Has(missing, LAMBDA m : m.conflict) THEN Error(dm) ELSE FoldLeft(AddBackRelation, Ok(dm), missing)

\* All of them are found before the first is added.
add_missing_back_relations(dm) ==
    AddAll(dm, FlatMap(dm.models, LAMBDA model : find_missing_back_relation_fields(dm, model)))

\* The side of a relation that says what it references.
embed_here(model, field, other) ==
    CASE is_list(other) -> TRUE
      [] is_list(field) /\ ~is_list(other) -> FALSE
      [] OTHER -> IF model.name = field.rel.to THEN NameLt(field.name, other.name)
                  ELSE NameLt(model.name, field.rel.to)

ReferencesMissing(model, field, other) ==
    embed_here(model, field, other) /\ field.rel.toFields = <<>> /\ other.rel.toFields = <<>>

FieldsMissing(model, field, other) ==
    /\ embed_here(model, field, other)
    /\ ~(is_list(field) /\ is_list(other))
    /\ field.rel.fields = <<>> /\ other.rel.fields = <<>>
    /\ field.generated

SetRelationOf(dm, model, i, other) ==
    LET field == model.fields[i]
        underlying == underlying_fields_for_unique_criteria(unique_criteria(find_model(dm, model.name)), model.name)
        referencing == IF ReferencesMissing(model, field, other)
                         THEN [field EXCEPT !.rel.toFields =
                                   Names(strict_unique_criterias(find_model(dm, field.rel.to))[1])]
                         ELSE field
    IN  IF FieldsMissing(model, field, other)
          THEN [model EXCEPT !.fields = [@ EXCEPT ![i] = [referencing EXCEPT !.rel.fields = Names(underlying)]]
                                        \o underlying]
          ELSE [model EXCEPT !.fields[i] = referencing]

\* Mutant: the datamodel is changed in place, and read as changed.
set_relation_in_place(dm) ==
    FoldLeft(LAMBDA acc, k :
                 [acc EXCEPT !.models[k] =
                     FoldLeft(LAMBDA m, i : IF is_relation(m.fields[i])
                                              THEN SetRelationOf(acc, m, i, related(acc, m, m.fields[i])) ELSE m,
                              acc.models[k], [i \in DOMAIN acc.models[k].fields |-> i])],
             dm, [k \in DOMAIN dm.models |-> k])

\* Other models are read as they were before.
set_relation_to_field_to_id_if_missing(dm) ==
    [dm EXCEPT !.models = MapSeq(@, LAMBDA model :
        FoldLeft(LAMBDA m, i : IF is_relation(m.fields[i]) THEN SetRelationOf(dm, m, i, related(dm, m, m.fields[i]))
                               ELSE m,
                 model, [i \in DOMAIN model.fields |-> i]))]

\* Mutant: only an id is something to reference.
NoIdToReference(dm) ==
    Has(dm.models, LAMBDA model : Has(RelationFields(model), LAMBDA f :
        /\ ReferencesMissing(model, f, related(dm, model, f))
        /\ singular_id_fields(find_model(dm, f.rel.to)) = <<>>))

\* An optional unique field is a criterion for the validation, and none here.
NothingToReference(dm) ==
    Has(dm.models, LAMBDA model : Has(RelationFields(model), LAMBDA f :
        /\ ReferencesMissing(model, f, related(dm, model, f))
        /\ strict_unique_criterias(find_model(dm, f.rel.to)) = <<>>))

Referencing(r) ==
    IF r.status # "ok" THEN r
    ELSE IF NothingToReference(r.value) THEN Panic(r.value)
    ELSE Ok(set_relation_to_field_to_id_if_missing(r.value))

standardise(dm) == Referencing(add_missing_back_relations(name_unnamed_relations(dm)))

-----------------------------------------------------------------------------
(* Validation of the result.                                               *)

Neither(field) == field.rel.fields = <<>> /\ field.rel.toFields = <<>>

\* Exactly one side of a one-to-one relation has both arguments.
ValidOneToOne(field, other) ==
    \/ Neither(field) /\ other.rel.fields # <<>> /\ other.rel.toFields # <<>>
    \/ Neither(other) /\ field.rel.fields # <<>> /\ field.rel.toFields # <<>>

ValidArguments(dm, model, field, other) ==
    /\ is_singular(field) /\ is_list(other) => field.rel.fields # <<>> /\ field.rel.toFields # <<>>
    /\ is_list(field) /\ is_singular(other) => Neither(field)
    /\ ~(model.name = field.rel.to /\ is_required(field) /\ is_required(other))
    /\ is_singular(field) /\ is_singular(other) => ValidOneToOne(field, other)
    /\ is_list(field) /\ is_list(other) => has_single_id_field(find_model(dm, field.rel.to))

validate_relation_arguments_bla(dm, model) ==
    \A i \in DOMAIN model.fields :
        is_relation(model.fields[i]) =>
            ValidArguments(dm, model, model.fields[i], related(dm, model, model.fields[i]))

post_standardisation_validate(dm) ==
    \A i \in DOMAIN dm.models : validate_relation_arguments_bla(dm, dm.models[i])

-----------------------------------------------------------------------------
(* The pipeline and the reformatter.                                       *)

Standardised(r) == IF r.status = "ok" /\ ~post_standardisation_validate(r.value) THEN Error(r.value) ELSE r

Validated(schema, dm, status) ==
    CASE status = "panic" -> Panic(dm)
      [] status = "error" \/ (status = "ok" /\ ~precheck(schema)) -> Error(dm)
      [] OTHER -> Standardised(standardise(dm))

Lifted(schema, family, r) == IF r.status = "ok" THEN Validated(schema, r.value, validate(schema, family, r.value)) ELSE r

parse_datamodel(schema, family) == Lifted(schema, family, lift(schema, supports_enums(family)))

\* Mutant: only relation fields are written back.
find_missing_relation_fields(schema, dm) ==
    FlatMap(dm.models, LAMBDA model :
        MapSeq(FindAll(RelationFields(model),
                       LAMBDA f : ~HasNamed(Named(Tops(schema, "model"), model.name).fields, f.name)),
               LAMBDA f : [model |-> model.name, field |-> lower_field(model, f)]))

\* The fields of the datamodel that the schema does not have.
find_all_missing_fields(schema, dm) ==
    FlatMap(dm.models, LAMBDA model :
        MapSeq(FindAll(model.fields, LAMBDA f : ~HasNamed(Named(Tops(schema, "model"), model.name).fields, f.name)),
               LAMBDA f : [model |-> model.name, field |-> lower_field(model, f)]))

AddFields(top, missing) ==
    IF top.kind # "model" THEN top
    ELSE [top EXCEPT !.fields = @ \o MapSeq(FindAll(missing, LAMBDA m : m.model = top.name), LAMBDA m : m.field)]

\* A schema that is not valid gets nothing added. (Where the parser panics, so does
\* the formatter: see Format.)
reformat(schema, parsed) ==
    LET missing == IF parsed.status = "ok" THEN find_all_missing_fields(schema, parsed.value) ELSE <<>>
    IN  MapSeq(schema, LAMBDA top : AddFields(top, missing))
=============================================================================
