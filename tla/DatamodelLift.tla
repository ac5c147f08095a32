---------------------------- MODULE DatamodelLift ----------------------------
(***************************************************************************)
(* From a schema AST to a datamodel and back: the prechecks, the lifting   *)
(* of types and directives, and the lowering of a datamodel.               *)
(*                                                                         *)
(* A schema is the sequence of its models, enums and type aliases.  An     *)
(* argument holds an expression [is, text, values].  What lifting returns  *)
(* is [status, value]: errors are collected, so of them only the fact that *)
(* there was one is kept, and an unwrap of an absent value is a panic.     *)
(* Interpolated strings and env() are left out.                            *)
(***************************************************************************)
EXTENDS DatamodelConverter

CONSTANT
    Instants        \* the texts of points in time, with the form each is printed in

ScalarTypes == {"Int", "Float", "Boolean", "String", "DateTime", "Json"}

ValueGenerators == {"cuid", "uuid", "now", "autoincrement", "dbgenerated"}

Ok(x) == [status |-> "ok", value |-> x]
Error(x) == [status |-> "error", value |-> x]
Panic(x) == [status |-> "panic", value |-> x]

\* A panic ends everything, an error is remembered.
Worse(s, t) == IF "panic" \in {s, t} THEN "panic" ELSE IF "error" \in {s, t} THEN "error" ELSE "ok"

\* The values of a sequence of results, in order.
Collect(results) ==
    [status |-> FoldLeft(LAMBDA s, r : Worse(s, r.status), "ok", results),
     value |-> MapSeq(results, LAMBDA r : r.value)]

Tops(schema, kind) == FindAll(schema, LAMBDA top : top.kind = kind)

Declares(schema, kind, name) == HasNamed(Tops(schema, kind), name)

-----------------------------------------------------------------------------
(* Prechecks.                                                              *)

NoDuplicates(items) == \A i, j \in DOMAIN items : items[i].name = items[j].name => i = j

Children(top) ==
    CASE top.kind = "model" -> top.fields [] top.kind = "enum" -> top.values [] OTHER -> <<>>

\* Models, enums and type aliases share their names.
precheck(schema) ==
    /\ NoDuplicates(schema)
    /\ \A i \in DOMAIN schema : schema[i].name \notin ScalarTypes /\ NoDuplicates(Children(schema[i]))

-----------------------------------------------------------------------------
(* Arguments and values.                                                   *)

has_arg(d, name) == HasNamed(d.arguments, name)

arg(d, name) == Named(d.arguments, name).value

\* Given by its name or without one, but not both.
has_default_arg(d, name) == has_arg(d, name) # has_arg(d, "")

default_arg(d, name) == Find(d.arguments, LAMBDA a : a.name \in {name, ""}).value

check_for_duplicate_named_arguments(d) ==
    \A i, j \in DOMAIN d.arguments : i # j => d.arguments[i].name # d.arguments[j].name \/ d.arguments[i].name = ""

check_for_multiple_unnamed_arguments(d) == Len(FindAll(d.arguments, LAMBDA a : a.name = "")) <= 1

is_constant_literal(v) == v.is \in {"ConstantValue", "BooleanValue"}

as_array(v) == IF v.is = "Array" THEN v.values ELSE <<v>>

AreLiterals(values) == \A i \in DOMAIN values : is_constant_literal(values[i])

to_literal_vec(values) == MapSeq(values, LAMBDA v : v.text)

IsDecimal(text) == \E i \in 1..Len(text) : SubSeq(text, i, i) = "."

\* A boolean is also read from a string.
is_type(type, v) ==
    CASE type = "Int" -> v.is = "NumericValue" /\ ~IsDecimal(v.text)
      [] type = "Float" -> v.is = "NumericValue"
      [] type = "Boolean" -> v.is = "BooleanValue" \/ (v.is = "StringValue" /\ v.text \in {"true", "false"})
      [] type = "DateTime" -> v.is = "StringValue" /\ v.text \in DOMAIN Instants
      [] type \in {"String", "Json"} -> v.is = "StringValue"

as_type(type, v) == [kind |-> "value", value |-> IF type = "DateTime" THEN Instants[v.text] ELSE v.text]

Generator(v) == [kind |-> v.text, value |-> ""]

\* A known function is accepted whatever the type of the field.
is_default_value(type, v) == IF v.is = "Function" THEN v.text \in ValueGenerators ELSE is_type(type, v)

as_default_value(type, v) == IF v.is = "Function" THEN Generator(v) ELSE as_type(type, v)

-----------------------------------------------------------------------------
(* Directives of fields, models, enums and enum values.                    *)

id_directive(d, field) ==
    IF ~is_required(field) \/ is_relation(field) THEN Error(field) ELSE Ok([field EXCEPT !.isId = TRUE])

unique_directive(d, field) ==
    IF field.isId \/ is_relation(field) THEN Error(field) ELSE Ok([field EXCEPT !.isUnique = TRUE])

updated_at_directive(d, field) ==
    IF field.kind = "base" /\ field.type = "DateTime" /\ ~is_list(field)
      THEN Ok([field EXCEPT !.isUpdatedAt = TRUE]) ELSE Error(field)

map_directive(d, x) ==
    IF has_default_arg(d, "name") /\ default_arg(d, "name").is = "StringValue"
      THEN Ok([x EXCEPT !.db = default_arg(d, "name").text]) ELSE Error(x)

map_directive_for_field(d, field) == IF is_relation(field) THEN Error(field) ELSE map_directive(d, field)

\* The value of an enum is not looked up.
EnumDefault(v, field) ==
    IF is_constant_literal(v) THEN Ok([field EXCEPT !.default = [kind |-> "value", value |-> v.text]])
    ELSE IF v.is = "Function" /\ v.text = "dbgenerated" THEN Ok([field EXCEPT !.default = Generator(v)])
    ELSE Error(field)

default_directive(d, field) ==
    CASE is_list(field) \/ is_relation(field) \/ ~has_default_arg(d, "value") -> Error(field)
      [] OTHER ->
            LET v == default_arg(d, "value")
            IN  IF field.kind = "enum" THEN EnumDefault(v, field)
                ELSE IF is_default_value(field.type, v)
                THEN Ok([field EXCEPT !.default = as_default_value(field.type, v)]) ELSE Error(field)

\* Two names, one with and one without `name:`, are both ignored.
NameGiven(d, v) == has_default_arg(d, "name") => v.is = "StringValue" /\ v.text # ""

LiteralsGiven(d, name) == has_arg(d, name) => AreLiterals(as_array(arg(d, name)))

Literals(d, name) == IF has_arg(d, name) THEN to_literal_vec(as_array(arg(d, name))) ELSE <<>>

relation_directive(d, field) ==
    IF /\ is_relation(field)
       /\ NameGiven(d, default_arg(d, "name"))
       /\ LiteralsGiven(d, "references")
       /\ LiteralsGiven(d, "fields")
      THEN Ok([field EXCEPT !.rel.name = IF has_default_arg(d, "name") THEN default_arg(d, "name").text ELSE "",
                            !.rel.toFields = Literals(d, "references"), !.rel.fields = Literals(d, "fields")])
      ELSE Error(field)

embedded_directive(d, model) == Ok([model EXCEPT !.embedded = TRUE])

ReferToScalars(model, names) ==
    \A i \in DOMAIN names : has_field(model, names[i]) /\ ~is_relation(find_field(model, names[i]))

\* The fields of an id or of an index; a name that is no literal is unwrapped.
WithFields(d, model, values, Change(_)) ==
    IF ~AreLiterals(values) THEN Panic(model)
    ELSE IF ReferToScalars(model, to_literal_vec(values)) THEN Ok(Change(to_literal_vec(values))) ELSE Error(model)

model_id_directive(d, model) ==
    IF ~has_default_arg(d, "fields") THEN Error(model)
    ELSE WithFields(d, model, as_array(default_arg(d, "fields")), LAMBDA names : [model EXCEPT !.idFields = names])

validate_index(d, model, unique) ==
    IF (has_arg(d, "name") /\ arg(d, "name").is # "StringValue") \/ ~has_default_arg(d, "fields") THEN Error(model)
    ELSE WithFields(d, model, as_array(default_arg(d, "fields")), LAMBDA names :
             [model EXCEPT !.indices = Append(@, [name |-> IF has_arg(d, "name") THEN arg(d, "name").text ELSE "",
                                                  fields |-> names, unique |-> unique])])

DirectiveNames(level) ==
    CASE level = "field" -> {"default", "id", "map", "relation", "unique", "updatedAt"}
      [] level = "model" -> {"embedded", "id", "index", "map", "unique"}
      [] OTHER -> {"map"}

ApplyDirective(level, d, x) ==
    CASE level = "field" /\ d.name = "default" -> default_directive(d, x)
      [] level = "field" /\ d.name = "id" -> id_directive(d, x)
      [] level = "field" /\ d.name = "map" -> map_directive_for_field(d, x)
      [] level = "field" /\ d.name = "relation" -> relation_directive(d, x)
      [] level = "field" /\ d.name = "unique" -> unique_directive(d, x)
      [] level = "field" /\ d.name = "updatedAt" -> updated_at_directive(d, x)
      [] level = "model" /\ d.name = "embedded" -> embedded_directive(d, x)
      [] level = "model" /\ d.name = "id" -> model_id_directive(d, x)
      [] level = "model" /\ d.name \in {"index", "unique"} -> validate_index(d, x, d.name = "unique")
      [] level # "field" /\ d.name = "map" -> map_directive(d, x)

\* The arguments a directive looks at.
UsedArguments(level, name) ==
    CASE name = "map" -> {"", "name"}
      [] name = "default" -> {"", "value"}
      [] name = "relation" -> {"", "name", "references", "fields"}
      [] level = "model" /\ name = "id" -> {"", "fields"}
      [] level = "model" /\ name \in {"index", "unique"} -> {"", "name", "fields"}
      [] OTHER -> {}

check_for_unused_arguments(level, d) == {a.name : a \in ToSet(d.arguments)} \subseteq UsedArguments(level, d.name)

\* @relation comes before @map, @default before @id, the others by name.
DirectiveOrder == <<"default", "embedded", "id", "index", "relation", "map", "unique", "updatedAt">>

is_duplicate_definition_allowed(level, name) == level = "model" /\ name \in {"index", "unique"}

FormIsWrong(level, directives, d) ==
    \/ ~is_duplicate_definition_allowed(level, d.name) /\ Len(FindAll(directives, LAMBDA x : x.name = d.name)) > 1
    \/ ~check_for_duplicate_named_arguments(d)
    \/ ~check_for_multiple_unnamed_arguments(d)

ApplyTo(level, directives, d, status, r) ==
    [status |-> Worse(status, IF r.status = "ok" /\ ( \/ FormIsWrong(level, directives, d)
                                                     \/ ~check_for_unused_arguments(level, d))
                                THEN "error" ELSE r.status),
     value |-> r.value]

validate_and_apply(level, directives, x) ==
    FoldLeft(LAMBDA acc, d : ApplyTo(level, directives, d, acc.status, ApplyDirective(level, d, acc.value)),
             IF \A i \in DOMAIN directives : directives[i].name \in DirectiveNames(level) THEN Ok(x) ELSE Error(x),
             FlatMap(DirectiveOrder, LAMBDA name :
                 FindAll(directives, LAMBDA d : d.name = name /\ name \in DirectiveNames(level))))

-----------------------------------------------------------------------------
(* Lifting.                                                                *)

LiftedType(kind, type, alias) == [ok |-> TRUE, kind |-> kind, type |-> type, alias |-> alias, attributes |-> <<>>]

NoType == [ok |-> FALSE, kind |-> "", type |-> "", alias |-> "", attributes |-> <<>>]

\* An alias stands for a scalar or an enum; its directives follow those of
\* the alias it is defined by.
Aliased(lifted, alias) ==
    IF ~lifted.ok \/ lifted.kind = "relation" THEN NoType
    ELSE [lifted EXCEPT !.attributes = @ \o alias.directives]

RECURSIVE lift_field_type(_, _, _, _)
lift_field_type(schema, type_name, custom_type_name, checked_types) ==
    CASE type_name \in ScalarTypes -> LiftedType("base", type_name, custom_type_name)
      [] type_name \notin ScalarTypes /\ Declares(schema, "model", type_name) ->
            LiftedType("relation", type_name, "")
      [] type_name \notin ScalarTypes /\ ~Declares(schema, "model", type_name)
            /\ Declares(schema, "enum", type_name) -> LiftedType("enum", type_name, "")
      [] OTHER ->
            IF type_name \in checked_types \/ ~Declares(schema, "type", type_name) THEN NoType
            ELSE LET alias == Named(Tops(schema, "type"), type_name)
                 IN  Aliased(lift_field_type(schema, alias.type, type_name, checked_types \cup {type_name}), alias)

FieldOfType(ast_field, lifted) ==
    [Field_new(ast_field.name, lifted.kind, lifted.type) EXCEPT
        !.arity = ast_field.arity, !.alias = lifted.alias,
        !.rel = IF lifted.kind = "relation" THEN [NoRelation EXCEPT !.to = lifted.type] ELSE NoRelation]

LiftWithType(ast_field, lifted) ==
    IF ~lifted.ok THEN Error(Field_new(ast_field.name, "", ""))
    ELSE validate_and_apply("field", lifted.attributes \o ast_field.directives, FieldOfType(ast_field, lifted))

\* (A parsed field has no default_value, and none is written: a default is a directive.)
lift_field(schema, ast_field) == LiftWithType(ast_field, lift_field_type(schema, ast_field.type, "", {}))

\* What the directives make of the model, and the errors of its fields.
LiftWithFields(ast_model, fields, lifted) ==
    [status |-> Worse(fields.status, lifted.status), value |-> lifted.value]

\* A field that cannot be lifted is missing when the directives are applied.
lift_model(schema, ast_model) ==
    LET fields == MapSeq(ast_model.fields, LAMBDA f : lift_field(schema, f))
        model == Model_new(ast_model.name, Collect(FindAll(fields, LAMBDA r : r.status = "ok")).value)
    IN  LiftWithFields(ast_model, Collect(fields), validate_and_apply("model", ast_model.directives, model))

lift_enum_value(v) == validate_and_apply("value", v.directives, [name |-> v.name, db |-> "", commentedOut |-> FALSE])

lift_enum(ast_enum, supports_enums) ==
    LET values == Collect(MapSeq(ast_enum.values, lift_enum_value))
        enum == [name |-> ast_enum.name, db |-> "", values |-> values.value]
    IN  IF ~supports_enums THEN Error(enum)
        ELSE LiftWithFields(ast_enum, values, validate_and_apply("enum", ast_enum.directives, enum))

LiftedDatamodel(models, enums) ==
    [status |-> Worse(models.status, enums.status), value |-> [models |-> models.value, enums |-> enums.value]]

\* Type aliases are inlined, sources and generators left to others.
lift(schema, supports_enums) ==
    LiftedDatamodel(Collect(MapSeq(Tops(schema, "model"), LAMBDA m : lift_model(schema, m))),
                    Collect(MapSeq(Tops(schema, "enum"), LAMBDA e : lift_enum(e, supports_enums))))

-----------------------------------------------------------------------------
(* Lowering.                                                               *)

Expression(is, text) == [is |-> is, text |-> text, values |-> <<>>]
Constant(text) == Expression("ConstantValue", text)
ArrayOf(names) == [is |-> "Array", text |-> "", values |-> MapSeq(names, Constant)]
Argument(name, value) == [name |-> name, value |-> value]
Directive(name, arguments) == [name |-> name, arguments |-> arguments]

lower_default_value(field) ==
    CASE field.default.kind # "value" -> Expression("Function", field.default.kind)
      [] OTHER -> Expression(CASE field.kind = "enum" -> "ConstantValue"
                               [] field.kind # "enum" /\ field.type \in {"Int", "Float"} -> "NumericValue"
                               [] field.kind # "enum" /\ field.type = "Boolean" -> "BooleanValue"
                               [] OTHER -> "StringValue", field.default.value)

If(condition, directives) == IF condition THEN directives ELSE <<>>

default_relation_name(a, b) == IF NameLt(a, b) THEN a \o "To" \o b ELSE b \o "To" \o a

serialize_map(x) == If(x.db # "", <<Directive("map", <<Argument("", Expression("StringValue", x.db))>>)>>)

RelationArguments(model, rel) ==
    If(rel.name # "" /\ (rel.name # default_relation_name(rel.to, model.name) \/ model.name = rel.to),
       <<Argument("", Expression("StringValue", rel.name))>>)
    \o If(rel.fields # <<>>, <<Argument("fields", ArrayOf(rel.fields))>>)
    \o If(rel.toFields # <<>>, <<Argument("references", ArrayOf(rel.toFields))>>)

serialize_relation(arguments) == If(arguments # <<>>, <<Directive("relation", arguments)>>)

\* In the order of the directives' names.
serialize_field(model, field) ==
    If(field.default.kind # "none", <<Directive("default", <<Argument("", lower_default_value(field))>>)>>)
    \o If(field.isId, <<Directive("id", <<>>)>>)
    \o serialize_map(field)
    \o If(is_relation(field), serialize_relation(RelationArguments(model, field.rel)))
    \o If(field.isUnique, <<Directive("unique", <<>>)>>)
    \o If(field.isUpdatedAt, <<Directive("updatedAt", <<>>)>>)

\* Mutant: the name of an index is not written.
serialize_index_definitions_unnamed(model, name) ==
    MapSeq(FindAll(model.indices, LAMBDA ix : ix.unique = (name = "unique")), LAMBDA ix :
        Directive(name, <<Argument("", ArrayOf(ix.fields))>>))

serialize_index_definitions(model, name) ==
    MapSeq(FindAll(model.indices, LAMBDA ix : ix.unique = (name = "unique")), LAMBDA ix :
        Directive(name, <<Argument("", ArrayOf(ix.fields))>>
                        \o If(ix.name # "", <<Argument("name", Expression("StringValue", ix.name))>>)))

serialize_model(model) ==
    If(model.embedded, <<Directive("embedded", <<>>)>>)
    \o If(model.idFields # <<>>, <<Directive("id", <<Argument("", ArrayOf(model.idFields))>>)>>)
    \o serialize_index_definitions(model, "index")
    \o serialize_map(model)
    \o serialize_index_definitions(model, "unique")

\* A field of an alias gets the name of the alias.
lower_field(model, field) ==
    [name |-> field.name, type |-> IF field.alias # "" THEN field.alias ELSE field.type, arity |-> field.arity,
     directives |-> serialize_field(model, field)]

\* What is commented out is written as a comment, which the parser drops.
NotCommentedOut(items) == FindAll(items, LAMBDA x : ~x.commentedOut)

lower_model(model) ==
    [kind |-> "model", name |-> model.name,
     fields |-> MapSeq(NotCommentedOut(model.fields), LAMBDA f : lower_field(model, f)),
     directives |-> serialize_model(model)]

lower_enum(enum) ==
    [kind |-> "enum", name |-> enum.name,
     values |-> MapSeq(NotCommentedOut(enum.values), LAMBDA v : [name |-> v.name, directives |-> serialize_map(v)]),
     directives |-> serialize_map(enum)]

\* Type aliases are gone.
lower(dm) == MapSeq(NotCommentedOut(dm.models), lower_model) \o MapSeq(dm.enums, lower_enum)
=============================================================================
