--------------------------- MODULE DatamodelDiffer ---------------------------
(***************************************************************************)
(* The datamodel differ of the migration engine: the steps that lead from  *)
(* one schema AST to another.                                              *)
(*                                                                         *)
(* Documentation, spans and generators are not diffed and are left out.  An*)
(* option is a set of at most one value.                                   *)
(***************************************************************************)
EXTENDS DatamodelText

None == {}
Some(x) == {x}

Has(items, name) == \E i \in DOMAIN items : items[i].name = name

find(items, name) == items[SelectInSeq(items, LAMBDA x : x.name = name)]

\* steps::Argument, from and to an ast::Argument: expressions travel as text.
ToArguments(arguments) == [i \in DOMAIN arguments |->
    [name |-> arguments[i].name, value |-> render_value(arguments[i].value)]]

FromArguments(arguments) == [i \in DOMAIN arguments |->
    [name |-> arguments[i].name, value |-> ParseExpression(arguments[i].value).value]]

-----------------------------------------------------------------------------
(* The differs: what is new, what is gone, what is in both.                *)

ByName(previous, next) ==
    [created |-> SelectSeq(next, LAMBDA x : ~Has(previous, x.name)),
     deleted |-> SelectSeq(previous, LAMBDA x : ~Has(next, x.name)),
     pairs |-> LET kept == SelectSeq(previous, LAMBDA x : Has(next, x.name))
               IN  [i \in DOMAIN kept |-> [previous |-> kept[i], next |-> find(next, kept[i].name)]]]

TopDiffer(previous, next) ==
    LET Of(kind) == ByName(Tops(previous, kind), Tops(next, kind))
    IN  [types |-> Of("type"), enums |-> Of("enum"), sources |-> Of("source"), models |-> Of("model")]

SourceArgumentsDiffer(d) == ByName(d.previous.properties, d.next.properties)

DirectiveDiffer(d) == ByName(d.previous.arguments, d.next.arguments)

FieldDiffer(d) == ByName(d.previous.directives, d.next.directives)

EnumValueDiffer(d) == ByName(d.previous.directives, d.next.directives)

EnumDiffer(d) ==
    [values |-> ByName(d.previous.values, d.next.values),
     directives |-> ByName(d.previous.directives, d.next.directives)]

directive_is_repeated(directive) == directive.name \in {"unique", "index"}

Regular(directives) == SelectSeq(directives, LAMBDA x : ~directive_is_repeated(x))

Repeated(directives) == SelectSeq(directives, directive_is_repeated)

directives_are_identical(previous, next) ==
    /\ previous.name = next.name
    /\ Len(previous.arguments) = Len(next.arguments)
    /\ ToSet(ToArguments(previous.arguments)) \subseteq ToSet(ToArguments(next.arguments))

ModelDiffer(d) ==
    LET previous == Repeated(d.previous.directives)
        next == Repeated(d.next.directives)
    IN  [fields |-> ByName(d.previous.fields, d.next.fields),
         regular |-> ByName(Regular(d.previous.directives), Regular(d.next.directives)),
         created |-> SelectSeq(next, LAMBDA n : \A p \in ToSet(previous) : ~directives_are_identical(p, n)),
         deleted |-> SelectSeq(previous, LAMBDA p : \A n \in ToSet(next) : ~directives_are_identical(p, n))]

-----------------------------------------------------------------------------
(* Steps on arguments and directives.                                      *)

push_created_argument(location, argument) ==
    <<[tag |-> "CreateArgument", location |-> location, argument |-> argument.name,
       value |-> render_value(argument.value)]>>

push_deleted_argument(location, argument) ==
    <<[tag |-> "DeleteArgument", location |-> location, argument |-> argument.name]>>

push_updated_argument(location, d) ==
    IF render_value(d.previous.value) = render_value(d.next.value) THEN <<>>
    ELSE <<[tag |-> "UpdateArgument", location |-> location, argument |-> d.next.name,
            new_value |-> render_value(d.next.value)]>>

push_created_directive(path, directive) ==
    LET location == [path |-> path, directive |-> directive.name]
    IN  <<[tag |-> "CreateDirective", location |-> location]>>
        \o ForEach(directive.arguments, LAMBDA a : push_created_argument(location, a))

push_created_directives(path, directives) ==
    ForEach(directives, LAMBDA x : push_created_directive(path, x))

push_deleted_directives(path, directives) ==
    ForEach(directives, LAMBDA x : <<[tag |-> "DeleteDirective",
                                      location |-> [path |-> path, directive |-> x.name]]>>)

\* Directives that may be repeated are told apart by their arguments.
set_arguments(path, directive) == [path EXCEPT !.arguments = Some(ToArguments(directive.arguments))]

push_created_directive_with_arguments(path, directive) ==
    <<[tag |-> "CreateDirective",
       location |-> [path |-> set_arguments(path, directive), directive |-> directive.name]]>>

push_deleted_directive_with_arguments(path, directive) ==
    <<[tag |-> "DeleteDirective",
       location |-> [path |-> set_arguments(path, directive), directive |-> directive.name]]>>

push_updated_directives(path, pairs) ==
    ForEach(pairs, LAMBDA d :
        LET location == [path |-> path, directive |-> d.previous.name]
            diff == DirectiveDiffer(d)
        IN  ForEach(diff.created, LAMBDA a : push_created_argument(location, a))
            \o ForEach(diff.pairs, LAMBDA a : push_updated_argument(location, a))
            \o ForEach(diff.deleted, LAMBDA a : push_deleted_argument(location, a)))

push_directives(path, diff) ==
    push_created_directives(path, diff.created)
    \o push_updated_directives(path, diff.pairs)
    \o push_deleted_directives(path, diff.deleted)

diff_value(current, updated) == IF current = updated THEN None ELSE Some(updated)

-----------------------------------------------------------------------------
(* Type aliases.                                                           *)

AliasPath(name) == [at |-> "TypeAlias", type_alias |-> name]

push_created_type_aliases(aliases) ==
    ForEach(aliases, LAMBDA a :
        <<[tag |-> "CreateTypeAlias", type_alias |-> a.name, type |-> a.type, arity |-> a.arity]>>
        \o push_created_directives(AliasPath(a.name), a.directives))

push_deleted_type_aliases(aliases) ==
    ForEach(aliases, LAMBDA a : <<[tag |-> "DeleteTypeAlias", type_alias |-> a.name]>>)

push_updated_type_aliases(pairs) ==
    ForEach(pairs, LAMBDA d :
        LET type == diff_value(d.previous.type, d.next.type)
        IN  (IF type = None THEN <<>>
             ELSE <<[tag |-> "UpdateTypeAlias", type_alias |-> d.previous.name, type |-> type]>>)
            \o push_directives(AliasPath(d.previous.name), FieldDiffer(d)))

-----------------------------------------------------------------------------
(* Enums.                                                                  *)

EnumPath(enum) == [at |-> "Enum", enum |-> enum]

ValuePath(enum, value) == [at |-> "EnumValue", enum |-> enum, value |-> value]

NamesOf(items) == [i \in DOMAIN items |-> items[i].name]

push_created_enums(enums) ==
    ForEach(enums, LAMBDA e :
        <<[tag |-> "CreateEnum", enum |-> e.name, values |-> NamesOf(e.values)]>>
        \o push_created_directives(EnumPath(e.name), e.directives)
        \o ForEach(e.values, LAMBDA v : push_created_directives(ValuePath(e.name, v.name), v.directives)))

push_deleted_enums(enums) == ForEach(enums, LAMBDA e : <<[tag |-> "DeleteEnum", enum |-> e.name]>>)

push_updated_enum_value(d, enum) ==
    push_directives(ValuePath(enum, d.next.name), EnumValueDiffer(d))

\* The directives of a new value come before the step that creates the value.
push_updated_enums(pairs) ==
    ForEach(pairs, LAMBDA d :
        LET diff == EnumDiffer(d)
            enum == d.previous.name
        IN  ForEach(diff.values.created, LAMBDA v : push_created_directives(ValuePath(enum, v.name), v.directives))
            \o ForEach(diff.values.pairs, LAMBDA v : push_updated_enum_value(v, enum))
            \o (IF diff.values.created = <<>> /\ diff.values.deleted = <<>> THEN <<>>
                ELSE <<[tag |-> "UpdateEnum", enum |-> enum, new_name |-> None,
                        created_values |-> NamesOf(diff.values.created),
                        deleted_values |-> NamesOf(diff.values.deleted)]>>)
            \o push_directives(EnumPath(enum), diff.directives))

-----------------------------------------------------------------------------
(* Data sources.                                                           *)

SourceLocation(source) == [source |-> source]

push_created_sources(sources) ==
    ForEach(sources, LAMBDA s :
        <<[tag |-> "CreateSource", source |-> s.name]>>
        \o ForEach(s.properties, LAMBDA a : push_created_argument(SourceLocation(s.name), a)))

push_deleted_sources(sources) == ForEach(sources, LAMBDA s : <<[tag |-> "DeleteSource", source |-> s.name]>>)

push_updated_sources(pairs) ==
    ForEach(pairs, LAMBDA d :
        LET location == SourceLocation(d.previous.name)
            diff == SourceArgumentsDiffer(d)
        IN  ForEach(diff.created, LAMBDA a : push_created_argument(location, a))
            \o ForEach(diff.deleted, LAMBDA a : push_deleted_argument(location, a))
            \o ForEach(diff.pairs, LAMBDA a : push_updated_argument(location, a)))

-----------------------------------------------------------------------------
(* Models.                                                                 *)

FieldPath(model, field) == [at |-> "Field", model |-> model, field |-> field]

ModelPath(model) == [at |-> "Model", model |-> model, arguments |-> None]

push_created_fields_after_directives(model, fields) ==
    ForEach(fields, LAMBDA f :
        push_created_directives(FieldPath(model, f.name), f.directives)
        \o <<[tag |-> "CreateField", model |-> model, field |-> f.name, type |-> f.type, arity |-> f.arity]>>)

push_created_fields(model, fields) ==
    ForEach(fields, LAMBDA f :
        <<[tag |-> "CreateField", model |-> model, field |-> f.name, type |-> f.type, arity |-> f.arity]>>
        \o push_created_directives(FieldPath(model, f.name), f.directives))

push_deleted_fields(model, fields) ==
    ForEach(fields, LAMBDA f : <<[tag |-> "DeleteField", model |-> model, field |-> f.name]>>)

push_updated_fields_type_only(model, pairs) ==
    ForEach(pairs, LAMBDA d :
        LET type == diff_value(d.previous.type, d.next.type)
        IN  (IF type = None THEN <<>>
             ELSE <<[tag |-> "UpdateField", model |-> model, field |-> d.previous.name,
                     new_name |-> None, type |-> type, arity |-> None]>>)
            \o push_directives(FieldPath(model, d.previous.name), FieldDiffer(d)))

push_updated_fields(model, pairs) ==
    ForEach(pairs, LAMBDA d :
        LET arity == diff_value(d.previous.arity, d.next.arity)
            type == diff_value(d.previous.type, d.next.type)
        IN  (IF arity = None /\ type = None THEN <<>>
             ELSE <<[tag |-> "UpdateField", model |-> model, field |-> d.previous.name,
                     new_name |-> None, type |-> type, arity |-> arity]>>)
            \o push_directives(FieldPath(model, d.previous.name), FieldDiffer(d)))

push_created_models(models) ==
    ForEach(models, LAMBDA m :
        <<[tag |-> "CreateModel", model |-> m.name]>>
        \o push_created_fields(m.name, m.fields)
        \o push_created_directives(ModelPath(m.name), Regular(m.directives))
        \o ForEach(Repeated(m.directives), LAMBDA x : push_created_directive_with_arguments(ModelPath(m.name), x)))

push_deleted_models(models) == ForEach(models, LAMBDA m : <<[tag |-> "DeleteModel", model |-> m.name]>>)

push_updated_models(pairs) ==
    ForEach(pairs, LAMBDA d :
        LET diff == ModelDiffer(d)
            model == d.previous.name
            path == ModelPath(model)
        IN  push_created_fields(model, diff.fields.created)
            \o push_deleted_fields(model, diff.fields.deleted)
            \o push_updated_fields(model, diff.fields.pairs)
            \o push_directives(path, diff.regular)
            \o ForEach(diff.created, LAMBDA x : push_created_directive_with_arguments(path, x))
            \o ForEach(diff.deleted, LAMBDA x : push_deleted_directive_with_arguments(path, x)))

-----------------------------------------------------------------------------
push_type_aliases(d) ==
    push_created_type_aliases(d.created) \o push_deleted_type_aliases(d.deleted)
    \o push_updated_type_aliases(d.pairs)

push_enums(d) ==
    push_created_enums(d.created) \o push_deleted_enums(d.deleted) \o push_updated_enums(d.pairs)

push_datasources(d) ==
    push_created_sources(d.created) \o push_deleted_sources(d.deleted) \o push_updated_sources(d.pairs)

push_models(d) ==
    push_created_models(d.created) \o push_deleted_models(d.deleted) \o push_updated_models(d.pairs)

\* The steps from one schema to another.
diff(previous, next) ==
    LET differ == TopDiffer(previous, next)
    IN  push_type_aliases(differ.types) \o push_enums(differ.enums)
        \o push_datasources(differ.sources) \o push_models(differ.models)
=============================================================================
