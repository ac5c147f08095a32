--------------------------- MODULE DatamodelSteps ---------------------------
(***************************************************************************)
(* The way of a datamodel through the migration engine.  inferMigrationSteps*)
(* diffs the last datamodel and the new one; the client sends the steps    *)
(* back with applyMigration, where the calculator replays them one by one; *)
(* the result is stored as text and is the last datamodel of the next      *)
(* migration.                                                              *)
(***************************************************************************)
EXTENDS DatamodelDiffer, FiniteSets

\* What users ask for, one after the other: a datamodel to migrate to, or steps
\* that were not inferred.
CONSTANT Histories

VARIABLES stored,      \* the text of the last datamodel
          draft,       \* the datamodel the calculator works on
          future,      \* what the user has yet to ask for
          steps,       \* the steps still to apply
          status

vars == <<stored, draft, future, steps, status>>

-----------------------------------------------------------------------------
(* The outcome of one step: a schema, an error or a panic.                 *)

Ok(schema) == [is |-> "ok", schema |-> schema]

Err == [is |-> "error"]

Panic == [is |-> "panic"]

Without(items, name) == SelectSeq(items, LAMBDA x : x.name # name)

\* The first item of a name, changed: the find_*_mut functions.
Change(items, name, F(_)) ==
    [items EXCEPT ![SelectInSeq(items, LAMBDA x : x.name = name)] = F(@)]

HasTop(d, kind, name) == Has(Tops(d, kind), name)

ChangeTop(d, kind, name, F(_)) ==
    [d EXCEPT ![SelectInSeq(d, LAMBDA top : top.kind = kind /\ top.name = name)] = F(@)]

WithoutTop(d, kind, name) == SelectSeq(d, LAMBDA top : ~(top.kind = kind /\ top.name = name))

apply_create_source(d, step) ==
    IF HasTop(d, "source", step.source) THEN Err
    ELSE Ok(Append(d, [kind |-> "source", name |-> step.source, properties |-> <<>>]))

\* It is a model of this name that is looked for.
apply_delete_source(d, step) ==
    IF ~HasTop(d, "model", step.source) THEN Err ELSE Ok(WithoutTop(d, "source", step.source))

BareValues(names) == [i \in DOMAIN names |-> [name |-> names[i], directives |-> <<>>]]

apply_create_enum(d, step) ==
    IF HasTop(d, "enum", step.enum) THEN Err
    ELSE Ok(Append(d, [kind |-> "enum", name |-> step.enum, values |-> BareValues(step.values), directives |-> <<>>]))

WithName(item, new_name) == IF new_name = None THEN item ELSE [item EXCEPT !.name = CHOOSE n \in new_name : TRUE]

apply_update_enum(d, step) ==
    IF ~HasTop(d, "enum", step.enum) THEN Err
    ELSE Ok(ChangeTop(d, "enum", step.enum, LAMBDA e :
                [WithName(e, step.new_name) EXCEPT
                    !.values = SelectSeq(@ \o BareValues(step.created_values),
                                         LAMBDA v : v.name \notin ToSet(step.deleted_values))]))

apply_delete_enum(d, step) ==
    IF ~HasTop(d, "enum", step.enum) THEN Err ELSE Ok(WithoutTop(d, "enum", step.enum))

apply_create_model(d, step) ==
    IF HasTop(d, "model", step.model) THEN Err
    ELSE Ok(Append(d, [kind |-> "model", name |-> step.model, fields |-> <<>>, directives |-> <<>>]))

apply_update_model(d, step) ==
    IF ~HasTop(d, "model", step.model) THEN Err
    ELSE Ok(ChangeTop(d, "model", step.model, LAMBDA m : WithName(m, step.new_name)))

apply_delete_model(d, step) ==
    IF ~HasTop(d, "model", step.model) THEN Err ELSE Ok(WithoutTop(d, "model", step.model))

HasField(d, model, field) == HasTop(d, "model", model) /\ Has(find(Tops(d, "model"), model).fields, field)

apply_create_field(d, step) ==
    IF HasField(d, step.model, step.field) \/ ~HasTop(d, "model", step.model) THEN Err
    ELSE Ok(ChangeTop(d, "model", step.model, LAMBDA m :
                [m EXCEPT !.fields = Append(@, [name |-> step.field, type |-> step.type,
                                                arity |-> step.arity, directives |-> <<>>])]))

OrElse(option, value) == IF option = None THEN value ELSE CHOOSE x \in option : TRUE

apply_update_field(d, step) ==
    IF ~HasField(d, step.model, step.field) THEN Err
    ELSE Ok(ChangeTop(d, "model", step.model, LAMBDA m :
                [m EXCEPT !.fields = Change(@, step.field, LAMBDA f :
                    [WithName(f, step.new_name) EXCEPT !.arity = OrElse(step.arity, @),
                                                       !.type = OrElse(step.type, @)])]))

apply_delete_field(d, step) ==
    IF ~HasField(d, step.model, step.field) THEN Err
    ELSE Ok(ChangeTop(d, "model", step.model, LAMBDA m : [m EXCEPT !.fields = Without(@, step.field)]))

apply_create_type_alias(d, step) ==
    IF HasTop(d, "type", step.type_alias) THEN Err
    ELSE Ok(Append(d, [kind |-> "type", name |-> step.type_alias, type |-> step.type,
                       arity |-> step.arity, directives |-> <<>>]))

apply_update_type_alias(d, step) ==
    IF ~HasTop(d, "type", step.type_alias) THEN Err
    ELSE Ok(ChangeTop(d, "type", step.type_alias, LAMBDA a : [a EXCEPT !.type = OrElse(step.type, @)]))

apply_delete_type_alias(d, step) ==
    IF ~HasTop(d, "type", step.type_alias) THEN Err ELSE Ok(WithoutTop(d, "type", step.type_alias))

-----------------------------------------------------------------------------
(* Directives and arguments.                                               *)

IsTarget(d, path) ==
    CASE path.at = "Field" -> HasField(d, path.model, path.field)
      [] path.at = "Model" -> HasTop(d, "model", path.model)
      [] path.at = "Enum" -> HasTop(d, "enum", path.enum)
      [] path.at = "EnumValue" ->
            HasTop(d, "enum", path.enum) /\ Has(find(Tops(d, "enum"), path.enum).values, path.value)
      [] path.at = "TypeAlias" -> HasTop(d, "type", path.type_alias)

\* The schema with the directives at a path changed: find_directives_mut.
ChangeDirectives(d, path, F(_)) ==
    LET On(item) == [item EXCEPT !.directives = F(@)]
    IN  CASE path.at = "Field" ->
                ChangeTop(d, "model", path.model, LAMBDA m : [m EXCEPT !.fields = Change(@, path.field, On)])
          [] path.at = "Model" -> ChangeTop(d, "model", path.model, On)
          [] path.at = "Enum" -> ChangeTop(d, "enum", path.enum, On)
          [] path.at = "EnumValue" ->
                ChangeTop(d, "enum", path.enum, LAMBDA e : [e EXCEPT !.values = Change(@, path.value, On)])
          [] path.at = "TypeAlias" -> ChangeTop(d, "type", path.type_alias, On)

DirectivesAt(d, path) ==
    CASE path.at = "Field" -> find(find(Tops(d, "model"), path.model).fields, path.field).directives
      [] path.at = "Model" -> find(Tops(d, "model"), path.model).directives
      [] path.at = "Enum" -> find(Tops(d, "enum"), path.enum).directives
      [] path.at = "EnumValue" -> find(find(Tops(d, "enum"), path.enum).values, path.value).directives
      [] path.at = "TypeAlias" -> find(Tops(d, "type"), path.type_alias).directives

arguments(path) == IF path.at = "Model" THEN path.arguments ELSE None

\* to_ast_expression unwraps what the parser says of the text.
apply_create_directive(d, step) ==
    LET path == step.location.path
        given == OrElse(arguments(path), <<>>)
    IN  IF ~IsTarget(d, path) THEN Err
        ELSE IF \E a \in ToSet(given) : ~ParseExpression(a.value).ok THEN Panic
        ELSE Ok(ChangeDirectives(d, path, LAMBDA ds :
                    Append(ds, [name |-> step.location.directive, arguments |-> FromArguments(given)])))

matches_ast_directive(location, directive) ==
    /\ location.directive = directive.name
    /\ \A given \in arguments(location.path) :
          /\ Len(given) = Len(directive.arguments)
          /\ ToSet(ToArguments(directive.arguments)) \subseteq ToSet(given)

apply_delete_directive(d, step) ==
    IF ~IsTarget(d, step.location.path) THEN Err
    ELSE Ok(ChangeDirectives(d, step.location.path, LAMBDA ds :
                SelectSeq(ds, LAMBDA x : ~matches_ast_directive(step.location, x))))

OfSource(location) == "source" \in DOMAIN location

HasContainer(d, location) ==
    IF OfSource(location) THEN HasTop(d, "source", location.source)
    ELSE IsTarget(d, location.path) /\ Has(DirectivesAt(d, location.path), location.directive)

ArgumentsAt(d, location) ==
    IF OfSource(location) THEN find(Tops(d, "source"), location.source).properties
    ELSE find(DirectivesAt(d, location.path), location.directive).arguments

\* The functions on arguments unwrap the container: there is none, they panic.
ChangeArguments(d, location, F(_)) ==
    IF ~HasContainer(d, location) THEN Panic
    ELSE IF OfSource(location)
    THEN Ok(ChangeTop(d, "source", location.source, LAMBDA s : [s EXCEPT !.properties = F(@)]))
    ELSE Ok(ChangeDirectives(d, location.path, LAMBDA ds :
                Change(ds, location.directive, LAMBDA x : [x EXCEPT !.arguments = F(@)])))

apply_create_directive_argument(d, step) ==
    LET e == ParseExpression(step.value)
    IN  IF ~e.ok THEN Panic
        ELSE ChangeArguments(d, step.location, LAMBDA as : Append(as, [name |-> step.argument, value |-> e.value]))

apply_update_directive_argument(d, step) ==
    LET e == ParseExpression(step.new_value)
        Updated(as) == [i \in DOMAIN as |-> IF as[i].name = step.argument THEN [as[i] EXCEPT !.value = e.value] ELSE as[i]]
    IN  IF ~e.ok /\ HasContainer(d, step.location) /\ ~Has(ArgumentsAt(d, step.location), step.argument)
        THEN Ok(d)
        ELSE IF ~e.ok THEN Panic
        ELSE ChangeArguments(d, step.location, Updated)

apply_delete_directive_argument(d, step) ==
    ChangeArguments(d, step.location, LAMBDA as : Without(as, step.argument))

-----------------------------------------------------------------------------
apply_step(d, step) ==
    CASE step.tag = "CreateEnum" -> apply_create_enum(d, step)
      [] step.tag = "UpdateEnum" -> apply_update_enum(d, step)
      [] step.tag = "DeleteEnum" -> apply_delete_enum(d, step)
      [] step.tag = "CreateModel" -> apply_create_model(d, step)
      [] step.tag = "UpdateModel" -> apply_update_model(d, step)
      [] step.tag = "DeleteModel" -> apply_delete_model(d, step)
      [] step.tag = "CreateField" -> apply_create_field(d, step)
      [] step.tag = "UpdateField" -> apply_update_field(d, step)
      [] step.tag = "DeleteField" -> apply_delete_field(d, step)
      [] step.tag = "CreateTypeAlias" -> apply_create_type_alias(d, step)
      [] step.tag = "UpdateTypeAlias" -> apply_update_type_alias(d, step)
      [] step.tag = "DeleteTypeAlias" -> apply_delete_type_alias(d, step)
      [] step.tag = "CreateDirective" -> apply_create_directive(d, step)
      [] step.tag = "DeleteDirective" -> apply_delete_directive(d, step)
      [] step.tag = "CreateArgument" -> apply_create_directive_argument(d, step)
      [] step.tag = "UpdateArgument" -> apply_update_directive_argument(d, step)
      [] step.tag = "DeleteArgument" -> apply_delete_directive_argument(d, step)
      [] step.tag = "CreateSource" -> apply_create_source(d, step)
      [] step.tag = "DeleteSource" -> apply_delete_source(d, step)

-----------------------------------------------------------------------------
(* What the validation of a datamodel says of names, types and directives. *)

NoDuplicates(items) == \A i, j \in DOMAIN items : items[i].name = items[j].name => i = j

Scalars == {"Int", "String"}

precheck(d) ==
    /\ \A top \in ToSet(d) : top.name \notin Scalars
    /\ NoDuplicates(SelectSeq(d, LAMBDA top : top.kind # "source"))
    /\ NoDuplicates(Tops(d, "source"))
    /\ \A e \in ToSet(Tops(d, "enum")) : NoDuplicates(e.values)
    /\ \A m \in ToSet(Tops(d, "model")) : NoDuplicates(m.fields)
    /\ \A s \in ToSet(Tops(d, "source")) : NoDuplicates(s.properties)

\* What a type name stands for, and the directives of the aliases on the way to it.
RECURSIVE lift_field_type(_, _, _)
lift_field_type(d, type, checked) ==
    IF type \in Scalars THEN [is |-> "Base", directives |-> <<>>]
    ELSE IF HasTop(d, "model", type) THEN [is |-> "Relation", directives |-> <<>>]
    ELSE IF HasTop(d, "enum", type) THEN [is |-> "Enum", directives |-> <<>>]
    ELSE IF type \in checked \/ ~HasTop(d, "type", type) THEN [is |-> "error", directives |-> <<>>]
    ELSE LET alias == find(Tops(d, "type"), type)
             r == lift_field_type(d, alias.type, checked \cup {type})
         IN  IF r.is = "Relation" THEN [is |-> "error", directives |-> <<>>]
             ELSE [r EXCEPT !.directives = @ \o alias.directives]

\* The directives of aliases are merged into those of the field.
lift_field(d, field) ==
    LET type == lift_field_type(d, field.type, {})
    IN  type.is # "error" /\ NoDuplicates(type.directives \o field.directives)

\* Of all directives only unique and index of a model may be repeated.
ValidDirectives(d) ==
    LET fields == ForEach(Tops(d, "model"), LAMBDA m : m.fields)
        values == ForEach(Tops(d, "enum"), LAMBDA e : e.values)
        items == fields \o values \o SelectSeq(d, LAMBDA top : top.kind \in {"model", "enum"})
    IN  /\ \A x \in ToSet(values \o Tops(d, "enum")) : NoDuplicates(x.directives)
        /\ \A m \in ToSet(Tops(d, "model")) : NoDuplicates(Regular(m.directives))
        /\ \A x \in ToSet(items) : \A a \in ToSet(x.directives) : NoDuplicates(a.arguments)

lift_ast(d) ==
    /\ precheck(d)
    /\ \A m \in ToSet(Tops(d, "model")) : \A f \in ToSet(m.fields) : lift_field(d, f)
    /\ ValidDirectives(d)

\* A stored text that a command can work with.
IsReadable(parsed) == parsed.ok /\ lift_ast(parsed.value)

Readable(text) == IsReadable(parse(text))

-----------------------------------------------------------------------------
(* The machine.                                                            *)

Init ==
    /\ future \in Histories
    /\ stored = render(<<>>)
    /\ draft = <<>>
    /\ steps = <<>>
    /\ status = "idle"

Inferred == "datamodel" \in DOMAIN Head(future)

Target == Head(future).datamodel

\* A command starts with the stored datamodel, if it can be read, and the
\* steps Steps makes of it.
Start(parsed, Steps(_)) ==
    /\ IF IsReadable(parsed)
       THEN /\ steps' = Steps(parsed.value)
            /\ draft' = parsed.value
            /\ status' = "apply"
       ELSE /\ status' = "error"
            /\ UNCHANGED <<steps, draft>>
    /\ UNCHANGED <<stored, future>>

\* inferMigrationSteps for a datamodel, whose steps come back with applyMigration.
Infer ==
    /\ status = "idle"
    /\ future # <<>> /\ Inferred
    /\ Start(parse(stored), LAMBDA d : diff(d, Target))

\* applyMigration with other steps.
Send ==
    /\ status = "idle"
    /\ future # <<>> /\ ~Inferred
    /\ Start(parse(stored), LAMBDA d : Head(future).steps)

Apply ==
    /\ status = "apply"
    /\ steps # <<>>
    /\ \E r \in {apply_step(draft, Head(steps))} :
          IF r.is = "ok"
          THEN draft' = r.schema /\ steps' = Tail(steps) /\ UNCHANGED status
          ELSE status' = r.is /\ UNCHANGED <<draft, steps>>
    /\ UNCHANGED <<stored, future>>

\* The result is stored without having been validated.
StoreUnvalidated ==
    /\ status = "apply"
    /\ steps = <<>>
    /\ stored' = render(draft)
    /\ future' = Tail(future)
    /\ status' = "idle"
    /\ UNCHANGED <<draft, steps>>

\* The result is validated and stored; the next command parses it again.
Store ==
    /\ status = "apply"
    /\ steps = <<>>
    /\ IF lift_ast(draft)
       THEN /\ stored' = render(draft)
            /\ future' = Tail(future)
            /\ status' = "idle"
       ELSE /\ status' = "invalid"
            /\ UNCHANGED <<stored, future>>
    /\ UNCHANGED <<draft, steps>>

\* The command returns an error or dies of the panic: nothing was stored.
Fail ==
    /\ status \in {"error", "panic", "invalid"}
    /\ future' = Tail(future)
    /\ steps' = <<>>
    /\ status' = "idle"
    /\ UNCHANGED <<stored, draft>>

Terminated ==
    /\ status = "idle"
    /\ future = <<>>
    /\ UNCHANGED vars

Next == Infer \/ Send \/ Apply \/ Store \/ Fail \/ Terminated

Spec == Init /\ [][Next]_vars

-----------------------------------------------------------------------------
(* Properties.                                                             *)

\* A schema without the order of its items.
Unordered(d) ==
    LET Dirs(ds) == {[x EXCEPT !.arguments = ToSet(@)] : x \in ToSet(ds)}
        Items(is) == {[x EXCEPT !.directives = Dirs(@)] : x \in ToSet(is)}
        Top(x) == CASE x.kind = "type" -> [x EXCEPT !.directives = Dirs(@)]
                    [] x.kind = "enum" -> [x EXCEPT !.directives = Dirs(@), !.values = Items(@)]
                    [] x.kind = "model" -> [x EXCEPT !.directives = Dirs(@), !.fields = Items(@)]
                    [] x.kind = "source" -> [x EXCEPT !.properties = ToSet(@)]
    IN  {Top(x) : x \in ToSet(d)}

\* apply_delete_source looks for a model of the name.
DeletesSource(step) == step.tag = "DeleteSource" /\ ~HasTop(draft, "model", step.source)

\* push_updated_enums sends the directives of a new value before the value.
DirectiveOfComingValue(step) ==
    /\ step.tag = "CreateDirective" /\ step.location.path.at = "EnumValue"
    /\ \E s \in ToSet(Tail(steps)) :
          /\ s.tag = "UpdateEnum" /\ s.enum = step.location.path.enum
          /\ Contains(s.created_values, step.location.path.value)

\* A property of a data source with an escaped interpolation that is not an
\* expression: the renderer escapes the backslash and not the interpolation.
OpenInterpolation(d) ==
    \E s \in ToSet(Tops(d, "source")) : \E p \in ToSet(s.properties) : ~ParseExpression(render_value(p.value)).ok

\* The type aliases at the end of a schema, which the renderer does not
\* write, and the schema without them.
LostAliases(d) == {d[i].name : i \in {k \in DOMAIN d : \A j \in k..Len(d) : d[j].kind = "type"}}

Kept(d) == SelectSeq(d, LAMBDA top : ~(top.kind = "type" /\ top.name \in LostAliases(d)))

\* A step that creates such an alias again, or one of its directives.
RestoresAlias(step, d) ==
    \/ step.tag = "CreateTypeAlias" /\ step.type_alias \in LostAliases(d)
    \/ /\ step.tag \in {"CreateDirective", "CreateArgument"}
       /\ ~OfSource(step.location) /\ step.location.path.at = "TypeAlias"
       /\ step.location.path.type_alias \in LostAliases(d)

UsesLostAlias(d) ==
    \/ \E m \in ToSet(Tops(d, "model")) : \E f \in ToSet(m.fields) : f.type \in LostAliases(d)
    \/ \E a \in ToSet(Tops(Kept(d), "type")) : a.type \in LostAliases(d)

Replayed == status = "apply" /\ steps = <<>> /\ Inferred

\* Inferred steps, replayed one by one and stored as text, lead from any stored
\* datamodel to the one they were inferred for; the text lacks the type aliases
\* that come last, and nothing else.
ReplayReachesTarget ==
    Replayed =>
        /\ Unordered(draft) = Unordered(Target)
        /\ Unordered(parse(render(draft)).value) = Unordered(Kept(draft))

\* The calculator never panics on inferred steps, refuses none of them and finds
\* the result valid.  The steps it does refuse are the deletion of a data source,
\* which is looked for among the models, and a directive that push_updated_enums
\* sends before the step that creates its value; it panics on an escaped
\* interpolation that is not readable; and a stored datamodel that misses an
\* alias is refused before anything is applied.
RefusedOnlyForKnownCause ==
    status \in {"error", "panic", "invalid"} /\ Inferred =>
        \/ status = "error" /\ ~Readable(stored)
        \/ status = "error" /\ (DeletesSource(Head(steps)) \/ DirectiveOfComingValue(Head(steps)))
        \/ status = "panic" /\ OpenInterpolation(Target) /\ OfSource(Head(steps).location)

\* Once a migration is stored there is nothing left to migrate but the type
\* aliases that were not written: the differ compares by name and by rendered
\* value what the calculator has put in another order and the text has escaped.
NothingIsLeft ==
    Replayed => \A s \in ToSet(diff(parse(render(draft)).value, Target)) : RestoresAlias(s, draft)

\* What a command stores the next command can read, whatever steps a client sent,
\* unless it uses a type alias that was not written.
StoredIsReadable ==
    [][stored' # stored => Readable(stored') \/ UsesLostAlias(draft)]_vars
=============================================================================
