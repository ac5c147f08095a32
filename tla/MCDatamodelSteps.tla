-------------------------- MODULE MCDatamodelSteps --------------------------
(* Datamodels and clients for DatamodelSteps. *)
EXTENDS DatamodelSteps

-----------------------------------------------------------------------------
(* Values of arguments, as the parser reads them.                          *)

\* What the grammar allows between quotes: escapes, interpolations and other
\* characters.
Units == {<<"n">>, <<"x">>, <<"}">>, <<"${", "x", "}">>} \cup {<<"bs", c>> : c \in {"n", "bs", "quote", "${"}}

Literals == {<<>>} \cup Units \cup {a \o b : a, b \in Units} \cup {a \o b \o c : a, b, c \in Units}

Read(text) == ParseExpression(text).value

Strings == {Read(<<"quote">> \o l \o <<"quote">>) : l \in Literals}

Plain == Read(<<"x">>)

Constants == {Plain, Read(<<"n">>)}

Escaped == Read(<<"quote", "bs", "bs", "bs", "n", "]", ",", "quote">>)

Compound == {Read(<<"[">> \o render_value(Escaped) \o <<",", "x", "]">>),
             Read(<<"env", "(", "[", "x", "]", ",", "f", "(", ")", ")">>)}

Arg(name, value) == [name |-> name, value |-> value]

Directive(name, as) == [name |-> name, arguments |-> as]

-----------------------------------------------------------------------------
(* One axis of change at a time.                                           *)

\* Sequences without repetition out of a small set.
Lists(S) == {<<>>} \cup {<<x>> : x \in S} \cup {<<x, y>> : x, y \in S}

Distinct(S) == {l \in Lists(S) : NoDuplicates(l)}

ArgumentLists == Distinct({Arg(n, v) : n \in {"fields", "name"}, v \in Constants})

Field(name, type, arity, ds) == [name |-> name, type |-> type, arity |-> arity, directives |-> ds]

Model(name, fields, ds) == [kind |-> "model", name |-> name, fields |-> fields, directives |-> ds]

Enum(name, values, ds) == [kind |-> "enum", name |-> name, values |-> values, directives |-> ds]

Source(name, properties) == [kind |-> "source", name |-> name, properties |-> properties]

Alias(name, type, ds) ==
    [kind |-> "type", name |-> name, type |-> type, arity |-> "Required", directives |-> ds]

IdField == Field("id", "Int", "Required", <<>>)

DirectivesOfField == Distinct({Directive("unique", <<>>)} \cup {Directive("map", <<Arg("", v)>>) : v \in {Plain, Escaped} \cup Compound})

\* Fields come, go and change.
FieldSchemas ==
    {<<Model("M", l, <<>>)>> : l \in Distinct({Field(n, t, a, <<>>) :
                n \in {"id", "f"}, t \in {"Int", "String"}, a \in {"Required", "List"}})}
    \cup {<<Model("M", <<IdField, Field("f", "Int", "Optional", ds)>>, <<>>)>> : ds \in DirectivesOfField}

\* Directives of a model, the repeated ones among them, and their arguments.
ModelSchemas ==
    {<<Model("M", <<IdField>>, <<Directive(n, as)>>)>> : n \in {"map", "unique"}, as \in ArgumentLists}
    \cup {<<Model("M", <<IdField>>, ds)>> : ds \in Lists({Directive("unique", <<Arg("fields", Plain)>>),
             Directive("unique", <<Arg("fields", Plain), Arg("name", Plain)>>), Directive("index", <<Arg("fields", Plain)>>)})}

EnumSchemas ==
    {<<Enum("E", l, ds)>> :
        l \in Distinct({[name |-> n, directives |-> vs] : n \in {"x", "y"}, vs \in {<<>>, <<Directive("map", <<Arg("", Plain)>>)>>}}),
        ds \in {<<>>, <<Directive("map", <<Arg("", Plain)>>)>>}}

SourceSchemas == {<<>>} \cup {<<Source("s", as)>> : as \in ArgumentLists}

StringSchemas == {<<Source("s", <<Arg("url", v)>>)>> : v \in Strings}

\* Type aliases, of aliases and of enums too, before and after what uses them.
AliasSchemas ==
    LET aliases == {Alias("T", "Int", <<>>), Alias("T", "E", <<>>), Alias("T", "Int", <<Directive("unique", <<>>)>>),
                    Alias("U", "Int", <<>>), Alias("U", "T", <<Directive("unique", <<>>)>>)}
        models == {Model("M", <<Field("f", t, "Optional", <<>>)>>, <<>>) : t \in {"Int", "T", "U"}}
        enum == Enum("E", <<[name |-> "x", directives |-> <<>>]>>, <<>>)
    IN  {d \in {<<enum>> \o l \o <<m>> : l \in Distinct(aliases), m \in models}
               \cup {<<m, enum>> \o l : l \in Distinct(aliases), m \in models} : lift_ast(d)}

\* Items of different kinds under one name.
NameSchemas ==
    {d \in {a \o b \o c : a \in {<<>>, <<Alias("N", "Int", <<>>)>>}, b \in Lists({Enum("N", <<>>, <<>>), Source("N", <<>>)}),
                          c \in Lists({Model("N", <<IdField>>, <<>>), Model("O", <<>>, <<>>)})} : lift_ast(d)}

Axes == {FieldSchemas, ModelSchemas, EnumSchemas, SourceSchemas, AliasSchemas, NameSchemas}

To(d) == [datamodel |-> d]

-----------------------------------------------------------------------------
(* Steps of clients that know what they want: renames above all.           *)

Rename == [tag |-> "UpdateModel", model |-> "M", new_name |-> Some("N")]

RenameField(to) == [tag |-> "UpdateField", model |-> "M", field |-> "f", new_name |-> Some(to),
                    type |-> None, arity |-> Some("Optional")]

RenameEnum == [tag |-> "UpdateEnum", enum |-> "E", new_name |-> Some("M"),
               created_values |-> <<"y">>, deleted_values |-> <<"x">>]

Sent == {<<Rename>>, <<RenameField("g")>>, <<RenameField("id")>>, <<RenameEnum>>,
         <<[tag |-> "CreateModel", model |-> "M"], Rename>>,
         <<[tag |-> "DeleteArgument", argument |-> "url", location |-> SourceLocation("s")]>>,
         <<[tag |-> "CreateArgument", argument |-> "url", location |-> SourceLocation("s"), value |-> <<"x">>]>>,
         <<[tag |-> "CreateDirective", location |-> [path |-> ModelPath("M"), directive |-> "map"]]>>,
         <<[tag |-> "CreateEnum", enum |-> "E", values |-> <<"x", "x">>]>>}

Send2 == {[steps |-> s] : s \in Sent}

TwoFields ==
    <<Model("M", <<IdField, Field("f", "Int", "Required", <<>>)>>, <<Directive("map", <<>>)>>),
      Enum("E", <<[name |-> "x", directives |-> <<>>]>>, <<>>)>>

AllHistories ==
    UNION {{<<To(a), To(b)>> : a, b \in axis} : axis \in Axes}
    \cup {<<To(a), To(b)>> : a \in {<<>>, <<Source("s", <<Arg("url", Plain)>>)>>}, b \in StringSchemas}
    \cup {<<To(TwoFields), a, b, To(c)>> : a, b \in Send2, c \in FieldSchemas \cup {TwoFields}}
=============================================================================
