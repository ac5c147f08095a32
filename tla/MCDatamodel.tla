----------------------------- MODULE MCDatamodel -----------------------------
(***************************************************************************)
(* Instances of Datamodel: schemas of two models with every combination of *)
(* identities and relation fields, schemas with one peculiarity each, and  *)
(* databases that other tools may have made.                               *)
(***************************************************************************)
EXTENDS Datamodel

MCNameOrder ==
    <<"1", "1_a", "2b", "2h", "2hue", "A", "A.1", "A.a", "A.b", "A.c", "A.c_x", "A.hue", "A.id", "A.name",
      "A.name_x", "A.x", "AToA", "A_2h", "A_A", "A_AToB_bId", "A_A_bIdToB", "A_A_cIdToB", "A_B", "A_aId", "A_bId",
      "A_bId_bX", "A_bX_bId", "A_cId", "A_h", "A_hue", "A_ibfk_aId", "A_ibfk_bId", "A_ibfk_bX_bId", "A_ibfk_cId",
      "A_ibfk_parentId", "A_parentId", "B", "B.a", "B.c", "B.id", "B.name", "B.x", "B_A", "B_AToB_bId",
      "B_A_bIdToB", "B_A_cIdToB", "B_B", "B_aId", "B_aId_aX", "B_aX_aId", "B_ibfk_aId", "B_ibfk_aX_aId", "Hue",
      "Kin", "Kind", "RED", "_AToA", "_AToA_AB_unique", "_AToA_B_index", "_AToA_ibfk_A", "_AToA_ibfk_B", "_AToB",
      "_AToB_AB_unique", "_AToB_B_index", "_AToB_ibfk_A", "_AToB_ibfk_B", "_Kin", "_Kin_AB_unique", "_Kin_B_index",
      "_Kin_ibfk_A", "_Kin_ibfk_B", "_Migration", "a", "aId", "aId_AToB", "aX", "a_table", "a_table.c",
      "a_table.c_x", "as", "b", "bId", "bId_AToB", "bX", "blue", "bs", "byName", "c", "cId", "children", "h", "hue", "id",
      "name", "other", "other_A", "parent", "parentId", "red", "v", "x", "y">>

MCPlainNames == {"hue"}
MCInstants == "2020" :> "2020Z" @@ "2020Z" :> "2020Z"
MCProviders == {NoSource, Postgres, Mysql, Sqlite}

-----------------------------------------------------------------------------
(* Schemas.                                                                *)

F(name, type, arity, directives) == [name |-> name, type |-> type, arity |-> arity, directives |-> directives]
Scalar(name, type, directives) == F(name, type, "Required", directives)
At(name) == Directive(name, <<>>)
Over(name, fields) == Directive(name, <<Argument("", ArrayOf(fields))>>)
Text(v) == Expression("StringValue", v)
Call(v) == Expression("Function", v)
Default(v) == Directive("default", <<Argument("", v)>>)
Mapped(name) == Directive("map", <<Argument("", Text(name))>>)
Model(name, fields, directives) == [kind |-> "model", name |-> name, fields |-> fields, directives |-> directives]
Enum(name, values) == [kind |-> "enum", name |-> name, values |-> values, directives |-> <<>>]
Alias(name, type, directives) == [kind |-> "type", name |-> name, type |-> type, directives |-> directives]
Variant(name, directives) == [name |-> name, directives |-> directives]

Id == Scalar("id", "Int", <<At("id"), Default(Call("autoincrement"))>>)

\* Fields and directives that make a model identifiable.
Identified == [fields |-> <<Id>>, directives |-> <<>>]
Identities ==
    {Identified,
     [fields |-> <<Scalar("id", "Int", <<At("unique")>>)>>, directives |-> <<>>],
     [fields |-> <<F("id", "Int", "Optional", <<At("unique")>>)>>, directives |-> <<>>],
     [fields |-> <<Scalar("x", "Int", <<>>), Scalar("id", "Int", <<>>)>>, directives |-> <<Over("id", <<"x", "id">>)>>]}

Name(n) == Argument("", Text(n))
Fields(names) == Argument("fields", ArrayOf(names))
References(names) == Argument("references", ArrayOf(names))
Relation(name, to, arity, arguments) ==
    F(name, to, arity, IF arguments = <<>> THEN <<>> ELSE <<Directive("relation", arguments)>>)

\* The fields of a relation to the other model.
Sides(to, name, fk) ==
    {<<>>}
    \cup {<<Relation(name, to, arity, arguments)>> : arity \in {"Required", "Optional", "List"},
             arguments \in {<<>>, <<Name("AToB")>>, <<References(<<"id">>)>>}}
    \cup {<<F(fk, "Int", arity, <<>>), Relation(name, to, arity, arguments)>> : arity \in {"Required", "Optional"},
             arguments \in {<<Fields(<<fk>>)>>, <<Fields(<<fk>>), References(<<"id">>)>>}}

TwoModels(ia, ib) ==
    {<<Model("A", ia.fields \o a, ia.directives), Model("B", ib.fields \o b, ib.directives)>> :
        a \in Sides("B", "b", "bId"), b \in Sides("A", "a", "aId")}

JustA(fields) == Model("A", <<Id>> \o fields, <<>>)
WithB(fields, back) == <<JustA(fields), Model("B", <<Id>> \o back, <<>>)>>

\* Two relations between the models, one of them with a name.
TwoRelations ==
    {WithB(<<Scalar("bId", "Int", <<>>), Relation("b", "B", "Required", <<Fields(<<"bId">>)>> \o name),
             Scalar("cId", type, <<>>), Relation("c", "B", arity, arguments)>>, back) :
        name \in {<<>>, <<Name("AToB")>>, <<Name("Kin")>>}, type \in {"Int", "String"}, arity \in {"Required", "List"},
        arguments \in {<<>>, <<Fields(<<"cId">>)>>}, back \in {<<>>, <<Relation("as", "A", "List", <<>>)>>}}

SelfRelations ==
    {<<JustA(<<F("parentId", "Int", "Optional", <<>>),
               Relation("parent", "A", first, name \o arguments)>> \o second)>> :
        first \in {"Optional", "Required", "List"}, name \in {<<>>, <<Name("Kin")>>},
        arguments \in {<<>>, <<Fields(<<"parentId">>)>>, <<Fields(<<"parentId">>), References(<<"id">>)>>},
        second \in {<<>>} \cup {<<Relation("children", "A", arity, <<Name("Kin")>>)>> :
                                      arity \in {"Optional", "Required", "List"}}}

\* A field with a value of each kind, right and wrong.
Values == {Text("v"), Text("2020"), Expression("NumericValue", "1"), Expression("NumericValue", "1.5"),
           Expression("BooleanValue", "true"), Constant("RED"), Constant("GREEN"), Call("dbgenerated"), Call("random")}
Hues == Enum("Hue", <<Variant("RED", <<>>), Variant("BLUE", <<Mapped("blue")>>)>>)
OneScalar ==
    {<<JustA(<<Scalar("name", type, <<Default(v)>>)>>), Hues>> : type \in ScalarTypes \cup {"Hue"}, v \in Values}
    \cup {<<JustA(<<Scalar("name", type, <<Default(Call("now"))>>)>>), Hues>> : type \in {"DateTime", "Hue"}}
    \cup {<<JustA(<<F("name", type, arity, directives)>>), Hues>> :
             type \in {"String", "DateTime", "Json", "Hue", "Kind"}, arity \in {"Required", "Optional", "List"},
             directives \in {<<>>, <<At("unique")>>, <<At("unique"), Mapped("a")>>, <<At("id")>>, <<At("updatedAt")>>}}

Keyed ==
    {<<Model("A", <<Id, Scalar("name", "String", <<Mapped("c")>>), Scalar("x", "Int", <<>>)>>, <<d, Mapped("a_table")>>)>> :
        d \in {Over(kind, fields) : kind \in {"id", "unique", "index"}, fields \in {<<"name", "x">>, <<"name">>, <<"y">>}}
             \cup {Directive("index", <<Argument("fields", ArrayOf(<<"name", "x">>)), Argument("name", Text("byName"))>>)}}

\* An alias that stands for another, before and after its use.
Aliased_ ==
    {IF first THEN <<a, b>> \o <<m>> ELSE <<m>> \o <<a, b>> :
        first \in BOOLEAN, m \in {JustA(<<Scalar("name", "Kind", <<>>)>>), JustA(<<Scalar("name", "Kin", <<>>)>>)},
        a \in {Alias("Kind", "String", <<At("unique")>>), Alias("Kind", "Kin", <<>>)},
        b \in {Alias("Kin", "Kind", <<Default(Text("v"))>>)}}

Broken ==
    {<<JustA(<<>>), JustA(<<Scalar("x", "Int", <<>>)>>)>>,
     <<JustA(<<Scalar("x", "Int", <<At("id")>>)>>)>>,
     <<JustA(<<Scalar("x", "Int", <<>>), Scalar("x", "Int", <<>>)>>)>>,
     <<JustA(<<>>), Model("B", <<Scalar("x", "Int", <<>>)>>, <<>>)>>,
     <<JustA(<<Relation("b", "B", "Required", <<References(<<"id">>)>>)>>), Model("B", <<Id>>, <<At("embedded")>>)>>,
     <<JustA(<<>>), Model("B", <<Id, Relation("a", "A", "Required", <<References(<<"id">>)>>)>>, <<At("embedded")>>)>>,
     <<Model("Query", <<Id>>, <<>>)>>}

MCFiles(f) ==
    UNION {TwoModels(i, i) : i \in Identities}
    \cup (IF f = Postgres THEN UNION {TwoModels(i, Identified) : i \in Identities} ELSE {})
    \cup TwoRelations \cup SelfRelations \cup OneScalar \cup Keyed \cup Aliased_ \cup Broken

-----------------------------------------------------------------------------
(* Databases.                                                              *)

IntType(f) == CASE f = Postgres -> "integer" [] f = Mysql -> "int" [] f = Sqlite -> "INTEGER"
BinaryType(f) == CASE f = Postgres -> "bytea" [] f = Mysql -> "varbinary(20)" [] f = Sqlite -> "BLOB"

Index(name, columns, unique) == [name |-> name, columns |-> columns, unique |-> unique]
Key(columns, ref, refColumns) ==
    [name |-> "", columns |-> columns, ref |-> ref, refColumns |-> refColumns, onDelete |-> "NoAction"]
TableOf(name, columns, pk, indices, fks) ==
    [EmptyTable EXCEPT !.name = name, !.columns = columns, !.pk = pk, !.indices = indices, !.fks = fks]

Column(f, name, notNull) == NativeColumn(name, IntType(f), notNull, NoText)

\* A, with an id that may have no valid name or an unsupported type.
Target(f, id, type, pk, indices, more, keys) ==
    TableOf("A", <<NativeColumn(id, type, TRUE, NoText), Column(f, "x", Len(pk) = 2)>> \o more, pk,
            indices, keys)

\* A table that references A, itself, or A twice, with the indexes MySQL wants.
Source(f, name, id, type, required, unique, extra) ==
    TableOf(name,
            <<Column(f, "id", TRUE), NativeColumn("a", type, required, NoText)>>
              \o (IF extra \in {"self", "twice"}
                    THEN <<NativeColumn("c", IF extra = "self" THEN IntType(f) ELSE type, FALSE, NoText)>>
                  ELSE <<>>),
            <<"id">>,
            (IF unique \/ f = Mysql THEN <<Index("B.a", <<"a">>, unique)>> ELSE <<>>)
              \o (IF f = Mysql /\ extra \in {"self", "twice"} THEN <<Index("B.c", <<"c">>, FALSE)>> ELSE <<>>),
            <<Key(<<"a">>, "A", <<id>>)>>
              \o (CASE extra = "self" -> <<Key(<<"c">>, name, <<"id">>)>>
                    [] extra = "twice" -> <<Key(<<"c">>, "A", <<id>>)>>
                    [] OTHER -> <<>>))

JoinTable(f, name, id, b, type) ==
    TableOf(name, <<NativeColumn("A", type, TRUE, NoText), Column(f, "B", TRUE)>>, <<>>,
            <<Index("_Kin_AB_unique", <<"A", "B">>, TRUE), Index("_Kin_B_index", <<"B">>, FALSE)>>,
            <<Key(<<"A">>, "A", <<id>>), Key(<<"B">>, b, <<"id">>)>>)

\* The id is a primary key, unique, or a foreign key's mere index.
Keys(f, id) ==
    {[pk |-> <<id>>, indices |-> <<>>], [pk |-> <<>>, indices |-> <<Index("A.id", <<id>>, TRUE)>>],
     [pk |-> <<>>, indices |-> <<Index("A.id", <<id>>, TRUE), Index("A.x", <<"x">>, TRUE)>>],
     [pk |-> <<id, "x">>, indices |-> <<Index("A.id", <<id>>, TRUE)>>]}
    \cup (IF f = Mysql THEN {[pk |-> <<>>, indices |-> <<Index("A.id", <<id>>, FALSE)>>]} ELSE {})

MadeBy(f, id, type, key, b, required, unique, extra) ==
    [EmptyDatabase EXCEPT !.tables =
        <<Target(f, id, type, key.pk,
                 key.indices \o (IF f = Mysql /\ extra = "back" THEN <<Index("A.b", <<"b">>, FALSE)>> ELSE <<>>),
                 IF extra = "back" THEN <<Column(f, "b", FALSE)>> ELSE <<>>,
                 IF extra = "back" THEN <<Key(<<"b">>, b, <<"id">>)>> ELSE <<>>),
          Source(f, b, id, type, required, unique, extra)>>
        \o (IF extra = "join" THEN <<JoinTable(f, "_Kin", id, b, type)>> ELSE <<>>)]

\* The name of an enum as Postgres writes it in a cast.
Quoted == "hue" :> "hue" @@ "2hue" :> "\"2hue\""

\* A column of an enum, one of whose values is no name.
WithEnum(f, enum, name, notNull, default) ==
    [EmptyDatabase EXCEPT
        !.tables = <<TableOf("A", <<Column(f, "id", TRUE),
                                    [NativeColumn(name, IF f = Postgres THEN enum ELSE "ENUM", notNull, default)
                                     EXCEPT !.values = IF f = Postgres THEN <<>> ELSE <<"red", "1">>]>>,
                             <<"id">>, <<>>, <<>>)>>,
        !.types = IF f = Postgres THEN <<[name |-> enum, values |-> <<"red", "1">>]>> ELSE <<>>]

WithEnums(f) ==
    UNION {{WithEnum(f, enum, name, notNull, default) : name \in {"h", "2h"}, notNull \in BOOLEAN,
               default \in {NoText} \cup {[kind |-> "literal", value |-> v, cast |-> Quoted[enum]] : v \in {"red", "1"}}} :
             enum \in DOMAIN Quoted}

MCDatabases(f) ==
    IF f = NoSource THEN {}
    ELSE UNION {{MadeBy(f, id, type, key, b, required, unique, extra) :
                    type \in {IntType(f), BinaryType(f)}, key \in Keys(f, id),
                    b \in {"B", "2b"}, required \in BOOLEAN, unique \in BOOLEAN,
                    extra \in {"none", "self", "twice", "back", "join"}} : id \in {"id", "1"}}
         \cup (IF f = Sqlite THEN {} ELSE WithEnums(f))
=============================================================================
