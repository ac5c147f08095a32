--------------------------- MODULE MCSqlMigration ---------------------------
(***************************************************************************)
(* Instances of SqlMigration: datamodels with two models, each pair of     *)
(* which is one kind of change.                                            *)
(***************************************************************************)
EXTENDS SqlMigration

MCNameOrder ==
    <<"A", "A.name", "B", "BLUE", "B_aId", "B_ibfk_aId", "Hue", "Hue_new", "Hue_old", "RED", "_AToB", "_AToB_AB_unique",
      "_AToB_B_index", "_AToB_ibfk_A", "_AToB_ibfk_B", "_Migration", "aId", "byName", "byRank", "hue", "id", "name",
      "new_A", "new_B", "rank", "tint", "tint_new", "tint_old">>

MCPlainNames == {"tint", "tint_new", "tint_old"}

MCFamilies == {Postgres, Mysql, Sqlite}

Value(v) == [kind |-> "value", value |-> v]
IntId == [Field_new("id", "base", "Int") EXCEPT !.isId = TRUE, !.default = [kind |-> "autoincrement", value |-> ""]]
TextId == [Field_new("id", "base", "String") EXCEPT !.isId = TRUE, !.default = [kind |-> "cuid", value |-> ""]]
Text == Field_new("name", "base", "String")
Rank == Field_new("rank", "base", "Int")
Optional(f) == [f EXCEPT !.arity = "Optional"]
Unique(f) == [f EXCEPT !.isUnique = TRUE]
Defaulting(f, v) == [f EXCEPT !.default = Value(v)]
EnumField(enum) == Field_new("hue", "enum", enum)

To(model, fields, toFields) == [to |-> model, name |-> "AToB", fields |-> fields, toFields |-> toFields]
Side(name, arity, rel) == [Field_new(name, "relation", rel.to) EXCEPT !.arity = arity, !.rel = rel]

Enum(name, values) == [name |-> name, db |-> "", values |-> MapSeq(values, LAMBDA v : [name |-> v, db |-> ""])]

Datamodel(models, enums) == [models |-> models, enums |-> enums]
JustA(fields) == Datamodel(<<Model_new("A", fields)>>, <<>>)
Both(a, b) == Datamodel(<<Model_new("A", a), Model_new("B", b)>>, <<>>)

\* B belongs to an A.
BelongsTo(id, aId, arity, list) ==
    Both(<<id, Side("bs", list, To("B", <<>>, <<>>))>>,
         <<IntId, aId, Side("a", arity, To("A", <<"aId">>, <<"id">>))>>)

Wide == JustA(<<IntId, Unique(Optional(Text)), Optional(Rank)>>)
WithIndex(name, fields) ==
    Datamodel(<<[Model_new("A", fields) EXCEPT
                    !.indices = <<[name |-> name, fields |-> <<"name", "rank">>, unique |-> FALSE]>>]>>, <<>>)
ByName == WithIndex("byName", <<IntId, Defaulting(Text, "x"), Optional(Rank)>>)
ByRank == WithIndex("byRank", <<IntId, Defaulting(Text, "x"), Rank>>)
Owned == BelongsTo(IntId, Field_new("aId", "base", "Int"), "Required", "List")
Loose == BelongsTo(IntId, Optional(Field_new("aId", "base", "Int")), "Optional", "Optional")
TextOwned == BelongsTo(TextId, Field_new("aId", "base", "String"), "Required", "List")
ManyToMany == Both(<<IntId, Side("bs", "List", To("B", <<>>, <<"id">>))>>,
                   <<IntId, Side("as", "List", To("A", <<>>, <<"id">>))>>)
WithEnum(enum, values, f) == Datamodel(<<Model_new("A", <<IntId, f>>)>>, <<Enum(enum, values)>>)
Hues == WithEnum("Hue", <<"RED", "BLUE">>, EnumField("Hue"))
FewerHues == WithEnum("Hue", <<"BLUE">>, EnumField("Hue"))
Tints == WithEnum("tint", <<"RED", "BLUE">>, Defaulting(EnumField("tint"), "RED"))

MCDatamodels(f) ==
    {EmptyDatamodel, Wide, ByName, ByRank, Owned, Loose, ManyToMany, TextOwned}
    \cup (IF f = Sqlite THEN {} ELSE {Hues, FewerHues, Tints})

\* Two models that have nothing to do with each other; the id of one changes.
MCPostgresOnly == {Postgres}
MCUnrelatedModels(f) == {Both(<<IntId>>, <<IntId>>), Both(<<TextId>>, <<IntId>>)}
=============================================================================
