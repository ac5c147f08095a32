--------------------------------- MODULE Dml ---------------------------------
(***************************************************************************)
(* A lifted datamodel: models with scalar, enum and relation fields, their *)
(* indexes and ids, and enums; and the questions the rest of the code asks *)
(* of it.                                                                  *)
(*                                                                         *)
(* An absent name is "", an absent default value has the kind "none".  The *)
(* code compares names as text: NameOrder lists the names of an instance   *)
(* in that order.  A name put together from others (a relation's default   *)
(* name, a relation table, an index) is their concatenation, as in the     *)
(* code.                                                                   *)
(***************************************************************************)
EXTENDS Integers, Sequences, FiniteSets, SequencesExt

CONSTANT NameOrder

NameRank == [n \in ToSet(NameOrder) |-> CHOOSE i \in DOMAIN NameOrder : NameOrder[i] = n]

NameLt(a, b) == NameRank[a] < NameRank[b]

-----------------------------------------------------------------------------
(* Sequences.                                                              *)

MapSeq(s, Op(_)) == [i \in DOMAIN s |-> Op(s[i])]

FlatMap(s, Op(_)) == FlattenSeq([i \in DOMAIN s |-> Op(s[i])])

Has(s, Test(_)) == \E i \in DOMAIN s : Test(s[i])

Find(s, Test(_)) == s[SelectInSeq(s, Test)]

FindAll(s, Test(_)) == SelectSeq(s, Test)

Named(s, name) == Find(s, LAMBDA x : x.name = name)

HasNamed(s, name) == Has(s, LAMBDA x : x.name = name)

Names(s) == MapSeq(s, LAMBDA x : x.name)

Join(names) == FoldLeft(LAMBDA text, name : IF text = "" THEN name ELSE text \o "_" \o name, "", names)

SortByName(s) ==
    LET Before(j, i) == NameLt(s[j].name, s[i].name) \/ (s[j].name = s[i].name /\ j <= i)
        RankOf(i) == Cardinality({j \in DOMAIN s : Before(j, i)})
    IN  [k \in DOMAIN s |-> s[CHOOSE i \in DOMAIN s : RankOf(i) = k]]

\* Elements of s whose Key is not the Key of an earlier one.
UniqueBy(s, Key(_)) ==
    FoldLeft(LAMBDA acc, x : IF Has(acc, LAMBDA y : Key(y) = Key(x)) THEN acc ELSE Append(acc, x), <<>>, s)

-----------------------------------------------------------------------------
(* Fields.                                                                 *)

NoDefault == [kind |-> "none", value |-> ""]
NoRelation == [to |-> "", name |-> "", fields |-> <<>>, toFields |-> <<>>]

\* A field without any directive.
Field_new(name, kind, type) ==
    [name |-> name, db |-> "", kind |-> kind, type |-> type, arity |-> "Required", isId |-> FALSE,
     isUnique |-> FALSE, isUpdatedAt |-> FALSE, alias |-> "", default |-> NoDefault, rel |-> NoRelation,
     generated |-> FALSE, commentedOut |-> FALSE]

Field_new_generated(name, rel) ==
    [Field_new(name, "relation", rel.to) EXCEPT !.arity = "Optional", !.rel = rel, !.generated = TRUE]

final_database_name(x) == IF x.db = "" THEN x.name ELSE x.db

is_relation(field) == field.kind = "relation"
is_list(field) == field.arity = "List"
is_required(field) == field.arity = "Required"
is_singular(field) == field.arity \in {"Required", "Optional"}

\* A type alias is resolved when the field is lifted, so base types are
\* compared by the scalar type, and relations as a whole.
is_compatible_with(a, b) == a.kind = b.kind /\ a.type = b.type /\ a.rel = b.rel

-----------------------------------------------------------------------------
(* Models.                                                                 *)

Model_new(name, fields) ==
    [name |-> name, db |-> "", fields |-> fields, idFields |-> <<>>, indices |-> <<>>, embedded |-> FALSE,
     commentedOut |-> FALSE]

find_field(model, name) == Named(model.fields, name)
has_field(model, name) == HasNamed(model.fields, name)
add_field(model, field) == [model EXCEPT !.fields = Append(@, field)]

singular_id_fields(model) == FindAll(model.fields, LAMBDA f : f.isId)
has_single_id_field(model) == Len(singular_id_fields(model)) = 1

FieldsNamed(model, names) == MapSeq(names, LAMBDA n : find_field(model, n))

UniqueIndices(model) == FindAll(model.indices, LAMBDA ix : ix.unique)

\* In the order of precedence: the id field, the compound id, the unique
\* fields, the unique indexes.
unique_criterias(model, allow_optional) ==
    LET single == singular_id_fields(model)
    IN  (IF single = <<>> THEN <<>> ELSE <<<<single[1]>>>>)
        \o (IF model.idFields = <<>> THEN <<>> ELSE <<FieldsNamed(model, model.idFields)>>)
        \o MapSeq(FindAll(model.fields, LAMBDA f : f.isUnique /\ (is_required(f) \/ allow_optional)),
                  LAMBDA f : <<f>>)
        \o MapSeq(UniqueIndices(model), LAMBDA ix : FieldsNamed(model, ix.fields))

strict_unique_criterias(model) == unique_criterias(model, FALSE)
loose_unique_criterias(model) == unique_criterias(model, TRUE)

\* The field of this model on the other side of a relation of `to`; the
\* excluded field matters to a self relation only.
related_fields(model, to, relation_name, exclude_field) ==
    FindAll(model.fields, LAMBDA f : /\ is_relation(f)
                                     /\ f.rel.to = to
                                     /\ f.rel.name = relation_name
                                     /\ (model.name # to \/ f.name # exclude_field))

related_field(model, to, relation_name, exclude_field) ==
    related_fields(model, to, relation_name, exclude_field)[1]

-----------------------------------------------------------------------------
(* Datamodels and enums.                                                   *)

EmptyDatamodel == [models |-> <<>>, enums |-> <<>>]

find_model(dm, name) == Named(dm.models, name)
has_model(dm, name) == HasNamed(dm.models, name)
find_enum(dm, name) == Named(dm.enums, name)

database_values(enum) == MapSeq(enum.values, LAMBDA v : final_database_name(v))

-----------------------------------------------------------------------------
(* What the SQL migration connector asks (datamodel_helpers).              *)

\* The fields of a single id, then those of a compound one.
id_fields(model) == singular_id_fields(model) \o FieldsNamed(model, model.idFields)

DbNames(fields) == MapSeq(fields, LAMBDA f : final_database_name(f))

is_virtual(field) == field.rel.fields = <<>>

\* Two sides of a self relation are told apart by their arguments.
opposite_sides(dm, model, field) ==
    FindAll(find_model(dm, field.rel.to).fields,
            LAMBDA g : /\ is_relation(g)
                       /\ g.rel.name = field.rel.name
                       /\ g.rel.to = model.name
                       /\ g.rel.toFields # field.rel.toFields
                       /\ g.rel.fields # field.rel.fields)

is_one_to_one(dm, model, field) ==
    LET opposite == opposite_sides(dm, model, field)
    IN  is_singular(field) /\ opposite # <<>> /\ is_singular(opposite[1])

referencing_columns(model, field) == DbNames(FieldsNamed(model, field.rel.fields))

referenced_columns(dm, field) == DbNames(FieldsNamed(find_model(dm, field.rel.to), field.rel.toFields))

referenced_table_name(dm, field) == final_database_name(find_model(dm, field.rel.to))
=============================================================================
