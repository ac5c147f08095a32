-------------------------- MODULE DatamodelConverter --------------------------
(***************************************************************************)
(* The relations of a datamodel, as the query engine and the schema        *)
(* calculator both derive them, and the internal data model templates the  *)
(* query engine is built from.                                             *)
(*                                                                         *)
(* Where the code panics a relation carries panic = TRUE.                  *)
(***************************************************************************)
EXTENDS Dml

\* The code's search for the other side.
RelatedFields(model, field, related_model) ==
    FindAll(related_model.fields,
            LAMBDA f : /\ is_relation(f)
                       /\ f.rel.to = model.name
                       /\ f.rel.name = field.rel.name
                       /\ (model.name = related_model.name => f.name # field.name))

Inline(model, field, referenced) ==
    [kind |-> "Inline", table |-> model.name, field |-> field.name, referenced |-> referenced]

RelationTable == [kind |-> "Table", table |-> "", field |-> "", referenced |-> <<>>]

\* Both sides give the fields they reference.
BothSidesReference(field, related) ==
    ~is_list(field) /\ ~is_list(related) /\ field.rel.toFields # <<>> /\ related.rel.toFields # <<>>

\* Mutant: a one-to-one relation is stored on one side, whatever it says.
OneToOneManifestationOnSide(this, other, otherwise) ==
    Inline(otherwise.m, otherwise.f, otherwise.f.rel.toFields)

\* A one-to-one relation is stored on the side that says what it references.
OneToOneManifestation(this, other, otherwise) ==
    CASE this.f.rel.toFields # <<>> -> Inline(this.m, this.f, this.f.rel.toFields)
      [] this.f.rel.toFields = <<>> /\ other.f.rel.toFields # <<>> ->
            Inline(other.m, other.f, other.f.rel.toFields)
      [] OTHER -> Inline(otherwise.m, otherwise.f, <<>>)

\* The relation a field belongs to.  Side A is the model with the smaller
\* name, in a self relation the field with the smaller name; its referenced
\* fields are swapped with those of side B when the field of a self relation
\* is side B.
relation_of(dm, model, field) ==
    LET related_model == find_model(dm, field.rel.to)
        found == RelatedFields(model, field, related_model)
        related == found[1]
        self == model.name = related_model.name
        this_is_a == IF self THEN NameLt(field.name, related.name) ELSE NameLt(model.name, related_model.name)
        this == [m |-> model, f |-> field]
        other == [m |-> related_model, f |-> related]
        a == IF this_is_a THEN this ELSE other
        b == IF this_is_a THEN other ELSE this
        referenced_a == IF self THEN field.rel.toFields ELSE a.f.rel.toFields
        referenced_b == IF self THEN related.rel.toFields ELSE b.f.rel.toFields
    IN  IF ~has_model(dm, field.rel.to) \/ found = <<>>
          THEN [name |-> field.rel.name, panic |-> TRUE]
          ELSE [name |-> field.rel.name, panic |-> BothSidesReference(field, related),
                model_a |-> a.m, model_b |-> b.m, field_a |-> a.f, field_b |-> b.f,
                manifestation |->
                    CASE is_list(a.f) /\ is_list(b.f) -> RelationTable
                      [] ~is_list(a.f) /\ is_list(b.f) -> Inline(a.m, a.f, referenced_a)
                      [] is_list(a.f) /\ ~is_list(b.f) -> Inline(b.m, b.f, referenced_b)
                      [] OTHER -> OneToOneManifestation(this, other, IF self THEN b ELSE a)]

relation_name(r) == IF r.name = "" THEN r.model_a.name \o "To" \o r.model_b.name ELSE r.name

table_name(r) == "_" \o relation_name(r)

AllRelations(dm) ==
    FlatMap(dm.models, LAMBDA model :
        MapSeq(FindAll(model.fields, is_relation), LAMBDA field : relation_of(dm, model, field)))

\* The first relation of each name.
calculate_relations(dm) == UniqueBy(AllRelations(dm), LAMBDA r : IF r.panic THEN "" ELSE relation_name(r))

ConverterPanics(dm) == Has(AllRelations(dm), LAMBDA r : r.panic)

-----------------------------------------------------------------------------
(* The templates of the query engine's data model.                         *)

is_for_model_and_field(r, model, field) ==
    (r.model_a = model /\ r.field_a = field) \/ (r.model_b = model /\ r.field_b = field)

relation_side(r, field) == IF field = r.field_a THEN "A" ELSE IF field = r.field_b THEN "B" ELSE "panic"

\* A @@unique or an @@index over one field makes the field unique.
is_unique_template(model, field) ==
    field.isUnique \/ Has(model.indices, LAMBDA ix : ix.fields = <<field.name>>)

is_id_template(model, field) == field.isId \/ model.idFields = <<field.name>>

\* A relation field without a relation makes the conversion panic.
convert_field(relations, model, field) ==
    LET mine == FindAll(relations, LAMBDA r : is_for_model_and_field(r, model, field))
    IN  IF is_relation(field)
          THEN IF mine = <<>>
                 THEN [name |-> field.name, kind |-> "panic"]
                 ELSE [name |-> field.name, kind |-> "relation", relation |-> relation_name(mine[1]),
                       side |-> relation_side(mine[1], field), info |-> field.rel,
                       isList |-> is_list(field), isRequired |-> is_required(field)]
          ELSE [name |-> field.name, kind |-> "scalar", db |-> field.db,
                isUnique |-> is_unique_template(model, field), isId |-> is_id_template(model, field),
                isList |-> is_list(field), isRequired |-> is_required(field)]

convert_indexes(model) == FindAll(model.indices, LAMBDA ix : Len(ix.fields) > 1)

convert(dm) ==
    LET relations == calculate_relations(dm)
    IN  [models |-> MapSeq(dm.models, LAMBDA model :
                        [name |-> model.name, db |-> model.db, idFields |-> model.idFields,
                         fields |-> MapSeq(model.fields, LAMBDA f : convert_field(relations, model, f)),
                         indexes |-> convert_indexes(model)]),
         relations |-> MapSeq(relations, LAMBDA r : [name |-> relation_name(r), manifestation |-> r.manifestation])]
=============================================================================
