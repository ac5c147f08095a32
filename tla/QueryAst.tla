------------------------------- MODULE QueryAst -------------------------------
(***************************************************************************)
(* The internal data model the query engine works with, and the queries,   *)
(* filters and dependencies a query graph is made of.                      *)
(*                                                                         *)
(* A relation is a record                                                  *)
(*   [name, A, B       -- its name and the models of its two sides         *)
(*    list, req        -- per side: is the field on that side a list, is   *)
(*                        it required                                      *)
(*    inline]          -- the side whose table holds the foreign key, or   *)
(*                        "join" for a relation table                      *)
(* and a relation field is a relation seen from one of its sides.  Every   *)
(* model has the fields "id" and "v" and one field for each relation that  *)
(* is inlined in it, named like the relation.  Relations refer to ids.     *)
(***************************************************************************)
EXTENDS Naturals, Sequences, FiniteSets, SequencesExt

CONSTANT Null     \* the null value of a foreign key

VARIABLE schema   \* the relations of the data model; they never change

Fld(r, s) == [rel |-> r, side |-> s]

Other(s) == IF s = "A" THEN "B" ELSE "A"

model(f) == f.rel[f.side]

related_field(f) == [f EXCEPT !.side = Other(@)]

related_model(f) == model(related_field(f))

is_list(f) == f.rel.list[f.side]

is_required(f) == f.rel.req[f.side]

is_many_to_many(f) == is_list(f) /\ is_list(related_field(f))

is_one_to_one(f) == ~is_list(f) /\ ~is_list(related_field(f))

is_one_to_many(f) == ~is_many_to_many(f) /\ ~is_one_to_one(f)

relation_is_inlined_in_parent(f) == f.rel.inline = f.side

\* The fields of the model of f that link its records to related records.
linking_fields(f) ==
    IF relation_is_inlined_in_parent(f) THEN {f.rel.name} ELSE {"id"}

relation_fields == {Fld(r, s) : r \in schema, s \in {"A", "B"}}

fields_requiring_model(m) ==
    {f \in relation_fields : related_model(f) = m /\ is_required(f) /\ ~is_list(f)}

primary_identifier == {"id"}

-----------------------------------------------------------------------------
(* Projections and filters.  A record projection is a function from field  *)
(* names to values.                                                        *)

\* The values of p under the (single) name of the fields: ModelProjection::assimilate.
assimilate(fields, p) == [x \in fields |-> p[CHOOSE y \in DOMAIN p : TRUE]]

empty_record_projection(fields) == [x \in fields |-> Null]

Project(row, fields) == [x \in fields |-> row[x]]

IdOf(i) == [x \in primary_identifier |-> i]

EmptyFilter == [tag |-> "Empty", ps |-> {}]

Scalar(p) == [tag |-> "Scalar", ps |-> {p}]

AndFilter(ps) == [tag |-> "And", ps |-> ps]

OrFilter(ps) == [tag |-> "Or", ps |-> ps]

\* RecordFilter with precomputed selectors: the ids are used as they are.
Selectors(ps) == [tag |-> "Selectors", ps |-> ps]

size(filter) == Cardinality(filter.ps)

Matches(row, filter) ==
    LET Has(p) == \A x \in DOMAIN p : row[x] = p[x]
    IN  CASE filter.tag = "Empty" -> TRUE
          [] filter.tag \in {"Scalar", "And"} -> \A p \in filter.ps : Has(p)
          [] OTHER -> \E p \in filter.ps : Has(p)

\* FilteredQuery::add_filter: what is added to a plain comparison widens it.
add_filter(old, p) ==
    CASE old.tag = "Empty" -> AndFilter({p})
      [] old.tag \in {"And", "Or"} -> [old EXCEPT !.ps = @ \cup {p}]
      [] OTHER -> OrFilter(old.ps \cup {p})

-----------------------------------------------------------------------------
(* The content of nodes.                                                   *)

RecordQuery(m, filter, sel) ==
    [q |-> "RecordQuery", model |-> m, filter |-> filter, sel |-> sel]

ManyRecordsQuery(m, filter, sel) ==
    [q |-> "ManyRecordsQuery", model |-> m, filter |-> filter, sel |-> sel]

RelatedRecordsQuery(f, filter, sel) ==
    [q |-> "RelatedRecordsQuery", model |-> related_model(f), field |-> f,
     filter |-> filter, sel |-> sel, parents |-> {}]

CreateRecord(m, args) == [q |-> "CreateRecord", model |-> m, args |-> args]

UpdateRecord(m, filter, args) ==
    [q |-> "UpdateRecord", model |-> m, filter |-> filter, args |-> args]

UpdateManyRecords(m, filter, args) ==
    [q |-> "UpdateManyRecords", model |-> m, filter |-> filter, args |-> args]

\* filter = EmptyFilter stands for the record_filter None.
DeleteRecord(m, filter) == [q |-> "DeleteRecord", model |-> m, filter |-> filter]

DeleteManyRecords(m, filter) == [q |-> "DeleteManyRecords", model |-> m, filter |-> filter]

\* parent_id is the set of at most one id.
ConnectRecords(f) ==
    [q |-> "ConnectRecords", model |-> model(f), field |-> f, parent_id |-> {}, child_ids |-> {}]

DisconnectRecords(f) == [ConnectRecords(f) EXCEPT !.q = "DisconnectRecords"]

IfNode == [q |-> "If", cond |-> TRUE]

DiffNode == [q |-> "Diff", left |-> {}, right |-> {}]

EmptyNode == [q |-> "Empty"]

Reads == {"RecordQuery", "ManyRecordsQuery", "RelatedRecordsQuery"}

Updates == {"CreateRecord", "UpdateRecord", "UpdateManyRecords"}

Writes == Updates \cup {"DeleteRecord", "DeleteManyRecords", "ConnectRecords", "DisconnectRecords"}

IsQuery(n) == n.q \in Reads \cup Writes

\* Query::returns: can the projection be taken from the result of the query?
returns(n, proj) ==
    IF n.q \in Reads
    THEN proj \subseteq n.sel
    ELSE n.q \in Updates \cup {"DeleteRecord"} /\ proj = primary_identifier

inject_projection_into_args(n, p) ==
    IF n.q \in Updates THEN [n EXCEPT !.args = [x \in DOMAIN p \cup DOMAIN @ |->
                                IF x \in DOMAIN p THEN p[x] ELSE @[x]]]
                       ELSE n
=============================================================================
