------------------------------- MODULE Database -------------------------------
(***************************************************************************)
(* The queries of the SQL connector over a small relational database.      *)
(*                                                                         *)
(* A database is [tab, join]: for every model a function from the ids of   *)
(* its records to rows, and for every relation that has a table of its own *)
(* the set of pairs <<A, B>> of ids in it.  What the database server does  *)
(* by itself (constraints, what happens to rows that refer to a deleted    *)
(* row) follows the tables that the migration engine creates.              *)
(***************************************************************************)
EXTENDS QueryAst

CONSTANTS Models,      \* the names of the models
          MaxId        \* ids are 1..MaxId

AllIds == 1..MaxId

Inlined(m) == {r \in schema : r.inline # "join" /\ r[r.inline] = m}

FieldsOf(m) == {"id", "v"} \cup {r.name : r \in Inlined(m)}

Joins == {r \in schema : r.inline = "join"}

-----------------------------------------------------------------------------
(* Constraints.                                                            *)

\* The foreign key of r: not null if required, refers to a row, and is
\* unique in a one-to-one relation.
KeyHolds(db, r) ==
    LET rows == db.tab[r[r.inline]]
        target == db.tab[r[Other(r.inline)]]
    IN  /\ \A i \in DOMAIN rows :
              IF rows[i][r.name] = Null THEN ~r.req[r.inline]
                                        ELSE rows[i][r.name] \in DOMAIN target
        /\ ~r.list[Other(r.inline)] =>
              \A i, j \in DOMAIN rows :
                  i # j /\ rows[i][r.name] = rows[j][r.name] => rows[i][r.name] = Null

Constraints(db) ==
    /\ \A r \in schema \ Joins : KeyHolds(db, r)
    /\ \A r \in Joins : db.join[r.name] \subseteq (DOMAIN db.tab[r.A]) \X (DOMAIN db.tab[r.B])

\* The links of a relation: pairs <<A, B>> of ids.
Links(db, r) ==
    IF r.inline = "join"
    THEN db.join[r.name]
    ELSE LET rows == db.tab[r[r.inline]]
             set == {i \in DOMAIN rows : rows[i][r.name] # Null}
         IN  IF r.inline = "A" THEN {<<i, rows[i][r.name]>> : i \in set}
                               ELSE {<<rows[i][r.name], i>> : i \in set}

\* The rows that go when those in gone go: a required key cascades.
RECURSIVE Cascade(_, _)
Cascade(db, gone) ==
    LET more == UNION {{<<r[r.inline], i>> : i \in {j \in DOMAIN db.tab[r[r.inline]] :
                            <<r[Other(r.inline)], db.tab[r[r.inline]][j][r.name]>> \in gone}}
                       : r \in {s \in schema \ Joins : s.req[s.inline]}}
    IN  IF more \subseteq gone THEN gone ELSE Cascade(db, gone \cup more)

\* Deletes rows, those that cascade, the links to them in relation tables, and
\* sets the optional keys that refer to them to null.
Delete(db, m, ids) ==
    LET gone == Cascade(db, {<<m, i>> : i \in ids \cap DOMAIN db.tab[m]})
        Left(n) == {i \in DOMAIN db.tab[n] : <<n, i>> \notin gone}
        Key(r, k) == IF <<r[Other(r.inline)], k>> \in gone THEN Null ELSE k
        Row(n, i) == [x \in FieldsOf(n) |->
                         IF \E r \in Inlined(n) : r.name = x
                         THEN Key(CHOOSE r \in Inlined(n) : r.name = x, db.tab[n][i][x])
                         ELSE db.tab[n][i][x]]
        Rel(x) == CHOOSE r \in Joins : r.name = x
    IN  [tab |-> [n \in Models |-> [i \in Left(n) |-> Row(n, i)]],
         join |-> [x \in DOMAIN db.join |->
                      {p \in db.join[x] : <<Rel(x).A, p[1]>> \notin gone /\ <<Rel(x).B, p[2]>> \notin gone}]]

-----------------------------------------------------------------------------
(* Results of queries.                                                     *)

Id(ps) == [t |-> "Id", ps |-> ps]

RecordSelection(rows) == [t |-> "RecordSelection", ps |-> rows]

Count(n) == [t |-> "Count", n |-> n]

Unit == [t |-> "Unit"]

Done(db, res) == [db |-> db, res |-> res, err |-> "none"]

Rejected(db, err) == [db |-> db, res |-> Unit, err |-> err]

\* A statement of the database fails as a whole.
Checked(old, new, res) ==
    IF Constraints(new) THEN Done(new, res) ELSE Rejected(old, "ConstraintViolation")

\* Selectors are used as they are, another filter is evaluated.
filter_selectors(db, m, filter) ==
    IF filter.tag = "Selectors"
    THEN {p["id"] : p \in filter.ps}
    ELSE {i \in DOMAIN db.tab[m] : Matches(db.tab[m][i], filter)}

Select(db, m, filter, sel) ==
    {Project(db.tab[m][i], sel) : i \in {j \in DOMAIN db.tab[m] : Matches(db.tab[m][j], filter)}}

get_related_m2m_record_ids(db, f, parents) ==
    {IF f.side = "A" THEN p[2] ELSE p[1] : p \in {q \in db.join[f.rel.name] :
        \E x \in parents : x["id"] = IF f.side = "A" THEN q[1] ELSE q[2]}}

\* Children whose link equals a link of a parent that is not null.
one2m(db, f, parents) ==
    LET links == {p[x] : p \in parents, x \in linking_fields(f)} \ {Null}
        child == db.tab[related_model(f)]
    IN  {i \in DOMAIN child : \E x \in linking_fields(related_field(f)) : child[i][x] \in links}

read_related(db, q) ==
    LET m == related_model(q.field)
        ids == IF is_many_to_many(q.field)
               THEN get_related_m2m_record_ids(db, q.field, q.parents)
               ELSE one2m(db, q.field, q.parents)
    IN  {Project(db.tab[m][i], q.sel) : i \in {j \in ids : Matches(db.tab[m][j], q.filter)}}

read_execute(db, q) ==
    RecordSelection(IF q.q = "RelatedRecordsQuery" THEN read_related(db, q)
                    ELSE Select(db, q.model, q.filter, q.sel))

-----------------------------------------------------------------------------
(* Writes.  fresh are the ids a new record may have.                       *)

create_record_in(db, q, fresh) ==
    LET id == CHOOSE i \in fresh : \A j \in fresh : i <= j
        row == [x \in FieldsOf(q.model) |->
                   IF x = "id" THEN id ELSE IF x \in DOMAIN q.args THEN q.args[x] ELSE Null]
        old == db.tab[q.model]
        new == [i \in DOMAIN old \cup {id} |-> IF i = id THEN row ELSE old[i]]
    IN  Checked(db, [db EXCEPT !.tab[q.model] = new], Id({IdOf(id)}))

\* The ids are returned whether or not they still exist.
update_records(db, q) ==
    LET ids == filter_selectors(db, q.model, q.filter)
        Set(row) == [x \in DOMAIN row |-> IF x \in DOMAIN q.args THEN q.args[x] ELSE row[x]]
        old == db.tab[q.model]
        new == [i \in DOMAIN old |-> IF i \in ids THEN Set(old[i]) ELSE old[i]]
    IN  Checked(db, [db EXCEPT !.tab[q.model] = new],
                IF q.q = "UpdateRecord" THEN Id({IdOf(i) : i \in ids}) ELSE Count(Cardinality(ids)))

delete_records(db, q) ==
    LET ids == filter_selectors(db, q.model, q.filter)
    IN  Done(Delete(db, q.model, ids), Count(Cardinality(ids)))

\* The pairs of a ConnectRecords or DisconnectRecords query.
Pairs(q) ==
    {IF q.field.side = "A" THEN <<p["id"], c["id"]>> ELSE <<c["id"], p["id"]>> :
        p \in q.parent_id, c \in q.child_ids}

write_execute(db, q, fresh) ==
    CASE q.q = "CreateRecord" -> create_record_in(db, q, fresh)
      [] q.q \in {"UpdateRecord", "UpdateManyRecords"} -> update_records(db, q)
      [] q.q = "DeleteRecord" -> IF q.filter = EmptyFilter
                                 THEN Rejected(db, "InterpretationError")
                                 ELSE delete_records(db, q)
      [] q.q = "DeleteManyRecords" -> delete_records(db, q)
      [] q.q = "ConnectRecords" ->
            Checked(db, [db EXCEPT !.join[q.field.rel.name] = @ \cup Pairs(q)], Unit)
      [] q.q = "DisconnectRecords" ->
            Done([db EXCEPT !.join[q.field.rel.name] = @ \ Pairs(q)], Unit)
=============================================================================
