---------------------------- MODULE WriteSemantics ----------------------------
(***************************************************************************)
(* What a write request means, independently of how it is executed: a      *)
(* function on records and links.  The state is [rec, links]: for every    *)
(* model the values of its records by id, for every relation its pairs     *)
(* <<A, B>> of ids, wherever they are stored.                              *)
(***************************************************************************)
EXTENDS Database, FiniteSetsExt

Abstract(db) ==
    [rec |-> [m \in Models |-> [i \in DOMAIN db.tab[m] |-> db.tab[m][i]["v"]]],
     links |-> [x \in {r.name : r \in schema} |-> Links(db, CHOOSE r \in schema : r.name = x)],
     used |-> [m \in Models |-> DOMAIN db.tab[m]]]

Pair(f, parent, child) == IF f.side = "A" THEN <<parent, child>> ELSE <<child, parent>>

Children(s, f, parent) == {c \in AllIds : Pair(f, parent, c) \in s.links[f.rel.name]}

\* A single link gives way to a new one, on both sides.
Link(s, f, parent, child) ==
    LET old == {p \in s.links[f.rel.name] :
                   \/ ~is_list(f) /\ \E c \in AllIds : p = Pair(f, parent, c)
                   \/ ~is_list(related_field(f)) /\ \E q \in AllIds : p = Pair(f, q, child)}
    IN  [s EXCEPT !.links[f.rel.name] = (@ \ old) \cup {Pair(f, parent, child)}]

Unlink(s, f, parent, children) ==
    [s EXCEPT !.links[f.rel.name] = @ \ {Pair(f, parent, c) : c \in children}]

LinkAll(s, f, parent, children) ==
    FoldSet(LAMBDA c, t : Link(t, f, parent, c), s, children)

RemoveRecords(s, m, ids) ==
    [s EXCEPT
     !.rec[m] = [i \in DOMAIN @ \ ids |-> @[i]],
     !.links = [x \in DOMAIN s.links |->
                   LET r == CHOOSE q \in schema : q.name = x
                   IN  {p \in s.links[x] : ~(r.A = m /\ p[1] \in ids) /\ ~(r.B = m /\ p[2] \in ids)}]]

Assign(s, m, ids, args) ==
    [s EXCEPT !.rec[m] = [i \in ids \cap DOMAIN @ |-> args["v"]] @@ @]

\* The id the next record of a model gets; ids are never used again.
NextId(s, m) == Min(AllIds \ s.used[m])

RECURSIVE ApplyNested(_, _, _, _)

Create(s, m, data) ==
    LET id == NextId(s, m)
        t == [s EXCEPT !.rec[m] = (id :> data.args["v"]) @@ @, !.used[m] = @ \cup {id}]
    IN  ApplyNested(t, m, id, data.nested)

Update(s, m, id, data) == ApplyNested(Assign(s, m, {id}, data.args), m, id, data.nested)

CreateChild(s, f, parent, data) ==
    Link(Create(s, related_model(f), data), f, parent, NextId(s, related_model(f)))

\* The child an update or upsert is about: the given one, or the only one.
Addressed(s, f, parent, where) ==
    Children(s, f, parent) \cap IF is_list(f) THEN {where} ELSE AllIds

Filtered(s, f, parent, filter) ==
    {c \in Children(s, f, parent) : Matches([v |-> s.rec[related_model(f)][c], id |-> c], filter)}

\* "disconnect: false" is an instruction to do nothing in a one-to-one
\* relation; on the single side of a one-to-many relation the engine does not
\* look at the value.
Disconnected(s, f, parent, val) ==
    IF is_list(f) THEN val
    ELSE IF is_one_to_one(f) /\ ~val THEN {} ELSE Children(s, f, parent)

Deleted(s, f, parent, val) ==
    IF is_list(f) THEN ToSet(val) ELSE IF val THEN Children(s, f, parent) ELSE {}

ApplyOne(s, m, parent, n) ==
    LET f == n.field
        child == related_model(f)
    IN  CASE n.op = "create" -> FoldLeft(LAMBDA t, d : CreateChild(t, f, parent, d), s, n.val)
          [] n.op = "connect" -> LinkAll(s, f, parent, n.val)
          [] n.op = "set" -> LinkAll(Unlink(s, f, parent, Children(s, f, parent) \ n.val), f, parent,
                                     {c \in n.val : c \in DOMAIN s.rec[child]})
          [] n.op = "disconnect" -> Unlink(s, f, parent, Disconnected(s, f, parent, n.val))
          [] n.op = "delete" -> RemoveRecords(s, child, Deleted(s, f, parent, n.val))
          [] n.op = "update" ->
                FoldLeft(LAMBDA t, u : FoldLeft(LAMBDA x, c : Update(x, child, c, u.data), t,
                                                SetToSeq(Addressed(t, f, parent, u.where))), s, n.val)
          [] n.op = "upsert" ->
                FoldLeft(LAMBDA t, u : IF Addressed(t, f, parent, u.where) = {}
                                       THEN CreateChild(t, f, parent, u.create)
                                       ELSE Update(t, child, Min(Addressed(t, f, parent, u.where)), u.update),
                         s, n.val)
          [] n.op = "updateMany" ->
                FoldLeft(LAMBDA t, u : Assign(t, child, Filtered(t, f, parent, u.filter), u.args), s, n.val)
          [] n.op = "deleteMany" ->
                FoldLeft(LAMBDA t, u : RemoveRecords(t, child, Filtered(t, f, parent, u)), s, n.val)

ApplyNested(s, m, parent, nested) ==
    FoldLeft(LAMBDA t, n : ApplyOne(t, m, parent, n), s, nested)

Selected(s, m, filter) == {i \in DOMAIN s.rec[m] : Matches([v |-> s.rec[m][i], id |-> i], filter)}

Effect(s, req) ==
    LET m == req.model
    IN  CASE req.op = "createOne" -> Create(s, m, req.data)
          [] req.op = "updateOne" -> Update(s, m, req.where, req.data)
          [] req.op = "upsertOne" -> IF req.where \in DOMAIN s.rec[m]
                                     THEN Update(s, m, req.where, req.update)
                                     ELSE Create(s, m, req.create)
          [] req.op = "deleteOne" -> RemoveRecords(s, m, {req.where})
          [] req.op = "deleteMany" -> RemoveRecords(s, m, Selected(s, m, req.filter))
          [] req.op = "updateMany" -> Assign(s, m, Selected(s, m, req.filter), req.data.args)

-----------------------------------------------------------------------------
(* What the data model demands of records and links.                       *)

Partners(s, r, side, i) == Children(s, Fld(r, side), i)

\* Links are between records, a single side has one at most, a required side
\* has one.
Demands(s, r) ==
    /\ s.links[r.name] \subseteq (DOMAIN s.rec[r.A]) \X (DOMAIN s.rec[r.B])
    /\ \A side \in {"A", "B"} : ~r.list[side] =>
          \A i \in DOMAIN s.rec[r[side]] :
              /\ Cardinality(Partners(s, r, side, i)) <= 1
              /\ r.req[side] => Partners(s, r, side, i) # {}

Consistent(s) == \A r \in schema : Demands(s, r)

-----------------------------------------------------------------------------
(* Requests the engine has no reason to reject.                            *)

\* The engine is stricter than it has to be: it does not accept an empty list
\* of records to disconnect, a record listed twice for deletion, and, if a
\* side of a one-to-one relation is required, the connection that is there.
Strict(s, f, parent, n) ==
    CASE n.op = "disconnect" /\ is_list(f) -> n.val = {}
      [] n.op = "delete" /\ is_list(f) -> ~IsInjective(n.val)
      [] n.op = "connect" /\ is_one_to_one(f) -> /\ is_required(f) \/ is_required(related_field(f))
                                                /\ n.val \cap Children(s, f, parent) # {}
      [] OTHER -> FALSE

\* The records an operation names are there, and connected where they have to be.
Meaningful(s, f, parent, n) ==
    LET there == Children(s, f, parent)
    IN  CASE n.op \in {"connect", "set"} -> n.val \subseteq DOMAIN s.rec[related_model(f)]
          [] n.op = "disconnect" -> IF is_list(f) THEN n.val \subseteq there
                                    ELSE there # {} \/ (is_one_to_one(f) /\ ~n.val)
          [] n.op = "delete" -> IF is_list(f) THEN ToSet(n.val) \subseteq there ELSE n.val => there # {}
          [] n.op = "update" -> \A i \in DOMAIN n.val : Addressed(s, f, parent, n.val[i].where) # {}
          [] OTHER -> TRUE

\* Every operation finds what it needs after those before it.
Sensible(s, m, id, nested) ==
    \A i \in DOMAIN nested :
        LET t == ApplyNested(s, m, id, SubSeq(nested, 1, i - 1))
            n == nested[i]
        IN  Meaningful(t, n.field, id, n) /\ ~Strict(t, n.field, id, n)

Legal(s, req) ==
    LET m == req.model
        Creating(data) == Sensible(Create(s, m, [data EXCEPT !.nested = <<>>]), m, NextId(s, m), data.nested)
        Updating(data) == req.where \in DOMAIN s.rec[m] /\ Sensible(s, m, req.where, data.nested)
    IN  /\ CASE req.op = "createOne" -> Creating(req.data)
             [] req.op = "updateOne" -> Updating(req.data)
             [] req.op = "upsertOne" -> IF req.where \in DOMAIN s.rec[m] THEN Updating(req.update) ELSE Creating(req.create)
             [] req.op = "deleteOne" -> req.where \in DOMAIN s.rec[m]
             [] OTHER -> TRUE
        /\ Consistent(Effect(s, req))
=============================================================================
