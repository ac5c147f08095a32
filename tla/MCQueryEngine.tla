---------------------------- MODULE MCQueryEngine ----------------------------
(* Schemas, databases and requests for QueryEngine. *)
EXTENDS QueryEngine

CONSTANT Ids   \* the ids of the records a run starts with

-----------------------------------------------------------------------------
(* Relations of every cardinality, with the foreign key on either side.    *)

Relation(name, a, b, alist, blist, areq, breq, inline) ==
    [name |-> name, A |-> a, B |-> b, list |-> [A |-> alist, B |-> blist],
     req |-> [A |-> areq, B |-> breq], inline |-> inline]

OneToOne(name, a, b) ==
    {Relation(name, a, b, FALSE, FALSE, x, y, i) : x, y \in BOOLEAN, i \in {"A", "B"}}

OneToMany(name, a, b) ==
    {Relation(name, a, b, TRUE, FALSE, FALSE, x, "B") : x \in BOOLEAN} \cup
    {Relation(name, a, b, FALSE, TRUE, x, FALSE, "A") : x \in BOOLEAN}

ManyToMany(name, a, b) == {Relation(name, a, b, TRUE, TRUE, FALSE, FALSE, "join")}

AnyRelation(name, a, b) == OneToOne(name, a, b) \cup OneToMany(name, a, b) \cup ManyToMany(name, a, b)

-----------------------------------------------------------------------------
(* Databases with given links that respect the schema.                     *)

PartnersOf(links, s, i) == {IF s = "A" THEN p[2] ELSE p[1] : p \in {q \in links : q[IF s = "A" THEN 1 ELSE 2] = i}}

Respects(r, ids, links) ==
    \A s \in {"A", "B"} : ~r.list[s] =>
        \A i \in ids[r[s]] :
            /\ Cardinality(PartnersOf(links, s, i)) <= 1
            /\ r.req[s] => PartnersOf(links, s, i) # {}

LinksFor(r, ids) == {l \in SUBSET (ids[r.A] \X ids[r.B]) : Respects(r, ids, l)}

\* links: a function from the names of the relations to sets of pairs.
MakeDatabase(sch, ids, links) ==
    LET Key(r, i) == LET p == PartnersOf(links[r.name], r.inline, i)
                     IN  IF p = {} THEN Null ELSE CHOOSE x \in p : TRUE
        Keys(m) == {q \in sch : q.inline # "join" /\ q[q.inline] = m}
        Row(m, i) == [x \in {"id", "v"} \cup {r.name : r \in Keys(m)} |->
                         CASE x = "id" -> i
                           [] x = "v" -> 0
                           [] OTHER -> Key(CHOOSE r \in sch : r.name = x, i)]
    IN  [tab |-> [m \in Models |-> [i \in ids[m] |-> Row(m, i)]],
         join |-> [x \in {r.name : r \in {q \in sch : q.inline = "join"}} |-> links[x]]]

\* All databases of the data model with records out of Ids.
AllDatabases(sch) ==
    LET names == {r.name : r \in sch}
        Rel(x) == CHOOSE r \in sch : r.name = x
        Wired(ids) == {l \in [names -> SUBSET (Ids \X Ids)] :
                          \A x \in names : l[x] \in LinksFor(Rel(x), ids)}
    IN  UNION {{MakeDatabase(sch, ids, l) : l \in Wired(ids)} : ids \in [Models -> SUBSET Ids]}

-----------------------------------------------------------------------------
(* Nested operations the input types of the schema allow on a field.       *)

Data(nested) == [args |-> [v |-> 1], nested |-> nested]

Plain == Data(<<>>)

Op(f, op, val) == [field |-> f, op |-> op, val |-> val]

WhereIds(f) == IF is_list(f) THEN Ids ELSE {0}

InCreate(f) ==
    {Op(f, "create", <<Plain>>)}
    \cup {Op(f, "connect", {i}) : i \in Ids}
    \cup IF is_list(f)
         THEN {Op(f, "create", <<Plain, Plain>>), Op(f, "connect", Ids), Op(f, "connect", {})}
         ELSE {}

InUpdate(f) ==
    InCreate(f)
    \cup {Op(f, "update", <<[where |-> i, data |-> Plain]>>) : i \in WhereIds(f)}
    \cup {Op(f, "upsert", <<[where |-> i, create |-> Plain, update |-> Plain]>>) : i \in WhereIds(f)}
    \cup IF is_list(f)
         THEN {Op(f, o, s) : o \in {"set", "disconnect"}, s \in SUBSET Ids}
              \cup {Op(f, "delete", s) : s \in {<<i>> : i \in Ids} \cup {<<i, j>> : i, j \in Ids}}
              \cup {Op(f, "updateMany", <<[filter |-> EmptyFilter, args |-> [v |-> 1]]>>),
                    Op(f, "deleteMany", <<EmptyFilter>>)}
         ELSE IF is_required(f) THEN {}
         ELSE {Op(f, o, b) : o \in {"delete", "disconnect"}, b \in BOOLEAN}

CreateData(f) == {Data(<<n>>) : n \in InCreate(f)} \cup IF is_required(f) THEN {} ELSE {Plain}

UpdateData(f) == {Data(<<n>>) : n \in InUpdate(f)} \cup {Plain}

Named(sch, x) == CHOOSE r \in sch : r.name = x

Columns(f) == {"id", "v"} \cup IF relation_is_inlined_in_parent(f) THEN {f.rel.name} ELSE {}

CreateOne(m, data, sel) == [op |-> "createOne", model |-> m, data |-> data, sel |-> sel]

UpdateOne(m, data, sel) == [op |-> "updateOne", model |-> m, where |-> 1, data |-> data, sel |-> sel]

UpsertOne(m, create, update, sel) ==
    [op |-> "upsertOne", model |-> m, where |-> 1, create |-> create, update |-> update, sel |-> sel]

-----------------------------------------------------------------------------
(* One relation of every kind, one nested operation.                       *)

SingleSchemas == {{r} : r \in AnyRelation("r", "A", "B")}

SingleRequests(sch) ==
    LET f == Fld(Named(sch, "r"), "A")
        m == model(f)
        sel == Columns(f)
        SomeCreate == IF is_required(f) THEN Data(<<Op(f, "create", <<Plain>>)>>) ELSE Plain
    IN  {CreateOne(m, d, sel) : d \in CreateData(f)}
        \cup {UpdateOne(m, d, sel) : d \in UpdateData(f)}
        \cup {UpsertOne(m, c, Plain, sel) : c \in CreateData(f)}
        \cup {UpsertOne(m, SomeCreate, u, sel) : u \in UpdateData(f)}
        \cup {[op |-> "deleteOne", model |-> m, where |-> 1, sel |-> s] : s \in {sel, {"id", "v"}}}
        \cup {[op |-> "deleteMany", model |-> m, filter |-> EmptyFilter],
              [op |-> "updateMany", model |-> m, filter |-> EmptyFilter, data |-> Plain]}

-----------------------------------------------------------------------------
(* Two operations on a list.                                               *)

ListOps(f, i) ==
    {Op(f, "create", <<Plain>>), Op(f, "connect", {i}), Op(f, "set", {i}), Op(f, "disconnect", {i}),
     Op(f, "delete", <<i>>), Op(f, "update", <<[where |-> i, data |-> Plain]>>),
     Op(f, "upsert", <<[where |-> i, create |-> Plain, update |-> Plain]>>),
     Op(f, "updateMany", <<[filter |-> EmptyFilter, args |-> [v |-> 1]]>>),
     Op(f, "deleteMany", <<EmptyFilter>>)}

ListRequests(sch) ==
    LET f == Fld(Named(sch, "r"), "A")
    IN  {UpdateOne(model(f), Data(<<x, y>>), Columns(f)) :
            x \in ListOps(f, 1), y \in UNION {ListOps(f, i) : i \in Ids}}

OneRelationRequests(sch) ==
    SingleRequests(sch) \cup IF Named(sch, "r").list["A"] THEN ListRequests(sch) ELSE {}

-----------------------------------------------------------------------------
(* Two relations in a row, A to B to C, and two relations of one model.    *)

ChainSchemas == {{r, s} : r \in AnyRelation("r", "A", "B"), s \in AnyRelation("s", "B", "C")}

\* The new child of an update holds the key of a one-to-one relation, and the
\* query for its own child may be swapped with it.
Reordered(f, g) ==
    /\ is_one_to_one(f) /\ ~relation_is_inlined_in_parent(f)
    /\ relation_is_inlined_in_parent(g) \/ is_one_to_one(g)

ChainRequests(sch) ==
    LET f == Fld(Named(sch, "r"), "A")
        g == Fld(Named(sch, "s"), "A")
        SomeCreate == CHOOSE d \in CreateData(g) : d = Plain \/ d = Data(<<Op(g, "create", <<Plain>>)>>)
        NewChild == {Data(<<Op(f, "create", <<d>>)>>) : d \in CreateData(g)}
        Changed == {Data(<<Op(f, "update", <<[where |-> 1, data |-> d]>>)>>) : d \in UpdateData(g)}
        Upserted(c, u) == Data(<<Op(f, "upsert", <<[where |-> 1, create |-> c, update |-> u]>>)>>)
    IN  {CreateOne("A", d, Columns(f)) : d \in NewChild}
        \cup {UpdateOne("A", d, Columns(f)) :
                 d \in (IF Reordered(f, g) THEN {} ELSE NewChild) \cup Changed
                       \cup {Upserted(SomeCreate, u) : u \in UpdateData(g)}
                       \cup {Upserted(c, Plain) : c \in CreateData(g)}}

\* The requests ChainRequests leaves out.
ReorderedSchemas ==
    {sch \in ChainSchemas : Reordered(Fld(Named(sch, "r"), "A"), Fld(Named(sch, "s"), "A"))}

ReorderedRequests(sch) ==
    LET f == Fld(Named(sch, "r"), "A")
        g == Fld(Named(sch, "s"), "A")
    IN  {UpdateOne("A", Data(<<Op(f, "create", <<d>>)>>), Columns(f)) : d \in CreateData(g)}

ForkSchemas == {{r, s} : r \in AnyRelation("r", "A", "B"), s \in AnyRelation("s", "A", "C")}

ForkRequests(sch) ==
    LET f == Fld(Named(sch, "r"), "A")
        g == Fld(Named(sch, "s"), "A")
        sel == Columns(f) \cup Columns(g)
        Both == {Data(<<x, y>>) : x \in InCreate(f), y \in InCreate(g)}
    IN  {CreateOne("A", d, sel) : d \in Both} \cup {UpdateOne("A", d, sel) : d \in Both}
        \cup {[op |-> "deleteOne", model |-> "A", where |-> 1, sel |-> sel]}

TwoRelationSchemas == ChainSchemas \cup ForkSchemas

TwoRelationRequests(sch) == IF Named(sch, "s").A = "B" THEN ChainRequests(sch) ELSE ForkRequests(sch)
=============================================================================
