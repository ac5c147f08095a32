-------------------------- MODULE MCRequestHandling --------------------------
(***************************************************************************)
(* Instances of RequestHandling: two clients whose requests compete for    *)
(* the connections of the pool, and batches of findOne queries over a      *)
(* model with an id, another unique column and a compound unique key.      *)
(***************************************************************************)
EXTENDS RequestHandling, TLC

CONSTANTS r1, r2, c1, c2

MCColumnType == [id |-> "Int", at |-> "DateTime", a |-> "Int", b |-> "Int"]

Row(id, a, b) == [id |-> id, at |-> id, a |-> a, b |-> b]
Table == {Row(1, 1, 1), Row(2, 1, 2), Row(3, 2, 1)}

-----------------------------------------------------------------------------
(* Queries.                                                                *)

Written(type, value) == [type |-> type, form |-> "canonical", value |-> value]
ById(value) == [compound |-> FALSE, pairs |-> <<<<"id", Written("Int", value)>>>>]
ByTime(value, form) ==
    [compound |-> FALSE, pairs |-> <<<<"at", [type |-> "DateTime", form |-> form, value |-> value]>>>>]
ByKey(a, b) ==
    [compound |-> TRUE, pairs |-> <<<<"a", Written("Int", a)>>, <<"b", Written("Int", b)>>>>]
BadId == [compound |-> FALSE, pairs |-> <<<<"id", Written("String", 1)>>>>]

Related(names) == [name |-> "rel", alias |-> NoAlias, arguments |-> <<>>, nested |-> names]

FindOne(where, nested) ==
    [type |-> "Read", name |-> <<"findOne", "X">>, alias |-> NoAlias, where |-> where, nested |-> nested,
     rows |-> <<>>]
Aliased(op) == [op EXCEPT !.alias = "other"]
Change(type, valid, rows) ==
    [type |-> type, name |-> <<"createOne", "X">>, alias |-> NoAlias, where |-> Absent, nested |-> <<>>,
     valid |-> valid, rows |-> rows]

Create == Change("Write", TRUE, <<Row(1, 1, 1), Row(2, 1, 2)>>)
Update == Change("Write", TRUE, <<Row(3, 2, 1), Row(4, 2, 2)>>)
Refused == Change("Write", FALSE, <<Row(5, 3, 3)>>)
Raw == Change("Raw", TRUE, <<Row(6, 3, 1)>>)
ReadById == FindOne(ById(2), <<Scalar("id"), Scalar("at")>>)
ReadByKey == FindOne(ByKey(2, 1), <<Scalar("at"), Scalar("id")>>)

Both == [compound |-> FALSE, pairs |-> ById(1).pairs \o ByTime(1, "canonical").pairs]

Definition(name, ops) == [name |-> name, supported |-> TRUE, operations |-> ops]
Fragment == [name |-> NoName, supported |-> FALSE, operations |-> <<>>]
Query(op) == [definitions |-> <<Definition(NoName, <<op>>)>>, operation |-> NoName]
Unsupported == [definitions |-> <<Definition(NoName, <<Create>>), Fragment>>, operation |-> NoName]
Empty == [definitions |-> <<>>, operation |-> NoName]

\* The named definition is taken beside others, one of them not supported.
Named(name) ==
    [definitions |-> <<Definition("Q", <<Refused, Update>>), Fragment, Definition("Q", <<Create>>)>>,
     operation |-> name]

Batch(ops) == try_from([kind |-> "Multi", queries |-> [i \in DOMAIN ops |-> Query(ops[i])]])
Single(op) == try_from([kind |-> "Single", queries |-> <<Query(op)>>])
NamedBatch(name) == try_from([kind |-> "Multi", queries |-> <<Named(name)>>])
BadBatch == try_from([kind |-> "Multi", queries |-> <<Query(Create), Unsupported>>])

-----------------------------------------------------------------------------
(* Workloads.                                                              *)

Alone(first, rows, forced) ==
    [documents |-> (r1 :> first), rows |-> rows, force_transactions |-> forced]
Workload(first, second, rows, forced) ==
    [documents |-> (r1 :> first @@ r2 :> second), rows |-> rows, force_transactions |-> forced]

Competing ==
    {Workload(Single(Create), Single(Update), {}, FALSE),
     Workload(Batch(<<Create, Raw>>), Single(Raw), {}, FALSE),
     Workload(Batch(<<Refused, Refused>>), Single(Update), {}, FALSE)}
    \cup {Alone(Batch(<<ReadById, Raw>>), {}, FALSE), Alone(Batch(<<Create, ReadById>>), {}, TRUE),
          Alone(Batch(<<Raw, ReadById>>), {}, TRUE)}
    \cup {Workload(Batch(<<ReadById, ReadById>>), Single(Create), {}, forced) : forced \in BOOLEAN}
    \cup {Workload(Single(ReadByKey), Batch(<<>>), Table, FALSE), Alone(BadBatch, {}, FALSE)}
    \cup {Alone(NamedBatch(name), {}, FALSE) : name \in {"Q", "R"}}
    \cup {Alone(try_from([kind |-> "Single", queries |-> <<Empty>>]), {}, FALSE)}

Singular == {ById(1), ById(2), ById(9)}
Timed == {ByTime(1, "canonical"), ByTime(2, "other")}
Compound == {ByKey(a, b) : a, b \in 1..2}

Selections ==
    {<<Scalar("id")>>, <<Scalar("at"), Scalar("id")>>, <<Scalar("id"), Scalar("at")>>,
     <<Scalar("a"), Scalar("a"), Scalar("b")>>, <<Related(<<"id", "at">>)>>, <<Related(<<"at", "id">>)>>,
     <<Related(<<"id", "id">>), Scalar("id")>>, <<Related(<<"id", "at">>), Scalar("id")>>}

Thrice(S) == S \X S \X S

Batches ==
    {Batch(<<FindOne(w, s)>>) : w \in Singular \cup Timed \cup Compound \cup {Absent, BadId}, s \in Selections}
    \cup {Batch(<<FindOne(v, <<Scalar("at")>>), FindOne(w, <<Scalar("at")>>)>>) :
             v, w \in Singular \cup Timed \cup Compound \cup {Absent, BadId, Both}}
    \cup {Batch(<<FindOne(v, s), FindOne(w, q)>>) : v, w \in {ById(1), ById(2)}, s, q \in Selections}
    \cup {Batch(<<FindOne(u, s), FindOne(v, s), FindOne(w, s)>>) :
             <<u, v, w>> \in Thrice(Singular) \cup Thrice(Compound), s \in {<<Scalar("at"), Scalar("b")>>}}
    \cup {Batch(<<Aliased(FindOne(ById(1), <<Scalar("id")>>)), FindOne(ById(2), <<Scalar("id")>>)>>),
          Batch(<<FindOne(ById(1), <<Scalar("id")>>), Aliased(FindOne(ById(2), <<Scalar("id")>>))>>)}

MCWorkloads == Competing \cup {Alone(batch, Table, FALSE) : batch \in {b \in Batches : can_compact(b.operations)}}

=============================================================================
