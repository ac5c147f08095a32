----------------------------- MODULE QueryEngine -----------------------------
(***************************************************************************)
(* One write request, from the parsed request to the answer: the executor  *)
(* builds the query graph, starts a transaction, finalises and translates  *)
(* the graph, interprets the expression against the database, and commits  *)
(* or rolls back.  Every await of the code is a step of its own.  Failing   *)
(* connections, crashes and concurrent requests are in RequestHandling.    *)
(***************************************************************************)
EXTENDS QueryGraphBuilder, QueryInterpreter, WriteSemantics

CONSTANTS Schemas,        \* the data models: sets of relations
          Databases(_),   \* the databases a request may find, given the data model
          Requests(_)     \* the requests a client may make, given the data model

VARIABLES req,     \* the request
          db,      \* the committed database
          work,    \* the database as the transaction sees it
          pre,     \* history: the database before the request
          phase,   \* what the executor does next
          graph,   \* the query graph
          trans,   \* the state of the translation, once done
          mach,    \* the interpreter
          out      \* the answer

vars == <<schema, req, db, work, pre, phase, graph, trans, mach, out>>

Idle == Value(NoResult)

NoAnswer == [is |-> "none"]

Init ==
    /\ schema \in Schemas
    /\ db \in Databases(schema)
    /\ req \in Requests(schema)
    /\ work = db
    /\ pre = db
    /\ phase = "start"
    /\ graph = EmptyGraph
    /\ trans = NewTranslation(EmptyGraph)
    /\ mach = Idle
    /\ out = NoAnswer

\* The request returns; what was only in memory is gone.
Answer(o) ==
    /\ phase' = "done"
    /\ out' = o
    /\ graph' = EmptyGraph
    /\ trans' = NewTranslation(EmptyGraph)
    /\ mach' = Idle
    /\ UNCHANGED <<schema, req, pre>>

-----------------------------------------------------------------------------
(* execute                                                                 *)

\* A connection is taken and the graph is built.
Build ==
    /\ phase = "start"
    /\ \E g \in {build(req)} :
          IF g.err # "none"
          THEN Answer(Failure(g.err)) /\ UNCHANGED <<db, work>>
          ELSE /\ phase' = "begin"
               /\ graph' = g
               /\ UNCHANGED <<schema, req, db, work, pre, trans, mach, out>>

StartTransaction ==
    /\ phase = "begin"
    /\ phase' = "finalize"
    /\ work' = db
    /\ UNCHANGED <<schema, req, db, pre, graph, trans, mach, out>>

-----------------------------------------------------------------------------
(* QueryPipeline::execute                                                  *)

Finalize ==
    /\ phase = "finalize"
    /\ graph' = finalize(graph)
    /\ phase' = IF graph'.err = "none" THEN "translate" ELSE "run"
    /\ mach' = IF graph'.err = "none" THEN mach ELSE Failure(graph'.err)
    /\ UNCHANGED <<schema, req, db, work, pre, trans, out>>

\* A panic of the translation ends the request; the transaction is dropped.
Translate ==
    /\ phase = "translate"
    /\ phase' = "run"
    /\ \E t \in {translate(graph)} :
          /\ trans' = t.st
          /\ mach' = IF t.st.panic THEN Failure("Panic") ELSE interpret(t.expr, EmptyEnv, <<>>)
    /\ UNCHANGED <<schema, req, db, work, pre, graph, out>>

\* The graph was consumed by the translation.
Consumed ==
    /\ graph' = EmptyGraph
    /\ trans' = NewTranslation(EmptyGraph)

Fresh(m) == AllIds \ (DOMAIN work.tab[m] \cup DOMAIN db.tab[m])

ReadQuery ==
    /\ phase = "run"
    /\ mach.is = "query"
    /\ mach.query.q \in Reads
    /\ mach' = resume(read_execute(work, mach.query), mach.k)
    /\ Consumed
    /\ UNCHANGED <<schema, req, db, work, pre, phase, out>>

WriteQuery ==
    /\ phase = "run"
    /\ mach.is = "query"
    /\ mach.query.q \in Writes
    /\ LET r == write_execute(work, mach.query, Fresh(mach.query.model))
       IN  /\ work' = r.db
           /\ mach' = IF r.err = "none" THEN resume(r.res, mach.k) ELSE Failure(r.err)
    /\ Consumed
    /\ UNCHANGED <<schema, req, db, pre, phase, out>>

-----------------------------------------------------------------------------
(* The end of the transaction.                                             *)

Commit ==
    /\ phase = "run"
    /\ mach.is = "value"
    /\ db' = work
    /\ Answer(mach)
    /\ UNCHANGED work

Rollback ==
    /\ phase = "run"
    /\ mach.is = "error"
    /\ work' = db
    /\ Answer(mach)
    /\ UNCHANGED db

Execute ==
    \/ Build \/ StartTransaction \/ Finalize \/ Translate
    \/ ReadQuery \/ WriteQuery \/ Commit \/ Rollback

\* Nothing happens after the answer; any other state without a step is a deadlock.
Terminated ==
    /\ phase = "done"
    /\ UNCHANGED vars

Next == Execute \/ Terminated

Spec == Init /\ [][Next]_vars

-----------------------------------------------------------------------------
(* Properties.                                                             *)

\* The translation reaches every node exactly once and takes every edge exactly
\* once: no query of the request is lost or would be executed twice, however
\* many parents a node has and in whichever order they are visited.
TranslationIsComplete ==
    phase = "run" /\ trans.g # EmptyGraph =>
        /\ ~trans.panic
        /\ trans.visited = DOMAIN trans.g.nodes
        /\ trans.edges = DOMAIN trans.g.edges

\* A request is never answered with an error of the engine itself: no binding
\* is out of scope when it is read, no result lacks the fields a dependency
\* needs (insert_reloads), no graph breaks the rules of create_edge, nothing
\* depends on the order of rows, no panic.
NoInternalError ==
    out.is = "error" =>
        out.err \notin {"EnvVarNotFound", "UnableToConvert", "Panic", "InvarianceViolation",
                        "Ambiguous", "InterpretationError"}

\* The database always respects the data model.  It enforces foreign keys by
\* itself, but a required side that holds no key is only kept by the checks the
\* graph builder puts before the writes.
RelationsHold == Consistent(Abstract(db))

SameData(a, b) == a.rec = b.rec /\ a.links = b.links

\* An accepted request has done what it means, to records and links: nested
\* operations act one after the other, a single link gives way to the new one.
EffectIsExact == out.is = "value" => SameData(Abstract(db), Effect(Abstract(pre), req))

\* The record a request is about, in the answer.
Subject ==
    CHOOSE i \in DOMAIN db.tab[req.model] :
        IF req.op = "createOne" \/ req.where \notin DOMAIN pre.tab[req.model]
        THEN i \notin DOMAIN pre.tab[req.model]
        ELSE i = req.where

Expected ==
    CASE req.op = "deleteOne" -> RecordSelection({Project(pre.tab[req.model][req.where], req.sel)})
      [] req.op \in {"deleteMany", "updateMany"} ->
            Count(Cardinality(Selected(Abstract(pre), req.model, req.filter)))
      [] OTHER -> RecordSelection({Project(db.tab[req.model][Subject], req.sel)})

\* The answer is the record as it is after the whole request, the deleted
\* record as it was before it, or the number of records touched: of all results
\* in the graph the translation returns the right one, read late enough.
AnswerIsExact == out.is = "value" => out.res = Expected

\* A request that names existing, connected records and respects the data model
\* is carried out: the checks of the graph builder do not reject too much.  The
\* graph of an upsert holds both branches, and building it fails if either is
\* impossible; and a nested operation may be rejected for what the one before it
\* in the same request would have made possible.  Both are left out.
RejectedForCause ==
    /\ out.is = "error"
    /\ req.op # "upsertOne"
    /\ req.op \in {"createOne", "updateOne"} => Len(req.data.nested) <= 1
    => ~Legal(Abstract(pre), req)

\* create_nested.rs: "we need to do additional checks and potentially disconnect
\* an already existing child": a nested create in a one-to-one relation replaces
\* the old child by the new one.
OldChildIsReplaced ==
    out.is = "value" /\ req.op = "updateOne" =>
        \A n \in ToSet(req.data.nested) :
            n.op = "create" /\ is_one_to_one(n.field) =>
                Children(Abstract(db), n.field, req.where) \ DOMAIN pre.tab[related_model(n.field)] # {}
=============================================================================
