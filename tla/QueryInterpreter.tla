-------------------------- MODULE QueryInterpreter --------------------------
(***************************************************************************)
(* The evaluation of an expression, from interpreter/interpreter.rs.  The  *)
(* interpreter is asynchronous: it stops at every query and goes on with   *)
(* the query's result.  Between two queries it only computes.  A paused    *)
(* evaluation is                                                           *)
(*   [is |-> "query", query, k]  it waits for the result of query          *)
(*   [is |-> "value", res]       it has returned                           *)
(*   [is |-> "error", err]       it has failed                             *)
(* k, the rest of the computation, is a stack of frames.                   *)
(***************************************************************************)
EXTENDS Expressionista

EmptyEnv == <<>>

Insert(env, name, res) == [n \in DOMAIN env \cup {name} |-> IF n = name THEN res ELSE env[n]]

NoResult == [t |-> "Empty"]

Value(res) == [is |-> "value", res |-> res]

Failure(err) == [is |-> "error", err |-> err]

-----------------------------------------------------------------------------
(* Transforming a node with the results of its parents.                    *)

Ok(x) == [err |-> "none", it |-> x]

Err(e) == [err |-> e, it |-> {}]

\* An id does not convert into another projection.
as_projections(res, proj) ==
    CASE res.t = "RecordSelection" -> Ok({Project(row, proj) : row \in res.ps})
      [] res.t = "Id" /\ (res.ps = {} \/ proj = primary_identifier) -> Ok(res.ps)
      [] OTHER -> Err("UnableToConvert")

\* The closures that take one projection out of those they are given.
Popping == {"inject", "inject_create", "select_null", "add_filter", "parent_id", "selector"}

\* What a closure does to its node, given the projections ps.
Transform(node, act, ps) ==
    LET p == CHOOSE x \in ps : TRUE
        Nulled == inject_projection_into_args(node, empty_record_projection(act.fields))
    IN  CASE act.do = "pass" -> node
          [] act.do = "parents" -> [node EXCEPT !.parents = ps]
          [] act.do = "inject" -> inject_projection_into_args(node, assimilate(act.fields, p))
          [] act.do = "inject_create" -> IF node.q # "CreateRecord" THEN node
                                         ELSE inject_projection_into_args(node, assimilate(act.fields, p))
          [] act.do = "select_null" -> [Nulled EXCEPT !.filter = Selectors({p})]
          [] act.do = "filter_null" -> [Nulled EXCEPT !.filter = OrFilter(ps)]
          [] act.do = "selectors_null" -> [Nulled EXCEPT !.filter = Selectors(ps)]
          [] act.do \in {"selector", "selectors"} -> [node EXCEPT !.filter = Selectors(ps)]
          [] act.do = "add_filter" -> [node EXCEPT !.filter = add_filter(@, p)]
          [] act.do = "set_filter" -> [node EXCEPT !.filter = OrFilter(ps)]
          [] act.do = "parent_id" -> [node EXCEPT !.parent_id = ps]
          [] act.do = "child_ids" -> [node EXCEPT !.child_ids = ps]
          [] act.do = "left" -> [node EXCEPT !.left = ps]
          [] act.do = "right" -> [node EXCEPT !.right = ps]
          [] act.do = "condition" -> [node EXCEPT !.cond = act.flag /\ ps # {}]

\* Which of several projections is popped depends on the order of rows: the
\* model fails with Ambiguous.
ApplyClosure(node, dep, ps, n) ==
    CASE n < dep.lo \/ n > dep.hi -> Err(dep.err)
      [] n \in dep.lo..dep.hi /\ dep.act.do \in Popping /\ n > 1 -> Err("Ambiguous")
      [] OTHER -> Ok(Transform(node, dep.act, ps))

\* A ParentResult closure looks at the difference or the count it is given.
apply_dependency(node, dep, res) ==
    IF dep.kind = "ParentProjection"
    THEN LET c == as_projections(res, dep.proj)
         IN  IF c.err # "none" THEN c ELSE ApplyClosure(node, dep, c.it, Cardinality(c.it))
    ELSE CASE dep.proj # {} /\ res.t = "Diff" ->
                 LET side == CHOOSE s \in dep.proj : TRUE
                 IN  ApplyClosure(node, dep, res[side], Cardinality(res[side]))
           [] dep.proj = {} /\ res.t = "Count" -> ApplyClosure(node, dep, {}, res.n)
           [] dep.proj = {} /\ res.t \in {"Id", "RecordSelection", "Unit"} -> Ok(node)
           [] OTHER -> Err("Panic")

apply_dependencies(node, deps, env) ==
    LET Apply(acc, d) ==
            CASE acc.err # "none" -> acc
              [] acc.err = "none" /\ d.from \notin DOMAIN env -> Err("EnvVarNotFound")
              [] OTHER -> apply_dependency(acc.it, d.dep, env[d.from])
    IN  FoldLeft(Apply, Ok(node), deps)

-----------------------------------------------------------------------------
(* Evaluation.                                                             *)

RECURSIVE interpret(_, _, _)

\* The expression after the bindings of a Let.
Body(xs) == IF Len(xs) = 1 THEN xs[1] ELSE Sequence(xs)

RECURSIVE resume(_, _)

\* Continues with a result: the rest of a sequence, or the next binding.
resume(res, k) ==
    IF k = <<>> THEN Value(res)
    ELSE LET f == Head(k)
             inner == Insert(f.inner, f.name, res)
         IN  CASE f.k = "Sequence" ->
                     IF f.rest = <<>> THEN resume(res, Tail(k))
                     ELSE interpret(Head(f.rest), f.env, <<[f EXCEPT !.rest = Tail(@)]>> \o Tail(k))
               [] f.k = "Let" ->
                     IF f.rest = <<>> THEN interpret(Body(f.exprs), inner, Tail(k))
                     ELSE interpret(Head(f.rest).expr, f.env,
                                    <<[f EXCEPT !.rest = Tail(@), !.name = Head(f.rest).name,
                                                !.inner = inner]>> \o Tail(k))

interpret(x, env, k) ==
    CASE x.x = "Func" ->
            LET n == apply_dependencies(x.node, x.deps, env)
            IN  IF n.err # "none" THEN Failure(n.err) ELSE interpret(into_expr(n.it, x.subs), env, k)
      [] x.x = "Sequence" ->
            IF x.seq = <<>> THEN resume(NoResult, k)
            ELSE interpret(Head(x.seq), env,
                           <<[k |-> "Sequence", rest |-> Tail(x.seq), env |-> env]>> \o k)
      [] x.x = "Let" ->
            interpret(Head(x.bindings).expr, env,
                      <<[k |-> "Let", name |-> Head(x.bindings).name, rest |-> Tail(x.bindings),
                         exprs |-> x.exprs, env |-> env, inner |-> env]>> \o k)
      [] x.x = "Query" -> [is |-> "query", query |-> x.query, k |-> k]
      [] x.x = "Get" ->
            IF x.name \in DOMAIN env THEN resume(env[x.name], k) ELSE Failure("EnvVarNotFound")
      [] x.x = "GetFirstNonEmpty" ->
            LET there == SelectSeq(x.names, LAMBDA n : n \in DOMAIN env)
            IN  IF there = <<>> THEN Failure("Panic") ELSE resume(env[Head(there)], k)
      [] x.x = "If" -> interpret(Sequence(IF x.cond THEN x.then ELSE x.else), env, k)
      [] x.x = "Return" -> resume(x.res, k)
=============================================================================
