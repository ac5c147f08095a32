---------------------------- MODULE Expressionista ----------------------------
(***************************************************************************)
(* The translation of a finalised query graph into an expression, from     *)
(* interpreter/expressionista.rs.  The translation consumes the graph: st  *)
(* is the graph with the nodes already visited and the nodes and edges     *)
(* whose content was plucked.  Plucking twice is a panic of the code.      *)
(*                                                                         *)
(* Closures of the code are data here: a Func expression keeps the parent  *)
(* edges it transforms its node with, and what the node is made into.      *)
(***************************************************************************)
EXTENDS QueryGraph

Sequence(xs) == [x |-> "Sequence", seq |-> xs]

Query(node) == [x |-> "Query", query |-> node]

Get(name) == [x |-> "Get", name |-> name]

GetFirstNonEmpty(names) == [x |-> "GetFirstNonEmpty", names |-> names]

Let(bindings, xs) == [x |-> "Let", bindings |-> bindings, exprs |-> xs]

Binding(name, expr) == [name |-> name, expr |-> expr]

If(cond, then, else) == [x |-> "If", cond |-> cond, then |-> then, else |-> else]

Return(res) == [x |-> "Return", res |-> res]

Func(deps, node, subs) == [x |-> "Func", deps |-> deps, node |-> node, subs |-> subs]

\* What a transformed node becomes; subs are the expressions built below an
\* Empty node, and the then and else branches below an If node.
into_expr(node, subs) ==
    CASE node.q = "Empty" -> Sequence(subs.then)
      [] node.q = "If" -> If(node.cond, subs.then, subs.else)
      [] node.q = "Diff" -> Return([t |-> "Diff", left |-> node.left \ node.right,
                                    right |-> node.right \ node.left])
      [] OTHER -> Query(node)

NoSubs == [then |-> <<>>, else |-> <<>>]

-----------------------------------------------------------------------------
(* The state of the translation and its result: [st, xs], xs a sequence of *)
(* expressions.                                                            *)

NewTranslation(g) ==
    [g |-> g, visited |-> {}, nodes |-> {}, edges |-> {}, panic |-> FALSE]

mark_visited(st, n) == [st EXCEPT !.visited = @ \cup {n}]

pluck_node(st, n) == [st EXCEPT !.nodes = @ \cup {n}, !.panic = @ \/ n \in st.nodes]

pluck_edge(st, e) == [st EXCEPT !.edges = @ \cup {e}, !.panic = @ \/ e \in st.edges]

\* Takes all the parent edges; those that carry a closure are returned.
collect_parent_transformers(st, es) ==
    LET carrying == SelectSeq(es, LAMBDA e : st.g.edges[e].dep.kind \in {"ParentResult", "ParentProjection"})
    IN  [st |-> FoldLeft(pluck_edge, st, es),
         deps |-> [i \in DOMAIN carrying |-> [from |-> st.g.edges[carrying[i]].src,
                                              dep |-> st.g.edges[carrying[i]].dep]]]

transformed(c, node, subs) ==
    [st |-> c.st, expr |-> IF c.deps = <<>> THEN into_expr(node, subs) ELSE Func(c.deps, node, subs)]

transform_node(st, es, node, subs) == transformed(collect_parent_transformers(st, es), node, subs)

Prepend(x, b) == [b EXCEPT !.xs = <<x>> \o @]

RECURSIVE build_expression(_, _, _)

RECURSIVE build_all(_, _)

\* b is what was built last; a panic ends the translation.
build_rest(b, nodes) ==
    IF b.st.panic
    THEN [st |-> b.st, xs |-> <<>>]
    ELSE Prepend(b.expr, build_all(b.st, nodes))

\* Builds the expressions of nodes, given with all their parent edges, one
\* after the other.
build_all(st, nodes) ==
    IF nodes = <<>>
    THEN [st |-> st, xs |-> <<>>]
    ELSE build_rest(build_expression(st, Head(nodes), incoming_edges(st.g, Head(nodes))), Tail(nodes))

Targets(pairs) == [i \in DOMAIN pairs |-> pairs[i][2]]

ResultScope(name, expr, last) == Let(<<Binding(name, expr)>>, IF last THEN <<Get(name)>> ELSE <<>>)

\* One scope for each subgraph that holds a result, each inside the first.
\* b holds the expressions of these subgraphs.
fold_result_scopes(b, nodes) ==
    IF Cardinality(b.st.g.results) = 1
    THEN [ResultScope(nodes[1], b.xs[1], Len(nodes) = 1)
             EXCEPT !.exprs = @ \o [i \in 1..(Len(nodes) - 1) |->
                                       ResultScope(nodes[i + 1], b.xs[i + 1], i + 1 = Len(nodes))]]
    ELSE Let([i \in DOMAIN nodes |-> Binding(nodes[i], b.xs[i])], <<GetFirstNonEmpty(nodes)>>)

\* xs and the scope of the subgraphs that hold a result.
with_results(xs, b, nodes) ==
    IF b.st.panic \/ nodes = <<>>
    THEN [st |-> b.st, xs |-> xs]
    ELSE [st |-> b.st, xs |-> Append(xs, fold_result_scopes(b, nodes))]

build_results(b, nodes) ==
    IF b.st.panic THEN b ELSE with_results(b.xs, build_all(b.st, nodes), nodes)

\* t is the expression of node n itself, xs the ones evaluated in its scope.
bind_scope(t, n, xs) ==
    [st |-> t.st, expr |-> IF xs = <<>> THEN t.expr ELSE Let(<<Binding(n, t.expr)>>, xs)]

Panicked(st) == [st |-> st, expr |-> Sequence(<<>>)]

FinalGet(n, xs, results) == IF xs # <<>> /\ n \in results THEN Append(xs, Get(n)) ELSE xs

finish_query(b, n, es) ==
    IF b.st.panic
    THEN Panicked(b.st)
    ELSE bind_scope(transform_node(pluck_node(mark_visited(b.st, n), n), es, b.st.g.nodes[n], NoSubs),
                    n, FinalGet(n, b.xs, b.st.g.results))

build_children(st, n, es, children) ==
    finish_query(
        build_results(
            build_all(st, SelectSeq(children, LAMBDA c : ~subgraph_contains_result(st.g, c))),
            Reverse(SelectSeq(children, LAMBDA c : subgraph_contains_result(st.g, c)))),
        n, es)

build_query_expression(st, n, es) ==
    build_children(st, n, es, Targets(direct_child_pairs(st.g, st.visited, n)))

build_visited(st, n) == build_all(st, Targets(direct_child_pairs(st.g, st.visited, n)))

\* The content of an Empty node is not taken, only its edges are.
finish_empty(b, es) ==
    IF b.st.panic
    THEN Panicked(b.st)
    ELSE transform_node(b.st, es, EmptyNode, [NoSubs EXCEPT !.then = b.xs])

build_empty_expression(st, n, es) == finish_empty(build_visited(mark_visited(st, n), n), es)

finish_computation(b, n, es) ==
    IF b.st.panic
    THEN Panicked(b.st)
    ELSE bind_scope(transform_node(pluck_node(b.st, n), es, b.st.g.nodes[n], NoSubs), n, b.xs)

build_computation_expression(st, n, es) ==
    finish_computation(build_visited(mark_visited(st, n), n), n, es)

finish_flow(then, else, n, es) ==
    IF else.st.panic
    THEN Panicked(else.st)
    ELSE transform_node(pluck_node(else.st, n), es, else.st.g.nodes[n], [then |-> then, else |-> else.xs])

build_else(then, n, es, nodes) ==
    IF then.st.panic
    THEN Panicked(then.st)
    ELSE finish_flow(then.xs, build_all(then.st, nodes), n, es)

Branch(st, n, kind) ==
    Targets(SelectSeq(child_pairs(st.g, n), LAMBDA p : st.g.edges[p[1]].dep.kind = kind))

\* The branches are built whether or not they are direct children.
build_flow_expression(st, n, es) ==
    LET plucked == \E p \in ToSet(child_pairs(st.g, n)) : p[1] \in st.edges
    IN  build_else(build_all([mark_visited(st, n) EXCEPT !.panic = @ \/ plucked], Branch(st, n, "Then")),
                   n, es, Branch(st, n, "Else"))

build_expression(st, n, es) ==
    IF n \in st.nodes
    THEN Panicked([st EXCEPT !.panic = TRUE])
    ELSE CASE st.g.nodes[n].q = "If" -> build_flow_expression(st, n, es)
           [] st.g.nodes[n].q = "Diff" -> build_computation_expression(st, n, es)
           [] st.g.nodes[n].q = "Empty" -> build_empty_expression(st, n, es)
           [] OTHER -> build_query_expression(st, n, es)

Translated(b) == [st |-> b.st, expr |-> Sequence(b.xs)]

translate(g) == Translated(build_all(NewTranslation(g), root_nodes(g)))
=============================================================================
