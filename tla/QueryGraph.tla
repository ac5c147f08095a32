------------------------------ MODULE QueryGraph ------------------------------
(***************************************************************************)
(* The query graph of query_graph/mod.rs: nodes, edges, the nodes whose    *)
(* result is the answer, and the pairs marked for a swap.  Nodes and edges *)
(* are referred to by their position, as petgraph does; removing an edge   *)
(* moves the last edge to the freed position.  err holds the first error   *)
(* of an operation on the graph: the code returns it at once.              *)
(***************************************************************************)
EXTENDS QueryAst

EmptyGraph == [nodes |-> <<>>, edges |-> <<>>, results |-> {}, marks |-> <<>>, err |-> "none"]

Fail(g, e) == IF g.err = "none" THEN [g EXCEPT !.err = e] ELSE g

-----------------------------------------------------------------------------
(* Dependencies.  The closure of a ParentProjection or ParentResult is a   *)
(* record: it fails with err unless the number of projections it is given  *)
(* lies in lo..hi, and then does act to the child node.                    *)

MaxRows == 99   \* larger than any number of rows: no upper limit

ExecutionOrder == [kind |-> "ExecutionOrder"]

Then == [kind |-> "Then"]

Else == [kind |-> "Else"]

Dep(kind, proj, lo, hi, err, act) ==
    [kind |-> kind, proj |-> proj, lo |-> lo, hi |-> hi, err |-> err, act |-> act]

\* The closure accepts any number of projections.
Always(proj, act) == Dep("ParentProjection", proj, 0, MaxRows, "none", act)

\* The closure pops one projection and fails with err if there is none.
PopOr(proj, err, act) == Dep("ParentProjection", proj, 1, MaxRows, err, act)

\* The closure fails with err unless there are n projections.
Exactly(n, proj, err, act) == Dep("ParentProjection", proj, n, n, err, act)

\* The closure fails with err unless there is none.
NoneOr(proj, err, act) == Exactly(0, proj, err, act)

CountIs(n, err) == Dep("ParentResult", {}, n, n, err, [do |-> "pass"])

IsFlow(n) == n.q = "If"

-----------------------------------------------------------------------------
(* Construction.                                                           *)

NextRef(g) == Len(g.nodes) + 1

add_result_node(g, n) == [g EXCEPT !.results = @ \cup {n}]

mark_nodes(g, parent, child) == [g EXCEPT !.marks = Append(@, <<parent, child>>)]

\* The edges that have n at one end, by number.
collect_edges(g, n, end) == SelectSeq([e \in DOMAIN g.edges |-> e], LAMBDA e : g.edges[e][end] = n)

outgoing_edges(g, n) == collect_edges(g, n, "src")

incoming_edges(g, n) == collect_edges(g, n, "tgt")

Edge(src, tgt, dep) == [src |-> src, tgt |-> tgt, dep |-> dep]

\* An If node has at most two children, a Then and an Else; no edge is a loop.
invariance_rules(g, e) ==
    /\ e.src # e.tgt
    /\ IsFlow(g.nodes[e.src]) => /\ Len(outgoing_edges(g, e.src)) <= 2
                                 /\ e.dep.kind \in {"Then", "Else"}

\* A sequence of calls of create_node and create_edge.
extend(g, nodes, edges) ==
    LET h == [g EXCEPT !.nodes = @ \o nodes, !.edges = @ \o edges]
    IN  IF g.err = "none" /\ \E e \in ToSet(edges) : ~invariance_rules(h, e)
        THEN Fail(g, "InvarianceViolation")
        ELSE h

create_node(g, n) == extend(g, <<n>>, <<>>)

create_edge(g, src, tgt, dep) == extend(g, <<>>, <<Edge(src, tgt, dep)>>)

remove_edge(g, e) ==
    LET last == Len(g.edges)
    IN  [g EXCEPT !.edges = [i \in 1..(last - 1) |-> IF i = e THEN @[last] ELSE @[i]]]

-----------------------------------------------------------------------------
(* Structure.                                                              *)

root_nodes(g) ==
    SelectSeq([n \in DOMAIN g.nodes |-> n], LAMBDA n : incoming_edges(g, n) = <<>>)

ParentsOf(g, n) == {g.edges[e].src : e \in ToSet(incoming_edges(g, n))}

ChildrenOf(g, n) == {g.edges[e].tgt : e \in ToSet(outgoing_edges(g, n))}

RECURSIVE Above(_, _, _)

\* The nodes reached from those in found by following at most n edges upwards.
Above(g, found, n) ==
    LET more == found \cup UNION {ParentsOf(g, x) : x \in found}
    IN  IF n = 0 \/ more = found THEN found ELSE Above(g, more, n - 1)

Ancestors(g, n) == Above(g, ParentsOf(g, n), Len(g.nodes))

is_ancestor(g, ancestor, n) == ancestor \in Ancestors(g, n)

RECURSIVE subgraph_contains_result(_, _)

subgraph_contains_result(g, n) ==
    n \in g.results \/ \E c \in ChildrenOf(g, n) : subgraph_contains_result(g, c)

is_direct_child_visited_only(g, visited, parent, child) == ParentsOf(g, child) \ {parent} \subseteq visited

\* A child is evaluated below this parent if no other parent comes later.
is_direct_child(g, visited, parent, child) ==
    LET others == ParentsOf(g, child) \ {parent}
    IN  \/ \A p \in others : is_ancestor(g, p, parent)
        \/ others \subseteq visited

child_pairs(g, n) ==
    LET es == outgoing_edges(g, n)
    IN  [i \in DOMAIN es |-> <<es[i], g.edges[es[i]].tgt>>]

direct_child_pairs(g, visited, n) ==
    SelectSeq(child_pairs(g, n), LAMBDA p : is_direct_child(g, visited, n, p[2]))

-----------------------------------------------------------------------------
(* Finalisation.                                                           *)

\* The parent edges of a marked parent are given to the child, and the edge
\* between the two, the newest if there are several, is turned round.
swap_pair(g, mark) ==
    LET parent == mark[1]
        child == mark[2]
        Connect(h, e) ==
            LET above == h.edges[e].src
            IN  IF IsFlow(h.nodes[above])
                THEN create_edge(remove_edge(h, e), above, child, h.edges[e].dep)
                ELSE create_edge(h, above, child, ExecutionOrder)
        h1 == FoldLeft(Connect, g, incoming_edges(g, parent))
        between == SelectSeq(outgoing_edges(h1, parent), LAMBDA e : h1.edges[e].tgt = child)
    IN  IF between = <<>>
        THEN h1
        ELSE create_edge(remove_edge(h1, Last(between)), child, parent, h1.edges[Last(between)].dep)

swap_marked(g) == FoldLeft(swap_pair, [g EXCEPT !.marks = <<>>], Reverse(g.marks))

unsatisfied_edges(g, n) ==
    SelectSeq(outgoing_edges(g, n),
              LAMBDA e : /\ g.edges[e].dep.kind = "ParentProjection"
                         /\ ~returns(g.nodes[n], g.edges[e].dep.proj))

\* A read of all a node's children need and the node does not return, put
\* between the node and those children.
insert_reload(g, n, es) ==
    LET reload == NextRef(g)
        wanted == primary_identifier \cup UNION {g.edges[e].dep.proj : e \in ToSet(es)}
        Move(h, e) == create_edge(remove_edge(h, e), reload, h.edges[e].tgt, h.edges[e].dep)
        g1 == extend(g, <<ManyRecordsQuery(g.nodes[n].model, EmptyFilter, wanted)>>,
                     <<Edge(n, reload, Always(primary_identifier, [do |-> "set_filter"]))>>)
    IN  FoldLeft(Move, g1, es)

no_reloads(g) == g

insert_reloads(g) ==
    LET needed == SelectSeq([n \in DOMAIN g.nodes |-> n],
                      LAMBDA n : IsQuery(g.nodes[n]) /\ unsatisfied_edges(g, n) # <<>>)
    IN  FoldLeft(LAMBDA h, n : insert_reload(h, n, unsatisfied_edges(g, n)), g, needed)

finalize(g) == insert_reloads(swap_marked(g))
=============================================================================
