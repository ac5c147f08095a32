-------------------------- MODULE QueryGraphBuilder --------------------------
(***************************************************************************)
(* How a write request becomes a query graph: query_graph_builder/write.   *)
(* A builder function is an operator from graphs to graphs; the node it    *)
(* returns in the code is the first node it creates, NextRef of the graph  *)
(* it is given.                                                            *)
(*                                                                         *)
(* The data argument of a request is [args, nested]: the scalar values and *)
(* a sequence of nested operations [field, op, val] in the order of the    *)
(* parsed map.  val is                                                     *)
(*   create              a sequence of data                                *)
(*   connect, set        a set of ids                                      *)
(*   disconnect          a set of ids; a boolean on a to-one field         *)
(*   delete              a sequence of ids; a boolean on a to-one field    *)
(*   update              a sequence of [where, data]                       *)
(*   updateMany          a sequence of [filter, args]                      *)
(*   deleteMany          a sequence of filters                             *)
(*   upsert              a sequence of [where, create, update]             *)
(* where "where" is an id, and ignored on a to-one field.                  *)
(***************************************************************************)
EXTENDS QueryGraph

Act(do) == [do |-> do]

\* The parent's link becomes a value of the child: inject_projection_into_args.
Inject(fields) == [do |-> "inject", fields |-> fields]

\* The condition of an If node: are there projections, and does flag hold?
Condition(flag) == [do |-> "condition", flag |-> flag]

unique_filters(ids) == OrFilter({IdOf(i) : i \in ids})

where_filter(f, id) == IF is_list(f) THEN Scalar(IdOf(id)) ELSE EmptyFilter

node_is_create(g, n) == g.nodes[n].q = "CreateRecord"

read_ids_infallible(m, proj, filter) == ManyRecordsQuery(m, filter, primary_identifier \cup proj)

insert_find_children_by_parent_node(g, parent, f, filter) ==
    extend(g,
        <<RelatedRecordsQuery(f, filter, primary_identifier \cup linking_fields(related_field(f)))>>,
        <<Edge(parent, NextRef(g), Always(primary_identifier \cup linking_fields(f), Act("parents")))>>)

update_records_node_placeholder(filter, m) == UpdateManyRecords(m, filter, <<>>)

checks_1to1_reject_all(g, parent, f) ==
    extend(insert_find_children_by_parent_node(g, parent, f, EmptyFilter), <<EmptyNode>>,
        <<Edge(NextRef(g), NextRef(g) + 1, NoneOr(primary_identifier, "RelationViolation", Act("pass")))>>)

no_checks_1to1(g, parent, f) == g

insert_existing_1to1_related_model_checks(g, parent, f) ==
    LET read == NextRef(g)
        update == read + 1
        if == read + 2
        child_field == related_field(f)
        max == IF is_required(child_field) THEN 0 ELSE MaxRows
        check == Dep("ParentProjection", primary_identifier, 0, max, "RelationViolation",
                     Condition(~relation_is_inlined_in_parent(f)))
    IN  extend(insert_find_children_by_parent_node(g, parent, f, EmptyFilter),
            <<update_records_node_placeholder(EmptyFilter, related_model(f)), IfNode>>,
            <<Edge(read, if, check),
              Edge(if, update, Then),
              Edge(read, update,
                   PopOr(primary_identifier, "AssertionError",
                         [do |-> "select_null", fields |-> linking_fields(child_field)]))>>)

no_deletion_checks(g, m, parent, child) == g

\* A read of the children of a field that requires the record, which must be none.
deletion_check(g, parent, f, noop) ==
    create_edge(insert_find_children_by_parent_node(g, parent, related_field(f), EmptyFilter),
                NextRef(g), noop, NoneOr(primary_identifier, "RelationViolation", Act("pass")))

deletion_checks(g, parent, child, requiring, noop) ==
    extend(FoldLeft(LAMBDA h, f : deletion_check(h, parent, f, noop), create_node(g, EmptyNode), requiring),
        <<>>,
        Append([i \in 1..(Len(requiring) - 1) |-> Edge(noop + i, noop + i + 1, ExecutionOrder)],
               Edge(noop, child, ExecutionOrder)))

insert_deletion_checks(g, m, parent, child) ==
    IF fields_requiring_model(m) = {}
    THEN g
    ELSE deletion_checks(g, parent, child, SetToSeq(fields_requiring_model(m)), NextRef(g))

connect_records_node(g, parent, child, f, expected) ==
    extend(g, <<ConnectRecords(f)>>,
        <<Edge(parent, NextRef(g), PopOr(primary_identifier, "AssertionError", Act("parent_id"))),
          Edge(child, NextRef(g), Exactly(expected, primary_identifier, "RecordNotFound", Act("child_ids")))>>)

disconnect_records_node(g, parent, child, f, expected) ==
    extend(g, <<DisconnectRecords(f)>>,
        <<Edge(parent, NextRef(g), PopOr(primary_identifier, "AssertionError", Act("parent_id"))),
          Edge(child, NextRef(g), Exactly(expected, primary_identifier, "RecordsNotConnected", Act("child_ids")))>>)

-----------------------------------------------------------------------------
(* Nested create.                                                          *)

create_many_to_many_unconnected(g, parent, f, creates) ==
    FoldLeft(LAMBDA h, c : create_edge(h, parent, c, ExecutionOrder), g, creates)

create_many_to_many(g, parent, f, creates) ==
    FoldLeft(LAMBDA h, c : connect_records_node(create_edge(h, parent, c, ExecutionOrder), parent, c, f, 1),
             g, creates)

\* The last create is the only one when the relation is inlined in the parent.
create_one_to_many(g, parent, f, creates) ==
    LET parent_link == linking_fields(f)
        child_link == linking_fields(related_field(f))
        last == creates[Len(creates)]
    IN  IF relation_is_inlined_in_parent(f)
        THEN create_edge(mark_nodes(g, parent, last), parent, last,
                 PopOr(child_link, "AssertionError", Inject(parent_link)))
        ELSE extend(g, <<>>, [i \in DOMAIN creates |->
                 Edge(parent, creates[i], PopOr(parent_link, "AssertionError", Inject(child_link)))])

\* update is created on a parent that was not: it gives the parent the
\* child's link.  links and ids are the nodes the two come from.
update_parent_link(g, f, links, ids) ==
    extend(g, <<update_records_node_placeholder(EmptyFilter, model(f))>>,
        <<Edge(links, NextRef(g),
               PopOr(linking_fields(related_field(f)), "AssertionError", Inject(linking_fields(f)))),
          Edge(ids, NextRef(g), PopOr(primary_identifier, "AssertionError", Act("add_filter")))>>)

update_parent_link_if(inlined_parent, g, f, links, ids) ==
    IF inlined_parent THEN update_parent_link(g, f, links, ids) ELSE g

create_one_to_one_edge(g, parent, f, create) ==
    LET inlined_parent == relation_is_inlined_in_parent(f)
        extractor == linking_fields(IF inlined_parent THEN related_field(f) ELSE f)
        assimilator == linking_fields(IF inlined_parent THEN f ELSE related_field(f))
    IN  create_edge(IF inlined_parent THEN mark_nodes(g, parent, create) ELSE g, parent, create,
            PopOr(extractor, "AssertionError", [do |-> "inject_create", fields |-> assimilator]))

create_one_to_one(g, parent, f, creates) ==
    CASE node_is_create(g, parent) ->
            create_one_to_one_edge(g, parent, f, Last(creates))
      [] ~node_is_create(g, parent) /\ is_required(f) /\ is_required(related_field(f)) ->
            Fail(g, "RelationViolation")
      [] OTHER ->
            update_parent_link_if(relation_is_inlined_in_parent(f),
                create_one_to_one_edge(insert_existing_1to1_related_model_checks(g, parent, f),
                                       parent, f, Last(creates)),
                f, Last(creates), parent)

-----------------------------------------------------------------------------
(* Nested connect.                                                         *)

connect_many_to_many(g, parent, f, filter) ==
    LET child == NextRef(g)
        g1 == extend(g, <<read_ids_infallible(related_model(f), primary_identifier, filter)>>,
                     <<Edge(parent, child, ExecutionOrder)>>)
    IN  connect_records_node(g1, parent, child, f, size(filter))

connect_one_to_many(g, parent, f, filter) ==
    LET parent_link == linking_fields(f)
        child_link == linking_fields(related_field(f))
        new == NextRef(g)
    IN  IF relation_is_inlined_in_parent(f)
        THEN extend(mark_nodes(g, parent, new),
                 <<read_ids_infallible(related_model(f), child_link, filter)>>,
                 <<Edge(parent, new, PopOr(child_link, "AssertionError", Inject(parent_link)))>>)
        ELSE extend(g,
                 <<update_records_node_placeholder(filter, related_model(f)), EmptyNode>>,
                 <<Edge(parent, new, PopOr(parent_link, "AssertionError", Inject(child_link))),
                   Edge(new, new + 1, CountIs(size(filter), "RecordNotFound"))>>)

update_child_link(g, f, ids, links) ==
    extend(g, <<update_records_node_placeholder(EmptyFilter, related_model(f))>>,
        <<Edge(ids, NextRef(g), PopOr(primary_identifier, "AssertionError", Act("add_filter"))),
          Edge(links, NextRef(g),
               PopOr(linking_fields(f), "AssertionError", Inject(linking_fields(related_field(f)))))>>)

insert_1to1_checks_if(needed, g, parent, f) ==
    IF needed THEN insert_existing_1to1_related_model_checks(g, parent, f) ELSE g

connect_one_to_one_edge(g, parent, f, read, parent_is_create) ==
    create_edge(g, parent, read,
        PopOr(linking_fields(related_field(f)), "AssertionError",
              IF relation_is_inlined_in_parent(f) /\ parent_is_create
              THEN Inject(linking_fields(f))
              ELSE Act("pass")))

connect_one_to_one_update(g, parent, f, read, parent_is_create) ==
    IF ~relation_is_inlined_in_parent(f)
    THEN update_child_link(g, f, read, parent)
    ELSE update_parent_link_if(~parent_is_create, g, f, read, parent)

connect_one_to_one(g, parent, f, filter) ==
    LET parent_is_create == node_is_create(g, parent)
        child_field == related_field(f)
        inlined_parent == relation_is_inlined_in_parent(f)
        read == NextRef(g)
    IN  IF is_required(f) /\ is_required(child_field)
        THEN Fail(g, "RelationViolation")
        ELSE connect_one_to_one_update(
                 insert_1to1_checks_if(~parent_is_create /\ (is_required(child_field) \/ ~inlined_parent),
                     connect_one_to_one_edge(
                         insert_1to1_checks_if(is_required(f) \/ inlined_parent,
                             mark_nodes(
                                 create_node(g, read_ids_infallible(related_model(f),
                                                                    linking_fields(child_field), filter)),
                                 parent, read),
                             read, child_field),
                         parent, f, read, parent_is_create),
                     parent, f),
                 parent, f, read, parent_is_create)

connect_nested_connect(g, parent, f, ids) ==
    LET filter == unique_filters(ids)
    IN  CASE ids = {} -> g
          [] ids # {} /\ is_many_to_many(f) -> connect_many_to_many(g, parent, f, filter)
          [] ids # {} /\ is_one_to_many(f) -> connect_one_to_many(g, parent, f, filter)
          [] ids # {} /\ is_one_to_one(f) -> connect_one_to_one(g, parent, f, filter)

-----------------------------------------------------------------------------
(* Nested disconnect.                                                      *)

AtLeastOne(n) == IF n = 0 THEN 1 ELSE n

disconnect_many_to_many(g, parent, f, filter) ==
    disconnect_records_node(insert_find_children_by_parent_node(g, parent, f, filter),
                            parent, NextRef(g), f, AtLeastOne(size(filter)))

disconnect_one_to_x(g, parent, f, filter) ==
    LET find == NextRef(g)
        update == find + 1
        child_field == related_field(f)
        inlined_parent == relation_is_inlined_in_parent(f)
        inlined == IF inlined_parent THEN f ELSE child_field
        attach == IF inlined_parent THEN parent ELSE find
        check == IF inlined_parent THEN find ELSE parent
        expected == IF inlined_parent THEN AtLeastOne(size(filter)) ELSE 1
    IN  IF is_required(f) \/ is_required(child_field)
        THEN Fail(g, "RelationViolation")
        ELSE extend(insert_find_children_by_parent_node(g, parent, f, filter),
                 <<update_records_node_placeholder(EmptyFilter, model(inlined))>>,
                 <<Edge(attach, update,
                        PopOr(primary_identifier, "RecordsNotConnected",
                              [do |-> "filter_null", fields |-> linking_fields(inlined)])),
                   Edge(check, update,
                        Exactly(expected, primary_identifier, "RecordsNotConnected", Act("pass")))>>)

connect_nested_disconnect(g, parent, f, val) ==
    IF is_list(f)
    THEN IF is_many_to_many(f)
         THEN disconnect_many_to_many(g, parent, f, unique_filters(val))
         ELSE disconnect_one_to_x(g, parent, f, unique_filters(val))
    ELSE IF is_one_to_one(f) /\ ~val
         THEN g
         ELSE disconnect_one_to_x(g, parent, f, EmptyFilter)

-----------------------------------------------------------------------------
(* Nested set.                                                             *)

set_many_to_many_adds(g, parent, f, filter) ==
    IF size(filter) = 0 THEN g ELSE connect_many_to_many(g, parent, f, filter)

set_many_to_many_disconnect(g, parent, f, old) ==
    extend(insert_find_children_by_parent_node(g, parent, f, EmptyFilter),
        <<DisconnectRecords(f)>>,
        <<Edge(parent, old + 1, PopOr(primary_identifier, "AssertionError", Act("parent_id"))),
          Edge(old, old + 1, Always(primary_identifier, Act("child_ids")))>>)

set_many_to_many_connect(g, parent, f, filter, old) ==
    IF size(filter) = 0
    THEN g
    ELSE connect_records_node(
             extend(g, <<read_ids_infallible(related_model(f), primary_identifier, filter)>>,
                    <<Edge(old + 1, old + 2, ExecutionOrder)>>),
             parent, old + 2, f, size(filter))

set_many_to_many(g, parent, f, filter) ==
    set_many_to_many_connect(set_many_to_many_disconnect(g, parent, f, NextRef(g)), parent, f, filter, NextRef(g))

\* Children in the new set only are connected, those in the old set only are
\* disconnected; the difference is computed at run time.
set_one_to_many(g, parent, f, filter) ==
    LET child_link == linking_fields(related_field(f))
        child == related_model(f)
        old == NextRef(g)
        new == old + 1
        diff == old + 2
        connect_if == old + 3
        connect == old + 4
        disconnect_if == old + 5
        disconnect == old + 6
        max == IF is_required(related_field(f)) THEN 0 ELSE MaxRows
        FromDiff(side, hi, act) ==
            [Dep("ParentResult", {}, 0, hi, "RelationViolation", act) EXCEPT !.proj = {side}]
        placeholder == update_records_node_placeholder(EmptyFilter, child)
    IN  extend(insert_find_children_by_parent_node(g, parent, f, EmptyFilter),
            <<read_ids_infallible(child, primary_identifier, filter), DiffNode,
              IfNode, placeholder, IfNode, placeholder>>,
            <<Edge(old, new, ExecutionOrder),
              Edge(new, diff, Always(primary_identifier, Act("left"))),
              Edge(old, diff, Always(primary_identifier, Act("right"))),
              Edge(diff, connect_if, FromDiff("left", MaxRows, Condition(TRUE))),
              Edge(connect_if, connect, Then),
              Edge(parent, connect, PopOr(linking_fields(f), "AssertionError", Inject(child_link))),
              Edge(diff, connect, FromDiff("left", MaxRows, Act("selectors"))),
              Edge(diff, disconnect_if, FromDiff("right", max, Condition(TRUE))),
              Edge(disconnect_if, disconnect, Then),
              Edge(diff, disconnect,
                   FromDiff("right", MaxRows, [do |-> "selectors_null", fields |-> child_link]))>>)

connect_nested_set(g, parent, f, ids) ==
    IF is_many_to_many(f)
    THEN set_many_to_many(g, parent, f, unique_filters(ids))
    ELSE set_one_to_many(g, parent, f, unique_filters(ids))

-----------------------------------------------------------------------------
(* Nested delete and updateMany.                                           *)

\* find reads the children to delete; the checks and the delete come after it.
checked_delete(g, f, find, delete, dep) ==
    create_edge(insert_deletion_checks(g, related_model(f), find, delete), find, delete, dep)

delete_list(g, parent, f, ids) ==
    checked_delete(
        insert_find_children_by_parent_node(
            create_node(g, DeleteManyRecords(related_model(f), unique_filters(ToSet(ids)))),
            parent, f, unique_filters(ToSet(ids))),
        f, NextRef(g) + 1, NextRef(g),
        Exactly(Len(ids), primary_identifier, "RecordsNotConnected", Act("selectors")))

delete_one(g, parent, f) ==
    checked_delete(
        create_node(insert_find_children_by_parent_node(g, parent, f, EmptyFilter),
                    DeleteRecord(related_model(f), EmptyFilter)),
        f, NextRef(g), NextRef(g) + 1,
        PopOr(primary_identifier, "AssertionError", Act("selector")))

connect_nested_delete(g, parent, f, val) ==
    IF is_list(f) THEN delete_list(g, parent, f, val)
    ELSE IF val THEN delete_one(g, parent, f) ELSE g

delete_matching(g, parent, f, filter) ==
    checked_delete(
        create_node(insert_find_children_by_parent_node(g, parent, f, filter),
                    DeleteManyRecords(related_model(f), EmptyFilter)),
        f, NextRef(g), NextRef(g) + 1, Always(primary_identifier, Act("selectors")))

connect_nested_delete_many(g, parent, f, filters) ==
    FoldLeft(LAMBDA h, filter : delete_matching(h, parent, f, filter), g, filters)

connect_nested_update_many(g, parent, f, vals) ==
    LET Update(h, val) ==
            LET find == NextRef(h)
                h1 == insert_find_children_by_parent_node(h, parent, f, val.filter)
            IN  extend(h1, <<UpdateManyRecords(related_model(f), EmptyFilter, val.args)>>,
                       <<Edge(find, find + 1, Always(primary_identifier, Act("selectors")))>>)
    IN  FoldLeft(Update, g, vals)

-----------------------------------------------------------------------------
(* Records with nested operations.                                         *)

RECURSIVE connect_nested_queries(_, _, _)

create_record_node(g, m, data) ==
    connect_nested_queries(create_node(g, CreateRecord(m, data.args)), NextRef(g), data.nested)

update_record_node(g, filter, m, data) ==
    connect_nested_queries(create_node(g, UpdateRecord(m, filter, data.args)), NextRef(g), data.nested)

connect_created(all, parent, f) ==
    CASE is_many_to_many(f) -> create_many_to_many(all.g, parent, f, all.creates)
      [] is_one_to_many(f) -> create_one_to_many(all.g, parent, f, all.creates)
      [] is_one_to_one(f) -> create_one_to_one(all.g, parent, f, all.creates)

connect_nested_create(g, parent, f, datas) ==
    connect_created(
        FoldLeft(LAMBDA acc, data : [g |-> create_record_node(acc.g, related_model(f), data),
                                     creates |-> Append(acc.creates, NextRef(acc.g))],
                 [g |-> g, creates |-> <<>>], datas),
        parent, f)

nested_update(g, parent, f, val) ==
    create_edge(
        update_record_node(insert_find_children_by_parent_node(g, parent, f, where_filter(f, val.where)),
                           EmptyFilter, related_model(f), val.data),
        NextRef(g), NextRef(g) + 1, PopOr(primary_identifier, "AssertionError", Act("selector")))

connect_nested_update(g, parent, f, vals) ==
    FoldLeft(LAMBDA h, val : nested_update(h, parent, f, val), g, vals)

\* The new child is linked to the parent, in the branch that creates it.
upsert_link(g, parent, f, create) ==
    LET child_link == linking_fields(related_field(f))
    IN  CASE is_many_to_many(f) -> connect_records_node(g, parent, create, f, 1)
          [] ~is_many_to_many(f) /\ relation_is_inlined_in_parent(f) ->
                extend(g, <<update_records_node_placeholder(EmptyFilter, model(f))>>,
                    <<Edge(parent, NextRef(g), PopOr(primary_identifier, "AssertionError", Act("add_filter"))),
                      Edge(create, NextRef(g), PopOr(child_link, "AssertionError", Inject(linking_fields(f))))>>)
          [] OTHER ->
                create_edge(g, parent, create, PopOr(linking_fields(f), "AssertionError", Inject(child_link)))

upsert_branches(g, read, update) ==
    extend(g, <<>>,
        <<Edge(read, read + 1, Always(primary_identifier, Condition(TRUE))),
          Edge(read, update, PopOr(primary_identifier, "AssertionError", Act("add_filter"))),
          Edge(read + 1, update, Then),
          Edge(read + 1, read + 2, Else)>>)

\* g holds the read of the child, the If node and, from read + 2 on, the create.
upsert_update(g, parent, f, val, read) ==
    upsert_link(
        upsert_branches(update_record_node(g, EmptyFilter, related_model(f), val.update), read, NextRef(g)),
        parent, f, read + 2)

nested_upsert(g, parent, f, val) ==
    upsert_update(
        create_record_node(
            create_node(insert_find_children_by_parent_node(g, parent, f, where_filter(f, val.where)), IfNode),
            related_model(f), val.create),
        parent, f, val, NextRef(g))

connect_nested_upsert(g, parent, f, vals) ==
    FoldLeft(LAMBDA h, val : nested_upsert(h, parent, f, val), g, vals)

connect_nested_query(g, parent, n) ==
    CASE n.op = "create" -> connect_nested_create(g, parent, n.field, n.val)
      [] n.op = "update" -> connect_nested_update(g, parent, n.field, n.val)
      [] n.op = "upsert" -> connect_nested_upsert(g, parent, n.field, n.val)
      [] n.op = "delete" -> connect_nested_delete(g, parent, n.field, n.val)
      [] n.op = "connect" -> connect_nested_connect(g, parent, n.field, n.val)
      [] n.op = "disconnect" -> connect_nested_disconnect(g, parent, n.field, n.val)
      [] n.op = "set" -> connect_nested_set(g, parent, n.field, n.val)
      [] n.op = "updateMany" -> connect_nested_update_many(g, parent, n.field, n.val)
      [] n.op = "deleteMany" -> connect_nested_delete_many(g, parent, n.field, n.val)

connect_nested_queries(g, parent, nested) ==
    IF g.err # "none" \/ nested = <<>>
    THEN g
    ELSE connect_nested_queries(connect_nested_query(g, parent, Head(nested)), parent, Tail(nested))

-----------------------------------------------------------------------------
(* Top-level operations.  A request is a record with op, model and, as the *)
(* operation needs them, where, data, create, update, filter and sel, the  *)
(* fields of the answer.                                                   *)

\* Reads the record a node returns: the answer of the request.
read_result(g, from, err, m, sel) ==
    add_result_node(
        extend(g, <<RecordQuery(m, EmptyFilter, sel)>>,
               <<Edge(from, NextRef(g), PopOr(primary_identifier, err, Act("add_filter")))>>),
        NextRef(g))

create_record(req) ==
    read_result(create_record_node(EmptyGraph, req.model, req.data), 1,
                "AssertionError", req.model, req.sel)

update_record(req) ==
    read_result(update_record_node(EmptyGraph, Scalar(IdOf(req.where)), req.model, req.data), 1,
                "RecordNotFound", req.model, req.sel)

update_many_records(req) ==
    create_node(EmptyGraph, UpdateManyRecords(req.model, req.filter, req.data.args))

delete_record_no_result(req) ==
    LET filter == Scalar(IdOf(req.where))
        g1 == extend(EmptyGraph, <<RecordQuery(req.model, filter, req.sel), DeleteRecord(req.model, filter)>>, <<>>)
    IN  create_edge(insert_deletion_checks(g1, req.model, 1, 2), 1, 2,
            PopOr(primary_identifier, "RecordNotFound", Act("pass")))

delete_record(req) ==
    LET filter == Scalar(IdOf(req.where))
        g1 == extend(EmptyGraph, <<RecordQuery(req.model, filter, req.sel), DeleteRecord(req.model, filter)>>, <<>>)
        g2 == insert_deletion_checks(g1, req.model, 1, 2)
        g3 == create_edge(g2, 1, 2, PopOr(primary_identifier, "RecordNotFound", Act("pass")))
    IN  add_result_node(g3, 1)

delete_many_records(req) ==
    LET g1 == extend(EmptyGraph, <<read_ids_infallible(req.model, primary_identifier, req.filter),
                                   DeleteManyRecords(req.model, req.filter)>>, <<>>)
    IN  create_edge(insert_deletion_checks(g1, req.model, 1, 2), 1, 2, ExecutionOrder)

\* read_create is the first new node; the create is node 2.
upsert_reads(g, req, update, read_create) ==
    LET read == RecordQuery(req.model, EmptyFilter, req.sel)
        Follow == PopOr(primary_identifier, "AssertionError", Act("add_filter"))
        read_update == read_create + 1
        if == read_create + 2
    IN  [extend(g, <<read, read, IfNode>>,
             <<Edge(1, if, Always(primary_identifier, Condition(TRUE))),
               Edge(if, update, Then),
               Edge(if, 2, Else),
               Edge(update, read_update, Follow),
               Edge(2, read_create, Follow)>>) EXCEPT !.results = {read_create, read_update}]

upsert_finish(g, req, update) == upsert_reads(g, req, update, NextRef(g))

upsert_updates(g, req) ==
    upsert_finish(update_record_node(g, Scalar(IdOf(req.where)), req.model, req.update), req, NextRef(g))

upsert_record(req) ==
    upsert_updates(
        create_record_node(
            create_node(EmptyGraph,
                        read_ids_infallible(req.model, primary_identifier, Scalar(IdOf(req.where)))),
            req.model, req.create),
        req)

build(req) ==
    CASE req.op = "createOne" -> create_record(req)
      [] req.op = "updateOne" -> update_record(req)
      [] req.op = "updateMany" -> update_many_records(req)
      [] req.op = "deleteOne" -> delete_record(req)
      [] req.op = "deleteMany" -> delete_many_records(req)
      [] req.op = "upsertOne" -> upsert_record(req)
=============================================================================
