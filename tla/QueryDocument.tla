---------------------------- MODULE QueryDocument ----------------------------
(***************************************************************************)
(* The documents of requests, and the compaction of a batch of findOne     *)
(* queries into one findMany query whose records are handed out again to   *)
(* the queries they answer (query_document, response_ir, the read builders *)
(* and the GraphQL handler).                                               *)
(*                                                                         *)
(* A name is a pair of action and model, "findOne" and "User". A nested    *)
(* selection is a scalar column, or a relation with the names selected     *)
(* below it. A filter is a sequence of column/value pairs in key order. A  *)
(* value has the type and the form it is written in: the canonical form is *)
(* the one QueryValue::from gives a value that was read.                   *)
(***************************************************************************)
EXTENDS Naturals, Sequences, Functions

CONSTANT ColumnType     \* the type of every scalar column of the model

NoAlias == "no alias"
NoName == "no name"
ConversionError == [type |-> "Unsupported"]
Absent == [compound |-> FALSE, pairs |-> <<>>]

-----------------------------------------------------------------------------
(* Selections and operations.                                              *)

Selection_eq(s, other) ==
    /\ s.name = other.name /\ s.alias = other.alias
    /\ Len(s.arguments) = Len(other.arguments) /\ Len(s.nested) = Len(other.nested)
    /\ Range(s.arguments) \subseteq Range(other.arguments)
    /\ Range(s.nested) \subseteq Range(other.nested)

Names(nested) == {s.name : s \in Range(nested)}

\* The first member of every name is kept.
AddMissing(nested, more) ==
    LET selected[n \in 0..Len(more)] ==
            IF n = 0 THEN nested
            ELSE IF more[n].name \in Names(selected[n - 1]) THEN selected[n - 1]
            ELSE Append(selected[n - 1], more[n])
    IN  selected[Len(more)]

dedup(nested) == AddMissing(<<>>, nested)

\* A fragment and a bare selection set have no name.
matches_operation(def, operation) == def.name = operation

\* The definitions of a query that are converted: the first one with the operation
\* name of the request, or all of them when the request has none.
picked(query) ==
    LET named == {n \in DOMAIN query.definitions : matches_operation(query.definitions[n], query.operation)}
    IN  IF query.operation = NoName THEN DOMAIN query.definitions
        ELSE {n \in named : \A m \in named : n <= m}

\* Fragments, subscriptions and variables are refused.
convert_definition_fails(def) == ~ def.supported

\* The last operation of the last definition that has any.
popped(query) ==
    LET some == {n \in picked(query) : query.definitions[n].operations # <<>>}
        last == query.definitions[CHOOSE n \in some : \A m \in some : m <= n]
    IN  last.operations[Len(last.operations)]

\* Only the last operation is kept, with the duplicates removed from its own selection.
convert(query) ==
    IF \/ \E n \in picked(query) : convert_definition_fails(query.definitions[n])
       \/ \A n \in picked(query) : query.definitions[n].operations = <<>>
    THEN ConversionError
    ELSE [popped(query) EXCEPT !.nested = dedup(@)]

\* A body is one query or a batch of them.
try_from(body) ==
    [kind |-> body.kind, operations |-> [i \in DOMAIN body.queries |-> convert(body.queries[i])]]

is_find_one(op) == op.type = "Read" /\ op.name[1] = "findOne"

can_compact(ops) ==
    /\ ops # <<>> /\ is_find_one(ops[1])
    /\ \A i \in 2..Len(ops) :
          /\ is_find_one(ops[i]) /\ ops[i].name = ops[1].name
          /\ Len(ops[i].nested) = Len(ops[1].nested)
          /\ \A s \in Range(ops[1].nested) : \E o \in Range(ops[i].nested) : Selection_eq(o, s)

-----------------------------------------------------------------------------
(* The unique keys of several queries as one filter.                       *)

EmptySelectionSet == [kind |-> "Empty", keys |-> <<>>, vals |-> <<>>]

push_without_grouping(set, pair) ==
    IF set.kind = "Empty"
    THEN [kind |-> "Single", keys |-> <<<<pair[1]>>>>, vals |-> <<<<pair[2]>>>>]
    ELSE IF set.kind = "Single" /\ set.keys[1] = <<pair[1]>>
    THEN [set EXCEPT !.vals[1] = Append(@, pair[2])]
    ELSE [kind |-> "Multi", keys |-> [set.keys EXCEPT ![Len(set.keys)] = Append(@, pair[1])],
                            vals |-> [set.vals EXCEPT ![Len(set.vals)] = Append(@, pair[2])]]

push(set, pair) ==
    IF set.kind = "Empty"
    THEN [kind |-> "Single", keys |-> <<<<pair[1]>>>>, vals |-> <<<<pair[2]>>>>]
    ELSE IF set.kind = "Single" /\ set.keys[1] = <<pair[1]>>
    THEN [set EXCEPT !.vals[1] = Append(@, pair[2])]
    ELSE IF set.kind = "Single" \/ pair[1] \notin Range(set.keys[Len(set.keys)])
    THEN [kind |-> "Multi", keys |-> [set.keys EXCEPT ![Len(set.keys)] = Append(@, pair[1])],
                            vals |-> [set.vals EXCEPT ![Len(set.vals)] = Append(@, pair[2])]]
    ELSE [kind |-> "Multi", keys |-> Append(set.keys, <<pair[1]>>),
                            vals |-> Append(set.vals, <<pair[2]>>)]

\* A filter is a set of conjunctions: key IN values, or an OR of ANDs, in which
\* zip drops the values that have no key.
In(set) ==
    IF set.kind = "Single" THEN {<<<<set.keys[1][1], v>>>> : v \in Range(set.vals[1])}
    ELSE {[n \in DOMAIN set.keys[g] |-> <<set.keys[g][n], set.vals[g][n]>>] : g \in DOMAIN set.keys}

PushAll(set, pairs) ==
    LET pushed[n \in 0..Len(pairs)] == IF n = 0 THEN set ELSE push(pushed[n - 1], pairs[n])
    IN  pushed[Len(pairs)]

selection_set(ops) ==
    LET after[i \in 0..Len(ops)] ==
            IF i = 0 THEN EmptySelectionSet ELSE PushAll(after[i - 1], ops[i].where.pairs)
    IN  after[Len(ops)]

Scalar(column) == [name |-> column, alias |-> NoAlias, arguments |-> <<>>, nested |-> <<>>]

Column(pair) == pair[1]
Value(pair) == pair[2]

\* The unique columns are selected as well, to tell the records apart.
with_keys(nested, keys) == AddMissing(nested, [n \in DOMAIN keys |-> Scalar(keys[n])])

Compacted(ops, set) ==
    [type |-> "Read", name |-> <<"findMany", ops[1].name[2]>>, alias |-> ops[1].alias,
     filter |-> In(set), rows |-> <<>>,
     nested |-> with_keys(ops[1].nested, set.keys[1]),
     nested_selection |-> Names(ops[1].nested),
     keys |-> [n \in DOMAIN ops[1].where.pairs |-> Column(ops[1].where.pairs[n])],
     arguments |-> [i \in DOMAIN ops |->
                       [n \in DOMAIN ops[i].where.pairs |-> Value(ops[i].where.pairs[n])]]]

compact(ops) == Compacted(ops, selection_set(ops))

\* The compaction unwraps the filter of every query, outside the code that
\* turns panics into answers.
compact_panics(ops) == \E i \in DOMAIN ops : ops[i].where.pairs = <<>>

-----------------------------------------------------------------------------
(* Validation and execution of a read against the rows of the model.       *)

parses(pair) == Value(pair).type = ColumnType[Column(pair)]

matches(row, conjunction) == \A n \in DOMAIN conjunction : row[Column(conjunction[n])] = Value(conjunction[n]).value

find_many(filter, rows) == {row \in rows : \E c \in filter : matches(row, c)}

FilterOf(op) == IF is_find_one(op) THEN {op.where.pairs} ELSE op.filter

\* findOne wants exactly one unique criterion: a column, or a compound key with all
\* of its columns.
one_criterion(where) == IF where.compound THEN where.pairs # <<>> ELSE Len(where.pairs) = 1

builds(op) ==
    /\ is_find_one(op) => one_criterion(op.where)
    /\ \A c \in FilterOf(op) : \A n \in DOMAIN c : parses(c[n])

Null == <<>>

\* The children below a relation are not told apart: what is selected of them is.
Item(row, nested) ==
    [name \in Names(nested) |->
        LET s == CHOOSE s \in Range(nested) : s.name = name
        IN  IF s.nested = <<>> THEN row[name] ELSE Range(s.nested)]

ResponseKey(op) == IF op.alias = NoAlias THEN op.name ELSE <<op.alias>>

\* What a findOne query answers by itself.
find_one(op, rows) ==
    [key |-> ResponseKey(op),
     item |-> IF find_many(FilterOf(op), rows) = {} THEN Null
              ELSE Item(CHOOSE row \in find_many(FilterOf(op), rows) : TRUE, op.nested)]

-----------------------------------------------------------------------------
(* The records of a compacted query, handed out again.                     *)

QueryValue_from(column, value) ==
    [type |-> ColumnType[column], form |-> "canonical", value |-> value]

index_key(row, keys) == [n \in DOMAIN keys |-> QueryValue_from(keys[n], row[keys[n]])]

\* take_data(plural_name) finds nothing when the response has an alias for key.
handout_panics(document) == document.alias # NoAlias

Found(found, document) ==
    IF found = {} THEN Null
    ELSE LET row == CHOOSE row \in found : TRUE
         IN  [name \in document.nested_selection |-> Item(row, document.nested)[name]]

handle_compacted(document, rows) ==
    [i \in DOMAIN document.arguments |->
        [key |-> <<"findOne", document.name[2]>>,
         item |-> Found({row \in find_many(document.filter, rows) :
                            index_key(row, document.keys) = document.arguments[i]}, document)]]

-----------------------------------------------------------------------------
(* What the compaction promises.                                           *)

\* A findOne query as it is parsed: the keys of its filter are those of an object.
Parsed(op) ==
    /\ op.name = <<op.name[1], op.name[2]>>
    /\ op.where.pairs \in Seq(Range(op.where.pairs))
    /\ \A m, n \in DOMAIN op.where.pairs :
          Column(op.where.pairs[m]) = Column(op.where.pairs[n]) => m = n
    /\ \A n \in DOMAIN op.where.pairs :
          LET v == Value(op.where.pairs[n]) IN v = [type |-> v.type, form |-> v.form, value |-> v.value]
    /\ op.nested \in Seq(Range(op.nested))
    /\ \A s \in Range(op.nested) : s.nested \in Seq(Range(s.nested))

\* As convert leaves it: nothing is selected twice.
WellFormed(op) ==
    /\ Parsed(op)
    /\ \A m, n \in DOMAIN op.nested : op.nested[m].name = op.nested[n].name => m = n

\* The queries that the compaction is made for: the same unique columns of one
\* criterion, values in the form they are read back in, no alias, nothing selected
\* twice below a relation. (Of several criteria findOne refuses, the findMany query
\* of the batch takes all.)
Plain(ops) ==
    \A i \in DOMAIN ops :
        /\ ops[i].alias = NoAlias /\ one_criterion(ops[i].where)
        /\ Len(ops[i].where.pairs) = Len(ops[1].where.pairs)
        /\ \A n \in DOMAIN ops[i].where.pairs :
              /\ Column(ops[i].where.pairs[n]) = Column(ops[1].where.pairs[n])
              /\ Value(ops[i].where.pairs[n]).form = "canonical"
        /\ \A s \in Range(ops[i].nested) : IsInjective(s.nested)

CompactedAsAlone(ops, compacted, rows) ==
    handle_compacted(compacted, rows) = [i \in DOMAIN ops |-> find_one(ops[i], rows)]

=============================================================================
