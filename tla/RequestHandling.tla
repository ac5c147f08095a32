--------------------------- MODULE RequestHandling ---------------------------
(***************************************************************************)
(* Concurrent requests to the query engine: the handler that turns a       *)
(* document into one task, one task per operation of a batch, or one task  *)
(* for a compacted batch; the executor that runs the operation of a task   *)
(* on a pooled connection, inside a transaction or not; and everything     *)
(* that may go wrong in between: connections and statements that fail,     *)
(* panics, commits whose answer is lost, clients that hang up, a crash.    *)
(*                                                                         *)
(* The database is a set of statements that took effect, <<task, n>> for   *)
(* the n-th statement of a task. What one statement of a write does is the *)
(* subject of QueryEngine; here it inserts one row. The pool, the          *)
(* transactions of the library below the connector, and the database are   *)
(* modelled from how the executor uses them: a transaction that is dropped *)
(* rolls back, and a connection that is dropped returns to the pool.       *)
(***************************************************************************)
EXTENDS QueryDocument

CONSTANTS
    Requests,
    MaxOperations,      \* executed for one request
    Connections,        \* of the pool
    NoConnection,
    Workloads           \* the requests, rows and options of an instance

ASSUME ConnectionAssumption == NoConnection \notin Connections
ASSUME BoundAssumption == MaxOperations \in Nat

VARIABLES
    workload,   \* [documents, rows, force_transactions]: never changes
    handling,   \* how the handler has taken a request
    sent,       \* what the client of a request knows of it
    operation,         \* the operation of a task
    pc,         \* where the task is
    conn,       \* the connection it holds
    written,    \* the statements of its open transaction
    view,       \* the database it read
    result,     \* what its pipeline has come to
    answer,     \* "data", or where it failed
    db,
    up

taken == <<workload, handling, operation>>
vars == <<workload, handling, sent, operation, pc, conn, written, view, result, answer, db, up>>

Tasks == Requests \X (1..MaxOperations)
Executing == {"build", "start_transaction", "interpret", "serialize", "commit", "committed", "rollback"}
Failures == {"get_connection", "build", "start_transaction", "interpret", "panic", "serialize", "commit"}

NoOperation == [type |-> "None", rows |-> <<>>]

Init ==
    /\ workload \in Workloads
    /\ handling = [r \in Requests |-> "none"]
    /\ sent = [r \in Requests |-> "unsent"]
    /\ operation = [t \in Tasks |-> NoOperation]
    /\ pc = [t \in Tasks |-> "idle"]
    /\ conn = [t \in Tasks |-> NoConnection]
    /\ written = [t \in Tasks |-> 0]
    /\ view = [t \in Tasks |-> {}]
    /\ result = [t \in Tasks |-> "none"]
    /\ answer = [t \in Tasks |-> "none"]
    /\ db = {} /\ up = TRUE

-----------------------------------------------------------------------------
(* Documents and tasks.                                                    *)

document(r) == workload.documents[r]

\* How a document is handled: "error" when a query of it is not supported, "panic"
\* when the compaction of the batch panics.
handler(d) ==
    IF \E i \in DOMAIN d.operations : d.operations[i].type = "Unsupported" THEN "error"
    ELSE IF d.kind = "Single" THEN "single"
    ELSE IF ~ can_compact(d.operations) THEN "batch"
    ELSE IF compact_panics(d.operations) THEN "panic" ELSE "compact"

\* The operations that are executed, each in a task of its own.
executed(d, how) ==
    IF how \in {"single", "batch"} THEN d.operations
    ELSE IF how = "compact" THEN <<compact(d.operations)>> ELSE <<>>

\* Every write has rows, a raw query is one statement, and reads insert nothing.
ASSUME WorkloadAssumption ==
    \A w \in Workloads : \A r \in DOMAIN w.documents :
        LET d == w.documents[r]
        IN  /\ Len(executed(d, handler(d))) <= MaxOperations
            /\ \A i \in DOMAIN d.operations :
                  \/ d.operations[i].type = "Write" /\ Len(d.operations[i].rows) \in Nat \ {0}
                  \/ d.operations[i].type = "Raw" /\ Len(d.operations[i].rows) = 1
                  \/ d.operations[i].type = "Read" /\ Len(d.operations[i].rows) = 0
                  \/ d.operations[i].type = "Unsupported"

\* A batch is a sequence of operations, and what can be compacted is well formed.
ASSUME DocumentAssumption ==
    \A w \in Workloads : \A r \in DOMAIN w.documents :
        LET ops == w.documents[r].operations
        IN  /\ ops \in Seq(Range(ops))
            /\ can_compact(ops) => \A i \in DOMAIN ops : WellFormed(ops[i])

tasks(r) == {t \in Tasks : t[1] = r /\ operation[t] # NoOperation}

writes(t) == operation[t].type \in {"Write", "Raw"}
needs_transaction(t) == workload.force_transactions \/ operation[t].type = "Write"
Size(t) == Len(operation[t].rows)
Statements(t) == {<<t, n>> : n \in 1..Size(t)}

Rows(seen) == workload.rows \cup {operation[s[1]].rows[s[2]] : s \in seen}

-----------------------------------------------------------------------------
(* The handler.                                                            *)

Tell(r, what) == sent' = [sent EXCEPT ![r] = what]

Start(r, operations) ==
    /\ operation' = [t \in Tasks |-> IF t[1] = r /\ t[2] \in DOMAIN operations THEN operations[t[2]] ELSE operation[t]]
    /\ pc' = [t \in Tasks |-> IF t[1] = r /\ t[2] \in DOMAIN operations THEN "get_connection" ELSE pc[t]]

handle(r) ==
    /\ up /\ sent[r] = "unsent" /\ r \in DOMAIN workload.documents
    /\ handling' = [handling EXCEPT ![r] = handler(document(r))]
    /\ Tell(r, IF handling'[r] = "error" THEN "answered"
               ELSE IF handling'[r] = "panic" THEN "closed" ELSE "pending")
    /\ Start(r, executed(document(r), handling'[r]))
    /\ UNCHANGED <<workload, conn, written, view, result, answer, db, up>>

\* join_all waits for every spawned task. The handler of a compacted query unwraps
\* the list of records from an answer that may hold an error or another key; the
\* panic closes the connection of the client.
respond(r) ==
    /\ up /\ sent[r] = "pending"
    /\ \A t \in tasks(r) : pc[t] = "done"
    /\ Tell(r, IF /\ handling[r] = "compact"
                  /\ \/ answer[<<r, 1>>] = "serialize"
                     \/ answer[<<r, 1>>] = "data" /\ handout_panics(operation[<<r, 1>>])
               THEN "closed" ELSE "answered")
    /\ UNCHANGED <<taken, pc, conn, written, view, result, answer, db, up>>

-----------------------------------------------------------------------------
(* The executor.                                                           *)

Goto(t, where) == pc' = [pc EXCEPT ![t] = where]

\* A task that keeps its connection until its request is answered.
ReturnKeepingConnection(t, what) ==
    /\ Goto(t, "done")
    /\ answer' = [answer EXCEPT ![t] = what]
    /\ written' = [written EXCEPT ![t] = 0]
    /\ UNCHANGED conn

\* The task ends: its answer is there, its transaction and its connection are
\* dropped.
Return(t, what) ==
    /\ Goto(t, "done")
    /\ answer' = [answer EXCEPT ![t] = what]
    /\ conn' = [conn EXCEPT ![t] = NoConnection]
    /\ written' = [written EXCEPT ![t] = 0]

Free == {c \in Connections : \A t \in Tasks : conn[t] # c}

get_connection(t) ==
    /\ pc[t] = "get_connection"
    /\ \E c \in Free : conn' = [conn EXCEPT ![t] = c]
    /\ Goto(t, "build")
    /\ UNCHANGED <<taken, sent, written, view, result, answer, db, up>>

get_connection_fails(t) ==
    /\ pc[t] = "get_connection"
    /\ Return(t, "get_connection")
    /\ UNCHANGED <<taken, sent, view, result, db, up>>

is_valid(o) == IF o.type = "Read" THEN builds(o) ELSE o.valid

build(t) ==
    /\ pc[t] = "build"
    /\ IF is_valid(operation[t])
       THEN /\ Goto(t, IF needs_transaction(t) THEN "start_transaction" ELSE "interpret")
            /\ UNCHANGED <<conn, written, answer>>
       ELSE Return(t, "build")
    /\ UNCHANGED <<taken, sent, view, result, db, up>>

start_transaction(t) ==
    /\ pc[t] = "start_transaction"
    /\ Goto(t, "interpret")
    /\ UNCHANGED <<taken, sent, conn, written, view, result, answer, db, up>>

start_transaction_fails(t) ==
    /\ pc[t] = "start_transaction"
    /\ Return(t, "start_transaction")
    /\ UNCHANGED <<taken, sent, view, result, db, up>>

interpret_read(t) ==
    /\ pc[t] = "interpret" /\ ~ writes(t)
    /\ view' = [view EXCEPT ![t] = db]
    /\ result' = [result EXCEPT ![t] = "read"]
    /\ Goto(t, "serialize")
    /\ UNCHANGED <<taken, sent, conn, written, answer, db, up>>

\* A statement of a write that runs on the connection instead of the transaction.
StatementOnConnection(t) ==
    /\ pc[t] = "interpret" /\ writes(t) /\ written[t] < Size(t)
    /\ written' = [written EXCEPT ![t] = @ + 1]
    /\ db' = db \cup {<<t, written[t] + 1>>}
    /\ IF written'[t] = Size(t) THEN Goto(t, "serialize") ELSE UNCHANGED pc
    /\ UNCHANGED <<taken, sent, conn, view, result, answer, up>>

interpret_write(t) ==
    /\ pc[t] = "interpret" /\ writes(t) /\ written[t] < Size(t)
    /\ written' = [written EXCEPT ![t] = @ + 1]
    /\ db' = IF needs_transaction(t) THEN db ELSE db \cup {<<t, written[t] + 1>>}
    /\ IF written'[t] = Size(t) THEN Goto(t, "serialize") ELSE UNCHANGED pc
    /\ UNCHANGED <<taken, sent, conn, view, result, answer, up>>

interpret_fails(t) ==
    /\ pc[t] = "interpret"
    /\ IF needs_transaction(t)
       THEN Goto(t, "rollback") /\ UNCHANGED <<conn, written, answer>>
       ELSE Return(t, "interpret")
    /\ UNCHANGED <<taken, sent, view, result, db, up>>

\* Outside a transaction a statement whose answer is lost stays executed.
interpret_is_lost(t) ==
    /\ pc[t] = "serialize" /\ ~ needs_transaction(t)
    /\ Return(t, "interpret")
    /\ UNCHANGED <<taken, sent, view, result, db, up>>

\* An error of the serializer is a response like any other to the executor.
serialize(t) ==
    /\ pc[t] = "serialize"
    /\ \E outcome \in {"data", "serialize"} :
          /\ result' = [result EXCEPT ![t] = outcome]
          /\ IF needs_transaction(t)
             THEN Goto(t, "commit") /\ UNCHANGED <<conn, written, answer>>
             ELSE Return(t, outcome)
    /\ UNCHANGED <<taken, sent, view, db, up>>

\* handle_single_query catches a panic of the executor; what the executor held is
\* dropped on the way.
panic(t) ==
    /\ pc[t] \in {"build", "interpret", "serialize"}
    /\ Return(t, "panic")
    /\ UNCHANGED <<taken, sent, view, result, db, up>>

\* A commit that forgets what the transaction wrote.
CommitNothing(t) ==
    /\ pc[t] = "commit"
    /\ Goto(t, "committed")
    /\ UNCHANGED <<taken, sent, conn, written, view, result, answer, db, up>>

\* The database commits.
commit(t) ==
    /\ pc[t] = "commit"
    /\ db' = db \cup Statements(t)
    /\ Goto(t, "committed")
    /\ UNCHANGED <<taken, sent, conn, written, view, result, answer, up>>

\* A commit that times out and is still on its way.
CommitTimesOut(t) ==
    /\ pc[t] \in {"commit", "committed"} /\ answer[t] = "none"
    /\ answer' = [answer EXCEPT ![t] = "commit"]
    /\ UNCHANGED <<taken, sent, pc, conn, written, view, result, db, up>>

\* The commit failed, or its answer was lost.
commit_fails(t) ==
    /\ pc[t] \in {"commit", "committed"}
    /\ Return(t, "commit")
    /\ UNCHANGED <<taken, sent, view, result, db, up>>

commit_returns(t) ==
    /\ pc[t] = "committed"
    /\ Return(t, result[t])
    /\ UNCHANGED <<taken, sent, view, result, db, up>>

\* A failed pipeline that is committed like a successful one.
RollbackCommits(t) ==
    /\ pc[t] = "rollback"
    /\ Return(t, "interpret")
    /\ db' = db \cup {<<t, n>> : n \in 1..written[t]}
    /\ UNCHANGED <<taken, sent, view, result, up>>

\* When the rollback fails too, its error is answered instead and the connection
\* is of no use to anybody: the transaction is gone with it.
rollback(t) ==
    /\ pc[t] = "rollback"
    /\ Return(t, "interpret")
    /\ UNCHANGED <<taken, sent, view, result, db, up>>

-----------------------------------------------------------------------------
(* Clients that hang up, and crashes.                                      *)

\* The futures of tasks are dropped where they wait: an open transaction rolls
\* back, a commit that is on its way may or may not be executed.
Drop(S) ==
    /\ pc' = [t \in Tasks |-> IF t \in S THEN "dropped" ELSE pc[t]]
    /\ conn' = [t \in Tasks |-> IF t \in S THEN NoConnection ELSE conn[t]]
    /\ written' = [t \in Tasks |-> IF t \in S THEN 0 ELSE written[t]]
    /\ \E late \in SUBSET {t \in S : pc[t] = "commit"} :
          db' = db \cup UNION {Statements(t) : t \in late}
    /\ UNCHANGED <<taken, view, result, answer>>

Unfinished(r) == {t \in tasks(r) : pc[t] # "done"}

\* A batch whose tasks are awaited and not spawned.
HangUpDropsAll(r) ==
    /\ up /\ sent[r] = "pending"
    /\ Tell(r, "gone")
    /\ Drop(Unfinished(r))
    /\ UNCHANGED up

\* The server drops the future of the request. Spawned tasks are not part of it.
hang_up(r) ==
    /\ up /\ sent[r] = "pending"
    /\ Tell(r, "gone")
    /\ Drop(IF handling[r] = "batch" THEN {} ELSE Unfinished(r))
    /\ UNCHANGED up

crash ==
    /\ up /\ up' = FALSE
    /\ sent' = [r \in Requests |-> IF sent[r] = "pending" THEN "gone" ELSE sent[r]]
    /\ Drop({t \in Tasks : pc[t] \notin {"idle", "done", "dropped"}})

-----------------------------------------------------------------------------

\* The steps of a task that the runtime and the database owe it.
execute(t) ==
    \/ get_connection(t) \/ build(t) \/ start_transaction(t)
    \/ interpret_read(t) \/ interpret_write(t) \/ serialize(t)
    \/ commit(t) \/ commit_returns(t) \/ rollback(t)

fail(t) ==
    \/ get_connection_fails(t) \/ start_transaction_fails(t) \/ interpret_fails(t) \/ interpret_is_lost(t)
    \/ commit_fails(t) \/ panic(t)

Next ==
    \/ \E r \in Requests : handle(r) \/ respond(r) \/ hang_up(r)
    \/ \E t \in Tasks : up /\ (execute(t) \/ fail(t))
    \/ crash

Spec == Init /\ [][Next]_vars

Fairness ==
    /\ \A t \in Tasks : WF_vars(up /\ execute(t))
    /\ \A r \in Requests : WF_vars(respond(r))

FairSpec == Spec /\ Fairness

-----------------------------------------------------------------------------
(* Properties.                                                             *)

TypeOK ==
    /\ handling \in [Requests -> {"none", "single", "batch", "compact", "error", "panic"}]
    /\ sent \in [Requests -> {"unsent", "pending", "answered", "closed", "gone"}]
    /\ pc \in [Tasks -> {"idle", "get_connection", "done", "dropped"} \cup Executing]
    /\ conn \in [Tasks -> Connections \cup {NoConnection}]
    /\ written \in [Tasks -> Nat]
    /\ db \subseteq Tasks \X Nat
    /\ view \in [Tasks -> SUBSET (Tasks \X Nat)]
    /\ result \in [Tasks -> {"none", "read", "data", "serialize"}]
    /\ answer \in [Tasks -> {"none", "data"} \cup Failures]
    /\ up \in BOOLEAN

Started(t) == pc[t] # "idle"

\* An operation that answers an error from inside its transaction leaves nothing
\* behind, whatever failed and whoever ran beside it. The errors of the serializer
\* and of the commit itself are the exceptions: the executor commits the first,
\* and cannot know about the second (execute, lines 47 to 55).
ErrorMeansUndone ==
    \A t \in Tasks :
        /\ Started(t) /\ writes(t) /\ needs_transaction(t)
        /\ answer[t] \in Failures \ {"serialize", "commit"}
        => Statements(t) \cap db = {}

\* The statements of a write take effect together or not at all, through failures,
\* panics, hang-ups and crashes (execute: start_transaction, commit, rollback).
AllOrNothing ==
    \A t \in Tasks : Started(t) /\ writes(t) => Statements(t) \cap db \in {{}, Statements(t)}

\* Data is answered only for writes that are in the database: execute inserts the
\* data into the responses after the commit returned.
DataMeansApplied ==
    \A t \in Tasks : Started(t) /\ writes(t) /\ answer[t] = "data" => Statements(t) \subseteq db

\* Every query of a compacted batch gets the answer it would have got alone from
\* the database that was read: in its own place, its own record or null, with the
\* fields it selected (CompactedDocument::from, index_by, handle_compacted).
CompactionIsTransparent ==
    \A r \in Requests :
        /\ sent[r] \in {"answered", "closed"} /\ handling[r] = "compact"
        /\ answer[<<r, 1>>] = "data" /\ Plain(document(r).operations)
        => /\ sent[r] = "answered"
           /\ CompactedAsAlone(document(r).operations, operation[<<r, 1>>], Rows(view[<<r, 1>>]))

Effective(t) ==
    Started(t) /\ IF writes(t) THEN Statements(t) \subseteq db ELSE result[t] # "none"

Received == {t \in Tasks : Started(t)}
TookEffect == {t \in Tasks : Effective(t)}
Settled == {t \in Tasks : pc[t] \in {"done", "dropped"}}
Told == [t \in Tasks |-> IF answer[t] \in {"none", "data"} THEN answer[t] ELSE "error"]

Atomic == INSTANCE AtomicRequests WITH
    Operations <- Tasks, received <- Received, effective <- TookEffect, settled <- Settled, answered <- Told

\* To its clients the engine behaves as AtomicRequests: execute, with all that
\* may fail around it, is one step at most.
AtomicallyExecuted == Atomic!Spec

\* A request that was taken is answered, unless its client or the engine goes
\* away: no task waits for ever for a connection of the pool (handle_batch joins
\* all of its tasks, and each of them needs a connection).
Answered == \A r \in Requests : sent[r] = "pending" ~> sent[r] # "pending"

\* The operations of a batch run to their end even when the client hangs up, since
\* each of them is spawned: only a crash keeps one from being done.
SpawnedTasksFinish ==
    \A t \in Tasks :
        pc[t] = "get_connection" /\ handling[t[1]] = "batch" ~> pc[t] = "done" \/ ~ up
=============================================================================
