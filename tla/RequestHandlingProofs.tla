------------------------ MODULE RequestHandlingProofs ------------------------
(***************************************************************************)
(* What the clients of the query engine may rely on when requests, tasks,  *)
(* failures, hang-ups and the end of the process interleave: proofs for    *)
(* any set of workloads, any number of connections and any batch size.     *)
(*                                                                         *)
(* The argument is about one task at a time.  Where a task is in           *)
(* execute_operation tells how much of its operation the database has      *)
(* (nothing before the commit, everything after it), so the inductive      *)
(* invariant ties the two together (TaskInv), and the rest of the proof is *)
(* that no other task, hang-up or crash can come between them.             *)
(* The last section is about progress: the pool does not lock, and every   *)
(* task that was started only gets nearer its end.                         *)
(***************************************************************************)
EXTENDS RequestHandling, QueryDocumentProofs, TLAPS

USE ZenonT(60)

\* A write has statements, a raw query is one statement, a read has none.
Sized(o) ==
    \/ o.type = "Write" /\ Len(o.rows) \in Nat \ {0}
    \/ o.type = "Raw" /\ Len(o.rows) = 1
    \/ o.type \notin {"Write", "Raw"} /\ Len(o.rows) = 0

\* The database has none of the statements of t, or all of them.
Untouched(t) == \A n \in Nat : <<t, n>> \notin db
Applied(t) == Statements(t) \subseteq db

\* What the place of a task in execute_operation tells about its operation, its
\* result, its answer and its statements in the database.
TaskInv(t) ==
    /\ Sized(operation[t])
    /\ pc[t] = "idle" => operation[t] = NoOperation /\ result[t] = "none"
    /\ pc[t] # "done" => answer[t] = "none"
    /\ pc[t] \in {"commit", "committed"} => result[t] \in {"data", "serialize"}
    /\ pc[t] \in {"commit", "committed", "rollback"} => needs_transaction(t)
    /\ pc[t] = "serialize" /\ ~ writes(t) => result[t] # "none"
    /\ pc[t] \in {"idle", "get_connection", "build", "start_transaction", "interpret"} => Untouched(t)
    /\ pc[t] \in {"serialize", "commit", "rollback"} /\ needs_transaction(t) => Untouched(t)
    /\ pc[t] = "serialize" /\ ~ needs_transaction(t) => Applied(t)
    /\ pc[t] = "committed" => Applied(t)
    /\ pc[t] \in {"done", "dropped"} => Untouched(t) \/ Applied(t)
    /\ answer[t] \in Failures \ {"serialize", "commit"} /\ needs_transaction(t) => Untouched(t)
    /\ answer[t] = "data" => Applied(t)

\* The inductive invariant: every task is consistent, and no task runs for a
\* request that was not sent yet.
IInv ==
    /\ TypeOK
    /\ workload \in Workloads
    /\ \A t \in Tasks : sent[t[1]] = "unsent" => pc[t] = "idle"
    /\ \A t \in Tasks : TaskInv(t)

-----------------------------------------------------------------------------
(* The operations of the tasks.                                            *)

\* Every document is handled in one of the ways GraphQlRequestHandler distinguishes.
LEMMA HandlerTyped ==
    ASSUME NEW d
    PROVE  handler(d) \in {"single", "batch", "compact", "error", "panic"}
BY DEF handler

\* What a request executes is sized: the operations of the client's documents are
\* by WorkloadAssumption, and what CompactedDocument makes of them is a read.
LEMMA ExecutedSized ==
    ASSUME NEW w \in Workloads, NEW r \in DOMAIN w.documents,
           NEW i \in DOMAIN executed(w.documents[r], handler(w.documents[r]))
    PROVE  Sized(executed(w.documents[r], handler(w.documents[r]))[i])
<1> DEFINE d == w.documents[r]
<1>1. CASE handler(d) \in {"single", "batch"}
  <2>1. executed(d, handler(d)) = d.operations
    BY <1>1 DEF executed
  <2>2. i \in DOMAIN d.operations /\ d.operations[i].type # "Unsupported"
    BY <1>1, <2>1 DEF handler
  <2> QED BY <2>1, <2>2, WorkloadAssumption DEF Sized
<1>2. CASE handler(d) = "compact"
  <2>1. executed(d, handler(d)) = <<compact(d.operations)>>
    BY <1>2 DEF executed
  <2>2. i = 1
    BY <2>1, SMTT(60)
  <2>3. compact(d.operations).type = "Read" /\ compact(d.operations).rows = <<>>
    BY DEF compact, Compacted
  <2> QED BY <2>1, <2>2, <2>3, SMTT(60) DEF Sized
<1>3. CASE handler(d) \in {"error", "panic"}
  <2>1. executed(d, handler(d)) = <<>>
    BY <1>3 DEF executed
  <2> QED BY <2>1, SMTT(60)
<1> QED BY <1>1, <1>2, <1>3, HandlerTyped


-----------------------------------------------------------------------------
(* The inductive invariant.                                                *)

\* A task that a step leaves alone, and whose statements the step neither commits
\* nor takes back, keeps its invariant.
LEMMA TaskFrame ==
    ASSUME NEW t \in Tasks, TaskInv(t),
           workload' = workload, operation'[t] = operation[t], pc'[t] = pc[t],
           result'[t] = result[t], answer'[t] = answer[t],
           \A n \in Nat : <<t, n>> \in db' <=> <<t, n>> \in db
    PROVE  TaskInv(t)'
<1>1. /\ writes(t)' <=> writes(t)
      /\ needs_transaction(t)' <=> needs_transaction(t)
      /\ Sized(operation[t]) => Sized(operation[t])'
  BY DEF writes, needs_transaction, Sized
<1>2. Untouched(t)' <=> Untouched(t)
  BY DEF Untouched
<1>3. Applied(t) /\ Sized(operation[t]) => Applied(t)'
  BY SMTT(60) DEF Applied, Statements, Size, Sized
<1> QED BY <1>1, <1>2, <1>3 DEF TaskInv

\* Before the first request no task has an operation or a trace in the database.
LEMMA InitInv == Init => IInv
<1> SUFFICES ASSUME Init PROVE IInv
  OBVIOUS
<1>1. TypeOK
  BY DEF Init, TypeOK
<1>2. ASSUME NEW t \in Tasks PROVE TaskInv(t)
  <2>1. Sized(operation[t])
    BY DEF Init, NoOperation, Sized
  <2> QED BY <2>1 DEF Init, TaskInv, Untouched, Failures
<1> QED BY <1>1, <1>2 DEF IInv, Init, Tasks

\* Tasks are isolated: a step of one changes neither the state of another nor
\* which of the other's statements the database has.
LEMMA OthersKept ==
    ASSUME TypeOK, NEW t \in Tasks, execute(t) \/ fail(t), NEW u \in Tasks, u # t
    PROVE  /\ pc'[u] = pc[u] /\ result'[u] = result[u] /\ answer'[u] = answer[u]
           /\ \A n \in Nat : <<u, n>> \in db' <=> <<u, n>> \in db
<1> USE DEF TypeOK, Goto, Return, taken
<1>1. CASE get_connection(t) BY <1>1 DEF get_connection
<1>2. CASE build(t) BY <1>2 DEF build
<1>3. CASE start_transaction(t) BY <1>3 DEF start_transaction
<1>4. CASE interpret_read(t) BY <1>4 DEF interpret_read
<1>5. CASE interpret_write(t) BY <1>5 DEF interpret_write
<1>6. CASE serialize(t) BY <1>6 DEF serialize
<1>7. CASE commit(t) BY <1>7 DEF commit, Statements
<1>8. CASE commit_returns(t) BY <1>8 DEF commit_returns
<1>9. CASE rollback(t) BY <1>9 DEF rollback
<1>10. CASE get_connection_fails(t) BY <1>10 DEF get_connection_fails
<1>11. CASE start_transaction_fails(t) BY <1>11 DEF start_transaction_fails
<1>12. CASE interpret_fails(t) BY <1>12 DEF interpret_fails
<1>13. CASE interpret_is_lost(t) BY <1>13 DEF interpret_is_lost
<1>14. CASE commit_fails(t) BY <1>14 DEF commit_fails
<1>15. CASE panic(t) BY <1>15 DEF panic
<1> QED BY <1>1, <1>2, <1>3, <1>4, <1>5, <1>6, <1>7, <1>8, <1>9, <1>10, <1>11, <1>12, <1>13, <1>14, <1>15
        DEF execute, fail

\* A step of a task keeps the variables in their types.
LEMMA StepTyped ==
    ASSUME TypeOK, NEW t \in Tasks, TaskInv(t), execute(t) \/ fail(t)
    PROVE  TypeOK'
<1> USE DEF TypeOK, Goto, Return, taken, Executing, Failures
<1>1. CASE get_connection(t) BY <1>1 DEF get_connection, Free
<1>2. CASE build(t) BY <1>2, SMTT(60) DEF build
<1>3. CASE start_transaction(t) BY <1>3 DEF start_transaction
<1>4. CASE interpret_read(t) BY <1>4 DEF interpret_read
<1>5. CASE interpret_write(t) BY <1>5, SMTT(60) DEF interpret_write
<1>6. CASE serialize(t) BY <1>6, SMTT(60) DEF serialize
<1>7. CASE commit(t) BY <1>7, SMTT(60) DEF commit, Statements, Size, TaskInv, Sized
<1>8. CASE commit_returns(t) BY <1>8 DEF commit_returns, TaskInv
<1>9. CASE rollback(t) BY <1>9 DEF rollback
<1>10. CASE get_connection_fails(t) BY <1>10 DEF get_connection_fails
<1>11. CASE start_transaction_fails(t) BY <1>11 DEF start_transaction_fails
<1>12. CASE interpret_fails(t) BY <1>12, SMTT(60) DEF interpret_fails
<1>13. CASE interpret_is_lost(t) BY <1>13 DEF interpret_is_lost
<1>14. CASE commit_fails(t) BY <1>14 DEF commit_fails
<1>15. CASE panic(t) BY <1>15 DEF panic
<1> QED BY <1>1, <1>2, <1>3, <1>4, <1>5, <1>6, <1>7, <1>8, <1>9, <1>10, <1>11, <1>12, <1>13, <1>14, <1>15
        DEF execute, fail


\* Facts about a task whose operation does not change.
LEMMA OwnFacts ==
    ASSUME NEW t \in Tasks, Sized(operation[t]), UNCHANGED <<workload, operation>>
    PROVE  /\ Sized(operation[t])'
           /\ writes(t)' <=> writes(t)
           /\ needs_transaction(t)' <=> needs_transaction(t)
           /\ Statements(t)' = Statements(t)
           /\ db' = db => (Untouched(t)' <=> Untouched(t)) /\ (Applied(t)' <=> Applied(t))
<1>1. Sized(operation[t])' /\ Size(t)' = Size(t)
  BY DEF Sized, Size
<1>2. Statements(t)' = Statements(t)
  BY <1>1 DEF Statements
<1> QED BY <1>1, <1>2 DEF writes, needs_transaction, Untouched, Applied

\* A task keeps its own invariant with every step of execute_operation and of the
\* connection, transaction and interpreter below it, and with every failure.
LEMMA StepKeepsTask ==
    ASSUME TypeOK, NEW t \in Tasks, TaskInv(t), execute(t) \/ fail(t)
    PROVE  TaskInv(t)'
<1>0. Sized(operation[t])
  BY DEF TaskInv
<1>a. UNCHANGED <<workload, operation>>
  BY DEF execute, fail, taken, get_connection, build, start_transaction, interpret_read, interpret_write,
         serialize, commit, commit_returns, rollback, get_connection_fails, start_transaction_fails,
         interpret_fails, interpret_is_lost, commit_fails, panic
<1>b. /\ Sized(operation[t])'
      /\ writes(t)' <=> writes(t)
      /\ needs_transaction(t)' <=> needs_transaction(t)
      /\ db' = db => (Untouched(t)' <=> Untouched(t)) /\ (Applied(t)' <=> Applied(t))
  BY <1>0, <1>a, OwnFacts
<1> USE <1>b DEF TypeOK, Goto, Return, Failures, TaskInv
<1>1. CASE get_connection(t) BY <1>1 DEF get_connection
<1>2. CASE build(t) BY <1>2, SMTT(60) DEF build
<1>3. CASE start_transaction(t) BY <1>3 DEF start_transaction
<1>4. CASE interpret_read(t)
  <2>1. Applied(t)
    BY <1>0, <1>4, SMTT(60) DEF interpret_read, Applied, Statements, Size, Sized, writes
  <2> QED BY <1>4, <2>1 DEF interpret_read
<1>5. CASE interpret_write(t)
  <2>1. CASE needs_transaction(t)
    BY <1>5, <2>1 DEF interpret_write
  <2>2. CASE ~ needs_transaction(t)
    <3>1. Size(t) = 1 /\ written[t] = 0
      <4>1. Size(t) = 1
        BY <1>0, <1>5, <2>2 DEF interpret_write, writes, needs_transaction, Sized, Size
      <4>2. written[t] \in Nat /\ written[t] < 1
        BY <1>5, <4>1 DEF interpret_write
      <4> QED BY <4>1, <4>2, SMTT(60)
    <3>2. Applied(t)'
      <4>1. db' = db \cup {<<t, 0 + 1>>} /\ 0 + 1 = 1
        <5>1. db' = db \cup {<<t, 0 + 1>>} BY <1>5, <2>2, <3>1 DEF interpret_write
        <5>2. 0 + 1 = 1 BY SMTT(60)
        <5> QED BY <5>1, <5>2
      <4>2. \A n \in 1..1 : n = 1 BY SMTT(60)
      <4>3. Statements(t) \subseteq {<<t, 1>>} BY <3>1, <4>2, SMTT(60) DEF Statements
      <4>4. Statements(t)' = Statements(t) BY <1>0, <1>a, OwnFacts
      <4> QED BY <4>1, <4>3, <4>4 DEF Applied
    <3> QED BY <1>5, <2>2, <3>1, <3>2, SMTT(60) DEF interpret_write
  <2> QED BY <2>1, <2>2
<1>6. CASE serialize(t) BY <1>6, SMTT(60) DEF serialize
<1>7. CASE commit(t)
  <2>1. Applied(t)'
    BY <1>0, <1>a, <1>7, OwnFacts DEF commit, Applied
  <2> QED BY <1>7, <2>1 DEF commit
<1>8. CASE commit_returns(t) BY <1>8 DEF commit_returns
<1>9. CASE rollback(t) BY <1>9 DEF rollback
<1>10. CASE get_connection_fails(t) BY <1>10 DEF get_connection_fails
<1>11. CASE start_transaction_fails(t) BY <1>11 DEF start_transaction_fails
<1>12. CASE interpret_fails(t) BY <1>12 DEF interpret_fails
<1>13. CASE interpret_is_lost(t) BY <1>13 DEF interpret_is_lost
<1>14. CASE commit_fails(t) BY <1>14 DEF commit_fails
<1>15. CASE panic(t) BY <1>15 DEF panic
<1> QED BY <1>1, <1>2, <1>3, <1>4, <1>5, <1>6, <1>7, <1>8, <1>9, <1>10, <1>11, <1>12, <1>13, <1>14, <1>15
        DEF execute, fail


-----------------------------------------------------------------------------
(* The steps of requests: handle, respond, and tasks that are dropped.     *)

\* handle starts tasks with sized operations, and nothing written.
LEMMA HandleKeeps ==
    ASSUME IInv, NEW r \in Requests, handle(r)
    PROVE  IInv'
<1> DEFINE d == document(r)
           ops == executed(d, handler(d))
           Mine(t) == t[1] = r /\ t[2] \in DOMAIN ops
<1>1. handling' = [handling EXCEPT ![r] = handler(d)] /\ handling'[r] = handler(d)
  BY DEF IInv, TypeOK, handle
<1>2. \A i \in DOMAIN ops : Sized(ops[i])
  BY ExecutedSized DEF IInv, handle, document
<1>3. /\ operation' = [t \in Tasks |-> IF Mine(t) THEN ops[t[2]] ELSE operation[t]]
      /\ pc' = [t \in Tasks |-> IF Mine(t) THEN "get_connection" ELSE pc[t]]
  BY <1>1 DEF handle, Start
<1>4. UNCHANGED <<workload, conn, written, view, result, answer, db, up>>
  BY DEF handle
<1>5. TypeOK'
  <2>1. handling' \in [Requests -> {"none", "single", "batch", "compact", "error", "panic"}]
    BY <1>1, HandlerTyped DEF IInv, TypeOK
  <2>2. sent' \in [Requests -> {"unsent", "pending", "answered", "closed", "gone"}]
    BY DEF IInv, TypeOK, handle, Tell
  <2>3. pc' \in [Tasks -> {"idle", "get_connection", "done", "dropped"} \cup Executing]
    BY <1>3 DEF IInv, TypeOK
  <2> QED BY <1>4, <2>1, <2>2, <2>3 DEF IInv, TypeOK
<1>6. ASSUME NEW t \in Tasks, sent'[t[1]] = "unsent"
      PROVE  pc'[t] = "idle"
  <2>1. t[1] \in Requests
    BY DEF Tasks
  <2>2. t[1] # r /\ sent[t[1]] = "unsent"
    BY <1>6, <2>1 DEF IInv, TypeOK, handle, Tell
  <2> QED BY <1>3, <2>2 DEF IInv
<1>7. ASSUME NEW t \in Tasks
      PROVE  TaskInv(t)'
  <2>1. CASE Mine(t)
    <3>1. pc[t] = "idle"
      BY <2>1 DEF IInv, handle
    <3>2. answer[t] = "none" /\ Untouched(t)
      BY <3>1 DEF IInv, TaskInv
    <3>3. operation'[t] = ops[t[2]] /\ pc'[t] = "get_connection"
      BY <1>3, <2>1
    <3>4. Sized(operation[t])'
      BY <1>2, <2>1, <3>3
    <3> QED BY <1>4, <3>2, <3>3, <3>4 DEF TaskInv, Untouched, Failures
  <2>2. CASE ~ Mine(t)
    BY <1>3, <1>4, <2>2, TaskFrame DEF IInv
  <2> QED BY <2>1, <2>2
<1> QED BY <1>4, <1>5, <1>6, <1>7 DEF IInv

\* The answer of a request touches no task.
LEMMA RespondKeeps ==
    ASSUME IInv, NEW r \in Requests, respond(r)
    PROVE  IInv'
<1>1. UNCHANGED <<workload, handling, operation, pc, conn, written, view, result, answer, db, up>>
  BY DEF respond, taken
<1>2. TypeOK'
  BY <1>1 DEF IInv, TypeOK, respond, Tell
<1>3. ASSUME NEW t \in Tasks PROVE TaskInv(t)'
  BY <1>1, TaskFrame DEF IInv
<1>4. ASSUME NEW t \in Tasks, sent'[t[1]] = "unsent" PROVE pc'[t] = "idle"
  BY <1>1, <1>4 DEF IInv, TypeOK, respond, Tell, Tasks
<1> QED BY <1>1, <1>2, <1>3, <1>4 DEF IInv

\* Dropping futures leaves each task all or nothing: of the tasks whose commit is
\* on its way, any may still be committed by the database.
LEMMA DropKeeps ==
    ASSUME IInv, NEW S \in SUBSET Tasks, Drop(S), \A t \in S : pc[t] \notin {"idle", "done"}
    PROVE  /\ pc' \in [Tasks -> {"idle", "get_connection", "done", "dropped"} \cup Executing]
           /\ conn' \in [Tasks -> Connections \cup {NoConnection}]
           /\ written' \in [Tasks -> Nat]
           /\ db' \subseteq Tasks \X Nat
           /\ \A t \in Tasks : TaskInv(t)'
<1>1. PICK late \in SUBSET {t \in S : pc[t] = "commit"} : db' = db \cup UNION {Statements(t) : t \in late}
  BY DEF Drop
<1>2. UNCHANGED <<workload, handling, operation, view, result, answer>>
  BY DEF Drop, taken
<1>3. \A t \in Tasks : Statements(t) \subseteq {t} \X Nat
  BY SMTT(60) DEF IInv, TaskInv, Statements, Size, Sized
<1>4. db' \subseteq Tasks \X Nat
  BY <1>1, <1>3, SMTT(60) DEF IInv, TypeOK
<1>5. ASSUME NEW t \in Tasks PROVE TaskInv(t)'
  <2>1. ASSUME NEW n \in Nat, t \notin late
        PROVE  <<t, n>> \in db' <=> <<t, n>> \in db
    BY <1>1, <1>3, <2>1, SMTT(60)
  <2>2. CASE t \notin S
    <3>1. pc'[t] = pc[t]
      BY <2>2 DEF Drop
    <3> QED BY <1>1, <1>2, <2>1, <2>2, <3>1, TaskFrame DEF IInv
  <2>3. CASE t \in S
    <3>1. pc'[t] = "dropped" /\ answer[t] = "none"
      BY <2>3 DEF Drop, IInv, TaskInv
    <3>2. Sized(operation[t])' /\ Statements(t)' = Statements(t)
      BY <1>2, OwnFacts DEF IInv, TaskInv
    <3>3. Untouched(t) \/ Applied(t)
      BY <2>3 DEF IInv, TypeOK, Executing, TaskInv
    <3>4. Untouched(t)' \/ Applied(t)'
      <4>1. CASE t \in late
        BY <1>1, <3>2, <4>1 DEF Applied
      <4>2. CASE t \notin late
        BY <1>1, <2>1, <3>2, <3>3, <4>2 DEF Applied, Untouched
      <4> QED BY <4>1, <4>2
    <3> QED BY <1>2, <3>1, <3>2, <3>4 DEF TaskInv, Failures
  <2> QED BY <2>2, <2>3
<1>6. /\ pc' \in [Tasks -> {"idle", "get_connection", "done", "dropped"} \cup Executing]
      /\ conn' \in [Tasks -> Connections \cup {NoConnection}]
      /\ written' \in [Tasks -> Nat]
  BY DEF Drop, IInv, TypeOK
<1> QED BY <1>4, <1>5, <1>6


\* A client that hangs up drops the futures of its own request only.
LEMMA HangUpKeeps ==
    ASSUME IInv, NEW r \in Requests, hang_up(r)
    PROVE  IInv'
<1>1. PICK S \in SUBSET Tasks :
        Drop(S) /\ \A t \in S : t[1] = r /\ pc[t] \notin {"idle", "done"}
  <2> DEFINE T == IF handling[r] = "batch" THEN {} ELSE Unfinished(r)
  <2>1. T \in SUBSET Tasks /\ Drop(T)
    BY DEF hang_up, Unfinished, tasks
  <2>2. \A t \in T : t[1] = r /\ pc[t] \notin {"idle", "done"}
    BY DEF Unfinished, tasks, IInv, TaskInv
  <2> QED BY <2>1, <2>2
<1>2. /\ UNCHANGED <<workload, handling, operation, view, result, answer, up>>
      /\ sent' = [sent EXCEPT ![r] = "gone"] /\ sent[r] = "pending"
  BY <1>1 DEF hang_up, Drop, taken, Tell
<1>3. /\ \A t \in Tasks : TaskInv(t)'
      /\ TypeOK'
  BY <1>1, <1>2, DropKeeps DEF IInv, TypeOK
<1>4. ASSUME NEW t \in Tasks, sent'[t[1]] = "unsent" PROVE pc'[t] = "idle"
  <2>1. t[1] \in Requests
    BY DEF Tasks
  <2>2. t \notin S /\ pc[t] = "idle"
    BY <1>1, <1>2, <1>4, <2>1 DEF IInv, TypeOK
  <2> QED BY <1>1, <2>2 DEF Drop
<1> QED BY <1>2, <1>3, <1>4 DEF IInv

\* The end of the process drops every future.
LEMMA CrashKeeps ==
    ASSUME IInv, crash
    PROVE  IInv'
<1> DEFINE S == {t \in Tasks : pc[t] \notin {"idle", "done", "dropped"}}
<1>1. S \in SUBSET Tasks /\ Drop(S) /\ \A t \in S : pc[t] \notin {"idle", "done"}
  BY DEF crash
<1>2. /\ UNCHANGED <<workload, handling, operation, view, result, answer>> /\ up' = FALSE
      /\ sent' = [r \in Requests |-> IF sent[r] = "pending" THEN "gone" ELSE sent[r]]
  BY <1>1 DEF crash, Drop, taken
<1>3. /\ \A t \in Tasks : TaskInv(t)'
      /\ TypeOK'
  <2>1. /\ pc' \in [Tasks -> {"idle", "get_connection", "done", "dropped"} \cup Executing]
        /\ conn' \in [Tasks -> Connections \cup {NoConnection}]
        /\ written' \in [Tasks -> Nat]
        /\ db' \subseteq Tasks \X Nat
        /\ \A t \in Tasks : TaskInv(t)'
    BY <1>1, DropKeeps
  <2>2. sent' \in [Requests -> {"unsent", "pending", "answered", "closed", "gone"}]
    BY <1>2 DEF IInv, TypeOK
  <2> QED BY <1>2, <2>1, <2>2 DEF IInv, TypeOK
<1>4. ASSUME NEW t \in Tasks, sent'[t[1]] = "unsent" PROVE pc'[t] = "idle"
  <2>1. t[1] \in Requests
    BY DEF Tasks
  <2>2. pc[t] = "idle"
    BY <1>2, <1>4, <2>1 DEF IInv, TypeOK
  <2> QED BY <1>1, <2>2 DEF Drop
<1> QED BY <1>2, <1>3, <1>4 DEF IInv

\* A step of one task keeps the invariant of all.
LEMMA TaskKeeps ==
    ASSUME IInv, NEW t \in Tasks, up, execute(t) \/ fail(t)
    PROVE  IInv'
<1>1. UNCHANGED <<workload, operation, sent>> /\ pc[t] # "idle"
  BY DEF execute, fail, taken, get_connection, build, start_transaction, interpret_read, interpret_write,
         serialize, commit, commit_returns, rollback, get_connection_fails, start_transaction_fails,
         interpret_fails, interpret_is_lost, commit_fails, panic
<1>2. TypeOK'
  BY StepTyped DEF IInv
<1>3. ASSUME NEW u \in Tasks PROVE TaskInv(u)' /\ (u # t => pc'[u] = pc[u])
  <2>1. CASE u = t
    BY <2>1, StepKeepsTask DEF IInv
  <2>2. CASE u # t
    BY <1>1, <2>2, OthersKept, TaskFrame DEF IInv
  <2> QED BY <2>1, <2>2
<1>4. ASSUME NEW u \in Tasks, sent'[u[1]] = "unsent" PROVE pc'[u] = "idle"
  BY <1>1, <1>3, <1>4 DEF IInv
<1> QED BY <1>1, <1>2, <1>3, <1>4 DEF IInv

\* The invariant is inductive: one case per kind of step.
LEMMA NextKeeps == IInv /\ [Next]_vars => IInv'
<1> SUFFICES ASSUME IInv, [Next]_vars PROVE IInv'
  OBVIOUS
<1>1. ASSUME NEW r \in Requests, handle(r) \/ respond(r) \/ hang_up(r) PROVE IInv'
  BY <1>1, HandleKeeps, RespondKeeps, HangUpKeeps
<1>2. ASSUME NEW t \in Tasks, up, execute(t) \/ fail(t) PROVE IInv'
  BY <1>2, TaskKeeps
<1>3. CASE crash
  BY <1>3, CrashKeeps
<1>4. CASE UNCHANGED vars
  <2>1. UNCHANGED <<workload, handling, sent, operation, pc, conn, written, view, result, answer, db, up>>
    BY <1>4 DEF vars
  <2>2. TypeOK'
    BY <2>1 DEF IInv, TypeOK
  <2>3. ASSUME NEW t \in Tasks PROVE TaskInv(t)'
    BY <2>1, TaskFrame DEF IInv
  <2> QED BY <2>1, <2>2, <2>3 DEF IInv
<1> QED BY <1>1, <1>2, <1>3, <1>4 DEF Next

\* The inductive invariant holds for any number of requests, operations, statements
\* and connections.
THEOREM Invariance == Spec => []IInv
BY InitInv, NextKeeps, PTL DEF Spec

\* What the invariant says about a task that executes a write.
LEMMA TaskOutcome ==
    ASSUME IInv, NEW t \in Tasks, Started(t), writes(t)
    PROVE  /\ Statements(t) \cap db \in {{}, Statements(t)}
           /\ needs_transaction(t) /\ answer[t] \in Failures \ {"serialize", "commit"}
              => Statements(t) \cap db = {}
           /\ answer[t] = "data" => Statements(t) \subseteq db
<1>1. Untouched(t) => Statements(t) \cap db = {}
  BY SMTT(60) DEF Untouched, Statements
<1>2. Untouched(t) \/ Applied(t)
  BY DEF IInv, TypeOK, Executing, TaskInv, Started
<1> QED BY <1>1, <1>2 DEF IInv, TaskInv, Applied

\* AllOrNothing: at every moment the database has all statements of an operation
\* or none, although they are executed one by one and anything may fail between.
THEOREM WritesAreAtomic == Spec => []AllOrNothing
<1>1. IInv => AllOrNothing
  BY TaskOutcome DEF AllOrNothing
<1> QED BY <1>1, Invariance, PTL

\* ErrorMeansUndone: a client told that its write failed can send it again, since
\* with_transaction rolled back what had been written; the two answers excluded
\* come after, or out of, the commit.
THEOREM ErrorsAreUndone == Spec => []ErrorMeansUndone
<1>1. IInv => ErrorMeansUndone
  BY TaskOutcome DEF ErrorMeansUndone
<1> QED BY <1>1, Invariance, PTL

\* DataMeansApplied: a client that got data has its write in the database.
THEOREM DataIsApplied == Spec => []DataMeansApplied
<1>1. IInv => DataMeansApplied
  BY TaskOutcome DEF DataMeansApplied
<1> QED BY <1>1, Invariance, PTL

-----------------------------------------------------------------------------
(* Refinement.                                                             *)

\* The effect of a task that a step leaves alone does not change.
LEMMA EffectFrame ==
    ASSUME IInv, NEW t \in Tasks, UNCHANGED <<workload, operation>>, pc'[t] = pc[t], result'[t] = result[t],
           \A n \in Nat : <<t, n>> \in db' <=> <<t, n>> \in db
    PROVE  Effective(t)' <=> Effective(t)
<1>1. Sized(operation[t])
  BY DEF IInv, TaskInv
<1>2. (Statements(t) \subseteq db)' <=> Statements(t) \subseteq db
  BY <1>1, OwnFacts, SMTT(60) DEF Statements, Size, Sized
<1> QED BY <1>1, <1>2, OwnFacts DEF Effective, Started

\* A task that returns is done and has its answer.
LEMMA ReturnFacts ==
    ASSUME TypeOK, NEW t \in Tasks, NEW what, Return(t, what)
    PROVE  pc'[t] = "done" /\ answer'[t] = what
BY DEF TypeOK, Return, Goto

\* What one step of a task does to the abstract state, as far as other tasks go.
LEMMA StepShape ==
    ASSUME IInv, NEW t \in Tasks, execute(t) \/ fail(t)
    PROVE  /\ UNCHANGED <<workload, operation>>
           /\ pc[t] \notin {"idle", "done", "dropped"} /\ pc'[t] \notin {"idle", "dropped"}
           /\ pc'[t] = "done" => answer'[t] # "none"
           /\ pc'[t] # "done" => answer'[t] = answer[t]
           /\ pc'[t] = "done" /\ answer'[t] = "data" => pc[t] \in {"serialize", "committed"}
           /\ pc'[t] = "done" => db' = db
           /\ pc'[t] = "done" /\ ~ writes(t) => (result'[t] = "none" <=> result[t] = "none")
<1>0. /\ TypeOK
      /\ pc[t] = "committed" => result[t] # "none"
      /\ pc[t] = "serialize" /\ ~ writes(t) => result[t] # "none"
  BY DEF IInv, TaskInv
<1> USE <1>0 DEF taken
<1>1. CASE get_connection(t) BY <1>1 DEF get_connection, Goto, TypeOK
<1>2. CASE build(t) BY <1>2, ReturnFacts DEF build, Goto, TypeOK
<1>3. CASE start_transaction(t) BY <1>3 DEF start_transaction, Goto, TypeOK
<1>4. CASE interpret_read(t) BY <1>4 DEF interpret_read, Goto, TypeOK
<1>5. CASE interpret_write(t) BY <1>5 DEF interpret_write, Goto, TypeOK
<1>6. CASE serialize(t) BY <1>6, ReturnFacts DEF serialize, Goto, TypeOK
<1>7. CASE commit(t) BY <1>7 DEF commit, Goto, TypeOK
<1>8. CASE commit_returns(t) BY <1>8, ReturnFacts DEF commit_returns
<1>9. CASE rollback(t) BY <1>9, ReturnFacts, SMTT(60) DEF rollback
<1>10. CASE get_connection_fails(t) BY <1>10, ReturnFacts DEF get_connection_fails
<1>11. CASE start_transaction_fails(t) BY <1>11, ReturnFacts DEF start_transaction_fails
<1>12. CASE interpret_fails(t) BY <1>12, ReturnFacts DEF interpret_fails, Goto, TypeOK
<1>13. CASE interpret_is_lost(t) BY <1>13, ReturnFacts, SMTT(60) DEF interpret_is_lost
<1>14. CASE commit_fails(t) BY <1>14, ReturnFacts, SMTT(60) DEF commit_fails
<1>15. CASE panic(t) BY <1>15, ReturnFacts, SMTT(60) DEF panic
<1> QED BY <1>1, <1>2, <1>3, <1>4, <1>5, <1>6, <1>7, <1>8, <1>9, <1>10, <1>11, <1>12, <1>13, <1>14, <1>15
        DEF execute, fail

\* No step takes the effect of a task back.
LEMMA EffectStays ==
    ASSUME IInv, NEW t \in Tasks, execute(t) \/ fail(t), Effective(t)
    PROVE  Effective(t)'
<1>1. Sized(operation[t])
  BY DEF IInv, TaskInv
<1>2. db \subseteq db' /\ (result[t] # "none" => result'[t] # "none")
  <2> USE DEF IInv, TypeOK, Goto, Return, taken
  <2>1. CASE interpret_read(t) BY <2>1 DEF interpret_read
  <2>2. CASE interpret_write(t) BY <2>2 DEF interpret_write
  <2>3. CASE serialize(t) BY <2>3 DEF serialize
  <2>4. CASE commit(t) BY <2>4 DEF commit
  <2> QED BY <2>1, <2>2, <2>3, <2>4
          DEF execute, fail, get_connection, build, start_transaction, commit_returns, rollback,
              get_connection_fails, start_transaction_fails, interpret_fails, interpret_is_lost,
              commit_fails, panic
<1> QED BY <1>1, <1>2, StepShape, OwnFacts DEF Effective, Started

\* A step of a task takes the effect of its operation, answers it, or changes
\* nothing the abstract specification sees.
LEMMA TaskRefines ==
    ASSUME IInv, IInv', NEW t \in Tasks, execute(t) \/ fail(t)
    PROVE  Atomic!Next \/ UNCHANGED <<Received, TookEffect, Settled, Told>>
<1>1. /\ UNCHANGED <<workload, operation>>
      /\ pc[t] \notin {"idle", "done", "dropped"} /\ pc'[t] \notin {"idle", "dropped"}
      /\ pc'[t] = "done" => answer'[t] # "none"
      /\ pc'[t] # "done" => answer'[t] = answer[t]
      /\ pc'[t] = "done" /\ answer'[t] = "data" => pc[t] \in {"serialize", "committed"}
      /\ pc'[t] = "done" => db' = db
      /\ pc'[t] = "done" /\ ~ writes(t) => (result'[t] = "none" <=> result[t] = "none")
  BY StepShape
<1>2. \A u \in Tasks : u # t =>
        /\ pc'[u] = pc[u] /\ answer'[u] = answer[u]
        /\ Effective(u)' <=> Effective(u)
  BY <1>1, OthersKept, EffectFrame DEF IInv
<1>3. Received' = Received /\ t \in Received /\ t \notin Settled
  BY <1>1, <1>2 DEF Received, Started, Settled
<1>4. CASE pc'[t] # "done"
  <2>1. Settled' = Settled
    BY <1>1, <1>2, <1>4 DEF Settled
  <2>2. Told' = Told
    BY <1>1, <1>2, <1>4 DEF Told
  <2>3. CASE Effective(t)' <=> Effective(t)
    <3>1. TookEffect' = TookEffect
      BY <1>2, <2>3 DEF TookEffect
    <3> QED BY <1>3, <2>1, <2>2, <3>1
  <2>4. CASE ~ Effective(t) /\ Effective(t)'
    <3>1. TookEffect' = TookEffect \cup {t} /\ t \notin TookEffect
      BY <1>2, <2>4 DEF TookEffect
    <3>2. Atomic!TakeEffect(t)
      BY <1>3, <2>1, <2>2, <3>1 DEF Atomic!TakeEffect
    <3> QED BY <1>3, <3>1, <3>2 DEF Atomic!Next
  <2> QED BY <2>3, <2>4, EffectStays
<1>5. CASE pc'[t] = "done"
  <2>1. Settled' = Settled \cup {t}
    BY <1>2, <1>5 DEF Settled
  <2>2. Effective(t)' <=> Effective(t)
    <3>1. Sized(operation[t])
      BY DEF IInv, TaskInv
    <3>2. writes(t)' <=> writes(t)
      BY <1>1, <3>1, OwnFacts
    <3>3. (Statements(t) \subseteq db)' <=> Statements(t) \subseteq db
      BY <1>1, <1>5, <3>1, OwnFacts
    <3>4. ~ writes(t) => (result'[t] # "none" <=> result[t] # "none")
      BY <1>1, <1>5
    <3> QED BY <1>1, <3>2, <3>3, <3>4 DEF Effective, Started
  <2>3. TookEffect' = TookEffect
    BY <1>2, <2>2 DEF TookEffect
  <2> DEFINE kind == IF answer'[t] = "data" THEN "data" ELSE "error"
  <2>4. answer'[t] # "none"
    BY <1>1, <1>5
  <2>5. Told' = [Told EXCEPT ![t] = kind]
    BY <1>2, <2>4 DEF Told
  <2>6. ASSUME answer'[t] = "data" PROVE Effective(t)
    <3>1. CASE writes(t)
      BY <1>1, <2>2, <2>6, <3>1 DEF IInv, TaskInv, Applied, Effective, Started, writes
    <3>2. CASE ~ writes(t)
      BY <1>1, <1>5, <2>6, <3>2 DEF IInv, TaskInv, Effective, Started
    <3> QED BY <3>1, <3>2
  <2>7. Atomic!Answer(t)
    BY <1>3, <2>1, <2>3, <2>5, <2>6 DEF Atomic!Answer, TookEffect
  <2> QED BY <1>3, <2>7 DEF Atomic!Next
<1> QED BY <1>4, <1>5


\* handle receives the operations of a request.
LEMMA HandleRefines ==
    ASSUME IInv, NEW r \in Requests, handle(r)
    PROVE  Atomic!Next
<1>1. UNCHANGED <<workload, result, answer, db>>
  BY DEF handle
<1>2. ASSUME NEW t \in Tasks, ~ (pc'[t] = pc[t] /\ operation'[t] = operation[t])
      PROVE  pc[t] = "idle" /\ pc'[t] = "get_connection"
  <2>1. t[1] = r /\ pc'[t] = "get_connection"
    BY <1>2 DEF handle, Start
  <2> QED BY <2>1 DEF handle, IInv
<1>3. ASSUME NEW t \in Tasks PROVE Effective(t)' <=> Effective(t)
  <2>1. CASE pc'[t] = pc[t] /\ operation'[t] = operation[t]
    BY <1>1, <2>1 DEF Effective, Started, writes, Statements, Size
  <2>2. CASE ~ (pc'[t] = pc[t] /\ operation'[t] = operation[t])
    <3>1. pc[t] = "idle" /\ result[t] = "none" /\ Untouched(t)
      BY <1>2, <2>2 DEF IInv, TaskInv
    <3>2. writes(t)' => ~ (Statements(t) \subseteq db)'
      <4>1. IInv'
        BY HandleKeeps
      <4>2. writes(t)' => Size(t)' \in Nat \ {0}
        BY <4>1, SMTT(60) DEF IInv, TaskInv, Sized, Size, writes
      <4>3. writes(t)' => <<t, 1>> \in Statements(t)'
        BY <4>2, SMTT(60) DEF Statements
      <4> QED BY <1>1, <3>1, <4>3 DEF Untouched
    <3> QED BY <1>1, <3>1, <3>2 DEF Effective, Started
  <2> QED BY <2>1, <2>2
<1>4. TookEffect' = TookEffect
  BY <1>3 DEF TookEffect
<1>5. Settled' = Settled
  BY <1>2 DEF Settled
<1>6. Told' = Told
  BY <1>1 DEF Told
<1>7. Received \subseteq Received' /\ Received' \subseteq Tasks
  BY <1>2 DEF Received, Started
<1>8. Atomic!Receive
  BY <1>4, <1>5, <1>6, <1>7 DEF Atomic!Receive
<1> QED BY <1>8 DEF Atomic!Next

\* Dropping futures abandons operations; some of them may take effect then.
LEMMA DropRefines ==
    ASSUME IInv, NEW S \in SUBSET Tasks, Drop(S), \A t \in S : pc[t] \notin {"idle", "done"}
    PROVE  Atomic!Next
<1>1. PICK late \in SUBSET {t \in S : pc[t] = "commit"} : db' = db \cup UNION {Statements(t) : t \in late}
  BY DEF Drop
<1>2. UNCHANGED <<workload, operation, result, answer>>
  BY DEF Drop, taken
<1>3. \A t \in Tasks : pc'[t] = IF t \in S THEN "dropped" ELSE pc[t]
  BY DEF Drop
<1>4. \A t \in Tasks : Sized(operation[t]) /\ Statements(t) \subseteq {t} \X Nat
  BY SMTT(60) DEF IInv, TaskInv, Statements, Size, Sized
<1>5. ASSUME NEW t \in Tasks
      PROVE  /\ Effective(t) => Effective(t)'
             /\ t \notin late => (Effective(t)' => Effective(t))
  <2>1. (Started(t)' <=> Started(t)) /\ (writes(t)' <=> writes(t)) /\ Statements(t)' = Statements(t)
    BY <1>2, <1>3, <1>4, OwnFacts DEF Started
  <2>2. t \notin late => (Statements(t) \subseteq db' => Statements(t) \subseteq db)
    BY <1>1, <1>4, SMTT(60)
  <2>3. Statements(t) \subseteq db => Statements(t) \subseteq db'
    BY <1>1
  <2> QED BY <1>2, <2>1, <2>2, <2>3 DEF Effective
<1>6. Received' = Received
  BY <1>3 DEF Received, Started
<1>7. Settled \subseteq Settled' /\ Settled' \subseteq Received
  BY <1>3 DEF Settled, Received, Started
<1>8. Told' = Told
  BY <1>2 DEF Told
<1>9. TookEffect \subseteq TookEffect'
  BY <1>5 DEF TookEffect
<1>10. TookEffect' \ TookEffect \subseteq Settled' \ Settled
  BY <1>1, <1>3, <1>5 DEF TookEffect, Settled
<1>11. Atomic!Abandon
  BY <1>6, <1>7, <1>8, <1>9, <1>10 DEF Atomic!Abandon
<1> QED BY <1>11 DEF Atomic!Next

\* Every step is a step of AtomicRequests, or none.
LEMMA NextRefines ==
    IInv /\ IInv' /\ [Next]_vars => [Atomic!Next]_(Atomic!vars)
<1> SUFFICES ASSUME IInv, IInv', [Next]_vars
             PROVE  Atomic!Next \/ UNCHANGED <<Received, TookEffect, Settled, Told>>
  BY DEF Atomic!vars
<1>1. ASSUME NEW r \in Requests, handle(r) PROVE Atomic!Next
  BY <1>1, HandleRefines
<1>2. ASSUME UNCHANGED <<workload, operation, pc, result, answer, db>>
      PROVE  UNCHANGED <<Received, TookEffect, Settled, Told>>
  BY <1>2 DEF Received, TookEffect, Settled, Told, Started, Effective, writes, Statements, Size
<1>3. ASSUME NEW r \in Requests, respond(r) PROVE UNCHANGED <<Received, TookEffect, Settled, Told>>
  BY <1>2, <1>3 DEF respond, taken
<1>4. ASSUME NEW r \in Requests, hang_up(r) PROVE Atomic!Next
  <2> DEFINE S == IF handling[r] = "batch" THEN {} ELSE Unfinished(r)
  <2>1. S \in SUBSET Tasks /\ Drop(S)
    BY <1>4 DEF hang_up, Unfinished, tasks
  <2>2. \A t \in S : pc[t] \notin {"idle", "done"}
    BY DEF Unfinished, tasks, IInv, TaskInv
  <2> QED BY <2>1, <2>2, DropRefines
<1>5. ASSUME NEW t \in Tasks, execute(t) \/ fail(t)
      PROVE  Atomic!Next \/ UNCHANGED <<Received, TookEffect, Settled, Told>>
  BY <1>5, TaskRefines
<1>6. ASSUME crash PROVE Atomic!Next
  <2> DEFINE S == {t \in Tasks : pc[t] \notin {"idle", "done", "dropped"}}
  <2>1. S \in SUBSET Tasks /\ Drop(S) /\ \A t \in S : pc[t] \notin {"idle", "done"}
    BY <1>6 DEF crash
  <2> QED BY <2>1, DropRefines
<1>7. CASE UNCHANGED vars
  BY <1>2, <1>7 DEF vars
<1> QED BY <1>1, <1>3, <1>4, <1>5, <1>6, <1>7 DEF Next

\* The initial states map to the initial state of AtomicRequests.
LEMMA InitRefines == Init => Atomic!Init
<1> SUFFICES ASSUME Init PROVE Atomic!Init
  OBVIOUS
<1>1. Received = {} /\ TookEffect = {} /\ Settled = {}
  BY DEF Init, Received, TookEffect, Settled, Started, Effective
<1>2. Told = [t \in Tasks |-> "none"]
  BY DEF Init, Told
<1> QED BY <1>1, <1>2 DEF Atomic!Init

\* The request handlers implement AtomicRequests: an operation takes effect at one
\* moment and as a whole, it is answered with data only after that, and what has
\* taken effect stays, whatever fails, hangs up or is dropped in between.
THEOREM Refinement == Spec => AtomicallyExecuted
BY InitRefines, NextRefines, Invariance, PTL DEF Spec, AtomicallyExecuted, Atomic!Spec


-----------------------------------------------------------------------------
(* Compacted batches.                                                      *)

Built == {"start_transaction", "interpret", "serialize", "commit", "committed", "rollback"}

\* A request that is handled as a compacted batch has one task, which executes what
\* the batch was compacted to; the task gets past build only when that query is
\* valid; and once the client is told, the task is done, and the client is cut off
\* from data only by an alias.
CompactInv(r) ==
    handling[r] = "compact" =>
        /\ sent[r] # "unsent"
        /\ r \in DOMAIN workload.documents /\ handler(document(r)) = "compact"
        /\ operation[<<r, 1>>] = compact(document(r).operations)
        /\ pc[<<r, 1>>] \in Built \/ answer[<<r, 1>>] = "data" => builds(operation[<<r, 1>>])
        /\ sent[r] \in {"answered", "closed"} => pc[<<r, 1>>] = "done"
        /\ sent[r] = "closed" /\ answer[<<r, 1>>] = "data" => handout_panics(operation[<<r, 1>>])

\* The one task of a compacted batch is a task, and its operation a read.
LEMMA CompactedTask ==
    ASSUME workload \in Workloads, NEW r \in Requests, r \in DOMAIN workload.documents,
           handler(document(r)) = "compact"
    PROVE  /\ <<r, 1>> \in Tasks
           /\ executed(document(r), "compact") = <<compact(document(r).operations)>>
           /\ compact(document(r).operations).type = "Read"
<1>1. executed(document(r), "compact") = <<compact(document(r).operations)>>
  BY DEF executed
<1>2. Len(<<compact(document(r).operations)>>) <= MaxOperations
  BY <1>1, WorkloadAssumption DEF document
<1>3. 1 \in 1..MaxOperations
  BY <1>2, BoundAssumption, SMTT(60)
<1>4. compact(document(r).operations).type = "Read"
  BY DEF compact, Compacted
<1> QED BY <1>1, <1>3, <1>4 DEF Tasks

\* A step that leaves the request, its answer and its task alone.
LEMMA CompactFrame ==
    ASSUME NEW r \in Requests, CompactInv(r), handling'[r] = handling[r], workload' = workload, sent'[r] = sent[r],
           operation'[<<r, 1>>] = operation[<<r, 1>>], answer'[<<r, 1>>] = answer[<<r, 1>>],
           pc'[<<r, 1>>] = pc[<<r, 1>>]
    PROVE  CompactInv(r)'
  BY DEF CompactInv, document

\* The steps of the one task: build lets only a valid query through, and data is
\* answered only behind it.
LEMMA TaskKeepsCompact ==
    ASSUME IInv, NEW r \in Requests, CompactInv(r), NEW t \in Tasks, execute(t) \/ fail(t)
    PROVE  CompactInv(r)'
<1>1. UNCHANGED <<workload, handling, operation, sent>> /\ pc[t] \notin {"idle", "done"}
  BY DEF execute, fail, taken, get_connection, build, start_transaction, interpret_read, interpret_write,
         serialize, commit, commit_returns, rollback, get_connection_fails, start_transaction_fails,
         interpret_fails, interpret_is_lost, commit_fails, panic
<1>2. CASE t # <<r, 1>>
  <2>1. CASE handling[r] = "compact"
    <3>1. <<r, 1>> \in Tasks
      BY <2>1, CompactedTask DEF CompactInv, IInv
    <3>2. pc'[<<r, 1>>] = pc[<<r, 1>>] /\ answer'[<<r, 1>>] = answer[<<r, 1>>]
      BY <1>2, <3>1, OthersKept DEF IInv
    <3>3. handling'[r] = handling[r] /\ sent'[r] = sent[r] /\ workload' = workload
          /\ operation'[<<r, 1>>] = operation[<<r, 1>>]
      BY <1>1
    <3> QED BY <3>2, <3>3, CompactFrame
  <2>2. CASE handling[r] # "compact"
    BY <1>1, <2>2 DEF CompactInv
  <2> QED BY <2>1, <2>2
<1>3. CASE t = <<r, 1>> /\ handling[r] = "compact"
  <2>1. sent[r] \notin {"answered", "closed"}
    BY <1>1, <1>3 DEF CompactInv
  <2>2. operation[t].type = "Read"
    BY <1>3, CompactedTask DEF CompactInv, IInv
  <2>3. pc'[t] \in Built \/ answer'[t] = "data" => pc[t] \in Built \/ builds(operation[t])
    <3> USE DEF TypeOK, IInv, Goto, Return, Built, TaskInv
    <3>1. CASE get_connection(t) BY <3>1 DEF get_connection
    <3>2. CASE build(t)
      <4>1. CASE is_valid(operation[t]) BY <2>2, <4>1 DEF is_valid
      <4>2. CASE ~ is_valid(operation[t])
        <5>1. pc'[t] = "done" /\ answer'[t] = "build" BY <3>2, <4>2, SMTT(60) DEF build
        <5> QED BY <5>1
      <4> QED BY <4>1, <4>2
    <3>3. CASE start_transaction(t) BY <3>3 DEF start_transaction
    <3>4. CASE interpret_read(t) BY <3>4 DEF interpret_read
    <3>5. CASE interpret_write(t) BY <3>5 DEF interpret_write
    <3>6. CASE serialize(t) BY <3>6 DEF serialize
    <3>7. CASE commit(t) BY <3>7 DEF commit
    <3>8. CASE commit_returns(t) BY <3>8 DEF commit_returns
    <3>9. CASE rollback(t) BY <3>9 DEF rollback
    <3>10. CASE get_connection_fails(t) BY <3>10 DEF get_connection_fails
    <3>11. CASE start_transaction_fails(t) BY <3>11 DEF start_transaction_fails
    <3>12. CASE interpret_fails(t) BY <3>12 DEF interpret_fails
    <3>13. CASE interpret_is_lost(t) BY <3>13 DEF interpret_is_lost
    <3>14. CASE commit_fails(t) BY <3>14 DEF commit_fails
    <3>15. CASE panic(t) BY <3>15 DEF panic
    <3> QED BY <3>1, <3>2, <3>3, <3>4, <3>5, <3>6, <3>7, <3>8, <3>9, <3>10, <3>11, <3>12, <3>13, <3>14, <3>15
            DEF execute, fail
  <2> QED BY <1>1, <1>3, <2>1, <2>3 DEF CompactInv, document
<1>4. CASE handling[r] # "compact"
  BY <1>1, <1>4 DEF CompactInv
<1> QED BY <1>2, <1>3, <1>4

\* handle establishes what it says of its own request, and touches no other.
LEMMA HandleKeepsCompact ==
    ASSUME IInv, NEW r \in Requests, CompactInv(r), NEW q \in Requests, handle(q)
    PROVE  CompactInv(r)'
<1> DEFINE ops == executed(document(q), handler(document(q)))
           Mine(t) == t[1] = q /\ t[2] \in DOMAIN ops
<1>1. handling' = [handling EXCEPT ![q] = handler(document(q))] /\ handling'[q] = handler(document(q))
  BY DEF IInv, TypeOK, handle
<1>2. /\ operation' = [t \in Tasks |-> IF Mine(t) THEN ops[t[2]] ELSE operation[t]]
      /\ pc' = [t \in Tasks |-> IF Mine(t) THEN "get_connection" ELSE pc[t]]
  BY <1>1 DEF handle, Start
<1>3. UNCHANGED <<workload, answer>>
  BY DEF handle
<1>4. CASE r # q
  <2>1. handling'[r] = handling[r] /\ sent'[r] = sent[r]
    BY <1>1, <1>4 DEF handle, Tell, IInv, TypeOK
  <2>2. CASE handling[r] = "compact"
    <3>1. <<r, 1>> \in Tasks
      BY <2>2, CompactedTask DEF CompactInv, IInv
    <3>2. ~ Mine(<<r, 1>>)
      BY <1>4
    <3>3. operation'[<<r, 1>>] = operation[<<r, 1>>] /\ pc'[<<r, 1>>] = pc[<<r, 1>>]
      BY <1>2, <3>1, <3>2
    <3> QED BY <1>3, <2>1, <3>3, CompactFrame
  <2>3. CASE handling[r] # "compact"
    BY <2>1, <2>3 DEF CompactInv
  <2> QED BY <2>2, <2>3
<1>5. CASE r = q /\ handler(document(r)) = "compact"
  <2>1. /\ <<r, 1>> \in Tasks /\ ops = <<compact(document(r).operations)>>
        /\ r \in DOMAIN workload.documents
    BY <1>5, CompactedTask DEF IInv, handle
  <2>2. 1 \in DOMAIN ops /\ ops[1] = compact(document(r).operations)
    BY <2>1, SMTT(60)
  <2>3. Mine(<<r, 1>>)
    BY <1>5, <2>2
  <2>4. operation'[<<r, 1>>] = compact(document(r).operations) /\ pc'[<<r, 1>>] = "get_connection"
    BY <1>2, <2>1, <2>2, <2>3
  <2>5. sent[r] = "unsent" /\ answer[<<r, 1>>] = "none"
    BY <1>5, <2>1 DEF IInv, TaskInv, handle
  <2>6. sent'[r] = "pending"
    BY <1>1, <1>5 DEF handle, Tell, IInv, TypeOK
  <2> QED BY <1>3, <1>5, <2>1, <2>4, <2>5, <2>6 DEF CompactInv, Built, document
<1>6. CASE r = q /\ handler(document(r)) # "compact"
  BY <1>1, <1>6 DEF CompactInv
<1> QED BY <1>4, <1>5, <1>6

\* A response is made when the one task is done, and is cut off from data only where
\* the handing out panics.
LEMMA RespondKeepsCompact ==
    ASSUME IInv, NEW r \in Requests, CompactInv(r), NEW q \in Requests, respond(q)
    PROVE  CompactInv(r)'
<1>1. UNCHANGED <<workload, handling, operation, pc, answer>>
  BY DEF respond, taken
<1>2. CASE r # q
  <2>1. sent'[r] = sent[r]
    BY <1>2 DEF respond, Tell, IInv, TypeOK
  <2>2. handling'[r] = handling[r] /\ workload' = workload /\ operation'[<<r, 1>>] = operation[<<r, 1>>]
        /\ answer'[<<r, 1>>] = answer[<<r, 1>>] /\ pc'[<<r, 1>>] = pc[<<r, 1>>]
    BY <1>1
  <2> QED BY <2>1, <2>2, CompactFrame
<1>3. CASE r = q /\ handling[r] = "compact"
  <2>1. <<r, 1>> \in Tasks /\ operation[<<r, 1>>].type = "Read"
    BY <1>3, CompactedTask DEF CompactInv, IInv
  <2>2. <<r, 1>> \in tasks(r)
    <3>1. operation[<<r, 1>>] # NoOperation
      BY <2>1, SMTT(60) DEF NoOperation
    <3> QED BY <2>1, <3>1, SMTT(60) DEF tasks
  <2>3. pc[<<r, 1>>] = "done"
    BY <1>3, <2>2 DEF respond
  <2>4. respond(r)
    BY <1>3
  <2>5. sent'[r] \in {"answered", "closed"}
        /\ (sent'[r] = "closed" /\ answer[<<r, 1>>] = "data" => handout_panics(operation[<<r, 1>>]))
    <3>1. CASE answer[<<r, 1>>] = "data" /\ ~ handout_panics(operation[<<r, 1>>])
      BY <2>4, <3>1 DEF respond, Tell, IInv, TypeOK
    <3>2. CASE ~ (answer[<<r, 1>>] = "data" /\ ~ handout_panics(operation[<<r, 1>>]))
      BY <2>4, <3>2 DEF respond, Tell, IInv, TypeOK
    <3> QED BY <3>1, <3>2
  <2> QED BY <1>1, <1>3, <2>3, <2>5 DEF CompactInv, document
<1>4. CASE handling[r] # "compact"
  BY <1>1, <1>4 DEF CompactInv
<1> QED BY <1>2, <1>3, <1>4

\* A hang-up or a crash tells no client anything, and drops no task that is done.
LEMMA DropKeepsCompact ==
    ASSUME IInv, NEW r \in Requests, CompactInv(r), NEW S \in SUBSET Tasks, Drop(S),
           \A t \in S : pc[t] # "done",
           sent'[r] \in {sent[r], "gone"}
    PROVE  CompactInv(r)'
<1>1. UNCHANGED <<workload, handling, operation, answer>>
  BY DEF Drop, taken
<1>2. CASE handling[r] = "compact"
  <2>1. <<r, 1>> \in Tasks
    BY <1>2, CompactedTask DEF CompactInv, IInv
  <2>2. pc'[<<r, 1>>] = pc[<<r, 1>>] \/ (pc[<<r, 1>>] # "done" /\ pc'[<<r, 1>>] = "dropped")
    <3>1. pc' = [t \in Tasks |-> IF t \in S THEN "dropped" ELSE pc[t]]
      BY DEF Drop
    <3>2. ASSUME NEW t \in Tasks PROVE pc'[t] = pc[t] \/ (pc[t] # "done" /\ pc'[t] = "dropped")
      BY <3>1
    <3> QED BY <2>1, <3>2
  <2> QED BY <1>1, <1>2, <2>2 DEF CompactInv, Built, document
<1>3. CASE handling[r] # "compact"
  BY <1>1, <1>3 DEF CompactInv
<1> QED BY <1>2, <1>3

\* The invariant of compacted batches is inductive next to that of the tasks.
LEMMA NextKeepsCompact ==
    ASSUME IInv, \A r \in Requests : CompactInv(r), [Next]_vars
    PROVE  \A r \in Requests : CompactInv(r)'
<1> SUFFICES ASSUME NEW r \in Requests PROVE CompactInv(r)'
  OBVIOUS
<1>1. ASSUME NEW q \in Requests, handle(q) PROVE CompactInv(r)'
  BY <1>1, HandleKeepsCompact
<1>2. ASSUME NEW q \in Requests, respond(q) PROVE CompactInv(r)'
  BY <1>2, RespondKeepsCompact
<1>3. ASSUME NEW q \in Requests, hang_up(q) PROVE CompactInv(r)'
  <2> DEFINE S == IF handling[q] = "batch" THEN {} ELSE Unfinished(q)
  <2>1. S \in SUBSET Tasks /\ Drop(S) /\ \A t \in S : pc[t] # "done"
    BY <1>3 DEF hang_up, Unfinished, tasks
  <2>2. sent'[r] \in {sent[r], "gone"}
    BY <1>3 DEF hang_up, Tell, IInv, TypeOK
  <2> HIDE DEF S
  <2> QED BY <2>1, <2>2, DropKeepsCompact
<1>4. ASSUME NEW t \in Tasks, execute(t) \/ fail(t) PROVE CompactInv(r)'
  BY <1>4, TaskKeepsCompact
<1>5. ASSUME crash PROVE CompactInv(r)'
  <2> DEFINE S == {t \in Tasks : pc[t] \notin {"idle", "done", "dropped"}}
  <2>1. S \in SUBSET Tasks /\ Drop(S) /\ \A t \in S : pc[t] # "done"
    BY <1>5 DEF crash
  <2>2. sent'[r] \in {sent[r], "gone"}
    BY <1>5 DEF crash, IInv, TypeOK
  <2> HIDE DEF S
  <2> QED BY <2>1, <2>2, DropKeepsCompact
<1>6. CASE UNCHANGED vars
  BY <1>6 DEF vars, CompactInv, document
<1> QED BY <1>1, <1>2, <1>3, <1>4, <1>5, <1>6 DEF Next

\* What the invariant says of a client that was told: its plain queries are answered
\* as if each had been asked alone.
LEMMA CompactOutcome ==
    ASSUME IInv, NEW r \in Requests, CompactInv(r), handling[r] = "compact",
           sent[r] \in {"answered", "closed"}, answer[<<r, 1>>] = "data", Plain(document(r).operations)
    PROVE  /\ sent[r] = "answered"
           /\ CompactedAsAlone(document(r).operations, operation[<<r, 1>>], Rows(view[<<r, 1>>]))
<1> DEFINE ops == document(r).operations
<1>1. can_compact(ops) /\ ~ compact_panics(ops)
  BY DEF CompactInv, handler
<1>2. ops \in Seq(Range(ops)) /\ \A i \in DOMAIN ops : WellFormed(ops[i])
  BY <1>1, DocumentAssumption DEF CompactInv, IInv, document
<1>3. operation[<<r, 1>>] = compact(ops) /\ builds(compact(ops))
  BY DEF CompactInv
<1> HIDE DEF ops
<1>4. CompactedAsAlone(ops, compact(ops), Rows(view[<<r, 1>>]))
  BY <1>1, <1>2, <1>3, CompactionAnswersAlone DEF ops
<1>5. compact(ops).alias = NoAlias
  <2>1. 1 \in DOMAIN ops
    BY <1>1, <1>2, LenProperties, EmptySeq, SMTT(60) DEF can_compact
  <2>2. ops[1].alias = NoAlias
    BY <2>1 DEF Plain, ops
  <2> QED BY <2>2 DEF compact, Compacted
<1>6. sent[r] # "closed"
  BY <1>3, <1>5 DEF CompactInv, handout_panics
<1> QED BY <1>3, <1>4, <1>6 DEF ops

\* CompactionIsTransparent: for batches of any length over any table, whoever runs
\* beside them and whatever fails, the queries of a compacted batch that is answered
\* with data get the answers they would have got alone from the rows that were read.
THEOREM CompactionTransparent == Spec => []CompactionIsTransparent
<1> DEFINE CInv == \A r \in Requests : CompactInv(r)
<1>1. Init => CInv
  BY DEF Init, CompactInv
<1>2. IInv /\ CInv /\ [Next]_vars => CInv'
  BY NextKeepsCompact
<1>3. IInv /\ CInv => CompactionIsTransparent
  BY CompactOutcome DEF CompactionIsTransparent
<1> HIDE DEF CInv
<1> QED BY <1>1, <1>2, <1>3, Invariance, PTL DEF Spec

-----------------------------------------------------------------------------
(* Progress: the part of Answered and SpawnedTasksFinish that needs no     *)
(* fairness.                                                               *)

\* A step of the executor is open to t: whatever t does next waits for nobody.
CanStep(t) ==
    /\ up /\ pc[t] \in Executing
    /\ pc[t] = "interpret" /\ writes(t) => written[t] < Size(t)

\* A task that waits for a connection of the pool finds a free one, or waits for
\* tasks that can go on, never for one that waits itself, is over or was dropped:
\* the tasks of a batch that is larger than the pool do not lock each other out.
PoolNeverLocks ==
    \A t \in Tasks : pc[t] = "get_connection" =>
        \A c \in Connections : c \in Free \/ \E u \in Tasks : u # t /\ conn[u] = c /\ CanStep(u)

\* Two tasks never hold one connection.
ConnectionsAreExclusive ==
    \A t, u \in Tasks : conn[t] = conn[u] /\ conn[t] # NoConnection => t = u

\* How far a task is from its end: the place in execute_operation, and the statements
\* that are left of a write.
Stage(where) ==
    CASE where = "get_connection" -> 7
      [] where = "build" -> 6
      [] where = "start_transaction" -> 5
      [] where = "interpret" -> 4
      [] where = "serialize" -> 3
      [] where = "commit" -> 2
      [] where \in {"committed", "rollback"} -> 1
      [] OTHER -> 0

Left(t) == Size(t) - written[t]

\* t is nearer its end after the step.
Nearer(t) ==
    \/ Stage(pc'[t]) < Stage(pc[t])
    \/ /\ pc[t] = "interpret" /\ pc'[t] = "interpret"
       /\ Left(t)' < Left(t) /\ Left(t)' \in Nat

\* Whatever anybody does, a task that was started stays where it is or gets nearer
\* its end: it never starts over, and its loop over the statements ends.
Advances(t) ==
    pc[t] \notin {"idle", "done", "dropped"} =>
        (pc'[t] = pc[t] /\ written'[t] = written[t]) \/ Nearer(t)

TasksGetNearer == [][\A t \in Tasks : Advances(t)]_vars

\* The steps of execute_operation in their order.
Edge(from, to) ==
    \/ from = "get_connection" /\ to = "build"
    \/ from = "build" /\ to \in {"start_transaction", "interpret"}
    \/ from = "start_transaction" /\ to = "interpret"
    \/ from = "interpret" /\ to \in {"serialize", "rollback"}
    \/ from = "serialize" /\ to = "commit"
    \/ from = "commit" /\ to = "committed"
    \/ from \in Executing \cup {"get_connection"} /\ to \in {"done", "dropped"}

\* Every edge leads down.
LEMMA EdgeDescends ==
    ASSUME NEW from, NEW to, Edge(from, to)
    PROVE  Stage(to) < Stage(from)
<1>1. CASE from = "get_connection" /\ to = "build" BY <1>1, SMTT(60) DEF Stage
<1>2. CASE from = "build" /\ to \in {"start_transaction", "interpret"} BY <1>2, SMTT(60) DEF Stage
<1>3. CASE from = "start_transaction" /\ to = "interpret" BY <1>3, SMTT(60) DEF Stage
<1>4. CASE from = "interpret" /\ to \in {"serialize", "rollback"} BY <1>4, SMTT(60) DEF Stage
<1>5. CASE from = "serialize" /\ to = "commit" BY <1>5, SMTT(60) DEF Stage
<1>6. CASE from = "commit" /\ to = "committed" BY <1>6, SMTT(60) DEF Stage
<1>7. CASE from \in Executing \cup {"get_connection"} /\ to \in {"done", "dropped"}
  BY <1>7, SMTT(60) DEF Stage, Executing
<1> QED BY <1>1, <1>2, <1>3, <1>4, <1>5, <1>6, <1>7 DEF Edge

\* Nobody runs in a process that is gone. Who holds a connection executes; the statements of a task are counted from zero,
\* and while it interprets a write there is one left.
Holds(t) ==
    /\ up \/ pc[t] \in {"idle", "done", "dropped"}
    /\ conn[t] # NoConnection => pc[t] \in Executing
    /\ pc[t] \in {"idle", "get_connection", "build", "start_transaction"} => written[t] = 0
    /\ pc[t] = "interpret" /\ writes(t) => written[t] < Size(t)

ProgressInv == ConnectionsAreExclusive /\ \A t \in Tasks : Holds(t)

\* A step of one task leaves the connection and the count of another alone.
LEMMA OthersHold ==
    ASSUME TypeOK, NEW t \in Tasks, execute(t) \/ fail(t), NEW u \in Tasks, u # t
    PROVE  conn'[u] = conn[u] /\ written'[u] = written[u]
<1> USE DEF TypeOK, Return
<1>1. CASE get_connection(t) BY <1>1 DEF get_connection
<1>2. CASE build(t) BY <1>2 DEF build
<1>3. CASE start_transaction(t) BY <1>3 DEF start_transaction
<1>4. CASE interpret_read(t) BY <1>4 DEF interpret_read
<1>5. CASE interpret_write(t) BY <1>5 DEF interpret_write
<1>6. CASE serialize(t) BY <1>6 DEF serialize
<1>7. CASE commit(t) BY <1>7 DEF commit
<1>8. CASE commit_returns(t) BY <1>8 DEF commit_returns
<1>9. CASE rollback(t) BY <1>9 DEF rollback
<1>10. CASE get_connection_fails(t) BY <1>10 DEF get_connection_fails
<1>11. CASE start_transaction_fails(t) BY <1>11 DEF start_transaction_fails
<1>12. CASE interpret_fails(t) BY <1>12 DEF interpret_fails
<1>13. CASE interpret_is_lost(t) BY <1>13 DEF interpret_is_lost
<1>14. CASE commit_fails(t) BY <1>14 DEF commit_fails
<1>15. CASE panic(t) BY <1>15 DEF panic
<1> QED BY <1>1, <1>2, <1>3, <1>4, <1>5, <1>6, <1>7, <1>8, <1>9, <1>10, <1>11, <1>12, <1>13, <1>14, <1>15
        DEF execute, fail

\* Where a task gets with a step of its own, and which connection it has then: it
\* moves along an edge, or executes a statement that is not the last.
Moves(t) ==
    \/ /\ Edge(pc[t], pc'[t]) /\ written'[t] = written[t]
       /\ pc[t] # "interpret" /\ pc'[t] \in Executing
       /\ (conn'[t] = conn[t] /\ pc[t] # "get_connection") \/ conn'[t] \in Free
    \/ /\ pc[t] = "interpret" /\ pc'[t] \in {"serialize", "rollback"} /\ conn'[t] = conn[t]
    \/ /\ pc[t] = "interpret" /\ pc'[t] = "interpret" /\ conn'[t] = conn[t]
       /\ written'[t] = written[t] + 1 /\ written[t] < Size(t) /\ written'[t] # Size(t)
    \/ /\ pc[t] \in Executing \cup {"get_connection"} /\ pc'[t] = "done"
       /\ conn'[t] = NoConnection /\ written'[t] = 0

\* Every step of execute_operation, a failing one or a panic included, is such a move.
LEMMA OwnMoves ==
    ASSUME TypeOK, NEW t \in Tasks, execute(t) \/ fail(t)
    PROVE  Moves(t)
<1> USE DEF TypeOK, Return, Goto, Moves, Edge, Executing
<1>1. CASE get_connection(t) BY <1>1 DEF get_connection
<1>2. CASE build(t)
  <2>1. CASE is_valid(operation[t]) BY <1>2, <2>1 DEF build
  <2>2. CASE ~ is_valid(operation[t]) BY <1>2, <2>2 DEF build
  <2> QED BY <2>1, <2>2
<1>3. CASE start_transaction(t) BY <1>3 DEF start_transaction
<1>4. CASE interpret_read(t) BY <1>4 DEF interpret_read
<1>5. CASE interpret_write(t) BY <1>5 DEF interpret_write
<1>6. CASE serialize(t)
  <2>1. CASE needs_transaction(t) BY <1>6, <2>1 DEF serialize
  <2>2. CASE ~ needs_transaction(t) BY <1>6, <2>2 DEF serialize
  <2> QED BY <2>1, <2>2
<1>7. CASE commit(t) BY <1>7 DEF commit
<1>8. CASE commit_returns(t) BY <1>8 DEF commit_returns
<1>9. CASE rollback(t) BY <1>9 DEF rollback
<1>10. CASE get_connection_fails(t) BY <1>10 DEF get_connection_fails
<1>11. CASE start_transaction_fails(t) BY <1>11 DEF start_transaction_fails
<1>12. CASE interpret_fails(t)
  <2>1. CASE needs_transaction(t) BY <1>12, <2>1 DEF interpret_fails
  <2>2. CASE ~ needs_transaction(t) BY <1>12, <2>2 DEF interpret_fails
  <2> QED BY <2>1, <2>2
<1>13. CASE interpret_is_lost(t) BY <1>13 DEF interpret_is_lost
<1>14. CASE commit_fails(t) BY <1>14 DEF commit_fails
<1>15. CASE panic(t) BY <1>15 DEF panic
<1> QED BY <1>1, <1>2, <1>3, <1>4, <1>5, <1>6, <1>7, <1>8, <1>9, <1>10, <1>11, <1>12, <1>13, <1>14, <1>15
        DEF execute, fail

\* A task that a step leaves alone keeps its part of the invariant.
LEMMA HoldsFrame ==
    ASSUME NEW t \in Tasks, Holds(t), workload' = workload, operation'[t] = operation[t],
           pc'[t] = pc[t], conn'[t] = conn[t], written'[t] = written[t],
           up' = up \/ pc[t] \in {"idle", "done", "dropped"}
    PROVE  Holds(t)' /\ Advances(t)
  BY DEF Holds, writes, Size, Advances

\* A step of a task keeps the pool in order and brings the task nearer its end.
LEMMA TaskProgresses ==
    ASSUME IInv, ProgressInv, NEW t \in Tasks, up, execute(t) \/ fail(t)
    PROVE  ProgressInv' /\ \A u \in Tasks : Advances(u)
<1>1. UNCHANGED <<workload, operation, up>> /\ Moves(t) /\ Sized(operation[t]) /\ Holds(t)
  <2>1. UNCHANGED <<workload, operation, up>>
    BY DEF execute, fail, taken, get_connection, build, start_transaction, interpret_read, interpret_write,
           serialize, commit, commit_returns, rollback, get_connection_fails, start_transaction_fails,
           interpret_fails, interpret_is_lost, commit_fails, panic
  <2>2. Moves(t)
    BY OwnMoves DEF IInv
  <2> QED BY <2>1, <2>2 DEF IInv, TaskInv, ProgressInv
<1>0. up'
  BY <1>1
<1>2. (writes(t)' <=> writes(t)) /\ Size(t)' = Size(t)
  BY <1>1 DEF writes, Size
<1>3. written[t] \in Nat /\ Size(t) \in Nat /\ (writes(t) => 0 < Size(t))
  <2>1. written[t] \in Nat
    BY DEF IInv, TypeOK
  <2>2. Size(t) \in Nat /\ (writes(t) => 0 < Size(t))
    BY <1>1, SMTT(60) DEF Sized, Size, writes
  <2> QED BY <2>1, <2>2
<1>4. Holds(t)' /\ Advances(t)
  <2>1. CASE /\ Edge(pc[t], pc'[t]) /\ written'[t] = written[t]
             /\ pc[t] # "interpret" /\ pc'[t] \in Executing
    <3>1. Advances(t)
      BY <2>1, EdgeDescends DEF Advances, Nearer
    <3>2. pc'[t] \in {"build", "start_transaction", "interpret"} => written'[t] = 0
      BY <1>1, <2>1 DEF Holds, Edge
    <3>3. pc'[t] \notin {"idle", "get_connection"}
      BY <2>1 DEF Executing
    <3> QED BY <1>0, <1>2, <1>3, <2>1, <3>1, <3>2, <3>3 DEF Holds
  <2>2. CASE pc[t] = "interpret" /\ pc'[t] \in {"serialize", "rollback"} /\ conn'[t] = conn[t]
    <3>1. Edge(pc[t], pc'[t])
      BY <2>2 DEF Edge
    <3>2. Advances(t)
      BY <3>1, EdgeDescends DEF Advances, Nearer
    <3> QED BY <1>0, <2>2, <3>2 DEF Holds, Executing
  <2>3. CASE /\ pc[t] = "interpret" /\ pc'[t] = "interpret" /\ conn'[t] = conn[t]
             /\ written'[t] = written[t] + 1 /\ written[t] < Size(t) /\ written'[t] # Size(t)
    <3>1. written'[t] < Size(t)' /\ Left(t)' < Left(t) /\ Left(t)' \in Nat
      BY <1>2, <1>3, <2>3, SMTT(60) DEF Left
    <3> QED BY <1>0, <2>3, <3>1 DEF Holds, Executing, Advances, Nearer
  <2>4. CASE /\ pc[t] \in Executing \cup {"get_connection"} /\ pc'[t] = "done"
             /\ conn'[t] = NoConnection /\ written'[t] = 0
    <3>1. Edge(pc[t], pc'[t])
      BY <2>4 DEF Edge
    <3>2. Advances(t)
      BY <3>1, EdgeDescends DEF Advances, Nearer
    <3> QED BY <2>4, <3>2 DEF Holds
  <2> QED BY <1>1, <2>1, <2>2, <2>3, <2>4 DEF Moves
<1>5. ASSUME NEW u \in Tasks, u # t
      PROVE  Holds(u)' /\ Advances(u) /\ conn'[u] = conn[u]
  <2>1. pc'[u] = pc[u] /\ conn'[u] = conn[u] /\ written'[u] = written[u]
    BY <1>5, OthersKept, OthersHold DEF IInv
  <2> QED BY <1>1, <2>1, HoldsFrame DEF ProgressInv
<1>6. conn'[t] = conn[t] \/ conn'[t] = NoConnection \/ conn'[t] \in Free
  BY <1>1 DEF Moves
<1>7. ConnectionsAreExclusive'
  <2>1. \A u \in Tasks : u # t /\ conn'[u] = conn'[t] => conn'[t] = NoConnection
    BY <1>5, <1>6 DEF ProgressInv, ConnectionsAreExclusive, Free
  <2>2. ASSUME NEW u \in Tasks, NEW v \in Tasks, conn'[u] = conn'[v], conn'[u] # NoConnection PROVE u = v
    BY <1>5, <2>1, <2>2 DEF ProgressInv, ConnectionsAreExclusive
  <2> QED BY <2>2 DEF ConnectionsAreExclusive
<1> QED BY <1>4, <1>5, <1>7 DEF ProgressInv

\* A request that is taken starts its tasks without connections.
LEMMA HandleProgresses ==
    ASSUME IInv, ProgressInv, NEW r \in Requests, handle(r)
    PROVE  ProgressInv' /\ \A u \in Tasks : Advances(u)
<1>1. conn' = conn /\ written' = written /\ workload' = workload /\ up' = up /\ up
  BY DEF handle
<1>2. ASSUME NEW u \in Tasks PROVE Holds(u)' /\ Advances(u)
  <2>1. CASE pc'[u] = pc[u] /\ operation'[u] = operation[u]
    BY <1>1, <2>1, HoldsFrame DEF ProgressInv
  <2>2. CASE ~ (pc'[u] = pc[u] /\ operation'[u] = operation[u])
    <3>1. u[1] = r /\ pc'[u] = "get_connection"
      BY <2>2 DEF handle, Start
    <3>2. pc[u] = "idle"
      BY <3>1 DEF IInv, handle
    <3>3. conn[u] = NoConnection /\ written[u] = 0
      BY <3>2 DEF ProgressInv, Holds, Executing
    <3> QED BY <1>1, <3>1, <3>2, <3>3 DEF Holds, Advances
  <2> QED BY <2>1, <2>2
<1> QED BY <1>1, <1>2 DEF ProgressInv, ConnectionsAreExclusive

\* Futures that are dropped give their connections back.
LEMMA DropProgresses ==
    ASSUME IInv, ProgressInv, NEW S \in SUBSET Tasks, Drop(S),
           up' = up \/ \A t \in Tasks \ S : pc[t] \in {"idle", "done", "dropped"}
    PROVE  ProgressInv' /\ \A u \in Tasks : Advances(u)
<1>1. workload' = workload /\ operation' = operation
  BY DEF Drop, taken
<1>2. ASSUME NEW u \in Tasks PROVE Holds(u)' /\ Advances(u) /\ conn'[u] \in {conn[u], NoConnection}
  <2>1. CASE u \in S
    <3>1. pc'[u] = "dropped" /\ conn'[u] = NoConnection
      BY <2>1 DEF Drop
    <3>2. pc[u] \in {"idle", "done", "dropped"} \/ Edge(pc[u], "dropped")
      BY DEF IInv, TypeOK, Edge
    <3> QED BY <3>1, <3>2, EdgeDescends DEF Holds, Advances, Nearer
  <2>2. CASE u \notin S
    <3>1. pc'[u] = pc[u] /\ conn'[u] = conn[u] /\ written'[u] = written[u]
      BY <2>2 DEF Drop
    <3>2. up' = up \/ pc[u] \in {"idle", "done", "dropped"}
      BY <2>2
    <3>3. Holds(u) /\ operation'[u] = operation[u]
      BY <1>1 DEF ProgressInv
    <3> QED BY <1>1, <3>1, <3>2, <3>3, HoldsFrame
  <2> QED BY <2>1, <2>2
<1> QED BY <1>2 DEF ProgressInv, ConnectionsAreExclusive

\* One case per kind of step.
LEMMA NextProgresses ==
    ASSUME IInv, ProgressInv, [Next]_vars
    PROVE  ProgressInv' /\ \A u \in Tasks : Advances(u)
<1>1. ASSUME NEW r \in Requests, handle(r) PROVE ProgressInv' /\ \A u \in Tasks : Advances(u)
  BY <1>1, HandleProgresses
<1>2. ASSUME UNCHANGED <<workload, operation, pc, conn, written, up>>
      PROVE  ProgressInv' /\ \A u \in Tasks : Advances(u)
  BY <1>2, HoldsFrame DEF ProgressInv, ConnectionsAreExclusive
<1>3. ASSUME NEW r \in Requests, respond(r) PROVE ProgressInv' /\ \A u \in Tasks : Advances(u)
  BY <1>2, <1>3 DEF respond, taken
<1>4. ASSUME NEW r \in Requests, hang_up(r) PROVE ProgressInv' /\ \A u \in Tasks : Advances(u)
  <2> DEFINE S == IF handling[r] = "batch" THEN {} ELSE Unfinished(r)
  <2>1. S \in SUBSET Tasks /\ Drop(S) /\ up' = up
    BY <1>4 DEF hang_up, Unfinished, tasks
  <2> QED BY <2>1, DropProgresses
<1>5. ASSUME NEW t \in Tasks, up, execute(t) \/ fail(t) PROVE ProgressInv' /\ \A u \in Tasks : Advances(u)
  BY <1>5, TaskProgresses
<1>6. CASE crash
  <2> DEFINE S == {t \in Tasks : pc[t] \notin {"idle", "done", "dropped"}}
  <2>1. S \in SUBSET Tasks /\ Drop(S)
    BY <1>6 DEF crash
  <2>2. \A t \in Tasks \ S : pc[t] \in {"idle", "done", "dropped"}
    OBVIOUS
  <2> QED BY <2>1, <2>2, DropProgresses
<1>7. CASE UNCHANGED vars
  BY <1>2, <1>7 DEF vars
<1> QED BY <1>1, <1>3, <1>4, <1>5, <1>6, <1>7 DEF Next

\* At first nobody holds a connection and nothing is written.
LEMMA InitProgresses == Init => ProgressInv
<1> SUFFICES ASSUME Init PROVE ProgressInv
  OBVIOUS
<1>1. ASSUME NEW t \in Tasks PROVE pc[t] = "idle" /\ conn[t] = NoConnection /\ written[t] = 0
  BY DEF Init
<1> QED BY <1>1 DEF ProgressInv, ConnectionsAreExclusive, Holds

\* A task that waits for a connection finds one or waits for tasks that can go on,
\* for any number of requests, batches of any size and pools of any size.
THEOREM PoolDoesNotLock == Spec => [](PoolNeverLocks /\ ConnectionsAreExclusive)
<1>1. IInv /\ ProgressInv => PoolNeverLocks /\ ConnectionsAreExclusive
  <2> SUFFICES ASSUME IInv, ProgressInv, NEW t \in Tasks, pc[t] = "get_connection",
                      NEW c \in Connections, c \notin Free
               PROVE  \E u \in Tasks : u # t /\ conn[u] = c /\ CanStep(u)
    BY DEF PoolNeverLocks, ProgressInv
  <2>1. PICK u \in Tasks : conn[u] = c
    BY DEF Free
  <2>2. pc[u] \in Executing /\ Holds(u)
    BY <2>1, ConnectionAssumption DEF ProgressInv, Holds
  <2>3. u # t /\ CanStep(u)
    BY <2>2 DEF Executing, CanStep, Holds
  <2> QED BY <2>1, <2>3
<1>2. Spec => []IInv
  BY Invariance
<1>3. IInv /\ ProgressInv /\ [Next]_vars => ProgressInv'
  BY NextProgresses
<1> QED BY <1>1, <1>2, <1>3, InitProgresses, PTL DEF Spec

\* No task runs for ever: every step of the system leaves a started task where it is
\* or brings it nearer its end, whatever fails, hangs up or crashes.
THEOREM TasksEnd == Spec => TasksGetNearer
<1>1. IInv /\ ProgressInv /\ [Next]_vars => [\A t \in Tasks : Advances(t)]_vars
  BY NextProgresses
<1>2. Spec => []IInv
  BY Invariance
<1>3. IInv /\ ProgressInv /\ [Next]_vars => ProgressInv'
  BY NextProgresses
<1> QED BY <1>1, <1>2, <1>3, InitProgresses, PTL DEF Spec, TasksGetNearer

=============================================================================
