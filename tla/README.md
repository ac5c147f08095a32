# A TLA+ model of the Prisma engines

The repository holds the Rust engines behind Prisma: a **query engine** that
turns GraphQL requests into database queries, a **migration engine** that moves a
database from one datamodel to the next, an **introspection engine** that reads a
datamodel off a database, and the libraries they share.  This directory models
their stateful core and the algorithms that are hard to test, checks the models
with TLC on small instances, and proves what matters most of two of them with
TLAPS for every instance.

`PROJECT.json` lists every part of the repository with the status of its model,
the lines each definition translates, the hazards the code is exposed to with the
properties that would catch them, the runs, the mutants that show each property
can fail, and the theorems.

## 1. The system and its models

| Part of the system | Modules | Instances |
|---|---|---|
| migration commands, applier, persistence (`migration-engine/core/src/commands`, `migration_applier.rs`, `sql_migration_persistence.rs`) | `MigrationEngine` | `MCMigrationEngine` |
| datamodel steps (`migration-engine/core/src/migration`) | `DatamodelText`, `DatamodelDiffer`, `DatamodelSteps` | `MCDatamodelSteps` |
| SQL migration connector: differ, calculator, SQLite rewriting, step applier, destructive changes checker | `SqlMigration` with `SqlSchemaDescriber`, `SqlSchemaDiffer`, `SqlSchemaCalculator`, `SqlDatabase` | `MCSqlMigration` |
| datamodel library, internal data model, introspection | `Datamodel` with `Dml`, `DatamodelLift`, `DatamodelValidator`, `DatamodelConverter`, `Introspection` | `MCDatamodel` |
| query graph, its builder, expressions, interpreter, connector | `QueryEngine` with `QueryAst`, `QueryGraph`, `QueryGraphBuilder`, `Expressionista`, `QueryInterpreter`, `Database`; `WriteSemantics` is the reference | `MCQueryEngine` |
| server, request handlers, executor | `RequestHandling` with `QueryDocument`; `AtomicRequests` is the abstract specification | `MCRequestHandling` |

How they fit together: a datamodel text is parsed, validated and standardised by
the datamodel library (`Datamodel`).  The migration engine stores it as text and
moves between versions with datamodel steps (`DatamodelSteps`); a migration row is
driven by the commands and the applier (`MigrationEngine`), and the database steps
of one row are statements of the SQL connector (`SqlMigration`).  The query engine
converts the same datamodel to its internal one (`DatamodelConverter`, shared with
the SQL schema calculator); a server accepts requests and runs operations on
pooled connections (`RequestHandling`), and one write operation goes through graph,
expression and interpreter (`QueryEngine`).

The models meet where one abstracts the other.  `MigrationEngine` knows a database
step only as the creation or drop of a table, `SqlMigration` knows its statements;
`RequestHandling` knows a write only as a number of statements, `QueryEngine` knows
which.  `SqlSchemaCalculator` and `SqlSchemaDescriber` are used by both
`SqlMigration` and `Datamodel`, which asks whether the engines agree on a schema.

## 2. MigrationEngine

### State and actions

`table` is the `_Migration` table in revision order, `exists` whether it is there,
`db` the tables of the migrated database and `filled` those that hold rows.
`eng[e]` is the command engine `e` executes: its program counter, the request, the
tables that held rows when its destructive changes check looked (`seen`) and the
`MigrationUpdateParams` the applier keeps in memory.  `plan` holds the outputs
of `inferMigrationSteps` a client may still send.  `ran` is a history variable: for
each row the database steps that were really executed.

Every `await` of the code is a step, so engines, crashes and failures interleave
between any two database round trips:

| Code | Actions |
|---|---|
| `InferMigrationStepsCommand` | `InferMigrationSteps` |
| `ApplyMigrationCommand` | `ApplyMigration`, `ApplyLast`, `handle_transition_out_of_watch_mode`, `CheckNotApplied`, `handle_normal_migration`, `Describe`, `DestructiveChangesCheck`, `Create` |
| `MigrationApplier::apply` | `MarkInProgress`, `ApplyStep`, `ApplyStepFails`, `ForwardProgress`, `FinishApply` |
| `UnapplyMigrationCommand`, `MigrationApplier::unapply` | `UnapplyMigration`, `UnapplyLast`, `UnapplyCheck`, `MarkRollingBack`, `UnapplyStep`, `UnapplyStepFails`, `BackwardProgress`, `FinishUnapply` |
| `ResetCommand` | `Reset`, `ResetRows`, `ResetDrop`, `ResetInit` |
| error paths, panics, process start | `CommandFails`, `CreatePanics`, `Crash`, `Restart` |
| other clients of the database | `Drift`, `Insert` |

A datamodel is the set of its models and a schema the set of its tables.
`InferMigrationSteps` takes the migrations a client asks to assume, by their steps
(`assumeToBeApplied`) or with their ids (`assumeAppliedMigrations`, refused when one is
applied already); what is inferred on an assumption is no plan for the database as it
is, so it promises no target.  Foreign DDL (`Drift`) happens while no command runs, rows
arrive (`Insert`) at any time, also between the check and the steps, which are not in
one transaction: `NoSilentDataLoss` says that only such rows are lost without notice.

### Runs

| Run | Instance | Shows |
|---|---|---|
| `two` | two engines, crashes, two models, 2 revisions | `SuccessIsComplete`, `ProgressLagsByAtMostOne`, `PhasesOnlyAdvance`: rows tell the truth about executed steps, and a status never moves back |
| `one` | one engine, crashes, failing queries, data, 2 ids, 2 models, 2 revisions | `InSync`: nothing left undone is invisible in the table; `NoSilentDataLoss`: rows that were there when the command checked are dropped only as `force` allows |
| `watch` | one engine, all commands, crashes and drift, an id and a watch id, 3 revisions | `IdleEngineHasTable`, `DuplicatesOnlyLeavingWatch`, `PlanIsHonoured`, `SuccessMatchesDatabase` |
| `live` | two engines with all commands, reset and assumed migrations among them, fair | `CommandsReturn`: a command returns although another engine's reset may take the table away |

Bounds: two models are enough for a migration of two steps, where progress is
persisted in the middle, and for one that creates and drops at once.  Revisions are
bounded so that the shortest interesting history (apply, watch, roll back, apply
again) fits; the theorems below have no such bounds.  Symmetry is used only with
invariants and action properties, not in `live`.

Fairness: `WF_vars(Run(e))` only.  A request that was accepted is polled by the
runtime until it returns, and each query of the database answers or fails.  Nothing
is assumed of clients, restarts or the environment.

## 3. RequestHandling

### State and actions

`workload` is the choice of requests, rows and flags a behaviour starts with;
`handling[r]` is how the handler took request `r` (single, batch, compacted, error,
panic) and `sent[r]` what its client knows.  A task `<<r, i>>` is
the `i`-th operation of `r`: `operation` what it executes, `pc` where it is in
`execute`, `conn` its pooled connection, `written` the statements in its open
transaction, `view` what a read saw, `result` and `answer` what came out.  `db` is
the set of committed statements, `up` whether the process lives.

| Code | Actions |
|---|---|
| `GraphQlRequestHandler::handle`, `handle_batch`, `handle_compacted` | `handle`, `respond` |
| `InterpretingExecutor::execute`, `with_transaction` | `get_connection`, `build`, `start_transaction`, `commit`, `commit_returns`, `rollback` |
| `QueryPipeline::execute`, response serialisation | `interpret_read`, `interpret_write`, `serialize` |
| what may fail | `get_connection_fails`, `start_transaction_fails`, `interpret_fails`, `interpret_is_lost`, `commit_fails`, `panic` |
| the server drops a future, the process ends | `hang_up`, `crash` |

`QueryDocument` is the conversion of a document (which operation `operationName`
picks, and what is an error), the compaction of a batch of `findOne` queries and the
handing out of its rows.

### Run

`requests` has two requests, two connections, batches of up to two operations (of
up to three for compaction), mixes of reads, writes and raw queries that compete for
the pool with and without forced transactions, and every failure.  It checks `ErrorMeansUndone`, `AllOrNothing`,
`DataMeansApplied`, `CompactionIsTransparent`, the refinement `AtomicallyExecuted`
and, under fairness, `Answered` and `SpawnedTasksFinish`.  Two tasks of one batch
and one of another request are the smallest number for which a batch waits for
itself and for others at a full pool.

Fairness: `WF` of each task's `execute` while the process lives, and of `respond`.
Tasks are polled by the runtime and the database answers each statement; failures,
hang-ups and crashes are never forced, and a new request need not come.

## 4. QueryEngine

`db` is the committed database, `work` the one the transaction sees, `pre` the one
the request found; `phase` is where the executor is, `graph` the query graph,
`trans` the state its translation left, `mach` the interpreter, `out` the answer.
`Execute` is `Build`, `StartTransaction`, `Finalize`, `Translate`, then `ReadQuery`
and `WriteQuery` for every query the interpreter stops at, and `Commit` or
`Rollback`.  What may fail around a write is the subject of `RequestHandling`.

| Module | Models |
|---|---|
| `QueryAst` | relations and their sides, filters, the queries a node holds, what a query returns |
| `QueryGraph` | construction, marks, `swap_marked`, `insert_reloads`, direct children; removing an edge moves the last edge to its index, as petgraph does |
| `QueryGraphBuilder` | six top-level and nine nested operations; the closures on edges are data: how many projections they accept, the error otherwise, what they do to the child |
| `Expressionista` | the translation of the graph, which consumes nodes and edges |
| `QueryInterpreter` | the evaluation, as a machine that stops at every query |
| `Database` | the connector's operations on tables and relation tables, with the constraints and delete actions of the schema calculator |
| `WriteSemantics` | what a request means for records and links, written without graphs or keys |

| Run | Instance | Shows |
|---|---|---|
| `query_writes` | all shapes of one relation, all databases with ids 1 and 2, every request with at most one nested operation, or two on a list | `RelationsHold`, `EffectIsExact`, `AnswerIsExact`, `RejectedForCause` |
| `query_chain` | three models, pairs of relation shapes, an operation inside an operation or beside it | `TranslationIsComplete`, `NoInternalError`, `EffectIsExact`: swaps and reloads keep the graph complete and right |
| `query_reorder` | the shape `query_chain` leaves out | expected violation of `OldChildIsReplaced`, see Findings |

Two records of a model suffice for one that is connected and one that is not, or for
the old and the new partner; `MaxId` leaves room for every record a request creates.
Chains of three models are the shortest in which the swap of one pair moves the
edges of another.  The runs check for deadlock: a request is always answered.  Where
several rows come in an order the model does not know and a closure takes one, the
interpreter fails with `Ambiguous`, which `NoInternalError` shows never to happen.

## 5. SqlMigration

`family` is the database (Postgres, MySQL, SQLite), `db` its content, `phase` where
the migration at hand is, `migration` its two schemas and its direction, `plan` its
steps both ways, `todo` the statements not sent yet, `warnings` what the checker
warned of, `held` the values there were when it looked, `applied` the applied
migrations.  `Infer` describes the database and diffs, `Unapply` begins a rollback,
`Check` is the destructive changes checker, `Execute` sends one statement (the
database may refuse it), `Fail` loses the connection, `Finish` records the result,
and `Insert` is the application adding rows.

`sql_migration` runs two migrations or rollbacks after the first, one insert and one
fault, over datamodels with optional, required and changed fields, enums, ids,
uniques and relations: `NoStatementRejected`, `SchemaReached`, `NoUnwarnedLoss`,
`RollbackRestores`.  Their exceptions are named operators (`RefusalExplained`,
`LeftBehind`, `UnnamedKeyGoes`, `NotMigrated`, `NotRolledBack` ...), each of them a gap
listed in section 9.  `NoStatementRejected` speaks of migrations, of second attempts
after a migration was cut short at any statement, which fail only where they create a
table or type that the first has left, and of rollbacks, which fail only where they have
to drop a foreign key whose name is not known, or create an index of MySQL again.
`sql_radical` is the expected violation of `DroppedTablesAreWarned`.  Two migrations
are enough for one that starts from what another left, or left half-done.

## 6. DatamodelSteps and Datamodel

`DatamodelSteps`: `stored` is the datamodel text of the last migration, `draft` the
datamodel the calculator is building, `future` what clients will ask for, `steps`
what is left to replay, `status` where the command is.  `Infer` diffs, `Send` takes
steps written by a client, `Apply` replays one step, `Store` renders and keeps the
result, `Fail` ends on an error or panic.  The run `datamodel_steps` checks
`ReplayReachesTarget`, `NothingIsLeft`, `RefusedOnlyForKnownCause` and
`StoredIsReadable` over histories of fields, directives, enums, aliases, sources and
items of different kinds under one name.  Their exceptions are bounded: the text lacks
exactly the type aliases that come last (`LostAliases`), the next inference finds exactly
them missing, and a stored text is unreadable only if it uses one; the steps that are
refused are named one by one.  Strings keep the pieces the grammar tells apart (escapes,
interpolations, quotes).

`Datamodel`: `file` is a schema text, `parsed` what the library made of it,
`database` a database it was migrated to or that was there, `origin` which.  `Parse`,
`Format` (which writes nothing when parsing panics), `Render`, `Migrate` and
`Introspect` are the operations; two in a row
(`MaxOperations`) are what the properties relate.  The run `datamodel` checks
`NoPanic`, `EnginesAgree`, `OrderDoesNotMatter`, `ValidIsCreatable`,
`IntrospectedIsAccepted`, `IntrospectionIsFaithful`, `FormatKeepsMeaning` and
`RenderKeepsMeaning` over two models with every combination of identifying
criterion and relation fields, and over databases no schema describes exactly.

Deadlock is not checked where the system may stop: the `datamodel` and `requests`
runs, the two SQL runs and `query_reorder`.

## 7. Proofs

Every invariant below was an invariant of a TLC run before it was proved.

### RequestHandling (`RequestHandlingProofs`, `QueryDocumentProofs`)

For any set of requests, workloads, connections and batch sizes.  `WorkloadAssumption`
says that a batch has at most `MaxOperations` operations, that a write has at least
one statement, a raw query exactly one and a read none; `DocumentAssumption` says that
a batch is a sequence, and that the queries of one that can be compacted are as
`convert` leaves them: the keys of a filter are those of an object (a `BTreeMap` in
the code) and nothing is selected twice.  The second half is what
`ConvertedIsWellFormed` shows of `convert`.

| Theorem | States |
|---|---|
| `Invariance` | the inductive invariant `IInv` |
| `WritesAreAtomic` | `Spec => []AllOrNothing` |
| `ErrorsAreUndone` | `Spec => []ErrorMeansUndone` |
| `DataIsApplied` | `Spec => []DataMeansApplied` |
| `Refinement` | `Spec => AtomicallyExecuted` |
| `CompactionTransparent` | `Spec => []CompactionIsTransparent` |
| `PoolDoesNotLock` | `Spec => [](PoolNeverLocks /\ ConnectionsAreExclusive)` |
| `TasksEnd` | `Spec => TasksGetNearer` |
| `CompactionAnswersAlone` | `CompactedAsAlone(ops, compact(ops), rows)` for every plain batch that can be compacted and whose `findMany` is built |
| `ConvertedIsWellFormed` | `convert` leaves every name of a selection once and none out |

The properties are not inductive: they speak of what the client was told, and the
reason is where the task is.  `TaskInv` ties the position of a task in `execute` to
the database: before the commit nothing of it is there, after it everything is, a
raw query is there once it is interpreted, and a task that is done or dropped is
untouched or applied, as its answer says.  The rest is non-interference: no other
task, hang-up or crash changes a task's own statements, and a request that was not
sent has no running task.  For the refinement the same lemmas show that a step of a
task is `TakeEffect`, `Answer` or a stutter of `AtomicRequests`; `handle` is
`Receive`, `hang_up` and `crash` are `Abandon`, `respond` stutters.

The compaction is an algorithm over data of any size, and its proof is by induction.
The prover cannot instantiate the library's induction schemes, but it can use a set
in the place of a predicate: `IntervalInduction` says that a set with 0 and with the
successor of each of its members below `N` has all of `0..N`, by the well-foundedness
of `<`.  With it the recursive functions of the model are shown to exist
(`PushAllUnfolds`, `SelectionSetUnfolds`, `AddMissingUnfolds`), and then what they
compute: after `i` queries with the same `m` unique columns the selection set is
`Grouping(K, V, m, i, m)`, one group for each query with its columns in order (for one
column, a single group with all values), so the filter is the disjunction of the
filters of the queries (`FilterOfCompacted`).  A record is handed out by the values of
its unique columns, which are the values of the filter when those are in canonical
form; what is selected in addition does not show, since a name is selected once
(`SameSelection`, `AddMissingAdds`, `SameItem`).  `CompactInv` carries this through
the concurrent system: a request that is handled as a compacted batch has the
compacted operation in its one task, and the task gets past `build` only when that
operation builds.

`Answered` and `SpawnedTasksFinish` are liveness properties, and the last part of the
module proves what they rest on besides fairness.  Only a task that executes holds a
connection, and it holds it alone (`ProgressInv`); so a task that waits for the pool
finds a free connection or waits for tasks that wait for nobody, also when a batch is
larger than the pool (`PoolNeverLocks`).  And every step of the system, a failure, a
hang-up or a crash included, leaves a task that was started where it is or brings it
nearer its end in a well-founded order: the place in `execute_operation`, then the
statements that are left of its write (`TasksGetNearer`).

### MigrationEngine

All modules rest on `ConstantsAssumption`: watch ids are ids, the set of models is
finite, what clients send are steps, `MaxRevision` is a natural number.  Engines,
ids, models and revisions are otherwise arbitrary.

| Theorem | Module | States, and under which assumption |
|---|---|---|
| `TypeCorrect` | `MigrationEngineTypeProofs` | `[]TypeOK` |
| `SuccessIsNeverPartial` | `MigrationEngineProofs` | `[]SuccessIsComplete`; no engine resets |
| `ProgressIsTrue` | `MigrationEngineProofs` | `[]ProgressLagsByAtMostOne`; no engine resets |
| `StatusOnlyAdvances` | `MigrationEngineProofs` | `PhasesOnlyAdvance`; no engine resets |
| `NoDataIsLostSilently` | `MigrationEngineStepProofs` | `NoSilentDataLoss`; any number of engines, every command and event |
| `TableIsThere` | `MigrationEngineStepProofs` | `[]IdleEngineHasTable`; one engine whose queries do not fail |
| `CommandsEnd` | `MigrationEngineStepProofs` | `CommandsGetNearer`; any number of engines, every command and event |
| `SuccessIsTrue` | `MigrationEngineDatabaseProofs` | `SuccessMatchesDatabase`; one engine |
| `DatabaseIsInSync` | `MigrationEngineSyncProofs` | `[]InSync`; one engine, no reset, no foreign DDL |
| `IdsAreReusedOnlyLeavingWatch` | `MigrationEnginePlanProofs` | `[]DuplicatesOnlyLeavingWatch`; one engine |
| `PlansAreHonoured` | `MigrationEnginePlanProofs` | `[]PlanIsHonoured`; one engine |

`MigrationEngineProofs` and `MigrationEngineStepProofs` extend the types; the latter
holds what the actions do (one lemma each), on which the database, sync and plan
modules build.

* `TypeOK` is inductive once it says that an engine past the lookup of its
  migration knows the migration's id.
* `InStep` relates each applier in memory to its row: a row that is not finished
  belongs to at most one applier, the only writer of its counter, and what was
  executed is a prefix of its steps at most one longer than the counter.  Engines
  that roll back one row may overlap, and need only agree on the counter.
* `Guarded`: a command behind its destructive changes check is forced or has seen no
  row in the tables its steps drop.  Rows that arrive later do not change what it saw,
  so a table it drops all the same was empty when it looked.
* `TableThere`: only a process that is down, or a reset that is about to create it
  again, lacks the table.  A failing query breaks this: `init` ignores its errors.
* `ProgressInv`: an applier that counts a step has another one after it.  With it,
  every step of any engine or of the environment leaves a command in flight as it is
  or brings it nearer its end: to a later place of the command or, in the loops of
  the applier, to fewer queries that are left (`CommandsGetNearer`).  This is what
  `CommandsReturn` rests on besides fairness.
* `DatabaseInv`: the steps of a command are those between the schema it described
  and its datamodel, and after `k` of them the database is `Reached(before, up, k)`,
  which is the datamodel when none are left.
* `SyncInv`: what each row promises about the database given the rows below it
  (`Spent`, `Base`, `Synced`).  A row in progress or rolling back promises nothing, a
  recorded rollback inverts its row, and a row rolled back gives the promise back to
  the one below.  There is one lemma for each rollback action.  With several engines
  or resets there is no such promise: the code takes no lock, and ids and revisions
  start again after a reset.
* `IdInv`: the decision that an id may be applied is made several awaits before its
  row is written; it stays true in between, and a rollback works on the newest
  successful row, so it never takes away a watch migration that stands between two
  applications of an id.
* `PlanInv`: while the engine is quiet the plans clients hold are current, and a
  command that took one carries the planned steps and reads the row they were
  inferred against, in watch mode, out of it and leaving it; `StepsLeadToTarget`
  then gives the datamodel.

The assumptions are needed.  Without a lock, a second engine (two instead of one in
the instances above, and TLC finds a behaviour for each) breaks `InSync`,
`SuccessMatchesDatabase`, `DuplicatesOnlyLeavingWatch` and `PlanIsHonoured`; with
resets, an applier that survived another engine's reset may write into a new row
that has its revision, which breaks the properties of `InStep`.

## 8. What is only model-checked

* Liveness (`CommandsReturn`, `Answered`, `SpawnedTasksFinish`): fairness and
  `ENABLED` are beyond the prover.  That nothing goes back, loops or waits in a circle
  is proved (`CommandsEnd`, `TasksEnd`, `PoolDoesNotLock`); that a step is open at
  every place, and is taken, is not.
* All properties of `QueryEngine`, `DatamodelSteps` and `Datamodel`: they are about
  recursive operators on graphs, expressions, texts and datamodels, and the prover
  cannot work in modules with recursive operators.
* All properties of `SqlMigration`: what its long chains of filters and folds over
  tables, columns, indexes and statements compute for every pair of schemas is beyond
  the prover, which knows nothing of `SelectSeq` and of operators as arguments.

## 9. Findings and known gaps

Two runs are expected to end in a violation.

* `query_reorder` (`query_graph/mod.rs:372`): `swap_marked` removes edges, which
  renumbers others, and edges are evaluated by number.  In an update with a nested
  create of a one-to-one child that itself creates or connects a record holding its
  key, the child is created before the old child is looked up; the new child is then
  disconnected again, or a unique constraint fails.
* `sql_radical` (`sql_destructive_changes_checker.rs:365`): the checker looks at the
  original steps; tables that `fix_id_column_type_change` drops because the type of
  an id changes are not among them and are dropped without a warning.

The exceptions that properties name, and what else was met while modelling:

**Migration commands.**  Leaving watch mode skips the already-applied check
(`apply_migration.rs:38`).  Rows that arrive between the check and the DROP are lost
without notice (`apply_migration.rs:147`).  A rollback without `force` proceeds in spite of warnings
(`unapply_migration.rs:41`).  After a rollback or a failure `inferMigrationSteps` and
`applyMigration` use different base rows (`infer_migration_steps.rs:78`,
`apply_migration.rs:56`).  `create` unwraps the result of its INSERT
(`sql_migration_persistence.rs:119`); `init` and `reset` ignore errors (`:41`).

**Datamodel steps.**  The renderer does not write type aliases that end a schema; an
escaped interpolation makes the replay panic (`steps.rs:307`); `apply_delete_source`
looks for a model (`datamodel_calculator.rs:92`); directives of a new enum value are
sent before the value (`datamodel_differ.rs:156`).  Generators and documentation are
not diffed.

**SQL migrations.**  A rollback that has to drop a foreign key is refused or incomplete
on Postgres and MySQL, since the steps lack its name, and one between schemas with a key
creates again the index that MySQL made for it; changing a MySQL enum loses NOT NULL and the default; dropping a
Postgres enum value leaves the default; the foreign key of a column added to a SQLite
table is missing, and two columns added at once are refused; a recreated column loses
its indexes; changes of primary keys are not diffed; DateTime, JSON, negative and
quoted enum defaults never compare equal; a failed SQLite rebuild leaves `new_X`, a
failed Postgres enum change leaves `X_new`.

**Datamodel library and introspection.**  Parsing panics for a model that only an
optional unique field identifies and a relation references, for two models of one
name, and for relations of embedded models.  `@relation(fields: [x])` without
references is never compared.  A relation whose name equals the default name of
another, a MySQL relation over a criterion without an index, and an enum default that
does not exist are accepted.  Rendering loses aliases.  Introspection yields schemas
that are refused for a relation table with the name of a relation, relation tables
over keys of several columns, tables without keys in one-to-one relations, key
columns without letters, and SQLite keys of other types.

**Query engine.**  A disconnect counts only the parent (`disconnect_nested.rs:215`);
`set` on a one-to-many field ignores ids that do not exist; both branches of an
upsert are built, and an impossible one rejects the request; two operations on one
to-one field both read the old child.

**Requests.**  An error of the serialiser is answered after its write was committed
(`pipeline.rs:31`), the answer of a commit may be lost, and a failed rollback replaces
the error that caused it.  Reads run without a transaction.  The server drops the
future of a single or compacted request when its client hangs up, while the tasks of
a batch go on.  Compaction assumes equal unique keys, no alias, values in the form
they are read back in and no field selected twice below a relation; otherwise a query
gets null or the handler panics (`Plain` in `RequestHandling`).

## 10. Not modelled

* Migration commands that only read, nested reads and pagination, the schema builder,
  DMMF and schema rendering, the CLIs, `vb-query`, JSON-RPC and the formatter's I/O,
  values and test support.  Reasons are in `PROJECT.json`.
* Partly modelled: aggregations, nested reads and raw results in the interpreter;
  relation filters, ordering, cursors and chunking in the SQL connector; layout in the
  datamodel parser and renderer; the catalogue queries of the describers (what they
  return is external); the introspection's version checker, sanitised names that
  collide and Prisma 1 id defaults.
* MariaDB and MySQL 5.6 are not told apart from MySQL.  Isolation between concurrent
  database transactions is the database's.
