---------------------------- MODULE MigrationEngine ----------------------------
(***************************************************************************)
(* The migration engine: the commands that change state (applyMigration,   *)
(* unapplyMigration, reset), the MigrationApplier that drives a database   *)
(* migration step by step, and the _Migration table that persists its      *)
(* progress.  Several engine processes may work on one database: nothing   *)
(* in the code takes a lock.  Every await on the database is a step of its *)
(* own, so that crashes and other engines interleave between them.         *)
(*                                                                         *)
(* A datamodel is the set of its models and a database schema is the set   *)
(* of its tables, one table per model.  What a migration does inside one   *)
(* table is the subject of other modules; here a database step creates or  *)
(* drops one table.                                                        *)
(***************************************************************************)
EXTENDS Naturals, Sequences, FiniteSets

CONSTANTS
    Engines,       \* engine processes connected to the database
    Names,         \* migration ids
    WatchNames,    \* the ids that start with "watch"
    Models,        \* models of a datamodel, and their tables
    Commands,      \* RPC commands clients send: "infer" (and "assume": with assumed
                   \* migrations), "apply", "unapply", "reset"
    ClientSteps,   \* datamodel steps sent that do not come from an inferred plan
    Events,        \* of the environment: "crash", "query" (a query fails),
                   \* "drift" (foreign DDL), "data" (clients insert rows)
    MaxRevision    \* bound: rows of the _Migration table

ASSUME ConstantsAssumption ==
    /\ WatchNames \subseteq Names
    /\ IsFiniteSet(Models)
    /\ ClientSteps \subseteq [create : SUBSET Models, delete : SUBSET Models]
    /\ MaxRevision \in Nat

VARIABLES
    table,    \* rows of the _Migration table; the revision is the index
    exists,   \* whether the _Migration table exists
    db,       \* tables of the migrated database
    filled,   \* the tables that hold data
    eng,      \* what each engine is doing
    plan,     \* the output of inferMigrationSteps a client holds, if any
    ran       \* history: the up steps of each row that were really executed

vars == <<table, exists, db, filled, eng, plan, ran>>

--------------------------------------------------------------------------------
(* Values *)

MigrationStatus ==
    {"Pending", "MigrationInProgress", "MigrationSuccess", "MigrationFailure",
     "RollingBack", "RollbackSuccess", "RollbackFailure"}

\* DatamodelSteps of the calculator: models to create and models to delete.
DatamodelSteps == [create : SUBSET Models, delete : SUBSET Models]
NoSteps == [create |-> {}, delete |-> {}]

\* One step of a database migration.
DatabaseStep == [op : {"create", "drop"}, table : Models]

\* Option<bool> of the commands' `force`.  It is read when there are warnings, and
\* there are none while no table holds data.
ForceFlag == IF "data" \in Events THEN {"none", "true", "false"} ELSE {"none"}

\* The fields of a Migration the model keeps; `before` is SqlMigration.before,
\* `up` its corrected_steps, `down` its rollback.
Row == [name : Names, status : MigrationStatus, applied : Nat, rolled_back : Nat,
        datamodel : SUBSET Models, before : SUBSET Models,
        up : Seq(DatabaseStep), down : Seq(DatabaseStep)]

\* What inferMigrationSteps returned to a client: the steps to send to
\* applyMigration under `name`, and the datamodel they lead to, if they do.
Plan == [name : Names, steps : DatamodelSteps, target : SUBSET (SUBSET Models)]
NoName == "no name"

\* An engine's command in flight.  `target` holds the datamodel the client expects
\* (its plan's, if it has one), `datamodel` is the one the engine computed; the
\* fields from `revision` on are its MigrationUpdateParams, `step` is the loop
\* index of the applier.  History: `seen` are the tables that held data when the
\* destructive changes check counted their rows.
PC == {"idle", "down", "apply_last", "watch_base", "check_applied", "normal_base",
       "describe", "check", "create", "mark_in_progress", "forward",
       "forward_progress", "finish_ok", "finish_err", "unapply_last",
       "unapply_check", "mark_rolling_back", "backward", "backward_progress",
       "rollback_ok", "rollback_err", "reset_rows", "reset_drop", "reset_init"}

Command == [pc : PC, name : Names \cup {NoName}, force : ForceFlag,
            steps : DatamodelSteps, target : SUBSET (SUBSET Models),
            datamodel : SUBSET Models, before : SUBSET Models,
            up : Seq(DatabaseStep), down : Seq(DatabaseStep), step : Nat,
            seen : SUBSET Models, revision : Nat, applied : Nat, rolled_back : Nat]

Blank(pc) ==
    [pc |-> pc, name |-> NoName, force |-> "none",
     steps |-> NoSteps, target |-> {},
     datamodel |-> {}, before |-> {}, up |-> <<>>, down |-> <<>>, step |-> 0,
     seen |-> {}, revision |-> 0, applied |-> 0, rolled_back |-> 0]

IsWatch(name) == name \in WatchNames

--------------------------------------------------------------------------------
(* The migration inferrer and the datamodel calculator *)

Creates(from, to) == {[op |-> "create", table |-> m] : m \in to \ from}
Drops(from, to) == {[op |-> "drop", table |-> m] : m \in from \ to}

\* SqlSchemaDiff::into_steps: each difference once, tables are created before
\* tables are dropped; the order within a kind is the order of the description.
InferDatabaseSteps(from, to) ==
    LET diff == Creates(from, to) \cup Drops(from, to)
        n == Cardinality(diff)
    IN  {s \in [1..n -> diff] :
            /\ \A d \in diff : \E i \in 1..n : s[i] = d
            /\ \A i, j \in 1..n : s[i] = s[j] => i = j
            /\ \A i, j \in 1..n :
                  s[i].op = "create" /\ s[j].op = "drop" => i < j}

\* DataModelCalculator::infer fails on creating what exists or deleting what
\* does not.
CalculatorAccepts(datamodel, steps) ==
    /\ steps.create \cap datamodel = {}
    /\ steps.delete \subseteq datamodel

CalculateDatamodel(datamodel, steps) ==
    (datamodel \ steps.delete) \cup steps.create

\* DataModelMigrationStepsInferrer::infer
InferDatamodelSteps(from, to) == [create |-> to \ from, delete |-> from \ to]

--------------------------------------------------------------------------------
(* MigrationPersistence *)

\* The highest of a set of revisions, 0 for none.
Newest(revisions) ==
    IF revisions = {} THEN 0
    ELSE CHOOSE r \in revisions : \A s \in revisions : s <= r

DatamodelAt(r) == IF r = 0 THEN {} ELSE table[r].datamodel

\* Mutant of last: any migration, not only a successful one.
lastOfAnyStatus == Newest(1..Len(table))

last == Newest({r \in 1..Len(table) : table[r].status = "MigrationSuccess"})

\* Mutant of last_non_watch_migration: watch migrations are not skipped.
lastOfAnyName == Newest(1..Len(table))

last_non_watch_migration ==
    Newest({r \in 1..Len(table) : ~ IsWatch(table[r].name)})

last_non_watch_applied_migration ==
    Newest({r \in 1..Len(table) : /\ ~ IsWatch(table[r].name)
                                   /\ table[r].status = "MigrationSuccess"})

\* Mutant of migration_is_already_applied: only the newest row is looked at.
newestIsAlreadyApplied(name) ==
    Len(table) > 0 /\ table[Len(table)].status = "MigrationSuccess"
                   /\ table[Len(table)].name = name

migration_is_already_applied(name) ==
    \E r \in 1..Len(table) : /\ table[r].status = "MigrationSuccess"
                              /\ table[r].name = name

\* UPDATE ... WHERE name = .. AND revision = ..: without a matching row nothing
\* happens, and nothing is reported.
Updated(c, status) ==
    IF c.revision \in 1..Len(table) /\ table[c.revision].name = c.name
    THEN [table EXCEPT ![c.revision].status = status,
                       ![c.revision].applied = c.applied,
                       ![c.revision].rolled_back = c.rolled_back]
    ELSE table

\* A query on the _Migration table may fail, and does when it was dropped.
TableQueryFails == "query" \in Events \/ ~ exists

--------------------------------------------------------------------------------
(* Steps of an engine *)

At(e, pc) == eng[e].pc = pc
Goto(e, pc) == eng' = [eng EXCEPT ![e].pc = pc]
Return(e) == eng' = [eng EXCEPT ![e] = Blank("idle")]
Begin(e, command) == At(e, "idle") /\ eng' = [eng EXCEPT ![e] = command]

\* A migration the client asks to assume: assumeAppliedMigrations gives its id,
\* assumeToBeApplied only its steps.
Assumable ==
    IF "assume" \in Commands THEN [name : Names \cup {NoName}, steps : ClientSteps] ELSE {}

AssumptionsAccepted(assumed) ==
    \A m \in assumed : /\ ~ migration_is_already_applied(m.name)
                        /\ CalculatorAccepts(DatamodelAt(last), m.steps)

\* The datamodel of the last migration, with the (at most one) assumed one on top.
AssumedDatamodel(assumed) ==
    IF assumed = {} THEN DatamodelAt(last)
    ELSE CalculateDatamodel(DatamodelAt(last), (CHOOSE m \in assumed : TRUE).steps)

\* inferMigrationSteps only reads, and leaves nothing when it fails; the client keeps
\* what it returns.  What was inferred on an assumption leads to the target only
\* after the assumed migration: it promises none by itself.  (Its two reads of the
\* table are one step: another engine can write between them, when it leaves watch
\* mode.)
InferMigrationSteps(e, name, target, assumed) ==
    /\ "infer" \in Commands
    /\ At(e, "idle") /\ exists
    /\ AssumptionsAccepted(assumed)
    /\ LET leavesWatch == last # 0 /\ IsWatch(table[last].name) /\ ~ IsWatch(name)
           base == IF leavesWatch THEN DatamodelAt(last_non_watch_applied_migration)
                   ELSE AssumedDatamodel(assumed)
       IN  plan' = {[name |-> name, steps |-> InferDatamodelSteps(base, target),
                     target |-> IF assumed = {} THEN {target} ELSE {}]}
    /\ UNCHANGED <<table, exists, db, filled, eng, ran>>

\* A request of applyMigration, with the steps of the client's plan or others.
ApplyMigration(e, name, steps, target, force) ==
    /\ "apply" \in Commands
    /\ Len(table) < MaxRevision
    /\ Begin(e, [Blank("apply_last") EXCEPT !.name = name, !.steps = steps,
                                            !.target = target, !.force = force])
    /\ plan' = {}
    /\ UNCHANGED <<table, exists, db, filled, ran>>

\* execute: the last migration decides how the steps are read.
ApplyLast(e) ==
    /\ At(e, "apply_last") /\ exists
    /\ IF last # 0 /\ IsWatch(table[last].name) /\ ~ IsWatch(eng[e].name)
       THEN Goto(e, "watch_base")
       ELSE Goto(e, "check_applied")
    /\ UNCHANGED <<table, exists, db, filled, plan, ran>>

\* The next datamodel is computed from the one of revision `base`.
Calculate(e, base) ==
    IF CalculatorAccepts(DatamodelAt(base), eng[e].steps)
    THEN eng' = [eng EXCEPT
                    ![e].pc = "describe",
                    ![e].steps = NoSteps,
                    ![e].datamodel =
                        CalculateDatamodel(DatamodelAt(base), eng[e].steps)]
    ELSE Return(e)

handle_transition_out_of_watch_mode(e) ==
    /\ At(e, "watch_base") /\ exists
    /\ Calculate(e, last_non_watch_migration)
    /\ UNCHANGED <<table, exists, db, filled, plan, ran>>

\* handle_normal_migration, its two reads of the table.
CheckNotApplied(e) ==
    /\ At(e, "check_applied") /\ exists
    /\ IF migration_is_already_applied(eng[e].name)
       THEN Return(e)
       ELSE Goto(e, "normal_base")
    /\ UNCHANGED <<table, exists, db, filled, plan, ran>>

handle_normal_migration(e) ==
    /\ At(e, "normal_base") /\ exists
    /\ Calculate(e, last)
    /\ UNCHANGED <<table, exists, db, filled, plan, ran>>

\* Mutant of Describe: the last datamodel is trusted instead of the database.
DescribeLast(e) ==
    /\ At(e, "describe")
    /\ \E up \in InferDatabaseSteps(DatamodelAt(last), eng[e].datamodel),
         down \in InferDatabaseSteps(eng[e].datamodel, DatamodelAt(last)) :
           eng' = [eng EXCEPT ![e].pc = "check", ![e].before = db,
                              ![e].up = up, ![e].down = down]
    /\ UNCHANGED <<table, exists, db, filled, plan, ran>>

\* DatabaseMigrationInferrer::infer describes the database and diffs both ways.
Describe(e) ==
    /\ At(e, "describe")
    /\ \E up \in InferDatabaseSteps(db, eng[e].datamodel),
         down \in InferDatabaseSteps(eng[e].datamodel, db) :
           eng' = [eng EXCEPT ![e].pc = "check", ![e].before = db,
                              ![e].up = up, ![e].down = down]
    /\ UNCHANGED <<table, exists, db, filled, plan, ran>>

\* Tables a sequence of steps drops.
DroppedBy(steps) ==
    {steps[i].table : i \in {j \in 1..Len(steps) : steps[j].op = "drop"}}

\* check_impl counts the rows of every table to drop; the query fails for a table
\* that is gone.
CheckPossible(steps) == DroppedBy(steps) \subseteq db
\* Mutant of HasWarnings: only the first step is looked at.
FirstStepHasWarnings(steps) ==
    Len(steps) > 0 /\ steps[1].op = "drop" /\ steps[1].table \in filled

HasWarnings(steps) == DroppedBy(steps) \cap filled # {}

\* The command goes on; the rows it has seen are those there were when it looked.
PassCheck(e, pc) == eng' = [eng EXCEPT ![e].pc = pc, ![e].seen = filled]

DestructiveChangesCheck(e) ==
    /\ At(e, "check") /\ CheckPossible(eng[e].up)
    /\ IF HasWarnings(eng[e].up) /\ eng[e].force # "true"
       THEN Return(e)
       ELSE PassCheck(e, "create")
    /\ UNCHANGED <<table, exists, db, filled, plan, ran>>

\* MigrationPersistence::create inserts a Pending row; MigrationApplier::apply takes
\* its update params from it.
Create(e) ==
    /\ At(e, "create") /\ exists
    /\ LET c == eng[e]
           row == [name |-> c.name, status |-> "Pending", applied |-> 0,
                   rolled_back |-> 0, datamodel |-> c.datamodel,
                   before |-> c.before, up |-> c.up, down |-> c.down]
       IN  table' = Append(table, row)
    /\ ran' = Append(ran, {})
    /\ eng' = [eng EXCEPT ![e].pc = "mark_in_progress", ![e].step = 0,
                          ![e].revision = Len(table) + 1,
                          ![e].applied = 0, ![e].rolled_back = 0]
    /\ UNCHANGED <<exists, db, filled, plan>>

--------------------------------------------------------------------------------
(* MigrationApplier::apply *)

MarkInProgress(e) ==
    /\ At(e, "mark_in_progress") /\ exists
    /\ table' = Updated(eng[e], "MigrationInProgress")
    /\ Goto(e, "forward")
    /\ UNCHANGED <<exists, db, filled, plan, ran>>

\* The database executes a step, or refuses it.
Executable(step) == (step.op = "create") <=> (step.table \notin db)

Execute(step) ==
    /\ Executable(step)
    /\ db' = IF step.op = "create" THEN db \cup {step.table}
                                   ELSE db \ {step.table}
    /\ filled' = filled \ {step.table}

\* History: the current up step of command c was executed.
RanStep(c) ==
    IF c.revision \in 1..Len(ran)
    THEN [ran EXCEPT ![c.revision] = @ \cup {c.step + 1}]
    ELSE ran

\* Mutant of ApplyStep: apply_next_step stops one step early.
ApplyStepStopsEarly(e) ==
    /\ At(e, "forward")
    /\ LET c == eng[e] IN
       IF c.step < Len(c.up)
       THEN /\ Execute(c.up[c.step + 1])
            /\ ran' = RanStep(c)
            /\ Goto(e, IF c.step + 2 < Len(c.up) THEN "forward_progress"
                                                 ELSE "finish_ok")
       ELSE Goto(e, "finish_ok") /\ UNCHANGED <<db, filled, ran>>
    /\ UNCHANGED <<table, exists, plan>>

\* apply_next_step: true, the caller goes on, if there is a step after this one.
ApplyStep(e) ==
    /\ At(e, "forward")
    /\ LET c == eng[e] IN
       IF c.step < Len(c.up)
       THEN /\ Execute(c.up[c.step + 1])
            /\ ran' = RanStep(c)
            /\ Goto(e, IF c.step + 1 < Len(c.up) THEN "forward_progress"
                                                 ELSE "finish_ok")
       ELSE Goto(e, "finish_ok") /\ UNCHANGED <<db, filled, ran>>
    /\ UNCHANGED <<table, exists, plan>>

\* The database refuses the step, or the connection breaks before or after the
\* database executed it.
ApplyStepFails(e) ==
    /\ At(e, "forward")
    /\ LET c == eng[e]
           step == c.up[c.step + 1]
       IN  /\ c.step < Len(c.up)
           /\ \/ /\ ~ Executable(step) \/ "query" \in Events
                 /\ UNCHANGED <<db, filled, ran>>
              \/ /\ "query" \in Events
                 /\ Execute(step)
                 /\ ran' = RanStep(c)
    /\ Goto(e, "finish_err")
    /\ UNCHANGED <<table, exists, plan>>

\* Mutant of ForwardProgress: the count is written before the step is counted.
ForwardProgressLate(e) ==
    /\ At(e, "forward_progress") /\ exists
    /\ table' = Updated(eng[e], "MigrationInProgress")
    /\ eng' = [eng EXCEPT ![e].pc = "forward", ![e].step = @ + 1, ![e].applied = @ + 1]
    /\ UNCHANGED <<exists, db, filled, plan, ran>>

\* The rest of go_forward's loop body: count the step and persist the count.
ForwardProgress(e) ==
    /\ At(e, "forward_progress")
    /\ LET c == [eng[e] EXCEPT !.step = @ + 1, !.applied = @ + 1] IN
       \/ /\ exists
          /\ table' = Updated(c, "MigrationInProgress")
          /\ eng' = [eng EXCEPT ![e] = [c EXCEPT !.pc = "forward"]]
       \/ /\ TableQueryFails
          /\ eng' = [eng EXCEPT ![e] = [c EXCEPT !.pc = "finish_err"]]
          /\ UNCHANGED table
    /\ UNCHANGED <<exists, db, filled, plan, ran>>

\* Mutant of FinishApply: the result of the loop is not looked at.
FinishApplyAlwaysOk(e) ==
    /\ exists
    /\ eng[e].pc \in {"finish_ok", "finish_err"}
    /\ table' = Updated(eng[e], "MigrationSuccess")
    /\ Return(e)
    /\ UNCHANGED <<exists, db, filled, plan, ran>>

FinishApply(e) ==
    /\ exists
    /\ \/ At(e, "finish_ok") /\ table' = Updated(eng[e], "MigrationSuccess")
       \/ At(e, "finish_err") /\ table' = Updated(eng[e], "MigrationFailure")
    /\ Return(e)
    /\ UNCHANGED <<exists, db, filled, plan, ran>>

--------------------------------------------------------------------------------
(* unapplyMigration and MigrationApplier::unapply *)

UnapplyMigration(e, force) ==
    /\ "unapply" \in Commands
    /\ Begin(e, [Blank("unapply_last") EXCEPT !.force = force])
    /\ plan' = {}
    /\ UNCHANGED <<table, exists, db, filled, ran>>

UnapplyLast(e) ==
    /\ At(e, "unapply_last") /\ exists
    /\ IF last = 0
       THEN Return(e)
       ELSE LET row == table[last]
            IN  eng' = [eng EXCEPT
                    ![e].pc = "unapply_check", ![e].name = row.name,
                    ![e].revision = last, ![e].applied = row.applied,
                    ![e].rolled_back = row.rolled_back,
                    ![e].datamodel = row.datamodel, ![e].before = row.before,
                    ![e].up = row.up, ![e].down = row.down]
    /\ UNCHANGED <<table, exists, db, filled, plan, ran>>

\* Warnings stop the rollback only if the client sent `force: false`.
UnapplyCheck(e) ==
    /\ At(e, "unapply_check") /\ CheckPossible(eng[e].down)
    /\ IF HasWarnings(eng[e].down) /\ eng[e].force = "false"
       THEN Return(e)
       ELSE PassCheck(e, "mark_rolling_back")
    /\ UNCHANGED <<table, exists, db, filled, plan, ran>>

MarkRollingBack(e) ==
    /\ At(e, "mark_rolling_back") /\ exists
    /\ table' = Updated(eng[e], "RollingBack")
    /\ Goto(e, "backward")
    /\ UNCHANGED <<exists, db, filled, plan, ran>>

UnapplyStep(e) ==
    /\ At(e, "backward")
    /\ LET c == eng[e] IN
       IF c.step < Len(c.down)
       THEN /\ Execute(c.down[c.step + 1])
            /\ Goto(e, IF c.step + 1 < Len(c.down) THEN "backward_progress"
                                                   ELSE "rollback_ok")
       ELSE Goto(e, "rollback_ok") /\ UNCHANGED <<db, filled>>
    /\ UNCHANGED <<table, exists, plan, ran>>

UnapplyStepFails(e) ==
    /\ At(e, "backward")
    /\ LET c == eng[e]
           step == c.down[c.step + 1]
       IN  /\ c.step < Len(c.down)
           /\ \/ /\ ~ Executable(step) \/ "query" \in Events
                 /\ UNCHANGED <<db, filled>>
              \/ "query" \in Events /\ Execute(step)
    /\ Goto(e, "rollback_err")
    /\ UNCHANGED <<table, exists, plan, ran>>

BackwardProgress(e) ==
    /\ At(e, "backward_progress")
    /\ LET c == [eng[e] EXCEPT !.step = @ + 1, !.rolled_back = @ + 1] IN
       \/ /\ exists
          /\ table' = Updated(c, "RollingBack")
          /\ eng' = [eng EXCEPT ![e] = [c EXCEPT !.pc = "backward"]]
       \/ /\ TableQueryFails
          /\ eng' = [eng EXCEPT ![e] = [c EXCEPT !.pc = "rollback_err"]]
          /\ UNCHANGED table
    /\ UNCHANGED <<exists, db, filled, plan, ran>>

FinishUnapply(e) ==
    /\ exists
    /\ \/ At(e, "rollback_ok") /\ table' = Updated(eng[e], "RollbackSuccess")
       \/ At(e, "rollback_err") /\ table' = Updated(eng[e], "RollbackFailure")
    /\ Return(e)
    /\ UNCHANGED <<exists, db, filled, plan, ran>>

--------------------------------------------------------------------------------
(* reset, errors, crashes and the environment *)

Reset(e) ==
    /\ "reset" \in Commands
    /\ Begin(e, Blank("reset_rows"))
    /\ plan' = {}
    /\ UNCHANGED <<table, exists, db, filled, ran>>

\* SqlMigrationPersistence::reset ignores an error of its DELETE.
ResetRows(e) ==
    /\ At(e, "reset_rows")
    /\ \/ table' = <<>> /\ ran' = <<>>
       \/ TableQueryFails /\ UNCHANGED <<table, ran>>
    /\ Goto(e, "reset_drop")
    /\ UNCHANGED <<exists, db, filled, plan>>

\* drop_database: the schema goes, the _Migration table with it.  Errors are
\* ignored on Postgres and SQLite; on MySQL they end the command (CommandFails).
ResetDrop(e) ==
    /\ At(e, "reset_drop")
    /\ \/ /\ table' = <<>> /\ ran' = <<>> /\ exists' = FALSE
          /\ db' = {} /\ filled' = {}
       \/ "query" \in Events /\ UNCHANGED <<table, ran, exists, db, filled>>
    /\ Goto(e, "reset_init")
    /\ UNCHANGED plan

\* Mutant of InitTable: the table is not created again.
InitTableForgotten == UNCHANGED exists

\* MigrationPersistence::init ignores an error of its CREATE TABLE.
InitTable == exists' = TRUE \/ ("query" \in Events /\ UNCHANGED exists)

ResetInit(e) ==
    /\ At(e, "reset_init")
    /\ InitTable
    /\ Return(e)
    /\ UNCHANGED <<table, db, filled, plan, ran>>

\* Mutant of CommandFails: a query on the dropped table is never answered.
CommandFailsOnlyByCheck(e) ==
    /\ \/ At(e, "check") /\ ~ CheckPossible(eng[e].up)
       \/ At(e, "unapply_check") /\ ~ CheckPossible(eng[e].down)
    /\ Return(e)
    /\ UNCHANGED <<table, exists, db, filled, plan, ran>>

\* A failed query ends the command with an error, and leaves no other trace (one
\* that the database executed all the same is like a crash right after it).
CommandFails(e) ==
    /\ \/ /\ TableQueryFails
          /\ eng[e].pc \in {"apply_last", "watch_base", "check_applied",
                  "normal_base", "mark_in_progress", "finish_ok", "finish_err",
                  "unapply_last", "mark_rolling_back", "rollback_ok", "rollback_err"}
       \/ /\ "query" \in Events
          /\ eng[e].pc \in {"describe", "check", "unapply_check", "reset_drop",
                             "reset_init"}
       \/ At(e, "check") /\ ~ CheckPossible(eng[e].up)
       \/ At(e, "unapply_check") /\ ~ CheckPossible(eng[e].down)
    /\ Return(e)
    /\ UNCHANGED <<table, exists, db, filled, plan, ran>>

\* `create` unwraps the error of its insert: the panic ends the process.
CreatePanics(e) ==
    /\ At(e, "create") /\ TableQueryFails
    /\ eng' = [eng EXCEPT ![e] = Blank("down")]
    /\ UNCHANGED <<table, exists, db, filled, plan, ran>>

Crash(e) ==
    /\ "crash" \in Events /\ ~ At(e, "down")
    /\ eng' = [eng EXCEPT ![e] = Blank("down")]
    /\ UNCHANGED <<table, exists, db, filled, plan, ran>>

\* MigrationEngine::new connects and initializes.
Restart(e) ==
    /\ At(e, "down")
    /\ InitTable
    /\ Return(e)
    /\ UNCHANGED <<table, db, filled, plan, ran>>

\* Foreign DDL happens while no command is running, clients insert at any time.
Quiet == \A e \in Engines : eng[e].pc \in {"idle", "down"}

Drift ==
    /\ "drift" \in Events /\ Quiet
    /\ \E schema \in SUBSET Models :
          db' = schema /\ filled' = filled \cap schema
    /\ UNCHANGED <<table, exists, eng, plan, ran>>

Insert ==
    /\ "data" \in Events
    /\ \E t \in db : filled' = filled \cup {t}
    /\ UNCHANGED <<table, exists, db, eng, plan, ran>>

--------------------------------------------------------------------------------
(* Specification *)

Init ==
    /\ table = <<>> /\ ran = <<>> /\ exists = TRUE
    /\ db = {} /\ filled = {}
    /\ eng = [e \in Engines |-> Blank("idle")]
    /\ plan = {}

Accept(e) ==
    \/ \E name \in Names, target \in SUBSET Models,
         assumed \in {{}} \cup {{m} : m \in Assumable} :
          InferMigrationSteps(e, name, target, assumed)
    \/ \E force \in ForceFlag :
          \/ \E p \in plan : ApplyMigration(e, p.name, p.steps, p.target, force)
          \/ \E name \in Names, steps \in ClientSteps :
                ApplyMigration(e, name, steps, {}, force)
          \/ UnapplyMigration(e, force)
    \/ Reset(e)

\* The steps of a command in flight.
Run(e) ==
    \/ ApplyLast(e) \/ handle_transition_out_of_watch_mode(e) \/ CheckNotApplied(e)
    \/ handle_normal_migration(e) \/ Describe(e) \/ DestructiveChangesCheck(e)
    \/ Create(e) \/ MarkInProgress(e) \/ ApplyStep(e) \/ ApplyStepFails(e)
    \/ ForwardProgress(e) \/ FinishApply(e)
    \/ UnapplyLast(e) \/ UnapplyCheck(e) \/ MarkRollingBack(e) \/ UnapplyStep(e)
    \/ UnapplyStepFails(e) \/ BackwardProgress(e) \/ FinishUnapply(e)
    \/ ResetRows(e) \/ ResetDrop(e) \/ ResetInit(e)
    \/ CommandFails(e) \/ CreatePanics(e)

Next ==
    \/ \E e \in Engines : Accept(e) \/ Run(e) \/ Crash(e) \/ Restart(e)
    \/ Drift \/ Insert

Spec == Init /\ [][Next]_vars

\* A command that was accepted is polled until it returns, and the database
\* answers or fails every query.
FairSpec == Spec /\ \A e \in Engines : WF_vars(Run(e))

--------------------------------------------------------------------------------
(* Properties *)

\* Every variable stays in its type, for all commands, faults and engines; an
\* engine that works on a migration knows its id.
Nameless == {"idle", "down", "unapply_last", "reset_rows", "reset_drop", "reset_init"}

EnginesOK ==
    /\ eng \in [Engines -> Command]
    /\ \A e \in Engines : eng[e].pc \notin Nameless => eng[e].name \in Names

TypeOK ==
    /\ table \in Seq(Row)
    /\ exists \in BOOLEAN
    /\ db \in SUBSET Models
    /\ filled \in SUBSET db
    /\ EnginesOK
    /\ plan \in SUBSET Plan
    /\ ran \in Seq(SUBSET Nat) /\ Len(ran) = Len(table)

\* A row that says its migration succeeded, or that it was rolled back later,
\* belongs to a migration all of whose steps the database executed: whatever
\* other engines do, and wherever engines crash (without concurrent resets).
Completed == {"MigrationSuccess", "RollingBack", "RollbackSuccess", "RollbackFailure"}

SuccessIsComplete ==
    \A r \in 1..Len(table) :
        table[r].status \in Completed => ran[r] = 1..Len(table[r].up)

\* The persisted `applied` counter never runs ahead of the database, and is at
\* most one step behind it: after a crash it tells the steps that ran up to one.
ProgressLagsByAtMostOne ==
    \A r \in 1..Len(table) :
        ran[r] \in {1..table[r].applied, 1..(table[r].applied + 1)}

\* The status of a row only moves forward: a failed migration stays failed, a
\* migration that began to roll back is never again in progress or successful
\* (so it is never again the last migration), and only a successful one is
\* rolled back.  The appliers of several engines may interleave.
Phase(status) ==
    CASE status = "Pending" -> 0
      [] status = "MigrationInProgress" -> 1
      [] status \in {"MigrationSuccess", "MigrationFailure"} -> 2
      [] OTHER -> 3

PhaseAdvances(from, to) ==
    /\ Phase(from) <= Phase(to)
    /\ from = "MigrationFailure" => to = "MigrationFailure"
    /\ Phase(from) < 2 => Phase(to) <= Phase(from) + 1
    /\ from = "MigrationSuccess" => to # "MigrationFailure"

PhasesOnlyAdvance ==
    [][\A r \in 1..Len(table) :
          r <= Len(table') => PhaseAdvances(table[r].status, table'[r].status)]_vars

\* One engine: when a migration is marked successful the database is exactly what
\* its datamodel says, even if it started from a database that drifted or that a
\* crash left half-way, because the inferrer diffs the described database.
BecomesSuccess(r) ==
    /\ table'[r].status = "MigrationSuccess"
    /\ r <= Len(table) => table[r].status # "MigrationSuccess"

SuccessMatchesDatabase ==
    [][\A r \in 1..Len(table') :
          BecomesSuccess(r) => db' = table'[r].datamodel]_vars

\* One engine, no reset, no drift: between commands the database is what the last
\* successful migration says, unless a newer row shows that an apply or a rollback
\* stopped half-way.  Nothing the engine leaves undone is invisible in the table.
Unfinished == {"MigrationInProgress", "MigrationFailure", "RollingBack", "RollbackFailure"}

InSync ==
    /\ Quiet
    /\ \A r \in (last + 1)..Len(table) : table[r].status \notin Unfinished
    => db = DatamodelAt(last)

\* One engine: an id is applied a second time only when the engine leaves watch
\* mode, that is with an applied watch migration in between.
DuplicatesOnlyLeavingWatch ==
    \A r, s \in 1..Len(table) :
        /\ table[r].status = "MigrationSuccess" /\ table[s].status = "MigrationSuccess"
        /\ table[r].name = table[s].name
        /\ r < s
        => \E w \in (r + 1)..(s - 1) :
              IsWatch(table[w].name) /\ table[w].status = "MigrationSuccess"

\* A table that holds data is dropped by a migration only if the client passed
\* `force: true`, by a rollback only if the client did not pass `force: false`, and
\* otherwise only if its first row arrived behind the destructive changes check of
\* the very command: the check sees every step the applier will execute, while
\* clients insert and other engines work.  (What foreign DDL drops while no command
\* runs is not the engine's doing.)
NoSilentDataLoss ==
    [][\A t \in filled \ filled' : Quiet \/ \E e \in Engines :
          /\ eng'[e] # eng[e]
          /\ \/ At(e, "forward") /\ (eng[e].force = "true" \/ t \notin eng[e].seen)
             \/ At(e, "backward") /\ (eng[e].force # "false" \/ t \notin eng[e].seen)
             \/ At(e, "reset_drop")]_vars

\* Applying the steps inferMigrationSteps returned leads to the datamodel they were
\* inferred for: both commands read the same row as the base of the steps, in and
\* out of watch mode, as long as no other migration has failed, was cut short or
\* was rolled back.  (Then they do not: leaving watch mode, infer diffs against the
\* last applied migration and apply replays on the last one of any status.)
AllOthersSucceeded(e) ==
    \A r \in 1..Len(table) :
        IsWatch(table[r].name) \/ r = eng[e].revision \/ table[r].status = "MigrationSuccess"

PlanIsHonoured ==
    \A e \in Engines :
        /\ eng[e].pc \in {"describe", "check", "create", "mark_in_progress", "forward",
                           "forward_progress", "finish_ok", "finish_err"}
        /\ AllOthersSucceeded(e)
        => \A target \in eng[e].target : eng[e].datamodel = target

\* One engine: whenever it can accept a command the _Migration table is there,
\* although reset drops it and the engine may crash before it is created again.
IdleEngineHasTable == \A e \in Engines : At(e, "idle") => exists

\* Every command returns (or its process ends), also when another engine's reset
\* takes the _Migration table away under it.
CommandsReturn ==
    \A e \in Engines : eng[e].pc # "idle" ~> eng[e].pc \in {"idle", "down"}
================================================================================
