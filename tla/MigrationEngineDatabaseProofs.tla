-------------------- MODULE MigrationEngineDatabaseProofs --------------------
(***************************************************************************)
(* One engine on its database: when a migration is marked successful the   *)
(* database is what its datamodel says.  The command describes the         *)
(* database, and its own steps are all that changes it from then on.       *)
(***************************************************************************)
EXTENDS MigrationEngineStepProofs

USE ZenonT(60)

--------------------------------------------------------------------------------
(* Executing the steps between two schemas one by one *)

\* The tables the first k steps create, or drop, and the schema after them.
Touched(steps, k, op) == {steps[i].table : i \in {j \in 1..k : steps[j].op = op}}

Reached(schema, steps, k) ==
    (schema \cup Touched(steps, k, "create")) \ Touched(steps, k, "drop")

\* Before the first step nothing has changed.
LEMMA ReachedStart ==
    \A schema, steps : Reached(schema, steps, 0) = schema
<1>1. 1..0 = {}
  BY SMTT(60)
<1>2. \A steps, op : Touched(steps, 0, op) = {}
  BY <1>1 DEF Touched
<1> QED
  BY <1>2 DEF Reached

\* After the last step the schema is the one the steps were inferred for.
LEMMA ReachedEnd ==
    ASSUME NEW from \in SUBSET Models, NEW to \in SUBSET Models,
           NEW s \in InferDatabaseSteps(from, to)
    PROVE  Reached(from, s, Len(s)) = to
<1>1. ListsDifferences(s, from, to)
  BY InferDatabaseStepsProperty
<1>2. Touched(s, Len(s), "create") = to \ from
  <2>1. ASSUME NEW t \in Touched(s, Len(s), "create")
        PROVE  t \in to \ from
    <3>1. PICK i \in 1..Len(s) : s[i].op = "create" /\ t = s[i].table
      BY <2>1 DEF Touched
    <3>2. s[i] \in Creates(from, to) \cup Drops(from, to)
      BY <1>1 DEF ListsDifferences
    <3> QED
      BY <3>1, <3>2, SMTT(60) DEF Creates, Drops
  <2>2. ASSUME NEW t \in to \ from
        PROVE  t \in Touched(s, Len(s), "create")
    <3>1. [op |-> "create", table |-> t] \in Creates(from, to)
      BY <2>2 DEF Creates
    <3>2. PICK i \in 1..Len(s) : s[i] = [op |-> "create", table |-> t]
      BY <1>1, <3>1 DEF ListsDifferences
    <3>3. s[i].op = "create" /\ s[i].table = t
      BY <3>2, SMTT(60)
    <3> QED
      BY <3>3 DEF Touched
  <2> QED
    BY <2>1, <2>2
<1>3. Touched(s, Len(s), "drop") = from \ to
  <2>1. ASSUME NEW t \in Touched(s, Len(s), "drop")
        PROVE  t \in from \ to
    <3>1. PICK i \in 1..Len(s) : s[i].op = "drop" /\ t = s[i].table
      BY <2>1 DEF Touched
    <3>2. s[i] \in Creates(from, to) \cup Drops(from, to)
      BY <1>1 DEF ListsDifferences
    <3> QED
      BY <3>1, <3>2, SMTT(60) DEF Creates, Drops
  <2>2. ASSUME NEW t \in from \ to
        PROVE  t \in Touched(s, Len(s), "drop")
    <3>1. [op |-> "drop", table |-> t] \in Drops(from, to)
      BY <2>2 DEF Drops
    <3>2. PICK i \in 1..Len(s) : s[i] = [op |-> "drop", table |-> t]
      BY <1>1, <3>1 DEF ListsDifferences
    <3>3. s[i].op = "drop" /\ s[i].table = t
      BY <3>2, SMTT(60)
    <3> QED
      BY <3>3 DEF Touched
  <2> QED
    BY <2>1, <2>2
<1> QED
  BY <1>2, <1>3 DEF Reached

\* Executing the next step reaches the next schema: a table is not both created and
\* dropped by one migration, so the order of the steps does not matter.
LEMMA ReachedNext ==
    ASSUME NEW from \in SUBSET Models, NEW to \in SUBSET Models,
           NEW s \in InferDatabaseSteps(from, to), NEW k \in Nat, k < Len(s),
           db = Reached(from, s, k), Execute(s[k + 1])
    PROVE  db' = Reached(from, s, k + 1)
<1> DEFINE step == s[k + 1]
<1>1. /\ s \in Seq(DatabaseStep)
      /\ \A i \in 1..Len(s) : s[i] \in Creates(from, to) \cup Drops(from, to)
  BY InferDatabaseStepsProperty DEF ListsDifferences
<1>2. k + 1 \in 1..Len(s) /\ 1..(k + 1) = 1..k \cup {k + 1} /\ 1..k \subseteq 1..Len(s)
  BY <1>1, SMTT(60)
<1>3. step \in Creates(from, to) \cup Drops(from, to)
  BY <1>1, <1>2
<1>4. \A op : step.op = op => Touched(s, k + 1, op) = Touched(s, k, op) \cup {step.table}
  BY <1>2 DEF Touched
<1>5. \A op : step.op # op => Touched(s, k + 1, op) = Touched(s, k, op)
  BY <1>2 DEF Touched
<1>6. ASSUME NEW t \in Touched(s, k, "drop")
      PROVE  t \notin to
  <2>1. PICK i \in 1..k : s[i].op = "drop" /\ t = s[i].table
    BY <1>6 DEF Touched
  <2>2. s[i] \in Creates(from, to) \cup Drops(from, to)
    BY <1>1, <1>2
  <2> QED
    BY <2>1, <2>2, SMTT(60) DEF Creates, Drops
<1>7. CASE step \in Creates(from, to)
  <2>1. step.op = "create" /\ step.table \in to
    <3>1. PICK m \in to \ from : step = [op |-> "create", table |-> m]
      BY <1>7 DEF Creates
    <3> HIDE DEF step
    <3> QED
      BY <3>1
  <2>2. /\ Touched(s, k + 1, "create") = Touched(s, k, "create") \cup {step.table}
        /\ Touched(s, k + 1, "drop") = Touched(s, k, "drop")
        /\ db' = db \cup {step.table}
    BY <1>4, <1>5, <2>1 DEF Execute
  <2>3. step.table \notin Touched(s, k, "drop")
    BY <1>6, <2>1
  <2> HIDE DEF step
  <2> QED
    BY <2>2, <2>3 DEF Reached
<1>8. CASE step \in Drops(from, to)
  <2>1. step.op = "drop"
    <3>1. PICK m \in from \ to : step = [op |-> "drop", table |-> m]
      BY <1>8 DEF Drops
    <3> HIDE DEF step
    <3> QED
      BY <3>1
  <2>2. /\ Touched(s, k + 1, "create") = Touched(s, k, "create")
        /\ Touched(s, k + 1, "drop") = Touched(s, k, "drop") \cup {step.table}
        /\ db' = db \ {step.table}
    BY <1>4, <1>5, <2>1 DEF Execute
  <2> HIDE DEF step
  <2> QED
    BY <2>2 DEF Reached
<1> QED
  BY <1>3, <1>7, <1>8

--------------------------------------------------------------------------------
(* Success means that the database is what the datamodel says *)

Diffed == {"check", "create", "mark_in_progress", "forward", "forward_progress"}

\* The steps of a command were inferred from the database it described, and the
\* database is as far as the command's own steps have brought it.
DatabaseInStep(c) ==
    /\ c.pc \in Diffed => c.up \in InferDatabaseSteps(c.before, c.datamodel)
    /\ c.pc \in {"check", "create", "mark_in_progress"} => db = c.before
    /\ c.pc = "mark_in_progress" => c.step = 0
    /\ c.pc = "forward" => c.step <= Len(c.up) /\ db = Reached(c.before, c.up, c.step)
    /\ c.pc = "forward_progress" =>
          c.step + 1 < Len(c.up) /\ db = Reached(c.before, c.up, c.step + 1)
    /\ c.pc = "finish_ok" => db = c.datamodel
    /\ c.pc \in Recorded =>
          c.revision \in 1..Len(table) /\ table[c.revision].datamodel = c.datamodel

DatabaseInv == TypeOK /\ \A e \in Engines : DatabaseInStep(eng[e])

\* What SuccessMatchesDatabase says of one step.
SuccessStep == \A r \in 1..Len(table') : BecomesSuccess(r) => db' = table'[r].datamodel

\* Steps that mark no row successful.
LEMMA NoNewSuccess ==
    ASSUME TypeOK, NEW e \in Engines,
           \/ table' = table \/ table' = <<>>
           \/ \E status : status # "MigrationSuccess" /\ WritesRow(e, status)
           \/ Create(e)
    PROVE  SuccessStep
<1>0. Len(table) \in Nat
  BY SMTT(60) DEF TypeOK
<1>1. CASE table' = table
  BY <1>0, <1>1, SMTT(60) DEF SuccessStep, BecomesSuccess
<1>2. CASE table' = <<>>
  BY <1>2, SMTT(60) DEF SuccessStep
<1>3. ASSUME NEW status, status # "MigrationSuccess", WritesRow(e, status)
      PROVE  SuccessStep
  BY <1>0, <1>3, SMTT(60) DEF SuccessStep, BecomesSuccess, WritesRow
<1>4. CASE Create(e)
  <2>1. /\ Len(table') = Len(table) + 1
        /\ \A q \in 1..Len(table) : table'[q] = table[q]
        /\ table'[Len(table) + 1].status = "Pending"
    BY <1>4, CreateFacts
  <2> QED
    BY <1>0, <2>1, SMTT(60) DEF SuccessStep, BecomesSuccess
<1> QED
  BY <1>1, <1>2, <1>3, <1>4

\* Every step of the engine keeps the database where its command left it, and a row
\* becomes successful only when the last of its steps was executed.
LEMMA EngineDatabase ==
    ASSUME DatabaseInv, TypeOK', NEW e \in Engines,
           Accept(e) \/ Run(e) \/ Crash(e) \/ Restart(e)
    PROVE  DatabaseInStep(eng[e])' /\ SuccessStep
<1> USE DEF Diffed, Recorded
<1>0. /\ TypeOK /\ EnginesOK /\ eng[e] \in Command /\ DatabaseInStep(eng[e])
      /\ eng[e].before \in SUBSET Models /\ eng[e].datamodel \in SUBSET Models
      /\ eng[e].step \in Nat /\ eng[e].up \in Seq(DatabaseStep) /\ Len(eng[e].up) \in Nat
      /\ Len(table) \in Nat
  <2>1. TypeOK /\ DatabaseInStep(eng[e])
    BY DEF DatabaseInv
  <2> QED
    BY <2>1, FieldTypes
<1>1. eng'[e].pc \notin Diffed \cup Recorded => DatabaseInStep(eng[e])'
  BY DEF DatabaseInStep
<1>2. CASE Accept(e)
  BY <1>0, <1>1, <1>2, AcceptFacts, NoNewSuccess
<1>3. CASE ApplyLast(e) \/ CheckNotApplied(e) \/ UnapplyCheck(e)
  BY <1>0, <1>1, <1>3, ReadFacts, NoNewSuccess
<1>4. CASE handle_transition_out_of_watch_mode(e) \/ handle_normal_migration(e)
  <2>1. table' = table /\ \E base : Calculate(e, base)
    BY <1>4 DEF handle_transition_out_of_watch_mode, handle_normal_migration
  <2> QED
    BY <1>0, <1>1, <2>1, CalculateFacts, NoNewSuccess
<1>5. CASE Describe(e)
  <2>1. /\ eng'[e].pc = "check" /\ eng'[e].before = db /\ db' = db /\ table' = table
        /\ eng'[e].up \in InferDatabaseSteps(db, eng'[e].datamodel)
    BY <1>0, <1>5, DescribeFacts
  <2>2. DatabaseInStep(eng[e])'
    BY <2>1 DEF DatabaseInStep
  <2> QED
    BY <1>0, <2>1, <2>2, NoNewSuccess
<1>6. CASE DestructiveChangesCheck(e)
  <2>1. /\ eng[e].pc = "check" /\ db' = db /\ table' = table
        /\ eng'[e].pc = "idle" \/ (Kept(e) /\ eng'[e].pc = "create")
    BY <1>0, <1>6, ReadFacts
  <2>2. DatabaseInStep(eng[e])'
    BY <1>0, <2>1 DEF DatabaseInStep, Kept
  <2> QED
    BY <1>0, <2>1, <2>2, NoNewSuccess
<1>7. CASE Create(e)
  <2>1. /\ eng[e].pc = "create" /\ eng'[e].pc = "mark_in_progress" /\ db' = db
        /\ eng'[e].datamodel = eng[e].datamodel /\ eng'[e].before = eng[e].before
        /\ eng'[e].up = eng[e].up /\ eng'[e].revision = Len(table) + 1
        /\ eng'[e].step = 0
        /\ Len(table') = Len(table) + 1
        /\ table'[Len(table) + 1].datamodel = eng[e].datamodel
    BY <1>0, <1>7, CreateFacts
  <2>2. DatabaseInStep(eng[e])'
    BY <1>0, <2>1, SMTT(60) DEF DatabaseInStep
  <2> QED
    BY <1>0, <1>7, <2>2, NoNewSuccess
<1>8. CASE MarkInProgress(e)
  <2>1. /\ Kept(e) /\ eng[e].pc = "mark_in_progress" /\ eng'[e].pc = "forward"
        /\ eng'[e].step = eng[e].step /\ db' = db
        /\ WritesRow(e, "MigrationInProgress")
    BY <1>0, <1>8, MarkFacts
  <2>2. /\ eng[e].step = 0 /\ db = eng[e].before
        /\ Reached(eng[e].before, eng[e].up, 0) = eng[e].before
    BY <1>0, <2>1, ReachedStart DEF DatabaseInStep
  <2>3. DatabaseInStep(eng[e])'
    BY <1>0, <2>1, <2>2, SMTT(60) DEF DatabaseInStep, Kept, WritesRow
  <2> QED
    BY <1>0, <2>1, <2>3, NoNewSuccess
<1>9. CASE ApplyStep(e) \/ ApplyStepFails(e)
  <2> DEFINE c == eng[e]
  <2>1. /\ Kept(e) /\ c.pc = "forward" /\ eng'[e].step = c.step /\ table' = table
        /\ \/ /\ eng'[e].pc = "forward_progress"
              /\ Executes(c, c.up) /\ c.step + 1 < Len(c.up)
           \/ /\ eng'[e].pc = "finish_ok"
              /\ Executes(c, c.up) /\ ~ (c.step + 1 < Len(c.up))
           \/ /\ eng'[e].pc = "finish_ok" /\ ~ (c.step < Len(c.up)) /\ db' = db
           \/ eng'[e].pc = "finish_err"
    BY <1>0, <1>9, ApplyStepFacts
  <2>2. /\ c.up \in InferDatabaseSteps(c.before, c.datamodel)
        /\ c.step <= Len(c.up) /\ db = Reached(c.before, c.up, c.step)
    BY <1>0, <2>1 DEF DatabaseInStep
  <2>3. Executes(c, c.up) => db' = Reached(c.before, c.up, c.step + 1)
    BY <1>0, <2>2, ReachedNext DEF Executes
  <2>4. Reached(c.before, c.up, Len(c.up)) = c.datamodel
    BY <1>0, <2>2, ReachedEnd
  <2>5. eng'[e].pc = "finish_ok" => db' = c.datamodel
    <3>1. ASSUME Executes(c, c.up), ~ (c.step + 1 < Len(c.up))
          PROVE  db' = c.datamodel
      <4>1. c.step + 1 = Len(c.up)
        BY <1>0, <3>1, SMTT(60) DEF Executes
      <4> QED
        BY <2>3, <2>4, <3>1, <4>1
    <3>2. ASSUME ~ (c.step < Len(c.up)), db' = db
          PROVE  db' = c.datamodel
      <4>1. c.step = Len(c.up)
        BY <1>0, <2>2, <3>2, SMTT(60)
      <4> QED
        BY <2>2, <2>4, <3>2, <4>1
    <3> QED
      BY <2>1, <3>1, <3>2
  <2>6. DatabaseInStep(eng[e])'
    BY <1>0, <2>1, <2>2, <2>3, <2>5 DEF DatabaseInStep, Kept
  <2> QED
    BY <1>0, <2>1, <2>6, NoNewSuccess
<1>10. CASE ForwardProgress(e)
  <2>1. /\ Kept(e) /\ eng[e].pc = "forward_progress"
        /\ eng'[e].pc \in {"forward", "finish_err"}
        /\ eng'[e].step = eng[e].step + 1 /\ db' = db
        /\ table' = table \/ WritesRow(e, "MigrationInProgress")
    BY <1>0, <1>10, ForwardProgressFacts
  <2>2. DatabaseInStep(eng[e])'
    BY <1>0, <2>1, SMTT(60) DEF DatabaseInStep, Kept, WritesRow
  <2> QED
    BY <1>0, <2>1, <2>2, NoNewSuccess
<1>11. CASE FinishApply(e)
  <2>1. /\ eng'[e].pc = "idle" /\ db' = db
        /\ \/ eng[e].pc = "finish_ok" /\ WritesRow(e, "MigrationSuccess")
           \/ eng[e].pc = "finish_err" /\ WritesRow(e, "MigrationFailure")
    BY <1>0, <1>11, MarkFacts
  <2>2. CASE eng[e].pc = "finish_ok" /\ WritesRow(e, "MigrationSuccess")
    BY <1>0, <1>1, <2>1, <2>2, SMTT(60)
       DEF SuccessStep, BecomesSuccess, WritesRow, DatabaseInStep
  <2>3. CASE WritesRow(e, "MigrationFailure")
    BY <1>0, <1>1, <2>1, <2>3, NoNewSuccess
  <2> QED
    BY <2>1, <2>2, <2>3
<1>12. CASE UnapplyLast(e)
  BY <1>0, <1>1, <1>12, UnapplyLastFacts, NoNewSuccess
<1>13. CASE MarkRollingBack(e) \/ FinishUnapply(e)
  BY <1>0, <1>1, <1>13, MarkFacts, NoNewSuccess
<1>14. CASE UnapplyStep(e) \/ UnapplyStepFails(e)
  BY <1>0, <1>1, <1>14, UnapplyStepFacts, NoNewSuccess
<1>15. CASE BackwardProgress(e)
  BY <1>0, <1>1, <1>15, BackwardProgressFacts, NoNewSuccess
<1>16. CASE ResetRows(e) \/ ResetDrop(e)
  BY <1>0, <1>1, <1>16, ResetFacts, NoNewSuccess
<1>17. CASE CommandFails(e) \/ CreatePanics(e) \/ Crash(e) \/ Restart(e) \/ ResetInit(e)
  BY <1>0, <1>1, <1>17, EndFacts, NoNewSuccess
<1> QED
  BY <1>2, <1>3, <1>4, <1>5, <1>6, <1>7, <1>8, <1>9, <1>10, <1>11, <1>12, <1>13, <1>14,
     <1>15, <1>16, <1>17 DEF Run

\* With one engine nobody else moves the database under a command.
LEMMA DatabaseInvStep ==
    ASSUME OneEngine
    PROVE  DatabaseInv /\ [Next]_vars => DatabaseInv' /\ [SuccessStep]_vars
<1> SUFFICES ASSUME DatabaseInv, [Next]_vars
             PROVE  DatabaseInv' /\ [SuccessStep]_vars
  OBVIOUS
<1>0. TypeOK /\ TypeOK'
  BY TypeStep DEF DatabaseInv
<1>1. ASSUME NEW e \in Engines, Accept(e) \/ Run(e) \/ Crash(e) \/ Restart(e)
      PROVE  DatabaseInv' /\ SuccessStep
  <2>1. DatabaseInStep(eng[e])' /\ SuccessStep
    BY <1>0, <1>1, EngineDatabase
  <2>2. \A f \in Engines : f = e
    BY DEF OneEngine
  <2> QED
    BY <1>0, <2>1, <2>2 DEF DatabaseInv
<1>2. CASE Drift \/ Insert
  <2>1. eng' = eng /\ table' = table /\ (Quiet \/ db' = db)
    BY <1>2 DEF Drift, Insert
  <2>2. DatabaseInv'
    BY <1>0, <2>1 DEF DatabaseInv, DatabaseInStep, Quiet, Diffed, Recorded
  <2> QED
    BY <1>0, <2>1, <2>2, SMTT(60) DEF SuccessStep, BecomesSuccess, TypeOK
<1>3. CASE UNCHANGED vars
  BY <1>0, <1>3 DEF vars, DatabaseInv, DatabaseInStep
<1> QED
  BY <1>1, <1>2, <1>3 DEF Next

\* SuccessMatchesDatabase: with one engine a migration is marked successful only
\* when the database is exactly what its datamodel says, whatever the database was
\* when the command began, and whichever crashes, failed queries, foreign changes
\* and resets came before.
THEOREM SuccessIsTrue ==
    ASSUME OneEngine
    PROVE  Spec => SuccessMatchesDatabase
<1>1. Init => DatabaseInv
  <2>1. Init => \A e \in Engines : eng[e].pc = "idle"
    BY SMTT(60) DEF Init, Blank
  <2> QED
    BY <2>1, TypeInit DEF DatabaseInv, DatabaseInStep, Diffed, Recorded
<1> QED
  BY <1>1, DatabaseInvStep, PTL DEF Spec, SuccessMatchesDatabase, SuccessStep
=============================================================================
