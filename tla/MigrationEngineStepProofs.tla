---------------------- MODULE MigrationEngineStepProofs ----------------------
(***************************************************************************)
(* What each step of a command does to the engine that takes it, to the    *)
(* _Migration table and to the database, stated once for the proofs that   *)
(* build on it; and three theorems that need little more: no table with    *)
(* data is dropped silently, an idle engine finds the _Migration table,    *)
(* and a command never goes back or loops.                                 *)
(***************************************************************************)
EXTENDS MigrationEngineTypeProofs

USE ZenonT(60)

--------------------------------------------------------------------------------
(* The shapes of steps *)

\* A command that works on a row of the _Migration table: to apply it, to undo it.
Recorded == {"mark_in_progress", "forward", "forward_progress", "finish_ok", "finish_err"}
Unapplying == {"unapply_check", "mark_rolling_back", "backward", "backward_progress",
               "rollback_ok", "rollback_err"}

\* None of the rows of tab after r is a successful migration.
NewestIs(tab, r) == \A q \in (r + 1)..Len(tab) : tab[q].status # "MigrationSuccess"

\* Only engine e takes a step.
Others(e) == \A f \in Engines \ {e} : eng'[f] = eng[f]

\* The command of e goes on with the same request, plan of steps and row.
Kept(e) ==
    /\ Others(e)
    /\ eng'[e].name = eng[e].name /\ eng'[e].force = eng[e].force
    /\ eng'[e].target = eng[e].target /\ eng'[e].datamodel = eng[e].datamodel
    /\ eng'[e].before = eng[e].before
    /\ eng'[e].up = eng[e].up /\ eng'[e].down = eng[e].down
    /\ eng'[e].revision = eng[e].revision

\* It does not look at the data again.
SeenKept(e) == eng'[e].seen = eng[e].seen

\* An UPDATE of the row the command of e works on, if it is there.
WritesRow(e, status) ==
    /\ Len(table') = Len(table)
    /\ \A q \in 1..Len(table) :
          /\ table'[q].name = table[q].name
          /\ table'[q].datamodel = table[q].datamodel
          /\ table'[q].before = table[q].before
          /\ table'[q].up = table[q].up /\ table'[q].down = table[q].down
          /\ q = eng[e].revision /\ table[q].name = eng[e].name => table'[q].status = status
          /\ q # eng[e].revision \/ table[q].name # eng[e].name
             => table'[q].status = table[q].status

\* A database step was executed: it is the one after the steps that c counts.
Executes(c, steps) == c.step < Len(steps) /\ Execute(steps[c.step + 1])

\* last is 0 or a successful migration, and no successful one is newer.
LEMMA LastIsNewest ==
    ASSUME table \in Seq(Row)
    PROVE  /\ last = 0 \/ (last \in 1..Len(table) /\ table[last].status = "MigrationSuccess")
           /\ NewestIs(table, last)
<1> DEFINE S == {r \in 1..Len(table) : table[r].status = "MigrationSuccess"}
<1>1. Len(table) \in Nat /\ S \in SUBSET (1..Len(table)) /\ last = Newest(S)
  BY SMTT(60) DEF last
<1>2. last = 0 \/ (last \in 1..Len(table) /\ table[last].status = "MigrationSuccess")
  BY LastInTable
<1>3. \A s \in S : s <= last
  <2>1. CASE S = {}
    BY <2>1
  <2>2. CASE S # {}
    BY <1>1, <2>2, NewestProperty
  <2> QED
    BY <2>1, <2>2
<1>4. ASSUME NEW q \in (last + 1)..Len(table)
      PROVE  table[q].status # "MigrationSuccess"
  <2>1. q \in 1..Len(table) /\ ~ (q <= last)
    BY <1>1, <1>2, SMTT(60)
  <2> QED
    BY <1>3, <2>1
<1> QED
  BY <1>2, <1>4 DEF NewestIs

\* The types of what a command carries.
LEMMA FieldTypes ==
    ASSUME TypeOK, NEW e \in Engines
    PROVE  /\ EnginesOK /\ eng[e] \in Command
           /\ eng[e].before \in SUBSET Models /\ eng[e].datamodel \in SUBSET Models
           /\ eng[e].up \in Seq(DatabaseStep) /\ eng[e].down \in Seq(DatabaseStep)
           /\ eng[e].step \in Nat /\ eng[e].revision \in Nat
           /\ Len(eng[e].up) \in Nat /\ Len(eng[e].down) \in Nat
           /\ Len(table) \in Nat
<1>1. EnginesOK /\ eng[e] \in Command /\ table \in Seq(Row)
  BY DEF TypeOK, EnginesOK
<1> QED
  BY <1>1, SMTT(60) DEF Command

\* A step within a command.
LEMMA GotoKeeps ==
    ASSUME EnginesOK, NEW e \in Engines, NEW pc, Goto(e, pc)
    PROVE  /\ Kept(e) /\ SeenKept(e) /\ eng'[e].pc = pc
           /\ eng'[e].step = eng[e].step /\ eng'[e].steps = eng[e].steps
<1>1. eng[e] \in Command
  BY DEF EnginesOK
<1> QED
  BY <1>1 DEF Goto, EnginesOK, Command, Kept, SeenKept, Others

\* The step behind the destructive changes check.
LEMMA PassCheckKeeps ==
    ASSUME EnginesOK, NEW e \in Engines, NEW pc, PassCheck(e, pc)
    PROVE  /\ Kept(e) /\ eng'[e].pc = pc /\ eng'[e].seen = filled
           /\ eng'[e].step = eng[e].step
<1>1. eng[e] \in Command
  BY DEF EnginesOK
<1> QED
  BY <1>1 DEF PassCheck, EnginesOK, Command, Kept, Others

\* The end of a command, and of a process.
LEMMA BlankEnds ==
    ASSUME EnginesOK, NEW e \in Engines, NEW pc, eng' = [eng EXCEPT ![e] = Blank(pc)]
    PROVE  /\ Others(e) /\ eng'[e].pc = pc
           /\ eng'[e].target = {} /\ eng'[e].revision = 0
BY DEF EnginesOK, Blank, Others

\* UPDATE ... WHERE name = .. AND revision = ..
LEMMA UpdatedWrites ==
    ASSUME table \in Seq(Row), NEW e \in Engines, NEW c \in Command, NEW status,
           c.name = eng[e].name, c.revision = eng[e].revision,
           table' = Updated(c, status)
    PROVE  WritesRow(e, status)
<1> DEFINE r == c.revision
           row == [table[r] EXCEPT !.status = status, !.applied = c.applied,
                                   !.rolled_back = c.rolled_back]
<1>1. CASE r \in 1..Len(table) /\ table[r].name = c.name
  <2>1. table[r] \in Row
    BY <1>1, SMTT(60)
  <2>2. table' = [table EXCEPT ![r] = row]
    BY <1>1, <2>1 DEF Updated, Row
  <2>3. /\ row.status = status /\ row.name = table[r].name
        /\ row.datamodel = table[r].datamodel /\ row.before = table[r].before
        /\ row.up = table[r].up /\ row.down = table[r].down
    BY <2>1 DEF Row
  <2> HIDE DEF row
  <2>4. /\ Len(table') = Len(table) /\ table'[r] = row
        /\ \A q \in 1..Len(table) : q # r => table'[q] = table[q]
    BY <1>1, <2>2, SMTT(60)
  <2> QED
    BY <1>1, <2>3, <2>4 DEF WritesRow
<1>2. CASE ~ (r \in 1..Len(table) /\ table[r].name = c.name)
  <2>1. table' = table
    BY <1>2 DEF Updated
  <2> QED
    BY <1>2, <2>1 DEF WritesRow
<1> QED
  BY <1>1, <1>2

--------------------------------------------------------------------------------
(* The steps of a command that migrates *)

\* The inferrer describes the database and diffs it both ways.
LEMMA DescribeFacts ==
    ASSUME TypeOK, NEW e \in Engines, Describe(e)
    PROVE  /\ Others(e) /\ eng[e].pc = "describe" /\ eng'[e].pc = "check"
           /\ eng'[e].name = eng[e].name /\ eng'[e].force = eng[e].force
           /\ eng'[e].target = eng[e].target /\ eng'[e].datamodel = eng[e].datamodel
           /\ eng'[e].revision = eng[e].revision
           /\ eng'[e].before = db
           /\ eng'[e].up \in InferDatabaseSteps(db, eng[e].datamodel)
           /\ eng'[e].down \in InferDatabaseSteps(eng[e].datamodel, db)
           /\ UNCHANGED <<table, exists, db, filled, plan>>
<1>1. eng[e] \in Command /\ eng \in [Engines -> Command]
  BY DEF TypeOK, EnginesOK
<1>2. /\ eng[e].pc = "describe"
      /\ UNCHANGED <<table, exists, db, filled, plan>>
      /\ \E up \in InferDatabaseSteps(db, eng[e].datamodel),
            down \in InferDatabaseSteps(eng[e].datamodel, db) :
              eng' = [eng EXCEPT ![e].pc = "check", ![e].before = db,
                                 ![e].up = up, ![e].down = down]
  BY DEF Describe, At
<1>3. PICK up \in InferDatabaseSteps(db, eng[e].datamodel),
            down \in InferDatabaseSteps(eng[e].datamodel, db) :
              eng' = [eng EXCEPT ![e].pc = "check", ![e].before = db,
                                 ![e].up = up, ![e].down = down]
  BY <1>2
<1>4. /\ Others(e) /\ eng'[e].pc = "check"
      /\ eng'[e].name = eng[e].name /\ eng'[e].force = eng[e].force
      /\ eng'[e].target = eng[e].target /\ eng'[e].datamodel = eng[e].datamodel
      /\ eng'[e].revision = eng[e].revision
      /\ eng'[e].before = db /\ eng'[e].up = up /\ eng'[e].down = down
  BY <1>1, <1>3 DEF Command, Others
<1> QED
  BY <1>2, <1>3, <1>4

\* The next datamodel is computed, or the steps are refused.
LEMMA CalculateFacts ==
    ASSUME EnginesOK, NEW e \in Engines, NEW base, Calculate(e, base)
    PROVE  /\ Others(e)
           /\ \/ eng'[e].pc = "idle"
              \/ /\ eng'[e].pc = "describe"
                 /\ eng'[e].name = eng[e].name /\ eng'[e].force = eng[e].force
                 /\ eng'[e].target = eng[e].target
                 /\ eng'[e].revision = eng[e].revision
                 /\ eng'[e].datamodel =
                       CalculateDatamodel(DatamodelAt(base), eng[e].steps)
<1>1. eng[e] \in Command /\ eng \in [Engines -> Command]
  BY DEF EnginesOK
<1>2. CASE Return(e)
  BY <1>2, BlankEnds DEF Return
<1>3. CASE eng' = [eng EXCEPT ![e].pc = "describe", ![e].steps = NoSteps,
                              ![e].datamodel =
                                 CalculateDatamodel(DatamodelAt(base), eng[e].steps)]
  <2> DEFINE next == CalculateDatamodel(DatamodelAt(base), eng[e].steps)
  <2>1. eng' = [eng EXCEPT ![e].pc = "describe", ![e].steps = NoSteps,
                           ![e].datamodel = next]
    BY <1>3
  <2> HIDE DEF next
  <2>2. /\ Others(e) /\ eng'[e].pc = "describe"
        /\ eng'[e].name = eng[e].name /\ eng'[e].force = eng[e].force
        /\ eng'[e].target = eng[e].target /\ eng'[e].revision = eng[e].revision
        /\ eng'[e].datamodel = next
    BY <1>1, <2>1 DEF Command, Others
  <2> QED
    BY <2>2 DEF next
<1> QED
  BY <1>2, <1>3 DEF Calculate

\* A pending row is appended, with what the applier will need.
LEMMA CreateFacts ==
    ASSUME TypeOK, NEW e \in Engines, Create(e)
    PROVE  LET n == Len(table) + 1
           IN  /\ Others(e) /\ eng[e].pc = "create" /\ eng'[e].pc = "mark_in_progress"
               /\ eng'[e].name = eng[e].name /\ eng'[e].force = eng[e].force
               /\ eng'[e].target = eng[e].target /\ eng'[e].datamodel = eng[e].datamodel
               /\ eng'[e].before = eng[e].before
               /\ eng'[e].up = eng[e].up /\ eng'[e].down = eng[e].down
               /\ eng'[e].revision = n /\ eng'[e].step = 0 /\ SeenKept(e)
               /\ Len(table') = n
               /\ \A q \in 1..Len(table) : table'[q] = table[q]
               /\ table'[n].name = eng[e].name /\ table'[n].status = "Pending"
               /\ table'[n].datamodel = eng[e].datamodel
               /\ table'[n].before = eng[e].before
               /\ table'[n].up = eng[e].up /\ table'[n].down = eng[e].down
               /\ UNCHANGED <<exists, db, filled, plan>>
<1> DEFINE n == Len(table) + 1
           row == [name |-> eng[e].name, status |-> "Pending", applied |-> 0,
                   rolled_back |-> 0, datamodel |-> eng[e].datamodel,
                   before |-> eng[e].before, up |-> eng[e].up, down |-> eng[e].down]
<1>1. /\ eng[e] \in Command /\ eng \in [Engines -> Command]
      /\ table \in Seq(Row)
  BY DEF TypeOK, EnginesOK
<1>2. /\ eng[e].pc = "create" /\ UNCHANGED <<exists, db, filled, plan>>
      /\ table' = Append(table, row)
      /\ eng' = [eng EXCEPT ![e].pc = "mark_in_progress", ![e].step = 0,
                            ![e].revision = n, ![e].applied = 0, ![e].rolled_back = 0]
  BY DEF Create, At
<1>3. /\ Others(e) /\ eng'[e].pc = "mark_in_progress"
      /\ eng'[e].name = eng[e].name /\ eng'[e].force = eng[e].force
      /\ eng'[e].target = eng[e].target /\ eng'[e].datamodel = eng[e].datamodel
      /\ eng'[e].before = eng[e].before
      /\ eng'[e].up = eng[e].up /\ eng'[e].down = eng[e].down
      /\ eng'[e].revision = n /\ eng'[e].step = 0 /\ SeenKept(e)
  BY <1>1, <1>2 DEF Command, Others, SeenKept
<1>4. /\ row.name = eng[e].name /\ row.status = "Pending"
      /\ row.datamodel = eng[e].datamodel /\ row.before = eng[e].before
      /\ row.up = eng[e].up /\ row.down = eng[e].down
  OBVIOUS
<1> HIDE DEF row
<1>5. Len(table') = n /\ table'[n] = row /\ \A q \in 1..Len(table) : table'[q] = table[q]
  BY <1>1, <1>2, SMTT(60)
<1> QED
  BY <1>2, <1>3, <1>4, <1>5

--------------------------------------------------------------------------------
(* The steps of MigrationApplier *)

\* apply_next_step executes one up step, or none is left, or it fails.
LEMMA ApplyStepFacts ==
    ASSUME TypeOK, NEW e \in Engines, ApplyStep(e) \/ ApplyStepFails(e)
    PROVE  /\ Kept(e) /\ SeenKept(e)
           /\ eng[e].pc = "forward" /\ eng'[e].step = eng[e].step
           /\ \/ /\ eng'[e].pc = "forward_progress"
                 /\ Executes(eng[e], eng[e].up) /\ eng[e].step + 1 < Len(eng[e].up)
              \/ /\ eng'[e].pc = "finish_ok"
                 /\ Executes(eng[e], eng[e].up) /\ ~ (eng[e].step + 1 < Len(eng[e].up))
              \/ /\ eng'[e].pc = "finish_ok" /\ ~ (eng[e].step < Len(eng[e].up))
                 /\ db' = db /\ filled' = filled
              \/ /\ eng'[e].pc = "finish_err"
                 /\ \/ Executes(eng[e], eng[e].up)
                    \/ db' = db /\ filled' = filled
           /\ UNCHANGED <<table, exists, plan>>
<1>1. EnginesOK
  BY DEF TypeOK
<1>2. /\ eng[e].pc = "forward" /\ UNCHANGED <<table, exists, plan>>
      /\ \/ /\ Goto(e, "forward_progress")
            /\ Executes(eng[e], eng[e].up) /\ eng[e].step + 1 < Len(eng[e].up)
         \/ /\ Goto(e, "finish_ok")
            /\ Executes(eng[e], eng[e].up) /\ ~ (eng[e].step + 1 < Len(eng[e].up))
         \/ /\ Goto(e, "finish_ok") /\ ~ (eng[e].step < Len(eng[e].up))
            /\ db' = db /\ filled' = filled
         \/ /\ Goto(e, "finish_err")
            /\ \/ Executes(eng[e], eng[e].up)
               \/ db' = db /\ filled' = filled
  <2>1. CASE ApplyStep(e)
    <3>1. CASE ~ (eng[e].step < Len(eng[e].up))
      BY <2>1, <3>1 DEF ApplyStep, At
    <3>2. CASE eng[e].step < Len(eng[e].up) /\ eng[e].step + 1 < Len(eng[e].up)
      BY <2>1, <3>2 DEF ApplyStep, At, Executes
    <3>3. CASE eng[e].step < Len(eng[e].up) /\ ~ (eng[e].step + 1 < Len(eng[e].up))
      BY <2>1, <3>3 DEF ApplyStep, At, Executes
    <3> QED
      BY <3>1, <3>2, <3>3
  <2>2. CASE ApplyStepFails(e)
    BY <2>2 DEF ApplyStepFails, At, Executes
  <2> QED
    BY <2>1, <2>2
<1> QED
  BY <1>1, <1>2, GotoKeeps

\* go_forward counts the step and writes the count to its row.
LEMMA ForwardProgressFacts ==
    ASSUME TypeOK, NEW e \in Engines, ForwardProgress(e)
    PROVE  /\ Kept(e) /\ SeenKept(e) /\ eng[e].pc = "forward_progress"
           /\ eng'[e].pc \in {"forward", "finish_err"}
           /\ eng'[e].step = eng[e].step + 1
           /\ table' = table \/ WritesRow(e, "MigrationInProgress")
           /\ UNCHANGED <<exists, db, filled, plan>>
<1> DEFINE c == [eng[e] EXCEPT !.step = @ + 1, !.applied = @ + 1]
<1>1. /\ eng[e] \in Command /\ eng \in [Engines -> Command] /\ table \in Seq(Row)
  BY DEF TypeOK, EnginesOK
<1>2. /\ eng[e].pc = "forward_progress"
      /\ table' = table \/ table' = Updated(c, "MigrationInProgress")
      /\ \/ eng' = [eng EXCEPT ![e] = [c EXCEPT !.pc = "forward"]]
         \/ eng' = [eng EXCEPT ![e] = [c EXCEPT !.pc = "finish_err"]]
      /\ UNCHANGED <<exists, db, filled, plan>>
  BY DEF ForwardProgress, At
<1>3. /\ c \in Command /\ c.name = eng[e].name /\ c.revision = eng[e].revision
      /\ c.force = eng[e].force /\ c.target = eng[e].target
      /\ c.datamodel = eng[e].datamodel /\ c.before = eng[e].before
      /\ c.up = eng[e].up /\ c.down = eng[e].down /\ c.step = eng[e].step + 1
      /\ c.seen = eng[e].seen
  <2>1. c = [eng[e] EXCEPT !.step = eng[e].step + 1, !.applied = eng[e].applied + 1]
    BY <1>1 DEF Command
  <2>2. eng[e].step + 1 \in Nat /\ eng[e].applied + 1 \in Nat
    BY <1>1, SMTT(60) DEF Command
  <2>3. c \in Command
    BY <1>1, <2>1, <2>2 DEF Command
  <2> QED
    BY <1>1, <2>3 DEF Command
<1> HIDE DEF c
<1>4. /\ Kept(e) /\ SeenKept(e) /\ eng'[e].pc \in {"forward", "finish_err"}
      /\ eng'[e].step = eng[e].step + 1
  <2>1. PICK pc \in {"forward", "finish_err"} : eng' = [eng EXCEPT ![e] = [c EXCEPT !.pc = pc]]
    BY <1>2
  <2> DEFINE d == [c EXCEPT !.pc = pc]
  <2>2. /\ d.pc = pc /\ d.name = c.name /\ d.revision = c.revision
        /\ d.force = c.force /\ d.target = c.target
        /\ d.datamodel = c.datamodel /\ d.before = c.before
        /\ d.up = c.up /\ d.down = c.down /\ d.step = c.step /\ d.seen = c.seen
    BY <1>3 DEF Command
  <2> HIDE DEF d
  <2>3. eng'[e] = d /\ Others(e)
    BY <1>1, <2>1 DEF Others, d
  <2> QED
    BY <1>3, <2>2, <2>3 DEF Kept, SeenKept
<1>5. table' = table \/ WritesRow(e, "MigrationInProgress")
  BY <1>1, <1>2, <1>3, UpdatedWrites
<1> QED
  BY <1>2, <1>4, <1>5

\* unapply_next_step executes one down step, or none is left, or it fails.
LEMMA UnapplyStepFacts ==
    ASSUME TypeOK, NEW e \in Engines, UnapplyStep(e) \/ UnapplyStepFails(e)
    PROVE  /\ Kept(e) /\ SeenKept(e)
           /\ eng[e].pc = "backward" /\ eng'[e].step = eng[e].step
           /\ \/ /\ eng'[e].pc = "backward_progress"
                 /\ Executes(eng[e], eng[e].down) /\ eng[e].step + 1 < Len(eng[e].down)
              \/ /\ eng'[e].pc = "rollback_ok"
                 /\ Executes(eng[e], eng[e].down) /\ ~ (eng[e].step + 1 < Len(eng[e].down))
              \/ /\ eng'[e].pc = "rollback_ok" /\ ~ (eng[e].step < Len(eng[e].down))
                 /\ db' = db /\ filled' = filled
              \/ /\ eng'[e].pc = "rollback_err"
                 /\ \/ Executes(eng[e], eng[e].down)
                    \/ db' = db /\ filled' = filled
           /\ UNCHANGED <<table, exists, plan>>
<1>1. EnginesOK
  BY DEF TypeOK
<1>2. /\ eng[e].pc = "backward" /\ UNCHANGED <<table, exists, plan>>
      /\ \/ /\ Goto(e, "backward_progress")
            /\ Executes(eng[e], eng[e].down) /\ eng[e].step + 1 < Len(eng[e].down)
         \/ /\ Goto(e, "rollback_ok")
            /\ Executes(eng[e], eng[e].down) /\ ~ (eng[e].step + 1 < Len(eng[e].down))
         \/ /\ Goto(e, "rollback_ok") /\ ~ (eng[e].step < Len(eng[e].down))
            /\ db' = db /\ filled' = filled
         \/ /\ Goto(e, "rollback_err")
            /\ \/ Executes(eng[e], eng[e].down)
               \/ db' = db /\ filled' = filled
  <2>1. CASE UnapplyStep(e)
    <3>1. CASE ~ (eng[e].step < Len(eng[e].down))
      BY <2>1, <3>1 DEF UnapplyStep, At
    <3>2. CASE eng[e].step < Len(eng[e].down) /\ eng[e].step + 1 < Len(eng[e].down)
      BY <2>1, <3>2 DEF UnapplyStep, At, Executes
    <3>3. CASE eng[e].step < Len(eng[e].down) /\ ~ (eng[e].step + 1 < Len(eng[e].down))
      BY <2>1, <3>3 DEF UnapplyStep, At, Executes
    <3> QED
      BY <3>1, <3>2, <3>3
  <2>2. CASE UnapplyStepFails(e)
    BY <2>2 DEF UnapplyStepFails, At, Executes
  <2> QED
    BY <2>1, <2>2
<1> QED
  BY <1>1, <1>2, GotoKeeps

\* go_backward counts the step and writes the count to its row.
LEMMA BackwardProgressFacts ==
    ASSUME TypeOK, NEW e \in Engines, BackwardProgress(e)
    PROVE  /\ Kept(e) /\ SeenKept(e) /\ eng[e].pc = "backward_progress"
           /\ eng'[e].pc \in {"backward", "rollback_err"}
           /\ eng'[e].step = eng[e].step + 1
           /\ table' = table \/ WritesRow(e, "RollingBack")
           /\ UNCHANGED <<exists, db, filled, plan>>
<1> DEFINE c == [eng[e] EXCEPT !.step = @ + 1, !.rolled_back = @ + 1]
<1>1. /\ eng[e] \in Command /\ eng \in [Engines -> Command] /\ table \in Seq(Row)
  BY DEF TypeOK, EnginesOK
<1>2. /\ eng[e].pc = "backward_progress"
      /\ table' = table \/ table' = Updated(c, "RollingBack")
      /\ \/ eng' = [eng EXCEPT ![e] = [c EXCEPT !.pc = "backward"]]
         \/ eng' = [eng EXCEPT ![e] = [c EXCEPT !.pc = "rollback_err"]]
      /\ UNCHANGED <<exists, db, filled, plan>>
  BY DEF BackwardProgress, At
<1>3. /\ c \in Command /\ c.name = eng[e].name /\ c.revision = eng[e].revision
      /\ c.force = eng[e].force /\ c.target = eng[e].target
      /\ c.datamodel = eng[e].datamodel /\ c.before = eng[e].before
      /\ c.up = eng[e].up /\ c.down = eng[e].down /\ c.step = eng[e].step + 1
      /\ c.seen = eng[e].seen
  <2>1. c = [eng[e] EXCEPT !.step = eng[e].step + 1, !.rolled_back = eng[e].rolled_back + 1]
    BY <1>1 DEF Command
  <2>2. eng[e].step + 1 \in Nat /\ eng[e].rolled_back + 1 \in Nat
    BY <1>1, SMTT(60) DEF Command
  <2>3. c \in Command
    BY <1>1, <2>1, <2>2 DEF Command
  <2> QED
    BY <1>1, <2>3 DEF Command
<1> HIDE DEF c
<1>4. /\ Kept(e) /\ SeenKept(e) /\ eng'[e].pc \in {"backward", "rollback_err"}
      /\ eng'[e].step = eng[e].step + 1
  <2>1. PICK pc \in {"backward", "rollback_err"} : eng' = [eng EXCEPT ![e] = [c EXCEPT !.pc = pc]]
    BY <1>2
  <2> DEFINE d == [c EXCEPT !.pc = pc]
  <2>2. /\ d.pc = pc /\ d.name = c.name /\ d.revision = c.revision
        /\ d.force = c.force /\ d.target = c.target
        /\ d.datamodel = c.datamodel /\ d.before = c.before
        /\ d.up = c.up /\ d.down = c.down /\ d.step = c.step /\ d.seen = c.seen
    BY <1>3 DEF Command
  <2> HIDE DEF d
  <2>3. eng'[e] = d /\ Others(e)
    BY <1>1, <2>1 DEF Others, d
  <2> QED
    BY <1>3, <2>2, <2>3 DEF Kept, SeenKept
<1>5. table' = table \/ WritesRow(e, "RollingBack")
  BY <1>1, <1>2, <1>3, UpdatedWrites
<1> QED
  BY <1>2, <1>4, <1>5

\* The row of a migration is marked before its first step and after its last one.
LEMMA MarkFacts ==
    ASSUME TypeOK, NEW e \in Engines
    PROVE  /\ MarkInProgress(e) =>
                 /\ Kept(e) /\ SeenKept(e)
                 /\ eng[e].pc = "mark_in_progress" /\ eng'[e].pc = "forward"
                 /\ eng'[e].step = eng[e].step
                 /\ WritesRow(e, "MigrationInProgress")
                 /\ UNCHANGED <<exists, db, filled, plan>>
           /\ MarkRollingBack(e) =>
                 /\ Kept(e) /\ SeenKept(e)
                 /\ eng[e].pc = "mark_rolling_back" /\ eng'[e].pc = "backward"
                 /\ eng'[e].step = eng[e].step
                 /\ WritesRow(e, "RollingBack")
                 /\ UNCHANGED <<exists, db, filled, plan>>
           /\ FinishApply(e) =>
                 /\ Others(e) /\ eng'[e].pc = "idle" /\ eng'[e].target = {}
                 /\ \/ eng[e].pc = "finish_ok" /\ WritesRow(e, "MigrationSuccess")
                    \/ eng[e].pc = "finish_err" /\ WritesRow(e, "MigrationFailure")
                 /\ UNCHANGED <<exists, db, filled, plan>>
           /\ FinishUnapply(e) =>
                 /\ Others(e) /\ eng'[e].pc = "idle" /\ eng'[e].target = {}
                 /\ \/ eng[e].pc = "rollback_ok" /\ WritesRow(e, "RollbackSuccess")
                    \/ eng[e].pc = "rollback_err" /\ WritesRow(e, "RollbackFailure")
                 /\ UNCHANGED <<exists, db, filled, plan>>
<1>1. EnginesOK /\ eng[e] \in Command /\ table \in Seq(Row)
  BY DEF TypeOK, EnginesOK
<1>2. ASSUME NEW status, table' = Updated(eng[e], status)
      PROVE  WritesRow(e, status)
  BY <1>1, <1>2, UpdatedWrites
<1>3. Return(e) => Others(e) /\ eng'[e].pc = "idle" /\ eng'[e].target = {}
  BY <1>1, BlankEnds DEF Return
<1>4. ASSUME MarkInProgress(e)
      PROVE  /\ Kept(e) /\ SeenKept(e)
             /\ eng[e].pc = "mark_in_progress" /\ eng'[e].pc = "forward"
             /\ eng'[e].step = eng[e].step
             /\ WritesRow(e, "MigrationInProgress")
             /\ UNCHANGED <<exists, db, filled, plan>>
  BY <1>1, <1>2, <1>4, GotoKeeps DEF MarkInProgress, At
<1>5. ASSUME MarkRollingBack(e)
      PROVE  /\ Kept(e) /\ SeenKept(e)
             /\ eng[e].pc = "mark_rolling_back" /\ eng'[e].pc = "backward"
             /\ eng'[e].step = eng[e].step
             /\ WritesRow(e, "RollingBack")
             /\ UNCHANGED <<exists, db, filled, plan>>
  BY <1>1, <1>2, <1>5, GotoKeeps DEF MarkRollingBack, At
<1>6. ASSUME FinishApply(e)
      PROVE  /\ Others(e) /\ eng'[e].pc = "idle" /\ eng'[e].target = {}
             /\ \/ eng[e].pc = "finish_ok" /\ WritesRow(e, "MigrationSuccess")
                \/ eng[e].pc = "finish_err" /\ WritesRow(e, "MigrationFailure")
             /\ UNCHANGED <<exists, db, filled, plan>>
  BY <1>2, <1>3, <1>6 DEF FinishApply, At
<1>7. ASSUME FinishUnapply(e)
      PROVE  /\ Others(e) /\ eng'[e].pc = "idle" /\ eng'[e].target = {}
             /\ \/ eng[e].pc = "rollback_ok" /\ WritesRow(e, "RollbackSuccess")
                \/ eng[e].pc = "rollback_err" /\ WritesRow(e, "RollbackFailure")
             /\ UNCHANGED <<exists, db, filled, plan>>
  BY <1>2, <1>3, <1>7 DEF FinishUnapply, At
<1> QED
  BY <1>4, <1>5, <1>6, <1>7

\* A rollback takes the newest successful row for its own.
LEMMA UnapplyLastFacts ==
    ASSUME TypeOK, NEW e \in Engines, UnapplyLast(e)
    PROVE  /\ Others(e) /\ eng[e].pc = "unapply_last"
           /\ \/ eng'[e].pc = "idle"
              \/ /\ eng'[e].pc = "unapply_check" /\ last # 0
                 /\ eng'[e].revision = last /\ eng'[e].name = table[last].name
                 /\ eng'[e].force = eng[e].force /\ eng'[e].step = eng[e].step
                 /\ eng'[e].datamodel = table[last].datamodel
                 /\ eng'[e].before = table[last].before
                 /\ eng'[e].up = table[last].up /\ eng'[e].down = table[last].down
           /\ UNCHANGED <<table, exists, db, filled, plan>>
<1>1. eng[e] \in Command /\ EnginesOK
  BY DEF TypeOK, EnginesOK
<1>2. CASE last = 0
  BY <1>1, <1>2, BlankEnds DEF UnapplyLast, Return, At
<1>3. CASE last # 0
  <2> DEFINE row == table[last]
             r == last
  <2>1. eng' = [eng EXCEPT
                    ![e].pc = "unapply_check", ![e].name = row.name,
                    ![e].revision = r, ![e].applied = row.applied,
                    ![e].rolled_back = row.rolled_back,
                    ![e].datamodel = row.datamodel, ![e].before = row.before,
                    ![e].up = row.up, ![e].down = row.down]
    BY <1>3 DEF UnapplyLast
  <2> HIDE DEF row, r
  <2>2. /\ Others(e) /\ eng'[e].pc = "unapply_check"
        /\ eng'[e].revision = r /\ eng'[e].name = row.name
        /\ eng'[e].force = eng[e].force /\ eng'[e].step = eng[e].step
        /\ eng'[e].datamodel = row.datamodel
        /\ eng'[e].before = row.before
        /\ eng'[e].up = row.up /\ eng'[e].down = row.down
    <3> DEFINE d == [eng[e] EXCEPT
                        !.pc = "unapply_check", !.name = row.name, !.revision = r,
                        !.applied = row.applied, !.rolled_back = row.rolled_back,
                        !.datamodel = row.datamodel, !.before = row.before,
                        !.up = row.up, !.down = row.down]
    <3>1. /\ d.pc = "unapply_check" /\ d.revision = r /\ d.name = row.name
          /\ d.force = eng[e].force /\ d.step = eng[e].step
          /\ d.datamodel = row.datamodel /\ d.before = row.before
          /\ d.up = row.up /\ d.down = row.down
      BY <1>1 DEF Command
    <3>2. eng'[e] = d /\ Others(e)
      BY <1>1, <2>1 DEF EnginesOK, Command, Others
    <3> HIDE DEF d
    <3> QED
      BY <3>1, <3>2
  <2> QED
    BY <1>3, <2>2 DEF UnapplyLast, At, row, r
<1> QED
  BY <1>2, <1>3

--------------------------------------------------------------------------------
(* The reads before a migration, the ends of a command, requests and resets *)

\* The steps that only look at the table or at the data, and go on or return.
LEMMA ReadFacts ==
    ASSUME TypeOK, NEW e \in Engines
    PROVE  /\ ApplyLast(e) =>
                 /\ Kept(e) /\ eng[e].pc = "apply_last" /\ eng'[e].steps = eng[e].steps
                 /\ UNCHANGED <<table, exists, db, filled, plan>>
                 /\ LET leavesWatch == /\ last # 0 /\ IsWatch(table[last].name)
                                       /\ ~ IsWatch(eng[e].name)
                    IN  \/ eng'[e].pc = "watch_base" /\ leavesWatch
                        \/ eng'[e].pc = "check_applied" /\ ~ leavesWatch
           /\ CheckNotApplied(e) =>
                 /\ Others(e) /\ eng[e].pc = "check_applied"
                 /\ UNCHANGED <<table, exists, db, filled, plan>>
                 /\ \/ eng'[e].pc = "idle"
                    \/ /\ Kept(e) /\ eng'[e].pc = "normal_base"
                       /\ eng'[e].steps = eng[e].steps
                       /\ ~ migration_is_already_applied(eng[e].name)
           /\ DestructiveChangesCheck(e) =>
                 /\ Others(e) /\ eng[e].pc = "check"
                 /\ UNCHANGED <<table, exists, db, filled, plan>>
                 /\ \/ eng'[e].pc = "idle"
                    \/ /\ Kept(e) /\ eng'[e].pc = "create" /\ eng'[e].seen = filled
                       /\ ~ HasWarnings(eng[e].up) \/ eng[e].force = "true"
           /\ UnapplyCheck(e) =>
                 /\ Others(e) /\ eng[e].pc = "unapply_check"
                 /\ UNCHANGED <<table, exists, db, filled, plan>>
                 /\ \/ eng'[e].pc = "idle"
                    \/ /\ Kept(e) /\ eng'[e].pc = "mark_rolling_back"
                       /\ eng'[e].step = eng[e].step /\ eng'[e].seen = filled
                       /\ ~ HasWarnings(eng[e].down) \/ eng[e].force # "false"
<1>1. EnginesOK
  BY DEF TypeOK
<1>2. Return(e) => Others(e) /\ eng'[e].pc = "idle"
  BY <1>1, BlankEnds DEF Return
<1>3. \A pc : Goto(e, pc) => /\ Kept(e) /\ Others(e) /\ eng'[e].pc = pc
                             /\ eng'[e].step = eng[e].step /\ eng'[e].steps = eng[e].steps
  BY <1>1, GotoKeeps DEF Kept
<1>4. \A pc : PassCheck(e, pc) => /\ Kept(e) /\ Others(e) /\ eng'[e].pc = pc
                                  /\ eng'[e].step = eng[e].step /\ eng'[e].seen = filled
  BY <1>1, PassCheckKeeps DEF Kept
<1> QED
  BY <1>2, <1>3, <1>4
     DEF ApplyLast, CheckNotApplied, DestructiveChangesCheck, UnapplyCheck, At

\* A command or a process ends: its own memory is all it loses.
LEMMA EndFacts ==
    ASSUME TypeOK, NEW e \in Engines,
           \/ CommandFails(e) \/ CreatePanics(e) \/ Crash(e) \/ Restart(e)
           \/ ResetInit(e)
    PROVE  /\ Others(e) /\ eng'[e].pc \in {"idle", "down"} /\ eng'[e].target = {}
           /\ UNCHANGED <<table, db, filled, plan>>
<1>1. EnginesOK
  BY DEF TypeOK
<1>2. /\ \/ eng' = [eng EXCEPT ![e] = Blank("idle")]
         \/ eng' = [eng EXCEPT ![e] = Blank("down")]
      /\ UNCHANGED <<table, db, filled, plan>>
  BY DEF CommandFails, CreatePanics, Crash, Restart, ResetInit, Return
<1> QED
  BY <1>1, <1>2, BlankEnds

\* A reset deletes the rows and then the schema, or fails to.
LEMMA ResetFacts ==
    ASSUME TypeOK, NEW e \in Engines
    PROVE  /\ ResetRows(e) =>
                 /\ Others(e) /\ eng[e].pc = "reset_rows" /\ eng'[e].pc = "reset_drop"
                 /\ table' = table \/ table' = <<>>
                 /\ UNCHANGED <<exists, db, filled, plan>>
           /\ ResetDrop(e) =>
                 /\ Others(e) /\ eng[e].pc = "reset_drop" /\ eng'[e].pc = "reset_init"
                 /\ \/ UNCHANGED <<table, exists, db, filled>>
                    \/ table' = <<>> /\ db' = {} /\ filled' = {}
                 /\ UNCHANGED plan
<1>1. EnginesOK
  BY DEF TypeOK
<1>2. \A pc : Goto(e, pc) => Others(e) /\ eng'[e].pc = pc
  BY <1>1, GotoKeeps DEF Kept
<1> QED
  BY <1>2 DEF ResetRows, ResetDrop, At

\* Only an idle engine accepts a request, and accepting it changes no table.
LEMMA AcceptFacts ==
    ASSUME TypeOK, NEW e \in Engines, Accept(e)
    PROVE  /\ Others(e) /\ eng[e].pc = "idle"
           /\ eng'[e].pc \in {"idle", "apply_last", "unapply_last", "reset_rows"}
           /\ eng'[e].pc = "unapply_last" => eng'[e].step = 0
           /\ eng'[e].pc = "reset_rows" => "reset" \in Commands
           /\ UNCHANGED <<table, exists, db, filled>>
<1>1. eng \in [Engines -> Command]
  BY DEF TypeOK, EnginesOK
<1>2. ASSUME NEW name, NEW target, NEW assumed, InferMigrationSteps(e, name, target, assumed)
      PROVE  /\ Others(e) /\ eng[e].pc = "idle" /\ eng'[e].pc = "idle"
             /\ UNCHANGED <<table, exists, db, filled>>
  BY <1>2 DEF InferMigrationSteps, At, Others
<1>3. ASSUME NEW name, NEW steps, NEW target, NEW force,
             ApplyMigration(e, name, steps, target, force)
      PROVE  /\ Others(e) /\ eng[e].pc = "idle" /\ eng'[e].pc = "apply_last"
             /\ UNCHANGED <<table, exists, db, filled>>
  <2>1. /\ eng[e].pc = "idle" /\ UNCHANGED <<table, exists, db, filled>>
        /\ eng' = [eng EXCEPT ![e] = [Blank("apply_last") EXCEPT
                       !.name = name, !.steps = steps, !.target = target, !.force = force]]
    BY <1>3 DEF ApplyMigration, Begin, At
  <2> QED
    BY <1>1, <2>1 DEF Blank, Others
<1>4. ASSUME NEW force, UnapplyMigration(e, force)
      PROVE  /\ Others(e) /\ eng[e].pc = "idle" /\ eng'[e].pc = "unapply_last"
             /\ eng'[e].step = 0
             /\ UNCHANGED <<table, exists, db, filled>>
  <2>1. /\ eng[e].pc = "idle" /\ UNCHANGED <<table, exists, db, filled>>
        /\ eng' = [eng EXCEPT ![e] = [Blank("unapply_last") EXCEPT !.force = force]]
    BY <1>4 DEF UnapplyMigration, Begin, At
  <2> QED
    BY <1>1, <2>1 DEF Blank, Others
<1>5. ASSUME Reset(e)
      PROVE  /\ Others(e) /\ eng[e].pc = "idle" /\ eng'[e].pc = "reset_rows"
             /\ "reset" \in Commands
             /\ UNCHANGED <<table, exists, db, filled>>
  <2>1. EnginesOK
    BY DEF TypeOK
  <2> QED
    BY <1>5, <2>1, BlankEnds DEF Reset, Begin, At
<1>6. \/ \E name, target, assumed : InferMigrationSteps(e, name, target, assumed)
      \/ \E name, steps, target, force : ApplyMigration(e, name, steps, target, force)
      \/ \E force : UnapplyMigration(e, force)
      \/ Reset(e)
  BY DEF Accept
<1> QED
  BY <1>2, <1>3, <1>4, <1>5, <1>6

--------------------------------------------------------------------------------
(* No table with data is dropped silently *)

Checked == {"create", "mark_in_progress", "forward", "forward_progress"}
CheckedBack == {"mark_rolling_back", "backward", "backward_progress"}

\* A command behind its destructive changes check may drop data only if the client
\* forces it, or if the check found the tables it drops empty.
DataGuarded(c) ==
    /\ c.pc \in Checked => c.force = "true" \/ DroppedBy(c.up) \cap c.seen = {}
    /\ c.pc \in CheckedBack => c.force # "false" \/ DroppedBy(c.down) \cap c.seen = {}

Guarded == TypeOK /\ \A e \in Engines : DataGuarded(eng[e])

\* What NoSilentDataLoss says of one step.
LossStep ==
    \A t \in filled \ filled' : Quiet \/ \E e \in Engines :
        /\ eng'[e] # eng[e]
        /\ \/ At(e, "forward") /\ (eng[e].force = "true" \/ t \notin eng[e].seen)
           \/ At(e, "backward") /\ (eng[e].force # "false" \/ t \notin eng[e].seen)
           \/ At(e, "reset_drop")

\* What the check of a command saw is its own, so a step of engine e keeps the
\* others guarded.
LEMMA StepGuarded ==
    ASSUME Guarded, TypeOK', NEW e \in Engines, Others(e), DataGuarded(eng[e])'
    PROVE  Guarded'
<1>1. ASSUME NEW f \in Engines \ {e}
      PROVE  DataGuarded(eng[f])'
  <2>1. DataGuarded(eng[f]) /\ eng'[f] = eng[f]
    BY DEF Guarded, Others
  <2> QED
    BY <2>1 DEF DataGuarded
<1> QED
  BY <1>1 DEF Guarded

\* What a database step takes away was in a table that the steps drop.
LEMMA ExecuteLoses ==
    ASSUME TypeOK, NEW c \in Command, NEW steps \in Seq(DatabaseStep), Executes(c, steps)
    PROVE  filled' \subseteq filled /\ filled \ filled' \subseteq DroppedBy(steps)
<1> DEFINE k == c.step + 1
           step == steps[k]
<1>1. k \in 1..Len(steps) /\ step \in DatabaseStep
  BY SMTT(60) DEF Executes, Command
<1>2. Executable(step) /\ filled' = filled \ {step.table} /\ filled \subseteq db
  BY DEF Executes, Execute, TypeOK
<1>3. filled' \subseteq filled
  BY <1>2
<1>4. ASSUME NEW t \in filled \ filled'
      PROVE  t \in DroppedBy(steps)
  <2>1. t = step.table /\ t \in db
    BY <1>2
  <2>2. step.op = "drop"
    BY <1>1, <1>2, <2>1 DEF Executable, DatabaseStep
  <2> QED
    BY <1>1, <2>1, <2>2 DEF DroppedBy
<1> QED
  BY <1>3, <1>4

\* Every step of an engine keeps all commands guarded, and loses data only where
\* the property allows it.
LEMMA EngineGuarded ==
    ASSUME Guarded, TypeOK', NEW e \in Engines,
           Accept(e) \/ Run(e) \/ Crash(e) \/ Restart(e)
    PROVE  Guarded' /\ LossStep
<1> USE DEF Checked, CheckedBack
<1>0. /\ TypeOK /\ EnginesOK /\ eng[e] \in Command /\ DataGuarded(eng[e])
      /\ eng[e].up \in Seq(DatabaseStep) /\ eng[e].down \in Seq(DatabaseStep)
  BY DEF Guarded, TypeOK, EnginesOK, Command
<1>1. ASSUME Others(e), eng'[e].pc \notin Checked \cup CheckedBack, filled' = filled
      PROVE  Guarded' /\ LossStep
  <2>1. DataGuarded(eng[e])'
    BY <1>1 DEF DataGuarded
  <2>2. filled' \subseteq filled /\ filled \ filled' = {}
    BY <1>1
  <2> QED
    BY <1>1, <2>1, <2>2, StepGuarded DEF LossStep
<1>2. ASSUME Others(e), filled' = filled, eng'[e].force = eng[e].force,
             eng'[e].up = eng[e].up, eng'[e].down = eng[e].down,
             eng'[e].pc \in Checked =>
                \/ eng[e].pc \in Checked /\ SeenKept(e)
                \/ eng'[e].seen = filled /\ (~ HasWarnings(eng[e].up) \/ eng[e].force = "true"),
             eng'[e].pc \in CheckedBack =>
                \/ eng[e].pc \in CheckedBack /\ SeenKept(e)
                \/ eng'[e].seen = filled /\ (~ HasWarnings(eng[e].down) \/ eng[e].force # "false")
      PROVE  Guarded' /\ LossStep
  <2>1. DataGuarded(eng[e])'
    BY <1>0, <1>2 DEF DataGuarded, HasWarnings, SeenKept
  <2>2. filled' \subseteq filled /\ filled \ filled' = {}
    BY <1>2
  <2> QED
    BY <1>2, <2>1, <2>2, StepGuarded DEF LossStep
<1>3. CASE Accept(e)
  BY <1>0, <1>1, <1>3, AcceptFacts
<1>4. CASE ApplyLast(e) \/ CheckNotApplied(e)
  BY <1>0, <1>1, <1>4, ReadFacts DEF Kept
<1>5. CASE handle_transition_out_of_watch_mode(e) \/ handle_normal_migration(e)
  <2>1. filled' = filled /\ \E base : Calculate(e, base)
    BY <1>5 DEF handle_transition_out_of_watch_mode, handle_normal_migration
  <2> QED
    BY <1>0, <1>1, <2>1, CalculateFacts
<1>6. CASE Describe(e)
  BY <1>0, <1>1, <1>6, DescribeFacts
<1>7. CASE DestructiveChangesCheck(e) \/ UnapplyCheck(e)
  <2>1. CASE eng'[e].pc = "idle"
    BY <1>0, <1>1, <1>7, <2>1, ReadFacts
  <2>2. CASE eng'[e].pc # "idle"
    BY <1>0, <1>2, <1>7, <2>2, ReadFacts DEF Kept
  <2> QED
    BY <2>1, <2>2
<1>8. CASE Create(e)
  <2>1. /\ Others(e) /\ eng[e].pc = "create" /\ eng'[e].pc = "mark_in_progress"
        /\ eng'[e].force = eng[e].force /\ filled' = filled
        /\ eng'[e].up = eng[e].up /\ eng'[e].down = eng[e].down /\ SeenKept(e)
    BY <1>0, <1>8, CreateFacts
  <2> QED
    BY <1>2, <2>1
<1>9. CASE MarkInProgress(e) \/ MarkRollingBack(e)
  BY <1>0, <1>2, <1>9, MarkFacts DEF Kept
<1>10. CASE ForwardProgress(e) \/ BackwardProgress(e)
  BY <1>0, <1>2, <1>10, ForwardProgressFacts, BackwardProgressFacts DEF Kept
<1>11. CASE FinishApply(e) \/ FinishUnapply(e)
  BY <1>0, <1>1, <1>11, MarkFacts
<1>12. CASE UnapplyLast(e)
  BY <1>0, <1>1, <1>12, UnapplyLastFacts
<1>13. CASE ApplyStep(e) \/ ApplyStepFails(e)
  <2>1. /\ Kept(e) /\ SeenKept(e) /\ eng[e].pc = "forward"
        /\ eng'[e].pc \in {"forward_progress", "finish_ok", "finish_err"}
        /\ Executes(eng[e], eng[e].up) \/ filled' = filled
    BY <1>0, <1>13, ApplyStepFacts
  <2>2. filled' \subseteq filled /\ filled \ filled' \subseteq DroppedBy(eng[e].up)
    BY <1>0, <2>1, ExecuteLoses
  <2>3. DataGuarded(eng[e])'
    BY <1>0, <2>1, <2>2 DEF DataGuarded, Kept, SeenKept
  <2>4. LossStep
    BY <1>0, <2>1, <2>2 DEF LossStep, DataGuarded, At
  <2> QED
    BY <2>1, <2>2, <2>3, <2>4, StepGuarded DEF Kept
<1>14. CASE UnapplyStep(e) \/ UnapplyStepFails(e)
  <2>1. /\ Kept(e) /\ SeenKept(e) /\ eng[e].pc = "backward"
        /\ eng'[e].pc \in {"backward_progress", "rollback_ok", "rollback_err"}
        /\ Executes(eng[e], eng[e].down) \/ filled' = filled
    BY <1>0, <1>14, UnapplyStepFacts
  <2>2. filled' \subseteq filled /\ filled \ filled' \subseteq DroppedBy(eng[e].down)
    BY <1>0, <2>1, ExecuteLoses
  <2>3. DataGuarded(eng[e])'
    BY <1>0, <2>1, <2>2 DEF DataGuarded, Kept, SeenKept
  <2>4. LossStep
    BY <1>0, <2>1, <2>2 DEF LossStep, DataGuarded, At
  <2> QED
    BY <2>1, <2>2, <2>3, <2>4, StepGuarded DEF Kept
<1>15. CASE ResetRows(e)
  BY <1>0, <1>1, <1>15, ResetFacts
<1>16. CASE ResetDrop(e)
  <2>1. /\ Others(e) /\ eng[e].pc = "reset_drop" /\ eng'[e].pc = "reset_init"
        /\ filled' \subseteq filled
    BY <1>0, <1>16, ResetFacts
  <2>2. DataGuarded(eng[e])'
    BY <2>1 DEF DataGuarded
  <2>3. LossStep
    BY <2>1 DEF LossStep, At
  <2> QED
    BY <2>1, <2>2, <2>3, StepGuarded
<1>17. CASE CommandFails(e) \/ CreatePanics(e) \/ Crash(e) \/ Restart(e) \/ ResetInit(e)
  BY <1>0, <1>1, <1>17, EndFacts
<1> QED
  BY <1>3, <1>4, <1>5, <1>6, <1>7, <1>8, <1>9, <1>10, <1>11, <1>12, <1>13, <1>14,
     <1>15, <1>16, <1>17 DEF Run

\* Foreign DDL happens between commands, and inserts take nothing away.
LEMMA GuardedStep == Guarded /\ [Next]_vars => Guarded' /\ [LossStep]_vars
<1> SUFFICES ASSUME Guarded, [Next]_vars
             PROVE  Guarded' /\ [LossStep]_vars
  OBVIOUS
<1>0. TypeOK /\ TypeOK'
  BY TypeStep DEF Guarded
<1>1. ASSUME NEW e \in Engines, Accept(e) \/ Run(e) \/ Crash(e) \/ Restart(e)
      PROVE  Guarded' /\ LossStep
  BY <1>0, <1>1, EngineGuarded
<1>2. CASE Drift \/ Insert
  <2>1. eng' = eng /\ (Quiet \/ filled \subseteq filled')
    BY <1>2 DEF Drift, Insert
  <2>2. Guarded'
    BY <1>0, <2>1 DEF Guarded, DataGuarded
  <2> QED
    BY <2>1, <2>2 DEF LossStep
<1>3. CASE UNCHANGED vars
  BY <1>0, <1>3 DEF vars, Guarded, DataGuarded
<1> QED
  BY <1>1, <1>2, <1>3 DEF Next

\* NoSilentDataLoss, for any number of engines and while clients insert at any time:
\* the destructive changes check of a command sees every table its steps will drop,
\* so without force only what arrives behind the check can be lost.
THEOREM NoDataIsLostSilently == Spec => NoSilentDataLoss
<1>1. Init => Guarded
  <2>1. Init => \A e \in Engines : eng[e].pc = "idle"
    BY SMTT(60) DEF Init, Blank
  <2> QED
    BY <2>1, TypeInit DEF Guarded, DataGuarded, Checked, CheckedBack
<1> QED
  BY <1>1, GuardedStep, PTL DEF Spec, NoSilentDataLoss, LossStep

--------------------------------------------------------------------------------
(* An idle engine finds the _Migration table *)

OneEngine == \A e, f \in Engines : e = f

\* Only reset takes the table away, and it creates it again before it returns; a
\* process that is down creates it when it starts.
TableThere ==
    TypeOK /\ \A e \in Engines : eng[e].pc \notin {"down", "reset_init"} => exists

\* With one engine nobody else drops the table it is about to use.
LEMMA TableThereStep ==
    ASSUME OneEngine, "query" \notin Events
    PROVE  TableThere /\ [Next]_vars => TableThere'
<1> SUFFICES ASSUME TableThere, [Next]_vars
             PROVE  TableThere'
  OBVIOUS
<1>0. TypeOK /\ TypeOK'
  BY TypeStep DEF TableThere
<1>1. ASSUME NEW e \in Engines, Accept(e) \/ Run(e) \/ Crash(e) \/ Restart(e)
      PROVE  TableThere'
  <2> DEFINE Gone(pc) == pc \in {"down", "reset_init"}
  <2>0. eng[e].pc \notin {"down", "reset_init"} => exists
    BY DEF TableThere
  <2>1. SUFFICES Gone(eng'[e].pc) \/ exists' \/ (exists' = exists /\ ~ Gone(eng[e].pc))
    <3>1. \A f \in Engines : f = e
      BY DEF OneEngine
    <3>2. ~ Gone(eng'[e].pc) => exists'
      BY <2>0, <2>1, SMTT(60)
    <3> QED
      BY <1>0, <3>1, <3>2 DEF TableThere
  <2>2. CASE Accept(e)
    BY <1>0, <2>2, AcceptFacts
  <2>3. CASE \/ ApplyLast(e) \/ handle_transition_out_of_watch_mode(e)
             \/ CheckNotApplied(e) \/ handle_normal_migration(e)
             \/ Describe(e) \/ DestructiveChangesCheck(e)
    <3>1. /\ eng[e].pc \in {"apply_last", "watch_base", "check_applied", "normal_base",
                            "describe", "check"}
          /\ exists' = exists
      BY <2>3
         DEF ApplyLast, handle_transition_out_of_watch_mode, CheckNotApplied,
             handle_normal_migration, Describe, DestructiveChangesCheck, At
    <3> QED
      BY <3>1
  <2>4. CASE \/ Create(e) \/ MarkInProgress(e) \/ FinishApply(e)
             \/ UnapplyLast(e) \/ MarkRollingBack(e) \/ FinishUnapply(e) \/ UnapplyCheck(e)
    <3>1. /\ eng[e].pc \in {"create", "mark_in_progress", "finish_ok", "finish_err",
                            "unapply_last", "unapply_check", "mark_rolling_back",
                            "rollback_ok", "rollback_err"}
          /\ exists' = exists
      BY <2>4
         DEF Create, MarkInProgress, FinishApply, UnapplyLast, MarkRollingBack,
             FinishUnapply, UnapplyCheck, At
    <3> QED
      BY <3>1
  <2>5. CASE ApplyStep(e) \/ ApplyStepFails(e) \/ UnapplyStep(e) \/ UnapplyStepFails(e)
    BY <1>0, <2>5, ApplyStepFacts, UnapplyStepFacts
  <2>6. CASE ForwardProgress(e) \/ BackwardProgress(e)
    BY <1>0, <2>6, ForwardProgressFacts, BackwardProgressFacts
  <2>7. CASE ResetRows(e) \/ ResetDrop(e)
    BY <1>0, <2>7, ResetFacts
  <2>8. CASE ResetInit(e) \/ Restart(e)
    BY <2>8 DEF ResetInit, Restart, InitTable
  <2>9. CASE CommandFails(e)
    BY <2>9 DEF CommandFails, At
  <2>10. CASE CreatePanics(e) \/ Crash(e)
    <3>1. EnginesOK /\ eng' = [eng EXCEPT ![e] = Blank("down")]
      BY <1>0, <2>10 DEF CreatePanics, Crash, TypeOK
    <3> QED
      BY <3>1, BlankEnds
  <2> QED
    BY <1>1, <2>2, <2>3, <2>4, <2>5, <2>6, <2>7, <2>8, <2>9, <2>10 DEF Run
<1>2. CASE Drift \/ Insert \/ UNCHANGED vars
  BY <1>0, <1>2, SMTT(60) DEF Drift, Insert, vars, TableThere
<1> QED
  BY <1>1, <1>2 DEF Next

\* IdleEngineHasTable: one engine on its database, whose queries do not fail, finds
\* the _Migration table whenever it accepts a command, though reset drops the table
\* and the process may die at any point of it.
THEOREM TableIsThere ==
    ASSUME OneEngine, "query" \notin Events
    PROVE  Spec => []IdleEngineHasTable
<1>1. Init => TableThere
  BY TypeInit DEF Init, TableThere
<1>2. TableThere => IdleEngineHasTable
  BY DEF TableThere, IdleEngineHasTable, At
<1> QED
  BY <1>1, <1>2, TableThereStep, PTL DEF Spec

--------------------------------------------------------------------------------
(* Commands come to their end: the part of CommandsReturn that needs no fairness *)

Ended == {"idle", "down"}

\* How far the place of a command is from the end of the command.
Stage(pc) ==
    CASE pc = "apply_last" -> 10
      [] pc \in {"watch_base", "check_applied"} -> 9
      [] pc = "normal_base" -> 8
      [] pc \in {"describe", "unapply_last"} -> 7
      [] pc \in {"check", "unapply_check"} -> 6
      [] pc = "create" -> 5
      [] pc \in {"mark_in_progress", "mark_rolling_back"} -> 4
      [] pc \in {"forward", "forward_progress", "backward", "backward_progress", "reset_rows"} -> 3
      [] pc = "reset_drop" -> 2
      [] pc \in {"finish_ok", "finish_err", "rollback_ok", "rollback_err", "reset_init"} -> 1
      [] OTHER -> 0

\* What is left of a loop of the applier over `steps`: two queries for every step
\* that is not counted yet, one while the count of the current step is written.
Left(c, steps, executes) ==
    2 * (Len(steps) - c.step) + (IF c.pc = executes THEN 1 ELSE 0)

\* From c to d in the loop over the up steps, or over the down steps.
Loops(c, d, steps, executes, counts) ==
    /\ c.pc \in {executes, counts} /\ d.pc \in {executes, counts}
    /\ Left(d, steps, executes) \in Nat
    /\ Left(d, steps, executes) < Left(c, steps, executes)

Nearer(c, d) ==
    \/ Stage(d.pc) < Stage(c.pc)
    \/ d.up = c.up /\ Loops(c, d, c.up, "forward", "forward_progress")
    \/ d.down = c.down /\ Loops(c, d, c.down, "backward", "backward_progress")

\* Whatever any engine or the environment does, a command in flight is left as it is
\* or gets nearer its end: no command starts over, and the loops of the applier end.
ProgressStep ==
    \A e \in Engines :
        eng[e].pc \notin Ended => eng'[e] = eng[e] \/ Nearer(eng[e], eng'[e])

CommandsGetNearer == [][ProgressStep]_vars

\* The order of the steps of a command, but for the loops of the applier.
Edge(from, to) ==
    \/ from = "apply_last" /\ to \in {"watch_base", "check_applied"}
    \/ from = "check_applied" /\ to = "normal_base"
    \/ from \in {"watch_base", "normal_base"} /\ to = "describe"
    \/ from = "describe" /\ to = "check"
    \/ from = "check" /\ to = "create"
    \/ from = "create" /\ to = "mark_in_progress"
    \/ from = "mark_in_progress" /\ to = "forward"
    \/ from \in {"forward", "forward_progress"} /\ to \in {"finish_ok", "finish_err"}
    \/ from = "unapply_last" /\ to = "unapply_check"
    \/ from = "unapply_check" /\ to = "mark_rolling_back"
    \/ from = "mark_rolling_back" /\ to = "backward"
    \/ from \in {"backward", "backward_progress"} /\ to \in {"rollback_ok", "rollback_err"}
    \/ from = "reset_rows" /\ to = "reset_drop"
    \/ from = "reset_drop" /\ to = "reset_init"
    \/ from \in PC \ Ended /\ to \in Ended

\* Every edge leads down.
LEMMA EdgeDescends ==
    ASSUME NEW from, NEW to, Edge(from, to)
    PROVE  Stage(to) < Stage(from)
<1>1. CASE from = "apply_last" /\ to \in {"watch_base", "check_applied"}
  BY <1>1, SMTT(60) DEF Stage
<1>2. CASE from = "check_applied" /\ to = "normal_base"
  BY <1>2, SMTT(60) DEF Stage
<1>3. CASE from \in {"watch_base", "normal_base"} /\ to = "describe"
  BY <1>3, SMTT(60) DEF Stage
<1>4. CASE from = "describe" /\ to = "check"
  BY <1>4, SMTT(60) DEF Stage
<1>5. CASE from = "check" /\ to = "create"
  BY <1>5, SMTT(60) DEF Stage
<1>6. CASE from = "create" /\ to = "mark_in_progress"
  BY <1>6, SMTT(60) DEF Stage
<1>7. CASE from = "mark_in_progress" /\ to = "forward"
  BY <1>7, SMTT(60) DEF Stage
<1>8. CASE from \in {"forward", "forward_progress"} /\ to \in {"finish_ok", "finish_err"}
  BY <1>8, SMTT(60) DEF Stage
<1>9. CASE from = "unapply_last" /\ to = "unapply_check"
  BY <1>9, SMTT(60) DEF Stage
<1>10. CASE from = "unapply_check" /\ to = "mark_rolling_back"
  BY <1>10, SMTT(60) DEF Stage
<1>11. CASE from = "mark_rolling_back" /\ to = "backward"
  BY <1>11, SMTT(60) DEF Stage
<1>12. CASE from \in {"backward", "backward_progress"} /\ to \in {"rollback_ok", "rollback_err"}
  BY <1>12, SMTT(60) DEF Stage
<1>13. CASE from = "reset_rows" /\ to = "reset_drop"
  BY <1>13, SMTT(60) DEF Stage
<1>14. CASE from = "reset_drop" /\ to = "reset_init"
  BY <1>14, SMTT(60) DEF Stage
<1>15. CASE from \in PC \ Ended /\ to \in Ended
  <2>1. Stage(to) = 0
    BY <1>15, SMTT(60) DEF Stage, Ended
  <2>2. Stage(from) > 0
    BY <1>15, SMTT(60) DEF Stage, Ended, PC
  <2> QED
    BY <2>1, <2>2, SMTT(60)
<1> QED
  BY <1>1, <1>2, <1>3, <1>4, <1>5, <1>6, <1>7, <1>8, <1>9, <1>10, <1>11, <1>12, <1>13, <1>14,
     <1>15 DEF Edge

\* An applier counts a step only if there is another one after it.
StepsLeft(c) ==
    /\ c.pc = "forward_progress" => c.step + 1 < Len(c.up)
    /\ c.pc = "backward_progress" => c.step + 1 < Len(c.down)

ProgressInv == TypeOK /\ \A e \in Engines : StepsLeft(eng[e])

\* One round of a loop: the step is executed, then it is counted.
LEMMA LoopDescends ==
    ASSUME NEW c, NEW d, NEW steps, NEW executes, NEW counts, executes # counts,
           c.step \in Nat, Len(steps) \in Nat, c.step + 1 < Len(steps),
           \/ c.pc = executes /\ d.pc = counts /\ d.step = c.step
           \/ c.pc = counts /\ d.pc = executes /\ d.step = c.step + 1
    PROVE  Loops(c, d, steps, executes, counts)
<1> DEFINE n == Len(steps)
           k == c.step
<1>1. n \in Nat /\ k \in Nat /\ k + 1 < n
  OBVIOUS
<1>2. CASE c.pc = executes /\ d.pc = counts /\ d.step = k
  <2>1. Left(c, steps, executes) = 2 * (n - k) + 1
    BY <1>2 DEF Left
  <2>2. Left(d, steps, executes) = 2 * (n - k) + 0
    BY <1>2 DEF Left
  <2> HIDE DEF n, k
  <2>3. 2 * (n - k) + 0 \in Nat /\ 2 * (n - k) + 0 < 2 * (n - k) + 1
    BY <1>1, SMTT(60)
  <2> QED
    BY <1>2, <2>1, <2>2, <2>3 DEF Loops
<1>3. CASE c.pc = counts /\ d.pc = executes /\ d.step = k + 1
  <2>1. Left(c, steps, executes) = 2 * (n - k) + 0
    BY <1>3 DEF Left
  <2>2. Left(d, steps, executes) = 2 * (n - (k + 1)) + 1
    BY <1>3 DEF Left
  <2> HIDE DEF n, k
  <2>3. 2 * (n - (k + 1)) + 1 \in Nat /\ 2 * (n - (k + 1)) + 1 < 2 * (n - k) + 0
    BY <1>1, SMTT(60)
  <2> QED
    BY <1>3, <2>1, <2>2, <2>3 DEF Loops
<1> QED
  BY <1>2, <1>3

\* Every step of an engine brings its own command nearer the end.
LEMMA EngineProgress ==
    ASSUME ProgressInv, NEW e \in Engines,
           Accept(e) \/ Run(e) \/ Crash(e) \/ Restart(e)
    PROVE  /\ Others(e) /\ StepsLeft(eng'[e])
           /\ eng[e].pc \notin Ended => Nearer(eng[e], eng'[e])
<1> DEFINE Goal == /\ Others(e) /\ StepsLeft(eng'[e])
                   /\ eng[e].pc \notin Ended => Nearer(eng[e], eng'[e])
           Counting == {"forward_progress", "backward_progress"}
<1>0. /\ TypeOK /\ EnginesOK /\ eng[e].pc \in PC /\ StepsLeft(eng[e])
      /\ eng[e].step \in Nat /\ Len(eng[e].up) \in Nat /\ Len(eng[e].down) \in Nat
  <2>1. TypeOK /\ StepsLeft(eng[e])
    BY DEF ProgressInv
  <2>2. eng[e] \in Command /\ EnginesOK
    BY <2>1, FieldTypes
  <2> QED
    BY <2>1, <2>2, FieldTypes DEF Command
<1>1. ASSUME Others(e), Edge(eng[e].pc, eng'[e].pc), eng'[e].pc \notin Counting
      PROVE  Goal
  BY <1>1, EdgeDescends DEF Nearer, StepsLeft
<1>2. ASSUME Others(e), eng'[e].pc \in Ended
      PROVE  Goal
  <2>1. eng'[e].pc \notin Counting
    BY <1>2 DEF Ended
  <2>2. eng[e].pc \notin Ended => Edge(eng[e].pc, eng'[e].pc)
    BY <1>0, <1>2 DEF Edge
  <2> QED
    BY <1>2, <2>1, <2>2, EdgeDescends DEF Nearer, StepsLeft
<1>3. CASE Accept(e)
  BY <1>0, <1>3, AcceptFacts DEF StepsLeft, Ended
<1>4. CASE ApplyLast(e)
  BY <1>0, <1>1, <1>4, ReadFacts DEF Kept, Edge
<1>5. CASE CheckNotApplied(e) \/ DestructiveChangesCheck(e) \/ UnapplyCheck(e)
  <2>1. CASE eng'[e].pc = "idle"
    BY <1>0, <1>2, <1>5, <2>1, ReadFacts DEF Ended
  <2>2. CASE eng'[e].pc # "idle"
    BY <1>0, <1>1, <1>5, <2>2, ReadFacts DEF Kept, Edge
  <2> QED
    BY <2>1, <2>2
<1>6. CASE handle_transition_out_of_watch_mode(e) \/ handle_normal_migration(e)
  <2>1. eng[e].pc \in {"watch_base", "normal_base"} /\ \E base : Calculate(e, base)
    BY <1>6 DEF handle_transition_out_of_watch_mode, handle_normal_migration, At
  <2>2. Others(e) /\ eng'[e].pc \in {"idle", "describe"}
    BY <1>0, <2>1, CalculateFacts
  <2>3. CASE eng'[e].pc = "idle"
    BY <1>2, <2>2, <2>3 DEF Ended
  <2>4. CASE eng'[e].pc = "describe"
    BY <1>1, <2>1, <2>2, <2>4 DEF Edge
  <2> QED
    BY <2>2, <2>3, <2>4
<1>7. CASE Describe(e)
  BY <1>0, <1>1, <1>7, DescribeFacts DEF Edge
<1>8. CASE Create(e)
  <2>1. Others(e) /\ eng[e].pc = "create" /\ eng'[e].pc = "mark_in_progress"
    BY <1>0, <1>8, CreateFacts
  <2> QED
    BY <1>1, <2>1 DEF Edge
<1>9. CASE MarkInProgress(e) \/ MarkRollingBack(e)
  BY <1>0, <1>1, <1>9, MarkFacts DEF Kept, Edge
<1>10. CASE FinishApply(e) \/ FinishUnapply(e)
  BY <1>0, <1>2, <1>10, MarkFacts DEF Ended
<1>11. CASE UnapplyLast(e)
  <2>1. Others(e) /\ eng[e].pc = "unapply_last" /\ eng'[e].pc \in {"idle", "unapply_check"}
    BY <1>0, <1>11, UnapplyLastFacts
  <2>2. CASE eng'[e].pc = "idle"
    BY <1>2, <2>1, <2>2 DEF Ended
  <2>3. CASE eng'[e].pc = "unapply_check"
    BY <1>1, <2>1, <2>3 DEF Edge
  <2> QED
    BY <2>1, <2>2, <2>3
<1>12. CASE ApplyStep(e) \/ ApplyStepFails(e)
  <2>1. /\ Kept(e) /\ eng[e].pc = "forward" /\ eng'[e].step = eng[e].step
        /\ \/ eng'[e].pc = "forward_progress" /\ eng[e].step + 1 < Len(eng[e].up)
           \/ eng'[e].pc \in {"finish_ok", "finish_err"}
    BY <1>0, <1>12, ApplyStepFacts
  <2>2. CASE eng'[e].pc = "forward_progress" /\ eng[e].step + 1 < Len(eng[e].up)
    <3>1. Loops(eng[e], eng'[e], eng[e].up, "forward", "forward_progress")
      BY <1>0, <2>1, <2>2, LoopDescends
    <3> QED
      BY <2>1, <2>2, <3>1 DEF Kept, Nearer, StepsLeft
  <2>3. CASE eng'[e].pc \in {"finish_ok", "finish_err"}
    BY <1>1, <2>1, <2>3 DEF Kept, Edge
  <2> QED
    BY <2>1, <2>2, <2>3
<1>13. CASE ForwardProgress(e)
  <2>1. /\ Kept(e) /\ eng[e].pc = "forward_progress" /\ eng'[e].step = eng[e].step + 1
        /\ eng'[e].pc \in {"forward", "finish_err"}
    BY <1>0, <1>13, ForwardProgressFacts
  <2>2. CASE eng'[e].pc = "forward"
    <3>1. eng[e].step + 1 < Len(eng[e].up)
      BY <1>0, <2>1 DEF StepsLeft
    <3>2. Loops(eng[e], eng'[e], eng[e].up, "forward", "forward_progress")
      BY <1>0, <2>1, <2>2, <3>1, LoopDescends
    <3> QED
      BY <2>1, <2>2, <3>2 DEF Kept, Nearer, StepsLeft
  <2>3. CASE eng'[e].pc = "finish_err"
    BY <1>1, <2>1, <2>3 DEF Kept, Edge
  <2> QED
    BY <2>1, <2>2, <2>3
<1>14. CASE UnapplyStep(e) \/ UnapplyStepFails(e)
  <2>1. /\ Kept(e) /\ eng[e].pc = "backward" /\ eng'[e].step = eng[e].step
        /\ \/ eng'[e].pc = "backward_progress" /\ eng[e].step + 1 < Len(eng[e].down)
           \/ eng'[e].pc \in {"rollback_ok", "rollback_err"}
    BY <1>0, <1>14, UnapplyStepFacts
  <2>2. CASE eng'[e].pc = "backward_progress" /\ eng[e].step + 1 < Len(eng[e].down)
    <3>1. Loops(eng[e], eng'[e], eng[e].down, "backward", "backward_progress")
      BY <1>0, <2>1, <2>2, LoopDescends
    <3> QED
      BY <2>1, <2>2, <3>1 DEF Kept, Nearer, StepsLeft
  <2>3. CASE eng'[e].pc \in {"rollback_ok", "rollback_err"}
    BY <1>1, <2>1, <2>3 DEF Kept, Edge
  <2> QED
    BY <2>1, <2>2, <2>3
<1>15. CASE BackwardProgress(e)
  <2>1. /\ Kept(e) /\ eng[e].pc = "backward_progress" /\ eng'[e].step = eng[e].step + 1
        /\ eng'[e].pc \in {"backward", "rollback_err"}
    BY <1>0, <1>15, BackwardProgressFacts
  <2>2. CASE eng'[e].pc = "backward"
    <3>1. eng[e].step + 1 < Len(eng[e].down)
      BY <1>0, <2>1 DEF StepsLeft
    <3>2. Loops(eng[e], eng'[e], eng[e].down, "backward", "backward_progress")
      BY <1>0, <2>1, <2>2, <3>1, LoopDescends
    <3> QED
      BY <2>1, <2>2, <3>2 DEF Kept, Nearer, StepsLeft
  <2>3. CASE eng'[e].pc = "rollback_err"
    BY <1>1, <2>1, <2>3 DEF Kept, Edge
  <2> QED
    BY <2>1, <2>2, <2>3
<1>16. CASE ResetRows(e) \/ ResetDrop(e)
  BY <1>0, <1>1, <1>16, ResetFacts DEF Edge
<1>17. CASE CommandFails(e) \/ CreatePanics(e) \/ Crash(e) \/ Restart(e) \/ ResetInit(e)
  BY <1>0, <1>2, <1>17, EndFacts DEF Ended
<1> QED
  BY <1>3, <1>4, <1>5, <1>6, <1>7, <1>8, <1>9, <1>10, <1>11, <1>12, <1>13, <1>14, <1>15,
     <1>16, <1>17 DEF Run

\* The engine that takes a step gets nearer its end, the others are left alone.
LEMMA NextProgress == ProgressInv /\ [Next]_vars => ProgressInv' /\ [ProgressStep]_vars
<1> SUFFICES ASSUME ProgressInv, [Next]_vars
             PROVE  ProgressInv' /\ ProgressStep
  OBVIOUS
<1>0. TypeOK /\ TypeOK'
  BY TypeStep DEF ProgressInv
<1>1. ASSUME NEW e \in Engines, Accept(e) \/ Run(e) \/ Crash(e) \/ Restart(e)
      PROVE  ProgressInv' /\ ProgressStep
  <2>1. /\ Others(e) /\ StepsLeft(eng'[e])
        /\ eng[e].pc \notin Ended => Nearer(eng[e], eng'[e])
    BY <1>1, EngineProgress
  <2>2. ASSUME NEW f \in Engines
        PROVE  StepsLeft(eng'[f]) /\ (eng[f].pc \notin Ended => eng'[f] = eng[f] \/ Nearer(eng[f], eng'[f]))
    <3>1. CASE f = e
      BY <2>1, <3>1
    <3>2. CASE f # e
      BY <2>1, <3>2 DEF Others, ProgressInv
    <3> QED
      BY <3>1, <3>2
  <2> QED
    BY <1>0, <2>2 DEF ProgressInv, ProgressStep
<1>2. CASE eng' = eng
  BY <1>0, <1>2 DEF ProgressInv, ProgressStep
<1>3. Drift \/ Insert \/ UNCHANGED vars => eng' = eng
  BY DEF Drift, Insert, vars
<1> QED
  BY <1>1, <1>2, <1>3 DEF Next

\* CommandsGetNearer, for any number of engines and of migration steps: no crash of a
\* process, failed query, drift or other engine makes a command go back or loop. What
\* CommandsReturn says beyond this is that the steps are open and are taken.
THEOREM CommandsEnd == Spec => CommandsGetNearer
<1>1. Init => ProgressInv
  <2>1. Init => \A e \in Engines : eng[e].pc = "idle"
    BY SMTT(60) DEF Init, Blank
  <2> QED
    BY <2>1, TypeInit DEF ProgressInv, StepsLeft
<1> QED
  BY <1>1, NextProgress, PTL DEF Spec, CommandsGetNearer
=============================================================================
