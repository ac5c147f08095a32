------------------------ MODULE MigrationEngineProofs ------------------------
(***************************************************************************)
(* What the rows of the _Migration table say of the steps that were really *)
(* executed, for any number of engines that apply and roll back, fail and  *)
(* crash concurrently.                                                     *)
(***************************************************************************)
EXTENDS MigrationEngineTypeProofs

USE ZenonT(60)

--------------------------------------------------------------------------------
(* Progress and status of a row, for any number of engines that do not reset *)

Applying == {"mark_in_progress", "forward", "forward_progress", "finish_ok", "finish_err"}
Unapplying == {"unapply_check", "mark_rolling_back", "backward", "backward_progress",
               "rollback_ok", "rollback_err"}
Resetting == {"reset_rows", "reset_drop", "reset_init"}

OwnsRow(c) == c.revision \in 1..Len(table) /\ table[c.revision].name = c.name

\* What an applier in memory and the row it works on say of each other.
ApplierInStep(c) ==
    LET row == table[c.revision]
        done == ran[c.revision]
    IN  /\ OwnsRow(c)
        /\ row.up = c.up
        /\ c.applied = c.step
        /\ c.pc = "mark_in_progress" =>
              row.status = "Pending" /\ c.step = 0 /\ row.applied = 0 /\ done = 1..0
        /\ c.pc # "mark_in_progress" => row.status = "MigrationInProgress"
        /\ c.pc = "forward" =>
              /\ row.applied = c.step /\ done = 1..c.step
              /\ c.step < Len(c.up) \/ c.step = Len(c.up)
        /\ c.pc = "forward_progress" => row.applied = c.step /\ done = 1..(c.step + 1)
                                         /\ c.step + 1 < Len(c.up)
        /\ c.pc = "finish_ok" => done = 1..Len(c.up) /\ Len(c.up) \in {c.step, c.step + 1}
        /\ c.pc = "finish_err" => done \in {1..c.step, 1..(c.step + 1)}

UnapplierInStep(c) ==
    /\ OwnsRow(c)
    /\ table[c.revision].status \in Completed
    /\ c.applied = table[c.revision].applied

RowInStep(r) ==
    /\ ran[r] \in {1..table[r].applied, 1..(table[r].applied + 1)}
    /\ table[r].status \in Completed => ran[r] = 1..Len(table[r].up)

\* The inductive invariant: a row that is not finished belongs to at most one
\* applier, which is the only writer of its progress.
InStep ==
    /\ TypeOK
    /\ \A r \in 1..Len(table) : RowInStep(r)
    /\ \A e \in Engines :
          /\ eng[e].pc \notin Resetting
          /\ eng[e].pc \in Applying => ApplierInStep(eng[e])
          /\ eng[e].pc \in Unapplying => UnapplierInStep(eng[e])
    /\ \A e, f \in Engines :
          /\ eng[e].pc \in Applying /\ eng[f].pc \in Applying
          /\ eng[e].revision = eng[f].revision
          => e = f

\* A step of one engine keeps the invariant of the others if it writes no row but
\* its own, or one that is completed and stays so.
LEMMA OneEngineStep ==
    ASSUME InStep, TypeOK', NEW e \in Engines,
           \A f \in Engines \ {e} : eng'[f] = eng[f],
           Len(table) <= Len(table'),
           \A q \in 1..Len(table) :
              \/ table'[q] = table[q] /\ ran'[q] = ran[q]
              \/ eng[e].pc \in Applying /\ q = eng[e].revision
              \/ /\ table[q].status \in Completed /\ table'[q].status \in Completed
                 /\ table'[q].name = table[q].name
                 /\ table'[q].applied = table[q].applied,
           \A r \in 1..Len(table') : RowInStep(r)',
           eng'[e].pc \notin Resetting,
           eng'[e].pc \in Applying =>
              /\ ApplierInStep(eng[e])'
              /\ \/ eng[e].pc \in Applying /\ eng'[e].revision = eng[e].revision
                 \/ eng'[e].revision > Len(table),
           eng'[e].pc \in Unapplying => UnapplierInStep(eng[e])'
    PROVE  InStep'
<1>0. Len(table) \in Nat /\ Len(table') \in Nat
  BY SMTT(60) DEF InStep, TypeOK
<1>1. ASSUME NEW f \in Engines \ {e}, eng[f].pc \in Applying
      PROVE  ApplierInStep(eng[f])'
  <2> DEFINE q == eng[f].revision
  <2>1. ApplierInStep(eng[f])
    BY <1>1 DEF InStep
  <2>2. q \in 1..Len(table) /\ q \in 1..Len(table')
    BY <1>0, <2>1, SMTT(60) DEF ApplierInStep, OwnsRow
  <2>3. table[q].status \notin Completed
    BY <1>1, <2>1 DEF ApplierInStep, Completed, Applying
  <2>4. ~ (eng[e].pc \in Applying /\ q = eng[e].revision)
    BY <1>1 DEF InStep
  <2>5. table'[q] = table[q] /\ ran'[q] = ran[q] /\ eng'[f] = eng[f]
    BY <1>1, <2>2, <2>3, <2>4
  <2> QED
    BY <2>1, <2>2, <2>5 DEF ApplierInStep, OwnsRow
<1>2. ASSUME NEW f \in Engines \ {e}, eng[f].pc \in Unapplying
      PROVE  UnapplierInStep(eng[f])'
  <2> DEFINE q == eng[f].revision
  <2>1. UnapplierInStep(eng[f])
    BY <1>2 DEF InStep
  <2>2. q \in 1..Len(table) /\ q \in 1..Len(table')
    BY <1>0, <2>1, SMTT(60) DEF UnapplierInStep, OwnsRow
  <2>3. ~ (eng[e].pc \in Applying /\ q = eng[e].revision)
    BY <2>1 DEF InStep, ApplierInStep, UnapplierInStep, Completed, Applying
  <2>4. /\ table'[q].status \in Completed
        /\ table'[q].name = table[q].name /\ table'[q].applied = table[q].applied
    BY <2>1, <2>2, <2>3 DEF UnapplierInStep
  <2> QED
    BY <1>2, <2>1, <2>2, <2>4 DEF UnapplierInStep, OwnsRow
<1>3. \A f \in Engines :
         /\ eng'[f].pc \notin Resetting
         /\ eng'[f].pc \in Applying => ApplierInStep(eng[f])'
         /\ eng'[f].pc \in Unapplying => UnapplierInStep(eng[f])'
  BY <1>1, <1>2 DEF InStep
<1>4. ASSUME NEW f \in Engines \ {e}, eng'[e].pc \in Applying, eng[f].pc \in Applying
      PROVE  eng'[e].revision # eng[f].revision
  <2>1. eng[f].revision \in 1..Len(table)
    BY <1>4 DEF InStep, ApplierInStep, OwnsRow
  <2>2. CASE eng[e].pc \in Applying /\ eng'[e].revision = eng[e].revision
    BY <1>4, <2>2 DEF InStep
  <2>3. CASE eng'[e].revision > Len(table)
    BY <1>0, <2>1, <2>3, SMTT(60)
  <2> QED
    BY <1>4, <2>2, <2>3
<1>5. ASSUME NEW f \in Engines, NEW g \in Engines, f # g,
             eng'[f].pc \in Applying, eng'[g].pc \in Applying
      PROVE  eng'[f].revision # eng'[g].revision
  <2>1. CASE f = e
    BY <1>4, <1>5, <2>1
  <2>2. CASE g = e
    BY <1>4, <1>5, <2>2
  <2>3. CASE f # e /\ g # e
    BY <1>5, <2>3 DEF InStep
  <2> QED
    BY <2>1, <2>2, <2>3
<1> QED
  BY <1>3, <1>5 DEF InStep

PhaseStep ==
    \A r \in 1..Len(table) :
        r <= Len(table') => PhaseAdvances(table[r].status, table'[r].status)

\* A row that is not written stays in its phase.
LEMMA PhaseReflexive == \A s : PhaseAdvances(s, s)
BY SMTT(60) DEF PhaseAdvances, Phase

\* An engine goes on with its command.
LEMMA GotoFacts ==
    ASSUME EnginesOK, NEW e \in Engines, NEW pc, Goto(e, pc)
    PROVE  /\ \A f \in Engines \ {e} : eng'[f] = eng[f]
           /\ eng'[e].pc = pc
           /\ eng'[e].name = eng[e].name /\ eng'[e].revision = eng[e].revision
           /\ eng'[e].up = eng[e].up /\ eng'[e].step = eng[e].step
           /\ eng'[e].applied = eng[e].applied
<1>1. eng[e] \in Command
  BY DEF EnginesOK
<1> QED
  BY <1>1 DEF Goto, EnginesOK, Command

\* What the step behind the destructive changes check leaves alone.
LEMMA PassCheckFacts ==
    ASSUME EnginesOK, NEW e \in Engines, NEW pc, PassCheck(e, pc)
    PROVE  /\ \A f \in Engines \ {e} : eng'[f] = eng[f]
           /\ eng'[e].pc = pc
           /\ eng'[e].name = eng[e].name /\ eng'[e].revision = eng[e].revision
           /\ eng'[e].up = eng[e].up /\ eng'[e].step = eng[e].step
           /\ eng'[e].applied = eng[e].applied
<1>1. eng[e] \in Command
  BY DEF EnginesOK
<1> QED
  BY <1>1 DEF PassCheck, EnginesOK, Command

\* A command returns.
LEMMA ReturnFacts ==
    ASSUME EnginesOK, NEW e \in Engines, Return(e)
    PROVE  /\ \A f \in Engines \ {e} : eng'[f] = eng[f]
           /\ eng'[e].pc = "idle"
BY DEF Return, EnginesOK, Blank

\* A step that writes neither rows nor history and leaves the applier.
LEMMA HarmlessStep ==
    ASSUME InStep, TypeOK', NEW e \in Engines,
           \A f \in Engines \ {e} : eng'[f] = eng[f],
           eng'[e].pc \notin Applying \cup Unapplying \cup Resetting,
           table' = table, ran' = ran
    PROVE  InStep' /\ PhaseStep
<1>1. \A r \in 1..Len(table') : RowInStep(r)'
  BY DEF InStep, RowInStep
<1>2. Len(table) <= Len(table')
  BY SMTT(60) DEF InStep, TypeOK
<1>3. InStep'
  BY <1>1, <1>2, OneEngineStep
<1> QED
  BY <1>3, PhaseReflexive DEF PhaseStep

\* UPDATE of the row an engine works on.
LEMMA UpdatedRow ==
    ASSUME table \in Seq(Row), NEW c \in Command, OwnsRow(c), NEW status,
           table' = Updated(c, status)
    PROVE  /\ Len(table') = Len(table)
           /\ \A q \in 1..Len(table) : q # c.revision => table'[q] = table[q]
           /\ table'[c.revision].status = status
           /\ table'[c.revision].applied = c.applied
           /\ table'[c.revision].name = table[c.revision].name
           /\ table'[c.revision].up = table[c.revision].up
<1> DEFINE row == [table[c.revision] EXCEPT !.status = status,
                                            !.applied = c.applied,
                                            !.rolled_back = c.rolled_back]
<1>1. c.revision \in 1..Len(table) /\ table[c.revision] \in Row
  BY SMTT(60) DEF OwnsRow
<1>2. table' = [table EXCEPT ![c.revision] = row]
  BY <1>1 DEF Updated, OwnsRow, Row
<1>3. /\ row.status = status /\ row.applied = c.applied
      /\ row.name = table[c.revision].name /\ row.up = table[c.revision].up
  BY <1>1 DEF Row
<1> HIDE DEF row
<1> QED
  BY <1>1, <1>2, <1>3, SMTT(60)

\* The steps before the row exists, and the steps that end a command.
LEMMA PreparingInStep ==
    ASSUME InStep, TypeOK', NEW e \in Engines,
           \/ ApplyLast(e) \/ handle_transition_out_of_watch_mode(e)
           \/ CheckNotApplied(e) \/ handle_normal_migration(e) \/ Describe(e)
           \/ DestructiveChangesCheck(e) \/ CommandFails(e) \/ CreatePanics(e)
           \/ Crash(e) \/ Restart(e)
    PROVE  InStep' /\ PhaseStep
<1> USE DEF Applying, Unapplying, Resetting
<1>1. EnginesOK /\ eng[e] \in Command
  BY DEF InStep, TypeOK, EnginesOK
<1>2. table' = table /\ ran' = ran
  BY DEF ApplyLast, handle_transition_out_of_watch_mode, CheckNotApplied,
         handle_normal_migration, Describe, DestructiveChangesCheck, CommandFails,
         CreatePanics, Crash, Restart
<1>3. CASE ApplyLast(e)
  BY <1>1, <1>2, <1>3, GotoFacts, HarmlessStep, SMTT(60) DEF ApplyLast
<1>4. ASSUME NEW base, Calculate(e, base)
      PROVE  InStep' /\ PhaseStep
  <2>1. CASE Return(e)
    BY <1>1, <1>2, <2>1, ReturnFacts, HarmlessStep
  <2>2. CASE ~ Return(e)
    <3>1. /\ \A f \in Engines \ {e} : eng'[f] = eng[f]
          /\ eng'[e].pc = "describe"
      BY <1>1, <1>4, <2>2 DEF Calculate, EnginesOK, Command
    <3> QED
      BY <1>2, <3>1, HarmlessStep
  <2> QED
    BY <2>1, <2>2
<1>5. CASE handle_transition_out_of_watch_mode(e)
  BY <1>4, <1>5 DEF handle_transition_out_of_watch_mode
<1>6. CASE CheckNotApplied(e)
  BY <1>1, <1>2, <1>6, GotoFacts, ReturnFacts, HarmlessStep, SMTT(60) DEF CheckNotApplied
<1>7. CASE handle_normal_migration(e)
  BY <1>4, <1>7 DEF handle_normal_migration
<1>8. CASE Describe(e)
  <2>1. /\ \A f \in Engines \ {e} : eng'[f] = eng[f]
        /\ eng'[e].pc = "check"
    <3>1. PICK up, down : eng' = [eng EXCEPT ![e].pc = "check", ![e].before = db,
                                             ![e].up = up, ![e].down = down]
      BY <1>8 DEF Describe
    <3> QED
      BY <1>1, <3>1 DEF EnginesOK, Command
  <2> QED
    BY <1>2, <2>1, HarmlessStep
<1>9. CASE DestructiveChangesCheck(e)
  BY <1>1, <1>2, <1>9, PassCheckFacts, ReturnFacts, HarmlessStep, SMTT(60) DEF DestructiveChangesCheck
<1>10. CASE CommandFails(e) \/ Restart(e)
  BY <1>1, <1>2, <1>10, ReturnFacts, HarmlessStep DEF CommandFails, Restart
<1>11. CASE CreatePanics(e) \/ Crash(e)
  <2>1. /\ \A f \in Engines \ {e} : eng'[f] = eng[f]
        /\ eng'[e].pc = "down"
    BY <1>1, <1>11, SMTT(60) DEF CreatePanics, Crash, EnginesOK, Blank
  <2> QED
    BY <1>2, <2>1, HarmlessStep
<1> QED
  BY <1>3, <1>5, <1>6, <1>7, <1>8, <1>9, <1>10, <1>11

\* A new row is in step: nothing was executed for it.
LEMMA CreateInStep ==
    ASSUME InStep, TypeOK', NEW e \in Engines, Create(e)
    PROVE  InStep' /\ PhaseStep
<1> DEFINE n == Len(table) + 1
           row == [name |-> eng[e].name, status |-> "Pending", applied |-> 0,
                   rolled_back |-> 0, datamodel |-> eng[e].datamodel,
                   before |-> eng[e].before, up |-> eng[e].up, down |-> eng[e].down]
<1>1. /\ EnginesOK /\ eng[e] \in Command /\ eng[e].pc = "create"
      /\ table \in Seq(Row) /\ ran \in Seq(SUBSET Nat) /\ Len(ran) = Len(table)
  BY DEF InStep, TypeOK, EnginesOK, Create, At
<1>2. table' = Append(table, row) /\ ran' = Append(ran, {})
  BY DEF Create
<1>3. /\ Len(table') = n /\ table'[n] = row /\ ran'[n] = {}
      /\ \A q \in 1..Len(table) : table'[q] = table[q] /\ ran'[q] = ran[q]
  <2> HIDE DEF row
  <2> QED
    BY <1>1, <1>2, SMTT(60)
<1>4. /\ row.name = eng[e].name /\ row.up = eng[e].up
      /\ row.status = "Pending" /\ row.applied = 0
  OBVIOUS
<1>5. /\ \A f \in Engines \ {e} : eng'[f] = eng[f]
      /\ eng'[e].pc = "mark_in_progress" /\ eng'[e].revision = n
      /\ eng'[e].name = eng[e].name /\ eng'[e].up = eng[e].up
      /\ eng'[e].step = 0 /\ eng'[e].applied = 0
  BY <1>1 DEF Create, EnginesOK, Command
<1> HIDE DEF row
<1>6. ApplierInStep(eng[e])'
  BY <1>1, <1>3, <1>4, <1>5, SMTT(60) DEF ApplierInStep, OwnsRow
<1>7. \A r \in 1..Len(table') : RowInStep(r)'
  <2> SUFFICES ASSUME NEW r \in 1..n
               PROVE  RowInStep(r)'
    BY <1>3
  <2>1. CASE r = n
    <3>1. 1..0 = {} /\ "Pending" \notin Completed
      BY SMTT(60) DEF Completed
    <3>2. table'[r].applied = 0 /\ ran'[r] = {} /\ table'[r].status = "Pending"
      BY <1>3, <1>4, <2>1
    <3> QED
      BY <3>1, <3>2 DEF RowInStep
  <2>2. CASE r # n
    <3>1. r \in 1..Len(table) /\ RowInStep(r)
      BY <1>1, <2>2, SMTT(60) DEF InStep
    <3> QED
      BY <1>3, <3>1 DEF RowInStep
  <2> QED
    BY <2>1, <2>2
<1>8. InStep'
  <2>1. Len(table) <= Len(table') /\ eng'[e].revision > Len(table)
    BY <1>1, <1>3, <1>5, SMTT(60)
  <2> QED
    BY <1>3, <1>5, <1>6, <1>7, <2>1, OneEngineStep DEF Resetting, Unapplying
<1>9. PhaseStep
  BY <1>3, PhaseReflexive DEF PhaseStep
<1> QED
  BY <1>8, <1>9

\* An applier writes the row it owns: what the lemma asks for is about that row.
LEMMA ApplierWrites ==
    ASSUME InStep, TypeOK', NEW e \in Engines, eng[e].pc \in Applying,
           NEW c \in Command, c.name = eng[e].name, c.revision = eng[e].revision,
           NEW status, table' = Updated(c, status), ran' = ran,
           \A f \in Engines \ {e} : eng'[f] = eng[f],
           LET r == c.revision
           IN  /\ ran[r] \in {1..c.applied, 1..(c.applied + 1)}
               /\ status \in Completed => ran[r] = 1..Len(table[r].up)
               /\ PhaseAdvances(table[r].status, status),
           eng'[e].pc \notin Resetting \cup Unapplying,
           eng'[e].pc \in Applying =>
              ApplierInStep(eng[e])' /\ eng'[e].revision = eng[e].revision
    PROVE  InStep' /\ PhaseStep
<1> DEFINE r == c.revision
<1>1. table \in Seq(Row) /\ Len(table) \in Nat
  BY SMTT(60) DEF InStep, TypeOK
<1>2. OwnsRow(c)
  BY DEF InStep, ApplierInStep, OwnsRow
<1>3. /\ Len(table') = Len(table) /\ r \in 1..Len(table)
      /\ \A q \in 1..Len(table) : q # r => table'[q] = table[q]
      /\ table'[r].status = status /\ table'[r].applied = c.applied
      /\ table'[r].up = table[r].up
  BY <1>1, <1>2, UpdatedRow DEF OwnsRow
<1>4. \A q \in 1..Len(table') : RowInStep(q)'
  <2> SUFFICES ASSUME NEW q \in 1..Len(table)
               PROVE  RowInStep(q)'
    BY <1>3
  <2>1. CASE q = r
    BY <1>3, <2>1 DEF RowInStep
  <2>2. CASE q # r
    BY <1>3, <2>2 DEF InStep, RowInStep
  <2> QED
    BY <2>1, <2>2
<1>5. InStep'
  BY <1>1, <1>3, <1>4, OneEngineStep, SMTT(60)
<1>6. PhaseStep
  BY <1>3, PhaseReflexive DEF PhaseStep
<1> QED
  BY <1>5, <1>6

\* A rollback writes the status of its own row only.
LEMMA UnapplierWrites ==
    ASSUME InStep, TypeOK', NEW e \in Engines, eng[e].pc \in Unapplying,
           NEW c \in Command, c.name = eng[e].name, c.revision = eng[e].revision,
           c.applied = eng[e].applied,
           NEW status \in Completed \ {"MigrationSuccess"},
           table' = Updated(c, status), ran' = ran,
           \A f \in Engines \ {e} : eng'[f] = eng[f],
           eng'[e].pc \notin Resetting \cup Applying,
           eng'[e].pc \in Unapplying =>
              /\ eng'[e].name = eng[e].name /\ eng'[e].revision = eng[e].revision
              /\ eng'[e].applied = eng[e].applied
    PROVE  InStep' /\ PhaseStep
<1> DEFINE r == c.revision
<1>1. table \in Seq(Row) /\ Len(table) \in Nat
  BY SMTT(60) DEF InStep, TypeOK
<1>2. UnapplierInStep(eng[e]) /\ OwnsRow(c)
  BY DEF InStep, UnapplierInStep, OwnsRow
<1>3. /\ Len(table') = Len(table) /\ r \in 1..Len(table)
      /\ \A q \in 1..Len(table) : q # r => table'[q] = table[q]
      /\ table'[r].status = status /\ table'[r].applied = table[r].applied
      /\ table'[r].up = table[r].up /\ table'[r].name = table[r].name
      /\ table[r].status \in Completed
  BY <1>1, <1>2, UpdatedRow DEF OwnsRow, UnapplierInStep
<1>4. \A q \in 1..Len(table') : RowInStep(q)'
  <2> SUFFICES ASSUME NEW q \in 1..Len(table)
               PROVE  RowInStep(q)'
    BY <1>3
  <2>0. RowInStep(q)
    BY DEF InStep
  <2>1. CASE q = r
    BY <1>3, <2>0, <2>1 DEF RowInStep
  <2>2. CASE q # r
    BY <1>3, <2>0, <2>2 DEF RowInStep
  <2> QED
    BY <2>1, <2>2
<1>5. eng'[e].pc \in Unapplying => UnapplierInStep(eng[e])'
  BY <1>2, <1>3 DEF UnapplierInStep, OwnsRow
<1>6. InStep'
  BY <1>1, <1>3, <1>4, <1>5, OneEngineStep, SMTT(60)
<1>7. PhaseStep
  <2>1. PhaseAdvances(table[r].status, status)
    BY <1>3, SMTT(60) DEF Completed, PhaseAdvances, Phase
  <2> QED
    BY <1>3, <2>1, PhaseReflexive DEF PhaseStep
<1> QED
  BY <1>6, <1>7

\* MigrationApplier::apply
LEMMA ForwardInStep ==
    ASSUME InStep, TypeOK', NEW e \in Engines,
           \/ MarkInProgress(e) \/ ApplyStep(e) \/ ApplyStepFails(e)
           \/ ForwardProgress(e) \/ FinishApply(e)
    PROVE  InStep' /\ PhaseStep
<1> DEFINE c == eng[e]
           r == eng[e].revision
<1> USE DEF Applying, Unapplying, Resetting
<1>1. /\ EnginesOK /\ c \in Command /\ c.pc \in Applying
      /\ ran \in Seq(SUBSET Nat) /\ Len(ran) = Len(table) /\ Len(table) \in Nat
  BY SMTT(60) DEF InStep, TypeOK, EnginesOK, MarkInProgress, ApplyStep, ApplyStepFails,
         ForwardProgress, FinishApply, At
<1>2. /\ ApplierInStep(c) /\ r \in 1..Len(table) /\ RowInStep(r) /\ OwnsRow(c)
      /\ c.step \in Nat /\ c.applied = c.step /\ Len(c.up) \in Nat
      /\ table \in Seq(Row)
  <2>1. ApplierInStep(c)
    BY <1>1 DEF InStep
  <2>2. OwnsRow(c) /\ c.applied = c.step
    BY <2>1 DEF ApplierInStep
  <2>3. r \in 1..Len(table)
    BY <2>2 DEF OwnsRow
  <2>4. RowInStep(r) /\ table \in Seq(Row)
    BY <2>3 DEF InStep, TypeOK
  <2>5. c.step \in Nat /\ Len(c.up) \in Nat
    BY <1>1, SMTT(60) DEF Command
  <2> QED
    BY <2>1, <2>2, <2>3, <2>4, <2>5
<1>3. CASE MarkInProgress(e)
  <2>1. /\ c.pc = "mark_in_progress" /\ table' = Updated(c, "MigrationInProgress")
        /\ Goto(e, "forward") /\ ran' = ran
    BY <1>3 DEF MarkInProgress, At
  <2>2. table[r].status = "Pending" /\ c.step = 0 /\ ran[r] = 1..0 /\ table[r].up = c.up
    BY <1>2, <2>1 DEF ApplierInStep
  <2>3. /\ Len(table') = Len(table) /\ table'[r].status = "MigrationInProgress"
        /\ table'[r].applied = c.applied /\ table'[r].name = table[r].name
        /\ table'[r].up = table[r].up
    <3> HIDE DEF c
    <3>1. r = c.revision
      BY DEF c
    <3> QED
      BY <1>1, <1>2, <2>1, <3>1, UpdatedRow
  <2>4. ApplierInStep(eng[e])' /\ eng'[e].pc = "forward" /\ eng'[e].revision = r
    <3>1. /\ eng'[e].pc = "forward" /\ eng'[e].revision = r /\ eng'[e].up = c.up
          /\ eng'[e].step = 0 /\ eng'[e].applied = 0 /\ eng'[e].name = c.name
      BY <1>1, <1>2, <2>1, <2>2, GotoFacts
    <3>2. table[r].name = c.name /\ c.applied = 0
      BY <1>2, <2>2 DEF ApplierInStep, OwnsRow
    <3>3. 0 < Len(c.up) \/ 0 = Len(c.up)
      BY <1>2, SMTT(60)
    <3> QED
      BY <1>2, <2>1, <2>2, <2>3, <3>1, <3>2, <3>3 DEF ApplierInStep, OwnsRow
  <2>5. PhaseAdvances("Pending", "MigrationInProgress")
    BY SMTT(60) DEF PhaseAdvances, Phase
  <2>6. "MigrationInProgress" \notin Completed
    BY DEF Completed
  <2>7. /\ ran[r] \in {1..c.applied, 1..(c.applied + 1)}
        /\ PhaseAdvances(table[r].status, "MigrationInProgress")
    BY <1>2, <2>2, <2>5
  <2>8. \A f \in Engines \ {e} : eng'[f] = eng[f]
    BY <1>1, <2>1, GotoFacts
  <2> QED
    BY <1>1, <1>2, <2>1, <2>4, <2>6, <2>7, <2>8, ApplierWrites
<1>4. CASE FinishApply(e)
  <2>0. Return(e) /\ ran' = ran
    BY <1>4 DEF FinishApply
  <2>1. CASE c.pc = "finish_ok"
    <3>1. table' = Updated(c, "MigrationSuccess")
      BY <1>4, <2>1 DEF FinishApply, At
    <3>2. /\ table[r].status = "MigrationInProgress" /\ ran[r] = 1..Len(table[r].up)
          /\ Len(table[r].up) \in {c.applied, c.applied + 1}
      BY <1>2, <2>1 DEF ApplierInStep
    <3>3. PhaseAdvances("MigrationInProgress", "MigrationSuccess")
      BY SMTT(60) DEF PhaseAdvances, Phase
    <3> QED
      BY <1>1, <1>2, <2>0, <3>1, <3>2, <3>3, ReturnFacts, ApplierWrites
  <2>2. CASE c.pc = "finish_err"
    <3>1. table' = Updated(c, "MigrationFailure")
      BY <1>4, <2>2 DEF FinishApply, At
    <3>2. /\ table[r].status = "MigrationInProgress"
          /\ ran[r] \in {1..c.applied, 1..(c.applied + 1)}
      BY <1>2, <2>2 DEF ApplierInStep
    <3>3. PhaseAdvances("MigrationInProgress", "MigrationFailure")
      BY SMTT(60) DEF PhaseAdvances, Phase
    <3>4. "MigrationFailure" \notin Completed
      BY DEF Completed
    <3> QED
      BY <1>1, <1>2, <2>0, <3>1, <3>2, <3>3, <3>4, ReturnFacts, ApplierWrites
  <2> QED
    BY <1>4, <2>1, <2>2 DEF FinishApply, At
<1>5. ASSUME table' = table, ran' \in {ran, RanStep(c)},
             c.pc = "forward", Goto(e, eng'[e].pc),
             eng'[e].pc = "forward_progress" =>
                ran' = RanStep(c) /\ c.step + 1 < Len(c.up),
             eng'[e].pc = "finish_ok" =>
                \/ ran' = RanStep(c) /\ c.step + 1 = Len(c.up)
                \/ ran' = ran /\ c.step = Len(c.up),
             eng'[e].pc \in {"forward_progress", "finish_ok", "finish_err"}
      PROVE  InStep' /\ PhaseStep
  <2>1. /\ table[r].status = "MigrationInProgress" /\ table[r].up = c.up
        /\ table[r].name = c.name /\ table[r].applied = c.step /\ ran[r] = 1..c.step
    BY <1>2, <1>5 DEF ApplierInStep, OwnsRow
  <2>2. ran' = RanStep(c) => ran'[r] = 1..(c.step + 1)
    <3>1. r \in 1..Len(ran)
      BY <1>1, <1>2
    <3>2. (1..c.step) \cup {c.step + 1} = 1..(c.step + 1)
      BY <1>2, SMTT(60)
    <3>3. RanStep(c) = [ran EXCEPT ![r] = ran[r] \cup {c.step + 1}]
      BY <1>1, <3>1 DEF RanStep
    <3>4. RanStep(c)[r] = ran[r] \cup {c.step + 1}
      BY <1>1, <3>1, <3>3, SMTT(60)
    <3> QED
      BY <2>1, <3>2, <3>4
  <2>3. \A q \in 1..Len(table) : q # r => ran'[q] = ran[q]
    BY <1>1, <1>5, SMTT(60) DEF RanStep
  <2>4. ran'[r] \in {1..c.step, 1..(c.step + 1)}
    BY <1>5, <2>1, <2>2
  <2>5. /\ \A f \in Engines \ {e} : eng'[f] = eng[f]
        /\ eng'[e].revision = r /\ eng'[e].up = c.up /\ eng'[e].name = c.name
        /\ eng'[e].step = c.step /\ eng'[e].applied = c.step
    BY <1>1, <1>2, <1>5, GotoFacts
  <2>6. ApplierInStep(eng[e])'
    BY <1>2, <1>5, <2>1, <2>2, <2>4, <2>5 DEF ApplierInStep, OwnsRow
  <2>7. \A q \in 1..Len(table') : RowInStep(q)'
    <3> SUFFICES ASSUME NEW q \in 1..Len(table)
                 PROVE  RowInStep(q)'
      BY <1>5
    <3>1. CASE q = r
      <4>1. table[r].status \notin Completed
        BY <2>1 DEF Completed
      <4> QED
        BY <1>5, <2>1, <2>4, <3>1, <4>1 DEF RowInStep
    <3>2. CASE q # r
      BY <1>5, <2>3, <3>2 DEF RowInStep, InStep
    <3> QED
      BY <3>1, <3>2
  <2>8. InStep'
    <3>1. Len(table) <= Len(table')
      BY <1>1, <1>5, SMTT(60)
    <3>2. eng'[e].pc \notin Resetting /\ eng'[e].pc \notin Unapplying
      BY <1>5
    <3> QED
      BY <1>1, <1>5, <2>3, <2>5, <2>6, <2>7, <3>1, <3>2, OneEngineStep
  <2>9. PhaseStep
    BY <1>5, PhaseReflexive DEF PhaseStep
  <2> QED
    BY <2>8, <2>9
<1>6. CASE ApplyStep(e)
  <2>1. /\ c.pc = "forward" /\ table' = table
        /\ \/ /\ c.step + 1 < Len(c.up) /\ ran' = RanStep(c)
              /\ Goto(e, "forward_progress")
           \/ /\ c.step < Len(c.up) /\ ~ (c.step + 1 < Len(c.up)) /\ ran' = RanStep(c)
              /\ Goto(e, "finish_ok")
           \/ /\ ~ (c.step < Len(c.up)) /\ ran' = ran /\ Goto(e, "finish_ok")
    BY <1>6 DEF ApplyStep, At
  <2>2. c.step < Len(c.up) \/ c.step = Len(c.up)
    <3>1. c.pc = "forward" /\ ApplierInStep(c)
      BY <1>2, <2>1
    <3> QED
      BY <3>1 DEF ApplierInStep
  <2> QED
    BY <1>1, <1>2, <1>5, <2>1, <2>2, GotoFacts, SMTT(60)
<1>7. CASE ApplyStepFails(e)
  <2>1. /\ c.pc = "forward" /\ table' = table /\ Goto(e, "finish_err")
        /\ ran' \in {ran, RanStep(c)}
    BY <1>7 DEF ApplyStepFails, At
  <2> QED
    BY <1>1, <1>5, <2>1, GotoFacts, SMTT(60)
<1>8. CASE ForwardProgress(e)
  <2> DEFINE d == [eng[e] EXCEPT !.step = @ + 1, !.applied = @ + 1]
  <2>1. /\ c.pc = "forward_progress" /\ ran' = ran
        /\ \/ table' = Updated(d, "MigrationInProgress")
              /\ eng' = [eng EXCEPT ![e] = [d EXCEPT !.pc = "forward"]]
           \/ table' = table
              /\ eng' = [eng EXCEPT ![e] = [d EXCEPT !.pc = "finish_err"]]
    BY <1>8 DEF ForwardProgress, At
  <2>2. /\ d \in Command /\ d.name = c.name /\ d.revision = r /\ d.up = c.up
        /\ d.step = c.step + 1 /\ d.applied = c.step + 1
    <3>1. d = [c EXCEPT !.step = c.step + 1, !.applied = c.applied + 1]
      BY <1>1 DEF Command
    <3>2. c.step + 1 \in Nat /\ c.applied + 1 \in Nat
      BY <1>2, SMTT(60)
    <3> QED
      BY <1>1, <1>2, <3>1, <3>2 DEF Command
  <2> HIDE DEF d
  <2>3. /\ \A f \in Engines \ {e} : eng'[f] = eng[f]
        /\ eng'[e].name = c.name /\ eng'[e].revision = r /\ eng'[e].up = c.up
        /\ eng'[e].step = c.step + 1 /\ eng'[e].applied = c.step + 1
        /\ eng'[e].pc \in {"forward", "finish_err"}
    BY <1>1, <2>1, <2>2, SMTT(60) DEF EnginesOK, Command
  <2>4. /\ table[r].status = "MigrationInProgress" /\ table[r].up = c.up
        /\ table[r].name = c.name /\ ran[r] = 1..(c.step + 1) /\ c.step + 1 < Len(c.up)
    BY <1>2, <2>1 DEF ApplierInStep, OwnsRow
  <2>5. CASE table' = table /\ eng'[e].pc = "finish_err"
    <3>1. ApplierInStep(eng[e])'
      BY <1>2, <2>1, <2>3, <2>4, <2>5 DEF ApplierInStep, OwnsRow
    <3>2. \A q \in 1..Len(table') : RowInStep(q)'
      BY <2>1, <2>5 DEF InStep, RowInStep
    <3>3. Len(table) <= Len(table')
      BY <1>1, <2>5, SMTT(60)
    <3>4. InStep'
      BY <1>1, <2>1, <2>3, <2>5, <3>1, <3>2, <3>3, OneEngineStep
    <3> QED
      BY <2>5, <3>4, PhaseReflexive DEF PhaseStep
  <2>6. CASE table' = Updated(d, "MigrationInProgress") /\ eng'[e].pc = "forward"
    <3>0. OwnsRow(d) /\ table \in Seq(Row)
      BY <1>2, <2>2, <2>4 DEF OwnsRow, InStep, TypeOK
    <3>1. /\ Len(table') = Len(table) /\ table'[r].status = "MigrationInProgress"
          /\ table'[r].applied = c.step + 1 /\ table'[r].name = c.name
          /\ table'[r].up = c.up
      <4>1. /\ Len(table') = Len(table) /\ table'[d.revision].status = "MigrationInProgress"
            /\ table'[d.revision].applied = d.applied
            /\ table'[d.revision].name = table[d.revision].name
            /\ table'[d.revision].up = table[d.revision].up
        <5> HIDE DEF d
        <5> QED
          BY <2>2, <2>6, <3>0, UpdatedRow
      <4> HIDE DEF d
      <4> QED
        BY <2>2, <2>4, <4>1
    <3>2. ApplierInStep(eng[e])'
      BY <1>2, <2>1, <2>3, <2>4, <2>6, <3>1 DEF ApplierInStep, OwnsRow
    <3>3. "MigrationInProgress" \notin Completed
      BY DEF Completed
    <3>4. ran[r] \in {1..d.applied, 1..(d.applied + 1)}
      BY <2>2, <2>4
    <3> QED
      BY <1>1, <2>1, <2>2, <2>3, <2>4, <2>6, <3>2, <3>3, <3>4, PhaseReflexive, ApplierWrites
  <2>7. \/ table' = table /\ eng'[e].pc = "finish_err"
        \/ table' = Updated(d, "MigrationInProgress") /\ eng'[e].pc = "forward"
    BY <1>1, <2>1, <2>2, SMTT(60) DEF EnginesOK, Command
  <2> QED
    BY <2>5, <2>6, <2>7
<1> QED
  BY <1>3, <1>4, <1>6, <1>7, <1>8

\* unapplyMigration and MigrationApplier::unapply
LEMMA BackwardInStep ==
    ASSUME InStep, TypeOK', NEW e \in Engines,
           \/ UnapplyLast(e) \/ UnapplyCheck(e) \/ MarkRollingBack(e) \/ UnapplyStep(e)
           \/ UnapplyStepFails(e) \/ BackwardProgress(e) \/ FinishUnapply(e)
    PROVE  InStep' /\ PhaseStep
<1> DEFINE c == eng[e]
<1> USE DEF Applying, Unapplying, Resetting
<1>0. {"RollingBack", "RollbackSuccess", "RollbackFailure"}
          \subseteq Completed \ {"MigrationSuccess"}
  BY DEF Completed
<1>1. /\ EnginesOK /\ c \in Command /\ table \in Seq(Row) /\ Len(table) \in Nat
  BY SMTT(60) DEF InStep, TypeOK, EnginesOK
\* A step that writes no row and stays in the unapplier, or leaves it.
<1>2. ASSUME table' = table, ran' = ran, \A f \in Engines \ {e} : eng'[f] = eng[f],
             eng'[e].pc \in Unapplying => UnapplierInStep(eng[e])',
             eng'[e].pc \notin Applying \cup Resetting
      PROVE  InStep' /\ PhaseStep
  <2>1. \A q \in 1..Len(table') : RowInStep(q)'
    BY <1>2 DEF InStep, RowInStep
  <2>2. Len(table) <= Len(table')
    BY <1>1, <1>2, SMTT(60)
  <2>3. InStep'
    BY <1>2, <2>1, <2>2, OneEngineStep
  <2> QED
    BY <1>2, <2>3, PhaseReflexive DEF PhaseStep
<1>3. ASSUME NEW pc \in Unapplying, c.pc \in Unapplying, Goto(e, pc),
             table' = table, ran' = ran
      PROVE  InStep' /\ PhaseStep
  <2>1. UnapplierInStep(c)
    BY <1>3 DEF InStep
  <2>2. UnapplierInStep(eng[e])'
    BY <1>1, <1>3, <2>1, GotoFacts DEF UnapplierInStep, OwnsRow
  <2> QED
    BY <1>1, <1>2, <1>3, <2>2, GotoFacts
<1>4. CASE UnapplyLast(e)
  <2>1. CASE last = 0
    <3>1. Return(e) /\ table' = table /\ ran' = ran
      BY <1>4, <2>1 DEF UnapplyLast
    <3> QED
      BY <1>1, <1>2, <3>1, ReturnFacts
  <2>2. CASE last # 0
    <3>1. /\ \A f \in Engines \ {e} : eng'[f] = eng[f]
          /\ eng'[e].pc = "unapply_check" /\ eng'[e].revision = last
          /\ eng'[e].name = table[last].name /\ eng'[e].applied = table[last].applied
      <4> DEFINE row == table[last]
                 d == [c EXCEPT
                        !.pc = "unapply_check", !.name = row.name, !.revision = last,
                        !.applied = row.applied, !.rolled_back = row.rolled_back,
                        !.datamodel = row.datamodel, !.before = row.before,
                        !.up = row.up, !.down = row.down]
      <4>1. eng' = [eng EXCEPT ![e] = d]
        BY <1>1, <1>4, <2>2 DEF UnapplyLast, EnginesOK, Command
      <4> HIDE DEF row
      <4>2. /\ d.pc = "unapply_check" /\ d.revision = last
            /\ d.name = row.name /\ d.applied = row.applied
        BY <1>1 DEF Command
      <4> HIDE DEF d
      <4> QED
        BY <1>1, <4>1, <4>2 DEF EnginesOK, row
    <3>2. last \in 1..Len(table) /\ table[last].status = "MigrationSuccess"
      BY <1>1, <2>2, LastInTable
    <3>3. table' = table /\ ran' = ran
      BY <1>4 DEF UnapplyLast
    <3>4. UnapplierInStep(eng[e])'
      BY <3>1, <3>2, <3>3 DEF UnapplierInStep, OwnsRow, Completed
    <3> QED
      BY <1>2, <3>1, <3>3, <3>4
  <2> QED
    BY <2>1, <2>2
<1>5. CASE UnapplyCheck(e)
  <2>1. /\ c.pc = "unapply_check" /\ table' = table /\ ran' = ran
        /\ Return(e) \/ PassCheck(e, "mark_rolling_back")
    BY <1>5 DEF UnapplyCheck, At
  <2>2. CASE PassCheck(e, "mark_rolling_back")
    <3>1. UnapplierInStep(c)
      BY <2>1 DEF InStep
    <3>2. UnapplierInStep(eng[e])'
      BY <1>1, <2>1, <2>2, <3>1, PassCheckFacts DEF UnapplierInStep, OwnsRow
    <3> QED
      BY <1>1, <1>2, <2>1, <2>2, <3>2, PassCheckFacts
  <2> QED
    BY <1>1, <1>2, <2>1, <2>2, ReturnFacts
<1>6. CASE MarkRollingBack(e)
  <2>1. /\ c.pc = "mark_rolling_back" /\ table' = Updated(c, "RollingBack")
        /\ ran' = ran /\ Goto(e, "backward")
    BY <1>6 DEF MarkRollingBack, At
  <2> QED
    BY <1>0, <1>1, <2>1, GotoFacts, UnapplierWrites, SMTT(60)
<1>7. CASE UnapplyStep(e)
  <2>1. /\ c.pc = "backward" /\ table' = table /\ ran' = ran
        /\ Goto(e, "backward_progress") \/ Goto(e, "rollback_ok")
    BY <1>7 DEF UnapplyStep, At
  <2> QED
    BY <1>3, <2>1
<1>8. CASE UnapplyStepFails(e)
  <2>1. c.pc = "backward" /\ table' = table /\ ran' = ran /\ Goto(e, "rollback_err")
    BY <1>8 DEF UnapplyStepFails, At
  <2> QED
    BY <1>3, <2>1
<1>9. CASE BackwardProgress(e)
  <2> DEFINE d == [eng[e] EXCEPT !.step = @ + 1, !.rolled_back = @ + 1]
  <2>1. /\ c.pc = "backward_progress" /\ ran' = ran
        /\ table' = table \/ table' = Updated(d, "RollingBack")
        /\ \/ eng' = [eng EXCEPT ![e] = [d EXCEPT !.pc = "backward"]]
           \/ eng' = [eng EXCEPT ![e] = [d EXCEPT !.pc = "rollback_err"]]
    BY <1>9 DEF BackwardProgress, At
  <2>2. /\ d \in Command /\ d.name = c.name /\ d.revision = c.revision
        /\ d.applied = c.applied
    <3>1. d = [c EXCEPT !.step = c.step + 1, !.rolled_back = c.rolled_back + 1]
      BY <1>1 DEF Command
    <3>2. c.step + 1 \in Nat /\ c.rolled_back + 1 \in Nat
      BY <1>1, SMTT(60) DEF Command
    <3> QED
      BY <1>1, <3>1, <3>2 DEF Command
  <2> HIDE DEF d
  <2>3. /\ \A f \in Engines \ {e} : eng'[f] = eng[f]
        /\ eng'[e].pc \in {"backward", "rollback_err"}
        /\ eng'[e].name = c.name /\ eng'[e].revision = c.revision
        /\ eng'[e].applied = c.applied
    BY <1>1, <2>1, <2>2, SMTT(60) DEF EnginesOK, Command
  <2>4. CASE table' = table
    <3>1. UnapplierInStep(c)
      BY <2>1 DEF InStep
    <3>2. UnapplierInStep(eng[e])'
      BY <2>3, <2>4, <3>1 DEF UnapplierInStep, OwnsRow
    <3> QED
      BY <1>2, <2>1, <2>3, <2>4, <3>2
  <2>5. CASE table' = Updated(d, "RollingBack")
    BY <1>0, <1>1, <2>1, <2>2, <2>3, <2>5, UnapplierWrites
  <2> QED
    BY <2>1, <2>4, <2>5
<1>10. CASE FinishUnapply(e)
  <2>1. /\ c.pc \in {"rollback_ok", "rollback_err"} /\ ran' = ran /\ Return(e)
        /\ \/ table' = Updated(c, "RollbackSuccess")
           \/ table' = Updated(c, "RollbackFailure")
    BY <1>10 DEF FinishUnapply, At
  <2> QED
    BY <1>0, <1>1, <2>1, ReturnFacts, UnapplierWrites
<1> QED
  BY <1>4, <1>5, <1>6, <1>7, <1>8, <1>9, <1>10

\* A request changes no row.
LEMMA AcceptInStep ==
    ASSUME InStep, TypeOK', NEW e \in Engines, Accept(e), "reset" \notin Commands
    PROVE  InStep' /\ PhaseStep
<1>1. eng \in [Engines -> Command]
  BY DEF InStep, TypeOK, EnginesOK
<1>2. table' = table /\ ran' = ran /\ eng[e].pc = "idle"
  BY DEF Accept, InferMigrationSteps, ApplyMigration, UnapplyMigration, Reset, Begin, At
<1>3. \A f \in Engines \ {e} : eng'[f] = eng[f]
  BY <1>1
     DEF Accept, InferMigrationSteps, ApplyMigration, UnapplyMigration, Reset, Begin
<1>4. eng'[e].pc \in {"idle", "apply_last", "unapply_last"}
  BY <1>1, <1>2
     DEF Accept, InferMigrationSteps, ApplyMigration, UnapplyMigration, Reset, Begin, Blank
<1> QED
  BY <1>2, <1>3, <1>4, HarmlessStep DEF Applying, Unapplying, Resetting

\* The empty table is in step.
LEMMA InStepInit == Init => InStep
<1> SUFFICES ASSUME Init
             PROVE  InStep
  OBVIOUS
<1>1. TypeOK /\ Len(table) = 0
  BY TypeInit DEF Init
<1>2. \A e \in Engines : eng[e].pc = "idle"
  BY DEF Init, Blank
<1> QED
  BY <1>1, <1>2, SMTT(60) DEF InStep, Applying, Unapplying, Resetting

\* A step of the environment.
LEMMA UntouchedStep ==
    ASSUME InStep, TypeOK', table' = table, ran' = ran, eng' = eng
    PROVE  InStep'
<1>1. \A r \in 1..Len(table') : RowInStep(r)'
  BY DEF InStep, RowInStep
<1>2. \A e \in Engines :
         /\ eng'[e].pc \notin Resetting
         /\ eng'[e].pc \in Applying => ApplierInStep(eng[e])'
         /\ eng'[e].pc \in Unapplying => UnapplierInStep(eng[e])'
  <2> TAKE e \in Engines
  <2>1. ApplierInStep(eng[e]) => ApplierInStep(eng[e])'
    BY DEF ApplierInStep, OwnsRow
  <2>2. UnapplierInStep(eng[e]) => UnapplierInStep(eng[e])'
    BY DEF UnapplierInStep, OwnsRow
  <2> QED
    BY <2>1, <2>2 DEF InStep
<1> QED
  BY <1>1, <1>2 DEF InStep

\* Every step keeps rows and appliers in step, and moves no status backwards.
LEMMA InStepStep ==
    ASSUME "reset" \notin Commands
    PROVE  InStep /\ [Next]_vars => InStep' /\ [PhaseStep]_vars
<1> SUFFICES ASSUME InStep, [Next]_vars
             PROVE  InStep' /\ [PhaseStep]_vars
  OBVIOUS
<1>0. TypeOK'
  BY TypeStep DEF InStep
<1>1. ASSUME NEW e \in Engines, Accept(e)
      PROVE  InStep' /\ PhaseStep
  BY <1>0, <1>1, AcceptInStep
<1>2. ASSUME NEW e \in Engines, Run(e)
      PROVE  InStep' /\ PhaseStep
  <2>1. ~ (ResetRows(e) \/ ResetDrop(e) \/ ResetInit(e))
    BY DEF ResetRows, ResetDrop, ResetInit, At, InStep, Resetting
  <2> QED
    BY <1>0, <1>2, <2>1, PreparingInStep, CreateInStep, ForwardInStep, BackwardInStep
      , SMTT(60) DEF Run
<1>3. ASSUME NEW e \in Engines, Crash(e) \/ Restart(e)
      PROVE  InStep' /\ PhaseStep
  BY <1>0, <1>3, PreparingInStep
<1>4. CASE Drift \/ Insert
  <2>1. UNCHANGED <<table, ran, eng>>
    BY <1>4 DEF Drift, Insert
  <2>2. InStep'
    BY <1>0, <2>1, UntouchedStep
  <2> QED
    BY <2>1, <2>2, PhaseReflexive DEF PhaseStep
<1>5. CASE UNCHANGED vars
  <2>1. InStep'
    BY <1>0, <1>5, UntouchedStep DEF vars
  <2> QED
    BY <1>5, <2>1
<1> QED
  BY <1>1, <1>2, <1>3, <1>4, <1>5 DEF Next

\* SuccessIsComplete: without concurrent resets, any number of engines may apply, roll
\* back, fail and crash, and still a row marked successful (or rolled back later) is
\* one all of whose steps the database executed.
THEOREM SuccessIsNeverPartial ==
    ASSUME "reset" \notin Commands
    PROVE  Spec => []SuccessIsComplete
<1>1. InStep => SuccessIsComplete
  BY DEF InStep, RowInStep, SuccessIsComplete
<1>2. InStep /\ [Next]_vars => InStep'
  BY InStepStep
<1> QED
  BY <1>1, <1>2, InStepInit, PTL DEF Spec

\* ProgressLagsByAtMostOne: the counter the applier persists after each step is never
\* ahead of the database and at most one step behind it, wherever an engine stops.
THEOREM ProgressIsTrue ==
    ASSUME "reset" \notin Commands
    PROVE  Spec => []ProgressLagsByAtMostOne
<1>1. InStep => ProgressLagsByAtMostOne
  BY DEF InStep, RowInStep, ProgressLagsByAtMostOne
<1>2. InStep /\ [Next]_vars => InStep'
  BY InStepStep
<1> QED
  BY <1>1, <1>2, InStepInit, PTL DEF Spec

\* PhasesOnlyAdvance: without concurrent resets, no interleaving of engines moves the
\* status of a row backwards: a failed or rolled back migration never becomes successful again.
THEOREM StatusOnlyAdvances ==
    ASSUME "reset" \notin Commands
    PROVE  Spec => PhasesOnlyAdvance
<1>1. InStep /\ [Next]_vars => InStep'
  BY InStepStep
<1>2. InStep /\ [Next]_vars => [PhaseStep]_vars
  BY InStepStep
<1> QED
  BY <1>1, <1>2, InStepInit, PTL DEF Spec, PhasesOnlyAdvance, PhaseStep
=============================================================================
