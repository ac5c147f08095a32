--------------------- MODULE MigrationEngineTypeProofs ---------------------
(***************************************************************************)
(* The operators of MigrationEngine, and its type correctness: for any     *)
(* number of engines, models, migrations and revisions.                    *)
(***************************************************************************)
EXTENDS MigrationEngine, FiniteSetTheorems, TLAPS

USE ZenonT(60)

--------------------------------------------------------------------------------
(* The operators *)

\* Newest picks the highest revision: a non-empty set of revisions has one.
LEMMA NewestProperty ==
    ASSUME NEW n \in Nat, NEW S \in SUBSET (1..n), S # {}
    PROVE  Newest(S) \in S /\ \A s \in S : s <= Newest(S)
<1> DEFINE T == {n - r : r \in S}
<1>0. \A r \in S : r \in Nat /\ n - r \in Nat
  BY SMTT(60)
<1>1. T \subseteq Nat /\ T # {}
  BY <1>0
<1>2. PICK x \in T : \A y \in T : ~ (<<y, x>> \in OpToRel(<, Nat))
  BY <1>1, NatLessThanWellFounded, WFMin
<1>3. \A y \in T : ~ (y < x)
  BY <1>1, <1>2 DEF OpToRel
<1>4. PICK r \in S : x = n - r
  BY <1>2
<1>5. \A s \in S : s <= r
  <2>1. TAKE s \in S
  <2>2. n - s \in T
    BY <2>1
  <2>3. ~ (n - s < x)
    BY <1>3, <2>2
  <2>4. r \in Nat /\ s \in Nat /\ n \in Nat
    BY <1>0
  <2> HIDE DEF T
  <2> QED
    BY <1>4, <2>3, <2>4, SMTT(60)
<1>6. \E q \in S : \A s \in S : s <= q
  BY <1>5
<1> QED
  BY <1>6 DEF Newest

\* last is a row of the table, or 0.
LEMMA LastInTable ==
    ASSUME table \in Seq(Row)
    PROVE  last = 0 \/ (last \in 1..Len(table) /\ table[last].status = "MigrationSuccess")
<1> DEFINE S == {r \in 1..Len(table) : table[r].status = "MigrationSuccess"}
<1>1. CASE S = {}
  BY <1>1 DEF last, Newest
<1>2. CASE S # {}
  <2>1. Len(table) \in Nat /\ S \in SUBSET (1..Len(table))
    BY SMTT(60)
  <2>2. last = Newest(S)
    BY DEF last
  <2>3. last \in S
    BY <1>2, <2>1, <2>2, NewestProperty
  <2> QED
    BY <2>3
<1> QED
  BY <1>1, <1>2

\* Replacing an element of a sequence.
LEMMA ReplacedInSeq ==
    ASSUME NEW S, NEW s \in Seq(S), NEW i \in 1..Len(s), NEW x \in S
    PROVE  [s EXCEPT ![i] = x] \in Seq(S) /\ Len([s EXCEPT ![i] = x]) = Len(s)
BY SMTT(60)

\* The steps between two schemas: a sequence that lists each difference once.
LEMMA DiffIsFinite ==
    ASSUME NEW from \in SUBSET Models, NEW to \in SUBSET Models
    PROVE  IsFiniteSet(Creates(from, to)) /\ IsFiniteSet(Drops(from, to))
<1>1. IsFiniteSet(to \ from) /\ IsFiniteSet(from \ to)
  BY ConstantsAssumption, FS_Subset
<1>2. IsFiniteSet(Creates(from, to))
  <2> DEFINE f == [m \in to \ from |-> [op |-> "create", table |-> m]]
  <2>1. f \in Surjection(to \ from, Creates(from, to))
    BY DEF Surjection, Creates
  <2> QED
    BY <1>1, <2>1, FS_Surjection
<1>3. IsFiniteSet(Drops(from, to))
  <2> DEFINE f == [m \in from \ to |-> [op |-> "drop", table |-> m]]
  <2>1. f \in Surjection(from \ to, Drops(from, to))
    BY DEF Surjection, Drops
  <2> QED
    BY <1>1, <2>1, FS_Surjection
<1> QED
  BY <1>2, <1>3

ListsDifferences(s, from, to) ==
    /\ \A i \in 1..Len(s) : s[i] \in Creates(from, to) \cup Drops(from, to)
    /\ \A d \in Creates(from, to) \cup Drops(from, to) : \E i \in 1..Len(s) : s[i] = d
    /\ \A i, j \in 1..Len(s) : s[i] = s[j] => i = j

\* What the database inferrer returns is such a sequence.
LEMMA InferDatabaseStepsProperty ==
    ASSUME NEW from \in SUBSET Models, NEW to \in SUBSET Models,
           NEW s \in InferDatabaseSteps(from, to)
    PROVE  s \in Seq(DatabaseStep) /\ ListsDifferences(s, from, to)
<1> DEFINE diff == Creates(from, to) \cup Drops(from, to)
           n == Cardinality(diff)
<1>1. n \in Nat
  BY DiffIsFinite, FS_Union, FS_CardinalityType
<1>2. diff \subseteq DatabaseStep
  BY SMTT(60) DEF Creates, Drops, DatabaseStep
<1>3. s \in [1..n -> diff]
  BY DEF InferDatabaseSteps
<1>4. s \in Seq(DatabaseStep) /\ Len(s) = n
  <2> HIDE DEF diff, n
  <2>1. s \in [1..n -> DatabaseStep]
    BY <1>2, <1>3
  <2> QED
    BY <1>1, <2>1, SMTT(60)
<1> QED
  BY <1>3, <1>4 DEF InferDatabaseSteps, ListsDifferences

--------------------------------------------------------------------------------
(* Type correctness *)

\* The memory of an engine without a command.
LEMMA BlankType ==
    ASSUME NEW pc \in PC
    PROVE  Blank(pc) \in Command
<1>1. "none" \in ForceFlag
  BY DEF ForceFlag
<1>2. NoSteps \in DatamodelSteps
  BY DEF DatamodelSteps, NoSteps
<1>3. <<>> \in Seq(DatabaseStep)
  BY SMTT(60)
<1> QED
  BY <1>1, <1>2, <1>3 DEF Blank, Command

\* An engine's state is replaced as a whole.
LEMMA EngineType ==
    ASSUME EnginesOK, NEW e \in Engines, NEW c \in Command,
           c.pc \notin Nameless => c.name \in Names,
           eng' = [eng EXCEPT ![e] = c]
    PROVE  EnginesOK'
BY DEF EnginesOK

\* An engine goes on with its command.
LEMMA GotoType ==
    ASSUME EnginesOK, NEW e \in Engines, NEW pc \in PC, Goto(e, pc),
           eng[e].pc \notin Nameless \/ pc \in Nameless
    PROVE  EnginesOK'
<1>1. eng[e] \in Command
  BY DEF EnginesOK
<1>2. [eng[e] EXCEPT !.pc = pc] \in Command
  BY <1>1 DEF Command
<1>3. eng' = [eng EXCEPT ![e] = [eng[e] EXCEPT !.pc = pc]]
  BY <1>1 DEF Goto, EnginesOK, Command
<1>4. /\ [eng[e] EXCEPT !.pc = pc].pc = pc
      /\ [eng[e] EXCEPT !.pc = pc].name = eng[e].name
  BY <1>1 DEF Command
<1>5. eng[e].pc \notin Nameless => eng[e].name \in Names
  BY DEF EnginesOK
<1> QED
  BY <1>2, <1>3, <1>4, <1>5, EngineType

\* An engine goes on behind the destructive changes check.
LEMMA PassCheckType ==
    ASSUME EnginesOK, filled \in SUBSET Models, NEW e \in Engines, NEW pc \in PC,
           PassCheck(e, pc), eng[e].pc \notin Nameless
    PROVE  EnginesOK'
<1> DEFINE c == [eng[e] EXCEPT !.pc = pc, !.seen = filled]
<1>1. eng[e] \in Command /\ eng[e].name \in Names
  BY DEF EnginesOK
<1>2. c \in Command /\ c.name = eng[e].name
  BY <1>1 DEF Command
<1>3. eng' = [eng EXCEPT ![e] = c]
  BY <1>1 DEF PassCheck, EnginesOK, Command
<1> QED
  BY <1>1, <1>2, <1>3, EngineType

\* A command returns.
LEMMA ReturnType ==
    ASSUME EnginesOK, NEW e \in Engines, Return(e)
    PROVE  EnginesOK'
<1>1. "idle" \in PC /\ "idle" \in Nameless
  BY DEF PC, Nameless
<1>2. Blank("idle") \in Command /\ Blank("idle").pc = "idle"
  BY <1>1, BlankType DEF Blank
<1> QED
  BY <1>1, <1>2, EngineType DEF Return

\* An UPDATE of a row leaves as many rows as there were.
LEMMA UpdatedType ==
    ASSUME table \in Seq(Row), NEW c \in Command, NEW status \in MigrationStatus
    PROVE  Updated(c, status) \in Seq(Row) /\ Len(Updated(c, status)) = Len(table)
<1>1. CASE c.revision \in 1..Len(table) /\ table[c.revision].name = c.name
  <2> DEFINE row == [table[c.revision] EXCEPT !.status = status,
                                              !.applied = c.applied,
                                              !.rolled_back = c.rolled_back]
  <2>1. table[c.revision] \in Row
    BY <1>1, SMTT(60)
  <2>2. row \in Row
    BY <2>1 DEF Row, Command
  <2>3. Updated(c, status) = [table EXCEPT ![c.revision] = row]
    BY <1>1, <2>1 DEF Updated, Row
  <2> QED
    <3>1. /\ [table EXCEPT ![c.revision] = row] \in Seq(Row)
          /\ Len([table EXCEPT ![c.revision] = row]) = Len(table)
      <4> HIDE DEF row
      <4> QED
        BY <1>1, <2>2, ReplacedInSeq, SMTT(60)
    <3> QED
      BY <2>3, <3>1
<1>2. CASE ~ (c.revision \in 1..Len(table) /\ table[c.revision].name = c.name)
  BY <1>2 DEF Updated
<1> QED
  BY <1>1, <1>2

\* The datamodel of the base that is read from the table.
LEMMA DatamodelAtType ==
    ASSUME TypeOK, NEW S \in SUBSET (1..Len(table))
    PROVE  DatamodelAt(Newest(S)) \in SUBSET Models
<1>1. CASE S = {}
  BY <1>1 DEF Newest, DatamodelAt
<1>2. CASE S # {}
  <2>1. Len(table) \in Nat
    BY SMTT(60) DEF TypeOK
  <2>2. Newest(S) \in 1..Len(table)
    BY <1>2, <2>1, NewestProperty
  <2>3. table[Newest(S)] \in Row
    BY <2>2, SMTT(60) DEF TypeOK
  <2> QED
    BY <2>3 DEF DatamodelAt, Row
<1> QED
  BY <1>1, <1>2

\* The next datamodel is one.
LEMMA CalculateType ==
    ASSUME EnginesOK, NEW e \in Engines, NEW base, Calculate(e, base),
           eng[e].pc \notin Nameless, DatamodelAt(base) \in SUBSET Models
    PROVE  EnginesOK'
<1> DEFINE next == CalculateDatamodel(DatamodelAt(base), eng[e].steps)
           c == [eng[e] EXCEPT !.pc = "describe", !.steps = NoSteps, !.datamodel = next]
<1>0. eng[e] \in Command /\ eng[e].name \in Names
  BY DEF EnginesOK
<1>1. CASE ~ CalculatorAccepts(DatamodelAt(base), eng[e].steps)
  BY <1>1, ReturnType DEF Calculate
<1>2. CASE CalculatorAccepts(DatamodelAt(base), eng[e].steps)
  <2>1. next \in SUBSET Models
    BY <1>0 DEF CalculateDatamodel, Command, DatamodelSteps
  <2>2. NoSteps \in DatamodelSteps
    BY DEF NoSteps, DatamodelSteps
  <2> HIDE DEF next
  <2>3. c \in Command /\ c.name \in Names
    BY <1>0, <2>1, <2>2 DEF Command, PC
  <2>4. eng' = [eng EXCEPT ![e] = c]
    BY <1>0, <1>2 DEF Calculate, EnginesOK, Command, next
  <2> QED
    BY <2>3, <2>4, EngineType
<1> QED
  BY <1>1, <1>2

\* The commands up to the row a migration is recorded in.
LEMMA ApplyTypes ==
    ASSUME TypeOK, NEW e \in Engines,
           \/ ApplyLast(e) \/ handle_transition_out_of_watch_mode(e)
           \/ CheckNotApplied(e) \/ handle_normal_migration(e) \/ Describe(e)
           \/ DestructiveChangesCheck(e) \/ Create(e)
    PROVE  TypeOK'
<1> USE DEF At, PC, Nameless
<1>1. EnginesOK /\ eng[e] \in Command
  BY DEF TypeOK, EnginesOK
<1>2. CASE ApplyLast(e)
  BY <1>1, <1>2, GotoType DEF ApplyLast, TypeOK
<1>3. CASE handle_transition_out_of_watch_mode(e)
  <2>1. DatamodelAt(last_non_watch_migration) \in SUBSET Models
    BY DatamodelAtType DEF last_non_watch_migration
  <2> QED
    BY <1>1, <1>3, <2>1, CalculateType DEF handle_transition_out_of_watch_mode, TypeOK
<1>4. CASE CheckNotApplied(e)
  BY <1>1, <1>4, GotoType, ReturnType DEF CheckNotApplied, TypeOK
<1>5. CASE handle_normal_migration(e)
  <2>1. DatamodelAt(last) \in SUBSET Models
    BY DatamodelAtType DEF last
  <2> QED
    BY <1>1, <1>5, <2>1, CalculateType DEF handle_normal_migration, TypeOK
<1>6. CASE Describe(e)
  <2>1. PICK up \in InferDatabaseSteps(db, eng[e].datamodel),
              down \in InferDatabaseSteps(eng[e].datamodel, db) :
           eng' = [eng EXCEPT ![e].pc = "check", ![e].before = db,
                              ![e].up = up, ![e].down = down]
    BY <1>6 DEF Describe
  <2>2. db \in SUBSET Models /\ eng[e].datamodel \in SUBSET Models
    BY <1>1 DEF TypeOK, Command
  <2>3. up \in Seq(DatabaseStep) /\ down \in Seq(DatabaseStep)
    BY <2>2, InferDatabaseStepsProperty
  <2> DEFINE c == [eng[e] EXCEPT !.pc = "check", !.before = db, !.up = up, !.down = down]
  <2>4. c \in Command /\ c.name = eng[e].name
    BY <1>1, <2>2, <2>3 DEF Command
  <2>5. eng' = [eng EXCEPT ![e] = c]
    BY <1>1, <2>1 DEF EnginesOK, Command
  <2>6. EnginesOK'
    BY <1>1, <1>6, <2>4, <2>5, EngineType DEF Describe, EnginesOK
  <2> QED
    BY <1>6, <2>6 DEF Describe, TypeOK
<1>7. CASE DestructiveChangesCheck(e)
  <2>1. filled \in SUBSET Models
    BY DEF TypeOK
  <2> QED
    BY <1>1, <1>7, <2>1, PassCheckType, ReturnType DEF DestructiveChangesCheck, TypeOK
<1>8. CASE Create(e)
  <2> DEFINE row == [name |-> eng[e].name, status |-> "Pending", applied |-> 0,
                     rolled_back |-> 0, datamodel |-> eng[e].datamodel,
                     before |-> eng[e].before, up |-> eng[e].up, down |-> eng[e].down]
             c == [eng[e] EXCEPT !.pc = "mark_in_progress", !.step = 0,
                                 !.revision = Len(table) + 1,
                                 !.applied = 0, !.rolled_back = 0]
  <2>0. eng[e].pc = "create"
    BY <1>8 DEF Create
  <2>1. eng[e].name \in Names /\ Len(table) \in Nat /\ Len(table) + 1 \in Nat
    BY <1>1, <2>0, SMTT(60) DEF TypeOK, EnginesOK
  <2>2. row \in Row
    BY <1>1, <2>1 DEF Command, Row, MigrationStatus
  <2>3. table' \in Seq(Row) /\ Len(table') = Len(table) + 1
    <3>1. table \in Seq(Row) /\ table' = Append(table, row)
      BY <1>8 DEF Create, TypeOK
    <3> HIDE DEF row
    <3> QED
      BY <2>2, <3>1, SMTT(60)
  <2>4. ran' \in Seq(SUBSET Nat) /\ Len(ran') = Len(ran) + 1
    <3>1. ran \in Seq(SUBSET Nat) /\ ran' = Append(ran, {})
      BY <1>8 DEF Create, TypeOK
    <3> QED
      BY <3>1, SMTT(60)
  <2>5. c \in Command /\ c.name = eng[e].name
    BY <1>1, <2>1 DEF Command
  <2>6. eng' = [eng EXCEPT ![e] = c]
    BY <1>1, <1>8 DEF Create, EnginesOK, Command
  <2>7. EnginesOK'
    BY <1>1, <2>1, <2>5, <2>6, EngineType
  <2> QED
    BY <1>8, <2>3, <2>4, <2>7 DEF Create, TypeOK
<1> QED
  BY <1>2, <1>3, <1>4, <1>5, <1>6, <1>7, <1>8

\* The database after a step, and the tables of it that hold data.
LEMMA ExecuteType ==
    ASSUME db \in SUBSET Models, filled \in SUBSET db, NEW step \in DatabaseStep,
           Execute(step)
    PROVE  db' \in SUBSET Models /\ filled' \in SUBSET db'
BY DEF Execute, Executable, DatabaseStep

\* The history of the steps that were executed has one entry for every row.
LEMMA RanStepType ==
    ASSUME ran \in Seq(SUBSET Nat), NEW c, c.step + 1 \in Nat
    PROVE  RanStep(c) \in Seq(SUBSET Nat) /\ Len(RanStep(c)) = Len(ran)
<1>1. CASE c.revision \in 1..Len(ran)
  <2>1. ran[c.revision] \cup {c.step + 1} \in SUBSET Nat
    BY <1>1, SMTT(60)
  <2> QED
    <3> DEFINE next == ran[c.revision] \cup {c.step + 1}
    <3>1. RanStep(c) = [ran EXCEPT ![c.revision] = next]
      BY <1>1 DEF RanStep
    <3> HIDE DEF next
    <3>2. next \in SUBSET Nat
      BY <2>1 DEF next
    <3> QED
      BY <1>1, <3>1, <3>2, ReplacedInSeq, SMTT(60)
<1>2. CASE c.revision \notin 1..Len(ran)
  BY <1>2 DEF RanStep
<1> QED
  BY <1>1, <1>2

\* MigrationApplier::apply
LEMMA ForwardTypes ==
    ASSUME TypeOK, NEW e \in Engines,
           \/ MarkInProgress(e) \/ ApplyStep(e) \/ ApplyStepFails(e)
           \/ ForwardProgress(e) \/ FinishApply(e)
    PROVE  TypeOK'
<1> USE DEF At, Nameless
<1>0. \A pc \in {"forward", "forward_progress", "finish_ok", "finish_err"} : pc \in PC
  BY DEF PC
<1>1. EnginesOK /\ eng[e] \in Command /\ table \in Seq(Row)
  BY DEF TypeOK, EnginesOK
<1>2. /\ eng[e].step \in Nat /\ eng[e].step + 1 \in Nat
      /\ eng[e].up \in Seq(DatabaseStep)
      /\ eng[e].step < Len(eng[e].up) => eng[e].up[eng[e].step + 1] \in DatabaseStep
  BY <1>1, SMTT(60) DEF Command
<1>3. CASE MarkInProgress(e)
  <2>1. EnginesOK'
    BY <1>0, <1>1, <1>3, GotoType DEF MarkInProgress
  <2>2. table' \in Seq(Row) /\ Len(table') = Len(table)
    BY <1>1, <1>3, UpdatedType DEF MarkInProgress, MigrationStatus
  <2> QED
    BY <1>3, <2>1, <2>2 DEF MarkInProgress, TypeOK
<1>4. CASE ApplyStep(e)
  <2>1. EnginesOK'
    BY <1>0, <1>1, <1>4, GotoType DEF ApplyStep
  <2>2. db' \in SUBSET Models /\ filled' \in SUBSET db'
    BY <1>2, <1>4, ExecuteType DEF ApplyStep, TypeOK
  <2>3. ran' \in Seq(SUBSET Nat) /\ Len(ran') = Len(ran)
    <3>1. ran' = ran \/ ran' = RanStep(eng[e])
      BY <1>4 DEF ApplyStep
    <3> QED
      BY <1>2, <3>1, RanStepType DEF TypeOK
  <2> QED
    BY <1>4, <2>1, <2>2, <2>3 DEF ApplyStep, TypeOK
<1>5. CASE ApplyStepFails(e)
  <2>1. EnginesOK'
    BY <1>0, <1>1, <1>5, GotoType DEF ApplyStepFails
  <2>2. db' \in SUBSET Models /\ filled' \in SUBSET db'
    BY <1>2, <1>5, ExecuteType DEF ApplyStepFails, TypeOK
  <2>3. ran' \in Seq(SUBSET Nat) /\ Len(ran') = Len(ran)
    <3>1. ran' = ran \/ ran' = RanStep(eng[e])
      BY <1>5 DEF ApplyStepFails
    <3> QED
      BY <1>2, <3>1, RanStepType DEF TypeOK
  <2> QED
    BY <1>5, <2>1, <2>2, <2>3 DEF ApplyStepFails, TypeOK
<1>6. CASE ForwardProgress(e)
  <2> DEFINE c == [eng[e] EXCEPT !.step = @ + 1, !.applied = @ + 1]
  <2>0. c \in Command /\ c.name = eng[e].name
    <3>1. c = [eng[e] EXCEPT !.step = eng[e].step + 1, !.applied = eng[e].applied + 1]
      BY <1>1 DEF Command
    <3>2. eng[e].step + 1 \in Nat /\ eng[e].applied + 1 \in Nat
      BY <1>1, SMTT(60) DEF Command
    <3> QED
      BY <1>1, <3>1, <3>2 DEF Command
  <2>1. \A pc \in PC : /\ [c EXCEPT !.pc = pc] \in Command
                       /\ [c EXCEPT !.pc = pc].name = eng[e].name
    <3> HIDE DEF c
    <3> QED
      BY <2>0 DEF Command
  <2>2. eng[e].name \in Names
    BY <1>1, <1>6 DEF ForwardProgress, EnginesOK
  <2>3. /\ table' = table \/ table' = Updated(c, "MigrationInProgress")
        /\ \/ eng' = [eng EXCEPT ![e] = [c EXCEPT !.pc = "forward"]]
           \/ eng' = [eng EXCEPT ![e] = [c EXCEPT !.pc = "finish_err"]]
        /\ UNCHANGED <<exists, db, filled, plan, ran>>
    BY <1>6 DEF ForwardProgress
  <2> HIDE DEF c
  <2>4. EnginesOK'
    BY <1>0, <1>1, <2>1, <2>2, <2>3, EngineType
  <2>5. table' \in Seq(Row) /\ Len(table') = Len(table)
    BY <1>1, <2>0, <2>3, UpdatedType, SMTT(60) DEF MigrationStatus
  <2> QED
    BY <2>3, <2>4, <2>5 DEF TypeOK
<1>7. CASE FinishApply(e)
  <2>1. EnginesOK'
    BY <1>1, <1>7, ReturnType DEF FinishApply
  <2>2. table' \in Seq(Row) /\ Len(table') = Len(table)
    BY <1>1, <1>7, UpdatedType, SMTT(60) DEF FinishApply, MigrationStatus
  <2> QED
    BY <1>7, <2>1, <2>2 DEF FinishApply, TypeOK
<1> QED
  BY <1>3, <1>4, <1>5, <1>6, <1>7

\* unapplyMigration and MigrationApplier::unapply
LEMMA BackwardTypes ==
    ASSUME TypeOK, NEW e \in Engines,
           \/ UnapplyLast(e) \/ UnapplyCheck(e) \/ MarkRollingBack(e) \/ UnapplyStep(e)
           \/ UnapplyStepFails(e) \/ BackwardProgress(e) \/ FinishUnapply(e)
    PROVE  TypeOK'
<1> USE DEF At, Nameless
<1>0. \A pc \in {"unapply_check", "mark_rolling_back", "backward", "backward_progress",
                  "rollback_ok", "rollback_err"} : pc \in PC
  BY DEF PC
<1>1. EnginesOK /\ eng[e] \in Command /\ table \in Seq(Row)
  BY DEF TypeOK, EnginesOK
<1>2. /\ eng[e].step \in Nat /\ eng[e].step + 1 \in Nat
      /\ eng[e].down \in Seq(DatabaseStep)
      /\ eng[e].step < Len(eng[e].down) => eng[e].down[eng[e].step + 1] \in DatabaseStep
  BY <1>1, SMTT(60) DEF Command
<1>3. CASE UnapplyLast(e)
  <2>1. CASE last = 0
    BY <1>1, <1>3, <2>1, ReturnType DEF UnapplyLast, TypeOK
  <2>2. CASE last # 0
    <3> DEFINE row == table[last]
               c == [eng[e] EXCEPT
                      !.pc = "unapply_check", !.name = row.name, !.revision = last,
                      !.applied = row.applied, !.rolled_back = row.rolled_back,
                      !.datamodel = row.datamodel, !.before = row.before,
                      !.up = row.up, !.down = row.down]
    <3>1. last \in Nat /\ row \in Row
      BY <1>1, <2>2, LastInTable, SMTT(60)
    <3> HIDE DEF row
    <3>2. c \in Command /\ c.name \in Names
      BY <1>0, <1>1, <3>1 DEF Command, Row
    <3>3. eng' = [eng EXCEPT ![e] = c]
      BY <1>1, <1>3, <2>2 DEF UnapplyLast, EnginesOK, Command, row
    <3>4. EnginesOK'
      BY <1>1, <3>2, <3>3, EngineType
    <3> QED
      BY <1>3, <3>4 DEF UnapplyLast, TypeOK
  <2> QED
    BY <2>1, <2>2
<1>4. CASE UnapplyCheck(e)
  <2>1. filled \in SUBSET Models
    BY DEF TypeOK
  <2> QED
    BY <1>0, <1>1, <1>4, <2>1, PassCheckType, ReturnType DEF UnapplyCheck, TypeOK
<1>5. CASE MarkRollingBack(e)
  <2>1. EnginesOK'
    BY <1>0, <1>1, <1>5, GotoType DEF MarkRollingBack
  <2>2. table' \in Seq(Row) /\ Len(table') = Len(table)
    BY <1>1, <1>5, UpdatedType DEF MarkRollingBack, MigrationStatus
  <2> QED
    BY <1>5, <2>1, <2>2 DEF MarkRollingBack, TypeOK
<1>6. CASE UnapplyStep(e)
  <2>1. EnginesOK'
    BY <1>0, <1>1, <1>6, GotoType DEF UnapplyStep
  <2>2. db' \in SUBSET Models /\ filled' \in SUBSET db'
    BY <1>2, <1>6, ExecuteType DEF UnapplyStep, TypeOK
  <2> QED
    BY <1>6, <2>1, <2>2 DEF UnapplyStep, TypeOK
<1>7. CASE UnapplyStepFails(e)
  <2>1. EnginesOK'
    BY <1>0, <1>1, <1>7, GotoType DEF UnapplyStepFails
  <2>2. db' \in SUBSET Models /\ filled' \in SUBSET db'
    BY <1>2, <1>7, ExecuteType DEF UnapplyStepFails, TypeOK
  <2> QED
    BY <1>7, <2>1, <2>2 DEF UnapplyStepFails, TypeOK
<1>8. CASE BackwardProgress(e)
  <2> DEFINE c == [eng[e] EXCEPT !.step = @ + 1, !.rolled_back = @ + 1]
  <2>0. c \in Command /\ c.name = eng[e].name
    <3>1. c = [eng[e] EXCEPT !.step = eng[e].step + 1,
                             !.rolled_back = eng[e].rolled_back + 1]
      BY <1>1 DEF Command
    <3>2. eng[e].step + 1 \in Nat /\ eng[e].rolled_back + 1 \in Nat
      BY <1>1, SMTT(60) DEF Command
    <3> QED
      BY <1>1, <3>1, <3>2 DEF Command
  <2>1. \A pc \in PC : /\ [c EXCEPT !.pc = pc] \in Command
                       /\ [c EXCEPT !.pc = pc].name = eng[e].name
    <3> HIDE DEF c
    <3> QED
      BY <2>0 DEF Command
  <2>2. eng[e].name \in Names
    BY <1>1, <1>8 DEF BackwardProgress, EnginesOK
  <2>3. /\ table' = table \/ table' = Updated(c, "RollingBack")
        /\ \/ eng' = [eng EXCEPT ![e] = [c EXCEPT !.pc = "backward"]]
           \/ eng' = [eng EXCEPT ![e] = [c EXCEPT !.pc = "rollback_err"]]
        /\ UNCHANGED <<exists, db, filled, plan, ran>>
    BY <1>8 DEF BackwardProgress
  <2> HIDE DEF c
  <2>4. EnginesOK'
    BY <1>0, <1>1, <2>1, <2>2, <2>3, EngineType
  <2>5. table' \in Seq(Row) /\ Len(table') = Len(table)
    BY <1>1, <2>0, <2>3, UpdatedType, SMTT(60) DEF MigrationStatus
  <2> QED
    BY <2>3, <2>4, <2>5 DEF TypeOK
<1>9. CASE FinishUnapply(e)
  <2>1. EnginesOK'
    BY <1>1, <1>9, ReturnType DEF FinishUnapply
  <2>2. table' \in Seq(Row) /\ Len(table') = Len(table)
    BY <1>1, <1>9, UpdatedType, SMTT(60) DEF FinishUnapply, MigrationStatus
  <2> QED
    BY <1>9, <2>1, <2>2 DEF FinishUnapply, TypeOK
<1> QED
  BY <1>3, <1>4, <1>5, <1>6, <1>7, <1>8, <1>9

\* The steps of reset, errors, crashes and restarts.
LEMMA ResetTypes ==
    ASSUME TypeOK, NEW e \in Engines,
           \/ ResetRows(e) \/ ResetDrop(e) \/ ResetInit(e) \/ CommandFails(e)
           \/ CreatePanics(e) \/ Crash(e) \/ Restart(e)
    PROVE  TypeOK'
<1>0. /\ {"reset_drop", "reset_init", "down"} \subseteq PC
      /\ {"reset_drop", "reset_init", "down"} \subseteq Nameless
  BY DEF PC, Nameless
<1>1. EnginesOK /\ <<>> \in Seq(Row) /\ <<>> \in Seq(SUBSET Nat)
  BY SMTT(60) DEF TypeOK
<1>2. CASE ResetRows(e)
  BY <1>0, <1>1, <1>2, GotoType DEF ResetRows, TypeOK
<1>3. CASE ResetDrop(e)
  BY <1>0, <1>1, <1>3, GotoType DEF ResetDrop, TypeOK
<1>4. CASE ResetInit(e)
  BY <1>1, <1>4, ReturnType DEF ResetInit, InitTable, TypeOK
<1>5. CASE CommandFails(e)
  BY <1>1, <1>5, ReturnType DEF CommandFails, TypeOK
<1>6. CASE CreatePanics(e) \/ Crash(e)
  <2>1. Blank("down") \in Command /\ Blank("down").pc = "down"
    BY <1>0, BlankType DEF Blank
  <2>2. EnginesOK'
    BY <1>0, <1>1, <1>6, <2>1, EngineType DEF CreatePanics, Crash
  <2> QED
    BY <1>6, <2>2 DEF CreatePanics, Crash, TypeOK
<1>7. CASE Restart(e)
  BY <1>1, <1>7, ReturnType DEF Restart, InitTable, TypeOK
<1> QED
  BY <1>2, <1>3, <1>4, <1>5, <1>6, <1>7

\* A request that is accepted.
LEMMA AcceptTypes ==
    ASSUME TypeOK, NEW e \in Engines, Accept(e)
    PROVE  TypeOK'
<1>0. /\ {"apply_last", "unapply_last", "reset_rows"} \subseteq PC
      /\ {"unapply_last", "reset_rows"} \subseteq Nameless
  BY DEF PC, Nameless
<1>1. EnginesOK /\ plan \in SUBSET Plan
  BY DEF TypeOK
<1>2. ASSUME NEW name \in Names, NEW steps \in DatamodelSteps,
             NEW target \in SUBSET (SUBSET Models), NEW force \in ForceFlag,
             ApplyMigration(e, name, steps, target, force)
      PROVE  TypeOK'
  <2> DEFINE b == Blank("apply_last")
             c == [b EXCEPT !.name = name, !.steps = steps, !.target = target,
                            !.force = force]
  <2>1. b \in Command
    BY <1>0, BlankType
  <2>2. eng' = [eng EXCEPT ![e] = c] /\ plan' = {}
    BY <1>2 DEF ApplyMigration, Begin
  <2> HIDE DEF b
  <2>3. c \in Command /\ c.name \in Names
    BY <2>1 DEF Command
  <2>4. EnginesOK'
    BY <1>1, <2>2, <2>3, EngineType
  <2> QED
    BY <1>2, <2>2, <2>4 DEF ApplyMigration, TypeOK
<1>3. ASSUME NEW name \in Names, NEW target \in SUBSET Models,
             NEW assumed \in {{}} \cup {{m} : m \in Assumable},
             InferMigrationSteps(e, name, target, assumed)
      PROVE  TypeOK'
  <2> DEFINE leavesWatch == last # 0 /\ IsWatch(table[last].name) /\ ~ IsWatch(name)
             base == IF leavesWatch THEN DatamodelAt(last_non_watch_applied_migration)
                     ELSE AssumedDatamodel(assumed)
             p == [name |-> name, steps |-> InferDatamodelSteps(base, target),
                   target |-> IF assumed = {} THEN {target} ELSE {}]
  <2>1. AssumedDatamodel(assumed) \in SUBSET Models
    <3>1. DatamodelAt(last) \in SUBSET Models
      BY DatamodelAtType DEF last
    <3>2. CASE assumed = {}
      BY <3>1, <3>2 DEF AssumedDatamodel
    <3>3. CASE assumed # {}
      <4> DEFINE m == CHOOSE m \in assumed : TRUE
      <4>1. m \in assumed /\ assumed \subseteq Assumable
        BY <3>3
      <4>2. m.steps \in DatamodelSteps
        BY <4>1, ConstantsAssumption DEF Assumable, DatamodelSteps
      <4> HIDE DEF m
      <4>3. CalculateDatamodel(DatamodelAt(last), m.steps) \in SUBSET Models
        BY <3>1, <4>2 DEF CalculateDatamodel, DatamodelSteps
      <4> QED
        BY <3>3, <4>3 DEF AssumedDatamodel, m
    <3> QED
      BY <3>2, <3>3
  <2>2. DatamodelAt(last_non_watch_applied_migration) \in SUBSET Models
    BY DatamodelAtType DEF last_non_watch_applied_migration
  <2>3. base \in SUBSET Models
    BY <2>1, <2>2
  <2>4. plan' = {p}
    BY <1>3 DEF InferMigrationSteps
  <2> HIDE DEF base
  <2>5. p \in Plan
    BY <2>3 DEF Plan, InferDatamodelSteps, DatamodelSteps
  <2>6. EnginesOK'
    BY <1>1, <1>3 DEF InferMigrationSteps, EnginesOK
  <2> QED
    BY <1>3, <2>4, <2>5, <2>6 DEF InferMigrationSteps, TypeOK
<1>4. ASSUME NEW force \in ForceFlag, UnapplyMigration(e, force)
      PROVE  TypeOK'
  <2> DEFINE b == Blank("unapply_last")
             c == [b EXCEPT !.force = force]
  <2>1. b \in Command /\ b.pc = "unapply_last"
    BY <1>0, BlankType DEF Blank
  <2>2. eng' = [eng EXCEPT ![e] = c] /\ plan' = {}
    BY <1>4 DEF UnapplyMigration, Begin
  <2> HIDE DEF b
  <2>3. c \in Command /\ c.pc \in Nameless
    BY <1>0, <2>1 DEF Command
  <2>4. EnginesOK'
    BY <1>1, <2>2, <2>3, EngineType
  <2> QED
    BY <1>4, <2>2, <2>4 DEF UnapplyMigration, TypeOK
<1>5. ASSUME Reset(e)
      PROVE  TypeOK'
  <2>1. Blank("reset_rows") \in Command /\ Blank("reset_rows").pc = "reset_rows"
    BY <1>0, BlankType DEF Blank
  <2>2. EnginesOK'
    BY <1>0, <1>1, <1>5, <2>1, EngineType DEF Reset, Begin
  <2> QED
    BY <1>5, <2>2 DEF Reset, TypeOK
<1>6. \A p \in plan : /\ p.name \in Names /\ p.steps \in DatamodelSteps
                      /\ p.target \in SUBSET (SUBSET Models)
  BY <1>1 DEF Plan
<1>7. ClientSteps \subseteq DatamodelSteps /\ {} \in SUBSET (SUBSET Models)
  BY ConstantsAssumption DEF DatamodelSteps
<1> QED
  BY <1>2, <1>3, <1>4, <1>5, <1>6, <1>7 DEF Accept

\* The initial state has its type.
LEMMA TypeInit == Init => TypeOK
<1> SUFFICES ASSUME Init
             PROVE  TypeOK
  OBVIOUS
<1>1. Blank("idle") \in Command /\ Blank("idle").pc \in Nameless
  BY BlankType DEF Blank, PC, Nameless
<1>2. EnginesOK
  BY <1>1 DEF Init, EnginesOK
<1>3. table \in Seq(Row) /\ ran \in Seq(SUBSET Nat) /\ Len(ran) = Len(table)
  BY SMTT(60) DEF Init
<1> QED
  BY <1>2, <1>3 DEF Init, TypeOK

\* Every step keeps every variable in its type.
LEMMA TypeStep == TypeOK /\ [Next]_vars => TypeOK'
<1> SUFFICES ASSUME TypeOK, [Next]_vars
             PROVE  TypeOK'
  OBVIOUS
<1>1. ASSUME NEW e \in Engines, Accept(e)
      PROVE  TypeOK'
  BY <1>1, AcceptTypes
<1>2. ASSUME NEW e \in Engines, Run(e)
      PROVE  TypeOK'
  BY <1>2, ApplyTypes, ForwardTypes, BackwardTypes, ResetTypes DEF Run
<1>3. ASSUME NEW e \in Engines, Crash(e) \/ Restart(e)
      PROVE  TypeOK'
  BY <1>3, ResetTypes
<1>4. CASE Drift
  BY <1>4 DEF Drift, TypeOK, EnginesOK
<1>5. CASE Insert
  BY <1>5 DEF Insert, TypeOK, EnginesOK
<1>6. CASE UNCHANGED vars
  BY <1>6 DEF vars, TypeOK, EnginesOK
<1> QED
  BY <1>1, <1>2, <1>3, <1>4, <1>5, <1>6 DEF Next

\* Whatever commands, crashes, failures and foreign changes interleave, the engines
\* and the _Migration table keep their types: for any number of engines.
THEOREM TypeCorrect == Spec => []TypeOK
BY TypeInit, TypeStep, PTL DEF Spec
=============================================================================
