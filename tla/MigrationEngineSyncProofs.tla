---------------------- MODULE MigrationEngineSyncProofs ----------------------
(***************************************************************************)
(* One engine on its database: between commands the database is what the   *)
(* last successful migration says, unless the _Migration table shows that  *)
(* an apply or a rollback stopped half-way. First what the rows of the     *)
(* table promise about the database, then the invariant that the database  *)
(* keeps the promise, then the steps of a command.                         *)
(***************************************************************************)
EXTENDS MigrationEngineDatabaseProofs

USE ZenonT(60)

--------------------------------------------------------------------------------
(* Which schema the rows of the _Migration table promise *)

\* A row with one of these statuses leaves the database as it was before it.
Spent == {"Pending", "RollbackSuccess"}

\* Among the first n rows of tab, l is a successful migration (or there is none, for
\* 0) and what follows it has left no trace in the database.
Base(tab, l, n) ==
    /\ l # 0 => tab[l].status = "MigrationSuccess"
    /\ \A q \in (l + 1)..n : tab[q].status \in Spent

DatamodelOf(tab, l) == IF l = 0 THEN {} ELSE tab[l].datamodel

\* The first n rows of tab promise that the database is `schema`, if anything.
Synced(tab, n, schema) ==
    \A l \in 0..n : Base(tab, l, n) => schema = DatamodelOf(tab, l)

\* The rows of tab after r have left no trace.
SpentAfter(tab, r) == \A q \in (r + 1)..Len(tab) : tab[q].status \in Spent

\* The promise is about the status and the datamodel of those rows only.
LEMMA SyncedFrame ==
    ASSUME NEW tab, NEW tab2, NEW n \in Nat, NEW schema, Synced(tab, n, schema),
           \A q \in 1..n : /\ tab2[q].status = tab[q].status
                           /\ tab2[q].datamodel = tab[q].datamodel
    PROVE  Synced(tab2, n, schema)
<1> SUFFICES ASSUME NEW l \in 0..n, Base(tab2, l, n)
             PROVE  schema = DatamodelOf(tab2, l)
  BY DEF Synced
<1>1. l # 0 => l \in 1..n
  BY SMTT(60)
<1>2. \A q \in (l + 1)..n : q \in 1..n
  BY SMTT(60)
<1>3. Base(tab, l, n)
  BY <1>1, <1>2 DEF Base
<1>4. schema = DatamodelOf(tab, l)
  BY <1>3 DEF Synced
<1> QED
  BY <1>1, <1>4 DEF DatamodelOf

\* Rows that left no trace keep the promise of the rows before them.
LEMMA SyncedThrough ==
    ASSUME NEW tab, NEW n \in Nat, NEW k \in 0..n, NEW schema, Synced(tab, k, schema),
           \A q \in (k + 1)..n : tab[q].status \in Spent
    PROVE  Synced(tab, n, schema)
<1> SUFFICES ASSUME NEW l \in 0..n, Base(tab, l, n)
             PROVE  schema = DatamodelOf(tab, l)
  BY DEF Synced
<1>1. l \in 0..k
  <2>1. l \in (k + 1)..n => l # 0 /\ tab[l].status # "MigrationSuccess"
    BY SMTT(60) DEF Spent
  <2> QED
    BY <2>1, SMTT(60) DEF Base
<1>2. \A q \in (l + 1)..k : q \in (l + 1)..n
  BY SMTT(60)
<1>3. Base(tab, l, k)
  BY <1>2 DEF Base
<1> QED
  BY <1>1, <1>3 DEF Synced

\* Nothing is promised while a row of another kind is newer than the successful ones.
LEMMA SyncedBlocked ==
    ASSUME NEW tab, Len(tab) \in Nat, NEW r \in 1..Len(tab), NewestIs(tab, r),
           tab[r].status \notin Spent, tab[r].status # "MigrationSuccess", NEW schema
    PROVE  Synced(tab, Len(tab), schema)
<1> DEFINE n == Len(tab)
<1> SUFFICES ASSUME NEW l \in 0..n, Base(tab, l, n)
             PROVE  FALSE
  BY DEF Synced
<1>1. CASE l < r
  <2>1. r \in (l + 1)..n
    BY <1>1, SMTT(60)
  <2> QED
    BY <2>1 DEF Base
<1>2. CASE l = r
  BY <1>2, SMTT(60) DEF Base
<1>3. CASE l > r
  <2>1. l \in (r + 1)..n /\ l # 0
    BY <1>3, SMTT(60)
  <2> QED
    BY <2>1 DEF Base, NewestIs
<1> QED
  BY <1>1, <1>2, <1>3, SMTT(60)

\* A successful migration at the end promises its datamodel.
LEMMA SyncedBySuccess ==
    ASSUME NEW tab, NEW n \in Nat \ {0}, tab[n].status = "MigrationSuccess"
    PROVE  Synced(tab, n, tab[n].datamodel)
<1> SUFFICES ASSUME NEW l \in 0..n, Base(tab, l, n)
             PROVE  tab[n].datamodel = DatamodelOf(tab, l)
  BY DEF Synced
<1>1. CASE l < n
  <2>1. n \in (l + 1)..n
    BY <1>1, SMTT(60)
  <2> QED
    BY <2>1 DEF Base, Spent
<1>2. CASE l = n
  BY <1>2 DEF DatamodelOf
<1> QED
  BY <1>1, <1>2, SMTT(60)

--------------------------------------------------------------------------------
(* Between commands the database is what the rows promise *)

Resetting == {"reset_rows", "reset_drop", "reset_init"}

\* A migration is the newest row and began in a database its predecessors promise.
ApplierRow(c) ==
    c.pc \in Recorded =>
        /\ c.revision = Len(table) /\ c.revision # 0
        /\ table[c.revision].name = c.name
        /\ table[c.revision].before = c.before
        /\ Synced(table, c.revision - 1, c.before)
        /\ c.pc = "mark_in_progress" => table[c.revision].status = "Pending"
        /\ c.pc # "mark_in_progress" => table[c.revision].status = "MigrationInProgress"

\* A rollback works on the newest successful migration and knows what it recorded.
RollbackRow(c, tab, status) ==
    /\ c.revision \in 1..Len(tab) /\ NewestIs(tab, c.revision)
    /\ tab[c.revision].status = status
    /\ tab[c.revision].name = c.name
    /\ tab[c.revision].datamodel = c.datamodel
    /\ tab[c.revision].before = c.before
    /\ tab[c.revision].down = c.down
    /\ Synced(tab, c.revision - 1, c.before)

UnapplierRow(c) ==
    /\ c.pc \in {"unapply_check", "mark_rolling_back"} =>
          RollbackRow(c, table, "MigrationSuccess") /\ c.step = 0
    /\ c.pc \in {"backward", "backward_progress", "rollback_ok", "rollback_err"} =>
          RollbackRow(c, table, "RollingBack")

\* If no later migration left a trace, the rollback finds the database its migration
\* made and takes it back step by step.
RollbackInStep(c) ==
    /\ c.pc = "unapply_last" => c.step = 0
    /\ c.pc = "backward" =>
          /\ c.step <= Len(c.down)
          /\ SpentAfter(table, c.revision) => db = Reached(c.datamodel, c.down, c.step)
    /\ c.pc = "backward_progress" =>
          /\ c.step + 1 < Len(c.down)
          /\ SpentAfter(table, c.revision) => db = Reached(c.datamodel, c.down, c.step + 1)
    /\ c.pc = "rollback_ok" => (SpentAfter(table, c.revision) => db = c.before)

SyncOf(c) ==
    /\ c.pc \notin Resetting
    /\ c.pc \in {"check", "create"} => c.down \in InferDatabaseSteps(c.datamodel, c.before)
    /\ ApplierRow(c) /\ UnapplierRow(c) /\ RollbackInStep(c)

\* The recorded rollback of a row undoes it, and a successful migration began in the
\* database that the rows before it promise.
RowsOK ==
    \A r \in 1..Len(table) :
        /\ table[r].down \in InferDatabaseSteps(table[r].datamodel, table[r].before)
        /\ table[r].status = "MigrationSuccess" => Synced(table, r - 1, table[r].before)

SyncInv ==
    /\ DatabaseInv /\ RowsOK
    /\ Synced(table, Len(table), db)
    /\ \A e \in Engines : SyncOf(eng[e])

\* A status written to a row that no successful migration follows.
LEMMA RowWritten ==
    ASSUME TypeOK, RowsOK, NEW e \in Engines, NEW status, WritesRow(e, status),
           eng[e].revision \in 1..Len(table), table[eng[e].revision].name = eng[e].name,
           NewestIs(table, eng[e].revision),
           status = "MigrationSuccess" =>
              Synced(table, eng[e].revision - 1, table[eng[e].revision].before)
    PROVE  LET r == eng[e].revision
           IN  /\ RowsOK' /\ Len(table') = Len(table)
               /\ table'[r].status = status /\ table'[r].name = table[r].name
               /\ table'[r].datamodel = table[r].datamodel
               /\ table'[r].before = table[r].before /\ table'[r].down = table[r].down
               /\ \A schema : Synced(table, r - 1, schema) => Synced(table', r - 1, schema)
               /\ NewestIs(table', r)
               /\ SpentAfter(table', r) <=> SpentAfter(table, r)
<1> DEFINE r == eng[e].revision
<1>0. Len(table) \in Nat /\ r \in Nat /\ r - 1 \in Nat
  BY SMTT(60) DEF TypeOK
<1>1. /\ Len(table') = Len(table)
      /\ table'[r].status = status
      /\ \A q \in 1..Len(table) :
            /\ table'[q].name = table[q].name /\ table'[q].datamodel = table[q].datamodel
            /\ table'[q].before = table[q].before /\ table'[q].down = table[q].down
            /\ q # r => table'[q].status = table[q].status
  BY DEF WritesRow
<1>2. \A q \in 1..(r - 1) : q \in 1..Len(table) /\ q # r
  BY <1>0, SMTT(60)
<1>3. \A q \in (r + 1)..Len(table) : q \in 1..Len(table) /\ q # r
  BY <1>0, SMTT(60)
<1>4. ASSUME NEW q \in 1..r, NEW schema, Synced(table, q - 1, schema)
      PROVE  Synced(table', q - 1, schema)
  <2>1. q - 1 \in Nat /\ \A p \in 1..(q - 1) : p \in 1..Len(table) /\ p # r
    BY <1>0, SMTT(60)
  <2>2. \A p \in 1..(q - 1) : /\ table'[p].status = table[p].status
                              /\ table'[p].datamodel = table[p].datamodel
    BY <1>1, <2>1
  <2> QED
    BY <1>4, <2>1, <2>2, SyncedFrame
<1>5. NewestIs(table', r) /\ (SpentAfter(table', r) <=> SpentAfter(table, r))
  BY <1>1, <1>3 DEF NewestIs, SpentAfter
<1>6. RowsOK'
  <2> SUFFICES ASSUME NEW q \in 1..Len(table)
               PROVE  /\ table'[q].down \in InferDatabaseSteps(table'[q].datamodel,
                                                               table'[q].before)
                      /\ table'[q].status = "MigrationSuccess" =>
                            Synced(table', q - 1, table'[q].before)
    BY <1>1 DEF RowsOK
  <2>1. /\ table[q].down \in InferDatabaseSteps(table[q].datamodel, table[q].before)
        /\ table[q].status = "MigrationSuccess" => Synced(table, q - 1, table[q].before)
    BY DEF RowsOK
  <2>2. CASE q \in (r + 1)..Len(table)
    BY <1>1, <1>3, <2>1, <2>2 DEF NewestIs
  <2>3. CASE q = r
    <3>1. status = "MigrationSuccess" => Synced(table, r - 1, table[r].before)
      OBVIOUS
    <3>2. r \in 1..r
      BY <1>0, SMTT(60)
    <3> QED
      BY <1>1, <1>4, <2>1, <2>3, <3>1, <3>2
  <2>4. CASE q \in 1..(r - 1)
    <3>1. q \in 1..r /\ q # r
      BY <1>0, <2>4, SMTT(60)
    <3> QED
      BY <1>1, <1>4, <2>1, <3>1
  <2>5. q \in (r + 1)..Len(table) \/ q = r \/ q \in 1..(r - 1)
    BY <1>0, SMTT(60)
  <2> QED
    BY <2>2, <2>3, <2>4, <2>5
<1>7. r \in 1..r
  BY <1>0, SMTT(60)
<1> QED
  BY <1>1, <1>4, <1>5, <1>6, <1>7

SyncAfter(e) == RowsOK' /\ Synced(table, Len(table), db)' /\ SyncOf(eng[e])'

\* The state of the command matters only from the inferred steps on.
LEMMA OutsideSync ==
    ASSUME SyncInv, NEW e \in Engines, table' = table, db' = db,
           eng'[e].pc \notin Recorded \cup Unapplying \cup Resetting \cup {"check", "create"},
           eng'[e].pc = "unapply_last" => eng'[e].step = 0
    PROVE  SyncAfter(e)
<1>1. RowsOK' /\ Synced(table, Len(table), db)'
  BY DEF SyncInv, RowsOK
<1>2. SyncOf(eng[e])'
  BY DEF SyncOf, ApplierRow, UnapplierRow, RollbackInStep, Recorded, Unapplying
<1> QED
  BY <1>1, <1>2 DEF SyncAfter

\* Until a migration has its row it changes neither the rows nor the database.
LEMMA PreparingSync ==
    ASSUME SyncInv, TypeOK', "reset" \notin Commands, NEW e \in Engines,
           \/ Accept(e) \/ ApplyLast(e) \/ handle_transition_out_of_watch_mode(e)
           \/ CheckNotApplied(e) \/ handle_normal_migration(e) \/ Describe(e)
           \/ DestructiveChangesCheck(e) \/ ResetRows(e) \/ ResetDrop(e)
           \/ CommandFails(e) \/ CreatePanics(e) \/ Crash(e) \/ Restart(e) \/ ResetInit(e)
    PROVE  SyncAfter(e)
<1> USE DEF Recorded, Unapplying, Resetting
<1>0. TypeOK /\ EnginesOK /\ SyncOf(eng[e])
  BY FieldTypes DEF SyncInv, DatabaseInv
<1>1. CASE Accept(e)
  BY <1>0, <1>1, AcceptFacts, OutsideSync
<1>2. CASE ApplyLast(e) \/ CheckNotApplied(e)
  BY <1>0, <1>2, ReadFacts, OutsideSync
<1>3. CASE handle_transition_out_of_watch_mode(e) \/ handle_normal_migration(e)
  <2>1. table' = table /\ db' = db /\ \E base : Calculate(e, base)
    BY <1>3 DEF handle_transition_out_of_watch_mode, handle_normal_migration
  <2> QED
    BY <1>0, <2>1, CalculateFacts, OutsideSync
<1>4. ASSUME table' = table, db' = db
      PROVE  RowsOK' /\ Synced(table, Len(table), db)'
  BY <1>4 DEF SyncInv, RowsOK
<1>5. CASE Describe(e)
  <2>1. /\ eng'[e].pc = "check" /\ eng'[e].before = db /\ db' = db /\ table' = table
        /\ eng'[e].down \in InferDatabaseSteps(eng'[e].datamodel, db)
    BY <1>0, <1>5, DescribeFacts
  <2>2. SyncOf(eng[e])'
    BY <2>1 DEF SyncOf, ApplierRow, UnapplierRow, RollbackInStep
  <2> QED
    BY <1>4, <2>1, <2>2 DEF SyncAfter
<1>6. CASE DestructiveChangesCheck(e)
  <2>1. /\ eng[e].pc = "check" /\ db' = db /\ table' = table
        /\ eng'[e].pc = "idle" \/ (Kept(e) /\ eng'[e].pc = "create")
    BY <1>0, <1>6, ReadFacts
  <2>2. SyncOf(eng[e])'
    BY <1>0, <2>1 DEF SyncOf, ApplierRow, UnapplierRow, RollbackInStep, Kept
  <2> QED
    BY <1>4, <2>1, <2>2 DEF SyncAfter
<1>7. CASE ResetRows(e) \/ ResetDrop(e)
  <2>1. eng[e].pc \in Resetting
    BY <1>0, <1>7, ResetFacts DEF Resetting
  <2> QED
    BY <1>0, <2>1 DEF SyncOf
<1>8. CASE CommandFails(e) \/ CreatePanics(e) \/ Crash(e) \/ Restart(e) \/ ResetInit(e)
  BY <1>0, <1>8, EndFacts, OutsideSync
<1> QED
  BY <1>1, <1>2, <1>3, <1>5, <1>6, <1>7, <1>8

\* The new row promises nothing; the one before it still does.
LEMMA CreateSync ==
    ASSUME SyncInv, TypeOK', NEW e \in Engines, Create(e)
    PROVE  SyncAfter(e)
<1> USE DEF Recorded, Unapplying, Resetting
<1> DEFINE n == Len(table) + 1
<1>0. /\ TypeOK /\ RowsOK /\ SyncOf(eng[e]) /\ DatabaseInStep(eng[e])
      /\ Synced(table, Len(table), db) /\ Len(table) \in Nat
  BY FieldTypes DEF SyncInv, DatabaseInv
<1>1. /\ eng[e].pc = "create" /\ eng'[e].pc = "mark_in_progress" /\ db' = db
      /\ eng'[e].name = eng[e].name /\ eng'[e].before = eng[e].before
      /\ eng'[e].revision = n /\ eng'[e].step = 0
      /\ Len(table') = n
      /\ \A q \in 1..Len(table) : table'[q] = table[q]
      /\ table'[n].name = eng[e].name /\ table'[n].status = "Pending"
      /\ table'[n].datamodel = eng[e].datamodel
      /\ table'[n].before = eng[e].before /\ table'[n].down = eng[e].down
  BY <1>0, CreateFacts
<1>2. /\ eng[e].down \in InferDatabaseSteps(eng[e].datamodel, eng[e].before)
      /\ eng[e].before = db
  BY <1>0, <1>1 DEF SyncOf, DatabaseInStep
<1>3. ASSUME NEW k \in 0..Len(table), NEW schema, Synced(table, k, schema)
      PROVE  Synced(table', k, schema)
  <2>1. k \in Nat /\ \A q \in 1..k : q \in 1..Len(table)
    BY <1>0, SMTT(60)
  <2> QED
    BY <1>1, <1>3, <2>1, SyncedFrame
<1>4. Synced(table', Len(table), db)
  BY <1>0, <1>3, SMTT(60)
<1>5. Synced(table', n, db)
  <2>1. n \in Nat /\ Len(table) \in 0..n /\ \A q \in (Len(table) + 1)..n : q = n
    BY <1>0, SMTT(60)
  <2>2. \A q \in (Len(table) + 1)..n : table'[q].status \in Spent
    BY <1>1, <2>1 DEF Spent
  <2> QED
    BY <1>4, <2>1, <2>2, SyncedThrough
<1>6. RowsOK'
  <2> SUFFICES ASSUME NEW q \in 1..n
               PROVE  /\ table'[q].down \in InferDatabaseSteps(table'[q].datamodel,
                                                               table'[q].before)
                      /\ table'[q].status = "MigrationSuccess" =>
                            Synced(table', q - 1, table'[q].before)
    BY <1>1 DEF RowsOK
  <2>1. CASE q = n
    BY <1>1, <1>2, <2>1
  <2>2. CASE q \in 1..Len(table)
    <3>1. q - 1 \in 0..Len(table)
      BY <1>0, <2>2, SMTT(60)
    <3>2. /\ table[q].down \in InferDatabaseSteps(table[q].datamodel, table[q].before)
          /\ table[q].status = "MigrationSuccess" => Synced(table, q - 1, table[q].before)
      BY <1>0, <2>2 DEF RowsOK
    <3> QED
      BY <1>1, <1>3, <2>2, <3>1, <3>2
  <2> QED
    BY <1>0, <2>1, <2>2, SMTT(60)
<1>7. SyncOf(eng[e])'
  <2>1. n - 1 = Len(table) /\ n # 0
    BY <1>0, SMTT(60)
  <2>2. ApplierRow(eng[e])'
    BY <1>1, <1>2, <1>4, <2>1 DEF ApplierRow
  <2> QED
    BY <1>1, <2>2 DEF SyncOf, UnapplierRow, RollbackInStep
<1> QED
  BY <1>1, <1>5, <1>6, <1>7 DEF SyncAfter

\* The row of a rollback is the same for as long as the command keeps its data, and
\* when another status is written to it.
LEMMA RollbackKeeps ==
    ASSUME NEW e \in Engines, NEW tab, NEW status, Kept(e), RollbackRow(eng[e], tab, status)
    PROVE  RollbackRow(eng'[e], tab, status)
BY DEF Kept, RollbackRow

\* Another status is written to the row of a rollback.
LEMMA RollbackWrites ==
    ASSUME TypeOK, TypeOK', RowsOK, NEW e \in Engines, NEW old, NEW status,
           RollbackRow(eng[e], table, old), WritesRow(e, status),
           status # "MigrationSuccess"
    PROVE  /\ RowsOK' /\ Len(table') = Len(table)
           /\ RollbackRow(eng[e], table', status)
           /\ SpentAfter(table', eng[e].revision) <=> SpentAfter(table, eng[e].revision)
           /\ status \notin Spent => Synced(table', Len(table'), db')
<1> DEFINE r == eng[e].revision
<1>1. /\ r \in 1..Len(table) /\ NewestIs(table, r)
      /\ table[r].name = eng[e].name /\ table[r].datamodel = eng[e].datamodel
      /\ table[r].before = eng[e].before /\ table[r].down = eng[e].down
      /\ Synced(table, r - 1, eng[e].before)
  BY DEF RollbackRow
<1>2. /\ RowsOK' /\ Len(table') = Len(table)
      /\ table'[r].status = status /\ table'[r].name = table[r].name
      /\ table'[r].datamodel = table[r].datamodel
      /\ table'[r].before = table[r].before /\ table'[r].down = table[r].down
      /\ \A schema : Synced(table, r - 1, schema) => Synced(table', r - 1, schema)
      /\ NewestIs(table', r)
      /\ SpentAfter(table', r) <=> SpentAfter(table, r)
  BY <1>1, RowWritten
<1>3. RollbackRow(eng[e], table', status)
  BY <1>1, <1>2 DEF RollbackRow
<1>4. Len(table') \in Nat
  BY SMTT(60) DEF TypeOK
<1>5. status \notin Spent => Synced(table', Len(table'), db')
  BY <1>1, <1>2, <1>4, SyncedBlocked
<1> QED
  BY <1>2, <1>3, <1>5

\* A rollback chooses the newest successful migration: if what follows it left no
\* trace, the database is what that migration made.
LEMMA ChooseSync ==
    ASSUME SyncInv, TypeOK', NEW e \in Engines, UnapplyLast(e) \/ UnapplyCheck(e)
    PROVE  SyncAfter(e)
<1> USE DEF Recorded, Unapplying, Resetting
<1>0. /\ TypeOK /\ RowsOK /\ SyncOf(eng[e]) /\ table \in Seq(Row)
  BY DEF SyncInv, DatabaseInv, TypeOK
<1>1. CASE UnapplyLast(e)
  <2>1. /\ eng[e].pc = "unapply_last" /\ table' = table /\ db' = db
        /\ \/ eng'[e].pc = "idle"
           \/ /\ eng'[e].pc = "unapply_check" /\ last # 0
              /\ eng'[e].revision = last /\ eng'[e].name = table[last].name
              /\ eng'[e].step = eng[e].step
              /\ eng'[e].datamodel = table[last].datamodel
              /\ eng'[e].before = table[last].before /\ eng'[e].down = table[last].down
    BY <1>0, <1>1, UnapplyLastFacts
  <2>2. CASE eng'[e].pc = "idle"
    BY <2>1, <2>2, OutsideSync
  <2>3. CASE eng'[e].pc # "idle"
    <3>1. /\ last \in 1..Len(table) /\ table[last].status = "MigrationSuccess"
          /\ NewestIs(table, last)
      BY <1>0, <2>1, <2>3, LastIsNewest
    <3>2. Synced(table, last - 1, table[last].before)
      BY <1>0, <3>1 DEF RowsOK
    <3>3. eng[e].step = 0
      BY <1>0, <2>1 DEF SyncOf, RollbackInStep
    <3>4. SyncOf(eng[e])'
      <4>1. UnapplierRow(eng[e])'
        BY <2>1, <2>3, <3>1, <3>2, <3>3 DEF UnapplierRow, RollbackRow
      <4> QED
        BY <2>1, <2>3, <4>1 DEF SyncOf, ApplierRow, RollbackInStep
    <3>5. RowsOK' /\ Synced(table, Len(table), db)'
      BY <2>1 DEF SyncInv, RowsOK
    <3> QED
      BY <3>4, <3>5 DEF SyncAfter
  <2> QED
    BY <2>2, <2>3
<1>2. CASE UnapplyCheck(e)
  <2>1. /\ eng[e].pc = "unapply_check" /\ table' = table /\ db' = db
        /\ \/ eng'[e].pc = "idle"
           \/ Kept(e) /\ eng'[e].pc = "mark_rolling_back" /\ eng'[e].step = eng[e].step
    BY <1>0, <1>2, ReadFacts
  <2>2. CASE eng'[e].pc = "idle"
    BY <2>1, <2>2, OutsideSync
  <2>3. CASE eng'[e].pc # "idle"
    <3>1. RollbackRow(eng[e], table, "MigrationSuccess") /\ eng[e].step = 0
      BY <1>0, <2>1 DEF SyncOf, UnapplierRow
    <3>2. RollbackRow(eng'[e], table, "MigrationSuccess")
      BY <2>1, <2>3, <3>1, RollbackKeeps
    <3>3. SyncOf(eng[e])'
      BY <2>1, <2>3, <3>1, <3>2
         DEF SyncOf, ApplierRow, UnapplierRow, RollbackInStep
    <3>4. RowsOK' /\ Synced(table, Len(table), db)'
      BY <2>1 DEF SyncInv, RowsOK
    <3> QED
      BY <3>3, <3>4 DEF SyncAfter
  <2> QED
    BY <2>2, <2>3
<1> QED
  BY <1>1, <1>2

--------------------------------------------------------------------------------
(* Running a migration forward and backward *)

\* While a migration runs its row promises nothing.
LEMMA ForwardSync ==
    ASSUME SyncInv, TypeOK', NEW e \in Engines,
           \/ MarkInProgress(e) \/ ApplyStep(e) \/ ApplyStepFails(e)
           \/ ForwardProgress(e) \/ FinishApply(e)
    PROVE  SyncAfter(e)
<1> USE DEF Recorded, Unapplying, Resetting
<1> DEFINE r == eng[e].revision
<1>0. /\ TypeOK /\ RowsOK /\ SyncOf(eng[e]) /\ DatabaseInStep(eng[e])
      /\ Len(table) \in Nat /\ Len(table') \in Nat
  <2>1. Len(table') \in Nat
    BY SMTT(60) DEF TypeOK
  <2> QED
    BY <2>1, FieldTypes DEF SyncInv, DatabaseInv
<1>1. eng[e].pc \in Recorded
  <2>1. CASE MarkInProgress(e) \/ FinishApply(e)
    BY <1>0, <2>1, MarkFacts
  <2>2. CASE ApplyStep(e) \/ ApplyStepFails(e)
    BY <1>0, <2>2, ApplyStepFacts
  <2>3. CASE ForwardProgress(e)
    BY <1>0, <2>3, ForwardProgressFacts
  <2> QED
    BY <2>1, <2>2, <2>3
<1>2. /\ r = Len(table) /\ r # 0 /\ table[r].name = eng[e].name
      /\ table[r].before = eng[e].before /\ table[r].datamodel = eng[e].datamodel
      /\ Synced(table, r - 1, eng[e].before)
      /\ eng[e].pc # "mark_in_progress" => table[r].status = "MigrationInProgress"
      /\ eng[e].pc = "finish_ok" => db = eng[e].datamodel
  BY <1>0, <1>1 DEF SyncOf, ApplierRow, DatabaseInStep
<1>3. r \in 1..Len(table) /\ NewestIs(table, r)
  BY <1>0, <1>2, SMTT(60) DEF NewestIs
<1>4. ASSUME NEW status, WritesRow(e, status),
             status = "MigrationSuccess" => db' = eng[e].datamodel,
             status \notin Spent
      PROVE  /\ RowsOK' /\ Synced(table, Len(table), db)'
             /\ Len(table') = Len(table)
             /\ table'[r].status = status /\ table'[r].name = eng[e].name
             /\ table'[r].before = eng[e].before
             /\ Synced(table', r - 1, eng[e].before)
  <2>1. /\ RowsOK' /\ Len(table') = Len(table)
        /\ table'[r].status = status /\ table'[r].name = table[r].name
        /\ table'[r].datamodel = table[r].datamodel
        /\ table'[r].before = table[r].before
        /\ \A schema : Synced(table, r - 1, schema) => Synced(table', r - 1, schema)
        /\ NewestIs(table', r)
    BY <1>0, <1>2, <1>3, <1>4, RowWritten
  <2>2. CASE status = "MigrationSuccess"
    <3>1. r \in Nat \ {0}
      BY <1>0, <1>2
    <3>2. Synced(table', r, table'[r].datamodel)
      BY <2>1, <2>2, <3>1, SyncedBySuccess
    <3> QED
      BY <1>2, <1>4, <2>1, <2>2, <3>2
  <2>3. CASE status # "MigrationSuccess"
    <3>1. Synced(table', Len(table'), db')
      BY <1>0, <1>3, <1>4, <2>1, <2>3, SyncedBlocked
    <3> QED
      BY <1>2, <2>1, <3>1
  <2> QED
    BY <2>2, <2>3
<1>5. ASSUME table' = table, eng[e].pc # "mark_in_progress"
      PROVE  RowsOK' /\ Synced(table, Len(table), db)'
  <2>1. Synced(table, Len(table), db')
    BY <1>0, <1>2, <1>3, <1>5, SyncedBlocked DEF Spent
  <2> QED
    BY <1>0, <1>5, <2>1 DEF RowsOK
<1>6. CASE MarkInProgress(e)
  <2>1. /\ Kept(e) /\ eng'[e].pc = "forward" /\ WritesRow(e, "MigrationInProgress")
    BY <1>0, <1>6, MarkFacts
  <2>2. /\ RowsOK' /\ Synced(table, Len(table), db)' /\ Len(table') = Len(table)
        /\ table'[r].status = "MigrationInProgress" /\ table'[r].name = eng[e].name
        /\ table'[r].before = eng[e].before /\ Synced(table', r - 1, eng[e].before)
    BY <1>4, <2>1 DEF Spent
  <2>3. SyncOf(eng[e])'
    BY <1>2, <2>1, <2>2
       DEF SyncOf, ApplierRow, UnapplierRow, RollbackInStep, Kept
  <2> QED
    BY <2>2, <2>3 DEF SyncAfter
<1>7. CASE ApplyStep(e) \/ ApplyStepFails(e)
  <2>1. /\ Kept(e) /\ eng[e].pc = "forward" /\ table' = table
        /\ eng'[e].pc \in {"forward_progress", "finish_ok", "finish_err"}
    BY <1>0, <1>7, ApplyStepFacts
  <2>2. RowsOK' /\ Synced(table, Len(table), db)'
    BY <1>5, <2>1
  <2>3. SyncOf(eng[e])'
    BY <1>2, <2>1 DEF SyncOf, ApplierRow, UnapplierRow, RollbackInStep, Kept
  <2> QED
    BY <2>2, <2>3 DEF SyncAfter
<1>8. CASE ForwardProgress(e)
  <2>1. /\ Kept(e) /\ eng[e].pc = "forward_progress"
        /\ eng'[e].pc \in {"forward", "finish_err"}
        /\ table' = table \/ WritesRow(e, "MigrationInProgress")
    BY <1>0, <1>8, ForwardProgressFacts
  <2>2. /\ RowsOK' /\ Synced(table, Len(table), db)' /\ Len(table') = Len(table)
        /\ table'[r].status = "MigrationInProgress" /\ table'[r].name = eng[e].name
        /\ table'[r].before = eng[e].before /\ Synced(table', r - 1, eng[e].before)
    <3>1. CASE table' = table
      BY <1>2, <1>5, <2>1, <3>1
    <3>2. CASE WritesRow(e, "MigrationInProgress")
      BY <1>4, <3>2 DEF Spent
    <3> QED
      BY <2>1, <3>1, <3>2
  <2>3. SyncOf(eng[e])'
    BY <1>2, <2>1, <2>2
       DEF SyncOf, ApplierRow, UnapplierRow, RollbackInStep, Kept
  <2> QED
    BY <2>2, <2>3 DEF SyncAfter
<1>9. CASE FinishApply(e)
  <2>1. /\ eng'[e].pc = "idle" /\ db' = db
        /\ \/ eng[e].pc = "finish_ok" /\ WritesRow(e, "MigrationSuccess")
           \/ eng[e].pc = "finish_err" /\ WritesRow(e, "MigrationFailure")
    BY <1>0, <1>9, MarkFacts
  <2>2. RowsOK' /\ Synced(table, Len(table), db)'
    <3>1. CASE eng[e].pc = "finish_ok" /\ WritesRow(e, "MigrationSuccess")
      <4>1. db' = eng[e].datamodel /\ "MigrationSuccess" \notin Spent
        BY <1>2, <2>1, <3>1 DEF Spent
      <4> QED
        BY <1>4, <3>1, <4>1
    <3>2. CASE WritesRow(e, "MigrationFailure")
      <4>1. "MigrationFailure" \notin Spent /\ "MigrationFailure" # "MigrationSuccess"
        BY DEF Spent
      <4> QED
        BY <1>4, <3>2, <4>1
    <3> QED
      BY <2>1, <3>1, <3>2
  <2>3. SyncOf(eng[e])'
    BY <2>1 DEF SyncOf, ApplierRow, UnapplierRow, RollbackInStep
  <2> QED
    BY <2>2, <2>3 DEF SyncAfter
<1> QED
  BY <1>6, <1>7, <1>8, <1>9

\* While a rollback runs its row promises nothing.
LEMMA RollingBackBlocks ==
    ASSUME TypeOK, RowsOK, NEW e \in Engines, RollbackRow(eng[e], table, "RollingBack"),
           table' = table
    PROVE  RowsOK' /\ Synced(table', Len(table'), db')
<1>1. /\ Len(table) \in Nat /\ eng[e].revision \in 1..Len(table)
      /\ NewestIs(table, eng[e].revision)
      /\ table[eng[e].revision].status = "RollingBack"
  BY FieldTypes DEF RollbackRow
<1>2. Synced(table, Len(table), db')
  BY <1>1, SyncedBlocked DEF Spent
<1> QED
  BY <1>2 DEF RowsOK

\* A rollback finds the database its migration made, if no later one left a trace.
LEMMA MarkRollingBackSync ==
    ASSUME SyncInv, TypeOK', NEW e \in Engines, MarkRollingBack(e)
    PROVE  SyncAfter(e)
<1> DEFINE r == eng[e].revision
<1>0. /\ TypeOK /\ RowsOK /\ SyncOf(eng[e]) /\ Synced(table, Len(table), db)
      /\ Len(table) \in Nat /\ Len(eng[e].down) \in Nat
  BY FieldTypes DEF SyncInv, DatabaseInv
<1>1. /\ Kept(e) /\ eng[e].pc = "mark_rolling_back" /\ eng'[e].pc = "backward"
      /\ eng'[e].step = eng[e].step /\ db' = db /\ WritesRow(e, "RollingBack")
  BY <1>0, MarkFacts
<1>2. RollbackRow(eng[e], table, "MigrationSuccess") /\ eng[e].step = 0
  BY <1>0, <1>1 DEF SyncOf, UnapplierRow
<1>3. "RollingBack" \notin Spent /\ "RollingBack" # "MigrationSuccess"
  BY DEF Spent
<1>4. /\ RowsOK' /\ RollbackRow(eng[e], table', "RollingBack")
      /\ SpentAfter(table', r) <=> SpentAfter(table, r)
      /\ Synced(table', Len(table'), db')
  BY <1>0, <1>1, <1>2, <1>3, RollbackWrites
<1>5. ASSUME SpentAfter(table, r)
      PROVE  db = eng[e].datamodel
  <2>1. /\ r \in 1..Len(table) /\ table[r].status = "MigrationSuccess"
        /\ table[r].datamodel = eng[e].datamodel
    BY <1>2 DEF RollbackRow
  <2>2. r \in 0..Len(table) /\ r # 0
    BY <1>0, <2>1, SMTT(60)
  <2>3. Base(table, r, Len(table))
    BY <1>5, <2>1 DEF Base, SpentAfter
  <2>4. db = DatamodelOf(table, r)
    BY <1>0, <2>2, <2>3 DEF Synced
  <2> QED
    BY <2>1, <2>2, <2>4 DEF DatamodelOf
<1>6. RollbackInStep(eng[e])'
  <2>1. Reached(eng[e].datamodel, eng[e].down, 0) = eng[e].datamodel
    BY ReachedStart
  <2> QED
    BY <1>0, <1>1, <1>2, <1>4, <1>5, <2>1, SMTT(60) DEF RollbackInStep, Kept
<1>7. UnapplierRow(eng[e])'
  <2>1. RollbackRow(eng'[e], table', "RollingBack")
    BY <1>1, <1>4, RollbackKeeps
  <2> QED
    BY <1>1, <2>1 DEF UnapplierRow
<1>8. SyncOf(eng[e])'
  BY <1>1, <1>6, <1>7 DEF SyncOf, ApplierRow, Recorded, Resetting
<1> QED
  BY <1>4, <1>8 DEF SyncAfter

\* It takes the database back step by step.
LEMMA UnapplyStepSync ==
    ASSUME SyncInv, TypeOK', NEW e \in Engines, UnapplyStep(e) \/ UnapplyStepFails(e)
    PROVE  SyncAfter(e)
<1> DEFINE c == eng[e]
<1>0. /\ TypeOK /\ RowsOK /\ SyncOf(c)
      /\ c.before \in SUBSET Models /\ c.datamodel \in SUBSET Models
      /\ c.step \in Nat /\ Len(c.down) \in Nat
  BY FieldTypes DEF SyncInv, DatabaseInv
<1>1. /\ Kept(e) /\ c.pc = "backward" /\ eng'[e].step = c.step /\ table' = table
      /\ \/ /\ eng'[e].pc = "backward_progress"
            /\ Executes(c, c.down) /\ c.step + 1 < Len(c.down)
         \/ /\ eng'[e].pc = "rollback_ok"
            /\ Executes(c, c.down) /\ ~ (c.step + 1 < Len(c.down))
         \/ /\ eng'[e].pc = "rollback_ok" /\ ~ (c.step < Len(c.down)) /\ db' = db
         \/ eng'[e].pc = "rollback_err"
  BY <1>0, UnapplyStepFacts
<1>2. /\ RollbackRow(c, table, "RollingBack") /\ c.step <= Len(c.down)
      /\ SpentAfter(table, c.revision) => db = Reached(c.datamodel, c.down, c.step)
  BY <1>0, <1>1 DEF SyncOf, UnapplierRow, RollbackInStep
<1>3. c.down \in InferDatabaseSteps(c.datamodel, c.before)
  BY <1>0, <1>2 DEF RowsOK, RollbackRow
<1>4. ASSUME SpentAfter(table, c.revision), Executes(c, c.down)
      PROVE  db' = Reached(c.datamodel, c.down, c.step + 1)
  BY <1>0, <1>2, <1>3, <1>4, ReachedNext DEF Executes
<1>5. ASSUME SpentAfter(table, c.revision), eng'[e].pc = "rollback_ok"
      PROVE  db' = c.before
  <2>0. Reached(c.datamodel, c.down, Len(c.down)) = c.before
    BY <1>0, <1>3, ReachedEnd
  <2>1. ASSUME Executes(c, c.down), ~ (c.step + 1 < Len(c.down))
        PROVE  db' = c.before
    <3>1. c.step + 1 = Len(c.down)
      BY <1>0, <2>1, SMTT(60) DEF Executes
    <3> QED
      BY <1>4, <1>5, <2>0, <2>1, <3>1
  <2>2. ASSUME ~ (c.step < Len(c.down)), db' = db
        PROVE  db' = c.before
    <3>1. c.step = Len(c.down)
      BY <1>0, <1>2, <2>2, SMTT(60)
    <3> QED
      BY <1>2, <1>5, <2>0, <2>2, <3>1
  <2> QED
    BY <1>1, <1>5, <2>1, <2>2
<1>6. eng'[e].pc \in {"backward_progress", "rollback_ok", "rollback_err"}
  BY <1>1
<1>7. RollbackInStep(eng[e])'
  BY <1>0, <1>1, <1>4, <1>5, <1>6 DEF RollbackInStep, Kept
<1>8. UnapplierRow(eng[e])'
  <2>1. RollbackRow(eng'[e], table', "RollingBack")
    BY <1>1, <1>2, RollbackKeeps
  <2> QED
    BY <1>6, <2>1 DEF UnapplierRow
<1>9. SyncOf(eng[e])'
  BY <1>6, <1>7, <1>8 DEF SyncOf, ApplierRow, Recorded, Resetting
<1>10. RowsOK' /\ Synced(table', Len(table'), db')
  BY <1>0, <1>1, <1>2, RollingBackBlocks
<1> QED
  BY <1>9, <1>10 DEF SyncAfter

\* The count of the steps is written to the row, which goes on to promise nothing.
LEMMA BackwardProgressSync ==
    ASSUME SyncInv, TypeOK', NEW e \in Engines, BackwardProgress(e)
    PROVE  SyncAfter(e)
<1> DEFINE r == eng[e].revision
<1>0. TypeOK /\ RowsOK /\ SyncOf(eng[e]) /\ eng[e].step \in Nat /\ Len(eng[e].down) \in Nat
  BY FieldTypes DEF SyncInv, DatabaseInv
<1>1. /\ Kept(e) /\ eng[e].pc = "backward_progress"
      /\ eng'[e].pc \in {"backward", "rollback_err"}
      /\ eng'[e].step = eng[e].step + 1 /\ db' = db
      /\ table' = table \/ WritesRow(e, "RollingBack")
  BY <1>0, BackwardProgressFacts
<1>2. RollbackRow(eng[e], table, "RollingBack")
  BY <1>0, <1>1 DEF SyncOf, UnapplierRow
<1>3. /\ RowsOK' /\ RollbackRow(eng[e], table', "RollingBack")
      /\ SpentAfter(table', r) <=> SpentAfter(table, r)
      /\ Synced(table', Len(table'), db')
  <2>1. CASE table' = table
    <3>1. RowsOK' /\ Synced(table', Len(table'), db')
      BY <1>0, <1>2, <2>1, RollingBackBlocks
    <3> QED
      BY <1>2, <2>1, <3>1
  <2>2. CASE WritesRow(e, "RollingBack")
    <3>1. "RollingBack" \notin Spent /\ "RollingBack" # "MigrationSuccess"
      BY DEF Spent
    <3> QED
      BY <1>0, <1>2, <2>2, <3>1, RollbackWrites
  <2> QED
    BY <1>1, <2>1, <2>2
<1>4. RollbackInStep(eng[e])'
  BY <1>0, <1>1, <1>3, SMTT(60) DEF SyncOf, RollbackInStep, Kept
<1>5. UnapplierRow(eng[e])'
  <2>1. RollbackRow(eng'[e], table', "RollingBack")
    BY <1>1, <1>3, RollbackKeeps
  <2> QED
    BY <1>1, <2>1 DEF UnapplierRow
<1>6. SyncOf(eng[e])'
  BY <1>1, <1>4, <1>5 DEF SyncOf, ApplierRow, Recorded, Resetting
<1> QED
  BY <1>3, <1>6 DEF SyncAfter

\* When a rollback has succeeded its row has left no trace.
LEMMA FinishUnapplySync ==
    ASSUME SyncInv, TypeOK', NEW e \in Engines, FinishUnapply(e)
    PROVE  SyncAfter(e)
<1> DEFINE r == eng[e].revision
<1>0. /\ TypeOK /\ RowsOK /\ SyncOf(eng[e]) /\ Len(table) \in Nat
  BY FieldTypes DEF SyncInv, DatabaseInv
<1>1. /\ eng'[e].pc = "idle" /\ db' = db
      /\ \/ eng[e].pc = "rollback_ok" /\ WritesRow(e, "RollbackSuccess")
         \/ eng[e].pc = "rollback_err" /\ WritesRow(e, "RollbackFailure")
  BY <1>0, MarkFacts
<1>2. RollbackRow(eng[e], table, "RollingBack")
  BY <1>0, <1>1 DEF SyncOf, UnapplierRow
<1>3. ASSUME eng[e].pc = "rollback_ok", WritesRow(e, "RollbackSuccess")
      PROVE  RowsOK' /\ Synced(table', Len(table'), db')
  <2>1. "RollbackSuccess" # "MigrationSuccess"
    OBVIOUS
  <2>2. /\ RowsOK' /\ Len(table') = Len(table)
        /\ RollbackRow(eng[e], table', "RollbackSuccess")
        /\ SpentAfter(table', r) <=> SpentAfter(table, r)
    BY <1>0, <1>2, <1>3, <2>1, RollbackWrites
  <2>3. /\ r \in 1..Len(table') /\ NewestIs(table', r)
        /\ table'[r].status = "RollbackSuccess" /\ Synced(table', r - 1, eng[e].before)
    BY <2>2 DEF RollbackRow
  <2>4. Len(table') \in Nat
    BY <1>0, <2>2
  <2>5. CASE SpentAfter(table, r)
    <3>1. db' = eng[e].before
      BY <1>0, <1>1, <1>3, <2>5 DEF SyncOf, RollbackInStep
    <3>2. \A q \in ((r - 1) + 1)..Len(table') : table'[q].status \in Spent
      BY <2>2, <2>3, <2>4, <2>5, SMTT(60) DEF SpentAfter, Spent
    <3>3. r - 1 \in 0..Len(table')
      BY <2>3, <2>4, SMTT(60)
    <3>4. Synced(table', Len(table'), eng[e].before)
      BY <2>3, <2>4, <3>2, <3>3, SyncedThrough
    <3> QED
      BY <2>2, <3>1, <3>4
  <2>6. CASE ~ SpentAfter(table, r)
    <3>1. PICK q \in (r + 1)..Len(table') : table'[q].status \notin Spent
      BY <2>2, <2>6 DEF SpentAfter
    <3>2. /\ q \in 1..Len(table') /\ NewestIs(table', q)
          /\ table'[q].status # "MigrationSuccess"
      BY <2>3, <2>4, <3>1, SMTT(60) DEF NewestIs
    <3>3. Synced(table', Len(table'), db')
      BY <2>4, <3>1, <3>2, SyncedBlocked
    <3> QED
      BY <2>2, <3>3
  <2> QED
    BY <2>5, <2>6
<1>4. ASSUME WritesRow(e, "RollbackFailure")
      PROVE  RowsOK' /\ Synced(table', Len(table'), db')
  <2>1. "RollbackFailure" \notin Spent /\ "RollbackFailure" # "MigrationSuccess"
    BY DEF Spent
  <2> QED
    BY <1>0, <1>2, <1>4, <2>1, RollbackWrites
<1>5. SyncOf(eng[e])'
  BY <1>1
     DEF SyncOf, ApplierRow, UnapplierRow, RollbackInStep, Recorded, Resetting
<1> QED
  BY <1>1, <1>3, <1>4, <1>5 DEF SyncAfter

\* With one engine, no resets and no foreign DDL nothing else can put them apart.
LEMMA SyncInvStep ==
    ASSUME OneEngine, "reset" \notin Commands, "drift" \notin Events
    PROVE  SyncInv /\ [Next]_vars => SyncInv'
<1> SUFFICES ASSUME SyncInv, [Next]_vars
             PROVE  SyncInv'
  OBVIOUS
<1>0. TypeOK /\ TypeOK' /\ DatabaseInv'
  BY TypeStep, DatabaseInvStep DEF SyncInv, DatabaseInv
<1>1. ASSUME NEW e \in Engines, Accept(e) \/ Run(e) \/ Crash(e) \/ Restart(e)
      PROVE  SyncInv'
  <2>1. SyncAfter(e)
    BY <1>0, <1>1, PreparingSync, CreateSync, ForwardSync, ChooseSync,
       MarkRollingBackSync, UnapplyStepSync, BackwardProgressSync, FinishUnapplySync,
       ZenonT(60) DEF Run
  <2>2. \A f \in Engines : f = e
    BY DEF OneEngine
  <2> QED
    BY <1>0, <2>1, <2>2 DEF SyncInv, SyncAfter
<1>2. CASE Drift \/ Insert \/ UNCHANGED vars
  <2>1. table' = table /\ db' = db /\ eng' = eng
    BY <1>2 DEF Drift, Insert, vars
  <2> QED
    BY <1>0, <2>1
       DEF SyncInv, RowsOK, SyncOf, ApplierRow, UnapplierRow, RollbackInStep
<1> QED
  BY <1>1, <1>2 DEF Next

\* InSync: with one engine, no reset and no foreign DDL, the database is what the last
\* successful migration says unless a newer row shows that an apply or a rollback
\* stopped half-way; wherever the engine crashes and whichever queries fail.
THEOREM DatabaseIsInSync ==
    ASSUME OneEngine, "reset" \notin Commands, "drift" \notin Events
    PROVE  Spec => []InSync
<1>1. Init => SyncInv
  <2> SUFFICES ASSUME Init
               PROVE  SyncInv
    OBVIOUS
  <2>1. \A e \in Engines : eng[e].pc = "idle"
    BY DEF Init, Blank
  <2>2. DatabaseInv
    BY <2>1, TypeInit DEF DatabaseInv, DatabaseInStep, Diffed, Recorded
  <2>3. Len(table) = 0 /\ db = {}
    BY DEF Init
  <2>4. RowsOK /\ Synced(table, Len(table), db)
    BY <2>3, SMTT(60) DEF RowsOK, Synced, DatamodelOf
  <2>5. \A e \in Engines : SyncOf(eng[e])
    BY <2>1
       DEF SyncOf, ApplierRow, UnapplierRow, RollbackInStep, Recorded, Unapplying, Resetting
  <2> QED
    BY <2>2, <2>4, <2>5 DEF SyncInv
<1>2. SyncInv => InSync
  <2> SUFFICES ASSUME SyncInv, \A q \in (last + 1)..Len(table) :
                                   table[q].status \notin Unfinished
               PROVE  db = DatamodelAt(last)
    BY DEF InSync
  <2>1. /\ table \in Seq(Row) /\ Len(table) \in Nat /\ Synced(table, Len(table), db)
    BY SMTT(60) DEF SyncInv, DatabaseInv, TypeOK
  <2>2. /\ last = 0 \/ (last \in 1..Len(table) /\ table[last].status = "MigrationSuccess")
        /\ NewestIs(table, last)
    BY <2>1, LastIsNewest
  <2>3. last \in 0..Len(table)
    BY <2>1, <2>2, SMTT(60)
  <2>4. ASSUME NEW q \in (last + 1)..Len(table)
        PROVE  table[q].status \in Spent
    <3>1. table[q] \in Row
      BY <2>1, <2>3, SMTT(60)
    <3>2. table[q].status \in MigrationStatus
      BY <3>1 DEF Row
    <3>3. table[q].status \notin Unfinished /\ table[q].status # "MigrationSuccess"
      BY <2>2 DEF NewestIs
    <3> QED
      BY <3>2, <3>3 DEF MigrationStatus, Unfinished, Spent
  <2>5. Base(table, last, Len(table))
    BY <2>2, <2>4 DEF Base
  <2> QED
    BY <2>1, <2>3, <2>5 DEF Synced, DatamodelOf, DatamodelAt
<1> QED
  BY <1>1, <1>2, SyncInvStep, PTL DEF Spec

=============================================================================
