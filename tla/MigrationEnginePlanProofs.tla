---------------------- MODULE MigrationEnginePlanProofs ----------------------
(***************************************************************************)
(* What the _Migration table means for the clients of one engine: an id is *)
(* applied twice only across a watch migration, and the steps the engine   *)
(* inferred lead, when they are applied, to the datamodel they were        *)
(* inferred for.                                                           *)
(***************************************************************************)
EXTENDS MigrationEngineStepProofs

USE ZenonT(60)

--------------------------------------------------------------------------------
(* An id is applied again only when the engine leaves watch mode *)

\* A watch migration was applied between the rows r and s of tab.
Between(tab, r, s) ==
    \E w \in (r + 1)..(s - 1) : IsWatch(tab[w].name) /\ tab[w].status = "MigrationSuccess"

\* Row n of tab may succeed under this name: whatever has it already is cut off by a
\* watch migration.
MayApply(tab, name, n) ==
    \A r \in 1..(n - 1) :
        tab[r].status = "MigrationSuccess" /\ tab[r].name = name => Between(tab, r, n)

NoDuplicates(tab) ==
    \A s \in 1..Len(tab) :
        tab[s].status = "MigrationSuccess" => MayApply(tab, tab[s].name, s)

\* The engine looked at the table before it computes the next datamodel; nothing
\* makes the answer stale before the row is written.  A rollback works on the newest
\* successful row, so no pair of rows needs it as the migration in between.
Allowed == {"watch_base", "normal_base", "describe", "check", "create"}

IdOf(c) ==
    /\ c.pc \in Allowed => MayApply(table, c.name, Len(table) + 1)
    /\ c.pc \in Recorded =>
          /\ c.revision \in 1..Len(table) /\ c.revision = Len(table)
          /\ table[c.revision].name = c.name
          /\ MayApply(table, c.name, c.revision)
    /\ c.pc \in Unapplying => c.revision \in 1..Len(table) /\ NewestIs(table, c.revision)

IdInv == TypeOK /\ NoDuplicates(table) /\ \A e \in Engines : IdOf(eng[e])

\* Whether row n may succeed depends on the rows before it only.
LEMMA MayApplyFrame ==
    ASSUME NEW tab, NEW next, NEW name, NEW n \in Nat,
           \A q \in 1..(n - 1) : next[q].name = tab[q].name /\ next[q].status = tab[q].status,
           MayApply(tab, name, n)
    PROVE  MayApply(next, name, n)
<1> SUFFICES ASSUME NEW r \in 1..(n - 1), next[r].status = "MigrationSuccess",
                    next[r].name = name
             PROVE  Between(next, r, n)
  BY DEF MayApply
<1>1. Between(tab, r, n)
  BY DEF MayApply
<1>2. PICK w \in (r + 1)..(n - 1) : IsWatch(tab[w].name) /\ tab[w].status = "MigrationSuccess"
  BY <1>1 DEF Between
<1>3. w \in 1..(n - 1)
  BY SMTT(60)
<1> QED
  BY <1>2, <1>3 DEF Between

\* An UPDATE of the newest successful row, or of a newer one.
LEMMA IdWritten ==
    ASSUME TypeOK, NoDuplicates(table), NEW e \in Engines, NEW status, WritesRow(e, status),
           eng[e].revision \in 1..Len(table), NewestIs(table, eng[e].revision),
           status = "MigrationSuccess" =>
              MayApply(table, table[eng[e].revision].name, eng[e].revision)
    PROVE  /\ NoDuplicates(table') /\ NewestIs(table', eng[e].revision)
           /\ \A name : MayApply(table, name, eng[e].revision) =>
                           MayApply(table', name, eng[e].revision)
<1> DEFINE r == eng[e].revision
<1>0. Len(table) \in Nat /\ r \in Nat /\ Len(table') = Len(table)
  BY FieldTypes DEF WritesRow
<1>1. \A q \in 1..Len(table) :
         /\ table'[q].name = table[q].name
         /\ q # r => table'[q].status = table[q].status
         /\ table'[q].status \in {status, table[q].status}
  BY DEF WritesRow
<1> HIDE DEF r
<1>2. ASSUME NEW n \in Nat, n <= r, NEW name, MayApply(table, name, n)
      PROVE  MayApply(table', name, n)
  <2>1. \A q \in 1..(n - 1) : table'[q].name = table[q].name /\ table'[q].status = table[q].status
    BY <1>0, <1>1, <1>2, SMTT(60) DEF r
  <2> QED
    BY <1>2, <2>1, MayApplyFrame
<1>3. NewestIs(table', r)
  BY <1>0, <1>1, SMTT(60) DEF NewestIs, r
<1>4. ASSUME NEW s \in 1..Len(table'), table'[s].status = "MigrationSuccess"
      PROVE  MayApply(table', table'[s].name, s)
  <2>1. s \in 1..Len(table) /\ s \in Nat
    BY <1>0, <1>4, SMTT(60)
  <2>2. s <= r
    BY <1>0, <1>3, <1>4, SMTT(60) DEF NewestIs
  <2>3. CASE table[s].status = "MigrationSuccess"
    BY <1>1, <1>2, <2>1, <2>2, <2>3 DEF NoDuplicates
  <2>4. CASE table[s].status # "MigrationSuccess"
    <3>1. s = r /\ status = "MigrationSuccess"
      BY <1>1, <1>4, <2>1, <2>4
    <3>2. MayApply(table, table[s].name, s)
      BY <3>1 DEF r
    <3> QED
      BY <1>1, <1>2, <2>1, <2>2, <3>2
  <2> QED
    BY <2>3, <2>4
<1>5. r <= r
  BY <1>0, SMTT(60)
<1> QED
  BY <1>0, <1>2, <1>3, <1>4, <1>5 DEF NoDuplicates, r

\* A new row is pending: it duplicates nothing yet.
LEMMA IdCreated ==
    ASSUME IdInv, NEW e \in Engines, Create(e)
    PROVE  NoDuplicates(table') /\ IdOf(eng[e])'
<1> DEFINE n == Len(table) + 1
<1>0. TypeOK /\ NoDuplicates(table) /\ IdOf(eng[e]) /\ Len(table) \in Nat
  BY FieldTypes DEF IdInv
<1>1. /\ eng[e].pc = "create" /\ eng'[e].pc = "mark_in_progress"
      /\ eng'[e].name = eng[e].name /\ eng'[e].revision = n
      /\ Len(table') = n /\ \A q \in 1..Len(table) : table'[q] = table[q]
      /\ table'[n].name = eng[e].name /\ table'[n].status = "Pending"
  BY <1>0, CreateFacts
<1>2. MayApply(table, eng[e].name, n)
  BY <1>0, <1>1 DEF IdOf, Allowed
<1>3. ASSUME NEW s \in Nat, s <= n, NEW name, MayApply(table, name, s)
      PROVE  MayApply(table', name, s)
  <2>1. \A q \in 1..(s - 1) : q \in 1..Len(table)
    BY <1>0, <1>3, SMTT(60)
  <2> QED
    BY <1>1, <1>3, <2>1, MayApplyFrame
<1>4. ASSUME NEW s \in 1..Len(table'), table'[s].status = "MigrationSuccess"
      PROVE  MayApply(table', table'[s].name, s)
  <2>1. s # n
    BY <1>1, <1>4
  <2>2. s \in 1..Len(table) /\ s \in Nat /\ s <= n
    BY <1>0, <1>1, <2>1, SMTT(60)
  <2> QED
    BY <1>0, <1>1, <1>3, <1>4, <2>2 DEF NoDuplicates
<1>5. n \in Nat /\ n <= n /\ n \in 1..n
  BY <1>0, SMTT(60)
<1>6. MayApply(table', eng[e].name, n)
  BY <1>2, <1>3, <1>5
<1> HIDE DEF n
<1>7. IdOf(eng[e])'
  BY <1>1, <1>5, <1>6 DEF IdOf, Allowed, Recorded, Unapplying
<1> QED
  BY <1>4, <1>7 DEF NoDuplicates

\* The two ways into a migration: the last migration is a watch migration, which
\* cuts off all the rows before it that have an id of another kind; or the id is new.
LEMMA IdRead ==
    ASSUME IdInv, NEW e \in Engines, ApplyLast(e) \/ CheckNotApplied(e)
    PROVE  NoDuplicates(table') /\ IdOf(eng[e])'
<1>0. TypeOK /\ NoDuplicates(table) /\ table \in Seq(Row) /\ Len(table) \in Nat
  BY FieldTypes DEF IdInv, TypeOK
<1>1. table' = table
  BY <1>0, ReadFacts
<1>2. CASE eng'[e].pc \in {"idle", "check_applied"}
  BY <1>0, <1>1, <1>2 DEF IdOf, Allowed, Recorded, Unapplying
<1>3. CASE eng'[e].pc = "watch_base"
  <2>1. /\ Kept(e) /\ last # 0 /\ IsWatch(table[last].name) /\ ~ IsWatch(eng[e].name)
    <3>1. ApplyLast(e)
      BY <1>0, <1>3, ReadFacts
    <3> QED
      BY <1>0, <1>3, <3>1, ReadFacts
  <2> DEFINE l == last
  <2>2. /\ l \in 1..Len(table) /\ table[l].status = "MigrationSuccess"
        /\ NewestIs(table, l)
    BY <1>0, <2>1, LastIsNewest
  <2> HIDE DEF l
  <2>3. ASSUME NEW r \in 1..((Len(table) + 1) - 1), table[r].status = "MigrationSuccess",
               table[r].name = eng[e].name
        PROVE  Between(table, r, Len(table) + 1)
    <3>1. r # l
      BY <2>1, <2>3 DEF l
    <3>2. r <= l
      BY <1>0, <2>2, <2>3, SMTT(60) DEF NewestIs
    <3>3. l \in (r + 1)..((Len(table) + 1) - 1)
      BY <1>0, <2>2, <3>1, <3>2, SMTT(60)
    <3> QED
      BY <2>1, <2>2, <3>3 DEF Between, l
  <2>4. MayApply(table, eng[e].name, Len(table) + 1)
    BY <2>3 DEF MayApply
  <2> QED
    BY <1>0, <1>1, <1>3, <2>1, <2>4 DEF IdOf, Allowed, Recorded, Unapplying, Kept
<1>4. CASE eng'[e].pc = "normal_base"
  <2>1. Kept(e) /\ ~ migration_is_already_applied(eng[e].name)
    <3>1. CheckNotApplied(e)
      BY <1>0, <1>4, ReadFacts
    <3> QED
      BY <1>0, <1>4, <3>1, ReadFacts
  <2>2. \A r \in 1..((Len(table) + 1) - 1) : r \in 1..Len(table)
    BY <1>0, SMTT(60)
  <2>3. MayApply(table, eng[e].name, Len(table) + 1)
    BY <2>1, <2>2 DEF MayApply, migration_is_already_applied
  <2> QED
    BY <1>0, <1>1, <1>4, <2>1, <2>3 DEF IdOf, Allowed, Recorded, Unapplying, Kept
<1>5. eng'[e].pc \in {"idle", "check_applied", "watch_base", "normal_base"}
  BY <1>0, ReadFacts
<1> QED
  BY <1>2, <1>3, <1>4, <1>5

\* The applier writes its own row, the last one of the table.
LEMMA IdApplied ==
    ASSUME IdInv, NEW e \in Engines,
           \/ MarkInProgress(e) \/ ApplyStep(e) \/ ApplyStepFails(e)
           \/ ForwardProgress(e) \/ FinishApply(e)
    PROVE  NoDuplicates(table') /\ IdOf(eng[e])'
<1> DEFINE r == eng[e].revision
<1>0. TypeOK /\ NoDuplicates(table) /\ IdOf(eng[e]) /\ Len(table) \in Nat
  BY FieldTypes DEF IdInv
<1>1. /\ eng[e].pc \in Recorded
      /\ \/ eng'[e].pc = "idle"
         \/ eng'[e].pc \in Recorded /\ Kept(e)
      /\ table' = table \/ \E status : WritesRow(e, status)
  <2>1. CASE MarkInProgress(e) \/ FinishApply(e)
    BY <1>0, <2>1, MarkFacts DEF Recorded
  <2>2. CASE ApplyStep(e) \/ ApplyStepFails(e)
    BY <1>0, <2>2, ApplyStepFacts DEF Recorded
  <2>3. CASE ForwardProgress(e)
    BY <1>0, <2>3, ForwardProgressFacts DEF Recorded
  <2> QED
    BY <2>1, <2>2, <2>3
<1>2. /\ r \in 1..Len(table) /\ r = Len(table) /\ table[r].name = eng[e].name
      /\ MayApply(table, eng[e].name, r)
  BY <1>0, <1>1 DEF IdOf
<1>3. NewestIs(table, r)
  BY <1>0, <1>2, SMTT(60) DEF NewestIs
<1>4. /\ NoDuplicates(table') /\ Len(table') = Len(table)
      /\ table'[r].name = table[r].name /\ MayApply(table', eng[e].name, r)
  <2>1. CASE table' = table
    BY <1>0, <1>2, <2>1
  <2>2. CASE \E status : WritesRow(e, status)
    <3>1. PICK status : WritesRow(e, status)
      BY <2>2
    <3>2. NoDuplicates(table') /\ MayApply(table', eng[e].name, r)
      BY <1>0, <1>2, <1>3, <3>1, IdWritten
    <3>3. Len(table') = Len(table) /\ table'[r].name = table[r].name
      BY <1>2, <3>1 DEF WritesRow
    <3> QED
      BY <3>2, <3>3
  <2> QED
    BY <1>1, <2>1, <2>2
<1> HIDE DEF r
<1>5. CASE eng'[e].pc = "idle"
  BY <1>4, <1>5 DEF IdOf, Allowed, Recorded, Unapplying
<1>6. CASE eng'[e].pc \in Recorded /\ Kept(e)
  <2>1. eng'[e].revision = r /\ eng'[e].name = eng[e].name
    BY <1>6 DEF Kept, r
  <2> QED
    BY <1>2, <1>4, <1>6, <2>1 DEF IdOf, Allowed, Recorded, Unapplying
<1> QED
  BY <1>1, <1>5, <1>6

\* A rollback writes the newest successful row, and never that it succeeded.
LEMMA IdUnapplied ==
    ASSUME IdInv, NEW e \in Engines,
           \/ UnapplyCheck(e) \/ MarkRollingBack(e) \/ UnapplyStep(e)
           \/ UnapplyStepFails(e) \/ BackwardProgress(e) \/ FinishUnapply(e)
    PROVE  NoDuplicates(table') /\ IdOf(eng[e])'
<1> DEFINE r == eng[e].revision
<1>0. TypeOK /\ NoDuplicates(table) /\ IdOf(eng[e])
  BY DEF IdInv
<1>1. /\ eng[e].pc \in Unapplying
      /\ \/ eng'[e].pc = "idle"
         \/ eng'[e].pc \in Unapplying /\ Kept(e)
      /\ \/ table' = table
         \/ \E status \in {"RollingBack", "RollbackSuccess", "RollbackFailure"} :
               WritesRow(e, status)
  <2>1. CASE MarkRollingBack(e) \/ FinishUnapply(e)
    BY <1>0, <2>1, MarkFacts DEF Unapplying
  <2>2. CASE UnapplyStep(e) \/ UnapplyStepFails(e)
    BY <1>0, <2>2, UnapplyStepFacts DEF Unapplying
  <2>3. CASE BackwardProgress(e)
    BY <1>0, <2>3, BackwardProgressFacts DEF Unapplying
  <2>4. CASE UnapplyCheck(e)
    BY <1>0, <2>4, ReadFacts DEF Unapplying
  <2> QED
    BY <2>1, <2>2, <2>3, <2>4
<1>2. r \in 1..Len(table) /\ NewestIs(table, r)
  BY <1>0, <1>1 DEF IdOf
<1>3. NoDuplicates(table') /\ Len(table') = Len(table) /\ NewestIs(table', r)
  <2>1. CASE table' = table
    BY <1>0, <1>2, <2>1
  <2>2. CASE table' # table
    <3>1. PICK status \in {"RollingBack", "RollbackSuccess", "RollbackFailure"} :
             WritesRow(e, status)
      BY <1>1, <2>2
    <3>2. status # "MigrationSuccess"
      BY <3>1
    <3>3. NoDuplicates(table') /\ NewestIs(table', r)
      BY <1>0, <1>2, <3>1, <3>2, IdWritten
    <3>4. Len(table') = Len(table)
      BY <3>1 DEF WritesRow
    <3> QED
      BY <3>3, <3>4
  <2> QED
    BY <2>1, <2>2
<1> HIDE DEF r
<1>4. CASE eng'[e].pc = "idle"
  BY <1>3, <1>4 DEF IdOf, Allowed, Recorded, Unapplying
<1>5. CASE eng'[e].pc \in Unapplying /\ Kept(e)
  <2>1. eng'[e].revision = r
    BY <1>5 DEF Kept, r
  <2> QED
    BY <1>2, <1>3, <1>5, <2>1 DEF IdOf, Allowed, Recorded, Unapplying
<1> QED
  BY <1>1, <1>4, <1>5

\* Every other step leaves the rows alone or deletes them all, and goes on under the
\* same id if it goes on at all.
LEMMA IdElsewhere ==
    ASSUME IdInv, NEW e \in Engines,
           \/ Accept(e) \/ handle_transition_out_of_watch_mode(e)
           \/ handle_normal_migration(e) \/ Describe(e) \/ DestructiveChangesCheck(e)
           \/ UnapplyLast(e) \/ ResetRows(e) \/ ResetDrop(e) \/ ResetInit(e)
           \/ CommandFails(e) \/ CreatePanics(e) \/ Crash(e) \/ Restart(e)
    PROVE  NoDuplicates(table') /\ IdOf(eng[e])'
<1> USE DEF Allowed, Recorded, Unapplying
<1>0. /\ TypeOK /\ EnginesOK /\ table \in Seq(Row) /\ NoDuplicates(table) /\ IdOf(eng[e])
  BY DEF IdInv, TypeOK
<1>1. ASSUME table' = table \/ table' = <<>>,
             eng'[e].pc \notin Allowed \cup Recorded \cup Unapplying
      PROVE  NoDuplicates(table') /\ IdOf(eng[e])'
  <2>1. NoDuplicates(<<>>)
    BY SMTT(60) DEF NoDuplicates
  <2> QED
    BY <1>0, <1>1, <2>1 DEF IdOf
<1>2. ASSUME table' = table, eng[e].pc \in Allowed, eng'[e].pc \in Allowed,
             eng'[e].name = eng[e].name
      PROVE  NoDuplicates(table') /\ IdOf(eng[e])'
  BY <1>0, <1>2 DEF IdOf
<1>3. CASE Accept(e)
  BY <1>0, <1>1, <1>3, AcceptFacts
<1>4. CASE handle_transition_out_of_watch_mode(e) \/ handle_normal_migration(e)
  <2>1. /\ table' = table /\ eng[e].pc \in {"watch_base", "normal_base"}
        /\ \E base : Calculate(e, base)
    BY <1>4
       DEF handle_transition_out_of_watch_mode, handle_normal_migration, At
  <2>2. \/ eng'[e].pc = "idle"
        \/ eng'[e].pc = "describe" /\ eng'[e].name = eng[e].name
    BY <1>0, <2>1, CalculateFacts
  <2> QED
    BY <1>1, <1>2, <2>1, <2>2
<1>5. CASE Describe(e)
  <2>1. /\ table' = table /\ eng[e].pc = "describe" /\ eng'[e].pc = "check"
        /\ eng'[e].name = eng[e].name
    BY <1>0, <1>5, DescribeFacts
  <2> QED
    BY <1>2, <2>1
<1>6. CASE DestructiveChangesCheck(e)
  <2>1. /\ table' = table /\ eng[e].pc = "check"
        /\ \/ eng'[e].pc = "idle"
           \/ eng'[e].pc = "create" /\ eng'[e].name = eng[e].name
    BY <1>0, <1>6, ReadFacts DEF Kept
  <2> QED
    BY <1>1, <1>2, <2>1
<1>7. CASE UnapplyLast(e)
  <2>1. /\ table' = table
        /\ \/ eng'[e].pc = "idle"
           \/ eng'[e].pc = "unapply_check" /\ last # 0 /\ eng'[e].revision = last
    BY <1>0, <1>7, UnapplyLastFacts
  <2>2. last = 0 \/ last \in 1..Len(table)
    BY <1>0, LastIsNewest
  <2>3. NewestIs(table, last)
    BY <1>0, LastIsNewest
  <2> QED
    BY <1>0, <1>1, <2>1, <2>2, <2>3 DEF IdOf
<1>8. CASE ResetRows(e) \/ ResetDrop(e)
  BY <1>0, <1>1, <1>8, ResetFacts
<1>9. CASE ResetInit(e) \/ CommandFails(e) \/ CreatePanics(e) \/ Crash(e) \/ Restart(e)
  BY <1>0, <1>1, <1>9, EndFacts
<1> QED
  BY <1>3, <1>4, <1>5, <1>6, <1>7, <1>8, <1>9

\* With one engine nothing but its own steps happens between its looking at the table
\* and its writing the row.
LEMMA IdInvStep ==
    ASSUME OneEngine
    PROVE  IdInv /\ [Next]_vars => IdInv'
<1> SUFFICES ASSUME IdInv, [Next]_vars
             PROVE  IdInv'
  OBVIOUS
<1>0. TypeOK'
  BY TypeStep DEF IdInv
<1>1. ASSUME NEW e \in Engines, Accept(e) \/ Run(e) \/ Crash(e) \/ Restart(e)
      PROVE  IdInv'
  <2>1. NoDuplicates(table') /\ IdOf(eng[e])'
    BY <1>1, IdCreated, IdRead, IdApplied, IdUnapplied, IdElsewhere DEF Run
  <2>2. \A f \in Engines : f = e
    BY DEF OneEngine
  <2> QED
    BY <1>0, <2>1, <2>2 DEF IdInv
<1>2. CASE Drift \/ Insert \/ UNCHANGED vars
  <2>1. table' = table /\ eng' = eng
    BY <1>2 DEF Drift, Insert, vars
  <2> QED
    BY <1>0, <2>1 DEF IdInv, IdOf
<1> QED
  BY <1>1, <1>2 DEF Next

\* DuplicatesOnlyLeavingWatch: one engine applies an id twice only with an applied
\* watch migration in between, whatever is rolled back, reset, refused or cut short.
THEOREM IdsAreReusedOnlyLeavingWatch ==
    ASSUME OneEngine
    PROVE  Spec => []DuplicatesOnlyLeavingWatch
<1>1. Init => IdInv
  <2>1. Init => \A e \in Engines : eng[e].pc = "idle"
    BY SMTT(60) DEF Init, Blank
  <2>2. Init => NoDuplicates(table)
    BY SMTT(60) DEF Init, NoDuplicates
  <2> QED
    BY <2>1, <2>2, TypeInit DEF IdInv, IdOf, Allowed, Recorded, Unapplying
<1>2. IdInv => DuplicatesOnlyLeavingWatch
  <2> SUFFICES ASSUME IdInv, NEW r \in 1..Len(table), NEW s \in 1..Len(table),
                      table[r].status = "MigrationSuccess",
                      table[s].status = "MigrationSuccess",
                      table[r].name = table[s].name, r < s
               PROVE  Between(table, r, s)
    BY DEF DuplicatesOnlyLeavingWatch, Between
  <2>1. Len(table) \in Nat
    BY SMTT(60) DEF IdInv, TypeOK
  <2>2. r \in 1..(s - 1)
    BY <2>1, SMTT(60)
  <2> QED
    BY <2>2 DEF IdInv, NoDuplicates, MayApply
<1> QED
  BY <1>1, <1>2, IdInvStep, PTL DEF Spec

--------------------------------------------------------------------------------
(* The steps inferred for a datamodel lead to it *)

\* The migration the steps of a request are relative to, as inferMigrationSteps
\* chooses it: leaving watch mode, the newest one that was applied outside of it.
Applied(tab) == {r \in 1..Len(tab) : tab[r].status = "MigrationSuccess"}

AppliedOutsideWatch(tab) ==
    {r \in 1..Len(tab) : ~ IsWatch(tab[r].name) /\ tab[r].status = "MigrationSuccess"}

LeavesWatch(tab, name) ==
    /\ Newest(Applied(tab)) # 0 /\ IsWatch(tab[Newest(Applied(tab))].name)
    /\ ~ IsWatch(name)

BaseOf(tab, name) ==
    IF LeavesWatch(tab, name) THEN Newest(AppliedOutsideWatch(tab)) ELSE Newest(Applied(tab))

BaseDatamodel(tab, r) == IF r = 0 THEN {} ELSE tab[r].datamodel

PlannedSteps(tab, name, target) ==
    InferDatamodelSteps(BaseDatamodel(tab, BaseOf(tab, name)), target)

\* What AllOthersSucceeded says of the rows of tab other than n.
OthersSucceeded(tab, n) ==
    \A r \in 1..Len(tab) :
        IsWatch(tab[r].name) \/ r = n \/ tab[r].status = "MigrationSuccess"

Reading == {"apply_last", "check_applied", "normal_base", "watch_base"}
Prepared == {"describe", "check", "create"}

\* A command that has not computed its datamodel carries the steps of the plan, and
\* will read the base they were inferred from.
PlanOf(c) ==
    /\ c.pc \in Reading =>
          /\ c.revision = 0
          /\ \A target \in c.target : c.steps = PlannedSteps(table, c.name, target)
    /\ c.pc \in {"check_applied", "normal_base"} => ~ LeavesWatch(table, c.name)
    /\ c.pc = "watch_base" => LeavesWatch(table, c.name)
    /\ c.pc \in Prepared => c.revision = 0
    /\ c.pc \in Prepared \cup Recorded /\ OthersSucceeded(table, c.revision) =>
          \A target \in c.target : c.datamodel = target

\* The plans clients hold are up to date: nothing is running that could change what
\* they were inferred from.
PlansAreCurrent ==
    /\ \A p \in plan : \A t \in p.target : p.steps = PlannedSteps(table, p.name, t)
    /\ plan # {} => Quiet

PlanInv == TypeOK /\ PlansAreCurrent /\ \A e \in Engines : PlanOf(eng[e])

\* Replaying the steps inferred for a datamodel on their base gives that datamodel.
LEMMA StepsLeadToTarget ==
    ASSUME NEW base, NEW target
    PROVE  CalculateDatamodel(base, InferDatamodelSteps(base, target)) = target
<1>1. /\ InferDatamodelSteps(base, target).delete = base \ target
      /\ InferDatamodelSteps(base, target).create = target \ base
  BY DEF InferDatamodelSteps
<1>2. (base \ (base \ target)) \cup (target \ base) = target
  OBVIOUS
<1> QED
  BY <1>1, <1>2 DEF CalculateDatamodel

\* The bases of inferMigrationSteps and of applyMigration, in the terms above.
LEMMA Bases ==
    /\ last = Newest(Applied(table))
    /\ last_non_watch_applied_migration = Newest(AppliedOutsideWatch(table))
    /\ \A r : DatamodelAt(r) = BaseDatamodel(table, r)
    /\ OthersSucceeded(table, 0) => last_non_watch_migration = Newest(AppliedOutsideWatch(table))
<1>1. ASSUME OthersSucceeded(table, 0)
      PROVE  last_non_watch_migration = Newest(AppliedOutsideWatch(table))
  <2>1. \A r \in 1..Len(table) : r # 0
    BY SMTT(60)
  <2>2. {r \in 1..Len(table) : ~ IsWatch(table[r].name)} = AppliedOutsideWatch(table)
    BY <1>1, <2>1 DEF OthersSucceeded, AppliedOutsideWatch
  <2> QED
    BY <2>2 DEF last_non_watch_migration
<1> QED
  BY <1>1
     DEF last, last_non_watch_applied_migration, Applied, AppliedOutsideWatch, DatamodelAt,
         BaseDatamodel

\* A command that is not on its way to a migration has no plan to honour.
LEMMA PlanOver ==
    ASSUME NEW e \in Engines, eng'[e].pc \notin Reading \cup Prepared \cup Recorded
    PROVE  PlanOf(eng[e])'
BY DEF PlanOf, Reading

\* Requests: the client gets a plan, or sends one, or sends steps of its own.
LEMMA PlanAccepted ==
    ASSUME OneEngine, PlanInv, NEW e \in Engines, Accept(e)
    PROVE  PlansAreCurrent' /\ PlanOf(eng[e])'
<1> USE DEF Recorded, Reading, Prepared
<1>0. /\ TypeOK /\ EnginesOK /\ eng \in [Engines -> Command]
      /\ PlanOf(eng[e]) /\ \A f \in Engines : f = e
      /\ \A p \in plan : \A t \in p.target : p.steps = PlannedSteps(table, p.name, t)
  BY DEF PlanInv, TypeOK, EnginesOK, PlansAreCurrent, OneEngine
<1>1. ASSUME plan' = {}
      PROVE  PlansAreCurrent'
  BY <1>1 DEF PlansAreCurrent
<1>2. ASSUME NEW name \in Names, NEW target \in SUBSET Models,
             NEW assumed, InferMigrationSteps(e, name, target, assumed)
      PROVE  PlansAreCurrent' /\ PlanOf(eng[e])'
  <2>1. PICK p : /\ plan' = {p}
                 /\ \A t \in p.target : p.steps = PlannedSteps(table, p.name, t)
    <3>1. CASE assumed = {}
      <4> DEFINE p == [name |-> name, steps |-> PlannedSteps(table, name, target),
                       target |-> {target}]
      <4>1. plan' = {p}
        BY <1>2, <3>1, Bases
           DEF InferMigrationSteps, AssumedDatamodel, PlannedSteps, BaseOf, LeavesWatch
      <4>2. \A t \in p.target : p.steps = PlannedSteps(table, p.name, t)
        OBVIOUS
      <4> QED
        BY <4>1, <4>2
    <3>2. CASE assumed # {}
      <4>1. PICK steps : plan' = {[name |-> name, steps |-> steps, target |-> {}]}
        BY <1>2, <3>2 DEF InferMigrationSteps
      <4> DEFINE p == [name |-> name, steps |-> steps, target |-> {}]
      <4>2. p.target = {}
        OBVIOUS
      <4> QED
        BY <4>1, <4>2
    <3> QED
      BY <3>1, <3>2
  <2>3. eng' = eng /\ table' = table /\ eng[e].pc = "idle"
    BY <1>2 DEF InferMigrationSteps, At
  <2>4. Quiet'
    BY <1>0, <2>3 DEF Quiet
  <2>5. eng'[e].pc \notin Reading \cup Prepared \cup Recorded
    BY <2>3
  <2> QED
    BY <2>1, <2>3, <2>4, <2>5, PlanOver DEF PlansAreCurrent
<1>3. ASSUME NEW name, NEW steps, NEW target, NEW force,
             ApplyMigration(e, name, steps, target, force),
             \A t \in target : steps = PlannedSteps(table, name, t)
      PROVE  PlansAreCurrent' /\ PlanOf(eng[e])'
  <2> DEFINE d == [Blank("apply_last") EXCEPT !.name = name, !.steps = steps,
                                              !.target = target, !.force = force]
  <2>1. eng' = [eng EXCEPT ![e] = d] /\ table' = table /\ plan' = {}
    BY <1>3 DEF ApplyMigration, Begin
  <2>2. /\ d.pc = "apply_last" /\ d.name = name /\ d.steps = steps
        /\ d.target = target /\ d.revision = 0
    BY DEF Blank
  <2> HIDE DEF d
  <2>3. eng'[e] = d
    BY <1>0, <2>1
  <2>4. PlanOf(eng[e])'
    BY <1>3, <2>1, <2>2, <2>3 DEF PlanOf
  <2> QED
    BY <1>1, <2>1, <2>4
<1>4. ASSUME Reset(e) \/ \E force : UnapplyMigration(e, force)
      PROVE  PlansAreCurrent' /\ PlanOf(eng[e])'
  <2>1. plan' = {}
    BY <1>4 DEF Reset, UnapplyMigration
  <2>2. eng'[e].pc \in {"unapply_last", "reset_rows"}
    <3>1. CASE Reset(e)
      BY <1>0, <3>1, BlankEnds DEF Reset, Begin
    <3>2. CASE \E force : UnapplyMigration(e, force)
      <4>1. PICK force : eng' = [eng EXCEPT ![e] = [Blank("unapply_last") EXCEPT !.force = force]]
        BY <3>2 DEF UnapplyMigration, Begin
      <4> QED
        BY <1>0, <4>1 DEF Blank
    <3> QED
      BY <1>4, <3>1, <3>2
  <2>3. eng'[e].pc \notin Reading \cup Prepared \cup Recorded
    BY <2>2
  <2> QED
    BY <1>1, <2>1, <2>3, PlanOver
<1>5. ASSUME NEW p \in plan, NEW force, ApplyMigration(e, p.name, p.steps, p.target, force)
      PROVE  PlansAreCurrent' /\ PlanOf(eng[e])'
  <2> DEFINE target == p.target
  <2>1. /\ ApplyMigration(e, p.name, p.steps, target, force)
        /\ \A t \in target : p.steps = PlannedSteps(table, p.name, t)
    BY <1>0, <1>5
  <2> HIDE DEF target
  <2> QED
    BY <1>3, <2>1
<1>6. ASSUME NEW name, NEW steps, NEW force, ApplyMigration(e, name, steps, {}, force)
      PROVE  PlansAreCurrent' /\ PlanOf(eng[e])'
  <2> DEFINE target == {}
  <2>1. /\ ApplyMigration(e, name, steps, target, force)
        /\ \A t \in target : steps = PlannedSteps(table, name, t)
    BY <1>6
  <2> HIDE DEF target
  <2> QED
    BY <1>3, <2>1
<1> QED
  BY <1>2, <1>4, <1>5, <1>6 DEF Accept

\* The datamodel is computed from the base the steps were inferred for.
LEMMA PlanCalculated ==
    ASSUME PlanInv, NEW e \in Engines,
           \/ ApplyLast(e) \/ CheckNotApplied(e)
           \/ handle_transition_out_of_watch_mode(e) \/ handle_normal_migration(e)
    PROVE  PlanOf(eng[e])'
<1> USE DEF Recorded, Reading, Prepared
<1>0. TypeOK /\ EnginesOK /\ PlanOf(eng[e])
  BY DEF PlanInv, TypeOK
<1>1. ASSUME eng'[e].pc = "idle"
      PROVE  PlanOf(eng[e])'
  BY <1>1, PlanOver
<1>2. ASSUME eng[e].pc \in Reading, eng'[e].pc \in Reading, Kept(e),
             eng'[e].steps = eng[e].steps, table' = table,
             eng'[e].pc \in {"check_applied", "normal_base"} => ~ LeavesWatch(table, eng[e].name),
             eng'[e].pc = "watch_base" => LeavesWatch(table, eng[e].name)
      PROVE  PlanOf(eng[e])'
  BY <1>0, <1>2 DEF PlanOf, Kept
<1>3. CASE ApplyLast(e)
  <2>1. /\ eng[e].pc = "apply_last" /\ Kept(e) /\ eng'[e].steps = eng[e].steps
        /\ table' = table
        /\ \/ eng'[e].pc = "watch_base" /\ LeavesWatch(table, eng[e].name)
           \/ eng'[e].pc = "check_applied" /\ ~ LeavesWatch(table, eng[e].name)
    BY <1>0, <1>3, Bases, ReadFacts DEF LeavesWatch
  <2> QED
    BY <1>2, <2>1
<1>4. CASE CheckNotApplied(e)
  <2>1. /\ eng[e].pc = "check_applied" /\ table' = table
        /\ \/ eng'[e].pc = "idle"
           \/ /\ eng'[e].pc = "normal_base" /\ Kept(e)
              /\ eng'[e].steps = eng[e].steps
    BY <1>0, <1>4, ReadFacts
  <2>2. ~ LeavesWatch(table, eng[e].name)
    BY <1>0, <2>1 DEF PlanOf
  <2> QED
    BY <1>1, <1>2, <2>1, <2>2
<1>5. ASSUME NEW base, Calculate(e, base), table' = table, eng[e].pc \in Reading,
             OthersSucceeded(table, 0) => base = BaseOf(table, eng[e].name)
      PROVE  PlanOf(eng[e])'
  <2>1. \/ eng'[e].pc = "idle"
        \/ /\ eng'[e].pc = "describe" /\ eng'[e].target = eng[e].target
           /\ eng'[e].revision = eng[e].revision
           /\ eng'[e].datamodel = CalculateDatamodel(DatamodelAt(base), eng[e].steps)
    BY <1>0, <1>5, CalculateFacts
  <2>2. /\ eng[e].revision = 0
        /\ \A target \in eng[e].target :
              eng[e].steps = PlannedSteps(table, eng[e].name, target)
    BY <1>0, <1>5 DEF PlanOf
  <2>3. ASSUME eng'[e].pc = "describe", OthersSucceeded(table, 0), NEW target \in eng[e].target
        PROVE  eng'[e].datamodel = target
    <3>1. DatamodelAt(base) = BaseDatamodel(table, BaseOf(table, eng[e].name))
      BY <1>5, <2>3, Bases
    <3>2. eng[e].steps = InferDatamodelSteps(DatamodelAt(base), target)
      BY <2>2, <2>3, <3>1 DEF PlannedSteps
    <3>3. eng'[e].datamodel = CalculateDatamodel(DatamodelAt(base), eng[e].steps)
      BY <2>1, <2>3
    <3> QED
      BY <3>2, <3>3, StepsLeadToTarget
  <2>4. CASE eng'[e].pc = "describe"
    <3>1. eng'[e].target = eng[e].target /\ eng'[e].revision = 0
      BY <2>1, <2>2, <2>4
    <3> QED
      BY <1>5, <2>3, <2>4, <3>1 DEF PlanOf
  <2> QED
    BY <1>1, <2>1, <2>4
<1>6. CASE handle_transition_out_of_watch_mode(e)
  <2>1. /\ eng[e].pc = "watch_base" /\ table' = table
        /\ Calculate(e, last_non_watch_migration)
    BY <1>6 DEF handle_transition_out_of_watch_mode, At
  <2>2. LeavesWatch(table, eng[e].name)
    BY <1>0, <2>1 DEF PlanOf
  <2>3. OthersSucceeded(table, 0) => last_non_watch_migration = BaseOf(table, eng[e].name)
    BY <2>2, Bases DEF BaseOf
  <2>4. eng[e].pc \in Reading
    BY <2>1
  <2> QED
    BY <1>5, <2>1, <2>3, <2>4
<1>7. CASE handle_normal_migration(e)
  <2>1. eng[e].pc = "normal_base" /\ table' = table /\ Calculate(e, last)
    BY <1>7 DEF handle_normal_migration, At
  <2>2. ~ LeavesWatch(table, eng[e].name)
    BY <1>0, <2>1 DEF PlanOf
  <2>3. last = BaseOf(table, eng[e].name)
    BY <2>2, Bases DEF BaseOf
  <2>4. eng[e].pc \in Reading
    BY <2>1
  <2> QED
    BY <1>5, <2>1, <2>3, <2>4
<1> QED
  BY <1>3, <1>4, <1>6, <1>7

\* Afterwards the command keeps its datamodel, and touches no row but its own.
LEMMA PlanCarriedOut ==
    ASSUME PlanInv, NEW e \in Engines,
           \/ Describe(e) \/ DestructiveChangesCheck(e) \/ Create(e)
           \/ MarkInProgress(e) \/ ApplyStep(e) \/ ApplyStepFails(e)
           \/ ForwardProgress(e) \/ FinishApply(e)
    PROVE  PlanOf(eng[e])'
<1> USE DEF Recorded, Reading, Prepared
<1>0. TypeOK /\ PlanOf(eng[e]) /\ Len(table) \in Nat
  BY FieldTypes DEF PlanInv
<1>1. ASSUME eng'[e].pc = "idle"
      PROVE  PlanOf(eng[e])'
  BY <1>1, PlanOver
<1>2. ASSUME eng[e].pc \in Prepared \cup Recorded, eng'[e].pc \in Prepared \cup Recorded,
             eng'[e].target = eng[e].target, eng'[e].datamodel = eng[e].datamodel,
             OthersSucceeded(table', eng'[e].revision) => OthersSucceeded(table, eng[e].revision),
             eng'[e].pc \in Prepared => eng'[e].revision = 0
      PROVE  PlanOf(eng[e])'
  BY <1>0, <1>2 DEF PlanOf
<1>3. CASE Describe(e)
  <2>1. /\ eng[e].pc = "describe" /\ eng'[e].pc = "check" /\ table' = table
        /\ eng'[e].target = eng[e].target /\ eng'[e].datamodel = eng[e].datamodel
        /\ eng'[e].revision = eng[e].revision
    BY <1>0, <1>3, DescribeFacts
  <2>2. eng[e].revision = 0
    BY <1>0, <2>1 DEF PlanOf
  <2> QED
    BY <1>2, <2>1, <2>2
<1>4. CASE DestructiveChangesCheck(e)
  <2>1. /\ eng[e].pc = "check" /\ table' = table
        /\ \/ eng'[e].pc = "idle"
           \/ eng'[e].pc = "create" /\ Kept(e)
    BY <1>0, <1>4, ReadFacts
  <2>2. eng[e].revision = 0
    BY <1>0, <2>1 DEF PlanOf
  <2> QED
    BY <1>1, <1>2, <2>1, <2>2 DEF Kept
<1>5. CASE Create(e)
  <2>1. /\ eng[e].pc = "create" /\ eng'[e].pc = "mark_in_progress"
        /\ eng'[e].target = eng[e].target /\ eng'[e].datamodel = eng[e].datamodel
        /\ eng'[e].revision = Len(table) + 1 /\ Len(table') = Len(table) + 1
        /\ \A q \in 1..Len(table) : table'[q] = table[q]
    BY <1>0, <1>5, CreateFacts
  <2>2. ASSUME OthersSucceeded(table', Len(table) + 1)
        PROVE  OthersSucceeded(table, 0)
    <3>1. \A q \in 1..Len(table) : q \in 1..Len(table') /\ q # Len(table) + 1
      BY <1>0, <2>1, SMTT(60)
    <3> QED
      BY <2>1, <2>2, <3>1 DEF OthersSucceeded
  <2>3. eng[e].revision = 0
    BY <1>0, <2>1 DEF PlanOf
  <2> QED
    BY <1>2, <2>1, <2>2, <2>3
<1>6. ASSUME table' = table \/ \E status : WritesRow(e, status)
      PROVE  \A n : n = eng[e].revision =>
                (OthersSucceeded(table', n) => OthersSucceeded(table, n))
  <2>1. CASE table' = table
    BY <2>1
  <2>2. ASSUME NEW status, WritesRow(e, status)
        PROVE  \A n : n = eng[e].revision =>
                  (OthersSucceeded(table', n) => OthersSucceeded(table, n))
    <3>1. /\ Len(table') = Len(table)
          /\ \A q \in 1..Len(table) :
                /\ table'[q].name = table[q].name
                /\ q # eng[e].revision => table'[q].status = table[q].status
      BY <2>2 DEF WritesRow
    <3> QED
      BY <3>1 DEF OthersSucceeded
  <2> QED
    BY <1>6, <2>1, <2>2
<1>7. CASE \/ MarkInProgress(e) \/ ApplyStep(e) \/ ApplyStepFails(e)
           \/ ForwardProgress(e) \/ FinishApply(e)
  <2>1. /\ eng[e].pc \in Recorded
        /\ \/ eng'[e].pc = "idle"
           \/ eng'[e].pc \in Recorded /\ Kept(e)
        /\ table' = table \/ \E status : WritesRow(e, status)
    <3>1. CASE MarkInProgress(e) \/ FinishApply(e)
      BY <1>0, <3>1, MarkFacts
    <3>2. CASE ApplyStep(e) \/ ApplyStepFails(e)
      BY <1>0, <3>2, ApplyStepFacts
    <3>3. CASE ForwardProgress(e)
      BY <1>0, <3>3, ForwardProgressFacts
    <3> QED
      BY <1>7, <3>1, <3>2, <3>3
  <2>2. CASE eng'[e].pc \in Recorded /\ Kept(e)
    <3>1. /\ eng'[e].target = eng[e].target /\ eng'[e].datamodel = eng[e].datamodel
          /\ eng'[e].revision = eng[e].revision
      BY <2>2 DEF Kept
    <3>2. OthersSucceeded(table', eng'[e].revision) => OthersSucceeded(table, eng[e].revision)
      BY <1>6, <2>1, <3>1
    <3>3. eng'[e].pc \notin Prepared
      BY <2>2
    <3> QED
      BY <1>2, <2>1, <2>2, <3>1, <3>2, <3>3
  <2> QED
    BY <1>1, <2>1, <2>2
<1> QED
  BY <1>3, <1>4, <1>5, <1>7

\* The steps of rollbacks, of resets and of ends.
LEMMA PlanElsewhere ==
    ASSUME PlanInv, NEW e \in Engines,
           \/ UnapplyLast(e) \/ UnapplyCheck(e) \/ MarkRollingBack(e)
           \/ UnapplyStep(e) \/ UnapplyStepFails(e) \/ BackwardProgress(e)
           \/ FinishUnapply(e) \/ ResetRows(e) \/ ResetDrop(e) \/ ResetInit(e)
           \/ CommandFails(e) \/ CreatePanics(e) \/ Crash(e) \/ Restart(e)
    PROVE  PlanOf(eng[e])'
<1>0. TypeOK
  BY DEF PlanInv
<1>1. eng'[e].pc \in {"idle", "down", "reset_drop", "reset_init"} \cup Unapplying
  <2>1. CASE UnapplyLast(e) \/ UnapplyCheck(e)
    BY <1>0, <2>1, UnapplyLastFacts, ReadFacts DEF Unapplying
  <2>2. CASE MarkRollingBack(e) \/ FinishUnapply(e)
    BY <1>0, <2>2, MarkFacts DEF Unapplying
  <2>3. CASE UnapplyStep(e) \/ UnapplyStepFails(e)
    BY <1>0, <2>3, UnapplyStepFacts DEF Unapplying
  <2>4. CASE BackwardProgress(e)
    BY <1>0, <2>4, BackwardProgressFacts DEF Unapplying
  <2>5. CASE ResetRows(e) \/ ResetDrop(e)
    BY <1>0, <2>5, ResetFacts
  <2>6. CASE ResetInit(e) \/ CommandFails(e) \/ CreatePanics(e) \/ Crash(e) \/ Restart(e)
    BY <1>0, <2>6, EndFacts
  <2> QED
    BY <2>1, <2>2, <2>3, <2>4, <2>5, <2>6
<1>2. eng'[e].pc \notin Reading \cup Prepared \cup Recorded
  BY <1>1 DEF Reading, Prepared, Recorded, Unapplying
<1> QED
  BY <1>2, PlanOver

\* The plans of clients survive only steps that leave the table alone: those of an
\* engine that has no command.
LEMMA PlansStayCurrent ==
    ASSUME OneEngine, PlanInv, NEW e \in Engines, Run(e) \/ Crash(e) \/ Restart(e)
    PROVE  PlansAreCurrent'
<1>0. TypeOK /\ PlansAreCurrent /\ \A f \in Engines : f = e
  BY DEF PlanInv, OneEngine
<1>1. plan' = plan
  BY DEF Run, ApplyLast, handle_transition_out_of_watch_mode, CheckNotApplied,
         handle_normal_migration, Describe, DestructiveChangesCheck, Create,
         MarkInProgress, ApplyStep, ApplyStepFails, ForwardProgress, FinishApply,
         UnapplyLast, UnapplyCheck, MarkRollingBack, UnapplyStep, UnapplyStepFails,
         BackwardProgress, FinishUnapply, ResetRows, ResetDrop, ResetInit,
         CommandFails, CreatePanics, Crash, Restart
<1>2. CASE ~ Quiet
  BY <1>0, <1>1, <1>2 DEF PlansAreCurrent
<1>3. CASE Quiet
  <2>1. eng[e].pc \in {"idle", "down"}
    BY <1>3 DEF Quiet
  <2>2. Crash(e) \/ Restart(e)
    <3>1. Run(e) => eng[e].pc \in PC \ {"idle", "down"}
      <4>1. ASSUME \/ ApplyLast(e) \/ handle_transition_out_of_watch_mode(e)
                   \/ CheckNotApplied(e) \/ handle_normal_migration(e) \/ Describe(e)
                   \/ DestructiveChangesCheck(e) \/ Create(e) \/ MarkInProgress(e)
                   \/ ApplyStep(e) \/ ApplyStepFails(e) \/ ForwardProgress(e)
                   \/ FinishApply(e)
            PROVE  eng[e].pc \in PC \ {"idle", "down"}
        <5>1. eng[e].pc \in {"apply_last", "watch_base", "check_applied", "normal_base",
                             "describe", "check", "create", "mark_in_progress", "forward",
                             "forward_progress", "finish_ok", "finish_err"}
          BY <4>1
             DEF ApplyLast, handle_transition_out_of_watch_mode, CheckNotApplied,
                 handle_normal_migration, Describe, DestructiveChangesCheck, Create,
                 MarkInProgress, ApplyStep, ApplyStepFails, ForwardProgress,
                 FinishApply, At
        <5> QED
          BY <5>1 DEF PC
      <4>2. ASSUME \/ UnapplyLast(e) \/ UnapplyCheck(e) \/ MarkRollingBack(e)
                   \/ UnapplyStep(e) \/ UnapplyStepFails(e) \/ BackwardProgress(e)
                   \/ FinishUnapply(e) \/ ResetRows(e) \/ ResetDrop(e) \/ ResetInit(e)
            PROVE  eng[e].pc \in PC \ {"idle", "down"}
        <5>1. eng[e].pc \in {"unapply_last", "unapply_check", "mark_rolling_back",
                             "backward", "backward_progress", "rollback_ok",
                             "rollback_err", "reset_rows", "reset_drop", "reset_init"}
          BY <4>2
             DEF UnapplyLast, UnapplyCheck, MarkRollingBack, UnapplyStep,
                 UnapplyStepFails, BackwardProgress, FinishUnapply, ResetRows,
                 ResetDrop, ResetInit, At
        <5> QED
          BY <5>1 DEF PC
      <4>3. ASSUME CommandFails(e) \/ CreatePanics(e)
            PROVE  eng[e].pc \in PC \ {"idle", "down"}
        BY <4>3 DEF CommandFails, CreatePanics, At, PC
      <4> QED
        BY <4>1, <4>2, <4>3 DEF Run
    <3> QED
      BY <2>1, <3>1
  <2>3. table' = table /\ eng'[e].pc \in {"idle", "down"}
    BY <1>0, <2>2, EndFacts
  <2>4. Quiet'
    BY <1>0, <2>3 DEF Quiet
  <2> QED
    BY <1>0, <1>1, <2>3, <2>4 DEF PlansAreCurrent
<1> QED
  BY <1>2, <1>3

\* With one engine the table a plan was inferred from is the table it is applied to.
LEMMA PlanInvStep ==
    ASSUME OneEngine
    PROVE  PlanInv /\ [Next]_vars => PlanInv'
<1> SUFFICES ASSUME PlanInv, [Next]_vars
             PROVE  PlanInv'
  OBVIOUS
<1>0. TypeOK'
  BY TypeStep DEF PlanInv
<1>1. ASSUME NEW e \in Engines, Accept(e) \/ Run(e) \/ Crash(e) \/ Restart(e)
      PROVE  PlanInv'
  <2>1. PlansAreCurrent'
    BY <1>1, PlanAccepted, PlansStayCurrent
  <2>2. PlanOf(eng[e])'
    BY <1>1, PlanAccepted, PlanCalculated, PlanCarriedOut, PlanElsewhere DEF Run
  <2>3. \A f \in Engines : f = e
    BY DEF OneEngine
  <2> QED
    BY <1>0, <2>1, <2>2, <2>3 DEF PlanInv
<1>2. CASE Drift \/ Insert \/ UNCHANGED vars
  <2>1. table' = table /\ eng' = eng /\ plan' = plan
    BY <1>2 DEF Drift, Insert, vars
  <2> QED
    BY <1>0, <2>1 DEF PlanInv, PlanOf, PlansAreCurrent, Quiet
<1> QED
  BY <1>1, <1>2 DEF Next

\* PlanIsHonoured: if no other migration failed, was cut short or was rolled back, one
\* engine that applies the steps it inferred arrives at the datamodel they were
\* inferred for, in watch mode, out of it and when it leaves it.
THEOREM PlansAreHonoured ==
    ASSUME OneEngine
    PROVE  Spec => []PlanIsHonoured
<1>1. Init => PlanInv
  <2>1. Init => plan = {} /\ \A e \in Engines : eng[e].pc = "idle"
    BY SMTT(60) DEF Init, Blank
  <2> QED
    BY <2>1, TypeInit
       DEF PlanInv, PlansAreCurrent, PlanOf, Reading, Prepared, Recorded
<1>2. PlanInv => PlanIsHonoured
  <2> SUFFICES ASSUME PlanInv, NEW e \in Engines,
                      eng[e].pc \in {"describe", "check", "create", "mark_in_progress",
                                     "forward", "forward_progress", "finish_ok",
                                     "finish_err"},
                      AllOthersSucceeded(e)
               PROVE  \A target \in eng[e].target : eng[e].datamodel = target
    BY DEF PlanIsHonoured
  <2>1. OthersSucceeded(table, eng[e].revision)
    BY DEF AllOthersSucceeded, OthersSucceeded
  <2>2. eng[e].pc \in Prepared \cup Recorded
    BY DEF Prepared, Recorded
  <2> QED
    BY <2>1, <2>2 DEF PlanInv, PlanOf
<1> QED
  BY <1>1, <1>2, PlanInvStep, PTL DEF Spec
=============================================================================
