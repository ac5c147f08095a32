-------------------------- MODULE MCMigrationEngine --------------------------
(* Instances of MigrationEngine for model checking. *)
EXTENDS MigrationEngine, TLC

\* All datamodel steps that do not create what they delete.
AllSteps == {s \in DatamodelSteps : s.create \cap s.delete = {}}

\* One migration of several database steps, so that progress is persisted in between.
CreateAll == {[create |-> Models, delete |-> {}]}

ModelSymmetry == Permutations(Models)
Symmetry == Permutations(Models) \cup Permutations(Engines)
=============================================================================
