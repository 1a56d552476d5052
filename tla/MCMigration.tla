---------------------------- MODULE MCMigration ----------------------------
(* Instances of Migration for TLC. *)
EXTENDS Migration, TLC

CONSTANTS o1, o2, n1, n2, here, there

\* Each release in two repositories.
MCHome == o1 :> here @@ o2 :> there @@ n1 :> here @@ n2 :> there

TaskSymmetry == Permutations(Tasks)

=============================================================================
