------------------------------ MODULE MCLedger ------------------------------
(* Instances of Ledger for TLC. *)
EXTENDS Ledger, TLC

CONSTANTS t1, t2, r1, r2, junior, principal, c0

MCTypeOf == t1 :> "IMPLEMENTATION" @@ t2 :> "DIAGNOSIS"
MCRoleOf == junior :> "JUNIOR" @@ principal :> "PRINCIPAL"

\* Room to claim, stop, resume and claim again on t1, to claim and end on t2.
MCMaxRevision == t1 :> 5 @@ t2 :> 3

RunSymmetry == Permutations({r1, r2})

=============================================================================
