----------------------------- MODULE MCEvidence -----------------------------
(* Instances of Evidence for TLC. *)
EXTENDS Evidence, TLC

CONSTANTS t1, t2, r1, r2, junior, principal, c0

MCTypeOf == t1 :> "IMPLEMENTATION" @@ t2 :> "DIAGNOSIS"
MCRoleOf == junior :> "JUNIOR" @@ principal :> "PRINCIPAL"

\* Two executions of t1 with a resume between them, one of t2 and its end.
MCMaxRevision == t1 :> 6 @@ t2 :> 3

RunSymmetry == Permutations({r1, r2})

=============================================================================
