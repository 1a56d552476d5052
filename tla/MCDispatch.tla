----------------------------- MODULE MCDispatch -----------------------------
(* Instances of Dispatch for TLC. *)
EXTENDS Dispatch, TLC

CONSTANTS t1, r1, r2, junior, c0

MCTypeOf == t1 :> "IMPLEMENTATION"
MCRoleOf == [w \in Workers |-> "JUNIOR"]

\* Room to claim, recover, resume and claim again.
MCMaxRevision == t1 :> 5

=============================================================================
