---------------------------- MODULE MCCheckpoint ----------------------------
(* Instances of Checkpoint for TLC. *)
EXTENDS Checkpoint, TLC

CONSTANTS t1, t2, junior, other, c0

\* Room for one execution and one checkpoint of t1.
MCTypeOf == [t \in Tasks |-> "IMPLEMENTATION"]
MCRoleOf == [w \in Workers |-> "JUNIOR"]
MCOneRound == [t \in Tasks |-> 4]
\* Room to resume and claim t1 again.
MCTwoRounds == [t \in Tasks |-> 6]

=============================================================================
