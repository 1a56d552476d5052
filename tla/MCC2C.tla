------------------------------- MODULE MCC2C -------------------------------
(* Instances of C2C for TLC. *)
EXTENDS C2C, TLC

CONSTANTS t1, r1, r2, o1, o2, w1, w2, junior, c0, m1, m2, a1, a2, d1, d2,
          codex, cli

MCTypeOf == t1 :> "IMPLEMENTATION"
MCRoleOf == [w \in Workers |-> "JUNIOR"]

First == Request(Plan(m1, t1, 1), a1, d1, codex)

\* The first plan again, under other command ids.
Renamed == Request(Plan(m1, t1, 1), a2, d2, codex)

\* A plan for the task once it was recovered and resumed.
Later == Request(Plan(m2, t1, 4), a2, d2, codex)

\* The first delegation with another profile.
Rerouted == Request(Plan(m1, t1, 1), a1, d1, cli)

MCRequests == {First, Renamed, Later}
MCReplays == {First, Rerouted, Later}

\* Room to claim, recover, resume and claim again.
MCTwoRounds == t1 :> 5

ProcessSymmetry ==
  Permutations({o1, o2}) \cup Permutations({w1, w2}) \cup Permutations({r1, r2})

=============================================================================
