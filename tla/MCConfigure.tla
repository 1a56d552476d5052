----------------------------- MODULE MCConfigure -----------------------------
(* Instances of Configure for TLC. *)
EXTENDS Configure

=============================================================================
