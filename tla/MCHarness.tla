----------------------------- MODULE MCHarness -----------------------------
(* Instances of Harness for TLC. *)
EXTENDS Harness, TLC

CONSTANTS r1, r2, rules, cache, extra, old, new

\* cache is ignored until the rules change, extra only after.
MCRoot == [p \in Paths |-> IF p = rules THEN old ELSE None]
MCPresent == [p \in Paths |-> IF p = extra THEN None ELSE old]
MCContent == (rules :> {old, new}) @@ (cache :> {old, None}) @@ (extra :> {new, None})
MCIgnoredUnder == (old :> {cache}) @@ (new :> {extra})

\* r1 may change anything but the cache directory, r2 only what is new.
MCUnder == ("." :> Paths) @@ ("cache" :> {cache}) @@ ("extra" :> {extra})
MCAllowedScope == (r1 :> {"."}) @@ (r2 :> {"extra"})
MCForbiddenScope == (r1 :> {"cache"}) @@ (r2 :> {})
MCAdaptersOf == (r1 :> {"run_dir", "last_message"}) @@ (r2 :> {"fixed"})

=============================================================================
