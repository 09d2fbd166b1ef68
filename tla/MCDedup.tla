------------------------------ MODULE MCDedup ------------------------------
(* Two tiers with a stash and a cloud tier.  Another program may put a copy   *)
(* on the best tier when manifests that keep the second are already written.  *)
EXTENDS Dedup, TLC

CONSTANTS a, b, d, x

MCFull == [p \in Path |-> x]
MCPriority == (a :> 0) @@ (b :> 1) @@ (d :> 5)
MCAction == (a :> "stash") @@ (b :> "stash") @@ (d :> "retire_direct")
MCScopes == {Path, {a, b}, {b, d}}
=============================================================================
