-------------------------------- MODULE MCPlans --------------------------------
(* Five components that share no state here, each in behaviours of its own:   *)
(*   token    a manifest of two rows, and the manifest with its first row     *)
(*            gone                                                            *)
(*   backlog  a plan of two rows and two commands at a time                   *)
(*   promote  two backup files, of one content or of two, whose destinations  *)
(*            collide                                                         *)
(*   dedup    two tiers with a stash and a cloud tier; another program may    *)
(*            put a copy on the best tier when manifests that keep the second *)
(*            are already written                                             *)
(*   cloud    one file of a cloud drive, claimed in both forms or one, and    *)
(*            two contents                                                    *)
EXTENDS Plans, MCPlanToken

CONSTANTS p1, src1, src2, dst, bytes1, bytes2, a1, b1, d1

MCPlanRows == p1 :> 2
MCProbed == p1 :> {"fp_not_ready"}
MCHeld == (src1 :> bytes1) @@ (src2 :> bytes2)
MCDestOf == (src1 :> dst) @@ (src2 :> dst)
MCInitial == (a1 :> NoFile) @@ (b1 :> bytes1) @@ (d1 :> bytes1)
MCPriority == (a1 :> 0) @@ (b1 :> 1) @@ (d1 :> 5)
MCAction == (a1 :> "stash") @@ (b1 :> "stash") @@ (d1 :> "retire_direct")
MCBias == {FALSE}
MCScopes == {Places, {a1, b1}, {b1, d1}}
MCStart == f1 :> bytes1
=============================================================================
