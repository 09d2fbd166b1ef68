-------------------------------- MODULE MCSync --------------------------------
(* The components of Hosts on small instances:                                *)
(*   import     the publishing host's machine m1 and another one; one         *)
(*              permanode that only m1 has                                    *)
(*   export     exports of one target                                         *)
(*   replicate  two replicate runs, one of them with the directory tree that  *)
(*              no grant covers, and an archive run of both sources           *)
EXTENDS Hosts, TLC

CONSTANTS m1, m2, x1, dbfile, tree, rep1, rep2, arc

MCHolds == (m1 :> {x1}) @@ (m2 :> {})
MCPolicy == (rep1 :> <<tree, dbfile>>) @@ (rep2 :> <<dbfile>>) @@ (arc :> <<tree, dbfile>>)
ProcSymmetry == Permutations(Proc) \cup Permutations(Exporter)
=============================================================================
