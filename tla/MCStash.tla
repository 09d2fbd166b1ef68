------------------------------- MODULE MCStash -------------------------------
(* Three files, two of one basename (a and b), and two runs: one stashes both *)
(* of these, to one path; the other one of them and the third.  The commands  *)
(* of two processes overlap, on one day, over one run or the other; or they   *)
(* come one at a time, on two days with a cooling-off of one: over both runs  *)
(* with one death, or over the first with two.                                *)
EXTENDS Stash, TLC

CONSTANTS a, b, c, r1, r2, ra, rc, sa, sc

MCDestOf == [k \in Run \X Source |->
               IF k[1] = r1 THEN IF k[2] = c THEN rc ELSE ra
               ELSE IF k[2] = c THEN sc ELSE sa]
MCManifest == (r1 :> <<a, b>>) @@ (r2 :> <<a, c>>)

Overlap(r) == [alone |-> FALSE, runs |-> {r}, days |-> 0, rows |-> 3, deaths |-> 1]
InTurn(R, n) == [alone |-> TRUE, runs |-> R, days |-> 1, rows |-> 4, deaths |-> n]

MCSetting == {Overlap(r1), Overlap(r2), InTurn({r1, r2}, 1), InTurn({r1}, 2)}

\* The two files of one basename, and one death.
OneDeath == {InTurn({r1}, 1)}

ProcSymmetry == Permutations(Proc)
=============================================================================
