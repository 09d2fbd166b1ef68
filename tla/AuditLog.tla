------------------------------ MODULE AuditLog ------------------------------
(* What the audit log promises its readers: a sequence of rows that grows at  *)
(* its end by whole transactions.  A transaction arrives as one chain that    *)
(* one connection wrote: only its first row may fork the log, and that row is *)
(* chained to a row the readers can see, never to one that was rolled back.   *)
(* AuditChain is the SQLite-backed implementation.                            *)
EXTENDS Sequences, Naturals

CONSTANTS Row, Genesis, Hash(_, _)

VARIABLE rows

Init == rows = << >>

Seen == {Genesis} \cup {rows[j].hash : j \in 1..Len(rows)}

Publish ==
  /\ rows' \in Seq(Row)
  /\ Len(rows) < Len(rows')
  /\ \A i \in 1..Len(rows) : rows'[i] = rows[i]
  /\ rows'[Len(rows) + 1].prev \in Seen
  /\ \A i \in (Len(rows) + 1)..Len(rows') :
       /\ rows'[i].actor = rows'[Len(rows) + 1].actor
       /\ rows'[i].hash = Hash(rows'[i].prev, rows'[i].actor)
       /\ i > Len(rows) + 1 => rows'[i].prev = rows'[i - 1].hash

Spec == Init /\ [][Publish]_rows
=============================================================================
