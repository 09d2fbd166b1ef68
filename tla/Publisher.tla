------------------------------ MODULE Publisher ------------------------------
(* What a pulling machine may assume of the envelope a host publishes: at any *)
(* moment there is none, or one whose manifest names the payload beside it,   *)
(* or one that is still being written or was written by two at once; and a    *)
(* payload is never published before it was taken from the database.          *)
CONSTANTS Payload,    \* snapshots of a machine's database
          Bad,        \* a body that cannot be read back
          NoEnvelope

VARIABLES taken,      \* payloads snapshotted so far
          published

PublisherInit == taken = {} /\ published = NoEnvelope

Snapshot(x) == taken' = taken \cup {x} /\ UNCHANGED published

Publish(x, body) ==
  /\ x \in taken /\ body \in {x, Bad}
  /\ published' = [man |-> x, body |-> body]
  /\ UNCHANGED taken

Withdraw == published' = NoEnvelope /\ UNCHANGED taken

PublisherNext ==
  \/ \E x \in Payload : Snapshot(x) \/ Publish(x, x) \/ Publish(x, Bad)
  \/ Withdraw

PublisherSpec == PublisherInit /\ [][PublisherNext]_<<taken, published>>
=============================================================================
