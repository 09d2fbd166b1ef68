---------------------------- MODULE MCAuditChain ----------------------------
(* Small instances of AuditChain.                                             *)
(* Connections are 1..3 and digests are the nodes of a ternary tree in heap   *)
(* order: genesis is the root and the hash of a row is the child of its       *)
(* prev_hash that its actor selects, so that different histories do not       *)
(* collide within four rows.                                                  *)
EXTENDS AuditChain

MCDigest == 0..120
MCHash(prev, c) == (3 * prev + c) % 121
=============================================================================
