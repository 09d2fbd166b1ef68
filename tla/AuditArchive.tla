----------------------------- MODULE AuditArchive -----------------------------
(* steward db audit-archive: seal an id-prefix of the audit log into a        *)
(* segment file beside the database, then record it with an                   *)
(* audit_archive_commit row and a registry row in one transaction.            *)
(*                                                                            *)
(* The sealing connection is one of AuditChain's: its append races with those *)
(* of the other connections like theirs with each other.                      *)
EXTENDS AuditChain

CONSTANTS Archiver,  \* connections of db audit-archive
          HotMin     \* --hot-min-rows

ASSUME ArchiveAssumption ==
  /\ Archiver \subseteq Conn \ DataFirst
  /\ HotMin \in Nat

VARIABLES
  planned,   \* planned[c]: the through_id plan_archive accepted, or 0
  sealing,   \* sealing[c]: the rows of the segment file written, or << >>
  cold,      \* segment files in execution-log
  segments   \* audit_chain_segments: the rows of each registered segment

archiveVars == <<planned, sealing, cold, segments>>
allVars == <<vars, archiveVars>>

-----------------------------------------------------------------------------
ArchiveInit ==
  /\ Init
  /\ planned = [c \in Archiver |-> 0]
  /\ sealing = [c \in Archiver |-> << >>]
  /\ cold = {} /\ segments = {}

(* plan_archive refuses a broken chain and a prefix that leaves fewer than    *)
(* hot_min_rows rows; the first row is always row 1, since nothing is shrunk. *)
PlanArchive(c, t) ==
  /\ planned[c] = 0 /\ sealing[c] = << >>
  /\ VerifyChain(log)
  /\ t \in 1..Len(log)
  /\ Len(log) - t >= HotMin
  /\ planned' = [planned EXCEPT ![c] = t]
  /\ UNCHANGED <<vars, sealing, cold, segments>>

\* Fault: the rows there are by now are sealed, not those that were planned.
WriteSegmentOfAll(c) ==
  /\ planned[c] # 0
  /\ planned' = [planned EXCEPT ![c] = 0]
  /\ cold' = cold \cup {log} /\ sealing' = [sealing EXCEPT ![c] = log]
  /\ UNCHANGED <<vars, segments>>

(* seal_archive on its own connection, later: a chain that broke meanwhile is *)
(* refused, otherwise the segment file is written and moved into place.       *)
WriteSegment(c) ==
  /\ planned[c] # 0
  /\ planned' = [planned EXCEPT ![c] = 0]
  /\ IF VerifyChain(log)
     THEN LET s == SubSeq(log, 1, planned[c])
          IN cold' = cold \cup {s} /\ sealing' = [sealing EXCEPT ![c] = s]
     ELSE UNCHANGED <<cold, sealing>>
  /\ UNCHANGED <<vars, segments>>

(* The audit_archive_commit row; the registry row joins its transaction, if   *)
(* its INSERT does not fail: a failure is passed over and the commit goes on. *)
AppendCommitRow(c) ==
  /\ sealing[c] # << >> /\ pend[c] = << >>
  /\ ReadTip(c) \/ InsertRow(c)
  /\ UNCHANGED archiveVars

CommitSegment(c) ==
  /\ pend[c] # << >>
  /\ Commit(c)
  /\ segments' \in {segments, segments \cup {sealing[c]}}
  /\ sealing' = [sealing EXCEPT ![c] = << >>]
  /\ UNCHANGED <<planned, cold>>

(* Lock timeout, exception or kill: the file that was written stays.          *)
AbortSeal(c) ==
  /\ planned[c] # 0 \/ sealing[c] # << >>
  /\ IF writer = c \/ tip[c] # None THEN Abort(c) ELSE UNCHANGED vars
  /\ planned' = [planned EXCEPT ![c] = 0]
  /\ sealing' = [sealing EXCEPT ![c] = << >>]
  /\ UNCHANGED <<cold, segments>>

ArchiveNext ==
  \/ \E c \in Conn \ Archiver :
       /\ WriteData(c) \/ ReadTip(c) \/ InsertRow(c) \/ Commit(c) \/ Abort(c)
       /\ UNCHANGED archiveVars
  \/ \E c \in Archiver :
       \/ \E t \in 1..MaxRows : PlanArchive(c, t)
       \/ WriteSegment(c) \/ AppendCommitRow(c) \/ CommitSegment(c) \/ AbortSeal(c)

ArchiveSpec == ArchiveInit /\ [][ArchiveNext]_allVars

-----------------------------------------------------------------------------
(* A registered segment is for good the prefix of the log it was sealed from, *)
(* its file is there, verify_segment_file accepts it, and hot rows remain:    *)
(* also when connections forked the chain before, during or after the seal.   *)
SegmentsHold ==
  \A s \in segments :
    /\ s \in cold
    /\ s = SubSeq(log, 1, Len(s)) /\ VerifyChain(s)
    /\ Len(log) > Len(s) + HotMin
=============================================================================
