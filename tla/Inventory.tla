------------------------------ MODULE Inventory ------------------------------
(* The audit log with its archive and four components that share no state     *)
(* with it or with each other here, each in behaviours of its own: subject    *)
(* says which one moves.                                                      *)
EXTENDS AuditArchive

CONSTANTS
  Path, Dir, Root, DirOf, SizeOf, Threshold, CommitEvery, Busy, Starts,    \* Scan
  MaxRuns, MaxClock, MaxEdits, MaxFaults, NoFile,
  Container, Kind, Version, Member, Members, First,                        \* Containers
  MaxScans, MaxRewrites, MaxTroubles, Nothing,
  Watched, SkippedFile, InSkippedDir, MaxWrites, MaxStops, MaxReads, Gone, \* Watch
  OldRows, BatchSize, Importer, DryRun, Classifier, Policy, Relabel,       \* Enrichment
  Embedder, MaxImports, MaxMishaps

VARIABLES
  subject,
  file, clock, runs, claims, inserted, lock, walk, start, edits, faults, stamps, held,
  passed,
  disk, scans, members, pending, walking, dirs, rewrites, troubles, versions, dropped,
  at, emitted, buffer, batch, up, once, fresh, newest, current, writes, stops, reads, unseen,
  db, tx, holder, imports, listed, unvectored, ended, mishaps

scanVars ==
  <<file, clock, runs, claims, inserted, lock, walk, start, edits, faults, stamps, held, passed>>
memberVars == <<disk, scans, members, pending, walking, dirs, rewrites, troubles, versions, dropped>>
watchVars == <<at, emitted, buffer, batch, up, once, fresh, newest, current, writes, stops, reads, unseen>>
enrichVars == <<db, tx, holder, imports, listed, unvectored, ended, mishaps>>

Sc == INSTANCE Scan WITH pend <- inserted
Co == INSTANCE Containers
  WITH runs <- scans, claims <- members, pend <- pending, scan <- walking, edits <- rewrites,
       faults <- troubles, held <- versions, passed <- dropped, None <- Nothing,
       MaxRuns <- MaxScans, MaxEdits <- MaxRewrites, MaxFaults <- MaxTroubles
Wa == INSTANCE Watch
En == INSTANCE Enrichment
  WITH Source <- OldRows, lock <- holder, import <- imports, faults <- mishaps, None <- Nothing,
       MaxRuns <- MaxImports, MaxFaults <- MaxMishaps

ASSUME InventoryAssumption ==
  Sc!ScanAssumption /\ Co!ContainersAssumption /\ Wa!WatchAssumption /\ En!EnrichmentAssumption

-----------------------------------------------------------------------------
InventoryInit ==
  /\ subject \in {"log", "scan", "members", "watch", "enrich"}
  /\ ArchiveInit /\ Sc!Init /\ Co!Init /\ Wa!Init /\ En!Init
  /\ subject # "scan" => start = CHOOSE s \in Starts : TRUE

InventoryNext ==
  \/ subject = "log" /\ ArchiveNext /\ UNCHANGED <<subject, scanVars, memberVars, watchVars, enrichVars>>
  \/ subject = "scan" /\ Sc!Next /\ UNCHANGED <<subject, allVars, memberVars, watchVars, enrichVars>>
  \/ subject = "members" /\ Co!Next /\ UNCHANGED <<subject, allVars, scanVars, watchVars, enrichVars>>
  \/ subject = "watch" /\ Wa!Next /\ UNCHANGED <<subject, allVars, scanVars, memberVars, enrichVars>>
  \/ subject = "enrich" /\ En!Next /\ UNCHANGED <<subject, allVars, scanVars, memberVars, watchVars>>

InventorySpec ==
  /\ InventoryInit /\ [][InventoryNext]_<<subject, allVars, scanVars, memberVars, watchVars, enrichVars>>
  /\ Wa!Fairness

-----------------------------------------------------------------------------
(* Scan: a claim names what its path held; see there.                         *)
ClaimsWereThere == Sc!ClaimsWereThere
(* Scan: a finished run covers what lay untouched; see there.                 *)
FinishedCovers == Sc!FinishedCovers
(* Scan: a finished run never changes; see there.                             *)
FinishedFrozen == Sc!FinishedFrozen
(* Containers: a member's claim is of the container; see there.               *)
MembersWereThere == subject = "members" => Co!MembersWereThere
(* Containers: a finished scan accounts for the members; see there.           *)
MembersAccounted == subject = "members" => Co!MembersAccounted
(* Enrichment: what is committed is whole; see there.                         *)
CommittedWhole == subject = "enrich" => En!CommittedWhole
(* Enrichment: labels are kept; see there.                                    *)
LabelsKept == En!LabelsKept
(* Watch: no change is forgotten; see there.                                  *)
NothingForgotten == Wa!NothingForgotten
(* Watch: the inventory catches up; see there.                                *)
Follows == Wa!Follows
=============================================================================
