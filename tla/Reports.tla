-------------------------------- MODULE Reports --------------------------------
(* What a machine says of itself and of others, and what it may do: components *)
(* that share no state here, each in behaviours of its own; subject says which *)
(* one moves.                                                                  *)
EXTENDS Naturals, FiniteSets

CONSTANTS
  Root, NewRoot, DeclaredMounts, Unmanaged, MaxProbes, Critical,  \* HealthReport
  Total, BytesWarn, BytesFail, PercentWarn, PercentFail, Peer, HealthRequests,
  ScanMaxAge, RollupMaxAge, StashLimit, AttachedMaxAge, EnvelopeMaxAge,
  Never, Unread, MaxClock, MaxEvents,
  Writer, Inode, NoFile, MaxAge, Skews, MaxChanges, MaxReports,   \* HealthRelay
  Host, Process, HostOf, Volumes, MountedAt, Database, Estates,   \* Ownership
  Commands, MaxRuns, MaxDeploys, MaxCrashes, NoEstate,
  Thread, Polls, Actions, Initial, MaxVersions, MaxPolls, NoEntry \* Dashboard

VARIABLES
  subject,
  clock, scanned, left, claims, counted, cache, intact, flight, mount, peer, exported, trouble,
  events, report,
  time, skew, volumes, lastOk, writer, file, tmp, latest, inbox, changes, begun,
  config, loaded, manifest, job, pend, log, acts, runs, deploys, died,
  facts, version, status, health, thread, acked, polls

reportVars == <<clock, scanned, left, claims, counted, cache, intact, flight, mount, peer,
                exported, trouble, events, report>>
relayVars == <<time, skew, volumes, lastOk, writer, file, tmp, latest, inbox, changes, begun>>
estateVars == <<config, loaded, manifest, job, pend, log, acts, runs, deploys, died>>
pageVars == <<facts, version, status, health, thread, acked, polls>>

He == INSTANCE HealthReport WITH Declared <- DeclaredMounts, Request <- HealthRequests
Re == INSTANCE HealthRelay WITH clock <- time
Es == INSTANCE Ownership WITH file <- config, Mounted <- MountedAt, None <- NoEstate
Da == INSTANCE Dashboard WITH Requests <- Polls, MaxEvents <- MaxVersions, None <- NoEntry

ASSUME ReportsAssumption ==
  He!HealthAssumption /\ Re!RelayAssumption /\ Es!OwnershipAssumption /\ Da!DashboardAssumption

-----------------------------------------------------------------------------
(* The hosts start with the same estate file, if any.                         *)
ReportsInit ==
  /\ subject \in {"report", "relay", "estate", "pages"}
  /\ He!Init /\ Re!Init /\ Es!Init /\ Da!Init
  /\ subject # "relay" => skew = 0
  /\ \A g, h \in Host : config[g] = config[h]
  /\ subject # "estate" => \A h \in Host : config[h] = NoEstate
  /\ subject # "pages" => facts.errors

ReportsNext ==
  \/ subject = "report" /\ He!Next /\ UNCHANGED <<subject, relayVars, estateVars, pageVars>>
  \/ subject = "relay" /\ Re!Next /\ UNCHANGED <<subject, reportVars, estateVars, pageVars>>
  \/ subject = "estate" /\ Es!Next /\ UNCHANGED <<subject, reportVars, relayVars, pageVars>>
  \/ subject = "pages" /\ Da!Next /\ UNCHANGED <<subject, reportVars, relayVars, estateVars>>

ReportsSpec == ReportsInit /\ [][ReportsNext]_<<subject, reportVars, relayVars, estateVars, pageVars>>

-----------------------------------------------------------------------------
(* HealthReport: what is called ok is; see there.                             *)
OkIsTrue == subject = "report" => He!OkIsTrue
(* HealthRelay: a machine called ok was; see there.                           *)
OkWasHealthy == subject = "relay" => Re!OkWasHealthy
(* Ownership: a volume is changed by its owner; see there.                    *)
OwnersOnly == subject = "estate" => Es!OwnersOnly
(* Dashboard: a poll shows what was done before it; see there.                *)
ReadsItsActions == subject = "pages" => Da!ReadsItsActions
(* Dashboard: what a banner that says ok stands for; see there.               *)
BannerOkIsTrue == subject = "pages" => Da!BannerOkIsTrue
=============================================================================
