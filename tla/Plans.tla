-------------------------------- MODULE Plans --------------------------------
(* Plan tokens and four components that share no state with them or with each *)
(* other here, each in behaviours of its own: subject says which one moves.   *)
EXTENDS PlanToken

CONSTANTS
  PlanIds, PlanRows, Bulk, Pure, Cloud, Probed, Proc, KeepDays, MaxEvents, Torn,  \* Backlog
  Source, Dest, Bytes, Held, DestOf, MaxPlans, Bad, Gone,                         \* Promote
  Places, Hashed, NoFile, Initial, Priority, Action, Recovered, Bias, Scopes,     \* Dedup
  MaxClaims,
  Rel, Start, CloudClaims, CloudPlans, CloudWrites, CloudFaults                   \* CloudRetire

VARIABLES
  subject,
  dir, tsv, filter, digest, summary, index, audit, done, cmd, now, events, upset, told,
  file, inflight, export, claims, plans, job, pend, log, writes, deaths,
  disk, table, manifests, applying, reading, entries, strokes, aborts, touched, retired, late,
  forms, marked, current, list, sieve, bucket, deleting, removed, plans2, others, stumbles, both

backlogVars == <<dir, tsv, filter, digest, summary, index, audit, done, cmd, now, events, upset, told>>
promoteVars == <<file, inflight, export, claims, plans, job, pend, log, writes, deaths>>
dedupVars == <<disk, table, manifests, applying, reading, entries, strokes, aborts, touched, retired, late>>
cloudVars == <<forms, marked, current, list, sieve, bucket, deleting, removed, plans2, others, stumbles, both>>

Bl == INSTANCE Backlog WITH Plan <- PlanIds, Rows <- PlanRows, disturbed <- upset
Pr == INSTANCE Promote WITH Content <- Bytes, edits <- writes, faults <- deaths
De == INSTANCE Dedup WITH Path <- Places, Content <- Hashed, claims <- table,
                          plans <- manifests, job <- applying, edits <- strokes,
                          faults <- aborts, disturbed <- touched
Cl == INSTANCE CloudRetire
  WITH disk <- forms, claims <- current, plan <- list, filter <- sieve, job <- deleting,
       pend <- removed, plans <- plans2, writes <- others, faults <- stumbles,
       Content <- Bytes, Gone <- NoFile, MaxClaims <- CloudClaims, MaxPlans <- CloudPlans,
       MaxWrites <- CloudWrites, MaxFaults <- CloudFaults

ASSUME PlansAssumption ==
  Bl!BacklogAssumption /\ Pr!PromoteAssumption /\ De!DedupAssumption /\ Cl!CloudAssumption

-----------------------------------------------------------------------------
PlansInit ==
  /\ subject \in {"token", "backlog", "promote", "dedup", "cloud"}
  /\ Init /\ Bl!Init /\ Pr!Init /\ De!Init /\ Cl!Init
  /\ subject # "cloud" => marked = {}

PlansNext ==
  \/ subject = "token" /\ Next /\ UNCHANGED <<subject, backlogVars, promoteVars, dedupVars, cloudVars>>
  \/ subject = "backlog" /\ Bl!Next /\ UNCHANGED <<subject, vars, promoteVars, dedupVars, cloudVars>>
  \/ subject = "promote" /\ Pr!Next /\ UNCHANGED <<subject, vars, backlogVars, dedupVars, cloudVars>>
  \/ subject = "dedup" /\ De!Next /\ UNCHANGED <<subject, vars, backlogVars, promoteVars, cloudVars>>
  \/ subject = "cloud" /\ Cl!Next /\ UNCHANGED <<subject, vars, backlogVars, promoteVars, dedupVars>>

PlansSpec == PlansInit /\ [][PlansNext]_<<subject, vars, backlogVars, promoteVars, dedupVars, cloudVars>>

-----------------------------------------------------------------------------
(* Backlog: what is listed agrees with what was refreshed; see there.         *)
ListingSettles == subject = "backlog" => Bl!ListingSettles
(* Backlog: a plan listed as applied was; see there.                          *)
AppliedWasApplied == subject = "backlog" => Bl!AppliedWasApplied
(* Promote: what is recorded is on disk; see there.                           *)
RecordedIsThere == subject = "promote" => Pr!RecordedIsThere
(* Promote: no file of others is replaced; see there.                         *)
NeverOverwrites == Pr!NeverOverwrites
(* Dedup: a content keeps a copy in place; see there.                         *)
LastCopySafe == subject = "dedup" => De!LastCopySafe
(* Dedup: what was retired is not current; see there.                         *)
RetiredNotCurrent == subject = "dedup" => De!RetiredNotCurrent
(* CloudRetire: what is removed is what its row names; see there.             *)
RemovedKnowingly == subject = "cloud" => Cl!RemovedKnowingly
=============================================================================
