-------------------------------- MODULE Hosts --------------------------------
(* The machine that imports, the exports it may read from, and the runs that  *)
(* send copies elsewhere: components that share no state here, each in        *)
(* behaviours of its own; subject says which one moves.                       *)
EXTENDS Sync

CONSTANTS
  Exporter, MaxWrites, MaxKills, NoFile,                          \* Export
  Replicator, Archiver, Sources, Snapshots, Outside, Policy,      \* Runners
  MaxRuns, MaxFaults, Part, Empty

VARIABLES
  subject,
  live, taken, step, snap, opened, partial, target, man, body, mixed, audited, kills, shared,
  db, staged, lock, job, pend, log, moved, enforce, runs, faults

exportVars == <<live, taken, step, snap, opened, partial, target, man, body, mixed,
                audited, kills, shared>>
runnerVars == <<db, staged, lock, job, pend, log, moved, enforce, runs, faults>>

Ex == INSTANCE Export
Ru == INSTANCE Runners WITH Source <- Sources

ASSUME HostsAssumption == Ex!ExportAssumption /\ Ru!RunnersAssumption

-----------------------------------------------------------------------------
HostsInit ==
  /\ subject \in {"import", "export", "replicate"}
  /\ Init /\ Ex!Init /\ Ru!Init
  /\ subject # "replicate" => enforce

HostsNext ==
  \/ subject = "import" /\ Next /\ UNCHANGED <<subject, exportVars, runnerVars>>
  \/ subject = "export" /\ Ex!Next /\ UNCHANGED <<subject, vars, runnerVars>>
  \/ subject = "replicate" /\ Ru!Next /\ UNCHANGED <<subject, vars, exportVars>>

HostsSpec == HostsInit /\ [][HostsNext]_<<subject, vars, exportVars, runnerVars>>

-----------------------------------------------------------------------------
(* Export: Publisher is what readers may assume; see there.                   *)
ImplementsPublisher == Ex!ImplementsPublisher
(* Runners: what is shipped as checked was checked; see there.                *)
ShippedIsChecked == subject = "replicate" => Ru!ShippedIsChecked
(* Runners: what left the host is on record; see there.                       *)
TransfersAttested == subject = "replicate" => Ru!TransfersAttested
=============================================================================
