-------------------------------- MODULE Watch --------------------------------
(* steward watch: events of the watched roots go from the observer's emitter  *)
(* thread into a buffer, and the command's loop drains the buffer in batches  *)
(* and records a claim for every path of a batch in one transaction.          *)
(*                                                                            *)
(* The debounce window and the longest wait only decide when drain returns:   *)
(* here it may return whenever the buffer holds something, since the deadline *)
(* can pass at any moment.  A drain that returns nothing changes nothing but  *)
(* under --once, where it ends the command.                                   *)
EXTENDS Naturals, Sequences

CONSTANTS Watched,    \* paths below the watched roots that no skip rule names
          SkippedFile, \* paths below them whose name is_skipped_file takes
          InSkippedDir, \* paths below them in a directory is_skipped_dir takes
          MaxWrites,  \* bound: changes other programs make
          MaxStops,   \* bound: commands that end, are stopped, or raise
          MaxReads,   \* bound: reads that raise OSError
          Gone        \* "no file at this path"

WatchAssumption ==
  /\ Watched \cap (SkippedFile \cup InSkippedDir) = {}
  /\ {MaxWrites, MaxStops, MaxReads} \subseteq Nat
  /\ Gone \notin 0..MaxWrites

Skipped == SkippedFile \cup InSkippedDir
Place == Watched \cup Skipped
Writing == 0..MaxWrites
Event == [kind : {"created", "modified", "deleted"}, path : Watched]
         \cup [kind : {"moved"}, path : Place, to : Place]

VARIABLES
  at,        \* at[p]: the version of the file at p
  emitted,   \* events the observer has not dispatched yet
  buffer,    \* events the handler pushed
  batch,     \* paths of the drained batch left to scan
  up,        \* "down", "loop", "scan" or "stopping": where watch_cmd is
  once,      \* --once
  fresh,     \* fresh[p]: the claim the open transaction holds for p, or Gone
  newest,    \* newest[p]: the content of p's claim with the highest id, or Gone
  current,   \* claims with is_current = 1, as <<path, version>>
  writes, stops, reads,
  unseen     \* history: paths that changed while no command watched, whose
             \* event ended with its command, or whose read failed

vars == <<at, emitted, buffer, batch, up, once, fresh, newest, current,
          writes, stops, reads, unseen>>
inventory == <<fresh, newest, current>>
bounds == <<writes, stops, reads>>

-----------------------------------------------------------------------------
Nowhere == [p \in Place |-> Gone]
Scanned == {p \in Place : fresh[p] # Gone}

\* Fault: a moved file's new path is not among the event's paths.
SourceOnly(e) == {e.path}

(* FileEvent.all_paths *)
AllPaths(e) == IF e.kind = "moved" THEN {e.path, e.to} ELSE {e.path}

EventsOf(s) == {s[i] : i \in DOMAIN s}

(* EventBatch.unique_paths(drop_deleted=True) *)
UniquePaths(s) == UNION {AllPaths(e) : e \in {f \in EventsOf(s) : f.kind # "deleted"}}

(* Paths whose change would be forgotten were the command to end now.         *)
InFlight == batch \cup Scanned \cup UNION {AllPaths(e) : e \in EventsOf(emitted \o buffer)}

Init ==
  /\ at = Nowhere /\ emitted = <<>> /\ buffer = <<>> /\ batch = {}
  /\ up = "down" /\ once = FALSE
  /\ fresh = Nowhere /\ newest = Nowhere /\ current = {}
  /\ writes = 0 /\ stops = 0 /\ reads = 0
  /\ unseen = {}

-----------------------------------------------------------------------------
(* Other programs.  The observer emits what its roots see, and the handler    *)
(* drops events of skipped paths.                                             *)
Changes(p, e) ==
  /\ writes < MaxWrites
  /\ writes' = writes + 1
  /\ emitted' = IF up = "down" THEN emitted ELSE emitted \o e
  /\ unseen' = IF up = "down" THEN unseen \cup p ELSE unseen
  /\ UNCHANGED <<buffer, batch, up, once, inventory, stops, reads>>

WriteFile(p) ==
  /\ at' = [at EXCEPT ![p] = writes + 1]
  /\ Changes({p}, IF p \in Skipped THEN <<>>
                  ELSE <<[kind |-> IF at[p] = Gone THEN "created" ELSE "modified", path |-> p]>>)

DeleteFile(p) ==
  /\ at[p] # Gone
  /\ at' = [at EXCEPT ![p] = Gone]
  /\ Changes({p}, IF p \in Skipped THEN <<>> ELSE <<[kind |-> "deleted", path |-> p]>>)

(* on_moved drops the event only when both ends are skipped.                  *)
MoveFile(p, q) ==
  /\ at[p] # Gone /\ p # q
  /\ at' = [at EXCEPT ![p] = Gone, ![q] = at[p]]
  /\ Changes({p, q}, IF {p, q} \subseteq Skipped THEN <<>>
                     ELSE <<[kind |-> "moved", path |-> p, to |-> q]>>)

(* _Handler._push, on the emitter's thread, under the buffer's lock.          *)
Push ==
  /\ emitted # <<>>
  /\ buffer' = Append(buffer, Head(emitted))
  /\ emitted' = Tail(emitted)
  /\ UNCHANGED <<at, batch, up, once, inventory, bounds, unseen>>

-----------------------------------------------------------------------------
Start(b) ==
  /\ up = "down"
  /\ up' = "loop" /\ once' = b
  /\ UNCHANGED <<at, emitted, buffer, batch, inventory, bounds, unseen>>

\* Fault: drain takes one event and clears the buffer.
DrainOldest ==
  /\ up = "loop" /\ buffer # <<>>
  /\ buffer' = <<>>
  /\ batch' = UniquePaths(<<Head(buffer)>>)
  /\ up' = IF UniquePaths(<<Head(buffer)>>) = {} THEN (IF once THEN "stopping" ELSE "loop") ELSE "scan"
  /\ UNCHANGED <<at, emitted, once, inventory, bounds, unseen>>

(* drain: take the whole buffer.  A batch of deletes alone is not scanned.    *)
Drain ==
  /\ up = "loop" /\ buffer # <<>>
  /\ buffer' = <<>>
  /\ batch' = UniquePaths(buffer)
  /\ up' = IF UniquePaths(buffer) = {} THEN (IF once THEN "stopping" ELSE "loop") ELSE "scan"
  /\ UNCHANGED <<at, emitted, once, inventory, bounds, unseen>>

DrainNothing ==
  /\ up = "loop" /\ buffer = <<>> /\ once
  /\ up' = "stopping"
  /\ UNCHANGED <<at, emitted, buffer, batch, once, inventory, bounds, unseen>>

(* scan_paths for one path: skipped by its own name, gone, or hashed and      *)
(* claimed.                                                                   *)
ScanPath(p) ==
  /\ up = "scan" /\ p \in batch
  /\ batch' = batch \ {p}
  /\ fresh' = IF p \in SkippedFile \/ at[p] = Gone THEN fresh ELSE [fresh EXCEPT ![p] = at[p]]
  /\ UNCHANGED <<at, emitted, buffer, up, once, newest, current, bounds, unseen>>

(* The file is there but cannot be read: counted as errored, not tried again. *)
ReadFails(p) ==
  /\ up = "scan" /\ p \in batch \ SkippedFile /\ at[p] # Gone
  /\ reads < MaxReads
  /\ reads' = reads + 1
  /\ batch' = batch \ {p}
  /\ unseen' = unseen \cup {p}
  /\ UNCHANGED <<at, emitted, buffer, up, once, inventory, writes, stops>>

(* run_incremental_scan commits: claims of earlier contents stay current.     *)
CommitScan ==
  /\ up = "scan" /\ batch = {}
  /\ newest' = [p \in Place |-> IF p \in Scanned THEN fresh[p] ELSE newest[p]]
  /\ current' = current \cup {<<p, fresh[p]>> : p \in Scanned}
  /\ fresh' = Nowhere
  /\ unseen' = unseen \ {p \in Scanned : fresh[p] = at[p]}
  /\ up' = IF once THEN "stopping" ELSE "loop"
  /\ UNCHANGED <<at, emitted, buffer, batch, once, bounds>>

(* The command ends: after --once, between batches when a SIGINT set the      *)
(* flag, and by an exception out of the scan, which rolls back.  The observer *)
(* stops, and what it had not delivered or the loop not drained is gone.      *)
Ends ==
  /\ up' = "down"
  /\ unseen' = unseen \cup InFlight
  /\ emitted' = <<>> /\ buffer' = <<>> /\ batch' = {} /\ fresh' = Nowhere
  /\ UNCHANGED <<at, once, newest, current, writes, reads>>

Finish == up = "stopping" /\ Ends /\ UNCHANGED stops

Stop ==
  /\ up \in {"loop", "scan"}
  /\ stops < MaxStops
  /\ stops' = stops + 1
  /\ Ends

-----------------------------------------------------------------------------
Loop == Drain \/ DrainNothing \/ (\E p \in Place : ScanPath(p)) \/ CommitScan \/ Finish

Next ==
  \/ Push \/ Loop \/ Stop
  \/ \E b \in BOOLEAN : Start(b)
  \/ \E p \in Place : WriteFile(p) \/ DeleteFile(p) \/ ReadFails(p)
  \/ \E p, q \in Place : MoveFile(p, q)

(* The two threads of a running command keep running; nobody else must act.   *)
Fairness == WF_vars(Push) /\ WF_vars(Loop)

Spec == Init /\ [][Next]_vars /\ Fairness

-----------------------------------------------------------------------------
(* Paths that are scanned are pending only while a scan runs.                 *)
TypeOK ==
  /\ at \in [Place -> Writing \cup {Gone}]
  /\ emitted \in Seq(Event) /\ buffer \in Seq(Event)
  /\ batch \subseteq Place
  /\ up \in {"down", "loop", "scan", "stopping"} /\ once \in BOOLEAN
  /\ up # "scan" => batch = {} /\ fresh = Nowhere
  /\ fresh \in [Place -> Writing \cup {Gone}]
  /\ newest \in [Place -> Writing \cup {Gone}]
  /\ current \subseteq Place \X Writing
  /\ writes \in 0..MaxWrites /\ stops \in 0..MaxStops /\ reads \in 0..MaxReads
  /\ unseen \subseteq Place

Known(p) == p \in Skipped \cup unseen \/ at[p] = Gone \/ newest[p] = at[p]

(* A file the command has seen change is claimed with the content it has now, *)
(* or the change is still under way in the command: an event is not lost      *)
(* between the threads, and a write during a scan is not covered by it.       *)
NothingForgotten == \A p \in Place : Known(p) \/ p \in InFlight

(* When a command keeps running, the newest claim of every watched file it    *)
(* could follow becomes, and stays, the file's content.                       *)
Follows == <>[](up # "down") => <>[](\A p \in Place : Known(p))

=============================================================================
