-------------------------------- MODULE Runners --------------------------------
(* replicate run (rclone) and archive snapshot, init and list (restic): what  *)
(* leaves the host, and the audit rows that say so.                           *)
(*                                                                            *)
(* A replicate run commits each row as it writes it.  A source of kind        *)
(* sqlite-snapshot ships a copy of the inventory database from                *)
(* .replicate-staging, a path that all runs share.  An archive run leaves its *)
(* transaction to its caller: it holds the write lock of the database from    *)
(* its first row to its last, and its rows are committed together.            *)
EXTENDS Naturals, Sequences, FiniteSets

CONSTANTS Replicator, Archiver,  \* processes
          Source,
          Snapshots,  \* sources of kind sqlite-snapshot
          Outside,    \* sources whose destination is in no replica grant of this host
          Policy,     \* Policy[p]: the enabled sources p's policy names, in order
          MaxRuns, MaxWrites, MaxFaults,  \* bounds: runs, versions of the database, faults
          NoFile,
          Part,       \* a file that is being written, or two mixed up
          Empty,      \* the database SQLite makes of a path that is not there
          None

Process == Replicator \cup Archiver
Version == 0..MaxWrites
Content == Version \cup {Part, Empty}
Run == 1..MaxRuns

RunnersAssumption ==
  /\ Replicator \cap Archiver = {}
  /\ Snapshots \cup Outside \subseteq Source
  /\ Policy \in [Process -> Seq(Source)]
  /\ {MaxRuns, MaxWrites, MaxFaults} \subseteq Nat
  /\ None \notin Process
  /\ {NoFile, Part, Empty, None} \cap Version = {} /\ Part # Empty
  /\ NoFile \notin {Part, Empty, None} /\ None \notin {Part, Empty}

(* An audit row that names a source, or (source None) starts or ends a run.   *)
Row == [run : Run, source : Source \cup {None}, says : {"start", "refused", "ok", "failed", "end"}]

(* History: what a run moved to its destination with exit code 0, the version *)
(* the database had when the run started, and whether a run beside it had     *)
(* used the staging path.                                                     *)
Transfer == [run : Run, source : Source, content : Content \cup {None}, since : Version, alone : BOOLEAN]

VARIABLES
  db,       \* the version of the database
  staged,   \* the staged copy: its content and who writes it
  lock,     \* who is in a write transaction
  job,      \* job[p]: the run of process p
  pend,     \* rows of the transaction that archive keeps open
  log,      \* rows committed
  moved,    \* transfers
  enforce,  \* enforcement mode of the estate
  runs, faults

vars == <<db, staged, lock, job, pend, log, moved, enforce, runs, faults>>

-----------------------------------------------------------------------------
Idle == [at |-> "idle"]
At(p, step) == job[p].at = step
Becomes(p, j) == job' = [job EXCEPT ![p] = j]
Goes(p, step) == Becomes(p, [job[p] EXCEPT !.at = step])
Now(p) == Head(job[p].left)
RowOf(p, says) == [run |-> job[p].run, source |-> Now(p), says |-> says]
Mark(p, says) == [run |-> job[p].run, source |-> None, says |-> says]

Begun(p, dry, alone) ==
  [at |-> "source", run |-> runs + 1, left |-> Policy[p], dry |-> dry,
   since |-> db, alone |-> alone, copied |-> 0, read |-> {}, says |-> "ok"]

(* append and commit: the write lock is taken and given back.                 *)
Commits(row) == lock = None /\ log' = log \cup {row}

(* p goes on as j, and whoever reads the staged path sees it become f.        *)
Stages(p, j, f) ==
  /\ staged' = f
  /\ job' = [q \in Process |->
       IF q = p THEN j
       ELSE IF job[q].at = "ship" /\ None \notin job[q].read
            THEN [job[q] EXCEPT !.read = @ \cup {f.content}] ELSE job[q]]

Unlinked == [content |-> NoFile, by |-> None]

Init ==
  /\ db = 0 /\ staged = Unlinked
  /\ lock = None
  /\ job = [p \in Process |-> Idle]
  /\ pend = {} /\ log = {} /\ moved = {}
  /\ enforce \in BOOLEAN
  /\ runs = 0 /\ faults = 0

-----------------------------------------------------------------------------
StartReplicate(p, dry) ==
  /\ At(p, "idle") /\ runs < MaxRuns
  /\ runs' = runs + 1
  /\ Commits([run |-> runs + 1, source |-> None, says |-> "start"])
  /\ LET others == {q \in Replicator : job[q] # Idle} IN
       job' = [q \in Process |->
         IF q = p THEN Begun(p, dry, others = {})
         ELSE IF q \in others THEN [job[q] EXCEPT !.alone = FALSE] ELSE job[q]]
  /\ UNCHANGED <<db, staged, lock, pend, moved, enforce, faults>>

(* A destination outside the grants is recorded first; in enforce mode the    *)
(* source is not run, in report mode it is.                                   *)
Consider(p) ==
  /\ At(p, "source") /\ job[p].left # <<>>
  /\ LET blocked == Now(p) \in Outside /\ enforce IN
       Becomes(p, [job[p] EXCEPT !.at = IF blocked THEN "record"
                                        ELSE IF Now(p) \in Snapshots /\ ~job[p].dry THEN "stage" ELSE "ship",
                                 !.says = IF blocked THEN "failed" ELSE "ok", !.read = {None}])
  /\ IF Now(p) \in Outside THEN Commits(RowOf(p, "refused")) ELSE UNCHANGED log
  /\ UNCHANGED <<db, staged, lock, pend, moved, enforce, runs, faults>>

(* backup_inventory_db with overwrite: unlink, then one read transaction over *)
(* the whole source.  While a run writes the file it is locked for others.    *)
Unstage(p) ==
  /\ At(p, "stage")
  /\ Stages(p, [job[p] EXCEPT !.at = "copy"], Unlinked)
  /\ UNCHANGED <<db, lock, pend, log, moved, enforce, runs, faults>>

Locked == staged.content = Part /\ job[staged.by].at = "copying"

BeginCopy(p) ==
  /\ At(p, "copy") /\ ~Locked
  /\ Stages(p, [job[p] EXCEPT !.at = "copying", !.copied = db], [content |-> Part, by |-> p])
  /\ UNCHANGED <<db, lock, pend, log, moved, enforce, runs, faults>>

(* When another run has unlinked the path, the copy is in a file without a    *)
(* name.                                                                      *)
EndCopy(p) ==
  /\ At(p, "copying")
  /\ IF staged.by = p
     THEN Stages(p, [job[p] EXCEPT !.at = "note"], [staged EXCEPT !.content = job[p].copied])
     ELSE Goes(p, "note") /\ UNCHANGED staged
  /\ UNCHANGED <<db, lock, pend, log, moved, enforce, runs, faults>>

(* The copy is measured, and db_backup_created committed.                     *)
NoteBackup(p) ==
  /\ At(p, "note") /\ staged.content # NoFile /\ lock = None
  /\ Goes(p, "check")
  /\ UNCHANGED <<db, staged, lock, pend, log, moved, enforce, runs, faults>>

(* quick_check: SQLite makes an empty database of a path that is gone, and    *)
(* rolls back to that what its writer left half written.                      *)
Check(p) ==
  /\ At(p, "check") /\ ~Locked
  /\ IF staged.content \in {NoFile, Part}
     THEN Stages(p, [job[p] EXCEPT !.at = "ship", !.read = {Empty}], [content |-> Empty, by |-> p])
     ELSE Becomes(p, [job[p] EXCEPT !.at = "ship", !.read = {staged.content}]) /\ UNCHANGED staged
  /\ UNCHANGED <<db, lock, pend, log, moved, enforce, runs, faults>>

(* The copy fails, has gone, is locked, or the write lock is not to be had.   *)
NoSnapshot(p) ==
  \/ job[p].at \in {"copy", "copying"} /\ faults < MaxFaults /\ faults' = faults + 1
  \/ /\ \/ At(p, "note") /\ (staged.content = NoFile \/ lock # None)
        \/ At(p, "check") /\ Locked
     /\ UNCHANGED faults

\* Fault: what is staged is shipped when a snapshot fails.
SnapshotFailsShips(p) ==
  /\ NoSnapshot(p)
  /\ Becomes(p, [job[p] EXCEPT !.at = "ship", !.read = {staged.content}])
  /\ UNCHANGED <<db, staged, lock, pend, log, moved, enforce, runs>>

(* A failed snapshot is a failed source.  The staged file stays.              *)
SnapshotFails(p) ==
  /\ NoSnapshot(p)
  /\ Becomes(p, [job[p] EXCEPT !.at = "record", !.says = "failed"])
  /\ UNCHANGED <<db, staged, lock, pend, log, moved, enforce, runs>>

(* rclone ends with code 0: what the path held, or a mixture.                 *)
Ships(p) ==
  IF job[p].dry THEN UNCHANGED moved
  ELSE \E c \in (job[p].read \cup IF Cardinality(job[p].read) = 1 THEN {} ELSE {Part}) \ {NoFile} :
         moved' = moved \cup {[run |-> job[p].run, source |-> Now(p), content |-> c,
                               since |-> job[p].since, alone |-> job[p].alone]}

(* rclone ends, with an error too, or at its timeout; the staged path is      *)
(* unlinked whoever wrote it.                                                 *)
Ship(p) ==
  /\ At(p, "ship") /\ p \in Replicator
  /\ \E says \in {"ok", "failed"} :
       /\ IF says = "ok" THEN Ships(p) ELSE UNCHANGED moved
       /\ LET j == [job[p] EXCEPT !.at = "record", !.says = says, !.read = {}] IN
            IF Now(p) \in Snapshots /\ ~job[p].dry THEN Stages(p, j, Unlinked)
            ELSE Becomes(p, j) /\ UNCHANGED staged
  /\ UNCHANGED <<db, lock, pend, log, enforce, runs, faults>>

\* Fault: the rows of sources are left for the last commit.
RecordLater(p) ==
  /\ At(p, "record")
  /\ pend' = pend \cup {RowOf(p, job[p].says)}
  /\ Becomes(p, [job[p] EXCEPT !.at = "source", !.left = Tail(@)])
  /\ UNCHANGED <<db, staged, lock, log, moved, enforce, runs, faults>>

(* replicate_source                                                           *)
Record(p) ==
  /\ At(p, "record")
  /\ Commits(RowOf(p, job[p].says))
  /\ Becomes(p, [job[p] EXCEPT !.at = "source", !.left = Tail(@)])
  /\ UNCHANGED <<db, staged, lock, pend, moved, enforce, runs, faults>>

EndReplicate(p) ==
  /\ At(p, "source") /\ job[p].left = <<>>
  /\ Commits(Mark(p, "end"))
  /\ Becomes(p, Idle)
  /\ UNCHANGED <<db, staged, lock, pend, moved, enforce, runs, faults>>

(* A row whose transaction waits too long for the write lock ends the run, as *)
(* does a missing rclone, which removes the staged copy.                      *)
ReplicateRaises(p) ==
  /\ \/ job[p].at \in {"source", "record"} /\ lock # None /\ UNCHANGED faults
        /\ Becomes(p, Idle) /\ UNCHANGED staged
     \/ At(p, "ship") /\ faults < MaxFaults /\ faults' = faults + 1
        /\ IF Now(p) \in Snapshots /\ ~job[p].dry THEN Stages(p, Idle, Unlinked)
           ELSE Becomes(p, Idle) /\ UNCHANGED staged
  /\ UNCHANGED <<db, lock, pend, log, moved, enforce, runs>>

Replicate(p) ==
  \/ \E dry \in BOOLEAN : StartReplicate(p, dry)
  \/ Consider(p) \/ Unstage(p) \/ BeginCopy(p) \/ EndCopy(p) \/ NoteBackup(p) \/ Check(p)
  \/ SnapshotFails(p) \/ Ship(p) \/ Record(p) \/ EndReplicate(p) \/ ReplicateRaises(p)

-----------------------------------------------------------------------------
(* archive snapshot and init: the first row takes the write lock.  list, a    *)
(* start and an end row without repositories refused or written, is dry.      *)
StartArchive(p, dry) ==
  /\ At(p, "idle") /\ runs < MaxRuns /\ lock = None
  /\ runs' = runs + 1 /\ lock' = p
  /\ pend' = {[run |-> runs + 1, source |-> None, says |-> "start"]}
  /\ Becomes(p, Begun(p, dry, TRUE))
  /\ UNCHANGED <<db, staged, log, moved, enforce, faults>>

(* One repository: refused or run, and its row.                               *)
ArchiveSource(p) ==
  /\ At(p, "source") /\ job[p].left # <<>>
  /\ LET outside == Now(p) \in Outside IN
       \E says \in IF outside /\ enforce THEN {"failed"} ELSE {"ok", "failed"} :
         /\ pend' = pend \cup {RowOf(p, says)} \cup IF outside THEN {RowOf(p, "refused")} ELSE {}
         /\ moved' = IF says = "ok" /\ ~job[p].dry
                     THEN moved \cup {[run |-> job[p].run, source |-> Now(p), content |-> None,
                                       since |-> job[p].since, alone |-> TRUE]}
                     ELSE moved
  /\ Becomes(p, [job[p] EXCEPT !.left = Tail(@)])
  /\ UNCHANGED <<db, staged, lock, log, enforce, runs, faults>>

EndArchive(p) ==
  /\ At(p, "source") /\ job[p].left = <<>>
  /\ log' = log \cup pend \cup {Mark(p, "end")}
  /\ pend' = {} /\ lock' = None
  /\ Becomes(p, Idle)
  /\ UNCHANGED <<db, staged, moved, enforce, runs, faults>>

(* A missing restic; the transaction is rolled back.                          *)
ArchiveRaises(p) ==
  /\ At(p, "source") /\ faults < MaxFaults
  /\ faults' = faults + 1
  /\ pend' = {} /\ lock' = None
  /\ Becomes(p, Idle)
  /\ UNCHANGED <<db, staged, log, moved, enforce, runs>>

Archive(p) ==
  \/ \E dry \in BOOLEAN : StartArchive(p, dry)
  \/ ArchiveSource(p) \/ EndArchive(p) \/ ArchiveRaises(p)

-----------------------------------------------------------------------------
Kill(p) ==
  /\ p \in Replicator /\ job[p] # Idle /\ faults < MaxFaults
  /\ faults' = faults + 1
  /\ Becomes(p, Idle)
  /\ UNCHANGED <<db, staged, lock, pend, log, moved, enforce, runs>>

(* Another command writes the database.                                       *)
Write ==
  /\ lock = None /\ db < MaxWrites
  /\ db' = db + 1
  /\ UNCHANGED <<staged, lock, job, pend, log, moved, enforce, runs, faults>>

Next ==
  \/ \E p \in Replicator : Replicate(p) \/ Kill(p)
  \/ \E p \in Archiver : Archive(p)
  \/ Write

Spec == Init /\ [][Next]_vars

-----------------------------------------------------------------------------
TypeOK ==
  /\ db \in Version
  /\ staged \in [content : Content \cup {NoFile}, by : Replicator \cup {None}]
  /\ lock \in Archiver \cup {None}
  /\ pend \cup log \subseteq Row
  /\ moved \subseteq Transfer

(* A run that no other replicate run overlaps ships a whole copy of the       *)
(* database that is no older than the run, whatever an earlier run left       *)
(* staged and whatever fails ("quick-checked online-backup copy",             *)
(* runner.py).                                                                *)
ShippedIsChecked ==
  \A t \in moved : t.content # None /\ t.alone => t.content \in Version /\ t.content >= t.since

Ended(r) == [run |-> r, source |-> None, says |-> "end"] \in log
RowFor(t, says) == [run |-> t.run, source |-> t.source, says |-> says] \in log
Unrecorded(r) == {t \in moved : t.run = r /\ ~RowFor(t, "ok")}

(* What left the host is on record: all of it once a run has ended, all but   *)
(* the last transfer while a replicate run goes on or after it died, and what *)
(* went outside the grants was recorded as refused before.  (An archive run   *)
(* that dies has no row on record, not even its start.)                       *)
TransfersAttested ==
  \A r \in 1..runs :
    /\ Ended(r) => Unrecorded(r) = {}
    /\ [run |-> r, source |-> None, says |-> "start"] \in log =>
         /\ Cardinality(Unrecorded(r)) <= 1
         /\ \A t \in moved : t.run = r /\ t.source \in Outside => RowFor(t, "refused") /\ ~enforce
=============================================================================
