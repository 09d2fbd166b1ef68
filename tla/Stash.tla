-------------------------------- MODULE Stash --------------------------------
(* The cooling-off stash: apply_manifest executing stash rows, finalize_stash *)
(* and restore_stash, over one file system and one audit log.                 *)
(*                                                                            *)
(* A file moves at once, when os.rename or os.unlink returns.  The audit row  *)
(* that says so is inserted afterwards in the command's transaction, which is *)
(* committed once, after the last row or entry.  Everything a later command   *)
(* knows of the stash it replays from committed rows.  Of the audit log only  *)
(* the three actions list_stashes selects are kept; the other rows a command  *)
(* appends (apply_start, stash_planned, *_failed, apply_end) appear through   *)
(* the write lock they take.                                                  *)
EXTENDS Sequences, Naturals, FiniteSets

CONSTANTS Run,         \* manifest_run_ids
          Source,      \* paths the manifests stash
          Dest,        \* paths under _cooling-off-stash
          DestOf,      \* destination_path of a row, by run and source
          Manifest,    \* the source paths of a run's rows, in order
          Proc,        \* processes that run a command
          CoolingOff,  \* cooling_off_days
          Setting,     \* how commands are given in a behaviour, and its bounds
          MaxEdits,    \* bound: files other programs create at a source path
          NoFile,      \* "no file at this path"
          None         \* "no process"

(* What the listing says of a file: the run and path it was stashed from, and *)
(* where to, and when.                                                        *)
Entry == [run : Run, src : Source, dst : Dest, at : Nat]

(* Commands overlap freely, or come one at a time as the runbook asks         *)
(* (dropbox-rectification.md, Anti-patterns), of some of the runs; the bounds *)
(* are on the days, on the rows in the log when a command starts, and on the  *)
(* commands killed or ended by an unhandled OSError.                          *)
ASSUME StashAssumption ==
  /\ Source \cap Dest = {}
  /\ DestOf \in [Run \X Source -> Dest]
  /\ Manifest \in [Run -> Seq(Source)]
  /\ None \notin Proc /\ None \notin Entry
  /\ {CoolingOff, MaxEdits} \subseteq Nat
  /\ Setting \subseteq [alone : BOOLEAN, runs : SUBSET Run, days : Nat, rows : Nat, deaths : Nat]
  /\ NoFile \notin Source \X Nat

Path == Source \cup Dest

(* A file's content: the path it was written at and a generation. *)
Content == Source \X (0..MaxEdits)
Home(c) == c[1]

Closing == {"stash_finalized", "stash_restored"}
Row == [act : {"stash_committed"} \cup Closing,
        run : Run, src : Source, dst : Dest, at : Nat]

(* A running command: opt is --dry-run of an apply and --force of a finalize, *)
(* row the apply's next manifest row, todo the entries of the listing still   *)
(* to visit, step the place within a row or entry, cur that entry.            *)
Cmd == [kind : {"idle", "apply", "finalize", "restore"}, opt : BOOLEAN,
        run : Run \cup {None}, row : Nat \ {0}, todo : SUBSET Entry,
        step : {"next", "checked", "done", "failed"}, cur : Entry \cup {None}]

Started(k, b, r, T) == [kind |-> k, opt |-> b, run |-> r, row |-> 1,
                        todo |-> T, step |-> "next", cur |-> None]

IdleCmd == Started("idle", FALSE, None, {})

VARIABLES
  file,     \* file[p]: the content at path p
  log,      \* committed stash rows of audit_log
  lock,     \* the process that holds SQLite's write lock
  pend,     \* pend[p]: stash rows p appended and has not committed
  cmd,      \* cmd[p]: the command p runs
  clock,    \* today
  edits,    \* files created by other programs so far
  crashes,  \* commands that died so far
  setting,  \* the setting of this behaviour
  stashed,  \* history: the entry that describes the last rename of a content into the stash
  touched,  \* history: contents a running command has moved or unlinked
  lost,     \* history: contents whose last move no committed row records
  torn      \* history: keys whose file left the stash, which no committed row records

world == <<clock, edits, crashes, setting>>
history == <<stashed, touched, lost, torn>>
vars == <<file, log, lock, pend, cmd, world, history>>

-----------------------------------------------------------------------------
(* list_stashes: replay the rows in order; a stash_committed row opens the    *)
(* entry of its (run, source), or replaces it, and a closing row drops it.    *)
Key(r) == <<r.run, r.src>>
Keys(rows) == {Key(rows[i]) : i \in 1..Len(rows)}
SameKey(r, s) == r.run = s.run /\ r.src = s.src

EntryOf(r) == [run |-> r.run, src |-> r.src, dst |-> r.dst, at |-> r.at]

\* Fault: a row carries the day its cooling-off ends.
RowOfExpiry(act, e) ==
  [act |-> act, run |-> e.run, src |-> e.src, dst |-> e.dst, at |-> clock + CoolingOff]

RowOf(act, e) ==
  [act |-> act, run |-> e.run, src |-> e.src, dst |-> e.dst, at |-> clock]

\* Fault: closing rows do not drop their entry.
InFlightNeverCloses(rows) ==
  {EntryOf(rows[i]) : i \in {i \in 1..Len(rows) : rows[i].act = "stash_committed"}}

\* Fault: a second stash_committed row does not refresh an open entry.
InFlightFirstWins(rows) ==
  {EntryOf(rows[i]) : i \in
    {i \in 1..Len(rows) :
      /\ rows[i].act = "stash_committed"
      /\ \A j \in (i + 1)..Len(rows) :
           SameKey(rows[i], rows[j]) => rows[j].act \notin Closing
      /\ \A j \in 1..(i - 1) :
           SameKey(rows[i], rows[j]) /\ rows[j].act = "stash_committed" =>
             \E k \in j..i : SameKey(rows[i], rows[k]) /\ rows[k].act \in Closing}}

InFlight(rows) ==
  {EntryOf(rows[i]) : i \in
    {i \in 1..Len(rows) :
      /\ rows[i].act = "stash_committed"
      /\ \A j \in (i + 1)..Len(rows) : ~SameKey(rows[i], rows[j])}}

Young(e) == clock - e.at < CoolingOff

Idle(p) == cmd[p] = IdleCmd

MayStart(p) ==
  /\ Idle(p)
  /\ Len(log) < setting.rows
  /\ setting.alone => \A q \in Proc : Idle(q)

Init ==
  /\ file = [p \in Path |-> IF p \in Source THEN <<p, 0>> ELSE NoFile]
  /\ log = << >>
  /\ lock = None
  /\ pend = [p \in Proc |-> << >>]
  /\ cmd = [p \in Proc |-> IdleCmd]
  /\ clock = 0 /\ edits = 0 /\ crashes = 0
  /\ setting \in Setting
  /\ stashed = [c \in Content |-> None]
  /\ touched = [p \in Proc |-> {}]
  /\ lost = {} /\ torn = {}

-----------------------------------------------------------------------------
(* How a command ends. *)

\* Fault: the commit keeps the rows of the last entry only.
CommitLast(p) ==
  /\ log' = IF pend[p] = << >> THEN log ELSE Append(log, pend[p][Len(pend[p])])
  /\ lock' = IF lock = p THEN None ELSE lock
  /\ pend' = [pend EXCEPT ![p] = << >>]
  /\ cmd' = [cmd EXCEPT ![p] = IdleCmd]
  /\ touched' = [touched EXCEPT ![p] = {}]
  /\ lost' = lost \ touched[p]
  /\ torn' = torn \ Keys(pend[p])

(* con.commit(): its rows become visible together. *)
Commit(p) ==
  /\ log' = log \o pend[p]
  /\ lock' = IF lock = p THEN None ELSE lock
  /\ pend' = [pend EXCEPT ![p] = << >>]
  /\ cmd' = [cmd EXCEPT ![p] = IdleCmd]
  /\ touched' = [touched EXCEPT ![p] = {}]
  /\ lost' = lost \ touched[p]
  /\ torn' = torn \ Keys(pend[p])

(* The connection closes without a commit: its rows are gone, what it did to  *)
(* the file system is not.                                                    *)
Discard(p) ==
  /\ lock' = IF lock = p THEN None ELSE lock
  /\ pend' = [pend EXCEPT ![p] = << >>]
  /\ cmd' = [cmd EXCEPT ![p] = IdleCmd]
  /\ touched' = [touched EXCEPT ![p] = {}]
  /\ lost' = lost \cup touched[p]
  /\ torn' = torn \cup {k \in Keys(pend[p]) : cmd[p].kind # "apply"}
                   \cup IF cmd[p].step = "done" THEN {Key(cmd[p].cur)} ELSE {}
  /\ UNCHANGED log

-----------------------------------------------------------------------------
(* steward apply, of stash rows. *)

\* Fault: the apply_start row is written on a connection of its own.
StartApplyUnlocked(p, r, dry) ==
  /\ MayStart(p)
  /\ cmd' = [cmd EXCEPT ![p] = Started("apply", dry, r, {})]
  /\ UNCHANGED <<file, log, lock, pend, world, history>>

(* apply_manifest up to its first row: the apply_start row takes the lock.    *)
StartApply(p, r, dry) ==
  /\ MayStart(p)
  /\ lock = None
  /\ lock' = p
  /\ cmd' = [cmd EXCEPT ![p] = Started("apply", dry, r, {})]
  /\ UNCHANGED <<file, log, pend, world, history>>

MoreRows(p) == cmd[p].kind = "apply" /\ cmd[p].row <= Len(Manifest[cmd[p].run])

RowSource(p) == Manifest[cmd[p].run][cmd[p].row]

\* Fault: every row of a run goes to one path.
RowDestFlat(p) == CHOOSE d \in Dest : TRUE

RowDest(p) == DestOf[<<cmd[p].run, RowSource(p)>>]

(* same_fs_rename_to_stash refuses: source missing or destination taken; or   *)
(* the rename times out.  The row counts as errored.  A dry run stops here    *)
(* with a good row too.                                                       *)
SkipRow(p) ==
  /\ MoreRows(p)
  /\ \/ cmd[p].step = "checked"
     \/ /\ cmd[p].step = "next"
        /\ \/ file[RowSource(p)] = NoFile
           \/ file[RowDest(p)] # NoFile
           \/ cmd[p].opt
  /\ cmd' = [cmd EXCEPT ![p].row = @ + 1, ![p].step = "next"]
  /\ UNCHANGED <<file, log, lock, pend, world, history>>

(* Its checks pass; other programs may act before the rename. *)
CheckRow(p) ==
  /\ MoreRows(p) /\ cmd[p].step = "next" /\ ~cmd[p].opt
  /\ file[RowSource(p)] # NoFile
  /\ file[RowDest(p)] = NoFile
  /\ cmd' = [cmd EXCEPT ![p].step = "checked"]
  /\ UNCHANGED <<file, log, lock, pend, world, history>>

(* os.rename(src, dst), then the stash_committed row. *)
RenameRow(p) ==
  LET s == RowSource(p)  d == RowDest(p)
      e == [run |-> cmd[p].run, src |-> s, dst |-> d, at |-> clock]
  IN /\ MoreRows(p) /\ cmd[p].step = "checked"
     /\ file[s] # NoFile
     /\ file' = [file EXCEPT ![d] = file[s], ![s] = NoFile]
     /\ stashed' = [stashed EXCEPT ![file[s]] = e]
     /\ touched' = [touched EXCEPT ![p] = @ \cup {file[s]}]
     /\ pend' = [pend EXCEPT ![p] = Append(@, RowOf("stash_committed", e))]
     /\ cmd' = [cmd EXCEPT ![p].row = @ + 1, ![p].step = "next"]
     /\ UNCHANGED <<log, lock, world, lost, torn>>

(* os.rename raises, and apply_manifest does not catch an OSError.  The row   *)
(* loop ends with the exception and the connection closes.                    *)
RenameRaises(p) ==
  /\ MoreRows(p) /\ cmd[p].step = "checked"
  /\ crashes < setting.deaths
  /\ crashes' = crashes + 1
  /\ Discard(p)
  /\ UNCHANGED <<file, clock, edits, setting, stashed>>

(* The last row is done, or --max-files rows are and the others are skipped.  *)
(* A dry run rolls back, which leaves nothing: it moved nothing.              *)
EndApply(p) ==
  /\ cmd[p].kind = "apply" /\ cmd[p].step = "next"
  /\ MoreRows(p) => pend[p] # << >>
  /\ IF cmd[p].opt THEN Discard(p) ELSE Commit(p)
  /\ UNCHANGED <<file, world, stashed>>

-----------------------------------------------------------------------------
(* steward stash finalize and steward stash restore.  Both list the entries   *)
(* on a read-only connection first and then work through that list.           *)

\* Fault: the listing sees rows that are not committed.
ListingDirty(r) == {e \in UNION {InFlight(log \o pend[p]) : p \in Proc} : e.run = r}

Listing(r) == {e \in InFlight(log) : e.run = r}

StartFinalize(p, r, force) ==
  /\ MayStart(p)
  /\ Listing(r) # {}
  /\ cmd' = [cmd EXCEPT ![p] = Started("finalize", force, r, Listing(r))]
  /\ UNCHANGED <<file, log, lock, pend, world, history>>

StartRestore(p, r) ==
  /\ MayStart(p)
  /\ Listing(r) # {}
  /\ cmd' = [cmd EXCEPT ![p] = Started("restore", FALSE, r, Listing(r))]
  /\ UNCHANGED <<file, log, lock, pend, world, history>>

(* The next entry of the listing of p. *)
Visits(p, k, e) ==
  cmd[p].kind = k /\ cmd[p].step = "next" /\ e \in cmd[p].todo

Leave(p, e, step) ==
  cmd' = [cmd EXCEPT ![p].todo = @ \ {e}, ![p].step = step,
                     ![p].cur = IF step = "next" THEN None ELSE e]

(* An entry is passed over: too young to finalize; nothing at its destination *)
(* to restore, or something at its source.                                    *)
SkipEntry(p, e) ==
  /\ \/ Visits(p, "finalize", e) /\ ~cmd[p].opt /\ Young(e)
     \/ /\ Visits(p, "restore", e)
        /\ file[e.dst] = NoFile \/ file[e.src] # NoFile
  /\ Leave(p, e, "next")
  /\ UNCHANGED <<file, log, lock, pend, world, history>>

(* finalize_stash finds nothing at the destination: the entry counts as       *)
(* finalized all the same.                                                    *)
EntryGone(p, e) ==
  /\ Visits(p, "finalize", e)
  /\ cmd[p].opt \/ ~Young(e)
  /\ file[e.dst] = NoFile
  /\ Leave(p, e, "done")
  /\ UNCHANGED <<file, log, lock, pend, world, history>>

(* There is something to unlink; or something to restore and its source path  *)
(* is free ...                                                                *)
CheckEntry(p, e) ==
  /\ \/ Visits(p, "finalize", e) /\ (cmd[p].opt \/ ~Young(e))
     \/ Visits(p, "restore", e) /\ file[e.src] = NoFile
  /\ file[e.dst] # NoFile
  /\ Leave(p, e, "checked")
  /\ UNCHANGED <<file, log, lock, pend, world, history>>

Checked(p, k) == cmd[p].kind = k /\ cmd[p].step = "checked"

(* ... the unlink, or the mkdir and rename, raises an OSError, which both     *)
(* commands catch and record: always when the file is gone by now ...         *)
EntryFails(p) ==
  /\ Checked(p, "finalize") \/ Checked(p, "restore")
  /\ cmd' = [cmd EXCEPT ![p].step = "failed"]
  /\ UNCHANGED <<file, log, lock, pend, world, history>>

(* ... or it works, on whatever is there: also on the file of another entry   *)
(* when the two share a path, which then loses it without a row.              *)
Takes(p, e) ==
  /\ touched' = [touched EXCEPT ![p] = @ \cup {file[e.dst]}]
  /\ torn' = torn \cup ({Key(stashed[file[e.dst]])} \ {Key(e)})
  /\ cmd' = [cmd EXCEPT ![p].step = "done"]

UnlinkEntry(p) ==
  LET e == cmd[p].cur
  IN /\ Checked(p, "finalize")
     /\ file[e.dst] # NoFile
     /\ file' = [file EXCEPT ![e.dst] = NoFile]
     /\ Takes(p, e)
     /\ UNCHANGED <<log, lock, pend, world, stashed, lost>>

(* os.rename replaces a file at its target.                                   *)
RestoreEntry(p) ==
  LET e == cmd[p].cur
  IN /\ Checked(p, "restore")
     /\ file[e.dst] # NoFile
     /\ file' = [file EXCEPT ![e.src] = file[e.dst], ![e.dst] = NoFile]
     /\ Takes(p, e)
     /\ UNCHANGED <<log, lock, pend, world, stashed, lost>>

(* The row for the entry: it waits for the write lock, and keeps it. *)
AppendEntry(p) ==
  LET act == IF cmd[p].kind = "finalize" THEN "stash_finalized" ELSE "stash_restored"
  IN /\ cmd[p].step \in {"done", "failed"}
     /\ lock \in {None, p}
     /\ lock' = p
     /\ pend' = IF cmd[p].step = "done"
                THEN [pend EXCEPT ![p] = Append(@, RowOf(act, cmd[p].cur))]
                ELSE pend
     /\ cmd' = [cmd EXCEPT ![p].step = "next", ![p].cur = None]
     /\ UNCHANGED <<file, log, world, history>>

(* It waited 60 s: "database is locked" ends the command. *)
LockTimeout(p) ==
  /\ cmd[p].step \in {"done", "failed"}
  /\ lock \notin {None, p}
  /\ Discard(p)
  /\ UNCHANGED <<file, world, stashed>>

EndEntries(p) ==
  /\ cmd[p].kind \in {"finalize", "restore"} /\ cmd[p].step = "next"
  /\ cmd[p].todo = {}
  /\ Commit(p)
  /\ UNCHANGED <<file, world, stashed>>

-----------------------------------------------------------------------------
(* The process is killed. *)
Crash(p) ==
  /\ ~Idle(p)
  /\ crashes < setting.deaths
  /\ crashes' = crashes + 1
  /\ Discard(p)
  /\ UNCHANGED <<file, clock, edits, setting, stashed>>

(* Another program writes a new file where one was stashed from. *)
CreateFile(s) ==
  /\ edits < MaxEdits
  /\ file[s] = NoFile
  /\ edits' = edits + 1
  /\ file' = [file EXCEPT ![s] = <<s, edits + 1>>]
  /\ UNCHANGED <<log, lock, pend, cmd, clock, crashes, setting, history>>

Tick ==
  /\ clock < setting.days
  /\ clock' = clock + 1
  /\ UNCHANGED <<file, log, lock, pend, cmd, edits, crashes, setting, history>>

Command(p) ==
  \/ \E r \in setting.runs, b \in BOOLEAN : StartApply(p, r, b) \/ StartFinalize(p, r, b)
  \/ \E r \in setting.runs : StartRestore(p, r)
  \/ SkipRow(p) \/ CheckRow(p) \/ RenameRow(p) \/ RenameRaises(p) \/ EndApply(p)
  \/ \E e \in cmd[p].todo :
       SkipEntry(p, e) \/ EntryGone(p, e) \/ CheckEntry(p, e)
  \/ EntryFails(p) \/ UnlinkEntry(p) \/ RestoreEntry(p) \/ AppendEntry(p) \/ LockTimeout(p) \/ EndEntries(p)
  \/ Crash(p)

Next ==
  \/ \E p \in Proc : Command(p)
  \/ \E s \in Source : CreateFile(s)
  \/ Tick

Spec == Init /\ [][Next]_vars

-----------------------------------------------------------------------------
TypeOK ==
  /\ file \in [Path -> Content \cup {NoFile}]
  /\ log \in Seq(Row)
  /\ lock \in Proc \cup {None}
  /\ pend \in [Proc -> Seq(Row)]
  /\ cmd \in [Proc -> Cmd]
  /\ clock \in Nat /\ edits \in 0..MaxEdits /\ crashes \in Nat
  /\ setting \in Setting
  /\ stashed \in [Content -> Entry \cup {None}]
  /\ touched \in [Proc -> SUBSET Content]
  /\ lost \subseteq Content /\ torn \subseteq Run \X Source

Quiet == \A p \in Proc : Idle(p)

(* Between commands that come one at a time the listing is the disk, but for  *)
(* moves that died with their command: a file in the stash has the entry of   *)
(* its rename, and an entry with no file, or with the file of another entry   *)
(* at its path (two files of one basename share a path), is one whose file    *)
(* left the stash without a row.  While no command dies there are no such     *)
(* exceptions (stash_cmd.py: "The audit chain stays the source of truth").    *)
LedgerMatchesDisk ==
  setting.alone /\ Quiet =>
    /\ \A d \in Dest :
         file[d] # NoFile /\ file[d] \notin lost => stashed[file[d]] \in InFlight(log)
    /\ \A e \in InFlight(log) :
         file[e.dst] = NoFile \/ stashed[file[e.dst]] # e => Key(e) \in torn
    /\ crashes = 0 => lost = {} /\ torn = {}

(* When commands come one at a time every closing row closes something:       *)
(* between two closing rows of a key there is a stash_committed row of it.    *)
ClosedOnce ==
  setting.alone => \A j \in 1..Len(log) :
    log[j].act \in Closing =>
      \E i \in 1..(j - 1) :
        /\ SameKey(log[i], log[j]) /\ log[i].act = "stash_committed"
        /\ \A k \in (i + 1)..(j - 1) : SameKey(log[k], log[j]) => log[k].act \notin Closing

(* A closing row has a stash_committed row of its key and destination before  *)
(* it, even when commands overlap and work from stale listings.               *)
ClosedWasOpened ==
  \A j \in 1..Len(log) :
    log[j].act \in Closing =>
      \E i \in 1..(j - 1) :
        /\ log[i].act = "stash_committed"
        /\ SameKey(log[i], log[j]) /\ log[i].dst = log[j].dst

(* A finalize without --force that unlinks d now. *)
UnlinksUnforced(p, d) ==
  /\ cmd[p].kind = "finalize" /\ ~cmd[p].opt
  /\ cmd[p].step = "checked" /\ cmd'[p].step = "done"
  /\ file[d] # NoFile /\ file'[d] = NoFile

(* When commands come one at a time, no file whose rename into the stash is   *)
(* on record leaves the disk without --force before it has been there for     *)
(* cooling_off_days (ADR-0007), unless it lies at the path of an older entry  *)
(* whose own file left the stash without a row.                               *)
KeepsCoolingOff ==
  setting.alone => \A p \in Proc, d \in Dest :
    UnlinksUnforced(p, d) /\ file[d] \notin lost /\ Key(cmd[p].cur) \notin torn =>
      clock - stashed[file[d]].at >= CoolingOff
RecordedCoolingOffKept == [][KeepsCoolingOff]_vars

(* finalize_stash: "Refuses entries younger than cooling_off_days unless      *)
(* force=True", whatever else is in the stash.                                *)
RefusesYoung ==
  [][\A p \in Proc, e \in InFlight(log) :
       UnlinksUnforced(p, e.dst) /\ stashed[file[e.dst]] = e => ~Young(e)]_vars

(* An apply never renames over a file: the write lock its apply_start row     *)
(* takes keeps other applies out between the check and the rename             *)
(* (stash.py, "no overwrite").                                                *)
ApplyNeverClobbers ==
  [][\A p \in Proc :
       cmd[p].kind = "apply" /\ file' # file /\ cmd'[p] # cmd[p] =>
         \A d \in Dest : file[d] # NoFile => file'[d] = file[d]]_vars

(* What a restore puts at a source path was stashed from there (restore_stash:*)
(* "Move every in-flight entry ... back to its original source path"), or     *)
(* shared its path in the stash with a file that was; and when commands come  *)
(* one at a time the wrong one is put there only after a command died.        *)
RestoresHome ==
  \A s \in Source : file[s] # NoFile =>
    IF stashed[file[s]] = None THEN Home(file[s]) = s
    ELSE \/ stashed[file[s]].src = s
         \/ /\ \E r \in Run : DestOf[<<r, s>>] = stashed[file[s]].dst
            /\ setting.alone => crashes > 0

(* ADR-0007: "Every rename appends a stash_committed audit row", so between   *)
(* commands every file in the stash is in the listing.                        *)
EveryRenameRecorded ==
  Quiet => \A d \in Dest :
    file[d] # NoFile => \E e \in InFlight(log) : e.dst = d
=============================================================================
