----------------------------- MODULE StashProofs -----------------------------
(* Proofs about module Stash, for any runs, files, processes and bounds, with *)
(* and without overlapping commands.                                          *)
EXTENDS Stash, TLAPS

-----------------------------------------------------------------------------
(* What a command has in hand at each of its steps. *)

Applying(p) == cmd[p].kind = "apply"

(* Only an apply that holds the lock moves files; a finalize or restore past
   its listing has one entry of it in hand. *)
Running ==
  \A p \in Proc :
    /\ Applying(p) => cmd[p].run \in Run /\ lock = p /\ cmd[p].step \in {"next", "checked"}
    /\ cmd[p].step \in {"done", "failed"} =>
         cmd[p].cur \in Entry /\ cmd[p].kind \in {"finalize", "restore"}
    /\ Checked(p, "finalize") \/ Checked(p, "restore") => cmd[p].cur \in Entry

(* What CheckRow saw still holds when RenameRow comes. *)
Guarded ==
  \A p \in Proc :
    Applying(p) /\ cmd[p].step = "checked" => MoreRows(p) /\ file[RowDest(p)] = NoFile

(* No two paths have the same file, no file is of a later generation, and     *)
(* none that is yet to come was ever stashed.                                 *)
Fresh ==
  /\ \A x, y \in Path : file[x] # NoFile /\ file[x] = file[y] => x = y
  /\ \A x \in Path : file[x] # NoFile => file[x][2] <= edits
  /\ \A c \in Content : c[2] > edits => stashed[c] = None

(* A file in the stash is where it was last renamed to. *)
InPlace ==
  \A d \in Dest : file[d] # NoFile => stashed[file[d]] \in Entry /\ stashed[file[d]].dst = d

IInv == TypeOK /\ Running /\ Guarded /\ Fresh /\ InPlace

-----------------------------------------------------------------------------
(* Facts about the data. *)

(* A missing file is no content, and no place to stash is a place to stash from. *)
LEMMA PathsApart == NoFile \notin Content /\ Source \cap Dest = {}
BY StashAssumption DEF StashAssumption, Content

(* The runs of a setting are runs. *)
LEMMA RunsGiven == ASSUME TypeOK PROVE setting.runs \subseteq Run
BY StashAssumption DEF TypeOK, StashAssumption

(* What list_stashes returns are entries. *)
LEMMA InFlightType ==
  ASSUME NEW rows \in Seq(Row)
  PROVE  InFlight(rows) \subseteq Entry
<1>1. SUFFICES ASSUME NEW i \in 1..Len(rows)
               PROVE  EntryOf(rows[i]) \in Entry
  BY DEF InFlight
<1>2. rows[i] \in Row
  OBVIOUS
<1>. QED
  BY <1>2 DEF EntryOf, Row, Entry

(* The manifest row an apply is at has a source and a destination. *)
LEMMA RowTypes ==
  ASSUME TypeOK, Running, NEW p \in Proc, MoreRows(p)
  PROVE  RowSource(p) \in Source /\ RowDest(p) \in Dest /\ cmd[p].run \in Run
<1>1. cmd[p].run \in Run /\ cmd[p] \in Cmd
  BY DEF Running, Applying, MoreRows, TypeOK
<1>2. Manifest[cmd[p].run] \in Seq(Source)
  BY <1>1, StashAssumption DEF StashAssumption
<1>3. RowSource(p) \in Source
  <2>1. cmd[p].row \in Nat \ {0} /\ cmd[p].row <= Len(Manifest[cmd[p].run])
    BY <1>1 DEF MoreRows, Cmd
  <2>. QED
    BY <1>2, <2>1 DEF RowSource
<1>4. RowDest(p) \in Dest
  BY <1>1, <1>3, StashAssumption DEF StashAssumption, RowDest
<1>. QED
  BY <1>1, <1>3, <1>4

-----------------------------------------------------------------------------
(* Types, and what a command has in hand. *)

LEMMA RowOfType ==
  ASSUME TypeOK, NEW e \in Entry, NEW act \in {"stash_committed"} \cup Closing
  PROVE  RowOf(act, e) \in Row
BY DEF TypeOK, RowOf, Row, Entry

(* How the actions update the record of a command. *)

LEMMA CmdUpdates ==
  ASSUME NEW c \in Cmd
  PROVE  /\ [c EXCEPT !.row = @ + 1] \in Cmd
         /\ [c EXCEPT !.row = @ + 1, !.step = "next"] \in Cmd
         /\ \A x \in {"next", "checked", "done", "failed"} : [c EXCEPT !.step = x] \in Cmd
         /\ [c EXCEPT !.step = "next", !.cur = None] \in Cmd
         /\ \A e \in Entry, x \in {"next", "checked", "done", "failed"}, y \in Entry \cup {None} :
              [c EXCEPT !.todo = @ \ {e}, !.step = x, !.cur = y] \in Cmd
<1>1. c.row + 1 \in Nat \ {0}
  BY DEF Cmd
<1>. QED
  BY <1>1 DEF Cmd

(* A command starts with a well-typed record. *)
LEMMA CmdStarts ==
  ASSUME NEW k \in {"idle", "apply", "finalize", "restore"}, NEW b \in BOOLEAN,
         NEW r \in Run \cup {None}, NEW T \in SUBSET Entry
  PROVE  Started(k, b, r, T) \in Cmd
BY DEF Started, Cmd

(* The invariant holds before the first command. *)
LEMMA InitTypes == Init => TypeOK /\ Running /\ Guarded /\ Fresh /\ InPlace
<1>. SUFFICES ASSUME Init
              PROVE  TypeOK /\ Running /\ Guarded /\ Fresh /\ InPlace
  OBVIOUS
<1>1. \A p \in Proc : cmd[p] = IdleCmd
  BY DEF Init
<1>2. IdleCmd \in Cmd
  BY CmdStarts DEF IdleCmd
<1>3. file \in [Path -> Content \cup {NoFile}]
  BY StashAssumption DEF Init, Content, StashAssumption
<1>4. TypeOK
  BY <1>2, <1>3, StashAssumption DEF Init, TypeOK, StashAssumption
<1>5. Running /\ Guarded
  BY <1>1 DEF Running, Guarded, Applying, Checked, IdleCmd, Started
<1>6. \A x \in Path : file[x] # NoFile => x \in Source /\ file[x] = <<x, 0>>
  BY DEF Init
<1>7. \A c \in Content : stashed[c] = None
  BY DEF Init
<1>8. Fresh
  BY <1>6, <1>7 DEF Fresh, Init
<1>9. InPlace
  BY <1>6, PathsApart DEF InPlace, Path
<1>. QED
  BY <1>4, <1>5, <1>8, <1>9

(* A rollback keeps every variable of its type. *)
LEMMA DiscardTypes ==
  ASSUME TypeOK, Running, NEW p \in Proc, Discard(p)
  PROVE  /\ log' \in Seq(Row) /\ lock' \in Proc \cup {None} /\ pend' \in [Proc -> Seq(Row)]
         /\ cmd' \in [Proc -> Cmd] /\ touched' \in [Proc -> SUBSET Content]
         /\ lost' \subseteq Content /\ torn' \subseteq Run \X Source
<1>1. IdleCmd \in Cmd
  BY CmdStarts DEF IdleCmd
<1>2. Keys(pend[p]) \subseteq Run \X Source
  <2>1. pend[p] \in Seq(Row)
    BY DEF TypeOK
  <2>2. \A i \in 1..Len(pend[p]) : pend[p][i] \in Row
    BY <2>1
  <2>. QED
    BY <2>2 DEF Keys, Key, Row
<1>3. cmd[p].step = "done" => Key(cmd[p].cur) \in Run \X Source
  BY DEF Running, Key, Entry
<1>4. torn' \subseteq Run \X Source
  BY <1>2, <1>3 DEF TypeOK, Discard
<1>. QED
  BY <1>1, <1>4 DEF TypeOK, Discard

(* A commit keeps every variable of its type. *)
LEMMA CommitTypes ==
  ASSUME TypeOK, NEW p \in Proc, Commit(p)
  PROVE  /\ log' \in Seq(Row) /\ lock' \in Proc \cup {None} /\ pend' \in [Proc -> Seq(Row)]
         /\ cmd' \in [Proc -> Cmd] /\ touched' \in [Proc -> SUBSET Content]
         /\ lost' \subseteq Content /\ torn' \subseteq Run \X Source
<1>1. IdleCmd \in Cmd
  BY CmdStarts DEF IdleCmd
<1>2. log \in Seq(Row) /\ pend[p] \in Seq(Row)
  BY DEF TypeOK
<1>3. log' \in Seq(Row)
  BY <1>2 DEF Commit
<1>. QED
  BY <1>1, <1>3 DEF TypeOK, Commit

(* Every step keeps every variable of its type. *)
LEMMA NextTypes == TypeOK /\ Running /\ InPlace /\ [Next]_vars => TypeOK'
<1>. SUFFICES ASSUME TypeOK, Running, InPlace, [Next]_vars
              PROVE  TypeOK'
  OBVIOUS
<1>. USE DEF world, history
<1>1. ASSUME NEW p \in Proc, NEW r \in Run, NEW b \in BOOLEAN, StartApply(p, r, b)
      PROVE  TypeOK'
  BY <1>1, CmdStarts DEF StartApply, TypeOK
<1>2. ASSUME NEW p \in Proc, NEW r \in Run, NEW b \in BOOLEAN, StartFinalize(p, r, b)
      PROVE  TypeOK'
  <2>1. Listing(r) \subseteq Entry
    BY InFlightType DEF Listing, TypeOK
  <2>. QED
    BY <1>2, <2>1, CmdStarts DEF StartFinalize, TypeOK
<1>3. ASSUME NEW p \in Proc, NEW r \in Run, StartRestore(p, r)
      PROVE  TypeOK'
  <2>1. Listing(r) \subseteq Entry
    BY InFlightType DEF Listing, TypeOK
  <2>. QED
    BY <1>3, <2>1, CmdStarts DEF StartRestore, TypeOK
<1>4. ASSUME NEW p \in Proc, SkipRow(p)
      PROVE  TypeOK'
  BY <1>4, CmdUpdates DEF SkipRow, TypeOK
<1>5. ASSUME NEW p \in Proc, CheckRow(p)
      PROVE  TypeOK'
  BY <1>5, CmdUpdates DEF CheckRow, TypeOK
<1>6. ASSUME NEW p \in Proc, RenameRow(p)
      PROVE  TypeOK'
  <2>. DEFINE s == RowSource(p)
              d == RowDest(p)
              e == [run |-> cmd[p].run, src |-> s, dst |-> d, at |-> clock]
  <2>1. s \in Source /\ d \in Dest /\ cmd[p].run \in Run
    BY <1>6, RowTypes DEF RenameRow
  <2>2. file[s] \in Content
    BY <1>6, <2>1 DEF RenameRow, TypeOK, Path
  <2>3. RowOf("stash_committed", e) \in Row
    BY <2>1, RowOfType DEF Entry, TypeOK
  <2>4. pend' \in [Proc -> Seq(Row)]
    <3>1. pend' = [pend EXCEPT ![p] = Append(@, RowOf("stash_committed", e))]
      BY <1>6 DEF RenameRow
    <3>. QED
      BY <2>3, <3>1 DEF TypeOK
  <2>5. file' \in [Path -> Content \cup {NoFile}]
    BY <1>6, <2>1, <2>2 DEF RenameRow, TypeOK, Path
  <2>6. stashed' \in [Content -> Entry \cup {None}] /\ touched' \in [Proc -> SUBSET Content]
    <3>1. e \in Entry
      BY <2>1 DEF Entry, TypeOK
    <3>. QED
      BY <1>6, <2>2, <3>1 DEF RenameRow, TypeOK
  <2>7. cmd' \in [Proc -> Cmd]
    BY <1>6, CmdUpdates DEF RenameRow, TypeOK
  <2>. QED
    BY <1>6, <2>4, <2>5, <2>6, <2>7 DEF RenameRow, TypeOK
<1>7. ASSUME NEW p \in Proc, RenameRaises(p) \/ Crash(p)
      PROVE  TypeOK'
  <2>1. crashes' \in Nat
    BY <1>7 DEF RenameRaises, Crash, TypeOK
  <2>. QED
    BY <1>7, <2>1, DiscardTypes DEF RenameRaises, Crash, TypeOK
<1>8. ASSUME NEW p \in Proc, EndApply(p) \/ EndEntries(p) \/ LockTimeout(p)
      PROVE  TypeOK'
  BY <1>8, DiscardTypes, CommitTypes DEF EndApply, EndEntries, LockTimeout, TypeOK
<1>9. ASSUME NEW p \in Proc, NEW e \in cmd[p].todo,
             SkipEntry(p, e) \/ EntryGone(p, e) \/ CheckEntry(p, e)
      PROVE  TypeOK'
  <2>1. e \in Entry
    BY DEF TypeOK, Cmd
  <2>2. \A x \in {"next", "checked", "done", "failed"} :
          Leave(p, e, x) => cmd' \in [Proc -> Cmd]
    <3>1. SUFFICES ASSUME NEW x \in {"next", "checked", "done", "failed"}, Leave(p, e, x)
                   PROVE  cmd' \in [Proc -> Cmd]
      OBVIOUS
    <3>2. cmd' = [cmd EXCEPT ![p] = [cmd[p] EXCEPT !.todo = @ \ {e}, !.step = x,
                                        !.cur = IF x = "next" THEN None ELSE e]]
      BY <3>1 DEF Leave
    <3>. QED
      BY <2>1, <3>2, CmdUpdates DEF TypeOK
  <2>3. cmd' \in [Proc -> Cmd]
    BY <1>9, <2>2 DEF SkipEntry, EntryGone, CheckEntry
  <2>. QED
    BY <1>9, <2>3 DEF SkipEntry, EntryGone, CheckEntry, TypeOK
<1>10. ASSUME NEW p \in Proc, EntryFails(p) \/ UnlinkEntry(p) \/ RestoreEntry(p)
       PROVE  TypeOK'
  <2>. DEFINE e == cmd[p].cur
  <2>1. e \in Entry
    BY <1>10 DEF Running, EntryFails, UnlinkEntry, RestoreEntry
  <2>2. e.dst \in Path /\ e.src \in Path /\ Key(e) \in Run \X Source
    BY <2>1 DEF Entry, Path, Key
  <2>3. cmd' \in [Proc -> Cmd]
    <3>1. PICK x \in {"failed", "done"} : cmd' = [cmd EXCEPT ![p] = [cmd[p] EXCEPT !.step = x]]
      BY <1>10 DEF EntryFails, UnlinkEntry, RestoreEntry, Takes
    <3>. QED
      BY <3>1, CmdUpdates DEF TypeOK
  <2>4. CASE EntryFails(p)
    BY <2>3, <2>4 DEF EntryFails, TypeOK
  <2>5. CASE UnlinkEntry(p) \/ RestoreEntry(p)
    <3>1. file[e.dst] \in Content
      BY <2>2, <2>5 DEF TypeOK, UnlinkEntry, RestoreEntry
    <3>2. touched' = [touched EXCEPT ![p] = @ \cup {file[e.dst]}]
      BY <2>5 DEF UnlinkEntry, RestoreEntry, Takes
    <3>3. \/ file' = [file EXCEPT ![e.dst] = NoFile]
          \/ file' = [file EXCEPT ![e.src] = file[e.dst], ![e.dst] = NoFile]
      BY <2>5 DEF UnlinkEntry, RestoreEntry
    <3>4. file' \in [Path -> Content \cup {NoFile}]
      BY <2>2, <3>1, <3>3 DEF TypeOK
    <3>5. touched' \in [Proc -> SUBSET Content]
      BY <3>1, <3>2 DEF TypeOK
    <3>6. torn' \subseteq Run \X Source
      <4>1. e.dst \in Dest /\ file[e.dst] # NoFile
        BY <2>1, <2>5 DEF Entry, UnlinkEntry, RestoreEntry
      <4>2. PICK x \in Entry : x = stashed[file[e.dst]]
        BY <4>1 DEF InPlace
      <4>3. Key(x) \in Run \X Source
        BY DEF Key, Entry
      <4>4. torn' = torn \cup ({Key(x)} \ {Key(e)})
        BY <2>5, <4>2 DEF UnlinkEntry, RestoreEntry, Takes
      <4>. QED
        BY <4>3, <4>4 DEF TypeOK
    <3>. QED
      BY <2>3, <2>5, <3>4, <3>5, <3>6 DEF UnlinkEntry, RestoreEntry, TypeOK
  <2>. QED
    BY <1>10, <2>4, <2>5
<1>11. ASSUME NEW p \in Proc, AppendEntry(p)
       PROVE  TypeOK'
  <2>1. cmd[p].cur \in Entry
    BY <1>11 DEF Running, AppendEntry
  <2>2. \A act \in Closing : RowOf(act, cmd[p].cur) \in Row
    BY <2>1, RowOfType
  <2>3. pend' \in [Proc -> Seq(Row)]
    BY <1>11, <2>2 DEF AppendEntry, TypeOK, Closing
  <2>4. cmd' \in [Proc -> Cmd]
    BY <1>11, CmdUpdates DEF AppendEntry, TypeOK
  <2>. QED
    BY <1>11, <2>3, <2>4 DEF AppendEntry, TypeOK
<1>12. ASSUME NEW s \in Source, CreateFile(s)
       PROVE  TypeOK'
  <2>1. edits' \in 0..MaxEdits
    BY <1>12, StashAssumption DEF CreateFile, TypeOK, StashAssumption
  <2>2. <<s, edits + 1>> \in Content
    BY <1>12, <2>1 DEF CreateFile, Content
  <2>3. file' \in [Path -> Content \cup {NoFile}]
    BY <1>12, <2>2 DEF CreateFile, TypeOK, Path
  <2>. QED
    BY <1>12, <2>1, <2>3 DEF CreateFile, TypeOK
<1>13. CASE Tick
  <2>1. clock' \in Nat
    BY <1>13 DEF Tick, TypeOK
  <2>. QED
    BY <1>13, <2>1 DEF Tick, TypeOK
<1>14. CASE UNCHANGED vars
  BY <1>14 DEF vars, TypeOK
<1>. QED
  BY <1>1, <1>2, <1>3, <1>4, <1>5, <1>6, <1>7, <1>8, <1>9, <1>10, <1>11, <1>12, <1>13, <1>14, RunsGiven
  DEF Next, Command

(* Every step keeps the lock with the apply that took it. *)
LEMMA NextRunning == TypeOK /\ Running /\ [Next]_vars => Running'
<1>. SUFFICES ASSUME TypeOK, Running, [Next]_vars, NEW q \in Proc
              PROVE  /\ Applying(q)' => cmd'[q].run \in Run /\ lock' = q
                                         /\ cmd'[q].step \in {"next", "checked"}
                     /\ cmd'[q].step \in {"done", "failed"} =>
                          cmd'[q].cur \in Entry /\ cmd'[q].kind \in {"finalize", "restore"}
                     /\ cmd'[q].kind \in {"finalize", "restore"} /\ cmd'[q].step = "checked" =>
                          cmd'[q].cur \in Entry
  BY DEF Running, Applying, Checked
<1>. DEFINE Goal == /\ Applying(q)' => cmd'[q].run \in Run /\ lock' = q
                                         /\ cmd'[q].step \in {"next", "checked"}
                    /\ cmd'[q].step \in {"done", "failed"} =>
                         cmd'[q].cur \in Entry /\ cmd'[q].kind \in {"finalize", "restore"}
                    /\ cmd'[q].kind \in {"finalize", "restore"} /\ cmd'[q].step = "checked" =>
                         cmd'[q].cur \in Entry
<1>0. /\ cmd \in [Proc -> Cmd]
      /\ None \notin Proc
  BY StashAssumption DEF TypeOK, StashAssumption
<1>. USE <1>0 DEF Running, Applying, Checked
<1>1. ASSUME NEW p \in Proc, NEW r \in Run, NEW b \in BOOLEAN,
             StartApply(p, r, b) \/ StartFinalize(p, r, b) \/ StartRestore(p, r)
      PROVE  Goal
  BY <1>1 DEF StartApply, StartFinalize, StartRestore, Started
<1>2. ASSUME NEW p \in Proc, SkipRow(p) \/ CheckRow(p) \/ RenameRow(p)
      PROVE  Goal
  BY <1>2 DEF SkipRow, CheckRow, RenameRow, MoreRows, Cmd
<1>3. ASSUME NEW p \in Proc,
             RenameRaises(p) \/ Crash(p) \/ EndApply(p) \/ EndEntries(p) \/ LockTimeout(p)
      PROVE  Goal
  <2>1. cmd' = [cmd EXCEPT ![p] = IdleCmd] /\ lock' = IF lock = p THEN None ELSE lock
    BY <1>3 DEF RenameRaises, Crash, EndApply, EndEntries, LockTimeout, Commit, Discard
  <2>. QED
    BY <2>1 DEF IdleCmd, Started
<1>4. ASSUME NEW p \in Proc, NEW e \in cmd[p].todo,
             SkipEntry(p, e) \/ EntryGone(p, e) \/ CheckEntry(p, e)
      PROVE  Goal
  <2>1. e \in Entry
    BY DEF Cmd
  <2>2. cmd[p].kind \in {"finalize", "restore"} /\ lock' = lock
    BY <1>4 DEF SkipEntry, EntryGone, CheckEntry, Visits
  <2>3. PICK x \in {"next", "checked", "done", "failed"} : Leave(p, e, x)
    BY <1>4 DEF SkipEntry, EntryGone, CheckEntry
  <2>. QED
    BY <2>1, <2>2, <2>3 DEF Leave, Cmd
<1>5. ASSUME NEW p \in Proc, EntryFails(p) \/ UnlinkEntry(p) \/ RestoreEntry(p)
      PROVE  Goal
  <2>1. PICK x \in {"failed", "done"} : cmd' = [cmd EXCEPT ![p] = [cmd[p] EXCEPT !.step = x]]
    BY <1>5 DEF EntryFails, UnlinkEntry, RestoreEntry, Takes, Checked
  <2>2. cmd[p].kind \in {"finalize", "restore"} /\ cmd[p].cur \in Entry /\ lock' = lock
    BY <1>5 DEF EntryFails, UnlinkEntry, RestoreEntry
  <2>. QED
    BY <2>1, <2>2 DEF Cmd
<1>6. ASSUME NEW p \in Proc, AppendEntry(p)
      PROVE  Goal
  BY <1>6 DEF AppendEntry, Cmd
<1>7. ASSUME NEW s \in Source, CreateFile(s)
      PROVE  Goal
  BY <1>7 DEF CreateFile
<1>8. CASE Tick \/ UNCHANGED vars
  BY <1>8 DEF Tick, vars
<1>. QED
  BY <1>1, <1>2, <1>3, <1>4, <1>5, <1>6, <1>7, <1>8, RunsGiven DEF Next, Command

-----------------------------------------------------------------------------
(* The write lock of an apply keeps its check good until its rename. *)

(* Steps that leave an apply as it is and put nothing at a destination.       *)
LEMMA GuardKept ==
  ASSUME Guarded, NEW q \in Proc, cmd'[q] = cmd[q],
         \A d \in Dest : file[d] = NoFile => file'[d] = NoFile,
         TypeOK, Running
  PROVE  Applying(q)' /\ cmd'[q].step = "checked" =>
           MoreRows(q)' /\ (file[RowDest(q)] = NoFile)'
<1>. SUFFICES ASSUME Applying(q)', cmd'[q].step = "checked"
              PROVE  MoreRows(q)' /\ (file[RowDest(q)] = NoFile)'
  OBVIOUS
<1>1. MoreRows(q) /\ file[RowDest(q)] = NoFile
  BY DEF Guarded, Applying
<1>2. RowDest(q) \in Dest
  BY <1>1, RowTypes
<1>3. RowDest(q)' = RowDest(q) /\ MoreRows(q)'
  BY <1>1 DEF RowDest, RowSource, MoreRows
<1>. QED
  BY <1>1, <1>2, <1>3

(* Between an apply's check and its rename no step undoes what it checked. *)
LEMMA NextGuarded == TypeOK /\ Running /\ Guarded /\ [Next]_vars => Guarded'
<1>. SUFFICES ASSUME TypeOK, Running, Guarded, [Next]_vars, NEW q \in Proc
              PROVE  Applying(q)' /\ cmd'[q].step = "checked" =>
                       MoreRows(q)' /\ (file[RowDest(q)] = NoFile)'
  BY DEF Guarded, Applying
<1>. DEFINE Goal == Applying(q)' /\ cmd'[q].step = "checked" =>
                      MoreRows(q)' /\ (file[RowDest(q)] = NoFile)'
<1>. DEFINE NoNewDest == \A d \in Dest : file[d] = NoFile => file'[d] = NoFile
<1>0. /\ cmd \in [Proc -> Cmd] /\ file \in [Path -> Content \cup {NoFile}]
      /\ None \notin Proc /\ Source \cap Dest = {} /\ Path = Source \cup Dest
  BY StashAssumption DEF TypeOK, StashAssumption, Path
<1>1. ASSUME NEW p \in Proc, NEW r \in Run, NEW b \in BOOLEAN,
             StartApply(p, r, b) \/ StartFinalize(p, r, b) \/ StartRestore(p, r)
      PROVE  Goal
  <2>1. file' = file /\ cmd'[p].step = "next" /\ (p # q => cmd'[q] = cmd[q])
    BY <1>0, <1>1 DEF StartApply, StartFinalize, StartRestore, Started
  <2>. QED
    BY <2>1, GuardKept
<1>2. ASSUME NEW p \in Proc, SkipRow(p)
      PROVE  Goal
  <2>1. file' = file /\ cmd'[p].step = "next" /\ (p # q => cmd'[q] = cmd[q])
    BY <1>0, <1>2 DEF SkipRow, Cmd
  <2>. QED
    BY <2>1, GuardKept
<1>3. ASSUME NEW p \in Proc, CheckRow(p)
      PROVE  Goal
  <2>1. file' = file /\ cmd' = [cmd EXCEPT ![p].step = "checked"]
        /\ MoreRows(p) /\ file[RowDest(p)] = NoFile
    BY <1>3 DEF CheckRow
  <2>2. CASE p = q
    BY <1>0, <2>1, <2>2 DEF MoreRows, RowDest, RowSource, Cmd
  <2>3. CASE p # q
    BY <1>0, <2>1, <2>3, GuardKept
  <2>. QED
    BY <2>2, <2>3
<1>4. ASSUME NEW p \in Proc, RenameRow(p)
      PROVE  Goal
  <2>1. cmd'[p].step = "next" /\ (p # q => cmd'[q] = cmd[q])
    BY <1>0, <1>4 DEF RenameRow, Cmd
  <2>2. CASE p # q
    <3>1. lock = p
      BY <1>4 DEF RenameRow, MoreRows, Running, Applying
    <3>. QED
      BY <2>1, <2>2, <3>1 DEF Running, Applying
  <2>. QED
    BY <2>1, <2>2
<1>5. ASSUME NEW p \in Proc,
             RenameRaises(p) \/ Crash(p) \/ EndApply(p) \/ EndEntries(p) \/ LockTimeout(p)
      PROVE  Goal
  <2>1. cmd' = [cmd EXCEPT ![p] = IdleCmd] /\ file' = file
    BY <1>5 DEF RenameRaises, Crash, EndApply, EndEntries, LockTimeout, Commit, Discard
  <2>2. cmd'[p].step = "next" /\ (p # q => cmd'[q] = cmd[q])
    BY <1>0, <2>1 DEF IdleCmd, Started
  <2>. QED
    BY <2>1, <2>2, GuardKept
<1>6. ASSUME NEW p \in Proc, NEW e \in cmd[p].todo,
             SkipEntry(p, e) \/ EntryGone(p, e) \/ CheckEntry(p, e)
      PROVE  Goal
  <2>1. cmd[p].kind \in {"finalize", "restore"}
    BY <1>6 DEF SkipEntry, EntryGone, CheckEntry, Visits
  <2>2. PICK x \in {"next", "checked", "done", "failed"} : Leave(p, e, x)
    BY <1>6 DEF SkipEntry, EntryGone, CheckEntry
  <2>3. cmd'[p].kind = cmd[p].kind /\ (p # q => cmd'[q] = cmd[q])
    BY <1>0, <2>2 DEF Leave, Cmd
  <2>4. NoNewDest
    BY <1>0, <1>6 DEF SkipEntry, EntryGone, CheckEntry
  <2>. QED
    BY <2>1, <2>3, <2>4, GuardKept DEF Applying
<1>7. ASSUME NEW p \in Proc, EntryFails(p) \/ UnlinkEntry(p) \/ RestoreEntry(p)
      PROVE  Goal
  <2>1. PICK x \in {"failed", "done"} : cmd' = [cmd EXCEPT ![p] = [cmd[p] EXCEPT !.step = x]]
    BY <1>7 DEF EntryFails, UnlinkEntry, RestoreEntry, Takes
  <2>2. cmd[p].kind \in {"finalize", "restore"} /\ cmd[p].cur \in Entry
    BY <1>7 DEF EntryFails, UnlinkEntry, RestoreEntry, Running, Checked
  <2>3. cmd'[p].kind = cmd[p].kind /\ (p # q => cmd'[q] = cmd[q])
    BY <1>0, <2>1 DEF Cmd
  <2>4. NoNewDest
    <3>1. \/ file' = file
          \/ file' = [file EXCEPT ![cmd[p].cur.dst] = NoFile]
          \/ file' = [file EXCEPT ![cmd[p].cur.src] = file[cmd[p].cur.dst],
                                  ![cmd[p].cur.dst] = NoFile]
      BY <1>7 DEF EntryFails, UnlinkEntry, RestoreEntry
    <3>2. cmd[p].cur.src \in Source /\ cmd[p].cur.dst \in Dest
      BY <2>2 DEF Entry
    <3>. QED
      BY <1>0, <3>1, <3>2
  <2>. QED
    BY <2>2, <2>3, <2>4, GuardKept DEF Applying
<1>8. ASSUME NEW p \in Proc, AppendEntry(p)
      PROVE  Goal
  <2>1. file' = file /\ cmd'[p].step = "next" /\ (p # q => cmd'[q] = cmd[q])
    BY <1>0, <1>8 DEF AppendEntry, Cmd
  <2>. QED
    BY <2>1, GuardKept
<1>9. ASSUME NEW s \in Source, CreateFile(s)
      PROVE  Goal
  <2>1. NoNewDest /\ cmd' = cmd
    BY <1>0, <1>9 DEF CreateFile
  <2>. QED
    BY <2>1, GuardKept
<1>10. CASE Tick \/ UNCHANGED vars
  <2>1. file' = file /\ cmd' = cmd
    BY <1>10 DEF Tick, vars
  <2>. QED
    BY <2>1, GuardKept
<1>. QED
  BY <1>1, <1>2, <1>3, <1>4, <1>5, <1>6, <1>7, <1>8, <1>9, <1>10, RunsGiven DEF Next, Command

-----------------------------------------------------------------------------
(* Where files are, and where they were last stashed. *)

(* A step leaves files where they are, stashes one, puts one back, removes    *)
(* one, or makes a new one.                                                   *)
LEMMA FileSteps ==
  ASSUME TypeOK, Running, [Next]_vars
  PROVE  \/ file' = file /\ edits' = edits /\ stashed' = stashed
         \/ \E p \in Proc : RenameRow(p)
         \/ \E p \in Proc : UnlinkEntry(p)
         \/ \E p \in Proc : RestoreEntry(p)
         \/ \E s \in Source : CreateFile(s)
<1>. DEFINE Same == file' = file /\ edits' = edits /\ stashed' = stashed
<1>1. ASSUME NEW p \in Proc, NEW r \in Run, NEW b \in BOOLEAN,
             StartApply(p, r, b) \/ StartFinalize(p, r, b) \/ StartRestore(p, r)
      PROVE  Same
  BY <1>1 DEF StartApply, StartFinalize, StartRestore, world, history
<1>2. ASSUME NEW p \in Proc, SkipRow(p) \/ CheckRow(p) \/ EntryFails(p) \/ AppendEntry(p)
      PROVE  Same
  BY <1>2 DEF SkipRow, CheckRow, EntryFails, AppendEntry, world, history
<1>3. ASSUME NEW p \in Proc, RenameRaises(p) \/ EndApply(p) \/ LockTimeout(p) \/ EndEntries(p) \/ Crash(p)
      PROVE  Same
  BY <1>3 DEF RenameRaises, EndApply, LockTimeout, EndEntries, Crash, world
<1>4. ASSUME NEW p \in Proc, NEW e \in cmd[p].todo, SkipEntry(p, e) \/ EntryGone(p, e) \/ CheckEntry(p, e)
      PROVE  Same
  BY <1>4 DEF SkipEntry, EntryGone, CheckEntry, world, history
<1>5. CASE Tick \/ UNCHANGED vars
  BY <1>5 DEF Tick, vars, world, history
<1>. QED
  BY <1>1, <1>2, <1>3, <1>4, <1>5, RunsGiven DEF Next, Command

(* The types of paths and of what is there.                                   *)
LEMMA FileFacts ==
  ASSUME TypeOK
  PROVE  /\ file \in [Path -> Content \cup {NoFile}] /\ stashed \in [Content -> Entry \cup {None}]
         /\ cmd \in [Proc -> Cmd] /\ edits \in Nat
         /\ Source \cap Dest = {} /\ Path = Source \cup Dest /\ NoFile \notin Content /\ None \notin Entry
BY StashAssumption, PathsApart DEF TypeOK, StashAssumption, Path

LEMMA NextFresh == TypeOK /\ Running /\ Fresh /\ [Next]_vars => Fresh'
<1>. SUFFICES ASSUME TypeOK, Running, Fresh, [Next]_vars
              PROVE  Fresh'
  OBVIOUS
<1>0. /\ file \in [Path -> Content \cup {NoFile}] /\ edits \in Nat
      /\ Source \subseteq Path /\ Dest \subseteq Path
  BY FileFacts
<1>1. CASE file' = file /\ edits' = edits /\ stashed' = stashed
  BY <1>1 DEF Fresh
<1>2. ASSUME NEW x \in Path, NEW y \in Path, edits' = edits, stashed' = stashed,
             file' = [file EXCEPT ![y] = file[x], ![x] = NoFile]
      PROVE  Fresh'
  BY <1>0, <1>2 DEF Fresh
<1>3. ASSUME NEW x \in Path, edits' = edits, stashed' = stashed, file' = [file EXCEPT ![x] = NoFile]
      PROVE  Fresh'
  BY <1>0, <1>3 DEF Fresh
<1>4. ASSUME NEW s \in Source, CreateFile(s)
      PROVE  Fresh'
  <2>1. file' = [file EXCEPT ![s] = <<s, edits + 1>>] /\ edits' = edits + 1 /\ stashed' = stashed
    BY <1>4 DEF CreateFile, history
  <2>2. PICK n \in Nat : n = edits /\ n < n + 1 /\ \A k \in Nat : k <= n => k <= n + 1
    BY <1>0
  <2>3. \A x \in Path : file[x] # NoFile => file[x][2] \in Nat /\ file[x][2] <= n
    BY <1>0, <2>2 DEF Fresh, Content
  <2>4. \A x \in Path : file[x] # NoFile => file[x] # <<s, n + 1>>
    BY <2>2, <2>3
  <2>5. /\ \A x, y \in Path : file'[x] # NoFile /\ file'[x] = file'[y] => x = y
        /\ \A x \in Path : file'[x] # NoFile => file'[x][2] <= edits'
    BY <1>0, <2>1, <2>2, <2>3, <2>4 DEF Fresh
  <2>6. ASSUME NEW c \in Content, c[2] > edits'
        PROVE  stashed'[c] = None
    <3>1. c[2] \in Nat
      BY DEF Content
    <3>2. c[2] > edits
      BY <1>0, <2>1, <2>6, <3>1
    <3>. QED
      BY <2>1, <3>2 DEF Fresh
  <2>. QED
    BY <2>5, <2>6 DEF Fresh
<1>5. ASSUME NEW p \in Proc, RenameRow(p)
      PROVE  Fresh'
  <2>1. PICK x \in Path, y \in Path : x = RowSource(p) /\ y = RowDest(p)
    BY <1>0, <1>5, RowTypes DEF RenameRow
  <2>2. PICK e : stashed' = [stashed EXCEPT ![file[x]] = e]
    BY <1>5, <2>1 DEF RenameRow
  <2>3. file' = [file EXCEPT ![y] = file[x], ![x] = NoFile] /\ edits' = edits /\ file[x] # NoFile
    BY <1>5, <2>1 DEF RenameRow, world
  <2>4. /\ \A u, v \in Path : file'[u] # NoFile /\ file'[u] = file'[v] => u = v
        /\ \A u \in Path : file'[u] # NoFile => file'[u][2] <= edits'
    BY <1>0, <2>3 DEF Fresh
  <2>5. ASSUME NEW c \in Content, c[2] > edits'
        PROVE  stashed'[c] = None
    <3>1. file[x] \in Content /\ file[x][2] <= edits /\ file[x][2] \in Nat /\ c[2] \in Nat
      BY <1>0, <2>3 DEF Fresh, Content
    <3>2. c # file[x]
      BY <1>0, <2>3, <2>5, <3>1
    <3>3. stashed[c] = None
      BY <2>3, <2>5 DEF Fresh
    <3>. QED
      BY <2>2, <3>2, <3>3, FileFacts
  <2>. QED
    BY <2>4, <2>5 DEF Fresh
<1>6. ASSUME NEW p \in Proc, UnlinkEntry(p) \/ RestoreEntry(p)
      PROVE  Fresh'
  <2>1. cmd[p].cur.src \in Path /\ cmd[p].cur.dst \in Path
    BY <1>0, <1>6 DEF UnlinkEntry, RestoreEntry, Running, Entry
  <2>. QED
    BY <1>2, <1>3, <1>6, <2>1 DEF UnlinkEntry, RestoreEntry, world
<1>. QED
  BY <1>1, <1>4, <1>5, <1>6, FileSteps

(* Only a rename puts a file into the stash, and records where. *)
LEMMA NextInPlace == TypeOK /\ Running /\ Fresh /\ InPlace /\ [Next]_vars => InPlace'
<1>. SUFFICES ASSUME TypeOK, Running, Fresh, InPlace, [Next]_vars
              PROVE  InPlace'
  OBVIOUS
<1>1. CASE file' = file /\ edits' = edits /\ stashed' = stashed
  BY <1>1 DEF InPlace
<1>2. ASSUME NEW p \in Proc, RenameRow(p)
      PROVE  InPlace'
  <2>1. PICK x \in Source, y \in Dest : x = RowSource(p) /\ y = RowDest(p)
    BY <1>2, RowTypes DEF RenameRow
  <2>2. PICK e \in Entry : e.dst = y /\ stashed' = [stashed EXCEPT ![file[x]] = e]
    <3>1. cmd[p].run \in Run /\ clock \in Nat
      BY <1>2, RowTypes DEF RenameRow, TypeOK
    <3>2. [run |-> cmd[p].run, src |-> x, dst |-> y, at |-> clock] \in Entry
      BY <3>1 DEF Entry
    <3>. QED
      BY <1>2, <2>1, <3>2 DEF RenameRow
  <2>3. file' = [file EXCEPT ![y] = file[x], ![x] = NoFile] /\ file[x] # NoFile
    BY <1>2, <2>1 DEF RenameRow
  <2>4. file[x] \in Content
    BY <2>3, FileFacts
  <2>. SUFFICES ASSUME NEW d \in Dest, file'[d] # NoFile
                PROVE  stashed'[file'[d]] \in Entry /\ stashed'[file'[d]].dst = d
    BY DEF InPlace
  <2>5. CASE d = y
    BY <2>2, <2>3, <2>4, <2>5, FileFacts
  <2>6. CASE d # y
    <3>1. file'[d] = file[d] /\ file[d] # file[x] /\ file[d] \in Content
      BY <2>3, <2>6, FileFacts DEF Fresh
    <3>2. stashed'[file'[d]] = stashed[file[d]]
      BY <2>2, <3>1, FileFacts
    <3>. QED
      BY <3>1, <3>2 DEF InPlace
  <2>. QED
    BY <2>5, <2>6
<1>3. ASSUME NEW p \in Proc, UnlinkEntry(p) \/ RestoreEntry(p)
      PROVE  InPlace'
  <2>1. cmd[p].cur.src \in Source /\ cmd[p].cur.dst \in Dest /\ stashed' = stashed
    BY <1>3 DEF UnlinkEntry, RestoreEntry, Running, Entry
  <2>2. \A d \in Dest : file'[d] \in {file[d], NoFile}
    BY <1>3, <2>1, FileFacts DEF UnlinkEntry, RestoreEntry
  <2>. QED
    BY <2>1, <2>2 DEF InPlace
<1>4. ASSUME NEW s \in Source, CreateFile(s)
      PROVE  InPlace'
  <2>1. stashed' = stashed /\ \A d \in Dest : file'[d] = file[d]
    BY <1>4, FileFacts DEF CreateFile, history
  <2>. QED
    BY <2>1 DEF InPlace
<1>. QED
  BY <1>1, <1>2, <1>3, <1>4, FileSteps

-----------------------------------------------------------------------------
(* The invariant. *)

(* The invariant holds in every state, whichever commands overlap. *)
THEOREM Inductive == Spec => []IInv
<1>1. Init => IInv
  BY InitTypes DEF IInv
<1>2. IInv /\ [Next]_vars => IInv'
  BY NextTypes, NextRunning, NextGuarded, NextFresh, NextInPlace DEF IInv
<1>. QED
  BY <1>1, <1>2, PTL DEF Spec

(* apply, finalize, restore, crashes and other programs keep every variable of
   its type: a committed row names a run, a source and a destination. *)
THEOREM TypeCorrect == Spec => []TypeOK
<1>1. IInv => TypeOK
  BY DEF IInv
<1>. QED
  BY <1>1, Inductive, PTL

(* No apply renames over a file in the stash, with any number of commands     *)
(* running: the check of a row and its rename lie under one write lock.       *)
THEOREM NoClobber == Spec => ApplyNeverClobbers
<1>1. ASSUME IInv, [Next]_vars, NEW q \in Proc, cmd[q].kind = "apply", file' # file,
             cmd'[q] # cmd[q], NEW d \in Dest, file[d] # NoFile
      PROVE  file'[d] = file[d]
  <2>0. /\ cmd \in [Proc -> Cmd] /\ file \in [Path -> Content \cup {NoFile}]
        /\ Source \cap Dest = {} /\ Path = Source \cup Dest
    BY <1>1, StashAssumption DEF IInv, TypeOK, StashAssumption, Path
  <2>1. ASSUME NEW p \in Proc, RenameRow(p)
        PROVE  file'[d] = file[d]
    <3>1. RowSource(p) \in Source /\ RowDest(p) \in Dest
      BY <1>1, <2>1, RowTypes DEF RenameRow, IInv
    <3>2. file[RowDest(p)] = NoFile
      BY <1>1, <2>1 DEF RenameRow, MoreRows, IInv, Guarded, Applying
    <3>3. file' = [file EXCEPT ![RowDest(p)] = file[RowSource(p)], ![RowSource(p)] = NoFile]
      BY <2>1 DEF RenameRow
    <3>. QED
      BY <1>1, <2>0, <3>1, <3>2, <3>3
  <2>3. ASSUME NEW p \in Proc, UnlinkEntry(p) \/ RestoreEntry(p)
        PROVE  FALSE
    <3>1. p # q
      BY <1>1, <2>3 DEF UnlinkEntry, RestoreEntry, Checked
    <3>. QED
      BY <1>1, <2>0, <2>3, <3>1 DEF UnlinkEntry, RestoreEntry, Takes
  <2>4. ASSUME NEW s \in Source, CreateFile(s)
        PROVE  FALSE
    BY <1>1, <2>4 DEF CreateFile
  <2>. QED
    BY <1>1, <2>1, <2>3, <2>4
    DEF Next, Command, vars, StartApply, StartFinalize, StartRestore, SkipRow, CheckRow,
        RenameRaises, EndApply, SkipEntry, EntryGone, EntryFails, CheckEntry, AppendEntry,
        LockTimeout, EndEntries, Crash, Tick
<1>2. IInv /\ [Next]_vars =>
        [\A p \in Proc :
           cmd[p].kind = "apply" /\ file' # file /\ cmd'[p] # cmd[p] =>
             \A d \in Dest : file[d] # NoFile => file'[d] = file[d]]_vars
  BY <1>1
<1>. QED
  BY <1>2, Inductive, PTL DEF ApplyNeverClobbers, Spec

-----------------------------------------------------------------------------
(* Every entry a command works on was opened by a committed row. *)

Opened(rows, x) ==
  \E i \in 1..Len(rows) :
    rows[i].act = "stash_committed" /\ SameKey(rows[i], x) /\ rows[i].dst = x.dst

(* What a command has listed, or works on, was opened. *)
InHand ==
  \A p \in Proc :
    /\ \A e \in cmd[p].todo : Opened(log, e)
    /\ cmd[p].kind # "apply" /\ cmd[p].step # "next" => Opened(log, cmd[p].cur)

(* So was what a row not yet committed closes. *)
PendingOpened ==
  \A p \in Proc : \A i \in 1..Len(pend[p]) :
    pend[p][i].act \in Closing => Opened(log, pend[p][i])

(* What was opened stays opened when rows are added. *)
LEMMA OpenedGrows ==
  ASSUME NEW s \in Seq(Row), NEW t \in Seq(Row), NEW x, Opened(s, x)
  PROVE  Opened(s \o t, x)
<1>1. PICK i \in 1..Len(s) :
        s[i].act = "stash_committed" /\ SameKey(s[i], x) /\ s[i].dst = x.dst
  BY DEF Opened
<1>2. i \in 1..Len(s \o t) /\ (s \o t)[i] = s[i]
  OBVIOUS
<1>. QED
  BY <1>1, <1>2 DEF Opened

(* list_stashes returns only what a stash_committed row opened. *)
LEMMA ListingOpened ==
  ASSUME NEW rows \in Seq(Row), NEW e \in InFlight(rows)
  PROVE  Opened(rows, e)
<1>1. PICK i \in 1..Len(rows) : rows[i].act = "stash_committed" /\ e = EntryOf(rows[i])
  BY DEF InFlight
<1>. QED
  BY <1>1 DEF Opened, EntryOf, SameKey

(* A row written for an opened entry is about what was opened. *)
LEMMA OpenedOfEntry ==
  ASSUME NEW rows \in Seq(Row), NEW e, NEW act, Opened(rows, e)
  PROVE  Opened(rows, RowOf(act, e))
BY DEF Opened, RowOf, SameKey

(* How a step changes the log and the rows not yet committed.                 *)
LEMMA LogSteps ==
  ASSUME TypeOK, [Next]_vars
  PROVE  \/ log' = log /\ pend' = pend
         \/ \E p \in Proc : log' = log /\ pend' = [pend EXCEPT ![p] = << >>]
         \/ \E p \in Proc : log' = log \o pend[p] /\ pend' = [pend EXCEPT ![p] = << >>]
         \/ \E p \in Proc : RenameRow(p)
         \/ \E p \in Proc : AppendEntry(p)
<1>1. ASSUME NEW p \in Proc,
             EndApply(p) \/ EndEntries(p) \/ LockTimeout(p) \/ Crash(p) \/ RenameRaises(p)
      PROVE  \/ log' = log /\ pend' = [pend EXCEPT ![p] = << >>]
             \/ log' = log \o pend[p] /\ pend' = [pend EXCEPT ![p] = << >>]
  BY <1>1 DEF EndApply, EndEntries, LockTimeout, Crash, RenameRaises, Commit, Discard
<1>2. ASSUME NEW p \in Proc, EntryFails(p) \/ UnlinkEntry(p) \/ RestoreEntry(p)
      PROVE  log' = log /\ pend' = pend
  BY <1>2 DEF EntryFails, UnlinkEntry, RestoreEntry
<1>3. ASSUME NEW p \in Proc, NEW r \in Run, NEW b \in BOOLEAN,
             StartApply(p, r, b) \/ StartFinalize(p, r, b) \/ StartRestore(p, r)
      PROVE  log' = log /\ pend' = pend
  BY <1>3 DEF StartApply, StartFinalize, StartRestore
<1>4. ASSUME NEW p \in Proc, SkipRow(p) \/ CheckRow(p)
      PROVE  log' = log /\ pend' = pend
  BY <1>4 DEF SkipRow, CheckRow
<1>5. ASSUME NEW p \in Proc, NEW e \in cmd[p].todo,
             SkipEntry(p, e) \/ EntryGone(p, e) \/ CheckEntry(p, e)
      PROVE  log' = log /\ pend' = pend
  BY <1>5 DEF SkipEntry, EntryGone, CheckEntry
<1>6. ASSUME NEW s \in Source, CreateFile(s)
      PROVE  log' = log /\ pend' = pend
  BY <1>6 DEF CreateFile
<1>7. CASE Tick \/ UNCHANGED vars
  BY <1>7 DEF Tick, vars
<1>. QED
  BY <1>1, <1>2, <1>3, <1>4, <1>5, <1>6, <1>7, RunsGiven DEF Next, Command

(* Committed rows stay: what was opened stays opened.                         *)
LEMMA OpenedStays ==
  ASSUME TypeOK, [Next]_vars, NEW x, Opened(log, x)
  PROVE  Opened(log', x)
<1>1. log' = log \/ \E p \in Proc : log' = log \o pend[p]
  BY LogSteps DEF RenameRow, AppendEntry
<1>. QED
  BY <1>1, OpenedGrows DEF TypeOK

(* Every step keeps a command's entries opened ones. *)
LEMMA NextInHand == TypeOK /\ Running /\ InHand /\ [Next]_vars => InHand'
<1>. SUFFICES ASSUME TypeOK, Running, InHand, [Next]_vars, NEW q \in Proc
              PROVE  /\ \A e \in cmd'[q].todo : Opened(log, e)'
                     /\ cmd'[q].kind # "apply" /\ cmd'[q].step # "next" =>
                          Opened(log, cmd[q].cur)'
  BY DEF InHand
<1>. DEFINE Goal == /\ \A e \in cmd'[q].todo : Opened(log', e)
                    /\ cmd'[q].kind # "apply" /\ cmd'[q].step # "next" =>
                         Opened(log', cmd'[q].cur)
<1>0. /\ cmd \in [Proc -> Cmd]
      /\ \A x : Opened(log, x) => Opened(log', x)
  BY OpenedStays DEF TypeOK
<1>a. ASSUME cmd'[q] = cmd[q]
      PROVE  Goal
  BY <1>0, <1>a DEF InHand
<1>b. ASSUME cmd'[q].step = "next", cmd'[q].todo \subseteq cmd[q].todo
      PROVE  Goal
  BY <1>0, <1>b DEF InHand
<1>1. ASSUME NEW p \in Proc, NEW r \in Run, NEW b \in BOOLEAN,
             StartApply(p, r, b) \/ StartFinalize(p, r, b) \/ StartRestore(p, r)
      PROVE  Goal
  <2>1. PICK k \in {"apply", "finalize", "restore"}, f \in BOOLEAN, T \in {{}, Listing(r)} :
          cmd' = [cmd EXCEPT ![p] = Started(k, f, r, T)]
    BY <1>1 DEF StartApply, StartFinalize, StartRestore
  <2>2. \A e \in Listing(r) : Opened(log, e)
    BY ListingOpened DEF Listing, TypeOK
  <2>3. CASE p = q
    BY <1>0, <2>1, <2>2, <2>3 DEF Started
  <2>4. CASE p # q
    BY <1>0, <1>a, <2>1, <2>4
  <2>. QED
    BY <2>3, <2>4
<1>2. ASSUME NEW p \in Proc, SkipRow(p) \/ CheckRow(p) \/ RenameRow(p)
      PROVE  Goal
  <2>1. cmd'[p].kind = "apply" /\ cmd'[p].todo = cmd[p].todo /\ (p # q => cmd'[q] = cmd[q])
    BY <1>0, <1>2 DEF SkipRow, CheckRow, RenameRow, MoreRows, Cmd
  <2>. QED
    BY <1>0, <1>a, <2>1 DEF InHand
<1>3. ASSUME NEW p \in Proc,
             RenameRaises(p) \/ Crash(p) \/ EndApply(p) \/ EndEntries(p) \/ LockTimeout(p)
      PROVE  Goal
  <2>1. cmd' = [cmd EXCEPT ![p] = IdleCmd]
    BY <1>3 DEF RenameRaises, Crash, EndApply, EndEntries, LockTimeout, Commit, Discard
  <2>. QED
    BY <1>0, <1>a, <1>b, <2>1 DEF IdleCmd, Started
<1>4. ASSUME NEW p \in Proc, NEW e \in cmd[p].todo,
             SkipEntry(p, e) \/ EntryGone(p, e) \/ CheckEntry(p, e)
      PROVE  Goal
  <2>1. PICK x \in {"next", "checked", "done", "failed"} : Leave(p, e, x)
    BY <1>4 DEF SkipEntry, EntryGone, CheckEntry
  <2>2. /\ cmd'[p].todo \subseteq cmd[p].todo /\ cmd'[p].step = x
        /\ x # "next" => cmd'[p].cur = e
        /\ p # q => cmd'[q] = cmd[q]
    BY <1>0, <2>1 DEF Leave, Cmd
  <2>3. Opened(log', e)
    BY <1>0 DEF InHand
  <2>. QED
    BY <1>0, <1>a, <2>2, <2>3 DEF InHand
<1>5. ASSUME NEW p \in Proc, EntryFails(p) \/ UnlinkEntry(p) \/ RestoreEntry(p)
      PROVE  Goal
  <2>1. PICK x \in {"failed", "done"} : cmd' = [cmd EXCEPT ![p] = [cmd[p] EXCEPT !.step = x]]
    BY <1>5 DEF EntryFails, UnlinkEntry, RestoreEntry, Takes, Checked
  <2>2. cmd[p].kind # "apply" /\ cmd[p].step # "next"
    BY <1>5 DEF EntryFails, UnlinkEntry, RestoreEntry, Checked
  <2>3. /\ cmd'[p].todo = cmd[p].todo /\ cmd'[p].cur = cmd[p].cur
        /\ p # q => cmd'[q] = cmd[q]
    BY <1>0, <2>1 DEF Cmd
  <2>. QED
    BY <1>0, <1>a, <2>2, <2>3 DEF InHand
<1>6. ASSUME NEW p \in Proc, AppendEntry(p)
      PROVE  Goal
  <2>1. cmd'[p].step = "next" /\ cmd'[p].todo = cmd[p].todo /\ (p # q => cmd'[q] = cmd[q])
    BY <1>0, <1>6 DEF AppendEntry, Cmd
  <2>. QED
    BY <1>a, <1>b, <2>1
<1>7. ASSUME NEW s \in Source, CreateFile(s)
      PROVE  Goal
  BY <1>a, <1>7 DEF CreateFile
<1>8. CASE Tick \/ UNCHANGED vars
  BY <1>a, <1>8 DEF Tick, vars
<1>. QED
  BY <1>1, <1>2, <1>3, <1>4, <1>5, <1>6, <1>7, <1>8, RunsGiven DEF Next, Command

(* Every step adds closing rows only for entries that were opened. *)
LEMMA NextPendingOpened ==
  TypeOK /\ Running /\ InHand /\ PendingOpened /\ [Next]_vars => PendingOpened'
<1>. SUFFICES ASSUME TypeOK, Running, InHand, PendingOpened, [Next]_vars, NEW q \in Proc,
                     NEW i \in 1..Len(pend'[q]), pend'[q][i].act \in Closing
              PROVE  Opened(log', pend'[q][i])
  BY DEF PendingOpened
<1>0. /\ pend \in [Proc -> Seq(Row)]
      /\ \A x : Opened(log, x) => Opened(log', x)
  BY OpenedStays DEF TypeOK
<1>1. CASE pend'[q] = pend[q]
  BY <1>0, <1>1 DEF PendingOpened
<1>2. CASE pend'[q] = << >>
  BY <1>2
<1>3. ASSUME NEW p \in Proc, RenameRow(p)
      PROVE  Opened(log', pend'[q][i])
  <2>1. PICK e : pend' = [pend EXCEPT ![p] = Append(@, RowOf("stash_committed", e))]
    BY <1>3 DEF RenameRow
  <2>2. CASE p = q /\ i = Len(pend[q]) + 1
    <3>1. pend'[q][i].act = "stash_committed"
      BY <1>0, <2>1, <2>2 DEF RowOf
    <3>. QED
      BY <3>1 DEF Closing
  <2>3. CASE p = q /\ i # Len(pend[q]) + 1
    <3>1. i \in 1..Len(pend[q]) /\ pend'[q][i] = pend[q][i]
      BY <1>0, <2>1, <2>3
    <3>. QED
      BY <1>0, <3>1 DEF PendingOpened
  <2>. QED
    BY <1>0, <1>1, <2>1, <2>2, <2>3
<1>4. ASSUME NEW p \in Proc, AppendEntry(p)
      PROVE  Opened(log', pend'[q][i])
  <2>1. PICK act : \/ pend' = [pend EXCEPT ![p] = Append(@, RowOf(act, cmd[p].cur))]
                   \/ pend' = pend
    BY <1>4 DEF AppendEntry
  <2>2. CASE pend' = [pend EXCEPT ![p] = Append(@, RowOf(act, cmd[p].cur))] /\ p = q
    <3>1. Opened(log, cmd[p].cur)
      BY <1>4 DEF AppendEntry, InHand, Running
    <3>2. Opened(log', RowOf(act, cmd[p].cur))
      BY <1>0, <3>1, OpenedOfEntry DEF TypeOK
    <3>3. CASE i = Len(pend[q]) + 1
      BY <1>0, <2>2, <3>2, <3>3
    <3>4. CASE i # Len(pend[q]) + 1
      <4>1. i \in 1..Len(pend[q]) /\ pend'[q][i] = pend[q][i]
        BY <1>0, <2>2, <3>4
      <4>. QED
        BY <1>0, <4>1 DEF PendingOpened
    <3>. QED
      BY <3>3, <3>4
  <2>. QED
    BY <1>0, <1>1, <2>1, <2>2
<1>. QED
  BY <1>0, <1>1, <1>2, <1>3, <1>4, LogSteps

(* Every commit puts closing rows behind the rows that opened their entries. *)
LEMMA NextClosedWasOpened ==
  TypeOK /\ PendingOpened /\ ClosedWasOpened /\ [Next]_vars => ClosedWasOpened'
<1>. SUFFICES ASSUME TypeOK, PendingOpened, ClosedWasOpened, [Next]_vars,
                     NEW j \in 1..Len(log'), log'[j].act \in Closing
              PROVE  \E i \in 1..(j - 1) :
                       /\ log'[i].act = "stash_committed"
                       /\ SameKey(log'[i], log'[j]) /\ log'[i].dst = log'[j].dst
  BY DEF ClosedWasOpened
<1>1. log' = log \/ \E p \in Proc : log' = log \o pend[p]
  BY LogSteps DEF RenameRow, AppendEntry
<1>2. CASE log' = log
  BY <1>2 DEF ClosedWasOpened
<1>3. ASSUME NEW p \in Proc, log' = log \o pend[p]
      PROVE  \E i \in 1..(j - 1) :
               /\ log'[i].act = "stash_committed"
               /\ SameKey(log'[i], log'[j]) /\ log'[i].dst = log'[j].dst
  <2>0. log \in Seq(Row) /\ pend[p] \in Seq(Row) /\ Len(log) \in Nat
    BY DEF TypeOK
  <2>1. \A i \in 1..Len(log) : log'[i] = log[i]
    BY <1>3, <2>0
  <2>2. CASE j <= Len(log)
    <3>1. log'[j] = log[j] /\ j \in 1..Len(log)
      BY <2>0, <2>1, <2>2
    <3>2. PICK i \in 1..(j - 1) :
            /\ log[i].act = "stash_committed"
            /\ SameKey(log[i], log[j]) /\ log[i].dst = log[j].dst
      BY <3>1 DEF ClosedWasOpened
    <3>3. log'[i] = log[i]
      BY <2>0, <2>1, <2>2
    <3>. QED
      BY <3>1, <3>2, <3>3
  <2>3. CASE j > Len(log)
    <3>1. j - Len(log) \in 1..Len(pend[p]) /\ log'[j] = pend[p][j - Len(log)]
      BY <1>3, <2>0, <2>3
    <3>2. Opened(log, log'[j])
      BY <3>1 DEF PendingOpened
    <3>3. PICK i \in 1..Len(log) :
            log[i].act = "stash_committed" /\ SameKey(log[i], log'[j]) /\ log[i].dst = log'[j].dst
      BY <3>2 DEF Opened
    <3>4. i \in 1..(j - 1) /\ log'[i] = log[i]
      BY <2>0, <2>1, <2>3
    <3>. QED
      BY <3>3, <3>4
  <2>. QED
    BY <2>0, <2>2, <2>3
<1>. QED
  BY <1>1, <1>2, <1>3

(* What commands have in hand, and what they close, was opened.               *)
OpenInv == InHand /\ PendingOpened /\ ClosedWasOpened

LEMMA Opens == Spec => []OpenInv
<1>1. Init => OpenInv
  BY DEF Init, OpenInv, InHand, PendingOpened, ClosedWasOpened, IdleCmd, Started
<1>2. IInv /\ OpenInv /\ [Next]_vars => OpenInv'
  BY NextInHand, NextPendingOpened, NextClosedWasOpened DEF IInv, OpenInv
<1>. QED
  BY <1>1, <1>2, Inductive, PTL DEF Spec

(* Whatever commands overlap and however stale their listings, every closing  *)
(* row of the log follows a stash_committed row of its run, source and        *)
(* destination.                                                               *)
THEOREM NothingClosedUnopened == Spec => []ClosedWasOpened
<1>1. OpenInv => ClosedWasOpened
  BY DEF OpenInv
<1>. QED
  BY <1>1, Opens, PTL

-----------------------------------------------------------------------------
(* What restore puts where, for any map of files to paths in the stash: two   *)
(* files of one run that share a basename share a path.                       *)

(* Rows name the path in the stash that the manifest gives their file. *)
Addressed(rows) == \A i \in 1..Len(rows) : rows[i].dst = DestOf[<<rows[i].run, rows[i].src>>]

(* A file that was stashed is at the source path it came from, or at one that *)
(* shares its path in the stash.                                              *)
Belongs ==
  \A s \in Source : file[s] # NoFile =>
    IF stashed[file[s]] = None THEN Home(file[s]) = s
    ELSE stashed[file[s]].src = s \/ \E r \in Run : DestOf[<<r, s>>] = stashed[file[s]].dst

HomeInv == Addressed(log) /\ (\A p \in Proc : Addressed(pend[p])) /\ Belongs

LEMMA AddressedAppend ==
  ASSUME NEW rows \in Seq(Row), NEW row \in Row, Addressed(rows), row.dst = DestOf[<<row.run, row.src>>]
  PROVE  Addressed(Append(rows, row))
<1>. SUFFICES ASSUME NEW i \in 1..Len(Append(rows, row))
              PROVE  Append(rows, row)[i].dst = DestOf[<<Append(rows, row)[i].run, Append(rows, row)[i].src>>]
  BY DEF Addressed
<1>1. CASE i = Len(rows) + 1
  BY <1>1
<1>2. CASE i # Len(rows) + 1
  <2>1. i \in 1..Len(rows) /\ Append(rows, row)[i] = rows[i]
    BY <1>2
  <2>. QED
    BY <2>1 DEF Addressed
<1>. QED
  BY <1>1, <1>2

LEMMA AddressedConcat ==
  ASSUME NEW s \in Seq(Row), NEW t \in Seq(Row), Addressed(s), Addressed(t)
  PROVE  Addressed(s \o t)
<1>. SUFFICES ASSUME NEW i \in 1..Len(s \o t)
              PROVE  (s \o t)[i].dst = DestOf[<<(s \o t)[i].run, (s \o t)[i].src>>]
  BY DEF Addressed
<1>1. CASE i <= Len(s)
  <2>1. i \in 1..Len(s) /\ (s \o t)[i] = s[i]
    BY <1>1
  <2>. QED
    BY <2>1 DEF Addressed
<1>2. CASE i > Len(s)
  <2>1. PICK k \in 1..Len(t) : (s \o t)[i] = t[k]
    <3>1. i - Len(s) \in 1..Len(t) /\ (s \o t)[i] = t[i - Len(s)]
      BY <1>2
    <3>. QED
      BY <3>1
  <2>. QED
    BY <2>1 DEF Addressed
<1>3. i <= Len(s) \/ i > Len(s)
  OBVIOUS
<1>. QED
  BY <1>1, <1>2, <1>3

(* What a command has in hand is addressed like the row that opened it.       *)
LEMMA InHandAddressed ==
  ASSUME NEW e, Opened(log, e), Addressed(log)
  PROVE  e.dst = DestOf[<<e.run, e.src>>]
BY DEF Opened, Addressed, SameKey

(* Every step writes rows that are addressed.                                 *)
LEMMA NextAddressed ==
  ASSUME IInv, OpenInv, HomeInv, [Next]_vars
  PROVE  Addressed(log') /\ \A q \in Proc : Addressed(pend'[q])
<1>0. TypeOK /\ Running /\ InHand /\ Addressed(log) /\ (\A q \in Proc : Addressed(pend[q]))
      /\ log \in Seq(Row) /\ pend \in [Proc -> Seq(Row)]
  BY DEF IInv, OpenInv, HomeInv, TypeOK
<1>1. CASE log' = log /\ pend' = pend
  BY <1>0, <1>1
<1>e. Addressed(<< >>)
  BY DEF Addressed
<1>2. ASSUME NEW p \in Proc, log' = log \/ log' = log \o pend[p], pend' = [pend EXCEPT ![p] = << >>]
      PROVE  Addressed(log') /\ \A q \in Proc : Addressed(pend'[q])
  <2>1. Addressed(log')
    BY <1>0, <1>2, AddressedConcat
  <2>2. \A q \in Proc : pend'[q] \in {<< >>, pend[q]}
    BY <1>0, <1>2
  <2>. QED
    BY <1>0, <1>e, <2>1, <2>2
<1>3. ASSUME NEW p \in Proc, NEW row \in Row, log' = log, pend' = [pend EXCEPT ![p] = Append(pend[p], row)],
             row.dst = DestOf[<<row.run, row.src>>]
      PROVE  Addressed(log') /\ \A q \in Proc : Addressed(pend'[q])
  <2>1. Addressed(Append(pend[p], row))
    BY <1>0, <1>3, AddressedAppend
  <2>2. \A q \in Proc : pend'[q] \in {Append(pend[p], row), pend[q]}
    BY <1>0, <1>3
  <2>. QED
    BY <1>0, <1>3, <2>1, <2>2
<1>4. ASSUME NEW p \in Proc, RenameRow(p)
      PROVE  Addressed(log') /\ \A q \in Proc : Addressed(pend'[q])
  <2>. DEFINE e == [run |-> cmd[p].run, src |-> RowSource(p), dst |-> RowDest(p), at |-> clock]
              row == RowOf("stash_committed", e)
  <2>1. RowSource(p) \in Source /\ RowDest(p) \in Dest /\ cmd[p].run \in Run
    BY <1>0, <1>4, RowTypes DEF RenameRow
  <2>2. e \in Entry
    BY <1>0, <2>1 DEF Entry, TypeOK
  <2>3. row \in Row /\ row.dst = DestOf[<<row.run, row.src>>]
    BY <1>0, <2>2, RowOfType DEF RowOf, RowDest
  <2>4. log' = log /\ pend' = [pend EXCEPT ![p] = Append(pend[p], row)]
    BY <1>4 DEF RenameRow
  <2>. QED
    BY <1>3, <2>3, <2>4
<1>5. ASSUME NEW p \in Proc, AppendEntry(p)
      PROVE  Addressed(log') /\ \A q \in Proc : Addressed(pend'[q])
  <2>1. PICK act \in Closing :
          log' = log /\ pend' \in {pend, [pend EXCEPT ![p] = Append(pend[p], RowOf(act, cmd[p].cur))]}
    BY <1>5 DEF AppendEntry, Closing
  <2>2. cmd[p].cur \in Entry /\ Opened(log, cmd[p].cur)
    BY <1>0, <1>5 DEF AppendEntry, InHand, Running
  <2>3. RowOf(act, cmd[p].cur) \in Row
    BY <1>0, <2>2, RowOfType
  <2>4. RowOf(act, cmd[p].cur).dst = DestOf[<<RowOf(act, cmd[p].cur).run, RowOf(act, cmd[p].cur).src>>]
    BY <1>0, <2>2, InHandAddressed DEF RowOf
  <2>. QED
    BY <1>1, <1>3, <2>1, <2>3, <2>4
<1>. QED
  BY <1>0, <1>1, <1>2, <1>4, <1>5, LogSteps

(* Every step leaves files where they belong.                                 *)
LEMMA NextBelongs ==
  ASSUME IInv, OpenInv, HomeInv, [Next]_vars
  PROVE  Belongs'
<1>0. /\ TypeOK /\ Running /\ InHand /\ InPlace /\ Addressed(log) /\ Fresh /\ Belongs
      /\ file \in [Path -> Content \cup {NoFile}] /\ Source \cap Dest = {} /\ Path = Source \cup Dest
      /\ None \notin Entry
  BY FileFacts DEF IInv, OpenInv, HomeInv
<1>1. CASE file' = file /\ edits' = edits /\ stashed' = stashed
  BY <1>0, <1>1 DEF Belongs
<1>2. ASSUME NEW p \in Proc, RenameRow(p)
      PROVE  Belongs'
  <2>1. PICK x \in Source, y \in Dest : x = RowSource(p) /\ y = RowDest(p)
    BY <1>0, <1>2, RowTypes DEF RenameRow
  <2>2. PICK e : stashed' = [stashed EXCEPT ![file[x]] = e]
    BY <1>2, <2>1 DEF RenameRow
  <2>3. file' = [file EXCEPT ![y] = file[x], ![x] = NoFile]
    BY <1>2, <2>1 DEF RenameRow
  <2>. SUFFICES ASSUME NEW s \in Source, file'[s] # NoFile
                PROVE  IF stashed'[file'[s]] = None THEN Home(file'[s]) = s
                       ELSE \/ stashed'[file'[s]].src = s
                            \/ \E r \in Run : DestOf[<<r, s>>] = stashed'[file'[s]].dst
    BY DEF Belongs
  <2>4. file'[s] = file[s] /\ s # x /\ file[s] # file[x] /\ file[s] \in Content
    BY <1>0, <2>3 DEF Fresh
  <2>5. stashed'[file'[s]] = stashed[file[s]]
    BY <2>2, <2>4, <1>0, FileFacts
  <2>. QED
    BY <1>0, <2>4, <2>5 DEF Belongs
<1>3. ASSUME NEW p \in Proc, UnlinkEntry(p)
      PROVE  Belongs'
  <2>1. cmd[p].cur.dst \in Dest /\ stashed' = stashed /\ file' = [file EXCEPT ![cmd[p].cur.dst] = NoFile]
    BY <1>0, <1>3 DEF UnlinkEntry, Running, Entry
  <2>2. \A s \in Source : file'[s] = file[s]
    BY <1>0, <2>1
  <2>. QED
    BY <1>0, <2>1, <2>2 DEF Belongs
<1>4. ASSUME NEW p \in Proc, RestoreEntry(p)
      PROVE  Belongs'
  <2>. DEFINE e == cmd[p].cur
  <2>1. e \in Entry /\ Opened(log, e)
    BY <1>0, <1>4 DEF RestoreEntry, Checked, InHand, Running
  <2>2. e.run \in Run /\ e.src \in Source /\ e.dst \in Dest /\ e.dst = DestOf[<<e.run, e.src>>]
    BY <1>0, <2>1, InHandAddressed DEF Entry
  <2>3. file' = [file EXCEPT ![e.src] = file[e.dst], ![e.dst] = NoFile] /\ file[e.dst] # NoFile /\ stashed' = stashed
    BY <1>4 DEF RestoreEntry
  <2>4. stashed[file[e.dst]] \in Entry /\ stashed[file[e.dst]].dst = e.dst
    BY <1>0, <2>2, <2>3 DEF InPlace
  <2>5. stashed[file[e.dst]] # None /\ \E r \in Run : DestOf[<<r, e.src>>] = stashed[file[e.dst]].dst
    BY <1>0, <2>2, <2>4
  <2>6. file'[e.src] = file[e.dst] /\ \A s \in Source : s # e.src => file'[s] = file[s]
    BY <1>0, <2>2, <2>3
  <2>. HIDE DEF e
  <2>. QED
    BY <1>0, <2>3, <2>5, <2>6 DEF Belongs
<1>5. ASSUME NEW s \in Source, CreateFile(s)
      PROVE  Belongs'
  <2>1. file' = [file EXCEPT ![s] = <<s, edits + 1>>] /\ stashed' = stashed /\ edits < MaxEdits
    BY <1>5 DEF CreateFile, history
  <2>2. edits + 1 \in 0..MaxEdits /\ edits + 1 > edits
    BY <1>0, <2>1, StashAssumption DEF TypeOK, StashAssumption
  <2>3. <<s, edits + 1>> \in Content
    BY <2>2 DEF Content
  <2>4. stashed[<<s, edits + 1>>] = None
    BY <1>0, <2>2, <2>3 DEF Fresh
  <2>5. Home(<<s, edits + 1>>) = s
    BY DEF Home
  <2>6. file'[s] = <<s, edits + 1>> /\ \A t \in Source : t # s => file'[t] = file[t]
    BY <1>0, <2>1
  <2>. QED
    BY <1>0, <2>1, <2>4, <2>5, <2>6 DEF Belongs
<1>. QED
  BY <1>0, <1>1, <1>2, <1>3, <1>4, <1>5, FileSteps

(* Rows stay addressed and files where they belong.                           *)
LEMMA Homes == Spec => []HomeInv
<1>1. Init => HomeInv
  <2>. SUFFICES ASSUME Init PROVE HomeInv
    OBVIOUS
  <2>1. \A s \in Source : s \in Path /\ file[s] = <<s, 0>> /\ <<s, 0>> \in Content
    BY StashAssumption DEF Init, Path, Content, StashAssumption
  <2>2. \A s \in Source : stashed[file[s]] = None /\ Home(file[s]) = s
    <3>. SUFFICES ASSUME NEW s \in Source
                  PROVE  stashed[file[s]] = None /\ Home(file[s]) = s
      OBVIOUS
    <3>1. file[s] = <<s, 0>> /\ stashed[<<s, 0>>] = None
      BY <2>1 DEF Init
    <3>. QED
      BY <3>1 DEF Home
  <2>3. Addressed(log) /\ \A p \in Proc : Addressed(pend[p])
    BY DEF Init, Addressed
  <2>4. Belongs
    BY <2>2 DEF Belongs
  <2>. QED
    BY <2>3, <2>4 DEF HomeInv
<1>2. IInv /\ OpenInv /\ HomeInv /\ [Next]_vars => HomeInv'
  BY NextAddressed, NextBelongs DEF HomeInv
<1>. QED
  BY <1>1, <1>2, Inductive, Opens, PTL DEF Spec

-----------------------------------------------------------------------------
(* Commands that run one at a time. *)

(* One command runs, and it alone has rows and moves not committed, and the   *)
(* write lock.                                                                *)
Solo ==
  /\ \A p, q \in Proc : ~Idle(p) /\ ~Idle(q) => p = q
  /\ \A p \in Proc : Idle(p) => pend[p] = << >> /\ touched[p] = {} /\ lock # p

(* What a running command would leave in the log if it were to commit.        *)
Rows(p) == log \o pend[p]

(* A finalize or restore works on entries that are in flight in its own view; *)
(* it has not passed what it has in hand, nor checked it too early.           *)
Hand ==
  \A p \in Proc : cmd[p].kind \in {"finalize", "restore"} =>
    /\ cmd[p].todo \subseteq InFlight(Rows(p))
    /\ cmd[p].step # "next" =>
         cmd[p].cur \in InFlight(Rows(p)) /\ cmd[p].cur \notin cmd[p].todo
    /\ cmd[p].step = "checked" /\ cmd[p].kind = "finalize" /\ ~cmd[p].opt =>
         clock - cmd[p].cur.at >= CoolingOff
    /\ cmd[p].step = "done" => file[cmd[p].cur.dst] = NoFile
    /\ \A e \in InFlight(Rows(p)) : Key(e) \notin Keys(pend[p])

(* A dry run moves nothing and writes nothing. *)
DryRun ==
  \A p \in Proc : Applying(p) /\ cmd[p].opt =>
    cmd[p].step = "next" /\ pend[p] = << >> /\ touched[p] = {}

(* Every closing row of rows closes something.                                *)
OnceIn(rows) ==
  \A j \in 1..Len(rows) :
    rows[j].act \in Closing =>
      \E i \in 1..(j - 1) :
        /\ SameKey(rows[i], rows[j]) /\ rows[i].act = "stash_committed"
        /\ \A k \in (i + 1)..(j - 1) : SameKey(rows[k], rows[j]) => rows[k].act \notin Closing

Once == OnceIn(log) /\ \A p \in Proc : OnceIn(Rows(p))

(* The listing of rows and the disk f agree, but for the files in T and the   *)
(* keys in K; g is the entry each file was last stashed with.                 *)
Agree(f, g, rows, T, K) ==
  /\ \A d \in Dest : f[d] # NoFile /\ f[d] \notin T => g[f[d]] \in InFlight(rows)
  /\ \A e \in InFlight(rows) : f[e.dst] = NoFile \/ g[f[e.dst]] # e => Key(e) \in K

(* The key whose file the command took last, with no row yet.                 *)
Gone(p) == IF cmd[p].step = "done" THEN {Key(cmd[p].cur)} ELSE {}
Taken(p) == {k \in Keys(pend[p]) : cmd[p].kind # "apply"} \cup Gone(p)

(* The committed rows would agree with the disk if the command were to die    *)
(* now, its own view if it were to commit.                                    *)
Live(p) ==
  /\ Agree(file, stashed, log, lost \cup touched[p], torn \cup Taken(p))
  /\ Agree(file, stashed, Rows(p), lost \ touched[p], (torn \ Keys(pend[p])) \cup Gone(p))

Ledger ==
  /\ Quiet => Agree(file, stashed, log, lost, torn)
  /\ \A p \in Proc : ~Idle(p) => Live(p)

(* While no command dies there are no exceptions, and files are restored to   *)
(* where they came from.                                                      *)
Harmless ==
  crashes = 0 =>
    /\ lost = {} /\ torn = {}
    /\ \A s \in Source :
         file[s] # NoFile /\ stashed[file[s]] # None => stashed[file[s]].src = s

SoloInv == Solo /\ Hand /\ DryRun /\ Once /\ Ledger /\ Harmless

AloneInv == setting.alone => SoloInv

-----------------------------------------------------------------------------
(* Facts about the listing and the rows it replays.                           *)

(* The entries of rows have different keys.                                   *)
LEMMA OnePerKey ==
  ASSUME NEW rows \in Seq(Row), NEW e \in InFlight(rows), NEW f \in InFlight(rows), SameKey(e, f)
  PROVE  e = f
<1>1. PICK i \in 1..Len(rows) :
        /\ e = EntryOf(rows[i])
        /\ \A j \in (i + 1)..Len(rows) : ~SameKey(rows[i], rows[j])
  BY DEF InFlight
<1>2. PICK k \in 1..Len(rows) :
        /\ f = EntryOf(rows[k])
        /\ \A j \in (k + 1)..Len(rows) : ~SameKey(rows[k], rows[j])
  BY DEF InFlight
<1>3. SameKey(rows[i], rows[k]) /\ SameKey(rows[k], rows[i])
  BY <1>1, <1>2 DEF SameKey, EntryOf
<1>4. ~(i < k) /\ ~(k < i)
  BY <1>1, <1>2, <1>3
<1>5. i = k
  BY <1>4
<1>. QED
  BY <1>1, <1>2, <1>5

(* An entry is where the rows address its file.                               *)
LEMMA InFlightAddressed ==
  ASSUME NEW rows \in Seq(Row), Addressed(rows), NEW e \in InFlight(rows)
  PROVE  e.dst = DestOf[<<e.run, e.src>>]
BY DEF InFlight, EntryOf, Addressed

(* A row drops the entry of its key, and opens one if it is a stash_committed *)
(* row.                                                                       *)
LEMMA InFlightAppend ==
  ASSUME NEW rows \in Seq(Row), NEW row \in Row
  PROVE  InFlight(Append(rows, row)) =
           {e \in InFlight(rows) : ~SameKey(e, row)}
             \cup (IF row.act = "stash_committed" THEN {EntryOf(row)} ELSE {})
<1>. DEFINE more == Append(rows, row)
            kept == {e \in InFlight(rows) : ~SameKey(e, row)}
            opened == IF row.act = "stash_committed" THEN {EntryOf(row)} ELSE {}
<1>0. /\ Len(more) = Len(rows) + 1 /\ more[Len(rows) + 1] = row /\ Len(rows) \in Nat
      /\ \A i \in 1..Len(rows) : more[i] = rows[i]
  OBVIOUS
<1>. HIDE DEF more
<1>1. ASSUME NEW e \in InFlight(more)
      PROVE  e \in kept \cup opened
  <2>1. PICK i \in 1..Len(more) :
          /\ more[i].act = "stash_committed" /\ e = EntryOf(more[i])
          /\ \A j \in (i + 1)..Len(more) : ~SameKey(more[i], more[j])
    BY DEF InFlight
  <2>2. CASE i = Len(rows) + 1
    BY <1>0, <2>1, <2>2
  <2>3. CASE i # Len(rows) + 1
    <3>1. i \in 1..Len(rows) /\ more[i] = rows[i] /\ Len(rows) + 1 \in (i + 1)..Len(more)
      BY <1>0, <2>3
    <3>2. ~SameKey(rows[i], row)
      BY <1>0, <2>1, <3>1
    <3>3. \A j \in (i + 1)..Len(rows) : j \in (i + 1)..Len(more) /\ more[j] = rows[j]
      BY <1>0
    <3>4. e \in InFlight(rows)
      BY <2>1, <3>1, <3>3 DEF InFlight
    <3>. QED
      BY <2>1, <3>1, <3>2, <3>4 DEF SameKey, EntryOf
  <2>. QED
    BY <2>2, <2>3
<1>2. ASSUME NEW e \in kept
      PROVE  e \in InFlight(more)
  <2>1. PICK i \in 1..Len(rows) :
          /\ rows[i].act = "stash_committed" /\ e = EntryOf(rows[i])
          /\ \A j \in (i + 1)..Len(rows) : ~SameKey(rows[i], rows[j])
    BY DEF InFlight
  <2>2. ~SameKey(rows[i], row)
    BY <2>1 DEF SameKey, EntryOf
  <2>3. i \in 1..Len(more) /\ more[i] = rows[i]
    BY <1>0
  <2>4. ASSUME NEW j \in (i + 1)..Len(more)
        PROVE  ~SameKey(more[i], more[j])
    <3>1. j \in (i + 1)..Len(rows) \/ j = Len(rows) + 1
      BY <1>0
    <3>2. CASE j = Len(rows) + 1
      BY <1>0, <2>2, <2>3, <3>2
    <3>3. CASE j \in (i + 1)..Len(rows)
      BY <1>0, <2>1, <2>3, <3>3
    <3>. QED
      BY <3>1, <3>2, <3>3
  <2>. QED
    BY <2>1, <2>3, <2>4 DEF InFlight
<1>3. row.act = "stash_committed" => EntryOf(row) \in InFlight(more)
  <2>. SUFFICES ASSUME row.act = "stash_committed" PROVE EntryOf(row) \in InFlight(more)
    OBVIOUS
  <2>1. Len(rows) + 1 \in 1..Len(more) /\ (Len(rows) + 1 + 1)..Len(more) = {}
    BY <1>0
  <2>. QED
    BY <1>0, <2>1 DEF InFlight
<1>. QED
  BY <1>1, <1>2, <1>3 DEF more

(* Rows appended, and the rows of the log under them.                         *)
LEMMA RowsFacts ==
  ASSUME NEW s \in Seq(Row), NEW t \in Seq(Row), NEW row \in Row
  PROVE  /\ s \o t \in Seq(Row) /\ Append(t, row) \in Seq(Row) /\ s \o << >> = s
         /\ s \o Append(t, row) = Append(s \o t, row)
         /\ Keys(Append(t, row)) = Keys(t) \cup {Key(row)} /\ Keys(<< >>) = {}
<1>1. s \o t \in Seq(Row) /\ Append(t, row) \in Seq(Row)
  OBVIOUS
<1>2. s \o << >> = s
  OBVIOUS
<1>3. s \o Append(t, row) = Append(s \o t, row)
  OBVIOUS
<1>4. Keys(Append(t, row)) = Keys(t) \cup {Key(row)}
  <2>1. /\ Len(Append(t, row)) = Len(t) + 1 /\ Append(t, row)[Len(t) + 1] = row /\ Len(t) \in Nat
        /\ \A i \in 1..Len(t) : Append(t, row)[i] = t[i]
    OBVIOUS
  <2>2. 1..(Len(t) + 1) = (1..Len(t)) \cup {Len(t) + 1}
    BY <2>1
  <2>. QED
    BY <2>1, <2>2 DEF Keys
<1>5. Keys(<< >>) = {}
  BY DEF Keys
<1>. QED
  BY <1>1, <1>2, <1>3, <1>4, <1>5

(* A row that opens an entry, or closes one, closes nothing a second time.    *)
LEMMA OnceAppend ==
  ASSUME NEW rows \in Seq(Row), NEW row \in Row, OnceIn(rows),
         row.act = "stash_committed" \/ \E e \in InFlight(rows) : SameKey(e, row)
  PROVE  OnceIn(Append(rows, row))
<1>. DEFINE more == Append(rows, row)
<1>0. /\ Len(more) = Len(rows) + 1 /\ more[Len(rows) + 1] = row /\ Len(rows) \in Nat
      /\ \A i \in 1..Len(rows) : more[i] = rows[i]
  OBVIOUS
<1>. HIDE DEF more
<1>. SUFFICES ASSUME NEW j \in 1..Len(more), more[j].act \in Closing
              PROVE  \E i \in 1..(j - 1) :
                       /\ SameKey(more[i], more[j]) /\ more[i].act = "stash_committed"
                       /\ \A k \in (i + 1)..(j - 1) : SameKey(more[k], more[j]) => more[k].act \notin Closing
  BY DEF OnceIn, more
<1>1. CASE j # Len(rows) + 1
  <2>1. j \in 1..Len(rows) /\ \A k \in 1..j : more[k] = rows[k]
    BY <1>0, <1>1
  <2>2. PICK i \in 1..(j - 1) :
          /\ SameKey(rows[i], rows[j]) /\ rows[i].act = "stash_committed"
          /\ \A k \in (i + 1)..(j - 1) : SameKey(rows[k], rows[j]) => rows[k].act \notin Closing
    BY <2>1 DEF OnceIn
  <2>3. more[i] = rows[i] /\ more[j] = rows[j] /\ \A k \in (i + 1)..(j - 1) : more[k] = rows[k]
    BY <2>1
  <2>. QED
    BY <2>2, <2>3
<1>2. CASE j = Len(rows) + 1
  <2>1. PICK e \in InFlight(rows) : SameKey(e, row)
    BY <1>0, <1>2 DEF Closing
  <2>2. PICK i \in 1..Len(rows) :
          /\ rows[i].act = "stash_committed" /\ e = EntryOf(rows[i])
          /\ \A k \in (i + 1)..Len(rows) : ~SameKey(rows[i], rows[k])
    BY DEF InFlight
  <2>3. i \in 1..(j - 1) /\ more[i] = rows[i] /\ more[j] = row
    BY <1>0, <1>2
  <2>4. SameKey(more[i], more[j])
    BY <2>1, <2>2, <2>3 DEF SameKey, EntryOf
  <2>5. \A k \in (i + 1)..(j - 1) : ~SameKey(more[k], more[j])
    BY <1>0, <1>2, <2>2, <2>3, <2>4 DEF SameKey
  <2>. QED
    BY <2>2, <2>3, <2>4, <2>5
<1>. QED
  BY <1>1, <1>2

-----------------------------------------------------------------------------
(* One command at a time. *)

(* When a command takes a step, every other process is idle and stays so.     *)
LEMMA Alone ==
  ASSUME setting.alone, TypeOK, Running, Solo, NEW p \in Proc, Command(p)
  PROVE  /\ \A q \in Proc \ {p} :
              Idle(q) /\ Idle(q)' /\ cmd'[q] = cmd[q] /\ pend'[q] = pend[q] /\ touched'[q] = touched[q]
         /\ Idle(p)' => pend'[p] = << >> /\ touched'[p] = {} /\ lock' # p
         /\ lock' \in {None, lock, p}
<1>. DEFINE ByItself ==
       /\ cmd' = [cmd EXCEPT ![p] = cmd'[p]] /\ pend' = [pend EXCEPT ![p] = pend'[p]]
       /\ touched' = [touched EXCEPT ![p] = touched'[p]]
       /\ lock' \in {None, lock, p}
<1>0. cmd \in [Proc -> Cmd] /\ pend \in [Proc -> Seq(Row)] /\ touched \in [Proc -> SUBSET Content]
  BY DEF TypeOK
<1>k. \A q \in Proc : (cmd[q].kind # "idle" => ~Idle(q)) /\ (cmd'[q].kind # "idle" => ~Idle(q)')
  BY DEF Idle, IdleCmd, Started
<1>1. ASSUME ~Idle(p) \/ \A q \in Proc : Idle(q), ByItself
      PROVE  \A q \in Proc \ {p} :
               Idle(q) /\ Idle(q)' /\ cmd'[q] = cmd[q] /\ pend'[q] = pend[q] /\ touched'[q] = touched[q]
  <2>1. \A q \in Proc \ {p} : Idle(q)
    BY <1>1 DEF Solo
  <2>2. \A q \in Proc \ {p} : cmd'[q] = cmd[q] /\ pend'[q] = pend[q] /\ touched'[q] = touched[q]
    BY <1>0, <1>1
  <2>. QED
    BY <2>1, <2>2 DEF Idle
<1>2. ASSUME NEW r \in Run, NEW b \in BOOLEAN, StartApply(p, r, b) \/ StartFinalize(p, r, b) \/ StartRestore(p, r)
      PROVE  (\A q \in Proc : Idle(q)) /\ ByItself /\ ~Idle(p)'
  <2>1. MayStart(p) /\ pend' = pend /\ touched' = touched /\ lock' \in {None, lock, p}
    BY <1>2 DEF StartApply, StartFinalize, StartRestore, history
  <2>2. PICK k \in {"apply", "finalize", "restore"}, o \in BOOLEAN, T \in {{}, Listing(r)} :
          cmd' = [cmd EXCEPT ![p] = Started(k, o, r, T)]
    BY <1>2 DEF StartApply, StartFinalize, StartRestore
  <2>3. cmd'[p].kind # "idle"
    BY <1>0, <2>2 DEF Started
  <2>4. \A q \in Proc : Idle(q)
    BY <2>1 DEF MayStart
  <2>5. ByItself
    BY <1>0, <2>1, <2>2
  <2>. QED
    BY <1>k, <2>3, <2>4, <2>5
<1>3. ASSUME SkipRow(p) \/ CheckRow(p) \/ RenameRow(p)
      PROVE  ~Idle(p) /\ ByItself /\ ~Idle(p)'
  <2>1. cmd[p].kind = "apply"
    BY <1>3 DEF SkipRow, CheckRow, RenameRow, MoreRows
  <2>2. cmd'[p].kind = "apply" /\ cmd' = [cmd EXCEPT ![p] = cmd'[p]]
    BY <1>0, <1>3, <2>1 DEF SkipRow, CheckRow, RenameRow, Cmd
  <2>3. pend' = [pend EXCEPT ![p] = pend'[p]] /\ touched' = [touched EXCEPT ![p] = touched'[p]] /\ lock' = lock
    BY <1>0, <1>3 DEF SkipRow, CheckRow, RenameRow, history
  <2>. QED
    BY <1>k, <2>1, <2>2, <2>3
<1>4. ASSUME RenameRaises(p) \/ EndApply(p) \/ EndEntries(p) \/ LockTimeout(p) \/ Crash(p)
      PROVE  ~Idle(p) /\ ByItself /\ pend'[p] = << >> /\ touched'[p] = {} /\ lock' # p
  <2>1. ~Idle(p)
    BY <1>4, <1>k DEF RenameRaises, EndApply, EndEntries, LockTimeout, Crash, MoreRows, Running
  <2>2. /\ cmd' = [cmd EXCEPT ![p] = IdleCmd] /\ pend' = [pend EXCEPT ![p] = << >>]
        /\ touched' = [touched EXCEPT ![p] = {}] /\ lock' \in {None, lock, p} /\ lock' # p
    BY <1>4, StashAssumption DEF StashAssumption, RenameRaises, EndApply, EndEntries, LockTimeout, Crash, Commit, Discard
  <2>. QED
    BY <1>0, <2>1, <2>2
<1>5. ASSUME NEW e \in cmd[p].todo, SkipEntry(p, e) \/ EntryGone(p, e) \/ CheckEntry(p, e)
      PROVE  ~Idle(p) /\ ByItself /\ ~Idle(p)'
  <2>1. cmd[p].kind \in {"finalize", "restore"} /\ pend' = pend /\ touched' = touched /\ lock' = lock
    BY <1>5 DEF SkipEntry, EntryGone, CheckEntry, Visits, history
  <2>2. PICK x : Leave(p, e, x)
    BY <1>5 DEF SkipEntry, EntryGone, CheckEntry
  <2>3. cmd'[p].kind = cmd[p].kind /\ ByItself
    BY <1>0, <2>1, <2>2 DEF Leave, Cmd
  <2>. QED
    BY <1>k, <2>1, <2>3
<1>6. ASSUME EntryFails(p) \/ UnlinkEntry(p) \/ RestoreEntry(p) \/ AppendEntry(p)
      PROVE  ~Idle(p) /\ ByItself /\ ~Idle(p)'
  <2>1. cmd[p].kind \in {"finalize", "restore"}
    BY <1>6 DEF EntryFails, UnlinkEntry, RestoreEntry, AppendEntry, Checked, Running
  <2>2. cmd'[p].kind = cmd[p].kind /\ cmd' = [cmd EXCEPT ![p] = cmd'[p]]
    BY <1>0, <1>6 DEF EntryFails, UnlinkEntry, RestoreEntry, AppendEntry, Takes, Cmd
  <2>3. /\ pend' = [pend EXCEPT ![p] = pend'[p]] /\ touched' = [touched EXCEPT ![p] = touched'[p]]
        /\ lock' \in {None, lock, p}
    BY <1>0, <1>6 DEF EntryFails, UnlinkEntry, RestoreEntry, AppendEntry, Takes, history
  <2>4. ~Idle(p) /\ ~Idle(p)'
    BY <1>k, <2>1, <2>2
  <2>. QED
    BY <2>2, <2>3, <2>4
<1>7. /\ (~Idle(p) \/ \A q \in Proc : Idle(q)) /\ ByItself
      /\ Idle(p)' => pend'[p] = << >> /\ touched'[p] = {} /\ lock' # p
  <2>1. ASSUME NEW r \in setting.runs, NEW b \in BOOLEAN,
               StartApply(p, r, b) \/ StartFinalize(p, r, b) \/ StartRestore(p, r)
        PROVE  (\A q \in Proc : Idle(q)) /\ ByItself /\ ~Idle(p)'
    <3>1. r \in Run
      BY RunsGiven
    <3>. QED
      BY <1>2, <2>1, <3>1
  <2>2. CASE \E r \in setting.runs, b \in BOOLEAN :
               StartApply(p, r, b) \/ StartFinalize(p, r, b) \/ StartRestore(p, r)
    BY <2>1, <2>2
  <2>3. CASE \E e \in cmd[p].todo : SkipEntry(p, e) \/ EntryGone(p, e) \/ CheckEntry(p, e)
    BY <1>5, <2>3
  <2>. HIDE DEF ByItself
  <2>. QED
    BY <1>3, <1>4, <1>6, <2>2, <2>3 DEF Command
<1>8. lock' \in {None, lock, p}
  BY <1>7
<1>. HIDE DEF ByItself
<1>. QED
  BY <1>1, <1>7, <1>8

(* Steps of no command leave commands as they are.                            *)
LEMMA NoCommand ==
  ASSUME (\E s \in Source : CreateFile(s)) \/ Tick \/ UNCHANGED vars
  PROVE  UNCHANGED <<log, lock, pend, cmd, crashes, stashed, touched, lost, torn>>
BY DEF CreateFile, Tick, vars, world, history

LEMMA NextSolo == setting.alone /\ TypeOK /\ Running /\ Solo /\ [Next]_vars => Solo'
<1>. SUFFICES ASSUME setting.alone, TypeOK, Running, Solo, [Next]_vars
              PROVE  Solo'
  OBVIOUS
<1>1. ASSUME NEW p \in Proc, Command(p)
      PROVE  Solo'
  <2>1. \A q \in Proc \ {p} : Idle(q)' /\ pend'[q] = << >> /\ touched'[q] = {} /\ lock' # q
    BY <1>1, Alone, StashAssumption DEF Solo, StashAssumption
  <2>2. Idle(p)' => pend'[p] = << >> /\ touched'[p] = {} /\ lock' # p
    BY <1>1, Alone
  <2>. QED
    BY <2>1, <2>2 DEF Solo
<1>2. CASE (\E s \in Source : CreateFile(s)) \/ Tick \/ UNCHANGED vars
  BY <1>2, NoCommand DEF Solo, Idle
<1>. QED
  BY <1>1, <1>2 DEF Next

(* The listing has the entry that a finalize or restore closes.               *)
LEMMA NextOnce == TypeOK /\ Running /\ Solo /\ Hand /\ Once /\ [Next]_vars => Once'
<1>. SUFFICES ASSUME TypeOK, Running, Solo, Hand, Once, [Next]_vars
              PROVE  Once'
  OBVIOUS
<1>0. /\ log \in Seq(Row) /\ pend \in [Proc -> Seq(Row)] /\ OnceIn(log)
      /\ \A q \in Proc : pend[q] \in Seq(Row) /\ Rows(q) \in Seq(Row) /\ OnceIn(Rows(q))
  <2>1. \A q \in Proc : pend[q] \in Seq(Row)
    BY DEF TypeOK
  <2>. QED
    BY <2>1 DEF TypeOK, Once, Rows
<1>1. CASE log' = log /\ pend' = pend
  BY <1>1 DEF Once, Rows
<1>2. ASSUME NEW p \in Proc, log' = log \/ log' = log \o pend[p], pend' = [pend EXCEPT ![p] = << >>]
      PROVE  Once'
  <2>1. log \o << >> = log
    BY <1>0
  <2>2. pend[p] = << >> => log' = log /\ pend' = pend
    BY <1>0, <1>2, <2>1
  <2>3. CASE pend[p] # << >>
    <3>1. \A q \in Proc \ {p} : pend[q] = << >>
      BY <2>3 DEF Solo
    <3>2. \A q \in Proc : pend'[q] = << >>
      BY <1>0, <1>2, <3>1
    <3>3. log' \in {log, Rows(p)}
      BY <1>2 DEF Rows
    <3>4. log' \o << >> = log'
      BY <1>0, <3>3
    <3>. QED
      BY <1>0, <3>2, <3>3, <3>4 DEF Once, Rows
  <2>. QED
    BY <1>1, <2>2, <2>3
<1>3. ASSUME NEW p \in Proc, NEW row \in Row, log' = log, pend' = [pend EXCEPT ![p] = Append(pend[p], row)],
             row.act = "stash_committed" \/ \E e \in InFlight(Rows(p)) : SameKey(e, row)
      PROVE  Once'
  <2>1. OnceIn(Append(Rows(p), row))
    BY <1>0, <1>3, OnceAppend
  <2>2. log \o Append(pend[p], row) = Append(Rows(p), row)
    BY <1>0, RowsFacts DEF Rows
  <2>3. \A q \in Proc : pend'[q] \in {Append(pend[p], row), pend[q]} /\ (q # p => pend'[q] = pend[q])
    BY <1>0, <1>3
  <2>4. pend'[p] = Append(pend[p], row)
    BY <1>0, <1>3
  <2>. QED
    BY <1>0, <1>3, <2>1, <2>2, <2>3, <2>4 DEF Once, Rows
<1>4. ASSUME NEW p \in Proc, RenameRow(p)
      PROVE  Once'
  <2>. DEFINE e == [run |-> cmd[p].run, src |-> RowSource(p), dst |-> RowDest(p), at |-> clock]
  <2>1. RowSource(p) \in Source /\ RowDest(p) \in Dest /\ cmd[p].run \in Run
    BY <1>4, RowTypes DEF RenameRow
  <2>2. RowOf("stash_committed", e) \in Row /\ RowOf("stash_committed", e).act = "stash_committed"
    BY <2>1, RowOfType DEF Entry, TypeOK, RowOf
  <2>3. log' = log /\ pend' = [pend EXCEPT ![p] = Append(pend[p], RowOf("stash_committed", e))]
    BY <1>4 DEF RenameRow
  <2>. QED
    BY <1>3, <2>2, <2>3
<1>5. ASSUME NEW p \in Proc, AppendEntry(p)
      PROVE  Once'
  <2>1. PICK act \in Closing :
          log' = log /\ pend' \in {pend, [pend EXCEPT ![p] = Append(pend[p], RowOf(act, cmd[p].cur))]}
    BY <1>5 DEF AppendEntry, Closing
  <2>2. cmd[p].cur \in Entry /\ cmd[p].cur \in InFlight(Rows(p))
    BY <1>5 DEF AppendEntry, Hand, Running
  <2>3. RowOf(act, cmd[p].cur) \in Row /\ SameKey(cmd[p].cur, RowOf(act, cmd[p].cur))
    BY <2>2, RowOfType DEF RowOf, SameKey
  <2>. QED
    BY <1>1, <1>3, <2>1, <2>2, <2>3
<1>. QED
  BY <1>0, <1>1, <1>2, <1>4, <1>5, LogSteps

(* What a finalize or restore works on stays in flight in its view until it   *)
(* closes it.                                                                 *)
LEMMA NextHand == setting.alone /\ TypeOK /\ Running /\ Solo /\ Hand /\ [Next]_vars => Hand'
<1>. SUFFICES ASSUME setting.alone, TypeOK, Running, Solo, Hand, [Next]_vars
              PROVE  Hand'
  OBVIOUS
<1>. DEFINE HandOf(p) ==
       cmd[p].kind \in {"finalize", "restore"} =>
         /\ cmd[p].todo \subseteq InFlight(Rows(p))
         /\ cmd[p].step # "next" =>
              cmd[p].cur \in InFlight(Rows(p)) /\ cmd[p].cur \notin cmd[p].todo
         /\ cmd[p].step = "checked" /\ cmd[p].kind = "finalize" /\ ~cmd[p].opt =>
              clock - cmd[p].cur.at >= CoolingOff
         /\ cmd[p].step = "done" => file[cmd[p].cur.dst] = NoFile
         /\ \A e \in InFlight(Rows(p)) : Key(e) \notin Keys(pend[p])
<1>0. /\ cmd \in [Proc -> Cmd] /\ file \in [Path -> Content \cup {NoFile}] /\ clock \in Nat /\ CoolingOff \in Nat
      /\ \A q \in Proc : pend[q] \in Seq(Row) /\ Rows(q) \in Seq(Row) /\ InFlight(Rows(q)) \subseteq Entry
      /\ Source \cap Dest = {} /\ Path = Source \cup Dest
  <2>1. \A q \in Proc : pend[q] \in Seq(Row) /\ log \in Seq(Row)
    BY DEF TypeOK
  <2>2. \A q \in Proc : Rows(q) \in Seq(Row)
    BY <2>1 DEF Rows
  <2>. QED
    BY <2>1, <2>2, InFlightType, StashAssumption DEF TypeOK, StashAssumption, Path
<1>1. ASSUME NEW p \in Proc, Command(p), HandOf(p)'
      PROVE  Hand'
  <2>1. \A q \in Proc \ {p} : cmd'[q].kind = "idle"
    BY <1>1, Alone DEF Idle, IdleCmd, Started
  <2>. QED
    BY <1>1, <2>1 DEF Hand
<1>2. ASSUME NEW p \in Proc, NEW r \in Run, NEW b \in BOOLEAN,
             StartApply(p, r, b) \/ StartFinalize(p, r, b) \/ StartRestore(p, r)
      PROVE  HandOf(p)'
  <2>1. MayStart(p) /\ pend' = pend /\ log' = log
    BY <1>2 DEF StartApply, StartFinalize, StartRestore
  <2>2. pend[p] = << >>
    BY <2>1 DEF MayStart, Solo
  <2>3. Rows(p)' = log /\ Keys(pend'[p]) = {}
    BY <2>1, <2>2 DEF Rows, TypeOK, Keys
  <2>4. PICK k \in {"apply", "finalize", "restore"}, o \in BOOLEAN, T \in {{}, Listing(r)} :
          cmd' = [cmd EXCEPT ![p] = Started(k, o, r, T)]
    BY <1>2 DEF StartApply, StartFinalize, StartRestore
  <2>5. T \subseteq InFlight(log)
    BY DEF Listing
  <2>6. cmd'[p].step = "next" /\ cmd'[p].todo = T
    BY <1>0, <2>4 DEF Started
  <2>. QED
    BY <2>3, <2>5, <2>6
<1>3. ASSUME NEW p \in Proc, SkipRow(p) \/ CheckRow(p) \/ RenameRow(p)
      PROVE  HandOf(p)'
  <2>1. cmd'[p].kind = "apply"
    BY <1>0, <1>3 DEF SkipRow, CheckRow, RenameRow, MoreRows, Cmd
  <2>. QED
    BY <2>1
<1>4. ASSUME NEW p \in Proc, RenameRaises(p) \/ EndApply(p) \/ EndEntries(p) \/ LockTimeout(p) \/ Crash(p)
      PROVE  HandOf(p)'
  <2>1. cmd' = [cmd EXCEPT ![p] = IdleCmd]
    BY <1>4 DEF RenameRaises, EndApply, EndEntries, LockTimeout, Crash, Commit, Discard
  <2>2. cmd'[p].kind = "idle"
    BY <1>0, <2>1 DEF IdleCmd, Started
  <2>. QED
    BY <2>2
<1>5. ASSUME NEW p \in Proc, NEW e \in cmd[p].todo, SkipEntry(p, e) \/ EntryGone(p, e) \/ CheckEntry(p, e)
      PROVE  HandOf(p)'
  <2>1. /\ cmd[p].kind \in {"finalize", "restore"} /\ Rows(p)' = Rows(p) /\ file' = file /\ clock' = clock
        /\ cmd[p].todo \subseteq InFlight(Rows(p)) /\ pend' = pend
        /\ \A x \in InFlight(Rows(p)) : Key(x) \notin Keys(pend[p])
    BY <1>5 DEF SkipEntry, EntryGone, CheckEntry, Visits, world, Rows, Hand
  <2>2. e \in InFlight(Rows(p)) /\ e.at \in Nat
    BY <1>0, <2>1 DEF Entry
  <2>3. PICK x \in {"next", "checked", "done"} :
          /\ Leave(p, e, x)
          /\ x = "checked" /\ cmd[p].kind = "finalize" => cmd[p].opt \/ ~Young(e)
          /\ x = "done" => file[e.dst] = NoFile
    BY <1>5 DEF SkipEntry, EntryGone, CheckEntry, Visits
  <2>4. x = "checked" /\ cmd[p].kind = "finalize" /\ ~cmd[p].opt => clock - e.at >= CoolingOff
    BY <1>0, <2>2, <2>3 DEF Young
  <2>5. /\ cmd'[p].kind = cmd[p].kind /\ cmd'[p].opt = cmd[p].opt /\ cmd'[p].step = x
        /\ cmd'[p].todo = cmd[p].todo \ {e} /\ (x # "next" => cmd'[p].cur = e)
    BY <1>0, <2>3 DEF Leave, Cmd
  <2>. QED
    BY <2>1, <2>2, <2>3, <2>4, <2>5
<1>6. ASSUME NEW p \in Proc, EntryFails(p) \/ UnlinkEntry(p) \/ RestoreEntry(p)
      PROVE  HandOf(p)'
  <2>. DEFINE e == cmd[p].cur
  <2>1. /\ cmd[p].kind \in {"finalize", "restore"} /\ cmd[p].step = "checked" /\ Rows(p)' = Rows(p)
        /\ cmd[p].todo \subseteq InFlight(Rows(p)) /\ e \in InFlight(Rows(p)) /\ e \notin cmd[p].todo
        /\ pend' = pend /\ \A x \in InFlight(Rows(p)) : Key(x) \notin Keys(pend[p])
    BY <1>6 DEF EntryFails, UnlinkEntry, RestoreEntry, Checked, Rows, Hand
  <2>2. e.src \in Source /\ e.dst \in Dest
    BY <1>0, <2>1 DEF Entry
  <2>3. PICK x \in {"failed", "done"} :
          cmd' = [cmd EXCEPT ![p].step = x] /\ (x = "done" => file'[e.dst] = NoFile)
    BY <1>0, <1>6, <2>2 DEF EntryFails, UnlinkEntry, RestoreEntry, Takes
  <2>4. /\ cmd'[p].kind = cmd[p].kind /\ cmd'[p].step = x /\ cmd'[p].todo = cmd[p].todo /\ cmd'[p].cur = e
    BY <1>0, <2>3 DEF Cmd
  <2>. QED
    BY <2>1, <2>3, <2>4
<1>7. ASSUME NEW p \in Proc, AppendEntry(p)
      PROVE  HandOf(p)'
  <2>. DEFINE e == cmd[p].cur
  <2>1. /\ cmd[p].kind \in {"finalize", "restore"} /\ cmd[p].step \in {"done", "failed"}
        /\ cmd[p].todo \subseteq InFlight(Rows(p)) /\ e \in InFlight(Rows(p)) /\ e \notin cmd[p].todo
        /\ e \in Entry /\ \A x \in InFlight(Rows(p)) : Key(x) \notin Keys(pend[p])
    BY <1>0, <1>7 DEF AppendEntry, Running, Hand
  <2>2. cmd'[p].step = "next" /\ cmd'[p].todo = cmd[p].todo
    BY <1>0, <1>7 DEF AppendEntry, Cmd
  <2>3. CASE pend' = pend
    BY <1>7, <2>1, <2>2, <2>3 DEF AppendEntry, Rows
  <2>4. CASE pend' # pend
    <3>1. PICK act \in Closing : log' = log /\ pend' = [pend EXCEPT ![p] = Append(@, RowOf(act, e))]
      BY <1>7, <2>4 DEF AppendEntry, Closing
    <3>2. RowOf(act, e) \in Row
      BY <2>1, RowOfType
    <3>3. Rows(p)' = Append(Rows(p), RowOf(act, e))
      BY <1>0, <3>1, <3>2, RowsFacts DEF Rows, TypeOK
    <3>4. \A f \in InFlight(Rows(p)) : ~SameKey(f, RowOf(act, e)) => f \in InFlight(Rows(p)')
      BY <1>0, <3>2, <3>3, InFlightAppend
    <3>5. \A f \in cmd[p].todo : ~SameKey(f, RowOf(act, e))
      <4>1. \A f \in cmd[p].todo : ~SameKey(f, e)
        BY <1>0, <2>1, OnePerKey
      <4>. QED
        BY <4>1 DEF SameKey, RowOf
    <3>6. \A f \in InFlight(Rows(p)') : f \in InFlight(Rows(p)) /\ ~SameKey(f, RowOf(act, e))
      <4>1. RowOf(act, e).act # "stash_committed"
        BY <3>1 DEF RowOf, Closing
      <4>2. Rows(p) \in Seq(Row)
        BY <1>0, RowsFacts DEF Rows, TypeOK
      <4>. QED
        BY <3>2, <3>3, <4>1, <4>2, InFlightAppend
    <3>7. Keys(pend'[p]) = Keys(pend[p]) \cup {Key(RowOf(act, e))}
      BY <1>0, <3>1, <3>2, RowsFacts DEF TypeOK
    <3>8. \A f \in InFlight(Rows(p)') : Key(f) \notin Keys(pend'[p])
      BY <2>1, <3>6, <3>7 DEF SameKey, Key
    <3>. QED
      BY <2>1, <2>2, <3>4, <3>5, <3>8
  <2>. QED
    BY <2>3, <2>4
<1>8. ASSUME NEW s \in Source, CreateFile(s)
      PROVE  Hand'
  <2>1. \A d \in Dest : file'[d] = file[d]
    BY <1>0, <1>8 DEF CreateFile
  <2>2. cmd' = cmd /\ clock' = clock /\ pend' = pend /\ \A q \in Proc : Rows(q)' = Rows(q)
    BY <1>8 DEF CreateFile, Rows
  <2>3. \A q \in Proc : cmd[q].kind \in {"finalize", "restore"} /\ cmd[q].step = "done" => cmd[q].cur.dst \in Dest
    BY <1>0 DEF Hand, Entry
  <2>. QED
    BY <2>1, <2>2, <2>3 DEF Hand
<1>9. CASE Tick \/ UNCHANGED vars
  <2>1. /\ cmd' = cmd /\ file' = file /\ clock' \in {clock, clock + 1} /\ pend' = pend
        /\ \A q \in Proc : Rows(q)' = Rows(q)
    BY <1>9 DEF Tick, vars, world, Rows
  <2>2. \A q \in Proc : cmd[q].kind \in {"finalize", "restore"} /\ cmd[q].step = "checked" => cmd[q].cur.at \in Nat
    BY <1>0 DEF Hand, Entry
  <2>. QED
    BY <1>0, <2>1, <2>2 DEF Hand
<1>. QED
  BY <1>1, <1>2, <1>3, <1>4, <1>5, <1>6, <1>7, <1>8, <1>9, RunsGiven DEF Next, Command

-----------------------------------------------------------------------------
(* How the listing and the disk come to agree, or stay so. *)

(* They do whatever happens outside the stash, and with more exceptions.      *)
LEMMA AgreeKept ==
  ASSUME NEW f, NEW f2, NEW g, NEW rows \in Seq(Row), NEW T, NEW T2, NEW K, NEW K2,
         \A d \in Dest : f2[d] = f[d], T \subseteq T2, K \subseteq K2, Agree(f, g, rows, T, K)
  PROVE  Agree(f2, g, rows, T2, K2)
<1>1. \A e \in InFlight(rows) : e.dst \in Dest
  BY InFlightType DEF Entry
<1>. QED
  BY <1>1 DEF Agree

(* A file leaves the stash: the key it is taken under becomes an exception,   *)
(* and so does that of the entry it was stashed with.                         *)
LEMMA AgreeTaken ==
  ASSUME NEW f, NEW f2, NEW g, NEW rows \in Seq(Row), NEW T, NEW T2, NEW K, NEW K2, NEW e \in Entry,
         f2[e.dst] = NoFile, \A d \in Dest : d # e.dst => f2[d] = f[d],
         \A d \in Dest : d # e.dst /\ f[d] # NoFile /\ f[d] \notin T2 => f[d] \notin T,
         K \subseteq K2, g[f[e.dst]] \in InFlight(rows) => Key(g[f[e.dst]]) \in K2,
         Agree(f, g, rows, T, K)
  PROVE  Agree(f2, g, rows, T2, K2)
<1>1. ASSUME NEW d \in Dest, f2[d] # NoFile, f2[d] \notin T2
      PROVE  g[f2[d]] \in InFlight(rows)
  <2>1. f2[d] = f[d] /\ f[d] \notin T /\ f[d] # NoFile
    BY <1>1
  <2>. QED
    BY <2>1 DEF Agree
<1>2. ASSUME NEW x \in InFlight(rows), f2[x.dst] = NoFile \/ g[f2[x.dst]] # x
      PROVE  Key(x) \in K2
  <2>1. x.dst \in Dest
    BY InFlightType DEF Entry
  <2>2. CASE x.dst = e.dst /\ g[f[e.dst]] = x
    BY <2>2
  <2>3. CASE x.dst = e.dst /\ g[f[e.dst]] # x
    BY <2>3 DEF Agree
  <2>4. CASE x.dst # e.dst
    BY <1>2, <2>1, <2>4 DEF Agree
  <2>. QED
    BY <2>2, <2>3, <2>4
<1>. QED
  BY <1>1, <1>2 DEF Agree

(* The closing row of a file that left: its key is no exception any more.     *)
LEMMA AgreeClosed ==
  ASSUME NEW f, NEW g, NEW rows \in Seq(Row), NEW T, NEW K, NEW e \in InFlight(rows),
         NEW row \in Row, row.act # "stash_committed", SameKey(e, row), f[e.dst] = NoFile,
         \A d \in Dest : f[d] # NoFile => g[f[d]].dst = d,
         Agree(f, g, rows, T, K \cup {Key(e)})
  PROVE  Agree(f, g, Append(rows, row), T, K \ {Key(e)})
<1>1. InFlight(Append(rows, row)) = {x \in InFlight(rows) : ~SameKey(x, row)}
  BY InFlightAppend
<1>2. ASSUME NEW d \in Dest, f[d] # NoFile, f[d] \notin T
      PROVE  g[f[d]] \in InFlight(Append(rows, row))
  <2>1. g[f[d]] \in InFlight(rows)
    BY <1>2 DEF Agree
  <2>2. PICK x \in InFlight(rows) : x = g[f[d]] /\ x.dst = d
    BY <1>2, <2>1
  <2>3. x # e
    BY <1>2, <2>2
  <2>4. ~SameKey(x, e)
    BY <2>3, OnePerKey
  <2>5. ~SameKey(x, row)
    BY <2>4 DEF SameKey
  <2>. QED
    BY <1>1, <2>2, <2>5
<1>3. ASSUME NEW x \in InFlight(Append(rows, row)), f[x.dst] = NoFile \/ g[f[x.dst]] # x
      PROVE  Key(x) \in K \ {Key(e)}
  <2>1. x \in InFlight(rows) /\ ~SameKey(x, row)
    BY <1>1
  <2>2. Key(x) \in K \cup {Key(e)}
    BY <1>3, <2>1 DEF Agree
  <2>3. Key(x) # Key(e)
    BY <2>1 DEF Key, SameKey
  <2>. QED
    BY <2>2, <2>3
<1>. QED
  BY <1>2, <1>3 DEF Agree

(* A file c moves from a source path to the stash: it is an exception to the  *)
(* rows before it, and none to them with its own row.                         *)
LEMMA AgreeStashed ==
  ASSUME NEW f \in [Path -> Content \cup {NoFile}], NEW g \in [Content -> Entry \cup {None}],
         NEW rows \in Seq(Row), Addressed(rows), NEW T, NEW K,
         NEW row \in Row, row.act = "stash_committed", row.dst = DestOf[<<row.run, row.src>>],
         NEW c \in Content, f[row.src] = c, f[row.dst] = NoFile,
         \A x, y \in Path : f[x] # NoFile /\ f[x] = f[y] => x = y,
         \A d \in Dest : f[d] # NoFile => g[f[d]].dst = d,
         NEW f2, f2 = [f EXCEPT ![row.dst] = c, ![row.src] = NoFile],
         NEW g2, g2 = [g EXCEPT ![c] = EntryOf(row)]
  PROVE  /\ Agree(f, g, rows, T, K) => Agree(f2, g2, rows, T \cup {c}, K)
         /\ Agree(f, g, rows, T, K) => Agree(f2, g2, Append(rows, row), T \ {c}, K \ {Key(row)})
<1>. SUFFICES ASSUME Agree(f, g, rows, T, K)
              PROVE  /\ Agree(f2, g2, rows, T \cup {c}, K)
                     /\ Agree(f2, g2, Append(rows, row), T \ {c}, K \ {Key(row)})
  OBVIOUS
<1>0. row.src \in Source /\ row.dst \in Dest /\ Source \cap Dest = {} /\ Path = Source \cup Dest /\ c # NoFile
  BY PathsApart DEF Row, Path
<1>1. /\ f2[row.dst] = c /\ g2[c] = EntryOf(row)
      /\ \A d \in Dest : d # row.dst => f2[d] = f[d] /\ f2[d] # c /\ (f[d] # NoFile => g2[f[d]] = g[f[d]])
  <2>1. \A d \in Dest : f[d] # c
    BY <1>0
  <2>. QED
    BY <1>0, <2>1
<1>2. InFlight(Append(rows, row)) = {x \in InFlight(rows) : ~SameKey(x, row)} \cup {EntryOf(row)}
  BY InFlightAppend
<1>3. \A x \in InFlight(rows) : x.dst \in Dest /\ x.dst = DestOf[<<x.run, x.src>>]
  BY InFlightType, InFlightAddressed DEF Entry
<1>4. ASSUME NEW d \in Dest, d # row.dst, f2[d] # NoFile, f2[d] \notin T
      PROVE  g2[f2[d]] \in InFlight(rows) /\ g2[f2[d]].dst = d
  <2>1. f2[d] = f[d] /\ g2[f2[d]] = g[f[d]]
    BY <1>1, <1>4
  <2>. QED
    BY <1>4, <2>1 DEF Agree
<1>5. \A x \in InFlight(rows) : f2[x.dst] = NoFile \/ g2[f2[x.dst]] # x => Key(x) \in K
  <2>. SUFFICES ASSUME NEW x \in InFlight(rows), f2[x.dst] = NoFile \/ g2[f2[x.dst]] # x
                PROVE  Key(x) \in K
    OBVIOUS
  <2>1. CASE x.dst = row.dst
    BY <2>1 DEF Agree
  <2>2. CASE x.dst # row.dst /\ f[x.dst] = NoFile
    BY <2>2 DEF Agree
  <2>3. CASE x.dst # row.dst /\ f[x.dst] # NoFile
    <3>1. f2[x.dst] = f[x.dst] /\ g2[f2[x.dst]] = g[f[x.dst]]
      BY <1>1, <1>3, <2>3
    <3>. QED
      BY <2>3, <3>1 DEF Agree
  <2>. QED
    BY <2>1, <2>2, <2>3
<1>6. Agree(f2, g2, rows, T \cup {c}, K)
  <2>1. \A d \in Dest : f2[d] \notin T \cup {c} => d # row.dst /\ f2[d] \notin T
    BY <1>1
  <2>. QED
    BY <1>4, <1>5, <2>1 DEF Agree
<1>7. Agree(f2, g2, Append(rows, row), T \ {c}, K \ {Key(row)})
  <2>1. ASSUME NEW d \in Dest, f2[d] # NoFile, f2[d] \notin T \ {c}
        PROVE  g2[f2[d]] \in InFlight(Append(rows, row))
    <3>1. CASE d = row.dst
      BY <1>1, <1>2, <3>1
    <3>2. CASE d # row.dst
      <4>1. f2[d] \notin T
        BY <1>1, <2>1, <3>2
      <4>2. PICK x \in InFlight(rows) : x = g2[f2[d]] /\ x.dst = d
        BY <1>4, <2>1, <3>2, <4>1
      <4>3. ~SameKey(x, row)
        BY <1>3, <3>2, <4>2 DEF SameKey
      <4>. QED
        BY <1>2, <4>2, <4>3
    <3>. QED
      BY <3>1, <3>2
  <2>2. ASSUME NEW x \in InFlight(Append(rows, row)), f2[x.dst] = NoFile \/ g2[f2[x.dst]] # x
        PROVE  Key(x) \in K \ {Key(row)}
    <3>1. x # EntryOf(row)
      <4>1. EntryOf(row).dst = row.dst
        BY DEF EntryOf
      <4>. QED
        BY <1>0, <1>1, <2>2, <4>1
    <3>2. x \in InFlight(rows) /\ ~SameKey(x, row)
      BY <1>2, <3>1
    <3>3. Key(x) # Key(row)
      BY <3>2 DEF Key, SameKey
    <3>. QED
      BY <1>5, <2>2, <3>2, <3>3
  <2>. QED
    BY <2>1, <2>2 DEF Agree
<1>. QED
  BY <1>6, <1>7

(* The types of what agrees, and where rows address their files.              *)
LEMMA LedgerFacts ==
  ASSUME TypeOK, Running, InPlace, HomeInv
  PROVE  /\ cmd \in [Proc -> Cmd] /\ file \in [Path -> Content \cup {NoFile}]
         /\ stashed \in [Content -> Entry \cup {None}] /\ None \notin Entry
         /\ log \in Seq(Row) /\ pend \in [Proc -> Seq(Row)] /\ touched \in [Proc -> SUBSET Content] /\ Addressed(log)
         /\ \A q \in Proc : pend[q] \in Seq(Row) /\ Rows(q) \in Seq(Row) /\ Addressed(Rows(q))
         /\ Source \cap Dest = {} /\ Path = Source \cup Dest
         /\ \A d \in Dest : file[d] # NoFile => stashed[file[d]] \in Entry /\ stashed[file[d]].dst = d
<1>1. \A q \in Proc : pend[q] \in Seq(Row) /\ log \in Seq(Row) /\ Addressed(log) /\ Addressed(pend[q])
  BY DEF TypeOK, HomeInv
<1>2. \A q \in Proc : Rows(q) \in Seq(Row) /\ Addressed(Rows(q))
  BY <1>1, AddressedConcat DEF Rows
<1>3. /\ cmd \in [Proc -> Cmd] /\ file \in [Path -> Content \cup {NoFile}]
      /\ pend \in [Proc -> Seq(Row)] /\ log \in Seq(Row) /\ touched \in [Proc -> SUBSET Content]
  BY DEF TypeOK
<1>4. /\ stashed \in [Content -> Entry \cup {None}] /\ None \notin Entry
      /\ Source \cap Dest = {} /\ Path = Source \cup Dest
  BY FileFacts, StashAssumption DEF StashAssumption
<1>5. \A d \in Dest : file[d] # NoFile => stashed[file[d]] \in Entry /\ stashed[file[d]].dst = d
  BY <1>3, <1>4 DEF InPlace
<1>6. Addressed(log)
  BY DEF HomeInv
<1>. QED
  BY <1>1, <1>2, <1>3, <1>4, <1>5, <1>6

(* Steps of a command that move no file and write no row.                     *)
LEMMA LiveKept ==
  ASSUME TypeOK, Running, InPlace, HomeInv, NEW p \in Proc, Live(p), UNCHANGED <<file, log, pend, history>>,
         cmd[p].step # "done", cmd'[p].kind = cmd[p].kind
  PROVE  Live(p)'
<1>1. Gone(p) = {} /\ Taken(p) \subseteq Taken(p)'
  BY DEF Gone, Taken
<1>2. \A d \in Dest : file'[d] = file[d]
  OBVIOUS
<1>3. Agree(file', stashed, log, lost \cup touched[p], torn \cup Taken(p)')
  BY <1>1, <1>2, LedgerFacts, AgreeKept DEF Live
<1>4. Agree(file', stashed, Rows(p), lost \ touched[p], (torn \ Keys(pend[p])) \cup Gone(p)')
  BY <1>1, <1>2, LedgerFacts, AgreeKept DEF Live
<1>. QED
  BY <1>3, <1>4 DEF Live, Rows, history

(* A rename into the stash. *)
LEMMA LiveRename ==
  ASSUME TypeOK, Running, InPlace, Guarded, HomeInv, Fresh, NEW p \in Proc, Live(p), RenameRow(p)
  PROVE  Live(p)'
<1>. DEFINE e == [run |-> cmd[p].run, src |-> RowSource(p), dst |-> RowDest(p), at |-> clock]
            c == file[RowSource(p)]
<1>1. RowSource(p) \in Source /\ RowDest(p) \in Dest /\ cmd[p].run \in Run
  BY RowTypes DEF RenameRow
<1>2. PICK row \in Row : row = RowOf("stash_committed", e)
  BY <1>1, RowOfType DEF Entry, TypeOK
<1>3. /\ row.act = "stash_committed" /\ row.src = RowSource(p) /\ row.dst = RowDest(p) /\ row.at = clock
      /\ row.dst = DestOf[<<row.run, row.src>>] /\ EntryOf(row) = e
  BY <1>2 DEF RowOf, RowDest, EntryOf
<1>4. /\ file' = [file EXCEPT ![row.dst] = c, ![row.src] = NoFile] /\ stashed' = [stashed EXCEPT ![c] = EntryOf(row)]
      /\ touched' = [touched EXCEPT ![p] = @ \cup {c}] /\ pend' = [pend EXCEPT ![p] = Append(@, row)]
      /\ log' = log /\ lost' = lost /\ torn' = torn /\ c # NoFile
  BY <1>2, <1>3 DEF RenameRow
<1>5. file[row.dst] = NoFile /\ cmd[p].step # "done" /\ cmd'[p].step = "next" /\ cmd[p].kind = "apply"
      /\ cmd'[p].kind = "apply"
  BY <1>3, LedgerFacts DEF RenameRow, MoreRows, Guarded, Applying, Cmd
<1>6. c \in Content /\ \A d \in Dest : file[d] # NoFile => stashed[file[d]].dst = d
  BY <1>1, <1>3, <1>4, LedgerFacts
<1>7. touched'[p] = touched[p] \cup {c} /\ pend'[p] = Append(pend[p], row)
  BY <1>4, LedgerFacts
<1>8. Rows(p)' = Append(Rows(p), row) /\ Keys(pend'[p]) = Keys(pend[p]) \cup {Key(row)}
  BY <1>4, <1>7, LedgerFacts, RowsFacts DEF Rows
<1>9. Gone(p) = {} /\ Gone(p)' = {} /\ Taken(p) = {} /\ Taken(p)' = {}
  BY <1>5 DEF Gone, Taken
<1>10. \A x, y \in Path : file[x] # NoFile /\ file[x] = file[y] => x = y
  BY DEF Fresh
<1>. HIDE DEF e, c
<1>11. Agree(file', stashed', log, (lost \cup touched[p]) \cup {c}, torn \cup {})
  BY <1>3, <1>4, <1>5, <1>6, <1>9, <1>10, LedgerFacts, AgreeStashed DEF Live, c
<1>12. Agree(file', stashed', Append(Rows(p), row), (lost \ touched[p]) \ {c}, ((torn \ Keys(pend[p])) \cup {}) \ {Key(row)})
  BY <1>3, <1>4, <1>5, <1>6, <1>9, <1>10, LedgerFacts, AgreeStashed DEF Live, c
<1>13. /\ (lost \cup touched[p]) \cup {c} = lost' \cup touched'[p] /\ torn \cup {} = torn' \cup Taken(p)'
       /\ (lost \ touched[p]) \ {c} = lost' \ touched'[p]
       /\ ((torn \ Keys(pend[p])) \cup {}) \ {Key(row)} = (torn' \ Keys(pend'[p])) \cup Gone(p)'
  BY <1>4, <1>7, <1>8, <1>9
<1>. QED
  BY <1>4, <1>8, <1>11, <1>12, <1>13 DEF Live

(* A file that finalize or restore takes from the stash. *)
LEMMA LiveTaken ==
  ASSUME TypeOK, Running, InPlace, HomeInv, Fresh, Hand, NEW p \in Proc, Live(p), UnlinkEntry(p) \/ RestoreEntry(p)
  PROVE  Live(p)'
<1>. DEFINE e == cmd[p].cur
            c == file[e.dst]
<1>1. /\ cmd[p].kind \in {"finalize", "restore"} /\ cmd[p].step = "checked" /\ c # NoFile /\ e \in Entry
      /\ e \in InFlight(Rows(p))
  BY DEF UnlinkEntry, RestoreEntry, Checked, Running, Hand
<1>2. e.dst = DestOf[<<e.run, e.src>>] /\ e.src \in Source /\ e.dst \in Dest
  BY <1>1, LedgerFacts, InFlightAddressed DEF Entry
<1>3. /\ cmd'[p].kind = cmd[p].kind /\ cmd'[p].step = "done" /\ cmd'[p].cur = e
      /\ touched'[p] = touched[p] \cup {c} /\ torn' = torn \cup ({Key(stashed[c])} \ {Key(e)})
      /\ pend' = pend /\ log' = log /\ stashed' = stashed /\ lost' = lost
  BY LedgerFacts DEF UnlinkEntry, RestoreEntry, Takes, Cmd
<1>4. file'[e.dst] = NoFile /\ \A d \in Dest : d # e.dst => file'[d] = file[d]
  BY <1>2, LedgerFacts DEF UnlinkEntry, RestoreEntry
<1>5. \A d \in Dest : d # e.dst => file[d] # c
  BY <1>1, <1>2, LedgerFacts DEF Fresh
<1>6. Gone(p) = {} /\ Gone(p)' = {Key(e)} /\ Taken(p)' = Taken(p) \cup {Key(e)}
  BY <1>1, <1>3 DEF Gone, Taken
<1>a. \A x \in InFlight(Rows(p)) : Key(x) \notin Keys(pend[p])
  BY <1>1 DEF Hand
<1>b. file[e.dst] = c
  OBVIOUS
<1>c. log \in Seq(Row) /\ Rows(p) \in Seq(Row)
  BY LedgerFacts
<1>d. /\ Agree(file, stashed, log, lost \cup touched[p], torn \cup Taken(p))
      /\ Agree(file, stashed, Rows(p), lost \ touched[p], (torn \ Keys(pend[p])) \cup Gone(p))
  BY DEF Live
<1>. HIDE DEF e, c
<1>7. Agree(file', stashed, log, lost \cup touched'[p], torn' \cup Taken(p)')
  <2>1. \A d \in Dest : d # e.dst /\ file[d] # NoFile /\ file[d] \notin lost \cup touched'[p] =>
          file[d] \notin lost \cup touched[p]
    BY <1>3
  <2>2. torn \cup Taken(p) \subseteq torn' \cup Taken(p)' /\ Key(stashed[file[e.dst]]) \in torn' \cup Taken(p)'
    BY <1>3, <1>6, <1>b
  <2>. QED
    BY <1>1, <1>4, <1>c, <1>d, <2>1, <2>2, AgreeTaken
<1>8. Agree(file', stashed, Rows(p), lost \ touched'[p], (torn' \ Keys(pend[p])) \cup Gone(p)')
  <2>1. \A d \in Dest : d # e.dst /\ file[d] # NoFile /\ file[d] \notin lost \ touched'[p] =>
          file[d] \notin lost \ touched[p]
    BY <1>3, <1>5
  <2>2. /\ (torn \ Keys(pend[p])) \cup Gone(p) \subseteq (torn' \ Keys(pend[p])) \cup Gone(p)'
        /\ stashed[file[e.dst]] \in InFlight(Rows(p)) =>
             Key(stashed[file[e.dst]]) \in (torn' \ Keys(pend[p])) \cup Gone(p)'
    BY <1>3, <1>6, <1>a, <1>b
  <2>. QED
    BY <1>1, <1>4, <1>c, <1>d, <2>1, <2>2, AgreeTaken
<1>. QED
  BY <1>3, <1>7, <1>8 DEF Live, Rows

(* The row of a file that finalize or restore has taken. *)
LEMMA LiveAppend ==
  ASSUME TypeOK, Running, InPlace, HomeInv, Hand, NEW p \in Proc, Live(p), AppendEntry(p), cmd[p].step = "done"
  PROVE  Live(p)'
<1>. DEFINE e == cmd[p].cur
<1>1. cmd[p].kind \in {"finalize", "restore"} /\ e \in Entry /\ e \in InFlight(Rows(p)) /\ file[e.dst] = NoFile
  BY DEF AppendEntry, Running, Hand
<1>2. e.dst = DestOf[<<e.run, e.src>>]
  BY <1>1, LedgerFacts, InFlightAddressed
<1>3. PICK act \in Closing : pend' = [pend EXCEPT ![p] = Append(@, RowOf(act, e))]
  BY DEF AppendEntry, Closing
<1>4. PICK row \in Row : row = RowOf(act, e)
  BY <1>1, RowOfType
<1>5. row.act # "stash_committed" /\ SameKey(e, row) /\ Key(row) = Key(e)
  BY <1>4 DEF RowOf, SameKey, Key, Closing
<1>6. /\ cmd'[p].kind = cmd[p].kind /\ cmd'[p].step = "next"
      /\ log' = log /\ file' = file /\ stashed' = stashed /\ touched' = touched /\ lost' = lost /\ torn' = torn
  BY LedgerFacts DEF AppendEntry, Cmd, history
<1>7. pend'[p] = Append(pend[p], row)
  BY <1>3, <1>4, LedgerFacts
<1>8. Rows(p)' = Append(Rows(p), row) /\ Keys(pend'[p]) = Keys(pend[p]) \cup {Key(e)}
  BY <1>5, <1>6, <1>7, LedgerFacts, RowsFacts DEF Rows
<1>9. Gone(p) = {Key(e)} /\ Gone(p)' = {} /\ Taken(p)' = Taken(p)
  BY <1>1, <1>6, <1>8 DEF Gone, Taken
<1>. HIDE DEF e
<1>10. Agree(file, stashed, Append(Rows(p), row), lost \ touched[p], (torn \ Keys(pend[p])) \ {Key(e)})
  BY <1>1, <1>2, <1>5, <1>9, LedgerFacts, AgreeClosed DEF Live
<1>11. (torn \ Keys(pend[p])) \ {Key(e)} = (torn' \ Keys(pend'[p])) \cup Gone(p)'
  BY <1>6, <1>8, <1>9
<1>. QED
  BY <1>6, <1>8, <1>9, <1>10, <1>11 DEF Live

(* Whether a command dies or commits, the rows it leaves agree with the disk. *)
LEMMA NextLedger ==
  ASSUME setting.alone, IInv, HomeInv, Solo, Hand, Ledger, [Next]_vars
  PROVE  Ledger'
<1>0. TypeOK /\ Running /\ Guarded /\ Fresh /\ InPlace
  BY DEF IInv
<1>1. ASSUME NEW p \in Proc, Command(p),
             Idle(p)' => Agree(file', stashed', log', lost', torn'), ~Idle(p)' => Live(p)'
      PROVE  Ledger'
  <2>1. \A q \in Proc \ {p} : Idle(q)'
    BY <1>0, <1>1, Alone
  <2>. QED
    BY <1>1, <2>1 DEF Ledger, Quiet
<1>k. \A p \in Proc : (cmd[p].kind # "idle" => ~Idle(p)) /\ (cmd'[p].kind # "idle" => ~Idle(p)')
  BY DEF Idle, IdleCmd, Started
<1>2. ASSUME NEW p \in Proc, NEW r \in Run, NEW b \in BOOLEAN,
             StartApply(p, r, b) \/ StartFinalize(p, r, b) \/ StartRestore(p, r)
      PROVE  Live(p)' /\ ~Idle(p)'
  <2>1. MayStart(p) /\ UNCHANGED <<file, log, pend, history>>
    BY <1>2 DEF StartApply, StartFinalize, StartRestore
  <2>2. Quiet /\ pend[p] = << >> /\ touched[p] = {}
    BY <2>1 DEF MayStart, Quiet, Solo
  <2>3. PICK k \in {"apply", "finalize", "restore"}, o \in BOOLEAN, T \in {{}, Listing(r)} :
          cmd' = [cmd EXCEPT ![p] = Started(k, o, r, T)]
    BY <1>2 DEF StartApply, StartFinalize, StartRestore
  <2>4. cmd'[p].step = "next" /\ cmd'[p].kind # "idle"
    BY <1>0, <2>3, LedgerFacts DEF Started
  <2>5. Gone(p)' = {} /\ Taken(p)' = {} /\ Keys(pend'[p]) = {} /\ Rows(p)' = log /\ touched'[p] = {}
    <3>1. Keys(pend'[p]) = {} /\ Rows(p)' = log /\ touched'[p] = {}
      BY <1>0, <2>1, <2>2, LedgerFacts DEF Keys, Rows, history
    <3>. QED
      BY <2>4, <3>1 DEF Gone, Taken
  <2>6. Agree(file, stashed, log, lost, torn)
    BY <2>2 DEF Ledger
  <2>7. /\ lost' \cup touched'[p] = lost /\ torn' \cup Taken(p)' = torn
        /\ lost' \ touched'[p] = lost /\ (torn' \ Keys(pend'[p])) \cup Gone(p)' = torn
    BY <2>1, <2>5 DEF history
  <2>. QED
    BY <1>k, <2>1, <2>4, <2>5, <2>6, <2>7 DEF Live, history
<1>3. ASSUME NEW p \in Proc, ~Idle(p), UNCHANGED <<file, log, pend, history>>, cmd[p].step # "done",
             cmd'[p].kind = cmd[p].kind
      PROVE  Live(p)'
  BY <1>0, <1>3, LiveKept DEF Ledger
<1>4. ASSUME NEW p \in Proc, SkipRow(p) \/ CheckRow(p)
      PROVE  Live(p)' /\ ~Idle(p)'
  <2>1. UNCHANGED <<file, log, pend, history>> /\ cmd[p].step # "done" /\ cmd[p].kind = "apply" /\ cmd'[p].kind = "apply"
    BY <1>0, <1>4, LedgerFacts DEF SkipRow, CheckRow, MoreRows, Cmd
  <2>. QED
    BY <1>3, <1>k, <2>1
<1>5. ASSUME NEW p \in Proc, RenameRow(p)
      PROVE  Live(p)' /\ ~Idle(p)'
  <2>1. cmd[p].kind = "apply" /\ cmd'[p].kind = "apply"
    BY <1>0, <1>5, LedgerFacts DEF RenameRow, MoreRows, Cmd
  <2>. QED
    BY <1>0, <1>5, <1>k, <2>1, LiveRename DEF Ledger
<1>6. ASSUME NEW p \in Proc, NEW e \in cmd[p].todo, SkipEntry(p, e) \/ EntryGone(p, e) \/ CheckEntry(p, e)
      PROVE  Live(p)' /\ ~Idle(p)'
  <2>1. UNCHANGED <<file, log, pend, history>> /\ cmd[p].step = "next" /\ cmd[p].kind \in {"finalize", "restore"}
    BY <1>6 DEF SkipEntry, EntryGone, CheckEntry, Visits
  <2>2. PICK x : Leave(p, e, x)
    BY <1>6 DEF SkipEntry, EntryGone, CheckEntry
  <2>3. cmd'[p].kind = cmd[p].kind
    BY <1>0, <2>2, LedgerFacts DEF Leave, Cmd
  <2>. QED
    BY <1>3, <1>k, <2>1, <2>3
<1>7. ASSUME NEW p \in Proc, EntryFails(p) \/ AppendEntry(p) \/ UnlinkEntry(p) \/ RestoreEntry(p)
      PROVE  Live(p)' /\ ~Idle(p)'
  <2>1. cmd[p].kind \in {"finalize", "restore"} /\ cmd'[p].kind = cmd[p].kind
    <3>1. cmd[p].kind \in {"finalize", "restore"}
      BY <1>0, <1>7 DEF EntryFails, AppendEntry, UnlinkEntry, RestoreEntry, Checked, Running
    <3>. QED
      BY <1>0, <1>7, <3>1, LedgerFacts DEF EntryFails, AppendEntry, UnlinkEntry, RestoreEntry, Takes, Cmd
  <2>2. ~Idle(p) /\ ~Idle(p)' /\ Live(p)
    BY <1>k, <2>1 DEF Ledger
  <2>3. CASE EntryFails(p)
    BY <1>3, <2>1, <2>2, <2>3 DEF EntryFails, Checked
  <2>4. CASE AppendEntry(p) /\ cmd[p].step = "done"
    BY <1>0, <2>2, <2>4, LiveAppend
  <2>5. CASE AppendEntry(p) /\ cmd[p].step # "done"
    BY <1>3, <2>1, <2>2, <2>5 DEF AppendEntry
  <2>6. CASE UnlinkEntry(p) \/ RestoreEntry(p)
    BY <1>0, <2>2, <2>6, LiveTaken
  <2>. QED
    BY <1>7, <2>2, <2>3, <2>4, <2>5, <2>6
<1>8. ASSUME NEW p \in Proc, RenameRaises(p) \/ EndApply(p) \/ EndEntries(p) \/ LockTimeout(p) \/ Crash(p)
      PROVE  Agree(file', stashed', log', lost', torn') /\ Idle(p)'
  <2>1. ~Idle(p) /\ file' = file /\ stashed' = stashed
    BY <1>0, <1>8, <1>k DEF RenameRaises, EndApply, EndEntries, LockTimeout, Crash, MoreRows, Running
  <2>2. Live(p)
    BY <2>1 DEF Ledger
  <2>3. CASE Discard(p)
    <3>1. lost' = lost \cup touched[p] /\ torn' = torn \cup Taken(p) /\ log' = log /\ Idle(p)'
      BY <1>0, <2>3, LedgerFacts DEF Discard, Taken, Gone, Idle
    <3>. QED
      BY <2>1, <2>2, <3>1 DEF Live
  <2>4. CASE Commit(p) /\ cmd[p].step = "next"
    <3>1. lost' = lost \ touched[p] /\ torn' = (torn \ Keys(pend[p])) \cup Gone(p) /\ log' = Rows(p) /\ Idle(p)'
      BY <1>0, <2>4, LedgerFacts DEF Commit, Gone, Idle, Rows
    <3>. QED
      BY <2>1, <2>2, <3>1 DEF Live
  <2>. QED
    BY <1>8, <2>3, <2>4 DEF RenameRaises, EndApply, EndEntries, LockTimeout, Crash
<1>9. CASE (\E s \in Source : CreateFile(s)) \/ Tick \/ UNCHANGED vars
  <2>1. UNCHANGED <<log, pend, cmd, stashed, touched, lost, torn>>
    BY <1>9, NoCommand
  <2>2. \A d \in Dest : file'[d] = file[d]
    BY <1>0, <1>9, LedgerFacts DEF CreateFile, Tick, vars
  <2>3. ASSUME NEW p \in Proc, ~Idle(p)
        PROVE  Live(p)'
    <3>0. /\ Agree(file, stashed, log, lost \cup touched[p], torn \cup Taken(p))
          /\ Agree(file, stashed, Rows(p), lost \ touched[p], (torn \ Keys(pend[p])) \cup Gone(p))
          /\ log \in Seq(Row) /\ Rows(p) \in Seq(Row)
      BY <1>0, <2>3, LedgerFacts DEF Ledger, Live
    <3>1. Agree(file', stashed, log, lost \cup touched[p], torn \cup Taken(p))
      BY <2>2, <3>0, AgreeKept
    <3>2. Agree(file', stashed, Rows(p), lost \ touched[p], (torn \ Keys(pend[p])) \cup Gone(p))
      BY <2>2, <3>0, AgreeKept
    <3>. QED
      BY <2>1, <3>1, <3>2 DEF Live, Rows, Gone, Taken
  <2>4. Quiet => Agree(file', stashed, log, lost, torn)
    BY <1>0, <2>2, LedgerFacts, AgreeKept DEF Ledger
  <2>. QED
    BY <2>1, <2>3, <2>4 DEF Ledger, Quiet, Idle
<1>10. ASSUME NEW p \in Proc, Command(p)
       PROVE  Ledger'
  <2>1. ASSUME NEW r \in setting.runs, NEW b \in BOOLEAN,
               StartApply(p, r, b) \/ StartFinalize(p, r, b) \/ StartRestore(p, r)
        PROVE  Ledger'
    <3>1. r \in Run
      BY <1>0, RunsGiven
    <3>2. Live(p)' /\ ~Idle(p)'
      BY <1>2, <2>1, <3>1
    <3>. QED
      BY <1>1, <1>10, <3>2
  <2>2. CASE \E e \in cmd[p].todo : SkipEntry(p, e) \/ EntryGone(p, e) \/ CheckEntry(p, e)
    BY <1>1, <1>6, <1>10, <2>2
  <2>3. CASE \/ SkipRow(p) \/ CheckRow(p) \/ RenameRow(p)
             \/ EntryFails(p) \/ AppendEntry(p) \/ UnlinkEntry(p) \/ RestoreEntry(p)
    <3>1. Live(p)' /\ ~Idle(p)'
      BY <1>4, <1>5, <1>7, <2>3
    <3>. QED
      BY <1>1, <1>10, <3>1
  <2>4. CASE RenameRaises(p) \/ EndApply(p) \/ EndEntries(p) \/ LockTimeout(p) \/ Crash(p)
    BY <1>1, <1>8, <1>10, <2>4
  <2>5. \A b \in BOOLEAN, r \in setting.runs : StartRestore(p, r) => Ledger'
    BY <2>1
  <2>. QED
    BY <1>10, <2>1, <2>2, <2>3, <2>4, <2>5 DEF Command
<1>. QED
  BY <1>9, <1>10 DEF Next

-----------------------------------------------------------------------------
(* What holds when commands run one at a time. *)

(* A dry run leaves nothing behind: no row past its check renames. *)
LEMMA NextDryRun ==
  ASSUME setting.alone, TypeOK, Running, Solo, DryRun, [Next]_vars
  PROVE  DryRun'
<1>0. cmd \in [Proc -> Cmd] /\ pend \in [Proc -> Seq(Row)] /\ touched \in [Proc -> SUBSET Content]
  BY DEF TypeOK
<1>1. ASSUME NEW p \in Proc, Command(p),
             cmd'[p].kind = "apply" /\ cmd'[p].opt =>
               cmd'[p].step = "next" /\ pend'[p] = << >> /\ touched'[p] = {}
      PROVE  DryRun'
  <2>1. \A q \in Proc \ {p} : cmd'[q].kind = "idle"
    BY <1>1, Alone DEF Idle, IdleCmd, Started
  <2>. QED
    BY <1>1, <2>1 DEF DryRun, Applying
<1>2. ASSUME NEW p \in Proc, NEW r \in Run, NEW b \in BOOLEAN, StartApply(p, r, b)
      PROVE  cmd'[p].step = "next" /\ pend'[p] = << >> /\ touched'[p] = {}
  <2>1. pend[p] = << >> /\ touched[p] = {}
    BY <1>2 DEF StartApply, MayStart, Solo
  <2>. QED
    BY <1>0, <1>2, <2>1 DEF StartApply, Started, history
<1>3. ASSUME NEW p \in Proc, NEW r \in Run, NEW b \in BOOLEAN, StartFinalize(p, r, b) \/ StartRestore(p, r)
      PROVE  cmd'[p].kind # "apply"
  BY <1>0, <1>3 DEF StartFinalize, StartRestore, Started
<1>4. ASSUME NEW p \in Proc, SkipRow(p) \/ CheckRow(p), cmd'[p].kind = "apply", cmd'[p].opt
      PROVE  cmd'[p].step = "next" /\ pend'[p] = << >> /\ touched'[p] = {}
  <2>1. cmd[p].kind = "apply" /\ cmd[p].opt = cmd'[p].opt
    <3>1. cmd[p].kind = "apply"
      BY <1>4 DEF SkipRow, CheckRow, MoreRows
    <3>2. PICK n, x : cmd' = [cmd EXCEPT ![p].row = n, ![p].step = x] \/ cmd' = [cmd EXCEPT ![p].step = x]
      BY <1>4 DEF SkipRow, CheckRow
    <3>. QED
      BY <1>0, <3>1, <3>2 DEF Cmd
  <2>2. pend[p] = << >> /\ touched[p] = {}
    BY <1>4, <2>1 DEF DryRun, Applying
  <2>3. SkipRow(p)
    BY <1>4, <2>1 DEF CheckRow
  <2>. QED
    BY <1>0, <2>2, <2>3 DEF SkipRow, history, Cmd
<1>5. ASSUME NEW p \in Proc, RenameRow(p)
      PROVE  ~cmd'[p].opt
  <2>1. ~cmd[p].opt
    BY <1>0, <1>5 DEF RenameRow, MoreRows, DryRun, Applying, Cmd
  <2>. QED
    BY <1>0, <1>5, <2>1 DEF RenameRow, Cmd
<1>6. ASSUME NEW p \in Proc, RenameRaises(p) \/ EndApply(p) \/ EndEntries(p) \/ LockTimeout(p) \/ Crash(p)
      PROVE  cmd'[p].kind # "apply"
  <2>1. cmd' = [cmd EXCEPT ![p] = IdleCmd]
    BY <1>6 DEF RenameRaises, EndApply, EndEntries, LockTimeout, Crash, Commit, Discard
  <2>. QED
    BY <1>0, <2>1 DEF IdleCmd, Started
<1>7. ASSUME NEW p \in Proc, NEW e \in cmd[p].todo, SkipEntry(p, e) \/ EntryGone(p, e) \/ CheckEntry(p, e)
      PROVE  cmd'[p].kind # "apply"
  <2>1. cmd[p].kind # "apply"
    BY <1>7 DEF SkipEntry, EntryGone, CheckEntry, Visits
  <2>2. PICK x : Leave(p, e, x)
    BY <1>7 DEF SkipEntry, EntryGone, CheckEntry
  <2>. QED
    BY <1>0, <2>1, <2>2 DEF Leave, Cmd
<1>8. ASSUME NEW p \in Proc, EntryFails(p) \/ UnlinkEntry(p) \/ RestoreEntry(p) \/ AppendEntry(p)
      PROVE  cmd'[p].kind # "apply"
  <2>1. cmd[p].kind # "apply"
    BY <1>8 DEF EntryFails, UnlinkEntry, RestoreEntry, AppendEntry, Checked, Running
  <2>. QED
    BY <1>0, <1>8, <2>1 DEF EntryFails, UnlinkEntry, RestoreEntry, AppendEntry, Takes, Cmd
<1>9. CASE (\E s \in Source : CreateFile(s)) \/ Tick \/ UNCHANGED vars
  BY <1>9, NoCommand DEF DryRun, Applying
<1>10. ASSUME NEW p \in Proc, Command(p)
       PROVE  DryRun'
  BY <1>1, <1>2, <1>3, <1>4, <1>5, <1>6, <1>7, <1>8, <1>10, RunsGiven DEF Command
<1>. QED
  BY <1>9, <1>10 DEF Next

(* What a command takes while none has died is the file of the entry in hand. *)
LEMMA TakesItsOwn ==
  ASSUME TypeOK, Running, InPlace, HomeInv, Hand, Ledger, Harmless, crashes = 0,
         NEW p \in Proc, UnlinkEntry(p) \/ RestoreEntry(p)
  PROVE  stashed[file[cmd[p].cur.dst]] = cmd[p].cur
<1>. DEFINE e == cmd[p].cur
<1>1. /\ cmd[p].kind \in {"finalize", "restore"} /\ cmd[p].step = "checked" /\ file[e.dst] # NoFile
      /\ e \in InFlight(Rows(p))
  BY DEF UnlinkEntry, RestoreEntry, Checked, Hand
<1>2. ~Idle(p)
  BY <1>1 DEF Idle, IdleCmd, Started
<1>3. Agree(file, stashed, Rows(p), lost \ touched[p], (torn \ Keys(pend[p])) \cup Gone(p))
  BY <1>2 DEF Ledger, Live
<1>4. (torn \ Keys(pend[p])) \cup Gone(p) = {}
  BY <1>1 DEF Harmless, Gone
<1>. QED
  BY <1>1, <1>3, <1>4 DEF Agree

(* No step but a death makes an exception.                                    *)
LEMMA NextHarmless ==
  ASSUME setting.alone, IInv, HomeInv, Solo, Hand, DryRun, Ledger, Harmless, [Next]_vars
  PROVE  Harmless'
<1>0. TypeOK /\ Running /\ Fresh /\ InPlace
  BY DEF IInv
<1>. SUFFICES ASSUME crashes' = 0
              PROVE  /\ lost' = {} /\ torn' = {}
                     /\ \A s \in Source :
                          file'[s] # NoFile /\ stashed'[file'[s]] # None => stashed'[file'[s]].src = s
  BY DEF Harmless
<1>1. crashes = 0
  <2>1. crashes \in Nat
    BY <1>0 DEF TypeOK
  <2>2. crashes' = crashes \/ crashes' = crashes + 1
    BY DEF Next, Command, StartApply, StartFinalize, StartRestore, SkipRow, CheckRow, RenameRow,
           RenameRaises, EndApply, SkipEntry, EntryGone, CheckEntry, EntryFails, UnlinkEntry, RestoreEntry,
           AppendEntry, LockTimeout, EndEntries, Crash, CreateFile, Tick, vars, world
  <2>. QED
    BY <2>1, <2>2
<1>2. /\ lost = {} /\ torn = {}
      /\ \A s \in Source : file[s] # NoFile /\ stashed[file[s]] # None => stashed[file[s]].src = s
  BY <1>1 DEF Harmless
<1>3. lost' = {} /\ torn' = {}
  <2>1. CASE lost' = lost /\ torn' = torn
    BY <1>2, <2>1
  <2>2. ASSUME NEW p \in Proc, UnlinkEntry(p) \/ RestoreEntry(p)
        PROVE  lost' = lost /\ torn' = torn
    <3>1. stashed[file[cmd[p].cur.dst]] = cmd[p].cur
      BY <1>0, <1>1, <2>2, TakesItsOwn
    <3>. QED
      BY <2>2, <3>1 DEF UnlinkEntry, RestoreEntry, Takes
  <2>3. ASSUME NEW p \in Proc, Commit(p)
        PROVE  lost' = {} /\ torn' = {}
    BY <1>2, <2>3 DEF Commit
  <2>4. ASSUME NEW p \in Proc, EndApply(p), Discard(p), cmd[p].opt
        PROVE  lost' = {} /\ torn' = {}
    <3>1. cmd[p].kind = "apply" /\ cmd[p].step = "next" /\ touched[p] = {}
      BY <2>4 DEF EndApply, DryRun, Applying
    <3>. QED
      BY <1>2, <2>4, <3>1 DEF Discard
  <2>5. ASSUME NEW p \in Proc, RenameRaises(p) \/ Crash(p)
        PROVE  FALSE
    <3>1. crashes' = crashes + 1
      BY <2>5 DEF RenameRaises, Crash
    <3>. QED
      BY <1>1, <3>1
  <2>6. ASSUME NEW p \in Proc, LockTimeout(p)
        PROVE  FALSE
    <3>1. PICK q \in Proc : q # p /\ lock = q
      BY <1>0, <2>6 DEF LockTimeout, TypeOK
    <3>2. ~Idle(q)
      BY <3>1 DEF Solo
    <3>3. ~Idle(p)
      BY <2>6 DEF LockTimeout, Idle, IdleCmd, Started
    <3>. QED
      BY <3>1, <3>2, <3>3 DEF Solo
  <2>7. ASSUME NEW p \in Proc, EndApply(p) \/ EndEntries(p)
        PROVE  lost' = {} /\ torn' = {}
    BY <2>3, <2>4, <2>7 DEF EndApply, EndEntries
  <2>8. ASSUME NEW p \in Proc, NEW r \in Run, NEW b \in BOOLEAN,
               StartApply(p, r, b) \/ StartFinalize(p, r, b) \/ StartRestore(p, r)
        PROVE  lost' = lost /\ torn' = torn
    BY <2>8 DEF StartApply, StartFinalize, StartRestore, history
  <2>9. ASSUME NEW p \in Proc, SkipRow(p) \/ CheckRow(p) \/ RenameRow(p) \/ EntryFails(p) \/ AppendEntry(p)
        PROVE  lost' = lost /\ torn' = torn
    BY <2>9 DEF SkipRow, CheckRow, RenameRow, EntryFails, AppendEntry, history
  <2>10. ASSUME NEW p \in Proc, NEW e \in cmd[p].todo, SkipEntry(p, e) \/ EntryGone(p, e) \/ CheckEntry(p, e)
         PROVE  lost' = lost /\ torn' = torn
    BY <2>10 DEF SkipEntry, EntryGone, CheckEntry, history
  <2>11. CASE (\E s \in Source : CreateFile(s)) \/ Tick \/ UNCHANGED vars
    BY <2>1, <2>11, NoCommand
  <2>. QED
    BY <1>0, <2>1, <2>2, <2>5, <2>6, <2>7, <2>8, <2>9, <2>10, <2>11, RunsGiven DEF Next, Command
<1>4. \A s \in Source : file'[s] # NoFile /\ stashed'[file'[s]] # None => stashed'[file'[s]].src = s
  <2>. SUFFICES ASSUME NEW s \in Source, file'[s] # NoFile, stashed'[file'[s]] # None
                PROVE  stashed'[file'[s]].src = s
    OBVIOUS
  <2>0. /\ file \in [Path -> Content \cup {NoFile}] /\ stashed \in [Content -> Entry \cup {None}]
        /\ Source \cap Dest = {} /\ Path = Source \cup Dest /\ edits \in Nat
    BY <1>0, FileFacts
  <2>1. CASE file' = file /\ stashed' = stashed
    BY <1>2, <2>1
  <2>2. ASSUME NEW p \in Proc, RenameRow(p)
        PROVE  stashed'[file'[s]].src = s
    <3>1. PICK x \in Source, y \in Dest : x = RowSource(p) /\ y = RowDest(p)
      BY <1>0, <2>2, RowTypes DEF RenameRow
    <3>2. PICK e : stashed' = [stashed EXCEPT ![file[x]] = e]
      BY <2>2, <3>1 DEF RenameRow
    <3>3. file' = [file EXCEPT ![y] = file[x], ![x] = NoFile]
      BY <2>2, <3>1 DEF RenameRow
    <3>4. file'[s] = file[s] /\ s # x /\ file[s] # file[x] /\ file[s] \in Content
      BY <1>0, <2>0, <3>3 DEF Fresh
    <3>5. stashed'[file'[s]] = stashed[file[s]]
      BY <2>0, <3>2, <3>4
    <3>. QED
      BY <1>2, <3>4, <3>5
  <2>3. ASSUME NEW p \in Proc, UnlinkEntry(p)
        PROVE  stashed'[file'[s]].src = s
    <3>1. cmd[p].cur.dst \in Dest /\ stashed' = stashed /\ file' = [file EXCEPT ![cmd[p].cur.dst] = NoFile]
      BY <1>0, <2>3 DEF UnlinkEntry, Running, Entry
    <3>2. file'[s] = file[s]
      BY <2>0, <3>1
    <3>. QED
      BY <1>2, <3>1, <3>2
  <2>4. ASSUME NEW p \in Proc, RestoreEntry(p)
        PROVE  stashed'[file'[s]].src = s
    <3>1. stashed[file[cmd[p].cur.dst]] = cmd[p].cur
      BY <1>0, <1>1, <2>4, TakesItsOwn
    <3>2. cmd[p].cur.src \in Source /\ cmd[p].cur.dst \in Dest
      BY <1>0, <2>4 DEF RestoreEntry, Running, Entry
    <3>3. /\ file' = [file EXCEPT ![cmd[p].cur.src] = file[cmd[p].cur.dst], ![cmd[p].cur.dst] = NoFile]
          /\ stashed' = stashed
      BY <2>4 DEF RestoreEntry
    <3>4. file'[s] = IF s = cmd[p].cur.src THEN file[cmd[p].cur.dst] ELSE file[s]
      BY <2>0, <3>2, <3>3
    <3>. QED
      BY <1>2, <3>1, <3>3, <3>4
  <2>5. ASSUME NEW t \in Source, CreateFile(t)
        PROVE  stashed'[file'[s]].src = s
    <3>1. file' = [file EXCEPT ![t] = <<t, edits + 1>>] /\ stashed' = stashed /\ edits < MaxEdits
      BY <2>5 DEF CreateFile, history
    <3>2. <<t, edits + 1>> \in Content /\ edits + 1 > edits
      BY <2>0, <3>1, StashAssumption DEF Content, StashAssumption
    <3>3. stashed[<<t, edits + 1>>] = None
      BY <1>0, <3>2 DEF Fresh
    <3>4. s # t /\ file'[s] = file[s]
      BY <2>0, <3>1, <3>3
    <3>. QED
      BY <1>2, <3>1, <3>4
  <2>. QED
    BY <1>0, <2>1, <2>2, <2>3, <2>4, <2>5, FileSteps
<1>. QED
  BY <1>3, <1>4

(* The setting of a behaviour does not change.                                *)
LEMMA SameSetting == [Next]_vars => setting' = setting
BY DEF Next, Command, StartApply, StartFinalize, StartRestore, SkipRow, CheckRow, RenameRow,
       RenameRaises, EndApply, SkipEntry, EntryGone, CheckEntry, EntryFails, UnlinkEntry, RestoreEntry,
       AppendEntry, LockTimeout, EndEntries, Crash, CreateFile, Tick, vars, world

(* With one command at a time, the log and the disk account for each other at *)
(* every step of it.                                                          *)
LEMMA OneAtATime == Spec => []AloneInv
<1>1. Init => SoloInv
  <2>. SUFFICES ASSUME Init PROVE SoloInv
    OBVIOUS
  <2>1. \A p \in Proc : Idle(p) /\ cmd[p].kind = "idle" /\ pend[p] = << >> /\ touched[p] = {} /\ Rows(p) = log
    BY DEF Init, Idle, IdleCmd, Started, Rows
  <2>2. InFlight(log) = {} /\ OnceIn(log)
    BY DEF Init, InFlight, OnceIn
  <2>3. \A d \in Dest : file[d] = NoFile
    BY PathsApart DEF Init, Path
  <2>4. Ledger
    BY <2>1, <2>2, <2>3 DEF Ledger, Agree
  <2>5. Harmless
    <3>1. \A s \in Source : file[s] = <<s, 0>> /\ <<s, 0>> \in Content
      BY StashAssumption DEF Init, Path, Content, StashAssumption
    <3>2. \A s \in Source : stashed[file[s]] = None
      <4>. SUFFICES ASSUME NEW s \in Source PROVE stashed[file[s]] = None
        OBVIOUS
      <4>1. file[s] = <<s, 0>> /\ stashed[<<s, 0>>] = None
        BY <3>1 DEF Init
      <4>. QED
        BY <4>1
    <3>. QED
      BY <3>2 DEF Harmless, Init
  <2>6. Solo
    BY <2>1, StashAssumption DEF Solo, Init, StashAssumption
  <2>. QED
    BY <2>1, <2>2, <2>4, <2>5, <2>6 DEF SoloInv, Hand, DryRun, Applying, Once
<1>2. IInv /\ HomeInv /\ AloneInv /\ [Next]_vars => AloneInv'
  <2>. SUFFICES ASSUME IInv, HomeInv, AloneInv, [Next]_vars, setting'.alone
                PROVE  SoloInv'
    BY DEF AloneInv
  <2>1. setting.alone /\ SoloInv
    BY SameSetting DEF AloneInv
  <2>. QED
    BY <2>1, NextSolo, NextHand, NextDryRun, NextOnce, NextLedger, NextHarmless DEF IInv, SoloInv
<1>3. Init => AloneInv
  BY <1>1 DEF AloneInv
<1>. QED
  BY <1>2, <1>3, Inductive, Homes, PTL DEF Spec

(* Restore puts a file back where it was taken from, whichever commands       *)
(* overlap or die, or where a file that shared its path in the stash was; and *)
(* with one command at a time the latter only after a command died.           *)
THEOREM PutsBackHome == Spec => []RestoresHome
<1>1. ASSUME IInv, HomeInv, AloneInv
      PROVE  RestoresHome
  <2>. SUFFICES ASSUME NEW s \in Source, file[s] # NoFile
                PROVE  IF stashed[file[s]] = None THEN Home(file[s]) = s
                       ELSE \/ stashed[file[s]].src = s
                            \/ /\ \E r \in Run : DestOf[<<r, s>>] = stashed[file[s]].dst
                               /\ setting.alone => crashes > 0
    BY DEF RestoresHome
  <2>1. IF stashed[file[s]] = None THEN Home(file[s]) = s
        ELSE stashed[file[s]].src = s \/ \E r \in Run : DestOf[<<r, s>>] = stashed[file[s]].dst
    BY <1>1 DEF HomeInv, Belongs
  <2>2. crashes = 0 \/ crashes > 0
    BY <1>1 DEF IInv, TypeOK
  <2>3. setting.alone /\ crashes = 0 /\ stashed[file[s]] # None => stashed[file[s]].src = s
    BY <1>1 DEF AloneInv, SoloInv, Harmless
  <2>. QED
    BY <2>1, <2>2, <2>3
<1>. QED
  BY <1>1, OneAtATime, Inductive, Homes, PTL

(* Between commands that come one at a time, with any crashes and whatever    *)
(* other programs wrote, the stash listing is what is in the stash, but for   *)
(* files that left it without a row; and while no command died it is just it. *)
THEOREM ListingIsTheDisk == Spec => []LedgerMatchesDisk
<1>1. AloneInv => LedgerMatchesDisk
  BY DEF AloneInv, SoloInv, Ledger, Agree, Harmless, LedgerMatchesDisk
<1>. QED
  BY <1>1, OneAtATime, PTL

(* Commands that come one at a time close no entry twice: no second finalize  *)
(* or restore row without a stash_committed row between.                      *)
THEOREM ClosedOnlyOnce == Spec => []ClosedOnce
<1>1. AloneInv => ClosedOnce
  BY DEF AloneInv, SoloInv, Once, OnceIn, ClosedOnce
<1>. QED
  BY <1>1, OneAtATime, PTL

(* With one command at a time and without --force, no file whose rename is on *)
(* record is unlinked before its cooling-off is over, also when it was        *)
(* restored and stashed again, unless the entry in hand has lost its own file.*)
THEOREM CoolsOff == Spec => RecordedCoolingOffKept
<1>1. ASSUME IInv, HomeInv, AloneInv, [Next]_vars, setting.alone, NEW p \in Proc, NEW d \in Dest,
             UnlinksUnforced(p, d), file[d] \notin lost, Key(cmd[p].cur) \notin torn
      PROVE  clock - stashed[file[d]].at >= CoolingOff
  <2>. DEFINE e == cmd[p].cur
  <2>0. TypeOK /\ Running /\ InPlace /\ Solo /\ Hand /\ Ledger
    BY <1>1 DEF IInv, AloneInv, SoloInv
  <2>1. cmd[p].kind = "finalize" /\ ~cmd[p].opt /\ cmd[p].step = "checked" /\ cmd'[p].step = "done"
        /\ file[d] # NoFile /\ file'[d] = NoFile
    BY <1>1 DEF UnlinksUnforced
  <2>2. Command(p)
    <3>1. ASSUME NEW q \in Proc, Command(q), q # p
          PROVE  FALSE
      BY <1>1, <2>0, <2>1, <3>1, Alone
    <3>2. CASE (\E s \in Source : CreateFile(s)) \/ Tick \/ UNCHANGED vars
      BY <2>1, <3>2, NoCommand
    <3>. QED
      BY <1>1, <3>1, <3>2 DEF Next
  <2>3. UnlinkEntry(p)
    <3>0. cmd \in [Proc -> Cmd]
      BY <2>0 DEF TypeOK
    <3>1. ASSUME NEW c, cmd' = [cmd EXCEPT ![p] = c], c.step # "done"
          PROVE  FALSE
      BY <2>1, <3>0, <3>1
    <3>2. IdleCmd.step # "done" /\ \A k, b, r, T : Started(k, b, r, T).step # "done"
      BY DEF IdleCmd, Started
    <3>3. ~(RenameRaises(p) \/ EndApply(p) \/ EndEntries(p) \/ LockTimeout(p) \/ Crash(p))
      BY <3>1, <3>2 DEF RenameRaises, EndApply, EndEntries, LockTimeout, Crash, Commit, Discard
    <3>4. \A r \in Run, b \in BOOLEAN : ~(StartApply(p, r, b) \/ StartFinalize(p, r, b) \/ StartRestore(p, r))
      BY <2>1 DEF StartApply, StartFinalize, StartRestore, MayStart, Idle, IdleCmd, Started
    <3>5. \A x \in cmd[p].todo : ~(SkipEntry(p, x) \/ EntryGone(p, x) \/ CheckEntry(p, x))
      BY <2>1 DEF SkipEntry, EntryGone, CheckEntry, Visits
    <3>6. ~(SkipRow(p) \/ CheckRow(p) \/ RenameRow(p) \/ RestoreEntry(p) \/ AppendEntry(p))
      BY <2>1 DEF SkipRow, CheckRow, RenameRow, MoreRows, RestoreEntry, Checked, AppendEntry
    <3>7. ~EntryFails(p)
      BY <2>1, <3>0 DEF EntryFails, Cmd
    <3>. QED
      BY <2>0, <2>2, <3>3, <3>4, <3>5, <3>6, <3>7, RunsGiven DEF Command
  <2>4. d = e.dst
    BY <2>0, <2>1, <2>3, <1>1, LedgerFacts DEF UnlinkEntry
  <2>5. e \in InFlight(Rows(p)) /\ clock - e.at >= CoolingOff
    BY <2>0, <2>1 DEF Hand
  <2>6. stashed[file[d]] = e
    <3>1. ~Idle(p)
      BY <2>1 DEF Idle, IdleCmd, Started
    <3>2. Agree(file, stashed, Rows(p), lost \ touched[p], (torn \ Keys(pend[p])) \cup Gone(p))
      BY <2>0, <3>1 DEF Ledger, Live
    <3>3. Key(e) \notin (torn \ Keys(pend[p])) \cup Gone(p)
      BY <1>1, <2>1 DEF Gone
    <3>. QED
      BY <2>4, <2>5, <3>2, <3>3 DEF Agree
  <2>. QED
    BY <2>5, <2>6
<1>2. IInv /\ HomeInv /\ AloneInv /\ [Next]_vars => [KeepsCoolingOff]_vars
  BY <1>1 DEF KeepsCoolingOff
<1>. QED
  BY <1>2, OneAtATime, Inductive, Homes, PTL DEF RecordedCoolingOffKept, Spec
=============================================================================
