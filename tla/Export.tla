-------------------------------- MODULE Export --------------------------------
(* steward db export --overwrite, run by several processes with one target:   *)
(* the weekly job and an operator.  A database snapshot is packed into        *)
(* .<name>.partial beside the target, a name every export of that target      *)
(* shares, and the partial is renamed over the target.                        *)
(*                                                                            *)
(* A file is known by the export that created it, so that a process which     *)
(* still has a renamed or unlinked file open goes on writing to it.           *)
EXTENDS Naturals

CONSTANTS Exporter,   \* processes that export, once each
          MaxWrites,  \* bound: changes of the database
          MaxKills,   \* bound: exports that are killed
          Bad, NoFile

ExportAssumption ==
  /\ {MaxWrites, MaxKills} \subseteq Nat
  /\ NoFile \notin Exporter
  /\ Bad \notin 0..MaxWrites

VARIABLES
  live,      \* version of the live database
  taken,     \* versions snapshotted so far
  step,      \* where each export is
  snap,      \* the version it packs
  opened,    \* the file it has open, or packed
  partial,   \* the file named .<name>.partial, or NoFile
  target,    \* the file named by the target, or NoFile
  man, body, \* manifest and payload written to each file
  mixed,     \* files that two exports had open at once
  audited,   \* exports with a db_export_created row
  kills,
  shared     \* history: an export began while another was under way

vars == <<live, taken, step, snap, opened, partial, target, man, body, mixed, audited, kills, shared>>
files == <<man, body, mixed>>
places == <<partial, target>>

Step == {"ready", "snapped", "packing", "packed", "clearing", "renamed", "published", "done", "dead"}
Under(e) == step[e] \in Step \ {"ready", "done", "dead"}
Go(e, s) == step' = [step EXCEPT ![e] = s]
Writers(f) == {e \in Exporter : step[e] = "packing" /\ opened[e] = f}

Init ==
  /\ live = 0 /\ taken = {}
  /\ step = [e \in Exporter |-> "ready"]
  /\ snap = [e \in Exporter |-> 0]
  /\ opened = [e \in Exporter |-> NoFile]
  /\ partial = NoFile /\ target = NoFile
  /\ man = [f \in Exporter |-> 0] /\ body = [f \in Exporter |-> Bad] /\ mixed = {}
  /\ audited = {} /\ kills = 0 /\ shared = FALSE

-----------------------------------------------------------------------------
ChangeDatabase ==
  /\ live < MaxWrites
  /\ live' = live + 1
  /\ UNCHANGED <<taken, step, snap, opened, places, files, audited, kills, shared>>

(* backup_inventory_db copies one committed state; strip, count and hash work *)
(* on the copy.                                                               *)
Snapshot(e) ==
  /\ step[e] = "ready"
  /\ Go(e, "snapped")
  /\ snap' = [snap EXCEPT ![e] = live]
  /\ taken' = taken \cup {live}
  /\ shared' = (shared \/ \E o \in Exporter \ {e} : Under(o))
  /\ UNCHANGED <<live, opened, places, files, audited, kills>>

(* tarfile.open(partial, "w:xz"): truncates what is there, else creates it,   *)
(* and writes the manifest first.                                             *)
OpenAs(e, version) ==
  /\ step[e] = "snapped"
  /\ Go(e, "packing")
  /\ LET f == IF partial = NoFile THEN e ELSE partial
     IN /\ partial' = f
        /\ opened' = [opened EXCEPT ![e] = f]
        /\ man' = [man EXCEPT ![f] = version]
        /\ body' = [body EXCEPT ![f] = Bad]
        /\ mixed' = IF Writers(f) = {} THEN mixed \ {f} ELSE mixed \cup {f}
  /\ UNCHANGED <<live, taken, snap, target, audited, kills, shared>>

\* Fault: the manifest is made from the live database.
OpenPartialLive(e) == OpenAs(e, live)

OpenPartial(e) == OpenAs(e, snap[e])

(* The archive is closed.  Two writers at once leave it unreadable.           *)
ClosePartial(e) ==
  /\ step[e] = "packing"
  /\ Go(e, "packed")
  /\ body' = [body EXCEPT ![opened[e]] = IF opened[e] \in mixed THEN Bad ELSE snap[e]]
  /\ UNCHANGED <<live, taken, snap, opened, places, man, mixed, audited, kills, shared>>

(* An existing target is unlinked.                                            *)
ClearTarget(e) ==
  /\ step[e] = "packed"
  /\ Go(e, "clearing")
  /\ target' = NoFile
  /\ UNCHANGED <<live, taken, snap, opened, partial, files, audited, kills, shared>>

(* partial.replace(target); without a partial the export raises.              *)
RenamePartial(e) ==
  /\ step[e] = "clearing"
  /\ IF partial = NoFile THEN Go(e, "dead") /\ UNCHANGED places
                         ELSE Go(e, "renamed") /\ target' = partial /\ partial' = NoFile
  /\ UNCHANGED <<live, taken, snap, opened, files, audited, kills, shared>>

(* finally: partial.unlink(missing_ok=True), whoever's it is by now.          *)
CleanUp(e) ==
  /\ step[e] = "renamed"
  /\ Go(e, "published")
  /\ partial' = NoFile
  /\ UNCHANGED <<live, taken, snap, opened, target, files, audited, kills, shared>>

RecordExport(e) ==
  /\ step[e] = "published"
  /\ IF target = NoFile THEN Go(e, "dead") /\ UNCHANGED audited
                        ELSE Go(e, "done") /\ audited' = audited \cup {e}
  /\ UNCHANGED <<live, taken, snap, opened, places, files, kills, shared>>

(* The process is killed: what it wrote so far stays.                         *)
Kill(e) ==
  /\ Under(e) /\ kills < MaxKills
  /\ kills' = kills + 1
  /\ Go(e, "dead")
  /\ UNCHANGED <<live, taken, snap, opened, places, files, audited, shared>>

(* Packing, the unlink of the old target or the rename raises: the finally    *)
(* removes the partial on the way out.                                        *)
Raises(e) ==
  /\ step[e] \in {"packing", "packed", "clearing"} /\ kills < MaxKills
  /\ kills' = kills + 1
  /\ Go(e, "dead")
  /\ partial' = NoFile
  /\ UNCHANGED <<live, taken, snap, opened, target, files, audited, shared>>

-----------------------------------------------------------------------------
Next ==
  \/ ChangeDatabase
  \/ \E e \in Exporter :
       \/ Snapshot(e) \/ OpenPartial(e) \/ ClosePartial(e) \/ ClearTarget(e)
       \/ RenamePartial(e) \/ CleanUp(e) \/ RecordExport(e) \/ Kill(e) \/ Raises(e)

Spec == Init /\ [][Next]_vars

-----------------------------------------------------------------------------
TypeOK ==
  /\ live \in 0..MaxWrites /\ taken \subseteq 0..MaxWrites
  /\ step \in [Exporter -> Step] /\ snap \in [Exporter -> 0..MaxWrites]
  /\ opened \in [Exporter -> Exporter \cup {NoFile}]
  /\ {partial, target} \subseteq Exporter \cup {NoFile}
  /\ man \in [Exporter -> 0..MaxWrites] /\ body \in [Exporter -> 0..MaxWrites \cup {Bad}]
  /\ mixed \subseteq Exporter /\ audited \subseteq Exporter
  /\ kills \in Nat /\ shared \in BOOLEAN

NoEnvelope == NoFile

(* What a reader of the target finds.                                         *)
Published == IF target = NoFile THEN NoEnvelope
             ELSE [man |-> man[target], body |-> body[target]]

Abstract == INSTANCE Publisher WITH Payload <- 0..MaxWrites, published <- Published

(* Readers may assume Publisher of every host, whoever exports at once and    *)
(* wherever an export is killed: an envelope with another snapshot's payload  *)
(* than its manifest names is never published.                                *)
ImplementsPublisher == Abstract!PublisherSpec

(* While exports of a target do not overlap, a reader never sees a partial    *)
(* envelope, and a recorded export is there or was replaced by a later one.   *)
NeverPartial ==
  ~shared => /\ target # NoFile => body[target] = man[target]
             /\ (audited # {} /\ target = NoFile) => \E e \in Exporter : step[e] \in {"clearing", "dead"}
=============================================================================
