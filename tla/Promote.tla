-------------------------------- MODULE Promote --------------------------------
(* Promote and nas_manifest rows of an apply: a promote copies a file of the  *)
(* backup tier to a live destination, a nas_manifest row appends a line to an *)
(* export file for the operator.                                              *)
(*                                                                            *)
(* apply_start takes the write lock of the database, so that one apply runs   *)
(* at a time; its audit rows are committed together at its end, what it does  *)
(* to files stays.  Other programs write sources and destinations at any      *)
(* time, but no file whose name ends in .inflight.                            *)
EXTENDS Naturals, Sequences, FiniteSets, SequencesExt

CONSTANTS Source,     \* paths on policy.defaults.source_tier
          Dest,       \* destinations, on a live tier
          Content,
          Held,       \* Held[s]: what source s holds at first
          DestOf,     \* DestOf[s]: _resolve_destination; sources may collide
          MaxPlans, MaxEdits, MaxFaults,  \* bounds: manifests, writes of others, faults
          Bad,        \* part of a content, or two mixed up
          Gone        \* no file

PromoteAssumption ==
  /\ Source \cap Dest = {}
  /\ Held \in [Source -> Content]
  /\ DestOf \in [Source -> Dest]
  /\ {Bad, Gone} \cap Content = {} /\ Bad # Gone
  /\ {MaxPlans, MaxEdits, MaxFaults} \subseteq Nat

Path == Source \cup Dest
RowKind == {"promote", "nas_manifest"}
ManifestRow == [action : RowKind, source : Source, content : Content]
Outcome == {"promote_committed", "promote_skipped", "promote_mismatch", "nas_manifest_exported"}

(* An audit row.  seen is history: nobody else has written the destination    *)
(* since apply looked at it last.                                             *)
AuditRow == [action : Outcome, source : Source, content : Content, seen : BOOLEAN]

VARIABLES
  file,      \* what each path holds
  inflight,  \* inflight[d]: what <d>.inflight holds
  export,    \* rows with a line in the NAS export of their run
  claims,    \* current claims: path and content
  plans,     \* manifests
  job,       \* the apply that runs
  pend,      \* its audit rows
  log,       \* audit rows committed
  edits, faults

vars == <<file, inflight, export, claims, plans, job, pend, log, edits, faults>>
disk == <<file, inflight, export>>
outside == <<claims, plans, edits>>

-----------------------------------------------------------------------------
Idle == [at |-> "idle"]
Row == job.rows[1]
To == DestOf[Row.source]
At(step) == job.at = step
Goes(step) == job' = [job EXCEPT !.at = step]

(* The row is over; what befell it is recorded.                               *)
Records(action) ==
  /\ pend' = pend \cup {[action |-> action, source |-> Row.source, content |-> Row.content, seen |-> job.seen]}
  /\ job' = [job EXCEPT !.rows = Tail(@), !.at = "row"]
Skips == pend' = pend /\ job' = [job EXCEPT !.rows = Tail(@), !.at = "row"]

Init ==
  /\ file = [p \in Path |-> IF p \in Source THEN Held[p] ELSE Gone]
  /\ inflight = [d \in Dest |-> Gone]
  /\ export = {}
  /\ claims = {} /\ plans = {}
  /\ job = Idle /\ pend = {} /\ log = {}
  /\ edits = 0 /\ faults = 0

-----------------------------------------------------------------------------
(* A scan of both tiers.                                                      *)
Scan ==
  /\ claims' = {<<p, file[p]>> : p \in {q \in Path : file[q] # Gone}}
  /\ claims' # claims
  /\ UNCHANGED <<disk, plans, job, pend, log, edits, faults>>

(* _backup_only_permanodes *)
BackupOnly == {c \in Content : /\ \E k \in claims : k[2] = c
                               /\ \A k \in claims : k[2] = c => k[1] \in Source}

(* reconcile_promote: for each content only the backup tier has, one source   *)
(* in any order; or reconcile_dedup_retire where that tier is read-only: the  *)
(* claims that have a better copy.                                            *)
Plan ==
  /\ Cardinality(plans) < MaxPlans
  /\ \/ \E pick \in [BackupOnly -> Source] :
          /\ \A c \in BackupOnly : <<pick[c], c>> \in claims
          /\ plans' = plans \cup {{[action |-> "promote", source |-> pick[c], content |-> c] : c \in BackupOnly}}
     \/ plans' = plans \cup
          {{[action |-> "nas_manifest", source |-> k[1], content |-> k[2]] :
              k \in {k \in claims : k[1] \in Source /\ \E d \in Dest : <<d, k[2]>> \in claims}}}
  /\ plans' # plans
  /\ UNCHANGED <<disk, claims, job, pend, log, edits, faults>>

-----------------------------------------------------------------------------
(* apply of a manifest, whose rows come in some order, and its end.           *)
StartApply ==
  /\ At("idle")
  /\ \E m \in plans \ {{}} : \E rows \in SeqOf(m, Cardinality(m)) :
       ToSet(rows) = m /\ job' = [at |-> "row", rows |-> rows, seen |-> TRUE, read |-> {}]
  /\ UNCHANGED <<disk, pend, log, outside, faults>>

EndApply ==
  /\ At("row") /\ job.rows = << >>
  /\ job' = Idle /\ log' = log \cup pend /\ pend' = {}
  /\ UNCHANGED <<disk, outside, faults>>

\* Fault: a destination with another content is taken for an old version.
CheckDestStale ==
  /\ At("row") /\ job.rows # << >> /\ Row.action = "promote"
  /\ IF file[Row.source] = Gone THEN Skips
     ELSE IF file[To] # Row.content THEN job' = [job EXCEPT !.at = "open", !.seen = TRUE] /\ UNCHANGED pend
     ELSE job' = [job EXCEPT !.at = "present", !.seen = TRUE] /\ UNCHANGED pend
  /\ UNCHANGED <<disk, log, outside, faults>>

(* promote_with_verify: a missing source is an error of the row; an existing  *)
(* destination is hashed and never overwritten.                               *)
CheckDest ==
  /\ At("row") /\ job.rows # << >> /\ Row.action = "promote"
  /\ IF file[Row.source] = Gone THEN Skips
     ELSE /\ UNCHANGED pend
          /\ job' = [job EXCEPT !.seen = TRUE,
                       !.at = IF file[To] = Gone THEN "open"
                              ELSE IF file[To] = Row.content THEN "present" ELSE "other"]
  /\ UNCHANGED <<disk, log, outside, faults>>

RecordPresent ==
  /\ \/ At("present") /\ Records("promote_skipped")
     \/ At("other") /\ Records("promote_mismatch")
  /\ UNCHANGED <<disk, log, outside, faults>>

(* open("wb") truncates what an apply that was killed left there.             *)
OpenInflight ==
  /\ At("open") /\ file[Row.source] # Gone
  /\ inflight' = [inflight EXCEPT ![To] = Bad]
  /\ job' = [job EXCEPT !.at = "copy", !.read = {file[Row.source]}]
  /\ UNCHANGED <<file, export, pend, log, outside, faults>>

\* Fault: a copy that was read to its end is taken for the content.
VerifiedComplete(c) == c # Bad

(* The digest of the bytes that were read is the row's.                       *)
Verified(c) == c = Row.content

(* The bytes copied are what the source held, or a mixture when it was        *)
(* written meanwhile.  A copy that does not verify is removed.                *)
Copy ==
  /\ At("copy")
  /\ \E c \in IF Cardinality(job.read) = 1 THEN job.read ELSE job.read \cup {Bad} :
       /\ c # Gone
       /\ IF Verified(c)
          THEN inflight' = [inflight EXCEPT ![To] = c] /\ Goes("rename") /\ UNCHANGED pend
          ELSE inflight' = [inflight EXCEPT ![To] = Gone] /\ Records("promote_mismatch")
  /\ UNCHANGED <<file, export, log, outside, faults>>

(* os.rename replaces whatever is at the destination by now; the source's     *)
(* times are taken from it before.                                            *)
RenameInflight ==
  /\ At("rename") /\ file[Row.source] # Gone
  /\ file' = [file EXCEPT ![To] = inflight[To]]
  /\ inflight' = [inflight EXCEPT ![To] = Gone]
  /\ job' = [job EXCEPT !.at = "renamed", !.seen = TRUE]
  /\ UNCHANGED <<export, pend, log, outside, faults>>

RecordPromoted ==
  /\ At("renamed") /\ Records("promote_committed")
  /\ UNCHANGED <<disk, log, outside, faults>>

(* record_nas_manifest_row: the line is written at once.                      *)
ExportRow ==
  /\ At("row") /\ job.rows # << >> /\ Row.action = "nas_manifest"
  /\ export' = export \cup {Row}
  /\ Records("nas_manifest_exported")
  /\ UNCHANGED <<file, inflight, log, outside, faults>>

(* An OSError of the copy removes the .inflight file.  A timeout is an error  *)
(* of the row, any other ends the apply and its rows are rolled back; so it   *)
(* is when the source has gone.                                               *)
Fails ==
  /\ \/ job.at \in {"open", "rename"} /\ file[Row.source] = Gone /\ UNCHANGED faults
     \/ job.at \in {"open", "copy", "rename"} /\ faults < MaxFaults /\ faults' = faults + 1
  /\ inflight' = [inflight EXCEPT ![To] = Gone]
  /\ \/ Skips
     \/ job' = Idle /\ pend' = {}
  /\ UNCHANGED <<file, export, log, outside>>

Kill ==
  /\ job # Idle /\ faults < MaxFaults
  /\ faults' = faults + 1
  /\ job' = Idle /\ pend' = {}
  /\ UNCHANGED <<disk, log, outside>>

-----------------------------------------------------------------------------
(* Another program writes or removes a file.                                  *)
Write(p, c) ==
  /\ edits < MaxEdits /\ c # file[p]
  /\ edits' = edits + 1
  /\ file' = [file EXCEPT ![p] = c]
  /\ LET touched(r) == IF DestOf[r.source] = p THEN [r EXCEPT !.seen = FALSE] ELSE r
     IN pend' = {touched(r) : r \in pend} /\ log' = {touched(r) : r \in log}
  /\ job' = IF job = Idle \/ job.rows = << >> THEN job
            ELSE [job EXCEPT !.seen = @ /\ To # p,
                             !.read = IF At("copy") /\ Row.source = p THEN @ \cup {c} ELSE @]
  /\ UNCHANGED <<inflight, export, claims, plans, faults>>

-----------------------------------------------------------------------------
Next ==
  \/ Scan \/ Plan
  \/ StartApply \/ EndApply \/ CheckDest \/ RecordPresent \/ OpenInflight \/ Copy
  \/ RenameInflight \/ RecordPromoted \/ ExportRow \/ Fails \/ Kill
  \/ \E p \in Path, c \in Content \cup {Gone} : Write(p, c)

Spec == Init /\ [][Next]_vars

-----------------------------------------------------------------------------
TypeOK ==
  /\ file \in [Path -> Content \cup {Gone}]
  /\ inflight \in [Dest -> Content \cup {Bad, Gone}]
  /\ export \subseteq ManifestRow
  /\ claims \subseteq Path \X Content
  /\ pend \cup log \subseteq AuditRow

(* What the log says was promoted or found in place lies at its destination,  *)
(* whole and with the digest it names, until another program writes there,    *)
(* and what it says was exported is in the export: whatever was killed,       *)
(* rolled back and applied again.  An .inflight file is only left behind by a *)
(* kill ("Crash safety", promote.py).                                         *)
RecordedIsThere ==
  /\ \A r \in log :
       /\ r.action \in {"promote_committed", "promote_skipped"} /\ r.seen => file[DestOf[r.source]] = r.content
       /\ r.action = "nas_manifest_exported" =>
            [action |-> "nas_manifest", source |-> r.source, content |-> r.content] \in export
  /\ job = Idle /\ faults = 0 => \A d \in Dest : inflight[d] = Gone

(* Apply never changes a file at a destination ("NEVER overwrite",            *)
(* promote.py), except one that another program put there after apply had     *)
(* found the destination free.                                                *)
NeverOverwrites ==
  [][\A d \in Dest :
       edits' = edits /\ file[d] # Gone /\ file'[d] # file[d] => ~job.seen]_vars
=============================================================================
