------------------------------- MODULE Backlog -------------------------------
(* The plan backlog: plans registered from manifests, their status refreshed  *)
(* from the audit log, filters attached, old plans pruned.                    *)
(*                                                                            *)
(* A plan is by-id/<plan_id> with its manifest, summary.json and sidecars,    *)
(* and lines of index.jsonl, of which the last one counts.  Commands hold no  *)
(* lock and write summary and index one after the other.  LATEST has no       *)
(* reader and is left out, and so is limit=50 of the listings.                *)
EXTENDS Naturals

CONSTANTS Plan,
          Rows,       \* Rows[p]: rows_total
          Bulk,       \* plans with 1000 retire_direct rows or more
          Pure,       \* plans with no other rows
          Cloud,      \* plans with a path on Dropbox or a file provider
          Probed,     \* Probed[p]: what the caller of register finds out: reasons
          Proc,       \* processes of steward
          KeepDays,   \* plans prune --older-than-days
          MaxClock,   \* bound: days
          MaxEvents,  \* bound: commands, applies and faults
          Torn, None

Hard == {"empty_plan", "manifest_missing", "dry_run_errors"}
Reason == Hard \cup {"fp_not_ready", "dual_presence_unfiltered", "oversize_for_mcp", "stale_inventory"}
Status == {"registered", "blocked", "dry_run_ok", "dry_run_failed", "applied", "partially_applied"}

(* dry_run.json: no errors and ok, no errors and not ok, or errors.           *)
Digest == {"none", "ok", "failed", "errors"}
Record == [status : Status, reasons : SUBSET Reason, dry : Digest, created : 0..MaxClock]

BacklogAssumption ==
  /\ Rows \in [Plan -> Nat]
  /\ {Bulk, Pure, Cloud} \subseteq SUBSET Plan
  /\ Probed \in [Plan -> SUBSET {"fp_not_ready", "oversize_for_mcp", "stale_inventory"}]
  /\ {KeepDays, MaxClock, MaxEvents} \subseteq Nat
  /\ {Torn, None} \cap Record = {} /\ Torn # None

VARIABLES
  dir,       \* plans whose by-id directory exists
  tsv,       \* plans with plan.tsv in it
  filter,    \* plans with filter-stats.json in it
  digest,    \* digest[p]: dry_run.json in it
  summary,   \* summary[p]: its summary.json: a Record, Torn or None
  index,     \* index[p]: the last line of p in index.jsonl, or None
  audit,     \* audit[p]: actions of audit rows with p's manifest_run_id
  done,      \* done[p]: rows of p that applies have carried out
  cmd,       \* what each process does
  now,
  events,    \* commands, applies and faults, counted
  disturbed, \* history: commands overlapped, one was killed, or a refresh could not read the log
  told       \* history: plans refreshed since their last apply and registration

vars == <<dir, tsv, filter, digest, summary, index, audit, done, cmd, now, events, disturbed, told>>
sidecars == <<dir, tsv, filter, digest>>
log == <<audit, done>>

-----------------------------------------------------------------------------
Idle == [op |-> "idle"]
At(q, at) == cmd[q].op \in {"register", "refresh"} /\ cmd[q].at = at
Go(q, c) == cmd' = [cmd EXCEPT ![q] = c] /\ UNCHANGED <<now, events>>
Event == events < MaxEvents /\ events' = events + 1 /\ UNCHANGED now
Begin(q, c) ==
  /\ cmd[q] = Idle
  /\ cmd' = [cmd EXCEPT ![q] = c]
  /\ disturbed' = (disturbed \/ \E o \in Proc : cmd[o] # Idle)
  /\ Event

(* What of a record goes into its index line.                                 *)
Compact(rec) == [rec EXCEPT !.dry = "none"]

(* show_plan, and a row of list_plans: the summary when it can be read, else  *)
(* the index line.                                                            *)
Shown(p) == IF summary[p] = Torn THEN None ELSE summary[p]
Listed(p) == IF Shown(p) # None THEN Shown(p) ELSE index[p]

(* _looks_like_dropbox_plan *)
LooksCloud(p, sampled) == IF sampled THEN p \in Cloud ELSE p \in Pure

(* evaluate_plan_blocked_reasons *)
BlockedReasons(p, present, dry, filtered, sampled, probed) ==
  probed
  \cup {r \in {"empty_plan"} : Rows[p] = 0}
  \cup {r \in {"manifest_missing"} : ~present}
  \cup {r \in {"dry_run_errors"} : dry = "errors"}
  \cup {r \in {"dual_presence_unfiltered"} : p \in Bulk /\ ~filtered /\ LooksCloud(p, sampled)}

Init ==
  /\ dir = {} /\ tsv = {} /\ filter = {}
  /\ digest = [p \in Plan |-> "none"]
  /\ summary = [p \in Plan |-> None] /\ index = [p \in Plan |-> None]
  /\ audit = [p \in Plan |-> {}] /\ done = [p \in Plan |-> 0]
  /\ cmd = [q \in Proc |-> Idle]
  /\ now = 0 /\ events = 0 /\ disturbed = FALSE /\ told = {}

-----------------------------------------------------------------------------
(* register_plan_from_manifest up to its record: the directory, the copy of   *)
(* the manifest, what blocks the plan.                                        *)
Register(q, p) ==
  LET reasons == BlockedReasons(p, TRUE, "none", p \in filter, TRUE, Probed[p])
      rec == [status |-> IF reasons \cap Hard # {} THEN "blocked" ELSE "registered",
              reasons |-> reasons, dry |-> "none", created |-> now]
  IN /\ Begin(q, [op |-> "register", at |-> "truncate", plan |-> p, rec |-> rec])
     /\ dir' = dir \cup {p} /\ tsv' = tsv \cup {p}
     /\ told' = told \ {p}
     /\ UNCHANGED <<filter, digest, summary, index, log>>

(* plans refresh.                                                             *)
StartRefresh(q, p) ==
  /\ Begin(q, [op |-> "refresh", at |-> "read", plan |-> p])
  /\ UNCHANGED <<sidecars, summary, index, log, told>>

(* attach_filter_to_plan: the sidecar, then a refresh.                        *)
AttachFilter(q, p) ==
  /\ p \in dir
  /\ filter' = filter \cup {p}
  /\ Begin(q, [op |-> "refresh", at |-> "read", plan |-> p])
  /\ UNCHANGED <<dir, tsv, digest, summary, index, log, told>>

(* refresh_plan_status up to the audit log; it raises without a summary.      *)
ReadRecord(q) ==
  /\ At(q, "read")
  /\ LET p == cmd[q].plan
         old == Shown(p)
         dry == IF digest[p] # "none" THEN digest[p] ELSE old.dry
         reasons == BlockedReasons(p, p \in tsv, dry, p \in filter, FALSE, {})
         status == IF reasons \cap Hard # {} THEN "blocked"
                   ELSE IF dry = "ok" THEN "dry_run_ok"
                   ELSE IF dry = "failed" THEN "dry_run_failed" ELSE old.status
     IN IF old = None THEN Go(q, Idle)
        ELSE Go(q, [op |-> "refresh", at |-> "audit", plan |-> p,
                    rec |-> [old EXCEPT !.status = status, !.reasons = reasons, !.dry = dry]])
  /\ UNCHANGED <<sidecars, summary, index, log, disturbed, told>>

\* Fault: any audit row of the plan counts as an apply.
StatusFromAnyRow(p, status) == IF audit[p] # {} THEN "applied" ELSE status

(* _status_from_audit.  None of the actions it counts as success is one that  *)
(* apply writes (stash_committed, retire_direct_executed, promote_committed,  *)
(* nas_manifest_exported), so that the count is always zero; apply_start is   *)
(* committed with apply_end or not at all.                                    *)
StatusFromAudit(p, status) ==
  CASE "apply_end" \in audit[p] -> "applied"
    [] "apply_end" \notin audit[p] /\ "apply_start" \in audit[p] -> "partially_applied"
    [] OTHER -> status

ReadAudit(q) ==
  /\ At(q, "audit")
  /\ LET p == cmd[q].plan
     IN /\ Go(q, [cmd[q] EXCEPT !.at = "truncate", !.rec.status = StatusFromAudit(p, @)])
        /\ told' = IF audit[p] # {} THEN told \cup {p} ELSE told
  /\ UNCHANGED <<sidecars, summary, index, log, disturbed>>

(* The database is missing or its read fails: the sidecars decide.            *)
AuditUnread(q) ==
  /\ At(q, "audit") /\ Event
  /\ cmd' = [cmd EXCEPT ![q].at = "truncate"]
  /\ disturbed' = TRUE
  /\ UNCHANGED <<sidecars, summary, index, log, told>>

(* _write_summary: path.write_text truncates, then writes.                    *)
Truncate(q) ==
  /\ At(q, "truncate")
  /\ IF cmd[q].plan \in dir
     THEN Go(q, [cmd[q] EXCEPT !.at = "fill"]) /\ summary' = [summary EXCEPT ![cmd[q].plan] = Torn]
     ELSE Go(q, Idle) /\ UNCHANGED summary
  /\ UNCHANGED <<sidecars, index, log, disturbed, told>>

(* A file pruned meanwhile stays away; over what another process wrote since  *)
(* the truncation a shorter text leaves a tail that does not parse.           *)
Fill(q) ==
  /\ At(q, "fill")
  /\ Go(q, [cmd[q] EXCEPT !.at = "index"])
  /\ LET p == cmd[q].plan
     IN \E s \in CASE summary[p] = None -> {None}
                   [] summary[p] = Torn -> {cmd[q].rec}
                   [] summary[p] \in Record -> {cmd[q].rec, Torn} :
          summary' = [summary EXCEPT ![p] = s]
  /\ UNCHANGED <<sidecars, index, log, disturbed, told>>

\* Fault: only register appends to the index.
AppendIndexOnce(q) ==
  /\ At(q, "index")
  /\ Go(q, Idle)
  /\ index' = IF cmd[q].op = "register" THEN [index EXCEPT ![cmd[q].plan] = Compact(cmd[q].rec)] ELSE index
  /\ UNCHANGED <<sidecars, summary, log, disturbed, told>>

(* _append_index *)
AppendIndex(q) ==
  /\ At(q, "index")
  /\ Go(q, Idle)
  /\ index' = [index EXCEPT ![cmd[q].plan] = Compact(cmd[q].rec)]
  /\ UNCHANGED <<sidecars, summary, log, disturbed, told>>

-----------------------------------------------------------------------------
(* prune_plans: the candidates from the listing, then one directory at a      *)
(* time.  Index lines stay.                                                   *)
StartPrune(q) ==
  /\ Begin(q, [op |-> "prune",
               todo |-> {p \in Plan : Listed(p) # None /\ Listed(p).created + KeepDays < now}])
  /\ UNCHANGED <<sidecars, summary, index, log, told>>

RemoveDir(q, p) ==
  /\ cmd[q].op = "prune" /\ p \in cmd[q].todo
  /\ Go(q, [cmd[q] EXCEPT !.todo = @ \ {p}])
  /\ dir' = dir \ {p} /\ tsv' = tsv \ {p} /\ filter' = filter \ {p}
  /\ digest' = [digest EXCEPT ![p] = "none"]
  /\ summary' = [summary EXCEPT ![p] = None]
  /\ UNCHANGED <<index, log, disturbed, told>>

EndPrune(q) ==
  /\ cmd[q].op = "prune" /\ cmd[q].todo = {}
  /\ Go(q, Idle)
  /\ UNCHANGED <<sidecars, summary, index, log, disturbed, told>>

-----------------------------------------------------------------------------
(* write_dry_run_sidecar *)
WriteDigest(p, d) ==
  /\ p \in dir /\ d # digest[p] /\ Event
  /\ digest' = [digest EXCEPT ![p] = d]
  /\ UNCHANGED <<dir, tsv, filter, summary, index, log, cmd, disturbed, told>>

(* An apply of the manifest commits: n more rows are done, the others were    *)
(* done before, cut off by --max-files, or failed one by one.                 *)
Apply(p, n) ==
  /\ done[p] + n <= Rows[p] /\ Event
  /\ audit' = [audit EXCEPT ![p] = @ \cup {"apply_start", "apply_end"}]
  /\ done' = [done EXCEPT ![p] = @ + n]
  /\ told' = told \ {p}
  /\ UNCHANGED <<sidecars, summary, index, cmd, disturbed>>

(* The apply is refused by a preflight, which is on record too.               *)
RejectApply(p) ==
  /\ Event
  /\ audit' = [audit EXCEPT ![p] = @ \cup {"apply_rejected"}]
  /\ UNCHANGED <<sidecars, summary, index, done, cmd, disturbed, told>>

(* Somebody deletes plan.tsv.                                                 *)
LoseManifest(p) ==
  /\ p \in tsv /\ Event
  /\ tsv' = tsv \ {p}
  /\ UNCHANGED <<dir, filter, digest, summary, index, log, cmd, disturbed, told>>

Kill(q) ==
  /\ cmd[q] # Idle /\ Event
  /\ cmd' = [cmd EXCEPT ![q] = Idle]
  /\ disturbed' = TRUE
  /\ UNCHANGED <<sidecars, summary, index, log, told>>

Tick ==
  /\ now < MaxClock
  /\ now' = now + 1
  /\ UNCHANGED <<sidecars, summary, index, log, cmd, events, disturbed, told>>

-----------------------------------------------------------------------------
Next ==
  \/ \E q \in Proc, p \in Plan :
       Register(q, p) \/ StartRefresh(q, p) \/ AttachFilter(q, p) \/ RemoveDir(q, p)
  \/ \E q \in Proc :
       \/ ReadRecord(q) \/ ReadAudit(q) \/ AuditUnread(q) \/ Truncate(q) \/ Fill(q)
       \/ AppendIndex(q) \/ StartPrune(q) \/ EndPrune(q) \/ Kill(q)
  \/ \E p \in Plan :
       \/ \E d \in Digest \ {"none"} : WriteDigest(p, d)
       \/ \E n \in 0..Rows[p] : Apply(p, n)
       \/ RejectApply(p) \/ LoseManifest(p)
  \/ Tick

Spec == Init /\ [][Next]_vars

-----------------------------------------------------------------------------
(* State and files have their types.                                          *)
TypeOK ==
  /\ tsv \cup filter \subseteq dir /\ dir \subseteq Plan
  /\ digest \in [Plan -> Digest]
  /\ summary \in [Plan -> Record \cup {None, Torn}]
  /\ index \in [Plan -> Record \cup {None}]
  /\ audit \in [Plan -> SUBSET {"apply_start", "apply_end", "apply_rejected"}]
  /\ \A p \in Plan : done[p] \in 0..Rows[p]
  /\ now \in 0..MaxClock /\ events \in 0..MaxEvents
  /\ told \subseteq Plan

Quiet == \A q \in Proc : cmd[q] = Idle

(* Between commands the summary of a plan and its last index line agree, so   *)
(* that a listing does not change when a summary cannot be read, and a plan   *)
(* refreshed since it was last applied is not in the open queue; unless       *)
(* commands overlapped or were cut short.                                     *)
ListingSettles ==
  Quiet /\ ~disturbed =>
    \A p \in Plan :
      /\ summary[p] # None => summary[p] # Torn /\ Compact(summary[p]) = index[p]
      /\ p \in told /\ "apply_end" \in audit[p] => Listed(p).status = "applied"

(* Whatever overlaps and dies, a plan that is listed as applied was: an apply *)
(* of it ran to its end.                                                      *)
AppliedWasApplied ==
  \A p \in Plan : \A r \in {summary[p], index[p]} :
    r \in Record /\ r.status = "applied" => "apply_end" \in audit[p]

(* "applied / partially_applied - derived from audit rows" (ADR-0019): an     *)
(* applied plan, which leaves the queue of open plans, has no rows left.      *)
AppliedIsDone ==
  \A p \in Plan : Listed(p) # None /\ Listed(p).status = "applied" => done[p] = Rows[p]
=============================================================================
