------------------------------- MODULE Dashboard -------------------------------
(* The dashboard server: threads that answer polls from two caches of one     *)
(* entry each, load what is not cached, and run actions that write.           *)
(*                                                                            *)
(* A poll that finds nothing in the cache loads without a lock and stores     *)
(* what it has loaded; an action writes, and then empties both caches.  The   *)
(* page itself collects anew and leaves what it has collected in both caches. *)
(* Time is not modelled: an entry may expire whenever it likes.               *)
(*                                                                            *)
(* What is shown is a posture: levels of the audit chain, the scans, the      *)
(* inventory, the adapters and the cloud drive, and the worst of them.  It    *)
(* comes from the health collector (HealthReport), or, when that raises and   *)
(* on the status page, from the status report.  The flags include_imports and *)
(* probes are left out: they enter keys and loads as quick and fp do.         *)
EXTENDS Naturals, FiniteSets

CONSTANTS Thread, Root,
          Requests,   \* the polls that browsers send
          Actions,    \* the actions that are run
          Initial,    \* facts the server may start with
          MaxEvents,  \* bound: changes by actions and other programs
          MaxPolls,   \* bound: polls that are begun
          None

Adapter == {"replicate", "archive"}
Facts == [audit : BOOLEAN, roots : [Root -> {"never", "fresh", "old"}], errors : BOOLEAN,
          runs : [Adapter -> {"never", "ok", "failed", "old"}], cloud : {"ready", "not ready", "raises"}]
Request == [route : {"html", "status", "health", "fleet"}, quick : BOOLEAN, fp : BOOLEAN]
Destructive == {"replicate_execute", "archive_execute", "stash_finalize", "stash_restore"}
Invalidating == Destructive \cup {"refresh_rollups", "refresh_health", "status_full"}
DryRuns == {"replicate_dry_run", "archive_dry_run"}
Action == Invalidating \cup DryRuns \cup {"apply_dry_run"}

DashboardAssumption ==
  /\ Initial \subseteq Facts /\ Requests \subseteq Request /\ Actions \subseteq Action
  /\ {MaxEvents, MaxPolls} \subseteq Nat
  /\ None \notin Facts

VARIABLES
  facts, version,  \* what there is to show, and how often it has changed
  status, health,  \* the two caches: a payload or None
  thread,          \* thread[t]: what the thread is at
  acked,           \* the version left by the actions that were answered ok and
                   \* have emptied the caches
  polls

vars == <<facts, version, status, health, thread, acked, polls>>

-----------------------------------------------------------------------------
Rank == [ok |-> 0, skipped |-> 0, unknown |-> 1, warn |-> 2, fail |-> 3]
Worst(levels) ==
  IF levels = {} THEN "ok" ELSE CHOOSE l \in levels : \A k \in levels : Rank[k] <= Rank[l]

(* posture_from_status_report.  The latest scan speaks for all roots, and the *)
(* inventory is taken to be empty as long as nothing was scanned.             *)
AuditLevel(f, quick) == IF quick THEN "skipped" ELSE IF f.audit THEN "ok" ELSE "fail"
LatestScan(f) ==
  IF \E r \in Root : f.roots[r] = "fresh" THEN "fresh"
  ELSE IF \E r \in Root : f.roots[r] = "old" THEN "old" ELSE "never"
ScanLevelOfCheck(f) ==
  CASE LatestScan(f) = "never" -> "warn"
    [] LatestScan(f) = "old" -> "fail"
    [] OTHER -> "ok"
ScanLevel(f) ==
  CASE LatestScan(f) = "never" -> "warn"
    [] LatestScan(f) = "old" -> "fail"
    [] OTHER -> IF f.errors THEN "warn" ELSE "ok"
(* No row of the audit log says "stash" (see HealthReport): none is counted.  *)
StashLevel(quick) == IF quick THEN "skipped" ELSE "ok"
InventoryLevel(f) == IF LatestScan(f) = "never" THEN "warn" ELSE "ok"
RunLevel(run) ==
  CASE run = "never" -> "unknown" [] run \in {"failed", "old"} -> "warn" [] OTHER -> "ok"
AdapterLevel(f) == Worst({RunLevel(f.runs[a]) : a \in Adapter})

StatusSignals(f, quick) ==
  [audit |-> AuditLevel(f, quick), scan |-> ScanLevel(f), stash |-> StashLevel(quick),
   inventory |-> InventoryLevel(f), rollups |-> "ok", adapters |-> AdapterLevel(f)]
StatusOverall(f, quick) ==
  LET s == StatusSignals(f, quick) IN
  Worst({s.audit, s.scan, s.stash, s.inventory, s.rollups,
         IF s.adapters \in {"warn", "fail"} THEN "warn" ELSE "ok"})

(* The collector's report and the signals made of it: every root that has a   *)
(* scan run is graded, an adapter by the age of its last run only, and the    *)
(* overall level is the worst of the checks.  Mounts, imports and the fleet,  *)
(* which can only make it worse, are in HealthReport.                         *)
Tracked(f) == {r \in Root : f.roots[r] # "never"}
RootLevel(s) == IF s = "fresh" THEN "ok" ELSE "fail"
FpLevel(f) ==
  CASE f.cloud = "ready" -> "ok" [] f.cloud = "not ready" -> "fail" [] OTHER -> "skipped"
AgeLevel(run) == CASE run = "never" -> "unknown" [] run = "old" -> "warn" [] OTHER -> "ok"
AgedLevel(f) == Worst({AgeLevel(f.runs[a]) : a \in Adapter})

EstateSignals(f, quick, fp) ==
  [audit |-> AuditLevel(f, quick),
   scan |-> IF Tracked(f) = {} THEN "warn" ELSE Worst({RootLevel(f.roots[r]) : r \in Tracked(f)}),
   stash |-> StashLevel(quick), inventory |-> InventoryLevel(f), rollups |-> "ok",
   adapters |-> AgedLevel(f),
   fp |-> IF fp THEN FpLevel(f) ELSE "skipped"]
EstateOverall(f, quick, fp) ==
  LET s == EstateSignals(f, quick, fp) IN
  Worst({s.audit, IF Tracked(f) = {} THEN "fail" ELSE s.scan, s.stash, s.rollups, s.fp,
         IF s.adapters \in {"warn", "fail"} THEN s.adapters ELSE "ok"})

Payload(of, f, source, overall) ==
  [of |-> of, read |-> version, facts |-> f, source |-> source, overall |-> overall, crossed |-> FALSE]

(* build_status_payload, and what the page leaves for the status poll.        *)
StatusPayload(of, quick) == Payload(of, facts, "status", StatusOverall(facts, quick))

(* build_health_payload: the collector, or the status report with the probe   *)
(* of the cloud drive added, if that was asked for and does not raise.        *)
EstatePayload(of, q) ==
  Payload(of, facts, "estate", EstateOverall(facts, q.quick, q.fp \/ ~q.quick))
FallbackPayload(of, q) ==
  LET posture == StatusOverall(facts, q.quick) IN
  Payload(of, facts, "status",
          IF (q.fp \/ ~q.quick) /\ facts.cloud = "not ready" THEN Worst({posture, "warn"}) ELSE posture)

-----------------------------------------------------------------------------
Idle == [at |-> "idle"]
StatusKey(q) == <<"status", q.quick, FALSE>>
HealthKey(q) == <<"health", q.quick, q.fp \/ ~q.quick>>
FleetKey(q) == <<"fleet", q.quick, FALSE>>
KeyOf(q) ==
  CASE q.route \in {"html", "status"} -> StatusKey(q)
    [] q.route = "health" -> HealthKey(q)
    [] q.route = "fleet" -> FleetKey(q)

Goes(t, at) == thread' = [thread EXCEPT ![t].at = at]
Hit(cache, key) == cache # None /\ cache.of = key
CacheOf(q) == IF q.route \in {"html", "status"} THEN status ELSE health

Init ==
  /\ facts \in Initial /\ version = 0
  /\ status = None /\ health = None
  /\ thread = [t \in Thread |-> Idle]
  /\ acked = 0 /\ polls = 0

(* do_GET: a poll, for the page or for one of its parts.  floor: what the     *)
(* browser has been told was done.                                            *)
Get(t, q) ==
  /\ thread[t] = Idle /\ polls < MaxPolls
  /\ polls' = polls + 1
  /\ thread' = [thread EXCEPT ![t] =
       [at |-> IF q.route = "html" THEN "load" ELSE "look", request |-> q, floor |-> acked, answer |-> None]]
  /\ UNCHANGED <<facts, version, status, health, acked>>

(* get_or_load, its first lock: the answer, or nothing of this key.           *)
Look(t) ==
  LET q == thread[t].request
      cache == CacheOf(q)
  IN  /\ thread[t].at = "look"
      /\ thread' = [thread EXCEPT
           ![t].at = IF Hit(cache, KeyOf(q)) THEN "answered" ELSE "load",
           ![t].answer = IF Hit(cache, KeyOf(q)) THEN cache ELSE None]
      /\ UNCHANGED <<facts, version, status, health, acked, polls>>

(* The loader runs without the lock.  The collector may raise.                *)
Load(t) ==
  LET q == thread[t].request IN
  /\ thread[t].at = "load"
  /\ \E payload \in
         CASE q.route \in {"html", "status"} -> {StatusPayload(StatusKey(q), q.quick)}
           [] q.route = "health" -> {EstatePayload(HealthKey(q), q), FallbackPayload(HealthKey(q), q)}
           [] q.route = "fleet" -> {Payload(FleetKey(q), facts, "fleet", "unknown")} :
       thread' = [thread EXCEPT ![t].at = IF q.route = "html" THEN "prime status" ELSE "store",
                                ![t].answer = payload]
  /\ UNCHANGED <<facts, version, status, health, acked, polls>>

(* get_or_load, its second lock.                                              *)
Store(t) ==
  /\ thread[t].at = "store"
  /\ IF thread[t].request.route = "status"
     THEN status' = thread[t].answer /\ UNCHANGED health
     ELSE health' = thread[t].answer /\ UNCHANGED status
  /\ Goes(t, "answered")
  /\ UNCHANGED <<facts, version, acked, polls>>

(* The page leaves its posture in either cache where there is nothing of the  *)
(* key: one get_or_load each, whose loader only returns what is there.        *)
PrimeStatus(t) ==
  /\ thread[t].at = "prime status"
  /\ status' = IF Hit(status, StatusKey(thread[t].request)) THEN status ELSE thread[t].answer
  /\ Goes(t, "prime health")
  /\ UNCHANGED <<facts, version, health, acked, polls>>
PrimeHealth(t) ==
  LET q == thread[t].request
      key == <<"health", q.quick, ~q.quick>>
  IN  /\ thread[t].at = "prime health"
      /\ health' = IF Hit(health, key) THEN health ELSE [thread[t].answer EXCEPT !.of = key]
      /\ Goes(t, "answered")
      /\ UNCHANGED <<facts, version, status, acked, polls>>

Answered(t) ==
  /\ thread[t].at = "answered"
  /\ thread' = [thread EXCEPT ![t] = Idle]
  /\ UNCHANGED <<facts, version, status, health, acked, polls>>

-----------------------------------------------------------------------------
(* run_action: without the confirmation a destructive one does nothing; one   *)
(* that raises may have written before.  A replicate or an archive run with   *)
(* failed sources is ok.  A dry one writes the row of a run as well, and the  *)
(* reader of the last row does not ask which it was.                          *)
Outcome(a) ==
  CASE a \in {"replicate_execute", "replicate_dry_run"} ->
         {[facts EXCEPT !.runs["replicate"] = r] : r \in {"ok", "failed"}}
    [] a \in {"archive_execute", "archive_dry_run"} ->
         {[facts EXCEPT !.runs["archive"] = r] : r \in {"ok", "failed"}}
    [] OTHER -> {facts}
Writes(a) == a \in Destructive \cup DryRuns \cup {"refresh_rollups"}
Wrote(a) == version < MaxEvents /\ version' = version + 1 /\ facts' \in Outcome(a)
Unwritten == UNCHANGED <<facts, version>>

(* invalidate, for both caches; whoever is between its load and its store     *)
(* will store what is older than this.                                        *)
Emptied(t, then) ==
  /\ status' = None /\ health' = None
  /\ thread' = [s \in Thread |->
       IF s = t THEN then
       ELSE IF thread[s].at \in {"store", "prime status", "prime health"}
            THEN [thread[s] EXCEPT !.answer.crossed = TRUE] ELSE thread[s]]

Acknowledge(done) == acked' = IF done > acked THEN done ELSE acked
Turn(t, then) == thread' = [thread EXCEPT ![t] = then] /\ UNCHANGED <<status, health>>

(* _respond_run_action: only what succeeded, and only the actions of the      *)
(* list, empty the caches; then the answer is sent.  The dry runs write and   *)
(* are not in the list: what was cached before them is shown after them.      *)
ActThenEmpty(t, a) ==
  \/ /\ thread[t] = Idle
     /\ \/ Writes(a) /\ Wrote(a)
        \/ ~Writes(a) /\ Unwritten
     /\ Turn(t, IF a \in Invalidating THEN [at |-> "invalidate", action |-> a, left |-> version'] ELSE Idle)
     /\ UNCHANGED <<acked, polls>>
  \/ /\ thread[t] = Idle
     /\ Writes(a) /\ Wrote(a)
     /\ UNCHANGED <<status, health, thread, acked, polls>>
  \/ /\ thread[t].at = "invalidate" /\ thread[t].action = a
     /\ Emptied(t, Idle)
     /\ Acknowledge(thread[t].left)
     /\ UNCHANGED <<facts, version, polls>>

EmptyThenAct(t, a) ==
  \/ /\ thread[t] = Idle
     /\ Emptied(t, [at |-> "invalidate", action |-> a, left |-> 0])
     /\ UNCHANGED <<facts, version, acked, polls>>
  \/ /\ thread[t].at = "invalidate" /\ thread[t].action = a
     /\ \/ Writes(a) /\ Wrote(a)
        \/ ~Writes(a) /\ Unwritten
     /\ Turn(t, Idle)
     /\ Acknowledge(version')
     /\ UNCHANGED polls
RunAction(t, a) == ActThenEmpty(t, a)

-----------------------------------------------------------------------------
(* An entry expires, and is as good as none.                                  *)
Expire ==
  /\ \/ status # None /\ status' = None /\ UNCHANGED health
     \/ health # None /\ health' = None /\ UNCHANGED status
  /\ UNCHANGED <<facts, version, thread, acked, polls>>

(* Other commands, other programs and the clock change what there is to show. *)
World ==
  /\ version < MaxEvents /\ version' = version + 1
  /\ \/ \E r \in Root, e \in BOOLEAN : facts' = [facts EXCEPT !.roots[r] = "fresh", !.errors = e]
     \/ \E r \in Root : facts.roots[r] = "fresh" /\ facts' = [facts EXCEPT !.roots[r] = "old"]
     \/ \E a \in Adapter : facts.runs[a] # "never" /\ facts' = [facts EXCEPT !.runs[a] = "old"]
     \/ facts' = [facts EXCEPT !.audit = FALSE]
  /\ UNCHANGED <<status, health, thread, acked, polls>>

Next ==
  \/ \E t \in Thread :
       \/ \E q \in Requests : Get(t, q)
       \/ Look(t) \/ Load(t) \/ Store(t) \/ PrimeStatus(t) \/ PrimeHealth(t) \/ Answered(t)
       \/ \E a \in Actions : RunAction(t, a)
  \/ Expire \/ World

Spec == Init /\ [][Next]_vars

-----------------------------------------------------------------------------
Answers == {t \in Thread : thread[t].at = "answered"}

(* What an action of the invalidating list has done is seen, and all that was *)
(* done before it, dry runs included: a poll that begins after the action was *)
(* answered is shown data read after it, whatever was cached and whoever      *)
(* loads -- except data that another poll had read and not yet stored when    *)
(* the caches were emptied.  Nothing is claimed of a dry run until such an    *)
(* action follows.  And a poll is shown what it asked for, of the two kinds   *)
(* that share a cache and with its own flags.                                 *)
ReadsItsActions ==
  \A t \in Answers :
    LET got == thread[t].answer IN
      /\ got.read >= thread[t].floor \/ got.crossed
      /\ got.of = KeyOf(thread[t].request)
         \/ thread[t].request.route = "html"

(* A banner that says ok stands for what was read with it: the chain was      *)
(* intact or not walked, there is a fresh scan and the last run of no adapter *)
(* is old, be it a dry one.  From the collector, every root that was ever     *)
(* scanned is fresh; from the status report, the latest scan had no errors    *)
(* and the last run of no adapter, dry or not, failed.                        *)
BannerOkIsTrue ==
  \A t \in Answers :
    LET got == thread[t].answer
        quick == thread[t].request.quick
    IN  got.overall = "ok" =>
          /\ quick \/ got.facts.audit
          /\ \E r \in Root : got.facts.roots[r] = "fresh"
          /\ \A a \in Adapter : got.facts.runs[a] # "old"
          /\ got.source = "estate" => \A r \in Tracked(got.facts) : got.facts.roots[r] = "fresh"
          /\ got.source = "status" =>
               /\ ~got.facts.errors
               /\ \A a \in Adapter : got.facts.runs[a] # "failed"
=============================================================================
