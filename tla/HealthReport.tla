----------------------------- MODULE HealthReport -----------------------------
(* The estate health report: collect_estate_health reads the facts section by *)
(* section, the checks turn the sections into one level per token, and the    *)
(* callers act on the tokens that fail.  The question is what an "ok" means:  *)
(* a section may be skipped, its collector may raise and be swallowed, its    *)
(* counts may come from a cache.                                              *)
(*                                                                            *)
(* No two tokens share a reading that could differ between them, so a report  *)
(* is taken at one moment.  A failure of collect_status raises and gives no   *)
(* report; soft signals that are never "ok" (adapters, attached imports) only *)
(* enter the overall level.  Grading of other hosts is in HealthRelay.        *)
EXTENDS Naturals, Sequences, FiniteSets, SequencesExt

CONSTANTS Root,            \* roots that are scanned
          NewRoot,         \* those of them that were never scanned at first
          Declared,        \* the mounts the estate declares for this host, in order
          Unmanaged,       \* other volumes that may be mounted
          MaxProbes,       \* how many candidates probe_mounts probes
          Critical,        \* mounts whose absence is critical
          Total,           \* capacity of a volume
          BytesWarn, BytesFail, PercentWarn, PercentFail,  \* free space floors
          Peer,            \* machines whose inventory is attached
          Request,         \* what a caller asks for, and the section whose collector
                           \* raises meanwhile, or the tool that is missing
          ScanMaxAge, RollupMaxAge, StashLimit, AttachedMaxAge, EnvelopeMaxAge,
          Never,           \* no time
          Unread,          \* no reading
          MaxClock,        \* bound: time
          MaxEvents        \* bound: events that change a fact

HealthAssumption ==
  /\ NewRoot \subseteq Root /\ Critical \subseteq Range(Declared) /\ MaxProbes \in Nat
  /\ Declared \in Seq(Range(Declared))
  /\ IsFiniteSet(Unmanaged) /\ Unmanaged \cap Range(Declared) = {}
  /\ {Total, BytesWarn, BytesFail, PercentWarn, PercentFail} \subseteq Nat
  /\ {ScanMaxAge, RollupMaxAge, StashLimit, AttachedMaxAge, EnvelopeMaxAge} \subseteq Nat
  /\ {MaxClock, MaxEvents} \subseteq Nat
  /\ Request \subseteq [profile : SUBSET {"quick", "probes", "fp", "imports", "domains", "walk", "refresh"},
                       fault : {"none", "freshness", "probes", "fp", "imports", "attach", "fleet",
                                "domains", "walk", "hdiutil"}]
  /\ Never \notin Nat /\ Unread \notin Nat

Mount == Range(Declared) \cup Unmanaged
Time == 0..MaxClock
Level == {"ok", "skipped", "unknown", "warn", "fail"}
Rank == [ok |-> 0, skipped |-> 0, unknown |-> 1, warn |-> 2, fail |-> 3]

(* What is wrong with the world, besides mounts, scans and imports.           *)
Trouble == {"cloud_mount_gone", "cloud_store_gone", "cloud_one_volume", "cloud_unlinked",
            "cloud_unpaired", "domain_retrying", "domain_looping", "domain_errors",
            "dump_unparsed", "gap", "forbidden_mount", "foreign_image", "wrong_db", "not_a_host"}
Readable(free, total) ==
  [present |-> TRUE, link |-> FALSE, readonly |-> FALSE, slow |-> FALSE, free |-> free, total |-> total]
Fine == Readable(Total, Total)
(* A mounted volume with room, little room or none, one that reports more     *)
(* free than there is, no capacity or nothing at all, a slow one, one that    *)
(* cannot be written, a link to another volume, one that is not there.        *)
MountState ==
  {Readable(free, Total) : free \in {Total, BytesWarn - 1, BytesFail - 1, Total + 1}}
  \cup {Readable(Total, 0), Readable(Unread, Unread), [Fine EXCEPT !.slow = TRUE],
        [Readable(0, Total) EXCEPT !.readonly = TRUE], [Readable(0, Total) EXCEPT !.link = TRUE],
        [Readable(Unread, Unread) EXCEPT !.present = FALSE]}

VARIABLES
  clock,
  scanned,   \* scanned[r]: when the last finished scan of r ended
  left,      \* roots with a scan run that never finished
  claims,    \* what the inventory's counts count
  counted,   \* counted[t]: the counts that were true at time t
  cache,     \* the rollups in meta: counts and refreshed_at
  intact,    \* the audit chain verifies
  flight,    \* audit rows of stash entries not finalized or restored
  mount,     \* mount[m]: the volume at m
  peer,      \* peer[p]: the attached inventory of p
  exported,  \* when this machine last exported
  trouble,   \* what else is wrong
  events,
  report     \* the last report, while nothing has changed since

vars == <<clock, scanned, left, claims, counted, cache, intact, flight, mount, peer,
          exported, trouble, events, report>>

NoReport == [levels |-> [t \in {} |-> "ok"], counts |-> 0, overall |-> "unknown",
             request |-> [profile |-> {}, fault |-> "none"]]

Init ==
  /\ clock = 0 /\ events = 0 /\ report = NoReport
  /\ scanned = [r \in Root |-> IF r \in NewRoot THEN Never ELSE 0] /\ left = {}
  /\ claims = 0 /\ counted = [t \in Time |-> {0}] /\ cache = [counts |-> 0, at |-> Never]
  /\ intact = TRUE /\ flight = {} /\ exported = 0 /\ trouble = {}
  /\ mount = [m \in Mount |-> Fine]
  /\ peer = [p \in Peer |-> [payload |-> TRUE, imported |-> 0, verified |-> 0, scanned |-> 0]]

-----------------------------------------------------------------------------
(* Levels.                                                                    *)
Late(at, max) == at = Never \/ clock - at > max
WorstLevel(L) == IF L = {} THEN "unknown"
                 ELSE CHOOSE l \in L : \A k \in L : Rank[k] <= Rank[l]

(* A network volume that reports more free than there is, taken at its word.  *)
FreeSpaceLevelTrusting(free, total) ==
  IF free = Unread THEN "unknown"
  ELSE IF free < BytesFail THEN "fail" ELSE IF free < BytesWarn THEN "warn" ELSE "ok"
(* Without a capacity there is no ratio, and only the bytes count.            *)
FreeSpaceLevel(free, total) ==
  LET measured == total # Unread /\ total > 0
      below(bytes, percent) == free < bytes \/ (measured /\ free * 100 < percent * total)
  IN  IF free = Unread \/ (measured /\ free > total) THEN "unknown"
      ELSE IF below(BytesFail, PercentFail) THEN "fail"
      ELSE IF below(BytesWarn, PercentWarn) THEN "warn"
      ELSE "ok"

(* A link is not graded, nor is what cannot be written.                       *)
ProbeLevel(m) ==
  LET v == mount[m] IN
  IF m \in Unmanaged THEN "skipped"
  ELSE IF ~v.present THEN IF m \in Critical THEN "fail" ELSE "warn"
  ELSE IF v.link \/ v.readonly THEN "skipped"
  ELSE WorstLevel({FreeSpaceLevel(v.free, v.total), IF v.slow THEN "warn" ELSE "ok", "ok"})

(* One File Provider domain: no counter and no stuck error is its quiet shape.*)
DomainLevel ==
  IF "domain_looping" \in trouble THEN "fail"
  ELSE IF "domain_retrying" \in trouble THEN "warn"
  ELSE IF "domain_errors" \in trouble THEN "unknown"
  ELSE "ok"

(* The cloud drive: a mount, the store behind it, the provider's record of    *)
(* its domain, and pairs of paths looked at on both sides.                    *)
Mounted == "cloud_mount_gone" \notin trouble
Stored == "cloud_store_gone" \notin trouble
DomainUnlinked == "cloud_unlinked" \in trouble
Pairs == IF ~Stored THEN IF Mounted THEN "mount_only" ELSE "neither"
         ELSE IF Mounted /\ "cloud_unpaired" \notin trouble THEN "both" ELSE "store_only"
Layout ==
  IF ~Mounted THEN IF Stored THEN "store_only" ELSE "missing"
  ELSE IF ~Stored THEN "mount_only"
  ELSE IF "cloud_one_volume" \in trouble THEN "unified_volume" ELSE "external_drive_fp"

(* What keeps retires from the cloud.  The external-drive layout excuses a    *)
(* domain that says it is unlinked.                                           *)
Problems ==
  {x \in {"mount", "pairs", "domain"} :
     \/ x = "mount" /\ ~Mounted
     \/ x = "pairs" /\ Pairs = "store_only"
     \/ x = "domain" /\ DomainUnlinked /\ Layout # "external_drive_fp"}

-----------------------------------------------------------------------------
(* The named checks, for profile p when fault f befalls the collectors.       *)
ScanFreshness(f) ==
  IF f = "freshness" THEN {}
  ELSE {[finished |-> scanned[r], unfinished |-> r \in left] :
          r \in {q \in Root : scanned[q] # Never \/ q \in left}}
StaleScan(f) ==
  LET rows == ScanFreshness(f) IN
  IF rows = {} \/ \E row \in rows : Late(row.finished, ScanMaxAge) THEN "fail"
  ELSE IF \E row \in rows : row.unfinished THEN "warn" ELSE "ok"

(* The counts of the inventory: cached ones are used while they are fresh,    *)
(* else the tables are counted; a quick report leaves the chain alone.        *)
FromCache == cache.at # Never /\ clock - cache.at <= RollupMaxAge
Counts == IF FromCache THEN cache.counts ELSE claims
Inventory(p) ==
  [counts |-> Counts, live |-> ~FromCache, refreshed |-> cache.at,
   audit |-> IF "quick" \in p THEN Unread ELSE IF intact THEN "ok" ELSE "fail"]

RollupStale(p) ==
  IF ~Inventory(p).live /\ Late(Inventory(p).refreshed, RollupMaxAge) THEN "fail" ELSE "ok"
BrokenAudit(p) == IF Inventory(p).audit = Unread THEN "skipped" ELSE Inventory(p).audit

(* The summary selects the rows whose action is stash.                        *)
StashSummary == {e \in flight : e.action = "stash"}
StashAges(p) == IF "quick" \in p THEN {Unread} ELSE {clock - e.at : e \in StashSummary}
StashOverdue(p) ==
  IF Unread \in StashAges(p) THEN "skipped"
  ELSE IF \E age \in StashAges(p) : age > StashLimit THEN "fail" ELSE "ok"

FpStatus == [layout |-> Layout, problems |-> Problems, ready |-> Problems = {} /\ Mounted]
FpSection(p, f) == IF "fp" \in p /\ f # "fp" THEN {FpStatus} ELSE {}
FpNotReady(p, f) ==
  IF FpSection(p, f) = {} THEN "skipped"
  ELSE IF \A fp \in FpSection(p, f) : fp.ready THEN "ok" ELSE "fail"

(* The dual-presence sample, whether or not the cloud drive could be read:    *)
(* none of its pairs scores without a store.                                  *)
PresenceCounts ==
  [dual |-> IF Pairs = "both" THEN 1 ELSE 0, store_only |-> IF Pairs = "store_only" THEN 1 ELSE 0]
PresenceSection(p) == IF "fp" \in p THEN {PresenceCounts} ELSE {}
DualPresencePoor(p) ==
  LET n == PresenceCounts IN
  IF PresenceSection(p) = {} THEN "skipped"
  ELSE IF n.dual + n.store_only = 0 THEN "warn"
  ELSE IF n.dual = 0 THEN "fail" ELSE "ok"

(* The candidates are probed in order, undeclared ones last.                  *)
CandidateRoots == Declared \o SetToSeq({u \in Unmanaged : mount[u].present})
Probed(p, f) ==
  IF "probes" \in p /\ f # "probes"
  THEN {CandidateRoots[i] : i \in {j \in DOMAIN CandidateRoots : j <= MaxProbes}} ELSE {}
MountMissing(p, f) ==
  LET absent == {m \in Probed(p, f) : ~mount[m].present} IN
  IF Probed(p, f) = {} THEN "skipped"
  ELSE IF absent = {} THEN "ok"
  ELSE IF \E m \in absent : ProbeLevel(m) = "fail" THEN "fail" ELSE "warn"
MountLow(p, f) ==
  LET levels == {ProbeLevel(m) : m \in {n \in Probed(p, f) : mount[n].present}} IN
  IF levels = {} THEN "skipped"
  ELSE IF "fail" \in levels THEN "fail"
  ELSE IF levels \cap {"warn", "unknown"} # {} THEN "warn" ELSE "ok"

FpSyncStuck(p, f) ==
  IF "domains" \notin p \/ f = "domains" THEN "skipped"
  ELSE IF "dump_unparsed" \in trouble THEN "unknown" ELSE DomainLevel

UnaccountedSpace(p, f) ==
  IF "walk" \notin p THEN "skipped"
  ELSE IF f = "walk" THEN "unknown" ELSE IF "gap" \in trouble THEN "fail" ELSE "ok"

(* Which host this is, the database it should have, and what is attached to   *)
(* it that belongs to others.                                                 *)
EstateSection(p, f) ==
  [host |-> "not_a_host" \notin trouble, bound |-> "wrong_db" \notin trouble,
   looked |-> "probes" \in p,
   foreign |-> {x \in trouble \cap {"forbidden_mount", "foreign_image"} :
                  x = "foreign_image" => f # "hdiutil"}]
ForeignAttach(p, f) ==
  LET e == EstateSection(p, f) IN
  IF ~e.host \/ ~e.looked THEN "skipped" ELSE IF e.foreign # {} THEN "fail" ELSE "ok"
EstateBinding(p, f) ==
  IF EstateSection(p, f).host /\ EstateSection(p, f).bound THEN "ok" ELSE "fail"

AttachedStale(q) ==
  IF ~q.payload THEN "fail"
  ELSE IF \E at \in {q.imported, q.verified} : Late(at, AttachedMaxAge) THEN "warn" ELSE "ok"
AttachedImports(p, f) ==
  IF "imports" \in p /\ f # "imports" THEN {AttachedStale(peer[x]) : x \in Peer} ELSE {}

-----------------------------------------------------------------------------
(* The fleet matrix: a row for this machine and one per attached inventory,   *)
(* none of those when the imports cannot be listed.                           *)
LocalRow(p) ==
  [scan |-> IF \A r \in Root : Late(scanned[r], ScanMaxAge) THEN "fail" ELSE "ok",
   chain |-> IF "quick" \in p THEN "unknown" ELSE IF intact THEN "ok" ELSE "fail",
   envelope |-> IF exported = Never THEN "warn"
                ELSE IF Late(exported, EnvelopeMaxAge) THEN "fail" ELSE "ok",
   payload |-> TRUE]
AttachedRow(q, f) ==
  [scan |-> IF f = "attach" \/ ~q.payload \/ Late(q.scanned, ScanMaxAge) THEN "fail" ELSE "ok",
   chain |-> IF ~q.payload THEN "fail"
             ELSE IF Late(q.verified, AttachedMaxAge) THEN "warn" ELSE "ok",
   envelope |-> IF ~q.payload \/ Late(q.imported, AttachedMaxAge) THEN "fail" ELSE "ok",
   payload |-> q.payload]
Rows(p, f) ==
  {LocalRow(p)} \cup IF f = "imports" THEN {} ELSE {AttachedRow(peer[x], f) : x \in Peer}

FleetStaleScan(rows) == IF \E r \in rows : r.scan = "fail" THEN "fail" ELSE "ok"
(* Unknown only when every row's chain is.                                    *)
FleetChainStale(rows) ==
  LET chains == {r.chain : r \in rows} IN
  IF "fail" \in chains THEN "fail"
  ELSE IF "warn" \in chains THEN "warn"
  ELSE IF chains = {"unknown"} THEN "unknown" ELSE "ok"
EnvelopeSla(rows) == WorstLevel({r.envelope : r \in rows})
AttachedMissing(rows) == IF \E r \in rows : ~r.payload THEN "fail" ELSE "ok"

-----------------------------------------------------------------------------
(* build_health_checks and the fleet's checks.                                *)
Checks(p, f) ==
  [stale_scan |-> StaleScan(f), broken_audit |-> BrokenAudit(p), stash_overdue |-> StashOverdue(p),
   fp_not_ready |-> FpNotReady(p, f), rollup_stale |-> RollupStale(p),
   dual_presence_poor |-> DualPresencePoor(p), mount_missing |-> MountMissing(p, f),
   mount_low |-> MountLow(p, f), fp_sync_stuck |-> FpSyncStuck(p, f),
   unaccounted_space |-> UnaccountedSpace(p, f), foreign_attach |-> ForeignAttach(p, f),
   estate_binding |-> EstateBinding(p, f)]
FleetChecks(p, f) ==
  LET rows == Rows(p, f) IN
  [fleet_stale_scan |-> FleetStaleScan(rows), fleet_chain_stale |-> FleetChainStale(rows),
   envelope_sla |-> EnvelopeSla(rows), attached_missing |-> AttachedMissing(rows)]
FleetSection(p, f) ==
  IF "imports" \in p /\ f # "fleet" THEN FleetChecks(p, f) ELSE [t \in {} |-> "ok"]
Joined(a, b) == [t \in DOMAIN a \cup DOMAIN b |-> IF t \in DOMAIN a THEN a[t] ELSE b[t]]

(* health report, health check, status --refresh, the dashboard and the MCP   *)
(* tools: all of them collect a report; status --refresh first recounts.      *)
Collect ==
  /\ report = NoReport
  /\ \E q \in Request :
       LET p == q.profile
           f == q.fault
           soft == AttachedImports(p, f)
       IN \E levels \in {Joined(Checks(p, f), FleetSection(p, f))} :
            /\ cache' = IF "refresh" \in p THEN [counts |-> claims, at |-> clock] ELSE cache
            /\ report' =
                 [levels |-> levels, request |-> q,
                  counts |-> IF "refresh" \in p THEN claims ELSE Inventory(p).counts,
                  overall |-> WorstLevel({levels[t] : t \in DOMAIN levels} \cup soft)]
  /\ UNCHANGED <<clock, scanned, left, claims, counted, intact, flight, mount, peer,
                 exported, trouble, events>>

(* What health check fails on.                                                *)
FailedOn(tokens) == {t \in tokens \cap DOMAIN report.levels : report.levels[t] = "fail"}

-----------------------------------------------------------------------------
(* The caller is done with its report.                                        *)
Answer ==
  /\ report # NoReport /\ report' = NoReport
  /\ UNCHANGED <<clock, scanned, left, claims, counted, cache, intact, flight, mount, peer,
                 exported, trouble, events>>

(* What changes the facts, between reports.                                   *)
Event == report = NoReport /\ events < MaxEvents /\ events' = events + 1 /\ UNCHANGED report

ScanEnds(r) ==
  /\ Event
  /\ \/ /\ scanned' = [scanned EXCEPT ![r] = clock]
        /\ left' = left \ {r}
     \/ left' = left \cup {r} /\ UNCHANGED scanned
  /\ claims' = claims + 1 /\ counted' = [counted EXCEPT ![clock] = @ \cup {claims + 1}]
  /\ UNCHANGED <<clock, cache, intact, flight, mount, peer, exported, trouble>>

(* apply records stash_committed; finalize and restore close the entry.       *)
CommitStash ==
  /\ Event /\ flight' = flight \cup {[action |-> "stash_committed", at |-> clock]}
  /\ UNCHANGED <<clock, scanned, left, claims, counted, cache, intact, mount, peer, exported, trouble>>
CloseStash(e) ==
  /\ Event /\ e \in flight /\ flight' = flight \ {e}
  /\ UNCHANGED <<clock, scanned, left, claims, counted, cache, intact, mount, peer, exported, trouble>>

(* An import may skip the verification of the exporter's chain.               *)
Import(p) ==
  /\ Event
  /\ \E at \in {clock, Never} :
       peer' = [peer EXCEPT ![p] = [@ EXCEPT !.payload = TRUE, !.imported = clock, !.verified = at]]
  /\ UNCHANGED <<clock, scanned, left, claims, counted, cache, intact, flight, mount, exported, trouble>>
LosePayload(p) ==
  /\ Event /\ peer' = [peer EXCEPT ![p].payload = FALSE]
  /\ UNCHANGED <<clock, scanned, left, claims, counted, cache, intact, flight, mount, exported, trouble>>

Export ==
  /\ Event /\ exported' = clock
  /\ UNCHANGED <<clock, scanned, left, claims, counted, cache, intact, flight, mount, peer, trouble>>

EditRow ==
  /\ Event /\ intact' = FALSE
  /\ UNCHANGED <<clock, scanned, left, claims, counted, cache, flight, mount, peer, exported, trouble>>
MountBecomes(m) ==
  /\ Event /\ \E v \in MountState \ {mount[m]} : mount' = [mount EXCEPT ![m] = v]
  /\ UNCHANGED <<clock, scanned, left, claims, counted, cache, intact, flight, peer, exported, trouble>>
TroubleArises(x) ==
  /\ Event /\ x \notin trouble /\ trouble' = trouble \cup {x}
  /\ UNCHANGED <<clock, scanned, left, claims, counted, cache, intact, flight, mount, peer, exported>>

Tick ==
  /\ report = NoReport /\ clock < MaxClock /\ clock' = clock + 1
  /\ counted' = [counted EXCEPT ![clock + 1] = {claims}]
  /\ UNCHANGED <<scanned, left, claims, cache, intact, flight, mount, peer, exported, trouble,
                 events, report>>

Next ==
  \/ Collect \/ Answer \/ CommitStash \/ Export \/ EditRow \/ Tick
  \/ \E r \in Root : ScanEnds(r)
  \/ \E e \in flight : CloseStash(e)
  \/ \E p \in Peer : Import(p) \/ LosePayload(p)
  \/ \E m \in Mount : MountBecomes(m)
  \/ \E x \in Trouble : TroubleArises(x)

Spec == Init /\ [][Next]_vars

-----------------------------------------------------------------------------
(* What each token says when it is ok.                                        *)
Fresh(at, max) == at # Never /\ clock - at <= max
Holds(t) ==
  CASE t = "stale_scan" ->
         left = {} /\ \A r \in Root : scanned[r] = Never \/ Fresh(scanned[r], ScanMaxAge)
    [] t = "broken_audit" -> intact
    [] t = "fp_not_ready" ->
         /\ "cloud_mount_gone" \notin trouble
         /\ "cloud_unpaired" \in trouble => "cloud_store_gone" \in trouble
         /\ "cloud_unlinked" \in trouble => trouble \cap {"cloud_store_gone", "cloud_one_volume"} = {}
    [] t = "dual_presence_poor" ->
         trouble \cap {"cloud_mount_gone", "cloud_store_gone", "cloud_unpaired"} = {}
    [] t = "rollup_stale" ->
         \E at \in Time : at <= clock /\ clock - at <= RollupMaxAge /\ report.counts \in counted[at]
    [] t = "mount_missing" -> \A m \in Range(Declared) : mount[m].present
    [] t = "mount_low" ->
         \A m \in Range(Declared) : mount[m].present /\ ~mount[m].link /\ ~mount[m].readonly =>
           /\ mount[m].free # Unread /\ mount[m].free >= BytesWarn /\ ~mount[m].slow
           /\ mount[m].total # 0 => mount[m].free <= mount[m].total
    [] t = "fp_sync_stuck" ->
         trouble \cap {"domain_looping", "domain_retrying", "domain_errors", "dump_unparsed"} = {}
    [] t = "unaccounted_space" -> "gap" \notin trouble
    [] t = "foreign_attach" ->
         /\ "forbidden_mount" \notin trouble
         /\ "foreign_image" \in trouble => report.request.fault = "hdiutil"
    [] t = "estate_binding" -> trouble \cap {"not_a_host", "wrong_db"} = {}
    [] t = "fleet_stale_scan" ->
         /\ \E r \in Root : Fresh(scanned[r], ScanMaxAge)
         /\ \A p \in Peer : peer[p].payload /\ Fresh(peer[p].scanned, ScanMaxAge)
    [] t = "fleet_chain_stale" ->
         \A p \in Peer : peer[p].payload /\ Fresh(peer[p].verified, AttachedMaxAge)
    [] t = "envelope_sla" ->
         /\ Fresh(exported, EnvelopeMaxAge)
         /\ \A p \in Peer : peer[p].payload /\ Fresh(peer[p].imported, AttachedMaxAge)
    [] t = "attached_missing" -> \A p \in Peer : peer[p].payload
    [] OTHER -> TRUE

(* A token at ok is true: what it stands for was measured and holds, whatever *)
(* was skipped, cached, unreadable or swallowed (evaluate.py's rule that an   *)
(* unmeasurable volume is "unknown, never ok").  A volume of no capacity is   *)
(* judged by its free bytes alone, one behind a link or that cannot be        *)
(* written not at all.  The fleet's tokens are left out when the imports      *)
(* cannot be listed, stash_overdue throughout: those two are ok without a     *)
(* measurement.                                                               *)
OkIsTrue ==
  \A t \in DOMAIN report.levels :
    report.levels[t] = "ok"
    /\ (report.request.fault = "imports" =>
          t \notin {"fleet_stale_scan", "fleet_chain_stale", "envelope_sla", "attached_missing"})
    => Holds(t)
=============================================================================
