------------------------------ MODULE CloudRetire ------------------------------
(* Retiring files of a cloud drive.  A File Provider shows each file twice:   *)
(* in its store, a directory on an external volume, and under its mount, and  *)
(* the two can differ.  Deleting under the mount deletes in the cloud.  Scans *)
(* may have claimed either form, a plan retires claims by their path, a       *)
(* filter keeps the rows whose file is on both sides, and an apply verifies   *)
(* and deletes one of the forms.  Commands run one at a time, the provider    *)
(* and other programs at any time.                                            *)
EXTENDS Naturals, Sequences

CONSTANTS Rel,       \* files, by their path below the roots
          Content,
          Gone,      \* no file
          Start,     \* Start[r]: what both forms of r hold at first
          MaxClaims, MaxPlans, MaxWrites, MaxFaults  \* bounds: claims, plans, writes of others, faults

CloudAssumption ==
  /\ Gone \notin Content
  /\ Start \in [Rel -> Content]
  /\ {MaxClaims, MaxPlans, MaxWrites, MaxFaults} \subseteq Nat

Form == {"store", "mount"}
Path == Form \X Rel
Claim == [path : Path, content : Content, current : BOOLEAN]
NoKeeper == <<"none", Gone>>
Row == [path : Path, content : Content, keeper : Path \cup {NoKeeper}]

(* What an apply removes.  held and seen are history: what was there, and    *)
(* that nobody had written it since it was checked.                           *)
Removal == [row : Row, removed : Path, verified : BOOLEAN, held : Content, seen : BOOLEAN, dual : BOOLEAN]

VARIABLES
  disk,    \* what each form of each file holds
  marked,  \* names with a Selective Sync Conflict marker
  claims,  \* the claims table, in order of id
  plan,    \* the rows of a plan
  filter,  \* the filter or seed that runs
  bucket,  \* plan-dual.tsv in its output directory
  job,     \* the apply that runs; it holds the write lock
  pend,    \* what it has removed, and recorded in its transaction
  plans, writes, faults,
  both     \* history: rows that were on both sides when the bucket was filtered

vars == <<disk, marked, claims, plan, filter, bucket, job, pend, plans, writes, faults, both>>
inventory == <<marked, claims>>
listing == <<plan, filter, bucket, both, plans>>
applying == <<job, pend>>

-----------------------------------------------------------------------------
Idle == [at |-> "idle"]
Filtering(step) == filter.at = step
At(step) == job.at = step
AtRest == At("idle") /\ Filtering("idle")
There(p) == disk[p] # Gone

Init ==
  /\ disk = [p \in Path |-> Start[p[2]]]
  /\ marked \in SUBSET Rel
  /\ claims = << >>
  /\ plan = {} /\ filter = Idle /\ bucket = {} /\ both = {}
  /\ job = Idle /\ pend = {}
  /\ plans = 0 /\ writes = 0 /\ faults = 0

-----------------------------------------------------------------------------
(* A scan claims one file after another; older claims of a file stay.         *)
Scan(p) ==
  /\ AtRest /\ There(p) /\ Len(claims) < MaxClaims
  /\ claims' = Append(claims, [path |-> p, content |-> disk[p], current |-> TRUE])
  /\ UNCHANGED <<disk, marked, listing, applying, writes, faults>>

(* reconcile_dedup_retire below some roots: of the claims of a content, all   *)
(* on one tier, the oldest is kept, the others whose path differs as text     *)
(* are retired.                                                               *)
Current(roots) == {i \in DOMAIN claims : claims[i].current /\ claims[i].path[1] \in roots}
Group(c, roots) == {i \in Current(roots) : claims[i].content = c}
Oldest(G) == CHOOSE i \in G : \A j \in G : i <= j
Duplicates(roots) ==
  UNION {LET G == Group(c, roots) IN
         {[path |-> claims[i].path, content |-> c, keeper |-> claims[Oldest(G)].path] :
            i \in {i \in G : claims[i].path # claims[Oldest(G)].path}} : c \in Content}

Plan(roots) ==
  /\ AtRest /\ plans < MaxPlans
  /\ plans' = plans + 1
  /\ plan' = Duplicates(roots) /\ plan' # {}
  /\ UNCHANGED <<disk, inventory, filter, bucket, both, applying, writes, faults>>

(* seed_plan_from_prefix with action retire_direct lists every current claim  *)
(* below a directory.  With dual_presence_only it probes them as a filter     *)
(* does and its rows are those of the filter's bucket.                        *)
Seed(roots) ==
  /\ AtRest /\ plans < MaxPlans
  /\ plans' = plans + 1
  /\ plan' = {[path |-> claims[i].path, content |-> claims[i].content, keeper |-> NoKeeper] :
                i \in Current(roots)}
  /\ plan' # {}
  /\ UNCHANGED <<disk, inventory, filter, bucket, both, applying, writes, faults>>

(* filter_plan_rows, of each row in turn.                                     *)
Probing(left, kept, saw) == [at |-> "probe", left |-> left, kept |-> kept, saw |-> saw]

StartFilter ==
  /\ AtRest /\ plan # {}
  /\ filter' = Probing(plan, {}, {})
  /\ UNCHANGED <<disk, inventory, plan, bucket, both, plans, applying, writes, faults>>

-----------------------------------------------------------------------------
(* classify_presence_kind of what the two probes answered.                    *)
PresenceKind(r, store, mount) ==
  CASE r \in marked -> "conflict_name_path"
    [] r \notin marked /\ mount = "error" -> "mount_error"
    [] r \notin marked /\ mount = "yes" -> IF store = "yes" THEN "dual" ELSE "mount_only"
    [] r \notin marked /\ mount = "no" -> IF store = "yes" THEN "store_only" ELSE "missing_store"

(* probe_pair: the store first, the mount after it; either may be an error    *)
(* of a congested provider.                                                   *)
ProbeStore ==
  /\ Filtering("probe")
  /\ \E row \in filter.left :
       \E store \in {IF There(<<"store", row.path[2]>>) THEN "yes" ELSE "no", "error"} :
         /\ IF store = "error" THEN faults < MaxFaults /\ faults' = faults + 1 ELSE UNCHANGED faults
         /\ filter' = [at |-> "mount", left |-> filter.left \ {row}, kept |-> filter.kept, saw |-> filter.saw,
                       row |-> row, store |-> store]
  /\ UNCHANGED <<disk, inventory, plan, bucket, both, plans, applying, writes>>

ProbeMount ==
  /\ Filtering("mount")
  /\ LET row == filter.row
         there == There(<<"mount", row.path[2]>>)
     IN \E mount \in {IF there THEN "yes" ELSE "no", "error"} :
          /\ IF mount = "error" THEN faults < MaxFaults /\ faults' = faults + 1 ELSE UNCHANGED faults
          /\ filter' = Probing(filter.left,
                 IF PresenceKind(row.path[2], filter.store, mount) = "dual" THEN filter.kept \cup {row} ELSE filter.kept,
                 IF there /\ filter.store = "yes" THEN filter.saw \cup {row} ELSE filter.saw)
  /\ UNCHANGED <<disk, inventory, plan, bucket, both, plans, applying, writes>>

(* write_filtered_plans writes buckets that have rows only: without dual rows *)
(* the file of an earlier filter stays.                                       *)
WriteFiltered ==
  /\ Filtering("probe") /\ filter.left = {}
  /\ IF filter.kept = {} THEN UNCHANGED <<bucket, both>>
     ELSE bucket' = filter.kept /\ both' = filter.saw
  /\ filter' = Idle
  /\ UNCHANGED <<disk, inventory, plan, plans, applying, writes, faults>>

-----------------------------------------------------------------------------
(* resolve_fp_paths: one path is verified and deleted, the mount's, or the    *)
(* claim's with --allow-store-path-unlink.                                    *)
UnlinkPath(row, preferMount) == IF preferMount THEN <<"mount", row.path[2]>> ELSE row.path

\* Fault: the hash is taken in the store, which reads better under congestion.
VerifyPathStore(row, preferMount) == <<"store", row.path[2]>>

VerifyPath(row, preferMount) == UnlinkPath(row, preferMount)

(* claim_path_aliases                                                         *)
Aliases(row) == {<<form, row.path[2]>> : form \in Form}

StartApply(preferMount, verify, dual) ==
  /\ AtRest
  /\ LET rows == IF dual THEN bucket ELSE plan
     IN rows # {} /\ job' = [at |-> "row", left |-> rows, preferMount |-> preferMount, verify |-> verify, dual |-> dual]
  /\ UNCHANGED <<disk, inventory, listing, pend, writes, faults>>

Over(row) == job' = [at |-> "row", left |-> job.left \ {row}, preferMount |-> job.preferMount,
                     verify |-> job.verify, dual |-> job.dual]

(* A missing file, or one that is not what the row names, is an error of the  *)
(* row; so is a timeout of the provider.                                      *)
CheckRow ==
  /\ At("row")
  /\ \E row \in job.left :
       LET to == UnlinkPath(row, job.preferMount)
           sound == There(to) /\ (job.verify => disk[VerifyPath(row, job.preferMount)] = row.content)
       IN \/ /\ sound
             /\ job' = [at |-> "unlink", left |-> job.left, preferMount |-> job.preferMount,
                        verify |-> job.verify, dual |-> job.dual, row |-> row, seen |-> TRUE]
             /\ UNCHANGED faults
          \/ ~sound /\ Over(row) /\ UNCHANGED faults
          \/ faults < MaxFaults /\ faults' = faults + 1 /\ Over(row)
  /\ UNCHANGED <<disk, inventory, listing, pend, writes>>

(* unlink, the claims and the audit row.  A delete that times out is deferred *)
(* whether it took place or not.                                              *)
UnlinkRow ==
  /\ At("unlink")
  /\ LET to == UnlinkPath(job.row, job.preferMount)
     IN \/ /\ There(to)
           /\ disk' = [disk EXCEPT ![to] = Gone]
           /\ pend' = pend \cup {[row |-> job.row, removed |-> to, verified |-> job.verify, held |-> disk[to],
                                  seen |-> job.seen, dual |-> job.dual]}
           /\ UNCHANGED faults
        \/ ~There(to) /\ UNCHANGED <<disk, pend, faults>>
        \/ /\ faults < MaxFaults /\ faults' = faults + 1
           /\ disk' \in {disk, [disk EXCEPT ![to] = Gone]} /\ UNCHANGED pend
  /\ Over(job.row)
  /\ UNCHANGED <<inventory, listing, writes>>

EndApply ==
  /\ At("row") /\ job.left = {}
  /\ claims' = [i \in DOMAIN claims |->
                  IF \E r \in pend : r.row.content = claims[i].content /\ claims[i].path \in Aliases(r.row)
                  THEN [claims[i] EXCEPT !.current = FALSE] ELSE claims[i]]
  /\ pend' = {} /\ job' = Idle
  /\ UNCHANGED <<disk, marked, listing, writes, faults>>

(* An OSError that is no timeout, or a kill: the files stay deleted, the rows *)
(* are rolled back.                                                           *)
Abort ==
  /\ ~At("idle") /\ faults < MaxFaults
  /\ faults' = faults + 1
  /\ job' = Idle /\ pend' = {}
  /\ UNCHANGED <<disk, inventory, listing, writes>>

-----------------------------------------------------------------------------
(* The provider brings one form to what the other is, and other programs      *)
(* write or delete files.                                                     *)
Touches(p) == job' = IF At("unlink") /\ UnlinkPath(job.row, job.preferMount) = p
                     THEN [job EXCEPT !.seen = FALSE] ELSE job

Propagate(r) ==
  /\ disk[<<"store", r>>] # disk[<<"mount", r>>]
  /\ disk' = [disk EXCEPT ![<<"store", r>>] = disk[<<"mount", r>>]]
  /\ Touches(<<"store", r>>)
  /\ UNCHANGED <<inventory, listing, pend, writes, faults>>

Write(p, c) ==
  /\ writes < MaxWrites /\ c # disk[p]
  /\ writes' = writes + 1
  /\ disk' = [disk EXCEPT ![p] = c]
  /\ Touches(p)
  /\ UNCHANGED <<inventory, listing, pend, faults>>

Next ==
  \/ \E p \in Path : Scan(p)
  \/ \E roots \in SUBSET Form \ {{}} : Plan(roots) \/ Seed(roots)
  \/ StartFilter \/ ProbeStore \/ ProbeMount \/ WriteFiltered
  \/ \E preferMount, verify, dual \in BOOLEAN : StartApply(preferMount, verify, dual)
  \/ CheckRow \/ UnlinkRow \/ EndApply \/ Abort
  \/ \E r \in Rel : Propagate(r)
  \/ \E p \in Path, c \in Content \cup {Gone} : Write(p, c)

Spec == Init /\ [][Next]_vars

-----------------------------------------------------------------------------
(* The types of the variables.                                                *)
TypeOK ==
  /\ disk \in [Path -> Content \cup {Gone}]
  /\ claims \in Seq(Claim) /\ Len(claims) <= MaxClaims
  /\ {plan, bucket, both} \subseteq SUBSET Row
  /\ filter.at \in {"idle", "probe", "mount"}
  /\ job.at \in {"idle", "row", "unlink"}
  /\ pend \subseteq Removal
  /\ plans \in 0..MaxPlans /\ writes \in 0..MaxWrites /\ faults \in 0..MaxFaults
  /\ marked \subseteq Rel

(* retire_direct removes what its row names, although the two forms of a file *)
(* can differ: a file it verified held the row's content when it was deleted, *)
(* unless it was written in between.  And a row of plan-dual.tsv was on both  *)
(* sides when it was filtered, whatever the provider answered then.           *)
RemovedKnowingly ==
  \A r \in pend : /\ r.verified /\ r.seen => r.held = r.row.content
                  /\ r.dual => r.row \in both

(* An apply of a dedup plan leaves the copy its row names as the canonical    *)
(* one, "canonical lives on ..." (reconciler.py): it retires every other.     *)
KeeperStays == \A r \in pend : r.removed # r.row.keeper
=============================================================================
