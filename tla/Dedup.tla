-------------------------------- MODULE Dedup --------------------------------
(* From scan to finalize: claims are recorded from files, a retention policy  *)
(* turns current claims into a manifest that keeps one copy of each content,  *)
(* apply moves or deletes the others, stash entries are finalized or          *)
(* restored.  The question is whether a content keeps a copy.                 *)
(*                                                                            *)
(* A permanode stands for the content it is the hash of, a tier for its       *)
(* priority and the action its files get.  The steps of one stash operation   *)
(* are in Stash: here a finalized or restored entry is one step.              *)
EXTENDS Sequences, Naturals, FiniteSets

CONSTANTS Path,       \* places of files
          Content,    \* contents of files, each with its permanode
          NoFile,     \* "nothing there"
          Initial,    \* Initial[p]: what is at p at first
          Priority,   \* tier_priority of the tier of p, 999 when it has none
          Action,     \* what the policy does with a copy on the tier of p
          Recovered,  \* paths with one of recovered_substrings
          Bias,       \* whether the policies in use set recovered_substrings
          Scopes,     \* sets of paths a root_prefix selects
          MaxClaims,  \* bound: claims
          MaxPlans,   \* bound: manifests
          MaxEdits,   \* bound: writes by other programs
          MaxFaults   \* bound: applies that raise or die

DedupAssumption ==
  /\ NoFile \notin Content
  /\ Initial \in [Path -> Content \cup {NoFile}]
  /\ Priority \in [Path -> Nat]
  /\ Action \in [Path -> {"stash", "retire_direct", "nas_manifest", "skip"}]
  /\ Recovered \subseteq Path
  /\ Bias \subseteq BOOLEAN
  /\ Scopes \subseteq SUBSET Path
  /\ {MaxClaims, MaxPlans, MaxEdits, MaxFaults} \subseteq Nat

(* Places: a path, or the file called p in the stash directory of manifest k. *)
(* Stash directories lie on the tier of the file and can be scanned.          *)
Place == [stash : {0}, name : Path] \cup [stash : 1..MaxPlans, name : Path]
Live(p) == [stash |-> 0, name |-> p]
Stashed(k, l) == [stash |-> k, name |-> l.name]
IsRecovered(l) == l.stash = 0 /\ l.name \in Recovered

Claim == [pid : Content, at : Place, current : BOOLEAN]
ManifestRow == [pid : Content, from : Place, action : {"stash", "retire_direct"}]
Entry == [run : 1..MaxPlans, from : Place, pid : Content]

(* A running apply: todo are the rows left, row the checked one or none, and  *)
(* flips and stashed what its transaction holds.                              *)
Job == [plan : 0..MaxPlans, verify : BOOLEAN, todo : SUBSET ManifestRow,
        row : SUBSET ManifestRow, flips : SUBSET ManifestRow, stashed : SUBSET Entry]
NoJob == [plan |-> 0, verify |-> TRUE, todo |-> {}, row |-> {}, flips |-> {}, stashed |-> {}]

VARIABLES
  disk,       \* disk[l]: the content at place l
  claims,     \* the claims table, in order of id
  plans,      \* the manifests written: their rows
  job,        \* the apply that holds SQLite's write lock
  reading,    \* what the scanner has read and not inserted yet
  entries,    \* stash entries in flight
  edits, faults,
  disturbed,  \* history: contents another program took a copy of, or wrote over a claimed path
  retired,    \* history: <<content, place>> retired and not scanned again
  late        \* history: <<content, place>> retired between the scanner's read and its insert

history == <<disturbed, retired, late>>
vars == <<disk, claims, plans, job, reading, entries, edits, faults, history>>

-----------------------------------------------------------------------------
Unlocked == job.plan = 0
IsClaimed(l) == \E i \in DOMAIN claims : claims[i].at = l

(* The claims of content c a plan over scope considers. *)
Group(c, scope) ==
  {i \in DOMAIN claims : claims[i].current /\ claims[i].pid = c /\ claims[i].at.name \in scope}

Mixed(G) == {IsRecovered(claims[i].at) : i \in G} = BOOLEAN

(* _rank: recovered copies last where the group is mixed, then the tier, then *)
(* the claim's id.                                                            *)
Outranks(i, j, biased) ==
  LET demoted(n) == biased /\ IsRecovered(claims[n].at)
      tier(n) == Priority[claims[n].at.name]
  IN \/ ~demoted(i) /\ demoted(j)
     \/ demoted(i) = demoted(j) /\ tier(i) < tier(j)
     \/ demoted(i) = demoted(j) /\ tier(i) = tier(j) /\ i < j

Keeper(G, biased) ==
  CHOOSE i \in G : \A j \in G \ {i} : Outranks(i, j, biased /\ Mixed(G))

\* Fault: no "same tier, same path" test, so a second claim of the keeper is a row.
RowsOfKeeperToo(c, scope, biased) ==
  LET G == Group(c, scope)
  IN {[pid |-> c, from |-> claims[i].at, action |-> Action[claims[i].at.name]] :
        i \in {j \in G : j # Keeper(G, biased)}}

(* reconcile_dedup_retire for one content: a row for every claim but the      *)
(* keeper's.  Rows of read-only tiers move nothing and are left out.          *)
RowsOf(c, scope, biased) ==
  LET G == Group(c, scope)
  IN {[pid |-> c, from |-> claims[i].at, action |-> Action[claims[i].at.name]] :
        i \in {j \in G : claims[j].at # claims[Keeper(G, biased)].at}}

Manifest(scope, biased) ==
  {r \in UNION {RowsOf(c, scope, biased) : c \in Content} :
     r.action \in {"stash", "retire_direct"}}

Init ==
  /\ disk = [l \in Place |-> IF l.stash = 0 THEN Initial[l.name] ELSE NoFile]
  /\ claims = <<>>
  /\ plans = <<>>
  /\ job = NoJob
  /\ reading = {}
  /\ entries = {}
  /\ edits = 0 /\ faults = 0
  /\ disturbed = {} /\ retired = {} /\ late = {}

-----------------------------------------------------------------------------
(* Scan: _process_file hashes the file, then needs the write lock to insert   *)
(* the claim.  Claims of the same path stay as they are.                      *)
ReadFile(l) ==
  /\ reading = {}
  /\ disk[l] # NoFile
  /\ reading' = {[pid |-> disk[l], at |-> l, current |-> TRUE]}
  /\ retired' = retired \ {<<disk[l], l>>} /\ late' = late \ {<<disk[l], l>>}
  /\ UNCHANGED <<disk, claims, plans, job, entries, edits, faults, disturbed>>

InsertClaim ==
  /\ Unlocked
  /\ Len(claims) < MaxClaims
  /\ \E c \in reading :
       /\ claims' = Append(claims, c)
       /\ retired' = retired \ ({<<c.pid, c.at>>} \ late)
  /\ reading' = {}
  /\ UNCHANGED <<disk, plans, job, entries, edits, faults, disturbed, late>>

(* policy plan. *)
Plan(scope, biased) ==
  /\ Len(plans) < MaxPlans
  /\ Manifest(scope, biased) # {}
  /\ plans' = Append(plans, Manifest(scope, biased))
  /\ UNCHANGED <<disk, claims, job, reading, entries, edits, faults, history>>

-----------------------------------------------------------------------------
(* apply_manifest --execute: one transaction around all rows. *)

StartApply(k, verify) ==
  /\ Unlocked
  /\ job' = [NoJob EXCEPT !.plan = k, !.verify = verify, !.todo = plans[k]]
  /\ UNCHANGED <<disk, claims, plans, reading, entries, edits, faults, history>>

(* What a row is checked for: a stash row for a source and a free             *)
(* destination, a retire_direct row for the content it names.                 *)
Checks(r) ==
  \/ /\ r.action = "stash"
     /\ disk[r.from] # NoFile
     /\ disk[Stashed(job.plan, r.from)] = NoFile
  \/ /\ r.action = "retire_direct"
     /\ IF job.verify THEN disk[r.from] = r.pid ELSE disk[r.from] # NoFile

CheckRow(r) ==
  /\ job.row = {}
  /\ Checks(r)
  /\ job' = [job EXCEPT !.todo = @ \ {r}, !.row = {r}]
  /\ UNCHANGED <<disk, claims, plans, reading, entries, edits, faults, history>>

(* A row with an error, one whose rename or unlink times out, and one past    *)
(* max_files is passed over.                                                  *)
SkipRow(r) ==
  /\ job.row \subseteq {r}
  /\ job' = [job EXCEPT !.todo = @ \ {r}, !.row = {}]
  /\ UNCHANGED <<disk, claims, plans, reading, entries, edits, faults, history>>

(* The rename, and the stash_committed row.  The claim stays current. *)
StashRow(r) ==
  /\ r.action = "stash"
  /\ disk[r.from] # NoFile
  /\ disk' = [disk EXCEPT ![r.from] = NoFile, ![Stashed(job.plan, r.from)] = disk[r.from]]
  /\ job' = [job EXCEPT !.row = {},
                        !.stashed = @ \cup {[run |-> job.plan, from |-> r.from, pid |-> r.pid]}]
  /\ UNCHANGED <<claims, plans, reading, entries, edits, faults, history>>

(* The unlink, and the update of the claims; a file gone since is an error of *)
(* the row.                                                                   *)
RetireRow(r) ==
  /\ r.action = "retire_direct"
  /\ disk' = [disk EXCEPT ![r.from] = NoFile]
  /\ job' = [job EXCEPT !.row = {},
                        !.flips = IF disk[r.from] = NoFile THEN @ ELSE @ \cup {r}]
  /\ late' = late \cup {<<c.pid, c.at>> : c \in {c \in reading : c.pid = r.pid /\ c.at = r.from}}
  /\ UNCHANGED <<claims, plans, reading, entries, edits, faults, disturbed, retired>>

\* Fault: only the newest claim of a retired file is no longer current.
FlippedNewest(flips) ==
  [i \in DOMAIN claims |->
     [claims[i] EXCEPT !.current =
        /\ @
        /\ \/ \A r \in flips : r.pid # claims[i].pid \/ r.from # claims[i].at
           \/ \E j \in DOMAIN claims : j > i /\ claims[j] = claims[i]]]

(* UPDATE claims SET is_current = 0, for every claim of a retired file. *)
Flipped(flips) ==
  [i \in DOMAIN claims |->
     [claims[i] EXCEPT !.current =
        @ /\ \A r \in flips : r.pid # claims[i].pid \/ r.from # claims[i].at]]

EndApply ==
  /\ ~Unlocked
  /\ job.row = {} /\ job.todo = {}
  /\ claims' = Flipped(job.flips)
  /\ entries' = entries \cup job.stashed
  /\ retired' = retired \cup {<<r.pid, r.from>> : r \in job.flips}
  /\ job' = NoJob
  /\ UNCHANGED <<disk, plans, reading, edits, faults, disturbed, late>>

(* A row raises what apply_manifest does not catch, or the process dies: the  *)
(* transaction is lost, what happened to the files is not.                    *)
Abort ==
  /\ ~Unlocked
  /\ faults < MaxFaults
  /\ faults' = faults + 1
  /\ job' = NoJob
  /\ UNCHANGED <<disk, claims, plans, reading, entries, edits, history>>

-----------------------------------------------------------------------------
(* stash finalize and stash restore, one entry at a time.  They touch the     *)
(* file before they need the write lock, so an apply may be running.          *)
Finalize(e) ==
  /\ disk[Stashed(e.run, e.from)] # NoFile
  /\ disk' = [disk EXCEPT ![Stashed(e.run, e.from)] = NoFile]
  /\ entries' = entries \ {e}
  /\ UNCHANGED <<claims, plans, job, reading, edits, faults, history>>

Restore(e) ==
  /\ disk[Stashed(e.run, e.from)] # NoFile
  /\ disk[e.from] = NoFile
  /\ disk' = [disk EXCEPT ![e.from] = disk[Stashed(e.run, e.from)],
                          ![Stashed(e.run, e.from)] = NoFile]
  /\ entries' = entries \ {e}
  /\ UNCHANGED <<claims, plans, job, reading, edits, faults, history>>

(* Another program writes or removes a file. *)
Write(p, c) ==
  LET l == Live(p)
  IN /\ edits < MaxEdits
     /\ edits' = edits + 1
     /\ disk[l] # c
     /\ disk' = [disk EXCEPT ![l] = c]
     /\ disturbed' = disturbed \cup ({disk[l]} \ {NoFile})
                       \cup (IF IsClaimed(l) \/ \E r \in reading : r.at = l
                             THEN {c} \ {NoFile} ELSE {})
     /\ UNCHANGED <<claims, plans, job, reading, entries, faults, retired, late>>

Next ==
  \/ \E l \in Place : ReadFile(l)
  \/ InsertClaim
  \/ \E scope \in Scopes, biased \in Bias : Plan(scope, biased)
  \/ \E k \in 1..Len(plans), verify \in BOOLEAN : StartApply(k, verify)
  \/ \E r \in job.todo : CheckRow(r)
  \/ \E r \in job.todo \cup job.row : SkipRow(r)
  \/ \E r \in job.row : StashRow(r) \/ RetireRow(r)
  \/ EndApply
  \/ Abort
  \/ \E e \in entries : Finalize(e) \/ Restore(e)
  \/ \E p \in Path, c \in Content \cup {NoFile} : Write(p, c)

Spec == Init /\ [][Next]_vars

-----------------------------------------------------------------------------
TypeOK ==
  /\ disk \in [Place -> Content \cup {NoFile}]
  /\ claims \in Seq(Claim) /\ Len(claims) <= MaxClaims
  /\ plans \in Seq(SUBSET ManifestRow) /\ Len(plans) <= MaxPlans
  /\ job \in Job /\ Cardinality(job.row) <= 1
  /\ reading \in SUBSET Claim /\ Cardinality(reading) <= 1
  /\ entries \in SUBSET Entry
  /\ edits \in 0..MaxEdits /\ faults \in 0..MaxFaults
  /\ disturbed \in SUBSET Content
  /\ retired \in SUBSET (Content \X Place) /\ late \in SUBSET (Content \X Place)

(* A content Steward has claimed, and that no other program has touched,      *)
(* keeps a copy outside the stash directories, whatever was planned, applied, *)
(* interrupted, scanned again, finalized and restored.                        *)
LastCopySafe ==
  \A i \in DOMAIN claims :
    claims[i].pid \in disturbed \/ \E p \in Path : disk[Live(p)] = claims[i].pid

(* A file retire_direct has deleted is in no plan made later, as keeper or as *)
(* row, until a scan reads it again; unless a scan had read it before it was  *)
(* deleted and inserts its claim afterwards, which nothing checks.            *)
RetiredNotCurrent ==
  \A i \in DOMAIN claims :
    claims[i].current => <<claims[i].pid, claims[i].at>> \notin retired \ late

-----------------------------------------------------------------------------
(* verify_stash: _find_canonical_outside looks for a current claim outside    *)
(* the stash directory of the run.                                            *)
CanonicalOutside(e) ==
  \E i \in DOMAIN claims :
    claims[i].current /\ claims[i].pid = e.pid /\ claims[i].at.stash # e.run

VerifiedOk(e) ==
  /\ disk[Stashed(e.run, e.from)] # NoFile
  /\ disk[e.from] = NoFile
  /\ CanonicalOutside(e)

(* An entry stash verify reports as ok has another copy, in place or in       *)
(* another stash: "Verify every in-flight entry of manifest_run_id is safe to *)
(* finalize", where a content with no other copy is not (stash_cmd.py).       *)
VerifiedHasCopy ==
  Unlocked =>
    \A e \in entries :
      VerifiedOk(e) /\ e.pid \notin disturbed =>
        \E l \in Place : l.stash # e.run /\ disk[l] = e.pid
=============================================================================
