------------------------------ MODULE Containers ------------------------------
(* steward scan --include-containers: after a container file itself is hashed *)
(* and claimed (Scan), its checksum is taken, it is opened once more, and     *)
(* every member is hashed and claimed with that checksum: three reads of a    *)
(* file that other programs may write in between.                             *)
(*                                                                            *)
(* ZIP and tar are read through a handle; a disk image is mounted, which is   *)
(* a handle too; 7z and RAR are extracted into a temporary directory.  A      *)
(* version of a container is a number, and its checksum; Members gives what   *)
(* is in it.  Members on the skip list are left out, and so is the database's *)
(* write lock, which a walker holds from the claim of the file on (Scan).     *)
EXTENDS Naturals, Sequences, FiniteSets

CONSTANTS Container,
          Kind,      \* Kind[c]: "native", "image" or "unar"
          Version,
          Member,    \* names of members
          Members,   \* Members[v][m]: the content of m in version v, or None
          First,     \* the versions there are at first
          MaxRuns, MaxEdits, MaxFaults,  \* bounds
          None

ContainersAssumption ==
  /\ Kind \in [Container -> {"native", "image", "unar"}]
  /\ Version \subseteq Nat /\ \A v \in Version : DOMAIN Members[v] = Member
  /\ First \in [Container -> Version]
  /\ {MaxRuns, MaxEdits, MaxFaults} \subseteq Nat
  /\ None \notin Version \cup Member

VARIABLES
  disk,    \* disk[c]: the version at c's path, or None
  runs,    \* the scan runs, the totals of their scan_end, the containers they hashed,
           \* and, a history, those written meanwhile
  claims,  \* committed claims of files (no member) and of members
  pend,    \* those of the open transaction
  scan,    \* the walk, or None
  dirs,    \* temporary directories and what was extracted into them
  edits, faults,
  held,    \* history: held[c]: the versions of c since its checksum was taken
  passed   \* history: the members, with run and file, left out on errors nobody counts

vars == <<disk, runs, claims, pend, scan, dirs, edits, faults, held, passed>>
kept == <<disk, runs, edits, passed>>

Zero == [walked |-> 0, skipped |-> 0, errored |-> 0, members |-> 0, failed |-> 0]
Contains(v) == {m \in Member : Members[v][m] # None}

Init ==
  /\ disk = First /\ held = [c \in Container |-> {}]
  /\ runs = <<>> /\ claims = {} /\ pend = {} /\ scan = None
  /\ dirs = <<>> /\ edits = 0 /\ faults = 0 /\ passed = {}

-----------------------------------------------------------------------------
(* scan_root; the files below the root but the containers are in Scan.        *)
Finished == {r \in DOMAIN runs : runs[r].finished}
Latest == CHOOSE r \in Finished : \A q \in Finished : q <= r
Start(from) ==
  /\ scan = None /\ Len(runs) < MaxRuns
  /\ from # 0 => from \in Finished /\ from = Latest
  /\ runs' = Append(runs, [finished |-> FALSE, totals |-> Zero, hashed |-> {}, touched |-> {}])
  /\ scan' = [run |-> Len(runs) + 1, from |-> from, todo |-> {c \in Container : disk[c] # None},
              at |-> "next", file |-> None, sha |-> None, members |-> {}, dir |-> 0, stats |-> Zero]
  /\ UNCHANGED <<disk, claims, pend, dirs, edits, faults, held, passed>>

Counting(counter) == [scan EXCEPT !.stats[counter] = @ + 1]
Errored(s) == [s EXCEPT !.at = "next", !.stats.errored = @ + 1]

(* _process_file: claimed again from the run it resumes if it is as it was,   *)
(* and then no member is looked at; else hashed.                              *)
FileClaim(c) ==
  [run |-> scan.run, file |-> c, member |-> None, data |-> disk[c], sha |-> None, during |-> {}]
Reused(c) == \E k \in claims : k.run = scan.from /\ k.file = c /\ k.member = None /\ k.data = disk[c]
ProcessFile(c) ==
  /\ scan # None /\ scan.at = "next" /\ c \in scan.todo
  /\ LET s == [scan EXCEPT !.todo = @ \ {c}, !.file = c]
         hash == disk[c] # None /\ ~Reused(c)
     IN /\ pend' = IF disk[c] = None THEN pend ELSE pend \cup {FileClaim(c)}
        /\ scan' = IF hash THEN [s EXCEPT !.at = "dispatch"] ELSE s
        /\ runs' = IF hash THEN [runs EXCEPT ![scan.run].hashed = @ \cup {c}] ELSE runs
  /\ UNCHANGED <<disk, edits, claims, dirs, faults, held, passed>>

(* walk_container: without its tool the container is skipped; otherwise the   *)
(* checksum is taken, unless it cannot be read.                               *)
Skip ==
  /\ scan # None /\ scan.at = "dispatch" /\ Kind[scan.file] # "native"
  /\ scan' = [Counting("skipped") EXCEPT !.at = "next"]
  /\ UNCHANGED <<kept, claims, pend, dirs, faults, held>>
TakeChecksum ==
  /\ scan # None /\ scan.at = "dispatch"
  /\ LET v == disk[scan.file] IN
       IF v = None THEN scan' = Errored(scan) /\ UNCHANGED held
       ELSE /\ scan' = [Counting("walked") EXCEPT !.at = "open", !.sha = v]
            /\ held' = [held EXCEPT ![scan.file] = {v}]
  /\ UNCHANGED <<kept, claims, pend, dirs, faults>>

(* ZipFile and tarfile.open, hdiutil attach or unar: what fails is counted,   *)
(* and no longer as walked if a tool failed.                                  *)
OpenFails ==
  scan' = IF Kind[scan.file] = "native" THEN Errored(scan) ELSE Errored([scan EXCEPT !.stats.walked = @ - 1])

\* Fault: one directory for all extractions, which a killed scan leaves full.
SameDir == 1
FreshDir == Len(dirs) + 1
ExtractDir == FreshDir
Extracted(v) == {<<m, Members[v][m]>> : m \in Contains(v)}

Open ==
  /\ scan # None /\ scan.at = "open"
  /\ LET v == disk[scan.file] IN
       IF v = None THEN OpenFails /\ UNCHANGED dirs
       ELSE IF Kind[scan.file] = "unar"
       THEN LET d == ExtractDir
                found == Extracted(v) \cup (IF d \in DOMAIN dirs THEN dirs[d] ELSE {})
            IN /\ dirs' = [n \in DOMAIN dirs \cup {d} |-> IF n = d THEN found ELSE dirs[n]]
               /\ scan' = [scan EXCEPT !.at = "members", !.dir = d, !.members = {x[1] : x \in found}]
       ELSE scan' = [scan EXCEPT !.at = "members", !.dir = 0, !.members = Contains(v)] /\ UNCHANGED dirs
  /\ UNCHANGED <<kept, claims, pend, faults, held>>
OpenError ==
  /\ scan # None /\ scan.at = "open" /\ faults < MaxFaults /\ faults' = faults + 1
  /\ OpenFails
  /\ UNCHANGED <<kept, claims, pend, dirs, held>>

(* _walk_zip, _walk_tar, _walk_extracted_tree: a member is hashed and claimed.*)
(* One that cannot be read is counted and passed over.                        *)
Readable(m) ==
  IF scan.dir # 0 THEN {x[2] : x \in {y \in dirs[scan.dir] : y[1] = m}}
  ELSE {Members[v][m] : v \in held[scan.file]} \ {None}
Claims(m, data) ==
  /\ pend' = pend \cup {[run |-> scan.run, file |-> scan.file, member |-> m, data |-> data,
                         sha |-> scan.sha, during |-> held[scan.file]]}
  /\ scan' = [Counting("members") EXCEPT !.members = @ \ {m}]
\* Fault: a member that cannot be read is passed over only.
MemberPassedOver(m) == scan' = [scan EXCEPT !.members = @ \ {m}] /\ UNCHANGED pend
MemberFails(m) == scan' = [Counting("failed") EXCEPT !.members = @ \ {m}] /\ UNCHANGED pend

ReadMember(m) ==
  /\ scan # None /\ scan.at = "members" /\ m \in scan.members
  /\ \E data \in Readable(m) : Claims(m, data)
  /\ UNCHANGED <<kept, claims, dirs, faults, held>>
MemberError(m) ==
  /\ scan # None /\ scan.at = "members" /\ m \in scan.members
  /\ faults < MaxFaults /\ faults' = faults + 1
  /\ MemberFails(m)
  /\ UNCHANGED <<kept, claims, dirs, held>>

(* _walk_extracted_tree: os.walk without onerror drops what is below a        *)
(* directory that it cannot list, and a file is left out when isfile is false *)
(* on an error; neither is counted.                                           *)
PassMembers ==
  /\ scan # None /\ scan.at = "members" /\ Kind[scan.file] # "native"
  /\ faults < MaxFaults /\ faults' = faults + 1
  /\ \E ms \in (SUBSET scan.members) \ {{}} :
       /\ scan' = [scan EXCEPT !.members = @ \ ms]
       /\ passed' = passed \cup ({scan.run} \X {scan.file} \X ms)
  /\ UNCHANGED <<disk, runs, edits, claims, pend, dirs, held>>

(* The end of a container: the directory is removed, and the walk commits.    *)
CloseContainer ==
  /\ scan # None /\ scan.at = "members" /\ scan.members = {}
  /\ dirs' = IF scan.dir = 0 THEN dirs ELSE [dirs EXCEPT ![scan.dir] = {}]
  /\ scan' = [scan EXCEPT !.at = "next", !.dir = 0]
  /\ UNCHANGED <<kept, claims, pend, faults, held>>
Commit ==
  /\ scan # None /\ scan.at = "next" /\ pend # {}
  /\ claims' = claims \cup pend /\ pend' = {}
  /\ UNCHANGED <<kept, scan, dirs, faults, held>>
CloseRun ==
  /\ scan # None /\ scan.at = "next" /\ scan.todo = {} /\ pend = {}
  /\ runs' = [runs EXCEPT ![scan.run].finished = TRUE, ![scan.run].totals = scan.stats]
  /\ scan' = None
  /\ UNCHANGED <<disk, claims, pend, dirs, edits, faults, held, passed>>

(* Only the errors of the format and of the system are caught: an encrypted   *)
(* or corrupt member, or a name that occurs twice, ends the scan, which still *)
(* removes its directory.  A kill leaves it.                                  *)
Dies(cleans) ==
  /\ scan # None /\ faults < MaxFaults /\ faults' = faults + 1
  /\ cleans => scan.at = "members"
  /\ dirs' = IF cleans /\ scan.dir # 0 THEN [dirs EXCEPT ![scan.dir] = {}] ELSE dirs
  /\ pend' = {} /\ scan' = None
  /\ UNCHANGED <<kept, claims, held>>

-----------------------------------------------------------------------------
(* Other programs replace, rewrite or delete a container; through a handle    *)
(* that is open either version may be read.                                   *)
Write(c) ==
  /\ edits < MaxEdits /\ edits' = edits + 1
  /\ \E v \in (Version \cup {None}) \ {disk[c]} :
       /\ disk' = [disk EXCEPT ![c] = v]
       /\ held' = [held EXCEPT ![c] = @ \cup ({v} \ {None})]
  /\ runs' = IF scan = None THEN runs ELSE [runs EXCEPT ![scan.run].touched = @ \cup {c}]
  /\ UNCHANGED <<claims, pend, scan, dirs, faults, passed>>

Next ==
  \/ \E from \in 0..MaxRuns : Start(from)
  \/ \E c \in Container : ProcessFile(c) \/ Write(c)
  \/ Skip \/ TakeChecksum \/ Open \/ OpenError \/ PassMembers \/ CloseContainer \/ Commit \/ CloseRun
  \/ \E m \in Member : ReadMember(m) \/ MemberError(m)
  \/ \E cleans \in BOOLEAN : Dies(cleans)

Spec == Init /\ [][Next]_vars

-----------------------------------------------------------------------------
MembersOf(r, c) == {k \in claims : k.run = r /\ k.file = c /\ k.member # None}

(* A member's claim names what the member held in a version the container had *)
(* between the checksum the claim carries and the reading of the member: that *)
(* version, if nobody wrote it, whatever earlier scans have left behind.      *)
MembersWereThere ==
  \A k \in claims : k.member # None =>
    /\ k.sha \in k.during
    /\ \E v \in k.during : Members[v][k.member] = k.data

(* The totals of a finished scan account for every member of the containers   *)
(* it hashed and nobody wrote: it is claimed, or counted as failed, or its    *)
(* container is counted as skipped or errored.  What an extracted tree does   *)
(* not show is left out of all of them.                                       *)
MembersAccounted ==
  \A r \in Finished :
    LET t == runs[r].totals
        whole(c) == CHOOSE v \in Version :
          \E k \in claims : k.run = r /\ k.file = c /\ k.member = None /\ k.data = v
        seen == runs[r].hashed \ runs[r].touched
        due(c) == {m \in Contains(whole(c)) : <<r, c, m>> \notin passed}
        blank == {c \in seen : MembersOf(r, c) = {} /\ due(c) # {}}
        missing == {x \in (seen \ blank) \X Member :
                      x[2] \in due(x[1]) /\ \A k \in MembersOf(r, x[1]) : k.member # x[2]}
    IN /\ t.members = Cardinality({k \in claims : k.run = r /\ k.member # None})
       /\ Cardinality(missing) <= t.failed
       /\ Cardinality(blank) <= t.skipped + t.errored + t.failed
=============================================================================
