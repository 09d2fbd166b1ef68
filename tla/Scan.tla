-------------------------------- MODULE Scan ---------------------------------
(* steward scan: a walk of a root that records one claim per file in the      *)
(* inventory, alone or with one worker process per subtree, from scratch or   *)
(* resumed from an earlier run, next to other programs that write the files.  *)
(*                                                                            *)
(* A file is a content and a modification time in whole seconds; the content  *)
(* determines the size and stands for the permanode its hash leads to.  Tier, *)
(* skip list and container members are left out: they select files or add     *)
(* columns.                                                                   *)
EXTENDS Naturals, Sequences, FiniteSets

CONSTANTS Path,         \* files below the root
          Dir,          \* the directories of the walk: the root and its subtrees
          Root,         \* the root, whose own files are the loose files
          DirOf,        \* DirOf[p]: where p lies
          SizeOf,       \* SizeOf[c]: st_size of content c
          Threshold,    \* HashLadder's promote_threshold_bytes
          CommitEvery,  \* STEWARD_SCAN_COMMIT_EVERY
          Busy,         \* paths other programs write
          Starts,       \* the files there are at first, with bounds on edits and faults,
                        \* and whether two commands may scan at once
          MaxRuns,      \* bound: scan runs
          MaxClock,     \* bound: seconds
          MaxEdits,     \* bound: files other programs write or delete
          MaxFaults,    \* bound: processes killed, lock timeouts, and errors met on the disk
          NoFile        \* "no file at this path"

ScanAssumption ==
  /\ Root \in Dir
  /\ DirOf \in [Path -> Dir]
  /\ Busy \subseteq Path
  /\ Starts \subseteq [files : SUBSET Path, edits : 0..MaxEdits, faults : 0..MaxFaults,
                       together : BOOLEAN]
  /\ SizeOf \in [0..MaxEdits -> Nat]
  /\ {Threshold, CommitEvery, MaxRuns, MaxClock, MaxEdits, MaxFaults} \subseteq Nat
  /\ NoFile \notin [data : 0..MaxEdits, mtime : 0..MaxClock]
  /\ NoFile \notin [path : Path, mtime : 0..MaxClock, size : Nat, fast : Nat \cup {NoFile}]
  /\ NoFile \notin Nat
  /\ \A s \in Starts, p \in Busy : DirOf[p] \in {DirOf[q] : q \in s.files} \cup {Root}

Run == 1..MaxRuns
Content == 0..MaxEdits
File == [data : Content, mtime : 0..MaxClock]

(* A process that walks: the command itself has the root's name, a worker its *)
(* subtree's.  A worker can outlive its command, so it belongs to a run.      *)
Walker == Run \X Dir
Main(r) == <<r, Root>>

(* data is what the last hash read, size what the first one counted.          *)
Size == {SizeOf[c] : c \in Content}
Claim == [run : Run, path : Path, data : Content, mtime : 0..MaxClock, size : Size]

(* Progress of a walker: dirs and todo are what is left to list and to        *)
(* process, stat the file processed now and in it fast the size its first     *)
(* hash read, fresh the files since its last commit, walked and errors its    *)
(* ScanStats.                                                                 *)
Stat == [path : Path, mtime : 0..MaxClock, size : Size, fast : Size \cup {NoFile}]
Walk == [step : {"off", "walk", "wait", "done", "failed"}, dirs : SUBSET Dir,
         todo : SUBSET Path, stat : Stat \cup {NoFile},
         fresh : Nat, walked : Nat, errors : Nat]
Off == [step |-> "off", dirs |-> {}, todo |-> {}, stat |-> NoFile,
        fresh |-> 0, walked |-> 0, errors |-> 0]
Begun(D) == [Off EXCEPT !.step = "walk", !.dirs = D]

ScanRun == [started : 0..MaxClock, finished : BOOLEAN, resumed : 0..MaxRuns,
            walked : Nat, errors : Nat]

VARIABLES
  file,    \* file[p]: what lies at p
  clock,   \* now, in seconds
  runs,    \* the scan_runs table
  claims,  \* committed claims
  pend,    \* pend[w]: claims of w's open transaction
  lock,    \* the walkers holding SQLite's write lock: none or one
  walk,    \* walk[w]: where walker w is
  start,   \* the start of this behaviour
  edits, faults,
  stamps,  \* history: stamps[p]: every File that has been at p
  held,    \* history: held[r][p]: what lay at p, NoFile included, while run r was under way
  passed   \* history: passed[r]: paths run r dropped on an error that it only logs

vars == <<file, clock, runs, claims, pend, lock, walk, start, edits, faults, stamps, held, passed>>
disk == <<file, clock, start, edits>>
history == <<stamps, held, passed>>

-----------------------------------------------------------------------------
(* The subdirectories a scan finds: other programs write in those there are.  *)
Subtree == {DirOf[p] : p \in start.files} \ {Root}
Workers(r) == {<<r, d>> : d \in Subtree}
MayLock(w) == lock \subseteq {w}
CommitDue(w) == CommitEvery > 0 /\ walk[w].fresh >= CommitEvery
Exhausted(w) == walk[w].dirs = {} /\ walk[w].todo = {} /\ walk[w].stat = NoFile

(* All files processed and committed: _walk_serial returns.                   *)
Walked(w) == walk[w].step = "walk" /\ Exhausted(w) /\ walk[w].fresh = 0

Live(w) ==
  \/ walk[w].step = "wait"
  \/ walk[w].step = "walk" /\ (w[2] = Root \/ ~Walked(w))
UnderWay(r) == \E d \in Dir : Live(<<r, d>>)

(* find_latest_finished_run: started_at has whole seconds, so several runs    *)
(* can be the latest.                                                         *)
LatestFinished ==
  LET done == {r \in DOMAIN runs : runs[r].finished}
  IN {r \in done : \A q \in done : runs[q].started <= runs[r].started}

At(p) == IF file[p] = NoFile THEN NoFile ELSE file[p].data
ClaimsOf(r) == {c \in claims : c.run = r}

Init ==
  /\ start \in Starts
  /\ file = [p \in Path |-> IF p \in start.files THEN [data |-> 0, mtime |-> 0] ELSE NoFile]
  /\ clock = 0
  /\ runs = <<>>
  /\ claims = {}
  /\ pend = [w \in Walker |-> {}]
  /\ lock = {}
  /\ walk = [w \in Walker |-> Off]
  /\ edits = 0 /\ faults = 0
  /\ stamps = [p \in Path |-> IF p \in start.files THEN {file[p]} ELSE {}]
  /\ held = [r \in Run |-> [p \in Path |-> {}]]
  /\ passed = [r \in Run |-> {}]

-----------------------------------------------------------------------------
(* A failure on the disk that the code logs and does not count: what is left  *)
(* out of run r because of it are the paths P.                                *)
Overlook(r, P) ==
  /\ faults < start.faults
  /\ faults' = faults + 1
  /\ passed' = [passed EXCEPT ![r] = @ \cup P]
Below(D) == {p \in Path : DirOf[p] \in D}

(* scan_root up to its first commit: the scan_runs row and scan_start, seen   *)
(* by the workers.  _subtrees_of leaves out the directories it cannot read;   *)
(* with workers those it lists, D, go to one process each, and a root without *)
(* any is walked alone.                                                       *)
StartScan(D, resume) ==
  /\ start.together \/ \A r \in Run : ~Live(Main(r))
  /\ lock = {}
  /\ Len(runs) < MaxRuns
  /\ LET r == Len(runs) + 1
     IN /\ IF D \in {{}, Subtree} THEN UNCHANGED <<faults, passed>> ELSE Overlook(r, Below(Subtree \ D))
        /\ \E from \in IF resume /\ LatestFinished # {} THEN LatestFinished ELSE {0} :
             runs' = Append(runs, [started |-> clock, finished |-> FALSE, resumed |-> from,
                                   walked |-> 0, errors |-> 0])
        /\ walk' = [w \in Walker |->
                      IF w = Main(r) THEN (IF D = {} THEN Begun(Subtree \cup {Root}) ELSE [Off EXCEPT !.step = "wait"])
                      ELSE IF w[1] = r /\ w[2] \in D THEN Begun({w[2]})
                      ELSE walk[w]]
        /\ held' = [held EXCEPT ![r] = [p \in Path |-> {At(p)}]]
  /\ UNCHANGED <<disk, claims, pend, lock, stamps>>

(* os.walk lists a directory when it gets there, the root first.              *)
NextDir(w) == {d \in walk[w].dirs : d = Root \/ Root \notin walk[w].dirs}
ListDir(w) ==
  /\ walk[w].step = "walk"
  /\ walk[w].todo = {} /\ walk[w].stat = NoFile
  /\ \E d \in NextDir(w) :
       walk' = [walk EXCEPT ![w].dirs = @ \ {d},
                            ![w].todo = {p \in Path : DirOf[p] = d /\ file[p] # NoFile}]
  /\ UNCHANGED <<disk, runs, claims, pend, lock, faults, history>>

(* os.walk without onerror, and _loose_files_in: a directory that cannot be   *)
(* listed is dropped, the root with all that the walk has below it.           *)
PassDir(w) ==
  /\ walk[w].step = "walk"
  /\ walk[w].todo = {} /\ walk[w].stat = NoFile
  /\ \E d \in NextDir(w) :
       LET D == IF d = Root THEN walk[w].dirs ELSE {d}
       IN walk' = [walk EXCEPT ![w].dirs = @ \ D] /\ Overlook(w[1], Below(D))
  /\ UNCHANGED <<disk, runs, claims, pend, lock, stamps, held>>

(* _walk_files and _loose_files_in: lstat of the next name; a file that is    *)
(* gone leaves no trace.                                                      *)
StatFile(w) ==
  /\ walk[w].step = "walk" /\ walk[w].stat = NoFile
  /\ ~CommitDue(w)
  /\ \E p \in walk[w].todo :
       walk' = [walk EXCEPT
                  ![w].todo = @ \ {p},
                  ![w].stat = IF file[p] = NoFile THEN NoFile
                              ELSE [path |-> p, mtime |-> file[p].mtime,
                                    size |-> SizeOf[file[p].data], fast |-> NoFile]]
  /\ UNCHANGED <<disk, runs, claims, pend, lock, faults, history>>

(* The OSError of lstat, and isfile false by an error: the file is dropped.   *)
PassFile(w) ==
  /\ walk[w].step = "walk" /\ walk[w].stat = NoFile
  /\ ~CommitDue(w)
  /\ \E p \in walk[w].todo : walk' = [walk EXCEPT ![w].todo = @ \ {p}] /\ Overlook(w[1], {p})
  /\ UNCHANGED <<disk, runs, claims, pend, lock, stamps, held>>

Processed(w, failed) ==
  walk' = [walk EXCEPT ![w].stat = NoFile, ![w].fresh = @ + 1, ![w].walked = @ + 1,
                       ![w].errors = @ + (IF failed THEN 1 ELSE 0)]

\* Fault: the modification time is not compared.
CachedBySize(w) ==
  {c \in claims : /\ c.run = runs[w[1]].resumed
                  /\ c.path = walk[w].stat.path
                  /\ c.size = walk[w].stat.size}

(* Claims of the resumed run whose size and time are those of the stat.       *)
Cached(w) ==
  {c \in claims : /\ c.run = runs[w[1]].resumed
                  /\ c.path = walk[w].stat.path
                  /\ c.mtime = walk[w].stat.mtime
                  /\ c.size = walk[w].stat.size}

Insert(w, c, size) ==
  /\ MayLock(w)
  /\ lock' = {w}
  /\ pend' = [pend EXCEPT ![w] = @ \cup
                {[run |-> w[1], path |-> walk[w].stat.path, data |-> c, mtime |-> walk[w].stat.mtime,
                  size |-> size]}]
  /\ Processed(w, FALSE)
  /\ UNCHANGED <<disk, runs, claims, faults, history>>

(* _process_file with a cached claim: its permanode and size are reused.      *)
ReuseClaim(w) ==
  /\ walk[w].step = "walk" /\ walk[w].stat # NoFile
  /\ walk[w].stat.fast = NoFile
  /\ \E c \in Cached(w) : Insert(w, c.data, c.size)

(* The OSError of a file that is gone by now.                                 *)
Vanished(w) == Processed(w, TRUE) /\ UNCHANGED <<disk, runs, claims, pend, lock, faults, history>>

(* _process_file without one: ladder.fast reads what lies at the path by now  *)
(* and counts its bytes; a large file is read a second time.                  *)
FastHash(w) ==
  /\ walk[w].step = "walk" /\ walk[w].stat # NoFile
  /\ walk[w].stat.fast = NoFile /\ Cached(w) = {}
  /\ LET f == file[walk[w].stat.path]
     IN \/ f = NoFile /\ Vanished(w)
        \/ f # NoFile /\ SizeOf[f.data] < Threshold /\ Insert(w, f.data, SizeOf[f.data])
        \/ /\ f # NoFile /\ SizeOf[f.data] >= Threshold
           /\ walk' = [walk EXCEPT ![w].stat.fast = SizeOf[f.data]]
           /\ UNCHANGED <<disk, runs, claims, pend, lock, faults, history>>

(* ladder.archive: the permanode is that of the second read and of the size   *)
(* of the first.                                                              *)
ArchiveHash(w) ==
  /\ walk[w].step = "walk" /\ walk[w].stat # NoFile
  /\ walk[w].stat.fast # NoFile
  /\ LET f == file[walk[w].stat.path]
     IN IF f = NoFile THEN Vanished(w) ELSE Insert(w, f.data, walk[w].stat.fast)

(* The OSError of a read of a file that is there: counted and passed over.    *)
ReadError(w) ==
  /\ walk[w].step = "walk" /\ walk[w].stat # NoFile
  /\ walk[w].stat.fast # NoFile \/ Cached(w) = {}
  /\ faults < start.faults
  /\ faults' = faults + 1
  /\ Processed(w, TRUE)
  /\ UNCHANGED <<disk, runs, claims, pend, lock, history>>

(* _bump_scan_run_progress and commit: every CommitEvery files and at the end *)
(* of a walk.                                                                 *)
CommitBatch(w) ==
  /\ walk[w].step = "walk" /\ walk[w].fresh > 0
  /\ CommitDue(w) \/ Exhausted(w)
  /\ MayLock(w)
  /\ runs' = [runs EXCEPT ![w[1]].walked = @ + walk[w].fresh]
  /\ claims' = claims \cup pend[w]
  /\ pend' = [pend EXCEPT ![w] = {}]
  /\ walk' = [walk EXCEPT ![w].fresh = 0]
  /\ lock' = {}
  /\ UNCHANGED <<disk, faults, history>>

(* _bump_scan_run_progress behind another writer for sixty seconds: when the  *)
(* batch has no claim, its files wait for the totals of the run's end.        *)
BumpTimeout(w) ==
  /\ walk[w].step = "walk" /\ walk[w].fresh > 0
  /\ CommitDue(w) \/ Exhausted(w)
  /\ ~MayLock(w) /\ pend[w] = {}
  /\ faults < start.faults
  /\ faults' = faults + 1
  /\ walk' = [walk EXCEPT ![w].fresh = 0]
  /\ UNCHANGED <<disk, runs, claims, pend, lock, history>>

\* Fault: the first result is taken for all of them.
GatherFirst(r) ==
  /\ walk[Main(r)].step = "wait"
  /\ \E w \in Workers(r) : Walked(w)
  /\ walk' = [walk EXCEPT ![Main(r)] = Begun({Root})]
  /\ UNCHANGED <<disk, runs, claims, pend, lock, faults, history>>

(* _walk_parallel: fut.result() raises what a worker raised, but the executor *)
(* lets the other workers end first.  Then the loose files.                   *)
Gather(r) ==
  /\ walk[Main(r)].step = "wait"
  /\ \A w \in Workers(r) : ~Live(w)
  /\ walk' = [walk EXCEPT ![Main(r)] =
                IF \E w \in Workers(r) : walk[w].step = "failed"
                THEN [@ EXCEPT !.step = "failed"] ELSE Begun({Root})]
  /\ UNCHANGED <<disk, runs, claims, pend, lock, faults, history>>

(* The sum of a field of the walkers' stats, taken as a number of pairs.       *)
Counts(r, field) == UNION {{d} \X (1..walk[<<r, d>>][field]) : d \in Dir}
Total(r, field) == Cardinality(Counts(r, field))

(* scan_root's end: the totals, scan_end, and run_scan's commit.              *)
CloseRun(r) ==
  /\ Walked(Main(r))
  /\ lock = {}
  /\ runs' = [runs EXCEPT ![r].finished = TRUE, ![r].walked = Total(r, "walked"),
                          ![r].errors = Total(r, "errors")]
  /\ walk' = [walk EXCEPT ![Main(r)].step = "done"]
  /\ UNCHANGED <<disk, claims, pend, lock, faults, history>>

(* Processes W end at once: their transactions roll back.                     *)
Fails(W) ==
  /\ faults < start.faults
  /\ faults' = faults + 1
  /\ walk' = [w \in Walker |-> IF w \in W /\ Live(w) THEN [walk[w] EXCEPT !.step = "failed"] ELSE walk[w]]
  /\ pend' = [w \in Walker |-> IF w \in W THEN {} ELSE pend[w]]
  /\ lock' = lock \ W
  /\ UNCHANGED <<disk, runs, claims, history>>

(* "database is locked" after sixty seconds behind another writer: the first  *)
(* claim of a batch raises it.                                                *)
LockTimeout(w) ==
  /\ walk[w].step = "walk" /\ ~MayLock(w)
  /\ walk[w].stat # NoFile
  /\ Fails({w})

(* A killed command leaves its workers walking; a killed worker breaks the    *)
(* pool, which ends the others; an interrupt reaches all.                     *)
Kill(r) ==
  /\ UnderWay(r)
  /\ \E W \in {{Main(r)}, Workers(r), Workers(r) \cup {Main(r)}} :
       (\E w \in W : Live(w)) /\ Fails(W)

-----------------------------------------------------------------------------
(* Other programs write a file, whose time may be any earlier one when it is  *)
(* copied with its times, or delete it.                                       *)
Puts(p, f) ==
  /\ edits < start.edits
  /\ edits' = edits + 1
  /\ file' = [file EXCEPT ![p] = f]
  /\ stamps' = [stamps EXCEPT ![p] = @ \cup ({f} \ {NoFile})]
  /\ held' = [r \in Run |-> IF UnderWay(r)
                             THEN [held[r] EXCEPT ![p] = @ \cup {IF f = NoFile THEN NoFile ELSE f.data}]
                             ELSE held[r]]
  /\ UNCHANGED <<clock, start, runs, claims, pend, lock, walk, faults, passed>>

WriteFile(p) == \E m \in 0..clock : Puts(p, [data |-> edits + 1, mtime |-> m])
DeleteFile(p) == file[p] # NoFile /\ Puts(p, NoFile)

Tick ==
  /\ clock < MaxClock
  /\ clock' = clock + 1
  /\ UNCHANGED <<file, start, runs, claims, pend, lock, walk, edits, faults, history>>

WalkerStep(w) ==
  \/ ListDir(w) \/ PassDir(w) \/ StatFile(w) \/ PassFile(w)
  \/ ReuseClaim(w) \/ FastHash(w) \/ ArchiveHash(w) \/ ReadError(w)
  \/ CommitBatch(w) \/ BumpTimeout(w) \/ LockTimeout(w)

Next ==
  \/ \E D \in SUBSET Subtree, resume \in BOOLEAN : StartScan(D, resume)
  \/ \E w \in Walker : WalkerStep(w)
  \/ \E r \in Run : Gather(r) \/ CloseRun(r) \/ Kill(r)
  \/ \E p \in Busy : WriteFile(p) \/ DeleteFile(p)
  \/ Tick

Spec == Init /\ [][Next]_vars

-----------------------------------------------------------------------------
(* State and rows have their types; the lock is free or one walker's, and     *)
(* only its holder has claims pending.                                        *)
TypeOK ==
  /\ file \in [Path -> File \cup {NoFile}]
  /\ clock \in 0..MaxClock
  /\ runs \in Seq(ScanRun) /\ Len(runs) <= MaxRuns
  /\ claims \subseteq Claim
  /\ pend \in [Walker -> SUBSET Claim]
  /\ \A w \in Walker : lock = {w} \/ pend[w] = {}
  /\ walk \in [Walker -> Walk]
  /\ lock = {} \/ \E w \in Walker : lock = {w}
  /\ start \in Starts
  /\ edits \in 0..MaxEdits /\ faults \in 0..MaxFaults
  /\ stamps \in [Path -> SUBSET File]
  /\ held \in [Run -> [Path -> SUBSET (Content \cup {NoFile})]]
  /\ passed \in [Run -> SUBSET Path]

(* Two contents of p that size and time do not tell apart.                    *)
Ambiguous(p) ==
  \E f, g \in stamps[p] : f.data # g.data /\ f.mtime = g.mtime /\ SizeOf[f.data] = SizeOf[g.data]

(* A claim whose file was replaced between its stat and its hash, or between  *)
(* its two hashes: it pairs the time or the size of one file with the content *)
(* of another.                                                                *)
Torn(c) == [data |-> c.data, mtime |-> c.mtime] \notin stamps[c.path] \/ c.size # SizeOf[c.data]

(* A claim, hashed or reused over any number of resumed runs, names a content *)
(* its path really had while its run was under way.  It may not where two     *)
(* contents look alike to size and time, and where a torn claim is reused for *)
(* a later file with the size of the one and the time of the other.           *)
ClaimsWereThere ==
  \A c \in claims :
    \/ c.data \in held[c.run][c.path]
    \/ Ambiguous(c.path)
    \/ \E d \in claims : d.run < c.run /\ d.path = c.path /\ d.data = c.data /\ Torn(d)

(* A finished run has a claim for every file that lay untouched below the     *)
(* root while it ran, but for those it counts as errors and those it could    *)
(* not see, which only the log names; its counters are those of its claims    *)
(* and errors, whichever processes walked and whatever was killed.            *)
FinishedCovers ==
  \A r \in DOMAIN runs : runs[r].finished =>
    LET untouched == {p \in Path \ passed[r] : \E c \in Content : held[r][p] = {c}}
    IN /\ Cardinality({p \in untouched : \A c \in ClaimsOf(r) : c.path # p}) <= runs[r].errors
       /\ runs[r].walked = Cardinality(ClaimsOf(r)) + Total(r, "errors")

(* Once a run is finished, and so a base to resume from, no process adds a    *)
(* claim to it or changes its row.                                            *)
FinishedFrozen ==
  [][\A r \in DOMAIN runs : runs[r].finished => runs'[r] = runs[r] /\ ClaimsOf(r)' = ClaimsOf(r)]_vars
=============================================================================
