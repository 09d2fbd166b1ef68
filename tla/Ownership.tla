------------------------------- MODULE Ownership -------------------------------
(* Volume ownership: which host may act on which path, decided from an estate *)
(* file that every host has a copy of.                                        *)
(*                                                                            *)
(* A process reads the estate file once (loader.current) and decides with     *)
(* what it read until it exits, whatever is deployed meanwhile.  A path is    *)
(* put on a volume by the regular expressions and the prefixes of the mounts  *)
(* that the estate declares, the longest prefix first; what lies where is     *)
(* Mounted, and a mount may lie inside another.  The callers differ in when   *)
(* they ask and in whose transaction a refusal is recorded:                   *)
(*   plan                drops rows and records nothing                       *)
(*   apply, scan         ask for everything first and record apart            *)
(*   finalize, restore   ask for everything first; the record is part of the  *)
(*                       transaction of the command                           *)
(*   replicate           asks source by source and commits before it runs one *)
(*   archive             the same, in the caller's transaction                *)
EXTENDS Naturals, Sequences, FiniteSets, SequencesExt

CONSTANTS Host, Process, HostOf,
          Volumes,     \* the volumes in the order in which the estate declares them
          Mounted,     \* Mounted[h]: the mount points of h, with the volume on each
          Database,    \* Database[h]: the machine_id of the inventory of h
          Estates,     \* the estate files there are, valid or not
          Commands,    \* [kind, items]: an item is a set of [action, path], asked together
          MaxRuns, MaxDeploys, MaxCrashes,
          None         \* no estate file, no volume

VARIABLES
  file,      \* file[h]: the estate file of host h, or None
  loaded,    \* loaded[p]: what process p read of it; <<>> before it has
  manifest,  \* manifest[h]: the rows planned last on h
  job,       \* job[p]: the command of p
  pend,      \* pend[p]: records of p's open transaction
  log,       \* records committed: [run, check]
  acts,      \* what was done: [run, host, check, under, own]
  runs, deploys,
  died       \* runs that were cut short

vars == <<file, loaded, manifest, job, pend, log, acts, runs, deploys, died>>

-----------------------------------------------------------------------------
(* What the estate file may say: the schema.                                  *)
Mounts(e, h) == {v \in Range(Volumes) : h \in DOMAIN e.volumes[v].mounts}
MountOf(e, h, v) == e.volumes[v].mounts[h]

(* Only the owner mounts rw, no host mounts two volumes at one path, whoever  *)
(* is named is a declared host, and what is planned in full is scanned.       *)
Valid(e) ==
  \A v \in Range(Volumes) :
    LET vol == e.volumes[v] IN
      /\ {vol.owner} \cup DOMAIN vol.mounts \cup {g.host : g \in vol.grants} \subseteq e.hosts
      /\ \A h \in DOMAIN vol.mounts :
           /\ vol.mounts[h].access = "rw" => h = vol.owner
           /\ \A w \in Mounts(e, h) \ {v} : MountOf(e, h, w).path # vol.mounts[h].path
      /\ vol.plan \in {"full", "nas-manifest"} => vol.scan

(* The prefix rules of h: the mount's own, or its path and all below; and the *)
(* volume's aliases.                                                          *)
Rules(e, h) ==
  UNION {LET m == MountOf(e, h, v) IN
           {[volume |-> v, prefix |-> x, itself |-> FALSE, root |-> m.path] : x \in m.prefixes}
           \cup (IF m.prefixes # {} THEN {}
                 ELSE {[volume |-> v, prefix |-> m.path, itself |-> TRUE, root |-> m.path]})
           \cup {[volume |-> v, prefix |-> x, itself |-> FALSE, root |-> x] : x \in e.volumes[v].aliases}
         : v \in Mounts(e, h)}

Fits(r, path) == IsPrefix(r.prefix, path) /\ (r.itself \/ path # r.prefix)
Declared(v) == SelectInSeq(Volumes, LAMBDA w : w = v)

LongestFirst(r, s) ==
  \/ Len(r.prefix) > Len(s.prefix)
  \/ Len(r.prefix) = Len(s.prefix) /\ Declared(r.volume) <= Declared(s.volume)
ShortestFirst(r, s) ==
  \/ Len(r.prefix) < Len(s.prefix)
  \/ Len(r.prefix) = Len(s.prefix) /\ Declared(r.volume) <= Declared(s.volume)
Before(r, s) == LongestFirst(r, s)

(* The first regular expression that matches, else the first prefix.          *)
Classify(e, h, path) ==
  LET found == {v \in Mounts(e, h) : path \in MountOf(e, h, v).regex}
      fits == {r \in Rules(e, h) : Fits(r, path)}
  IN  IF found # {}
      THEN LET v == CHOOSE v \in found : \A w \in found : Declared(v) <= Declared(w)
           IN  [volume |-> v, root |-> MountOf(e, h, v).path]
      ELSE IF fits # {}
      THEN LET r == CHOOSE r \in fits : \A s \in fits : Before(r, s)
           IN  [volume |-> r.volume, root |-> r.root]
      ELSE [volume |-> None, root |-> <<>>]

-----------------------------------------------------------------------------
(* Where a path of h is: on the volume of the innermost mount point above it. *)
Where(h, path) ==
  LET above == {m \in DOMAIN Mounted[h] : IsPrefix(m, path)}
  IN  Mounted[h][CHOOSE m \in above : \A n \in above : Len(n) <= Len(m)]

(* What e says of h is so: a volume is where its rules and its expressions    *)
(* put it, and one that is mounted inside another's place is declared too.    *)
Truthful(e, h) ==
  /\ \A r \in Rules(e, h) :
       /\ r.prefix \in Seq(STRING) /\ Where(h, r.prefix) = r.volume
       /\ \A m \in DOMAIN Mounted[h] :
            IsStrictPrefix(r.prefix, m) => \E s \in Rules(e, h) : s.prefix = m /\ s.itself
  /\ \A v \in Mounts(e, h) : \A path \in MountOf(e, h, v).regex : Where(h, path) = v

Kinds == {"plan", "apply", "scan", "finalize", "restore", "replicate", "archive"}
Asked == UNION {UNION Range(c.items) : c \in Commands}

OwnershipAssumption ==
  /\ HostOf \in [Process -> Host]
  /\ Volumes \in Seq(Range(Volumes))
  /\ \A c \in Commands : c.kind \in Kinds /\ c.items \in Seq(SUBSET Asked)
  /\ \A k \in Asked : k.action # "probe" /\ (k.path # None => k.path \in Seq(STRING))
  /\ \A h \in Host : DOMAIN Mounted[h] \subseteq Seq(STRING)
  /\ \A e \in Estates : e.enforce \in BOOLEAN /\ (Valid(e) => \A h \in Host : Truthful(e, h))
  /\ {MaxRuns, MaxDeploys, MaxCrashes} \subseteq Nat
  /\ None \notin Estates \cup Range(Volumes)

-----------------------------------------------------------------------------
Destinations == {"replicate-destination", "archive-destination"}
PlanPermits(plan) ==
  CASE plan = "full" -> {"stash", "retire", "promote-destination", "stash-finalize",
                         "stash-restore", "promote-source"}
    [] plan = "nas-manifest" -> {"nas_manifest", "promote-source"}
    [] plan = "source-only" -> {"promote-source"}
    [] plan = "none" -> {}

(* A replica grant of this host, and nothing else once there are grants.      *)
MayReceive(vol, h, access, root, path) ==
  IF vol.grants # {}
  THEN \E g \in vol.grants : g.host = h /\ IsPrefix(root \o g.prefix, path)
  ELSE vol.owner = h /\ access = "rw"

Allowed(e, h, k) ==
  \/ k.action \in Destinations /\ k.path = None  \* a remote
  \/ LET m == Classify(e, h, k.path) IN
       /\ m.volume # None
       /\ LET vol == e.volumes[m.volume]
              mount == vol.mounts[h]
              reads == mount.access \in {"rw", "ro"}
          IN  CASE k.action = "probe" -> mount.access # "ignore"
                [] k.action = "scan" -> reads /\ vol.scan /\ mount.scan
                [] k.action = "promote-source" -> reads /\ k.action \in PlanPermits(vol.plan)
                [] k.action \in Destinations -> reads /\ MayReceive(vol, h, mount.access, m.root, k.path)
                [] OTHER -> /\ vol.owner = h
                            /\ mount.access = "rw"
                            /\ k.action \in PlanPermits(vol.plan)

-----------------------------------------------------------------------------
Idle == [kind |-> "idle"]
NotLoaded == <<>>
Records(run, checks) == {[run |-> run, check |-> k] : k \in checks}

Init ==
  /\ file \in [Host -> Estates \cup {None}]
  /\ loaded = [p \in Process |-> NotLoaded]
  /\ manifest = [h \in Host |-> <<>>]
  /\ job = [p \in Process |-> Idle]
  /\ pend = [p \in Process |-> {}]
  /\ log = {} /\ acts = {}
  /\ runs = 0 /\ deploys = 0 /\ died = {}

(* The estate file of a host is replaced.                                     *)
Deploy(h, e) ==
  /\ deploys < MaxDeploys /\ e # file[h]
  /\ file' = [file EXCEPT ![h] = e]
  /\ deploys' = deploys + 1
  /\ UNCHANGED <<loaded, manifest, job, pend, log, acts, runs, died>>

(* current(): the file is read by the first command that needs it; one that   *)
(* is not valid stops the command and is read again by the next.              *)
Current(p) == IF loaded[p] = NotLoaded THEN file[HostOf[p]] ELSE loaded[p]
Reads(p, e) ==
  /\ e # None => Valid(e)
  /\ loaded' = [loaded EXCEPT ![p] = e]

(* require_identity: the estate lists this host, and the inventory is the one *)
(* it pins for it.                                                            *)
Identified(e, h) == h \in e.hosts /\ e.pinned[h] \in {None, Database[h]}

Refused(e, h, items) == IF e = None THEN {} ELSE {k \in UNION Range(items) : ~Allowed(e, h, k)}
(* A row that is left out is one in which nothing is left to do.              *)
Without(items, checks) == [i \in DOMAIN items |-> IF items[i] \cap checks = {} THEN items[i] ELSE {}]

RowsKept(e, items, refused) == IF e # None /\ e.enforce THEN Without(items, refused) ELSE items

(* A process begins a command: plan_*, apply_manifest, scan, finalize_stash,  *)
(* restore_stash.  Everything is asked before anything is done.  In enforce   *)
(* mode apply and scan do nothing when anything is refused, the others leave  *)
(* out what is.                                                               *)
BeginChecked(p, kind, items) ==
  LET h == HostOf[p]
      e == Current(p)
      refused == Refused(e, h, items)
      stops == kind \in {"apply", "scan"} /\ refused # {} /\ e.enforce
  IN  /\ job[p] = Idle /\ runs < MaxRuns
      /\ Reads(p, e)
      /\ e # None => Identified(e, h)
      /\ runs' = runs + 1
      /\ IF kind = "plan"
         THEN manifest' = [manifest EXCEPT ![h] = RowsKept(e, items, refused)]
         ELSE UNCHANGED manifest
      /\ job' = [job EXCEPT ![p] =
           IF kind = "plan" \/ stops THEN Idle
           ELSE [kind |-> kind, left |-> RowsKept(e, items, refused), run |-> runs + 1]]
      /\ IF kind \in {"apply", "scan"} THEN log' = log \cup Records(runs + 1, refused) ELSE UNCHANGED log
      /\ IF kind \in {"finalize", "restore"}
         THEN pend' = [pend EXCEPT ![p] = Records(runs + 1, refused)] ELSE UNCHANGED pend
      /\ UNCHANGED <<file, acts, deploys, died>>

Begin(p) == \E c \in Commands : c.kind \notin {"replicate", "archive"} /\ BeginChecked(p, c.kind, c.items)
ApplyPlanned(p) == manifest[HostOf[p]] # <<>> /\ BeginChecked(p, "apply", manifest[HostOf[p]])

(* replicate run, archive snapshot: who this is comes first, what may be      *)
(* written is asked source by source.                                         *)
BeginRunner(p, kind, items) ==
  LET e == Current(p) IN
  /\ kind \in {"replicate", "archive"}
  /\ job[p] = Idle /\ runs < MaxRuns
  /\ Reads(p, e)
  /\ e # None => Identified(e, HostOf[p])
  /\ runs' = runs + 1
  /\ job' = [job EXCEPT ![p] = [kind |-> kind, left |-> items, run |-> runs + 1]]
  /\ UNCHANGED <<file, manifest, pend, log, acts, deploys, died>>

Running(p) == job[p] # Idle /\ job[p].left # <<>>
Item(p) == Head(job[p].left)
Act(p, k, own) == [run |-> job[p].run, host |-> HostOf[p], check |-> k, under |-> loaded[p], own |-> own]

(* The next row, entry or source.  own: its record, if any, is left to the    *)
(* transaction of the command.                                                *)
Perform(p) ==
  LET kind == job[p].kind
      e == loaded[p]
      refused == IF kind \in {"replicate", "archive"} THEN Refused(e, HostOf[p], <<Item(p)>>) ELSE {}
      skipped == refused # {} /\ e.enforce
  IN  /\ Running(p)
      /\ job' = [job EXCEPT ![p].left = Tail(@)]
      /\ acts' = IF skipped THEN acts
                 ELSE acts \cup {Act(p, k, kind \in {"finalize", "restore", "archive"}) : k \in Item(p)}
      /\ log' = IF kind = "replicate" THEN log \cup Records(job[p].run, refused) ELSE log
      /\ pend' = IF kind = "archive"
                 THEN [pend EXCEPT ![p] = @ \cup Records(job[p].run, refused)] ELSE pend
      /\ UNCHANGED <<file, loaded, manifest, runs, deploys, died>>

(* The command ends and commits.                                              *)
Finish(p) ==
  /\ job[p] # Idle /\ job[p].left = <<>>
  /\ log' = log \cup pend[p]
  /\ pend' = [pend EXCEPT ![p] = {}]
  /\ job' = [job EXCEPT ![p] = Idle]
  /\ UNCHANGED <<file, loaded, manifest, acts, runs, deploys, died>>

(* The process exits between two commands, or dies in one.                    *)
Exit(p) ==
  /\ job[p] = Idle /\ loaded[p] # NotLoaded
  /\ loaded' = [loaded EXCEPT ![p] = NotLoaded]
  /\ UNCHANGED <<file, manifest, job, pend, log, acts, runs, deploys, died>>
Crash(p) ==
  /\ job[p] # Idle /\ Cardinality(died) < MaxCrashes
  /\ died' = died \cup {job[p].run}
  /\ job' = [job EXCEPT ![p] = Idle]
  /\ pend' = [pend EXCEPT ![p] = {}]
  /\ loaded' = [loaded EXCEPT ![p] = NotLoaded]
  /\ UNCHANGED <<file, manifest, log, acts, runs, deploys>>

Next ==
  \/ \E h \in Host, e \in Estates : Deploy(h, e)
  \/ \E p \in Process :
       \/ Begin(p) \/ ApplyPlanned(p)
       \/ \E c \in Commands : BeginRunner(p, c.kind, c.items)
       \/ Perform(p) \/ Finish(p) \/ Exit(p) \/ Crash(p)

Spec == Init /\ [][Next]_vars

-----------------------------------------------------------------------------
(* What estate e lets h do there: the owner changes a volume, as the plan of  *)
(* the volume has it; who reads has access; a replica goes to the owner's or  *)
(* to a host that was granted room.                                           *)
Entitled(e, h, k) ==
  \/ k.path = None
  \/ LET v == Where(h, k.path)
         vol == e.volumes[v]
     IN  /\ h \in DOMAIN vol.mounts
         /\ IF k.action \in {"scan", "promote-source"} THEN vol.mounts[h].access \in {"ro", "rw"}
            ELSE IF k.action \in Destinations
            THEN vol.owner = h \/ \E g \in vol.grants : g.host = h
            ELSE vol.owner = h /\ k.action \in PlanPermits(vol.plan)

Recorded(a) == [run |-> a.run, check |-> a.check] \in log
Left(a) == \E p \in Process : job[p] # Idle /\ job[p].run = a.run

(* A file is changed by the host that owns the volume it really lies on, as   *)
(* the estate says that the process has read: whoever else touches it does so *)
(* where no estate is deployed, or in report mode with the refusal on record  *)
(* -- before the file is touched, unless the command records in its own       *)
(* transaction.  Two hosts that share a volume and an enforced estate never   *)
(* both change it.                                                            *)
OwnersOnly ==
  \A a \in acts :
    \/ a.under = None
    \/ Entitled(a.under, a.host, a.check)
    \/ /\ ~a.under.enforce
       /\ Recorded(a) \/ (a.own /\ (Left(a) \/ a.run \in died))

(* The shape of the variables.                                                *)
TypeOK ==
  /\ \A h \in Host : file[h] \in Estates \cup {None}
  /\ \A p \in Process : loaded[p] \in Estates \cup {None, NotLoaded}
  /\ runs \in 0..MaxRuns /\ deploys \in 0..MaxDeploys /\ died \subseteq 1..MaxRuns
=============================================================================
