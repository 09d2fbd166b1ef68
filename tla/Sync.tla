--------------------------------- MODULE Sync ---------------------------------
(* The machine that imports: fleet pull of one publishing host, imports of    *)
(* envelopes handed over, detach and verify of what is attached, and the      *)
(* preflight that keeps apply from acting on another machine's claims.        *)
(*                                                                            *)
(* A payload is [mid, ver], version ver of machine mid's database, known by   *)
(* its blake3.  An envelope pairs the payload its manifest describes with the *)
(* body that is in it.  A payload file is imports/<mid>/<stamp>.db, the stamp *)
(* in whole seconds.  Audit rows are a set: their order is AuditChain's.      *)
EXTENDS Naturals, FiniteSets

CONSTANTS Machine,    \* other machines
          Self,       \* this machine's machine_id
          Pin,        \* machine_id the estate pins for the publishing host
          Permanode,
          Holds,      \* Holds[m]: permanodes with a claim in machine m's database
          Proc,       \* processes of this machine
          MaxAttach,  \* databases SQLite attaches to one connection
          MaxClock,   \* bound: seconds
          MaxExports, \* bound: exports
          MaxEvents,  \* bound: commands of this machine, and faults
          Bad, None

Payload == [mid : Machine \cup {Self}, ver : 1..MaxExports]
Envelope == [man : Payload, body : Payload \cup {Bad}]
Time == 0..MaxClock
Row == [payload : Payload, stamp : Time, imported : Time, checked : Time]

ASSUME SyncAssumption ==
  /\ Pin \in Machine /\ Self \notin Machine
  /\ Holds \in [Machine -> SUBSET Permanode]
  /\ {MaxAttach, MaxClock, MaxExports, MaxEvents} \subseteq Nat
  /\ {Bad, None} \cap Payload = {} /\ None \notin Row \cup Envelope

VARIABLES
  published,  \* the envelope at the host's publish path, or None
  exported,   \* payloads whose database was exported
  inbox,      \* the envelope in the host's inbox, or None
  payloads,   \* payloads[m][s]: content of imports/<m>/<s>.db, or None
  attached,   \* attached_inventories: a Row per machine, or None
  audit,      \* rows of the audit log
  local,      \* permanodes with a current local claim
  cmd,        \* what each process does
  clock,
  events,     \* commands started and faults, counted
  overlapped, \* history: two of pull, import, detach and verify ran at once, or
              \* two imports of a machine took one file name in one second
  guarded     \* history: per running apply, the permanodes that have been
              \* another machine's only ever since it began

vars == <<published, exported, inbox, payloads, attached, audit, local, cmd,
          clock, events, overlapped, guarded>>
remote == <<published, exported>>
store == <<payloads, attached>>

-----------------------------------------------------------------------------
Idle == [op |-> "idle"]
Set(p, c) == cmd' = [cmd EXCEPT ![p] = c]
At(p, op, at) == cmd[p].op = op /\ cmd[p].at = at
Attached == {m \in Machine : attached[m] # None}
Present(m) == attached[m] # None /\ payloads[m][attached[m].stamp] # None
ForeignOnly == {x \in Permanode \ local : \E m \in Machine : Present(m) /\ x \in Holds[m]}

(* A command starts.  Apply may run beside the others.                        *)
Begin(p, c) ==
  /\ cmd[p] = Idle /\ events < MaxEvents
  /\ events' = events + 1
  /\ Set(p, c)
  /\ overlapped' = (overlapped \/ /\ c.op \notin {"idle", "apply"}
                                  /\ \E q \in Proc : cmd[q].op \notin {"idle", "apply"})
Continue(p, c) == cmd[p] # Idle /\ Set(p, c) /\ UNCHANGED <<events, overlapped>>

Init ==
  /\ published = None /\ exported = {} /\ inbox = None
  /\ payloads = [m \in Machine |-> [s \in Time |-> None]]
  /\ attached = [m \in Machine |-> None]
  /\ audit = {} /\ local = {}
  /\ cmd = [p \in Proc |-> Idle]
  /\ clock = 0 /\ events = 0
  /\ overlapped = FALSE /\ guarded = [p \in Proc |-> {}]

-----------------------------------------------------------------------------
(* Other machines: each export is of a new version.  The host may have been   *)
(* given another machine's database, and what it publishes may be unfinished  *)
(* or garbled: see Publisher.                                                 *)
Export(m, b) ==
  /\ Cardinality(exported) < MaxExports
  /\ LET x == [mid |-> m, ver |-> Cardinality(exported) + 1]
     IN /\ exported' = exported \cup {x}
        /\ b \in {x, Bad, None}
        /\ published' = IF b = None THEN published ELSE [man |-> x, body |-> b]
  /\ UNCHANGED <<inbox, store, audit, local, cmd, clock, events, overlapped>>

-----------------------------------------------------------------------------
(* run_rsync replaces the inbox's envelope when the transfer is complete.     *)
StartPull(p) ==
  /\ published # None
  /\ Begin(p, [op |-> "pull", at |-> "manifest"])
  /\ inbox' = published
  /\ UNCHANGED <<remote, store, audit, local, clock>>

(* It exits non-zero or times out: --partial leaves what has arrived.         *)
PullFails(p) ==
  /\ published # None
  /\ Begin(p, Idle)
  /\ inbox' \in {inbox, [published EXCEPT !.body = Bad]}
  /\ UNCHANGED <<remote, store, audit, local, clock>>

\* Fault: the pinned machine_id is not compared.
ReadManifestOfAny(p) ==
  /\ At(p, "pull", "manifest")
  /\ LET x == inbox.man
         known == x.mid \in Attached /\ attached[x.mid].payload = x /\ Present(x.mid)
     IN Continue(p, [op |-> "pull", at |-> IF known THEN "done" ELSE "import",
                     pulled |-> x, unchanged |-> known])
  /\ UNCHANGED <<remote, inbox, store, audit, local, clock>>

(* execute_pull between rsync and import: envelope_manifest, the pinned       *)
(* machine_id, _already_attached.                                             *)
ReadManifest(p) ==
  /\ At(p, "pull", "manifest")
  /\ LET x == inbox.man
         known == /\ x.mid \in Attached /\ attached[x.mid].payload = x /\ Present(x.mid)
     IN IF x.mid # Pin
        THEN Continue(p, Idle) /\ audit' = audit \cup {[act |-> "fleet_pull_refused", mid |-> x.mid]}
        ELSE /\ Continue(p, [op |-> "pull", at |-> IF known THEN "done" ELSE "import",
                             pulled |-> x, unchanged |-> known])
             /\ UNCHANGED audit
  /\ UNCHANGED <<remote, inbox, store, local, clock>>

(* fleet_pull is recorded from the manifest that was read first.              *)
RecordPull(p) ==
  /\ At(p, "pull", "done")
  /\ Continue(p, Idle)
  /\ audit' = audit \cup {[act |-> "fleet_pull", payload |-> cmd[p].pulled, unchanged |-> cmd[p].unchanged]}
  /\ UNCHANGED <<remote, inbox, store, local, clock>>

-----------------------------------------------------------------------------
(* db import of an envelope handed over on a disk.                            *)
StartImport(p, x) ==
  /\ x \in exported
  /\ Begin(p, [op |-> "import", at |-> "import", env |-> [man |-> x, body |-> x]])
  /\ UNCHANGED <<remote, inbox, store, audit, local, clock>>

Origin(p) == IF cmd[p].op = "pull" THEN inbox ELSE cmd[p].env
Importing(p, at) == cmd[p].op \in {"pull", "import"} /\ cmd[p].at = at
To(p, f) == [k \in DOMAIN cmd[p] \cup DOMAIN f |-> IF k \in DOMAIN f THEN f[k] ELSE cmd[p][k]]

(* import_inventory opens the envelope and reads its manifest, refuses this   *)
(* machine's own, and takes the file name from the clock.                     *)
OpenEnvelope(p) ==
  /\ Importing(p, "import")
  /\ LET x == Origin(p).man
     IN IF x.mid = Self THEN Continue(p, Idle)
        ELSE Continue(p, To(p, [at |-> "stage", man |-> x, stamp |-> clock]))
  /\ UNCHANGED <<remote, inbox, store, audit, local, clock>>

Place(p, y) ==
  LET m == cmd[p].man.mid t == cmd[p].stamp
  IN /\ payloads' = [payloads EXCEPT ![m][t] = y]
     /\ overlapped' = (overlapped \/ (m \in Attached /\ attached[m].stamp = t))
     /\ Set(p, To(p, [at |-> "attach"]))
     /\ UNCHANGED events

\* Fault: what was extracted is moved into place without its blake3 compared.
StageUnverified(p) ==
  /\ Importing(p, "stage")
  /\ Place(p, Origin(p).body)
  /\ UNCHANGED <<remote, inbox, attached, audit, local, clock>>

(* The envelope is opened again: extract, verify blake3 and chain, move into  *)
(* place.                                                                     *)
Stage(p) ==
  /\ Importing(p, "stage")
  /\ LET y == Origin(p).body
     IN IF y # cmd[p].man THEN Continue(p, Idle) /\ UNCHANGED payloads ELSE Place(p, y)
  /\ UNCHANGED <<remote, inbox, attached, audit, local, clock>>

(* _upsert_attached: row and audit row in one transaction.                    *)
Upsert(p) ==
  /\ Importing(p, "attach")
  /\ attached' = [attached EXCEPT ![cmd[p].man.mid] =
                    [payload |-> cmd[p].man, stamp |-> cmd[p].stamp, imported |-> clock, checked |-> clock]]
  /\ audit' = audit \cup {[act |-> "inventory_attached", payload |-> cmd[p].man]}
  /\ IF cmd[p].op = "pull" THEN Continue(p, To(p, [at |-> "done"])) ELSE Continue(p, Idle)
  /\ UNCHANGED <<remote, inbox, payloads, local, clock>>

-----------------------------------------------------------------------------
(* detach_import: get the row, unlink its file, delete the machine's row.     *)
StartDetach(p, m) ==
  /\ m \in Attached
  /\ Begin(p, [op |-> "detach", at |-> "unlink", mid |-> m, row |-> attached[m]])
  /\ UNCHANGED <<remote, inbox, store, audit, local, clock>>

(* An unlink that fails is passed over.                                       *)
UnlinkPayload(p) ==
  /\ At(p, "detach", "unlink")
  /\ Continue(p, [cmd[p] EXCEPT !.at = "delete"])
  /\ payloads' \in {payloads, [payloads EXCEPT ![cmd[p].mid][cmd[p].row.stamp] = None]}
  /\ UNCHANGED <<remote, inbox, attached, audit, local, clock>>

DeleteRow(p) ==
  /\ At(p, "detach", "delete")
  /\ attached' = [attached EXCEPT ![cmd[p].mid] = None]
  /\ audit' = audit \cup {[act |-> "inventory_detached", payload |-> cmd[p].row.payload]}
  /\ Continue(p, Idle)
  /\ UNCHANGED <<remote, inbox, payloads, local, clock>>

(* verify_imports: the chains of the payloads that are there are walked, then *)
(* the machines' rows get the time the command began.                         *)
StartVerify(p) ==
  /\ Attached # {}
  /\ Begin(p, [op |-> "verify", at |-> "update", since |-> clock, ok |-> {m \in Attached : Present(m)}])
  /\ UNCHANGED <<remote, inbox, store, audit, local, clock>>

UpdateVerified(p) ==
  /\ At(p, "verify", "update")
  /\ attached' = [m \in Machine |->
                    IF m \in cmd[p].ok \cap Attached THEN [attached[m] EXCEPT !.checked = cmd[p].since]
                    ELSE attached[m]]
  /\ Continue(p, Idle)
  /\ UNCHANGED <<remote, inbox, payloads, audit, local, clock>>

-----------------------------------------------------------------------------
(* preflight_apply attaches the payloads of the listed rows, in the order of  *)
(* the listing.  A failing ATTACH is passed over: the file is missing, or     *)
(* SQLite's limit is reached.                                                 *)
StartApply(p, rows, seen) ==
  /\ rows # {}
  /\ seen \subseteq {m \in Machine : Present(m)}
  /\ \/ Cardinality(seen) = MaxAttach
     \/ Cardinality(seen) < MaxAttach /\ seen = {m \in Machine : Present(m)}
  /\ Begin(p, [op |-> "apply", at |-> "classify", rows |-> rows, seen |-> seen])
  /\ UNCHANGED <<remote, inbox, store, audit, local, clock>>

\* Fault: a row counts as foreign from the second inventory that holds it on.
ForeignOfTwo(p) == {x \in cmd[p].rows \ local : Cardinality({m \in cmd[p].seen : x \in Holds[m]}) > 1}

Foreign(p) == {x \in cmd[p].rows \ local : \E m \in cmd[p].seen : x \in Holds[m]}

(* _classify_row for every row; one foreign row refuses the whole manifest.   *)
Classify(p) ==
  /\ At(p, "apply", "classify")
  /\ IF Foreign(p) = {}
     THEN Continue(p, [cmd[p] EXCEPT !.at = "execute"]) /\ UNCHANGED audit
     ELSE /\ Continue(p, Idle)
          /\ audit' = audit \cup {[act |-> "apply_rejected_imported_claim", permanode |-> x] : x \in Foreign(p)}
  /\ UNCHANGED <<remote, inbox, store, local, clock>>

(* The rows are applied; a retired one is not a current local claim any more. *)
Execute(p) ==
  /\ At(p, "apply", "execute")
  /\ Continue(p, Idle)
  /\ local' \in {local, local \ cmd[p].rows}
  /\ UNCHANGED <<remote, inbox, store, audit, clock>>

-----------------------------------------------------------------------------
LocalScan(x) ==
  /\ x \notin local
  /\ local' = local \cup {x}
  /\ UNCHANGED <<remote, inbox, store, audit, cmd, clock, events, overlapped>>

Kill(p) ==
  /\ cmd[p] # Idle /\ events < MaxEvents
  /\ events' = events + 1
  /\ Set(p, Idle)
  /\ UNCHANGED <<remote, inbox, store, audit, local, clock, overlapped>>

(* Somebody removes a payload file, or its volume is gone.                    *)
LosePayload(m, s) ==
  /\ payloads[m][s] # None /\ events < MaxEvents
  /\ events' = events + 1
  /\ payloads' = [payloads EXCEPT ![m][s] = None]
  /\ UNCHANGED <<remote, inbox, attached, audit, local, cmd, clock, overlapped>>

Tick ==
  /\ clock < MaxClock
  /\ clock' = clock + 1
  /\ UNCHANGED <<remote, inbox, store, audit, local, cmd, events, overlapped>>

-----------------------------------------------------------------------------
Step ==
  \/ \E m \in Machine \cup {Self}, b \in Payload \cup {Bad, None} : Export(m, b)
  \/ \E p \in Proc :
       \/ StartPull(p) \/ PullFails(p) \/ ReadManifest(p) \/ RecordPull(p)
       \/ (\E x \in exported : StartImport(p, x)) \/ OpenEnvelope(p) \/ Stage(p) \/ Upsert(p)
       \/ (\E m \in Machine : StartDetach(p, m)) \/ UnlinkPayload(p) \/ DeleteRow(p)
       \/ StartVerify(p) \/ UpdateVerified(p)
       \/ (\E rows \in SUBSET Permanode, seen \in SUBSET Machine : StartApply(p, rows, seen))
       \/ Classify(p) \/ Execute(p) \/ Kill(p)
  \/ \E x \in Permanode : LocalScan(x)
  \/ \E m \in Machine, s \in Time : LosePayload(m, s)
  \/ Tick

Next ==
  /\ Step
  /\ guarded' = [p \in Proc |-> IF cmd'[p].op # "apply" THEN {}
                                ELSE IF cmd[p].op = "apply" THEN guarded[p] \cap ForeignOnly'
                                ELSE ForeignOnly]

Spec == Init /\ [][Next]_vars

-----------------------------------------------------------------------------
TypeOK ==
  /\ published \in Envelope \cup {None} /\ inbox \in Envelope \cup {None}
  /\ exported \subseteq Payload
  /\ payloads \in [Machine -> [Time -> Payload \cup {None}]]
  /\ attached \in [Machine -> Row \cup {None}]
  /\ local \subseteq Permanode
  /\ \A p \in Proc : cmd[p].op \in {"idle", "pull", "import", "detach", "verify", "apply"}
  /\ clock \in Time /\ events \in 0..MaxEvents

(* An attached inventory's file, when it is there, is a database its machine  *)
(* exported; unless two commands overlapped it is the one the row names, and  *)
(* the row's chain_verified_at is not older than its import.                  *)
AttachedGenuine ==
  \A m \in Attached :
    LET r == attached[m] x == payloads[m][r.stamp]
    IN x # None => /\ x \in exported /\ x.mid = m
                   /\ ~overlapped => x = r.payload /\ r.checked >= r.imported

(* A recorded pull is of the machine the estate pins, and what it names was   *)
(* attached, unless two commands overlapped: the envelope the import opens    *)
(* need not be the one whose manifest was checked.                            *)
PulledWasAttached ==
  \A r \in audit :
    r.act = "fleet_pull" =>
      /\ r.payload.mid = Pin
      /\ ~overlapped => [act |-> "inventory_attached", payload |-> r.payload] \in audit

(* No apply acts on a permanode that other machines alone have had a claim    *)
(* for ever since it began (apply_preflight.py's "structural guarantee").     *)
ForeignNeverApplied ==
  [][\A p \in Proc : Execute(p) => cmd[p].rows \cap guarded[p] = {}]_vars
=============================================================================
