----------------------------- MODULE HostsProofs -----------------------------
(* What TLAPS checks of the importing machine and of the runs that send       *)
(* copies elsewhere, for any machines, processes, sources and bounds.         *)
EXTENDS Hosts, Sequences, FiniteSetTheorems, TLAPS

-----------------------------------------------------------------------------
(* Sync.  What a process may be doing, with the fields each step has.         *)
Cmd ==
  [op : {"idle"}]
  \cup [op : {"pull"}, at : {"manifest"}]
  \cup [op : {"pull"}, at : {"import", "done"}, pulled : Payload, unchanged : BOOLEAN]
  \cup [op : {"pull"}, at : {"stage", "attach", "done"}, pulled : Payload, unchanged : BOOLEAN,
        man : [mid : Machine, ver : 1..MaxExports], stamp : Time]
  \cup [op : {"import"}, at : {"import"}, env : Envelope]
  \cup [op : {"import"}, at : {"stage", "attach"}, env : Envelope,
        man : [mid : Machine, ver : 1..MaxExports], stamp : Time]
  \cup [op : {"detach"}, at : {"unlink", "delete"}, mid : Machine, row : Row]
  \cup [op : {"verify"}, at : {"update"}, since : Time, ok : SUBSET Machine]
  \cup [op : {"apply"}, at : {"classify", "execute"}, rows : SUBSET Permanode, seen : SUBSET Machine]

SyncTypes ==
  /\ published \in Envelope \cup {None} /\ inbox \in Envelope \cup {None}
  /\ exported \subseteq Payload /\ IsFiniteSet(exported)
  /\ payloads \in [Machine -> [Time -> Payload \cup {None}]]
  /\ attached \in [Machine -> Row \cup {None}]
  /\ cmd \in [Proc -> Cmd]
  /\ clock \in Time /\ events \in Nat
  /\ overlapped \in BOOLEAN

(* Every envelope names an export, and holds one or is garbled; every payload *)
(* file is an export of the machine it is filed under.                        *)
Genuine(e) == e.man \in exported /\ e.body \in exported \cup {Bad}
AllGenuine ==
  /\ \A e \in {published, inbox} : e # None => Genuine(e)
  /\ \A p \in Proc : /\ cmd[p].op = "import" => Genuine(cmd[p].env)
                     /\ cmd[p].op = "pull" => inbox # None
  /\ \A m \in Machine, s \in Time :
       payloads[m][s] # None => payloads[m][s] \in exported /\ payloads[m][s].mid = m

(* What the audit log has of what is attached and of what was pulled.         *)
Attachment(x) == [act |-> "inventory_attached", payload |-> x]
Recorded ==
  /\ \A m \in Machine : attached[m] # None => Attachment(attached[m].payload) \in audit /\ attached[m].imported <= clock
  /\ \A r \in audit : r.act = "fleet_pull" =>
       r.payload.mid = Pin /\ (~overlapped => Attachment(r.payload) \in audit)
  /\ \A p \in Proc : cmd[p].op = "pull" /\ cmd[p].at # "manifest" => cmd[p].pulled.mid = Pin

(* What a command that runs alone knows.  A pull that fails may garble the    *)
(* inbox beside it.                                                           *)
Ready(p) ==
  /\ cmd[p].op \in {"pull", "import"} /\ cmd[p].at = "attach" =>
       payloads[cmd[p].man.mid][cmd[p].stamp] \in {cmd[p].man, None}
  /\ cmd[p].op = "pull" =>
       /\ cmd[p].at = "import" => inbox.man = cmd[p].pulled \/ inbox.body = Bad
       /\ cmd[p].at = "stage" => cmd[p].man = cmd[p].pulled \/ inbox.body = Bad
       /\ cmd[p].at = "attach" => cmd[p].man = cmd[p].pulled
       /\ cmd[p].at = "done" => Attachment(cmd[p].pulled) \in audit
  /\ cmd[p].op = "verify" =>
       \A m \in Machine : attached[m] # None => attached[m].imported <= cmd[p].since

Busy(p) == cmd[p].op \notin {"idle", "apply"}
Undisturbed ==
  ~overlapped =>
    /\ \A p, q \in Proc : Busy(p) /\ Busy(q) => p = q
    /\ \A p \in Proc : Ready(p)
    /\ \A m \in Machine : attached[m] # None =>
         /\ payloads[m][attached[m].stamp] \in {attached[m].payload, None}
         /\ attached[m].checked >= attached[m].imported

SyncInv == SyncTypes /\ AllGenuine /\ Recorded /\ Undisturbed

LEMMA SyncInit == Init => SyncInv
<1>. SUFFICES ASSUME Init PROVE SyncInv
  OBVIOUS
<1>. USE SyncAssumption DEF Init, Idle
<1>1. SyncTypes
  <2>1. Idle \in Cmd
    BY DEF Cmd
  <2>2. cmd \in [Proc -> Cmd]
    BY <2>1
  <2>. QED
    <3>1. payloads \in [Machine -> [Time -> Payload \cup {None}]] /\ attached \in [Machine -> Row \cup {None}]
      OBVIOUS
    <3>2. clock \in Time /\ events \in Nat
      BY DEF Time
    <3>. QED
      BY <2>2, <3>1, <3>2, FS_EmptySet DEF SyncTypes
<1>2. AllGenuine
  BY DEF AllGenuine
<1>3. Recorded
  BY DEF Recorded
<1>4. Undisturbed
  BY DEF Undisturbed, Busy, Ready
<1>. QED
  BY <1>1, <1>2, <1>3, <1>4 DEF SyncInv

(* A process goes on, or begins, and changes neither files nor rows.          *)
LEMMA SyncGoes ==
  ASSUME SyncInv, NEW p \in Proc, NEW c \in Cmd, cmd' = [cmd EXCEPT ![p] = c],
         UNCHANGED <<published, exported, inbox, payloads, attached, clock>>, events' \in Nat,
         overlapped' \in BOOLEAN,
         overlapped => overlapped',
         ~overlapped' => \/ Busy(p) \/ c.op \in {"idle", "apply"}
                         \/ \A q \in Proc : ~Busy(q),
         audit \subseteq audit',
         \A r \in audit' \ audit : r.act = "fleet_pull" =>
            r.payload.mid = Pin /\ (~overlapped' => Attachment(r.payload) \in audit'),
         c.op = "pull" => inbox # None,
         c.op = "pull" /\ c.at # "manifest" => c.pulled.mid = Pin,
         c.op = "import" => Genuine(c.env),
         ~overlapped' => Ready(p)'
  PROVE  SyncInv'
<1>0. SyncTypes /\ AllGenuine /\ Recorded /\ Undisturbed
  BY DEF SyncInv
<1>1. cmd' \in [Proc -> Cmd] /\ cmd'[p] = c /\ \A q \in Proc : q # p => cmd'[q] = cmd[q]
  BY <1>0 DEF SyncTypes
<1>2. SyncTypes'
  BY <1>0, <1>1 DEF SyncTypes
<1>3. AllGenuine'
  BY <1>0, <1>1 DEF AllGenuine, Genuine
<1>4. Recorded'
  BY <1>0, <1>1 DEF Recorded
<1>5. ASSUME ~overlapped' PROVE Undisturbed'
  <2>1. \A q \in Proc : q # p => Ready(q)'
    BY <1>0, <1>1, <1>5 DEF Undisturbed, Ready
  <2>2. \A q, r \in Proc : Busy(q)' /\ Busy(r)' => q = r
    BY <1>0, <1>1, <1>5 DEF Undisturbed, Busy
  <2>. QED
    BY <1>0, <1>5, <2>1, <2>2 DEF Undisturbed
<1>. QED
  BY <1>2, <1>3, <1>4, <1>5 DEF SyncInv, Undisturbed

LEMMA SyncStep == SyncInv /\ [Next]_vars => SyncInv'
<1>. SUFFICES ASSUME SyncInv, [Next]_vars PROVE SyncInv'
  OBVIOUS
<1>0. SyncTypes /\ AllGenuine /\ Recorded /\ Undisturbed
  BY DEF SyncInv
<1>a. /\ Pin \in Machine /\ Self \notin Machine /\ MaxClock \in Nat /\ Bad \notin Payload /\ None \notin Payload
      /\ None \notin Row /\ None \notin Envelope /\ exported \subseteq Payload
  BY SyncAssumption, <1>0 DEF SyncTypes
<1>t. events \in Nat /\ overlapped \in BOOLEAN /\ clock \in Time /\ clock \in Nat /\ cmd \in [Proc -> Cmd]
  BY <1>0, <1>a DEF SyncTypes, Time

<1>1. ASSUME NEW m \in Machine \cup {Self}, NEW b \in Payload \cup {Bad, None}, Export(m, b) PROVE SyncInv'
  <2>1. PICK x \in Payload : /\ exported' = exported \cup {x} /\ b \in {x, Bad, None}
                             /\ published' = IF b = None THEN published ELSE [man |-> x, body |-> b]
    <3>1. Cardinality(exported) \in Nat
      BY <1>0, FS_CardinalityType DEF SyncTypes
    <3>2. Cardinality(exported) + 1 \in 1..MaxExports
      BY <1>1, <3>1, SyncAssumption DEF Export
    <3>. QED
      BY <1>1, <3>2 DEF Export, Payload
  <2>2. UNCHANGED <<inbox, payloads, attached, audit, cmd, clock, events, overlapped>>
    BY <1>1 DEF Export, store
  <2>3. SyncTypes'
    <3>1. published' \in Envelope \cup {None}
      BY <1>0, <2>1 DEF SyncTypes, Envelope
    <3>. QED
      BY <1>0, <2>1, <2>2, <3>1, FS_AddElement DEF SyncTypes
  <2>4. AllGenuine'
    BY <1>0, <2>1, <2>2 DEF AllGenuine, Genuine
  <2>5. Recorded'
    BY <1>0, <2>2 DEF Recorded
  <2>6. Undisturbed'
    BY <1>0, <2>2 DEF Undisturbed, Busy, Ready
  <2>. QED
    BY <2>3, <2>4, <2>5, <2>6 DEF SyncInv
<1>2. ASSUME NEW p \in Proc, StartPull(p) PROVE SyncInv'
  <2>. DEFINE c == [op |-> "pull", at |-> "manifest"]
  <2>1. /\ published # None /\ inbox' = published /\ cmd[p] = Idle /\ events' = events + 1
        /\ cmd' = [cmd EXCEPT ![p] = c]
        /\ overlapped' = (overlapped \/ \E q \in Proc : Busy(q))
        /\ UNCHANGED <<published, exported, payloads, attached, audit, clock>>
    BY <1>2 DEF StartPull, Begin, Set, Busy, remote, store
  <2>2. c \in Cmd
    BY DEF Cmd
  <2>3. c.op = "pull" /\ c.at = "manifest"
    OBVIOUS
  <2>. HIDE DEF c
  <2>4. cmd' \in [Proc -> Cmd] /\ cmd'[p] = c /\ \A q \in Proc : q # p => cmd'[q] = cmd[q]
    BY <1>t, <2>1, <2>2
  <2>5. SyncTypes'
    BY <1>0, <1>t, <2>1, <2>4 DEF SyncTypes
  <2>6. AllGenuine'
    BY <1>0, <2>1, <2>3, <2>4 DEF AllGenuine, Genuine
  <2>7. Recorded'
    BY <1>0, <2>1, <2>3, <2>4 DEF Recorded
  <2>8. Undisturbed'
    BY <1>0, <2>1, <2>3, <2>4 DEF Undisturbed, Busy, Ready
  <2>. QED
    BY <2>5, <2>6, <2>7, <2>8 DEF SyncInv
<1>3. ASSUME NEW p \in Proc, PullFails(p) PROVE SyncInv'
  <2>1. /\ published # None /\ inbox' \in {inbox, [published EXCEPT !.body = Bad]} /\ cmd[p] = Idle
        /\ events' = events + 1 /\ cmd' = [cmd EXCEPT ![p] = cmd[p]]
        /\ UNCHANGED <<overlapped, published, exported, payloads, attached, audit, clock>>
    BY <1>3, <1>t DEF PullFails, Begin, Set, Idle, remote, store
  <2>2. UNCHANGED cmd
    BY <1>t, <2>1
  <2>3. CASE inbox' = inbox
    <3>1. SyncTypes'
      BY <1>0, <1>t, <2>1, <2>2, <2>3 DEF SyncTypes
    <3>2. AllGenuine'
      BY <1>0, <2>1, <2>2, <2>3 DEF AllGenuine, Genuine
    <3>3. Recorded'
      BY <1>0, <2>1, <2>2 DEF Recorded
    <3>4. Undisturbed'
      BY <1>0, <2>1, <2>2, <2>3 DEF Undisturbed, Ready, Busy
    <3>. QED
      BY <3>1, <3>2, <3>3, <3>4 DEF SyncInv
  <2>4. CASE inbox' = [published EXCEPT !.body = Bad]
    <3>1. published \in Envelope
      BY <1>0, <2>1 DEF SyncTypes
    <3>2. inbox' = [man |-> published.man, body |-> Bad]
      BY <2>4, <3>1 DEF Envelope
    <3>3. inbox' \in Envelope
      BY <3>1, <3>2 DEF Envelope
    <3>4. Genuine(inbox')
      BY <1>0, <2>1, <3>2 DEF AllGenuine, Genuine
    <3>5. SyncTypes'
      BY <1>0, <1>t, <2>1, <2>2, <3>3 DEF SyncTypes
    <3>6. AllGenuine'
      BY <1>0, <1>a, <2>1, <2>2, <3>3, <3>4 DEF AllGenuine, Genuine
    <3>7. Recorded'
      BY <1>0, <2>1, <2>2 DEF Recorded
    <3>8. Undisturbed'
      BY <1>0, <2>1, <2>2, <3>2 DEF Undisturbed, Busy, Ready
    <3>. QED
      BY <3>5, <3>6, <3>7, <3>8 DEF SyncInv
  <2>. QED
    BY <2>1, <2>3, <2>4
<1>4. ASSUME NEW p \in Proc, ReadManifest(p) PROVE SyncInv'
  <2>1. /\ cmd[p].op = "pull" /\ cmd[p].at = "manifest"
        /\ UNCHANGED <<published, exported, inbox, payloads, attached, clock, events, overlapped>>
    BY <1>4 DEF ReadManifest, At, Continue, remote, store
  <2>2. inbox \in Envelope /\ inbox.man \in Payload
    BY <1>0, <2>1 DEF SyncTypes, AllGenuine, Envelope
  <2>3. CASE inbox.man.mid # Pin
    <3>1. cmd' = [cmd EXCEPT ![p] = Idle] /\ audit' = audit \cup {[act |-> "fleet_pull_refused", mid |-> inbox.man.mid]}
      BY <1>4, <2>3 DEF ReadManifest, Continue, Set
    <3>2. Idle \in Cmd /\ Idle.op = "idle"
      BY DEF Idle, Cmd
    <3>3. cmd'[p] = Idle /\ Ready(p)' /\ Busy(p)
      BY <1>t, <2>1, <3>1, <3>2 DEF Ready, Busy
    <3>4. \A r \in audit' \ audit : r.act # "fleet_pull"
      BY <3>1
    <3>. QED
      BY <1>t, <2>1, <3>1, <3>2, <3>3, <3>4, SyncGoes
  <2>4. CASE inbox.man.mid = Pin
    <3>0. PICK u \in BOOLEAN : u = (attached[Pin] # None /\ attached[Pin].payload = inbox.man /\ Present(Pin))
      BY Zenon
    <3>1. /\ u => attached[Pin] # None /\ attached[Pin].payload = inbox.man
          /\ audit' = audit
          /\ cmd' = [cmd EXCEPT ![p] = [op |-> "pull", at |-> IF u THEN "done" ELSE "import",
                                        pulled |-> inbox.man, unchanged |-> u]]
      BY <1>4, <2>4, <1>a, <3>0 DEF ReadManifest, Continue, Set, Attached
    <3>. DEFINE c == [op |-> "pull", at |-> IF u THEN "done" ELSE "import", pulled |-> inbox.man, unchanged |-> u]
    <3>2. c \in Cmd
      BY <2>2, <3>1 DEF Cmd
    <3>3. c.op = "pull" /\ c.pulled = inbox.man /\ ((c.at = "done" /\ u) \/ c.at = "import")
      OBVIOUS
    <3>4. cmd' = [cmd EXCEPT ![p] = c]
      BY <3>1
    <3>. HIDE DEF c
    <3>5. cmd'[p] = c
      BY <1>t, <3>4
    <3>6. u => Attachment(inbox.man) \in audit
      BY <1>0, <1>a, <3>1 DEF Recorded
    <3>7. Ready(p)'
      BY <2>1, <3>1, <3>3, <3>5, <3>6 DEF Ready
    <3>. QED
      BY <1>t, <1>0, <2>1, <2>4, <3>1, <3>2, <3>3, <3>4, <3>7, SyncGoes DEF Busy, AllGenuine
  <2>. QED
    BY <2>3, <2>4

<1>5. ASSUME NEW p \in Proc, RecordPull(p) PROVE SyncInv'
  <2>1. /\ cmd[p].op = "pull" /\ cmd[p].at = "done" /\ cmd' = [cmd EXCEPT ![p] = Idle]
        /\ UNCHANGED <<published, exported, inbox, payloads, attached, clock, events, overlapped>>
        /\ audit' = audit \cup {[act |-> "fleet_pull", payload |-> cmd[p].pulled, unchanged |-> cmd[p].unchanged]}
    BY <1>5 DEF RecordPull, At, Continue, Set, remote, store
  <2>2. Idle \in Cmd /\ Idle.op = "idle" /\ cmd'[p] = Idle
    BY <1>t, <2>1 DEF Idle, Cmd
  <2>3. cmd[p].pulled.mid = Pin /\ (~overlapped => Attachment(cmd[p].pulled) \in audit)
    BY <1>0, <2>1 DEF Recorded, Undisturbed, Ready
  <2>4. \A r \in audit' \ audit : r.payload.mid = Pin /\ (~overlapped' => Attachment(r.payload) \in audit')
    BY <2>1, <2>3
  <2>. QED
    BY <1>t, <2>1, <2>2, <2>4, SyncGoes DEF Ready, Busy
<1>6. ASSUME NEW p \in Proc, NEW x \in exported, StartImport(p, x) PROVE SyncInv'
  <2>. DEFINE c == [op |-> "import", at |-> "import", env |-> [man |-> x, body |-> x]]
  <2>1. /\ cmd[p] = Idle /\ events' = events + 1 /\ cmd' = [cmd EXCEPT ![p] = c]
        /\ overlapped' = (overlapped \/ \E q \in Proc : Busy(q))
        /\ UNCHANGED <<published, exported, inbox, payloads, attached, audit, clock>>
    BY <1>6 DEF StartImport, Begin, Set, Busy, remote, store
  <2>2. c \in Cmd
    BY <1>a DEF Cmd, Envelope
  <2>3. c.op = "import" /\ c.at = "import" /\ Genuine(c.env)
    BY DEF Genuine
  <2>. HIDE DEF c
  <2>4. cmd'[p] = c
    BY <1>t, <2>1
  <2>5. Ready(p)'
    BY <2>3, <2>4 DEF Ready
  <2>6. overlapped' \in BOOLEAN /\ (overlapped => overlapped') /\ (~overlapped' => \A q \in Proc : ~Busy(q))
    BY <2>1, Zenon
  <2>7. events' \in Nat
    BY <1>t, <2>1
  <2>. QED
    BY <2>1, <2>2, <2>3, <2>5, <2>6, <2>7, SyncGoes
<1>7. ASSUME NEW p \in Proc, OpenEnvelope(p) PROVE SyncInv'
  <2>1. /\ cmd[p].op \in {"pull", "import"} /\ cmd[p].at = "import" /\ Busy(p)
        /\ UNCHANGED <<published, exported, inbox, payloads, attached, audit, clock, events, overlapped>>
    BY <1>7 DEF OpenEnvelope, Importing, Continue, Busy, remote, store
  <2>2. CASE cmd' = [cmd EXCEPT ![p] = Idle]
    <3>1. Idle \in Cmd /\ Idle.op = "idle" /\ cmd'[p] = Idle
      BY <1>t, <2>2 DEF Idle, Cmd
    <3>. QED
      BY <1>t, <2>1, <2>2, <3>1, SyncGoes DEF Ready
  <2>3. CASE Origin(p).man.mid # Self /\ cmd' = [cmd EXCEPT ![p] = To(p, [at |-> "stage", man |-> Origin(p).man, stamp |-> clock])]
    <3>1. CASE cmd[p].op = "pull"
      <4>1. inbox \in Envelope /\ inbox.man \in [mid : Machine, ver : 1..MaxExports] /\ Origin(p) = inbox
        BY <1>0, <2>1, <2>3, <3>1 DEF SyncTypes, AllGenuine, Envelope, Payload, Origin
      <4>2. cmd[p] \in [op : {"pull"}, at : {"import", "done"}, pulled : Payload, unchanged : BOOLEAN]
        BY <1>t, <2>1, <3>1 DEF Cmd
      <4>3. PICK x \in Payload, u \in BOOLEAN : cmd[p] = [op |-> "pull", at |-> "import", pulled |-> x, unchanged |-> u]
        BY <2>1, <4>2
      <4>. DEFINE c == [op |-> "pull", at |-> "stage", pulled |-> x, unchanged |-> u, man |-> inbox.man, stamp |-> clock]
      <4>4. cmd' = [cmd EXCEPT ![p] = c]
        <5>1. To(p, [at |-> "stage", man |-> inbox.man, stamp |-> clock]) = c
          BY ONLY <4>3 DEF To
        <5>. QED
          BY <2>3, <4>1, <5>1
      <4>5. c \in Cmd
        BY <1>t, <4>1, <4>3 DEF Cmd
      <4>6. c.op = "pull" /\ c.at = "stage" /\ c.pulled = cmd[p].pulled /\ c.man = inbox.man
        BY <4>3
      <4>. HIDE DEF c
      <4>7. cmd'[p] = c
        BY <1>t, <4>4
      <4>8. ~overlapped => Ready(p)'
        BY <1>0, <2>1, <3>1, <4>6, <4>7 DEF Undisturbed, Ready
      <4>. QED
        BY <1>t, <1>0, <2>1, <3>1, <4>4, <4>5, <4>6, <4>8, SyncGoes DEF AllGenuine, Recorded
    <3>2. CASE cmd[p].op = "import"
      <4>1. cmd[p] \in [op : {"import"}, at : {"import"}, env : Envelope]
        BY <1>t, <2>1, <3>2 DEF Cmd
      <4>2. PICK e \in Envelope : cmd[p] = [op |-> "import", at |-> "import", env |-> e]
        BY <4>1
      <4>3. e.man \in [mid : Machine, ver : 1..MaxExports] /\ Origin(p) = e /\ Genuine(e)
        BY <1>0, <2>3, <3>2, <4>2 DEF Envelope, Payload, Origin, AllGenuine
      <4>. DEFINE c == [op |-> "import", at |-> "stage", env |-> e, man |-> e.man, stamp |-> clock]
      <4>4. cmd' = [cmd EXCEPT ![p] = c]
        <5>1. To(p, [at |-> "stage", man |-> e.man, stamp |-> clock]) = c
          BY ONLY <4>2 DEF To
        <5>. QED
          BY <2>3, <4>3, <5>1
      <4>5. c \in Cmd
        BY <1>t, <4>3 DEF Cmd
      <4>6. c.op = "import" /\ c.at = "stage" /\ c.env = e
        OBVIOUS
      <4>. HIDE DEF c
      <4>7. cmd'[p] = c
        BY <1>t, <4>4
      <4>8. Ready(p)'
        BY <4>6, <4>7 DEF Ready
      <4>. QED
        BY <1>t, <2>1, <4>3, <4>4, <4>5, <4>6, <4>8, SyncGoes
    <3>. QED
      BY <2>1, <3>1, <3>2
  <2>. QED
    BY <1>7, <2>2, <2>3 DEF OpenEnvelope, Continue, Set

<1>8. ASSUME NEW p \in Proc, Stage(p) PROVE SyncInv'
  <2>1. /\ cmd[p].op \in {"pull", "import"} /\ cmd[p].at = "stage" /\ Busy(p)
        /\ UNCHANGED <<published, exported, inbox, attached, audit, clock, events>>
    BY <1>8 DEF Stage, Importing, Continue, Place, Busy, remote
  <2>2. CASE cmd' = [cmd EXCEPT ![p] = Idle] /\ UNCHANGED <<payloads, overlapped>>
    <3>1. Idle \in Cmd /\ Idle.op = "idle" /\ cmd'[p] = Idle
      BY <1>t, <2>2 DEF Idle, Cmd
    <3>. QED
      BY <1>t, <2>1, <2>2, <3>1, SyncGoes DEF Ready
  <2>3. CASE Origin(p).body = cmd[p].man /\ Place(p, Origin(p).body)
    <3>1. PICK c \in Cmd :
            /\ cmd' = [cmd EXCEPT ![p] = c] /\ c.op = cmd[p].op /\ c.at = "attach"
            /\ c.man = cmd[p].man /\ c.stamp = cmd[p].stamp /\ c.stamp \in Time
            /\ c.man \in Payload /\ c.man.mid \in Machine
            /\ c.op = "pull" => c.pulled = cmd[p].pulled
            /\ c.op = "import" => c.env = cmd[p].env
      <4>1. CASE cmd[p].op = "pull"
        <5>1. cmd[p] \in [op : {"pull"}, at : {"stage", "attach", "done"}, pulled : Payload, unchanged : BOOLEAN,
                          man : [mid : Machine, ver : 1..MaxExports], stamp : Time]
          BY <1>t, <2>1, <4>1 DEF Cmd
        <5>2. PICK x \in Payload, u \in BOOLEAN, y \in [mid : Machine, ver : 1..MaxExports], s \in Time :
                cmd[p] = [op |-> "pull", at |-> "stage", pulled |-> x, unchanged |-> u, man |-> y, stamp |-> s]
          BY <2>1, <5>1
        <5>. DEFINE c == [op |-> "pull", at |-> "attach", pulled |-> x, unchanged |-> u, man |-> y, stamp |-> s]
        <5>3. To(p, [at |-> "attach"]) = c
          BY ONLY <5>2 DEF To
        <5>4. c \in Cmd
          BY DEF Cmd
        <5>5. /\ c.op = cmd[p].op /\ c.at = "attach" /\ c.man = cmd[p].man /\ c.stamp = cmd[p].stamp
              /\ c.stamp \in Time /\ c.man \in Payload /\ c.man.mid \in Machine /\ c.pulled = cmd[p].pulled
          BY <5>2 DEF Payload
        <5>6. cmd' = [cmd EXCEPT ![p] = c]
          BY <2>3, <5>3 DEF Place, Set
        <5>. HIDE DEF c
        <5>. QED
          BY <4>1, <5>4, <5>5, <5>6
      <4>2. CASE cmd[p].op = "import"
        <5>1. cmd[p] \in [op : {"import"}, at : {"stage", "attach"}, env : Envelope,
                          man : [mid : Machine, ver : 1..MaxExports], stamp : Time]
          BY <1>t, <2>1, <4>2 DEF Cmd
        <5>2. PICK e \in Envelope, y \in [mid : Machine, ver : 1..MaxExports], s \in Time :
                cmd[p] = [op |-> "import", at |-> "stage", env |-> e, man |-> y, stamp |-> s]
          BY <2>1, <5>1
        <5>. DEFINE c == [op |-> "import", at |-> "attach", env |-> e, man |-> y, stamp |-> s]
        <5>3. To(p, [at |-> "attach"]) = c
          BY ONLY <5>2 DEF To
        <5>4. c \in Cmd
          BY DEF Cmd
        <5>5. /\ c.op = cmd[p].op /\ c.at = "attach" /\ c.man = cmd[p].man /\ c.stamp = cmd[p].stamp
              /\ c.stamp \in Time /\ c.man \in Payload /\ c.man.mid \in Machine /\ c.env = cmd[p].env
          BY <5>2 DEF Payload
        <5>6. cmd' = [cmd EXCEPT ![p] = c]
          BY <2>3, <5>3 DEF Place, Set
        <5>. HIDE DEF c
        <5>. QED
          BY <4>2, <5>4, <5>5, <5>6
      <4>. QED
        BY <2>1, <4>1, <4>2
    <3>2. cmd' \in [Proc -> Cmd] /\ cmd'[p] = c /\ \A q \in Proc : q # p => cmd'[q] = cmd[q]
      BY <1>t, <3>1
    <3>3. /\ payloads' = [payloads EXCEPT ![c.man.mid][c.stamp] = c.man]
          /\ overlapped' = (overlapped \/ (c.man.mid \in Attached /\ attached[c.man.mid].stamp = c.stamp))
      BY <2>3, <3>1 DEF Place
    <3>4. payloads \in [Machine -> [Time -> Payload \cup {None}]]
      BY <1>0 DEF SyncTypes
    <3>5. /\ payloads' \in [Machine -> [Time -> Payload \cup {None}]] /\ payloads'[c.man.mid][c.stamp] = c.man
          /\ \A m \in Machine, s \in Time : m # c.man.mid \/ s # c.stamp => payloads'[m][s] = payloads[m][s]
      BY <3>1, <3>3, <3>4
    <3>6. overlapped' \in BOOLEAN /\ (overlapped => overlapped')
          /\ (~overlapped' => attached[c.man.mid] = None \/ attached[c.man.mid].stamp # c.stamp)
      <4>1. ~(c.man.mid \in Attached) => attached[c.man.mid] = None
        BY <3>1 DEF Attached
      <4>. QED
        BY <3>3, <4>1, Zenon
    <3>7. Origin(p).body \in exported /\ (c.op = "pull" => inbox.body # Bad)
      BY <1>0, <1>a, <2>1, <2>3, <3>1 DEF AllGenuine, Genuine, Origin
    <3>8. SyncTypes'
      BY <1>0, <2>1, <3>2, <3>5, <3>6 DEF SyncTypes
    <3>9. AllGenuine'
      BY <1>0, <2>1, <2>3, <3>1, <3>2, <3>5, <3>7 DEF AllGenuine, Genuine
    <3>10. Recorded'
      BY <1>0, <2>1, <3>1, <3>2, <3>6 DEF Recorded
    <3>11. ASSUME ~overlapped' PROVE Undisturbed'
      <4>1. ~overlapped /\ \A q \in Proc : q # p => ~Busy(q) /\ cmd'[q] = cmd[q]
        BY <1>0, <2>1, <3>2, <3>6, <3>11 DEF Undisturbed
      <4>2. Ready(p)'
        BY <1>0, <2>1, <3>1, <3>2, <3>5, <3>7, <4>1 DEF Undisturbed, Ready
      <4>3. \A q \in Proc : q # p => Ready(q)' /\ ~Busy(q)'
        BY <4>1 DEF Ready, Busy
      <4>4. ASSUME NEW m \in Machine, attached[m] # None
            PROVE  /\ payloads'[m][attached[m].stamp] = payloads[m][attached[m].stamp]
                   /\ payloads[m][attached[m].stamp] \in {attached[m].payload, None}
                   /\ attached[m].checked >= attached[m].imported
        <5>1. attached[m].stamp \in Time
          BY <1>0, <4>4 DEF SyncTypes, Row
        <5>2. m # c.man.mid \/ attached[m].stamp # c.stamp
          BY <3>6, <3>11, <4>4
        <5>. QED
          BY <1>0, <3>5, <4>1, <4>4, <5>1, <5>2 DEF Undisturbed
      <4>. QED
        BY <2>1, <4>2, <4>3, <4>4 DEF Undisturbed
    <3>. QED
      BY <3>8, <3>9, <3>10, <3>11 DEF SyncInv, Undisturbed
  <2>. QED
    BY <1>8, <2>2, <2>3 DEF Stage, Continue, Set
<1>9. ASSUME NEW p \in Proc, Upsert(p) PROVE SyncInv'
  <2>1. /\ cmd[p].op \in {"pull", "import"} /\ cmd[p].at = "attach" /\ Busy(p)
        /\ audit' = audit \cup {Attachment(cmd[p].man)}
        /\ UNCHANGED <<published, exported, inbox, payloads, clock, events, overlapped>>
    BY <1>9 DEF Upsert, Importing, Continue, Attachment, Busy, remote
  <2>2. cmd[p].man \in Payload /\ cmd[p].man.mid \in Machine /\ cmd[p].stamp \in Time
    <3>1. CASE cmd[p].op = "pull"
      <4>1. cmd[p] \in [op : {"pull"}, at : {"stage", "attach", "done"}, pulled : Payload, unchanged : BOOLEAN,
                        man : [mid : Machine, ver : 1..MaxExports], stamp : Time]
        BY <1>t, <2>1, <3>1 DEF Cmd
      <4>. QED
        BY <4>1 DEF Payload
    <3>2. CASE cmd[p].op = "import"
      <4>1. cmd[p] \in [op : {"import"}, at : {"stage", "attach"}, env : Envelope,
                        man : [mid : Machine, ver : 1..MaxExports], stamp : Time]
        BY <1>t, <2>1, <3>2 DEF Cmd
      <4>. QED
        BY <4>1 DEF Payload
    <3>. QED
      BY <2>1, <3>1, <3>2
  <2>. DEFINE r == [payload |-> cmd[p].man, stamp |-> cmd[p].stamp, imported |-> clock, checked |-> clock]
              m == cmd[p].man.mid
  <2>3. attached' = [attached EXCEPT ![m] = r]
    BY <1>9 DEF Upsert
  <2>4. r \in Row /\ r # None /\ r.payload = cmd[p].man /\ r.stamp = cmd[p].stamp /\ r.imported = clock /\ r.checked = clock
    BY <1>a, <1>t, <2>2 DEF Row
  <2>5. PICK c \in Cmd :
          /\ cmd' = [cmd EXCEPT ![p] = c]
          /\ \/ c.op = "idle"
             \/ c.op = "pull" /\ c.at = "done" /\ cmd[p].op = "pull" /\ c.pulled = cmd[p].pulled
    <3>1. CASE cmd[p].op = "pull"
      <4>1. cmd[p] \in [op : {"pull"}, at : {"stage", "attach", "done"}, pulled : Payload, unchanged : BOOLEAN,
                        man : [mid : Machine, ver : 1..MaxExports], stamp : Time]
        BY <1>t, <2>1, <3>1 DEF Cmd
      <4>2. PICK x \in Payload, u \in BOOLEAN, y \in [mid : Machine, ver : 1..MaxExports], s \in Time :
              cmd[p] = [op |-> "pull", at |-> "attach", pulled |-> x, unchanged |-> u, man |-> y, stamp |-> s]
        BY <2>1, <4>1
      <4>. DEFINE d == [op |-> "pull", at |-> "done", pulled |-> x, unchanged |-> u, man |-> y, stamp |-> s]
      <4>3. To(p, [at |-> "done"]) = d
        BY ONLY <4>2 DEF To
      <4>4. d \in Cmd
        BY DEF Cmd
      <4>5. d.op = "pull" /\ d.at = "done" /\ d.pulled = cmd[p].pulled
        BY <4>2
      <4>6. cmd' = [cmd EXCEPT ![p] = d]
        BY <1>9, <3>1, <4>3 DEF Upsert, Continue, Set
      <4>. HIDE DEF d
      <4>. QED
        BY <3>1, <4>4, <4>5, <4>6
    <3>2. CASE cmd[p].op = "import"
      <4>1. Idle \in Cmd /\ Idle.op = "idle"
        BY DEF Idle, Cmd
      <4>. QED
        BY <1>9, <3>2, <4>1 DEF Upsert, Continue, Set
    <3>. QED
      BY <2>1, <3>1, <3>2
  <2>6. cmd' \in [Proc -> Cmd] /\ cmd'[p] = c /\ \A q \in Proc : q # p => cmd'[q] = cmd[q]
    BY <1>t, <2>5
  <2>. HIDE DEF r
  <2>7. /\ attached' \in [Machine -> Row \cup {None}] /\ attached'[m] = r
        /\ \A k \in Machine : k # m => attached'[k] = attached[k]
    BY <1>0, <2>2, <2>3, <2>4 DEF SyncTypes
  <2>8. SyncTypes'
    BY <1>0, <2>1, <2>6, <2>7 DEF SyncTypes
  <2>9. AllGenuine'
    BY <1>0, <2>1, <2>5, <2>6 DEF AllGenuine, Genuine
  <2>10. Recorded'
    <3>1. \A k \in Machine : attached'[k] # None => Attachment(attached'[k].payload) \in audit' /\ attached'[k].imported <= clock
      BY <1>0, <1>t, <2>1, <2>4, <2>7 DEF Recorded
    <3>2. \A a \in audit' \ audit : a.act # "fleet_pull"
      BY <2>1 DEF Attachment
    <3>3. \A q \in Proc : cmd'[q].op = "pull" /\ cmd'[q].at # "manifest" => cmd'[q].pulled.mid = Pin
      BY <1>0, <2>1, <2>5, <2>6 DEF Recorded
    <3>. QED
      BY <1>0, <2>1, <3>1, <3>2, <3>3 DEF Recorded
  <2>11. ASSUME ~overlapped' PROVE Undisturbed'
    <3>1. ~overlapped /\ \A q \in Proc : q # p => ~Busy(q) /\ cmd'[q] = cmd[q]
      BY <1>0, <2>1, <2>6, <2>11 DEF Undisturbed
    <3>2. payloads[m][cmd[p].stamp] \in {cmd[p].man, None} /\ (cmd[p].op = "pull" => cmd[p].man = cmd[p].pulled)
      BY <1>0, <2>1, <3>1 DEF Undisturbed, Ready
    <3>3. Ready(p)'
      BY <2>1, <2>5, <2>6, <3>2 DEF Ready
    <3>4. \A q \in Proc : q # p => Ready(q)' /\ ~Busy(q)'
      BY <3>1 DEF Ready, Busy
    <3>5. \A k \in Machine : attached'[k] # None =>
            /\ payloads[k][attached'[k].stamp] \in {attached'[k].payload, None}
            /\ attached'[k].checked >= attached'[k].imported
      BY <1>0, <1>t, <2>4, <2>7, <3>1, <3>2 DEF Undisturbed
    <3>. QED
      BY <2>1, <3>3, <3>4, <3>5 DEF Undisturbed
  <2>. QED
    BY <2>8, <2>9, <2>10, <2>11 DEF SyncInv, Undisturbed
<1>10. ASSUME NEW p \in Proc, NEW m \in Machine, StartDetach(p, m) PROVE SyncInv'
  <2>. DEFINE c == [op |-> "detach", at |-> "unlink", mid |-> m, row |-> attached[m]]
  <2>1. /\ attached[m] # None /\ cmd[p] = Idle /\ events' = events + 1 /\ cmd' = [cmd EXCEPT ![p] = c]
        /\ overlapped' = (overlapped \/ \E q \in Proc : Busy(q))
        /\ UNCHANGED <<published, exported, inbox, payloads, attached, audit, clock>>
    BY <1>10 DEF StartDetach, Attached, Begin, Set, Busy, remote, store
  <2>2. c \in Cmd
    BY <1>0, <2>1 DEF Cmd, SyncTypes
  <2>3. c.op = "detach"
    OBVIOUS
  <2>. HIDE DEF c
  <2>4. cmd'[p] = c
    BY <1>t, <2>1
  <2>5. Ready(p)'
    BY <2>3, <2>4 DEF Ready
  <2>6. overlapped' \in BOOLEAN /\ (overlapped => overlapped') /\ (~overlapped' => \A q \in Proc : ~Busy(q))
    BY <2>1, Zenon
  <2>7. events' \in Nat
    BY <1>t, <2>1
  <2>. QED
    BY <2>1, <2>2, <2>3, <2>5, <2>6, <2>7, SyncGoes
<1>11. ASSUME NEW p \in Proc, StartVerify(p) PROVE SyncInv'
  <2>. DEFINE c == [op |-> "verify", at |-> "update", since |-> clock, ok |-> {m \in Attached : Present(m)}]
  <2>1. /\ cmd[p] = Idle /\ events' = events + 1 /\ cmd' = [cmd EXCEPT ![p] = c]
        /\ overlapped' = (overlapped \/ \E q \in Proc : Busy(q))
        /\ UNCHANGED <<published, exported, inbox, payloads, attached, audit, clock>>
    BY <1>11 DEF StartVerify, Begin, Set, Busy, remote, store
  <2>2. c \in Cmd
    BY <1>t DEF Cmd, Attached
  <2>3. c.op = "verify" /\ c.since = clock
    OBVIOUS
  <2>. HIDE DEF c
  <2>4. cmd'[p] = c
    BY <1>t, <2>1
  <2>5. Ready(p)'
    BY <1>0, <2>1, <2>3, <2>4 DEF Ready, Recorded
  <2>6. overlapped' \in BOOLEAN /\ (overlapped => overlapped') /\ (~overlapped' => \A q \in Proc : ~Busy(q))
    BY <2>1, Zenon
  <2>7. events' \in Nat
    BY <1>t, <2>1
  <2>. QED
    BY <2>1, <2>2, <2>3, <2>5, <2>6, <2>7, SyncGoes
<1>12. ASSUME NEW p \in Proc, NEW rows \in SUBSET Permanode, NEW seen \in SUBSET Machine, StartApply(p, rows, seen)
       PROVE  SyncInv'
  <2>. DEFINE c == [op |-> "apply", at |-> "classify", rows |-> rows, seen |-> seen]
  <2>1. /\ cmd[p] = Idle /\ events' = events + 1 /\ cmd' = [cmd EXCEPT ![p] = c] /\ overlapped' = overlapped
        /\ UNCHANGED <<published, exported, inbox, payloads, attached, audit, clock>>
    BY <1>12, <1>t DEF StartApply, Begin, Set, remote, store
  <2>2. c \in Cmd
    BY DEF Cmd
  <2>3. c.op = "apply"
    OBVIOUS
  <2>. HIDE DEF c
  <2>4. cmd'[p] = c
    BY <1>t, <2>1
  <2>5. Ready(p)'
    BY <2>3, <2>4 DEF Ready
  <2>6. events' \in Nat
    BY <1>t, <2>1
  <2>. QED
    BY <1>t, <2>1, <2>2, <2>3, <2>5, <2>6, SyncGoes
<1>13. ASSUME NEW p \in Proc, Classify(p) \/ Execute(p) PROVE SyncInv'
  <2>1. cmd[p] \in [op : {"apply"}, at : {"classify", "execute"}, rows : SUBSET Permanode, seen : SUBSET Machine]
    BY <1>t, <1>13 DEF Cmd, Classify, Execute, At
  <2>2. PICK c \in Cmd : c.op \in {"idle", "apply"} /\ cmd' = [cmd EXCEPT ![p] = c]
    <3>1. Idle \in Cmd /\ Idle.op = "idle"
      BY DEF Idle, Cmd
    <3>. DEFINE d == [cmd[p] EXCEPT !.at = "execute"]
    <3>2. d \in Cmd /\ d.op = "apply"
      <4>1. d = [op |-> "apply", at |-> "execute", rows |-> cmd[p].rows, seen |-> cmd[p].seen]
        BY <2>1
      <4>. HIDE DEF d
      <4>. QED
        BY <2>1, <4>1 DEF Cmd
    <3>. HIDE DEF d
    <3>3. cmd' = [cmd EXCEPT ![p] = Idle] \/ cmd' = [cmd EXCEPT ![p] = d]
      BY <1>13 DEF Classify, Execute, Continue, Set, d
    <3>. QED
      BY <3>1, <3>2, <3>3
  <2>3. audit \subseteq audit' /\ \A r \in audit' \ audit : r.act # "fleet_pull"
    BY <1>13 DEF Classify, Execute
  <2>4. UNCHANGED <<published, exported, inbox, payloads, attached, clock, events, overlapped>>
    BY <1>13 DEF Classify, Execute, Continue, remote, store
  <2>5. Ready(p)'
    BY <1>t, <2>2 DEF Ready
  <2>. QED
    BY <1>t, <2>2, <2>3, <2>4, <2>5, SyncGoes
<1>14. ASSUME NEW p \in Proc, Kill(p) PROVE SyncInv'
  <2>1. /\ cmd' = [cmd EXCEPT ![p] = Idle] /\ events' \in Nat
        /\ UNCHANGED <<published, exported, inbox, payloads, attached, audit, clock, overlapped>>
    BY <1>14, <1>t DEF Kill, Set, remote, store
  <2>2. Idle \in Cmd /\ Idle.op = "idle" /\ cmd'[p] = Idle
    BY <1>t, <2>1 DEF Idle, Cmd
  <2>. QED
    BY <1>t, <2>1, <2>2, SyncGoes DEF Ready
<1>15. ASSUME NEW m \in Machine, NEW s \in Time,
              payloads' \in {payloads, [payloads EXCEPT ![m][s] = None]}, events' \in Nat,
              NEW p \in Proc, NEW c \in Cmd, cmd' = [cmd EXCEPT ![p] = c], (c.op = "detach" /\ Busy(p)) \/ c = cmd[p],
              UNCHANGED <<published, exported, inbox, attached, audit, clock, overlapped>>
       PROVE  SyncInv'
  <2>1. payloads \in [Machine -> [Time -> Payload \cup {None}]]
    BY <1>0 DEF SyncTypes
  <2>2. /\ payloads' \in [Machine -> [Time -> Payload \cup {None}]]
        /\ \A k \in Machine, t \in Time : payloads'[k][t] \in {payloads[k][t], None}
    <3>1. CASE payloads' = payloads
      BY <2>1, <3>1
    <3>2. CASE payloads' = [payloads EXCEPT ![m][s] = None]
      BY <2>1, <3>2
    <3>. QED
      BY <1>15, <3>1, <3>2
  <2>3. cmd' \in [Proc -> Cmd] /\ cmd'[p] = c /\ \A q \in Proc : q # p => cmd'[q] = cmd[q]
    BY <1>t, <1>15
  <2>4. SyncTypes'
    BY <1>0, <1>15, <2>2, <2>3 DEF SyncTypes
  <2>5. AllGenuine'
    BY <1>0, <1>15, <2>2, <2>3 DEF AllGenuine, Genuine
  <2>6. Recorded'
    BY <1>0, <1>15, <2>3 DEF Recorded
  <2>7. ASSUME NEW q \in Proc, Ready(q) PROVE Ready(q)'
    <3>1. cmd'[q].op \in {"pull", "import"} /\ cmd'[q].at = "attach" =>
            cmd'[q] = cmd[q] /\ cmd[q].man.mid \in Machine /\ cmd[q].stamp \in Time
      BY <1>t, <1>15, <2>3 DEF Cmd
    <3>. QED
      BY <1>15, <2>2, <2>3, <2>7, <3>1 DEF Ready
  <2>8. \A k \in Machine : attached[k] # None => attached[k].stamp \in Time
    BY <1>0 DEF SyncTypes, Row
  <2>9. Undisturbed'
    BY <1>0, <1>15, <2>2, <2>3, <2>7, <2>8 DEF Undisturbed, Busy
  <2>. QED
    BY <2>4, <2>5, <2>6, <2>9 DEF SyncInv
<1>16. ASSUME NEW p \in Proc, UnlinkPayload(p) PROVE SyncInv'
  <2>1. cmd[p] \in [op : {"detach"}, at : {"unlink", "delete"}, mid : Machine, row : Row]
    BY <1>t, <1>16 DEF Cmd, UnlinkPayload, At
  <2>2. PICK c \in Cmd : c.op = "detach" /\ cmd' = [cmd EXCEPT ![p] = c]
    <3>. DEFINE d == [cmd[p] EXCEPT !.at = "delete"]
    <3>1. d = [op |-> "detach", at |-> "delete", mid |-> cmd[p].mid, row |-> cmd[p].row]
      BY <2>1
    <3>2. cmd' = [cmd EXCEPT ![p] = d]
      BY <1>16 DEF UnlinkPayload, Continue, Set
    <3>. HIDE DEF d
    <3>3. d \in Cmd /\ d.op = "detach"
      BY <2>1, <3>1 DEF Cmd
    <3>. QED
      BY <3>2, <3>3
  <2>3. payloads' \in {payloads, [payloads EXCEPT ![cmd[p].mid][cmd[p].row.stamp] = None]} /\ Busy(p)
        /\ cmd[p].mid \in Machine /\ cmd[p].row.stamp \in Time
        /\ UNCHANGED <<published, exported, inbox, attached, audit, clock, events, overlapped>>
    BY <1>16, <2>1 DEF UnlinkPayload, Continue, Busy, At, remote, Row
  <2>. QED
    BY <1>t, <1>15, <2>2, <2>3
<1>17. ASSUME NEW m \in Machine, NEW s \in Time, LosePayload(m, s) PROVE SyncInv'
  <2>1. /\ payloads' = [payloads EXCEPT ![m][s] = None] /\ events' \in Nat
        /\ UNCHANGED <<published, exported, inbox, attached, audit, cmd, clock, overlapped>>
    BY <1>17, <1>t DEF LosePayload, remote
  <2>2. CASE Proc = {}
    <3>1. /\ payloads' \in [Machine -> [Time -> Payload \cup {None}]]
          /\ \A k \in Machine, t \in Time : payloads'[k][t] \in {payloads[k][t], None}
      BY <1>0, <2>1 DEF SyncTypes
    <3>2. \A k \in Machine : attached[k] # None => attached[k].stamp \in Time
      BY <1>0 DEF SyncTypes, Row
    <3>3. SyncTypes'
      BY <1>0, <2>1, <3>1 DEF SyncTypes
    <3>4. AllGenuine' /\ Recorded'
      BY <1>0, <2>1, <2>2, <3>1 DEF AllGenuine, Genuine, Recorded
    <3>5. Undisturbed'
      BY <1>0, <2>1, <2>2, <3>1, <3>2 DEF Undisturbed
    <3>. QED
      BY <3>3, <3>4, <3>5 DEF SyncInv
  <2>3. ASSUME NEW p \in Proc PROVE SyncInv'
    <3>1. cmd[p] \in Cmd /\ cmd' = [cmd EXCEPT ![p] = cmd[p]]
      BY <1>t, <2>1
    <3>. QED
      BY <1>15, <2>1, <3>1
  <2>. QED
    BY <2>2, <2>3
<1>18. ASSUME NEW p \in Proc, DeleteRow(p) PROVE SyncInv'
  <2>1. /\ cmd[p].op = "detach" /\ cmd' = [cmd EXCEPT ![p] = Idle] /\ cmd[p].mid \in Machine
        /\ attached' = [attached EXCEPT ![cmd[p].mid] = None]
        /\ audit' = audit \cup {[act |-> "inventory_detached", payload |-> cmd[p].row.payload]}
        /\ UNCHANGED <<published, exported, inbox, payloads, clock, events, overlapped>>
    BY <1>18, <1>t DEF DeleteRow, At, Continue, Set, remote, Cmd
  <2>2. Idle \in Cmd /\ Idle.op = "idle"
    BY DEF Idle, Cmd
  <2>3. cmd' \in [Proc -> Cmd] /\ cmd'[p].op = "idle" /\ \A q \in Proc : q # p => cmd'[q] = cmd[q]
    BY <1>t, <2>1, <2>2
  <2>4. /\ attached' \in [Machine -> Row \cup {None}]
        /\ \A k \in Machine : attached'[k] \in {attached[k], None}
    BY <1>0, <2>1 DEF SyncTypes
  <2>5. SyncTypes'
    BY <1>0, <2>1, <2>3, <2>4 DEF SyncTypes
  <2>6. AllGenuine'
    BY <1>0, <2>1, <2>3 DEF AllGenuine, Genuine
  <2>7. \A r \in audit' \ audit : r.act # "fleet_pull"
    BY <2>1
  <2>8. Recorded'
    BY <1>0, <2>1, <2>3, <2>4, <2>7 DEF Recorded
  <2>9. Undisturbed'
    BY <1>0, <2>1, <2>3, <2>4 DEF Undisturbed, Ready, Busy
  <2>. QED
    BY <2>5, <2>6, <2>8, <2>9 DEF SyncInv
<1>19. ASSUME NEW p \in Proc, UpdateVerified(p) PROVE SyncInv'
  <2>1. /\ cmd[p].op = "verify" /\ Busy(p) /\ cmd' = [cmd EXCEPT ![p] = Idle] /\ cmd[p].since \in Time
        /\ attached' = [m \in Machine |->
                    IF m \in cmd[p].ok \cap Attached THEN [attached[m] EXCEPT !.checked = cmd[p].since]
                    ELSE attached[m]]
        /\ UNCHANGED <<published, exported, inbox, payloads, audit, clock, events, overlapped>>
    BY <1>19, <1>t DEF UpdateVerified, At, Continue, Set, Busy, remote, Cmd
  <2>2. Idle \in Cmd /\ Idle.op = "idle"
    BY DEF Idle, Cmd
  <2>3. cmd' \in [Proc -> Cmd] /\ cmd'[p].op = "idle" /\ \A q \in Proc : q # p => cmd'[q] = cmd[q]
    BY <1>t, <2>1, <2>2
  <2>4. ASSUME NEW m \in Machine
        PROVE  /\ attached'[m] \in Row \cup {None} /\ (attached[m] = None <=> attached'[m] = None)
               /\ attached[m] # None =>
                    /\ attached'[m].payload = attached[m].payload /\ attached'[m].stamp = attached[m].stamp
                    /\ attached'[m].imported = attached[m].imported
                    /\ attached'[m].checked \in {attached[m].checked, cmd[p].since}
    <3>1. CASE m \in cmd[p].ok /\ attached[m] # None
      <4>1. attached[m] \in Row
        BY <1>0, <3>1 DEF SyncTypes
      <4>2. attached'[m] = [payload |-> attached[m].payload, stamp |-> attached[m].stamp,
                            imported |-> attached[m].imported, checked |-> cmd[p].since]
        BY <2>1, <3>1, <4>1 DEF Row, Attached
      <4>3. attached'[m] \in Row
        BY <2>1, <4>1, <4>2 DEF Row
      <4>. QED
        BY <1>a, <3>1, <4>2, <4>3
    <3>2. CASE ~(m \in cmd[p].ok /\ attached[m] # None)
      BY <1>0, <2>1, <3>2 DEF SyncTypes, Attached
    <3>. QED
      BY <3>1, <3>2
  <2>5. attached' \in [Machine -> Row \cup {None}]
    BY <2>1, <2>4
  <2>6. SyncTypes'
    BY <1>0, <2>1, <2>3, <2>5 DEF SyncTypes
  <2>7. AllGenuine'
    BY <1>0, <2>1, <2>3 DEF AllGenuine, Genuine
  <2>8. Recorded'
    BY <1>0, <2>1, <2>3, <2>4 DEF Recorded
  <2>9. ASSUME ~overlapped' PROVE Undisturbed'
    <3>1. ~overlapped /\ \A q \in Proc : q # p => ~Busy(q) /\ cmd'[q] = cmd[q]
      BY <1>0, <2>1, <2>3, <2>9 DEF Undisturbed
    <3>2. \A m \in Machine : attached[m] # None => attached[m].imported <= cmd[p].since
      BY <1>0, <2>1, <3>1 DEF Undisturbed, Ready
    <3>3. \A q \in Proc : Ready(q)' /\ ~Busy(q)'
      BY <2>3, <3>1 DEF Ready, Busy
    <3>4. \A m \in Machine : attached[m] # None => attached[m].imported \in Nat /\ attached[m].checked \in Nat
      BY <1>0, <1>a DEF SyncTypes, Row, Time
    <3>5. ASSUME NEW m \in Machine, attached'[m] # None
          PROVE  /\ payloads[m][attached'[m].stamp] \in {attached'[m].payload, None}
                 /\ attached'[m].checked >= attached'[m].imported
      BY <1>0, <1>a, <2>1, <2>4, <3>1, <3>2, <3>4, <3>5 DEF Undisturbed, Time
    <3>. QED
      BY <2>1, <3>3, <3>5 DEF Undisturbed
  <2>. QED
    BY <2>6, <2>7, <2>8, <2>9 DEF SyncInv, Undisturbed
<1>20. ASSUME UNCHANGED <<published, exported, inbox, payloads, attached, audit, cmd, events, overlapped>>,
              clock' \in Time, clock <= clock'
       PROVE  SyncInv'
  <2>1. SyncTypes'
    BY <1>0, <1>20 DEF SyncTypes
  <2>2. AllGenuine'
    BY <1>0, <1>20 DEF AllGenuine, Genuine
  <2>3. \A m \in Machine : attached[m] # None => attached[m].imported \in Nat
    BY <1>0, <1>a DEF SyncTypes, Row, Time
  <2>4. clock' \in Nat
    BY <1>20, <1>a DEF Time
  <2>5. \A m \in Machine : attached'[m] # None => Attachment(attached'[m].payload) \in audit' /\ attached'[m].imported <= clock'
    BY <1>0, <1>t, <1>20, <2>3, <2>4 DEF Recorded
  <2>6. Recorded'
    BY <1>0, <1>20, <2>5 DEF Recorded
  <2>7. Undisturbed'
    BY <1>0, <1>20 DEF Undisturbed, Ready, Busy
  <2>. QED
    BY <2>1, <2>2, <2>6, <2>7 DEF SyncInv
<1>21. ASSUME NEW x \in Permanode, LocalScan(x) PROVE SyncInv'
  BY <1>20, <1>21, <1>t DEF LocalScan, remote, store
<1>22. CASE Tick
  BY <1>20, <1>22, <1>t, <1>a DEF Tick, remote, store, Time
<1>23. CASE UNCHANGED vars
  BY <1>20, <1>23, <1>t DEF vars
<1>. QED
  <2>. HIDE DEF SyncInv
  <2>. QED
    BY <1>1, <1>2, <1>3, <1>4, <1>5, <1>6, <1>7, <1>8, <1>9, <1>10, <1>11, <1>12, <1>13, <1>14, <1>16, <1>17, <1>18,
       <1>19, <1>21, <1>22, <1>23 DEF Next, Step

(* A step of an import keeps the command what it is. *)
LEMMA ToKeeps ==
  ASSUME NEW p \in Proc, cmd[p] \in Cmd, NEW f, "op" \notin DOMAIN f
  PROVE  To(p, f).op = cmd[p].op
<1>1. "op" \in DOMAIN cmd[p]
  BY DEF Cmd
<1>. QED
  BY <1>1 DEF To

(* An attached inventory is what its machine exported.                        *)
LEMMA SyncAttached == SyncInv => AttachedGenuine
<1>. SUFFICES ASSUME SyncInv, NEW m \in Machine, attached[m] # None, payloads[m][attached[m].stamp] # None
              PROVE  /\ payloads[m][attached[m].stamp] \in exported /\ payloads[m][attached[m].stamp].mid = m
                     /\ ~overlapped => /\ payloads[m][attached[m].stamp] = attached[m].payload
                                       /\ attached[m].checked >= attached[m].imported
  BY DEF AttachedGenuine, Attached
<1>1. attached[m].stamp \in Time
  BY DEF SyncInv, SyncTypes, Row
<1>. QED
  BY <1>1 DEF SyncInv, AllGenuine, Undisturbed

(* A recorded pull is of the pinned machine and was attached.                 *)
LEMMA SyncPulled == SyncInv => PulledWasAttached
BY DEF SyncInv, Recorded, Attachment, PulledWasAttached

-----------------------------------------------------------------------------
(* Apply beside another machine's inventories.  Since it began, a guarded     *)
(* permanode has had no local claim; the inventories that preflight attached  *)
(* hold every one, where SQLite attaches them all; and no row that passed     *)
(* preflight is of one.                                                       *)
Attachable == IsFiniteSet(Machine) /\ Cardinality(Machine) <= MaxAttach

Guarding ==
  /\ guarded \in [Proc -> SUBSET Permanode]
  /\ \A p \in Proc :
       cmd[p].op = "apply" =>
         /\ guarded[p] \cap local = {}
         /\ cmd[p].at = "classify" => \A x \in guarded[p] : \E m \in cmd[p].seen : x \in Holds[m]
         /\ cmd[p].at = "execute" => cmd[p].rows \cap guarded[p] = {}

(* What a step may do to the apply a process runs. *)
LEMMA ApplySteps ==
  ASSUME SyncTypes, Step, NEW p \in Proc, cmd'[p].op = "apply"
  PROVE  \/ cmd'[p] = cmd[p]
         \/ cmd[p].op = "idle" /\ UNCHANGED local /\ \E rows \in SUBSET Permanode, seen \in SUBSET Machine :
              StartApply(p, rows, seen) /\ cmd'[p] = [op |-> "apply", at |-> "classify", rows |-> rows, seen |-> seen]
         \/ Classify(p) /\ Foreign(p) = {} /\ cmd'[p].at = "execute" /\ cmd'[p].rows = cmd[p].rows
            /\ cmd'[p].seen = cmd[p].seen
<1>t. cmd \in [Proc -> Cmd]
  BY DEF SyncTypes
<1>1. ASSUME NEW q \in Proc, NEW c, cmd' = [cmd EXCEPT ![q] = c], c.op # "apply"
      PROVE  cmd'[p] = cmd[p]
  BY <1>t, <1>1
<1>i. Idle.op # "apply"
  BY DEF Idle
<1>2. ASSUME UNCHANGED cmd PROVE cmd'[p] = cmd[p]
  BY <1>2
<1>3. ASSUME NEW q \in Proc,
             \/ StartPull(q) \/ PullFails(q) \/ ReadManifest(q) \/ RecordPull(q)
             \/ (\E x \in exported : StartImport(q, x)) \/ (\E m \in Machine : StartDetach(q, m))
             \/ DeleteRow(q) \/ StartVerify(q) \/ UpdateVerified(q) \/ Kill(q) \/ Execute(q)
      PROVE  cmd'[p] = cmd[p]
  BY <1>1, <1>i, <1>3 DEF StartPull, PullFails, ReadManifest, RecordPull, StartImport, StartDetach, DeleteRow, StartVerify,
       UpdateVerified, Kill, Execute, Begin, Continue, Set
<1>4. ASSUME NEW q \in Proc, OpenEnvelope(q) \/ Stage(q) \/ Upsert(q) PROVE cmd'[p] = cmd[p]
  <2>1. cmd[q].op \in {"pull", "import"} /\ cmd[q] \in Cmd
    BY <1>t, <1>4 DEF OpenEnvelope, Stage, Upsert, Importing
  <2>2. \A x, t : To(q, [at |-> "stage", man |-> x, stamp |-> t]).op = cmd[q].op
    BY <2>1, ToKeeps
  <2>3. To(q, [at |-> "attach"]).op = cmd[q].op /\ To(q, [at |-> "done"]).op = cmd[q].op
    BY <2>1, ToKeeps
  <2>. QED
    BY <1>1, <1>i, <1>4, <2>1, <2>2, <2>3 DEF OpenEnvelope, Stage, Upsert, Place, Continue, Set
<1>5. ASSUME NEW q \in Proc, UnlinkPayload(q) PROVE cmd'[p] = cmd[p]
  <2>1. cmd[q] \in [op : {"detach"}, at : {"unlink", "delete"}, mid : Machine, row : Row]
    BY <1>t, <1>5 DEF Cmd, UnlinkPayload, At
  <2>2. [cmd[q] EXCEPT !.at = "delete"].op = "detach"
    BY <2>1
  <2>. QED
    BY <1>1, <1>5, <2>2 DEF UnlinkPayload, Continue, Set
<1>6. ASSUME NEW q \in Proc, NEW rows \in SUBSET Permanode, NEW seen \in SUBSET Machine, StartApply(q, rows, seen)
      PROVE  \/ cmd'[p] = cmd[p]
             \/ cmd[p].op = "idle" /\ UNCHANGED local /\ p = q
                /\ cmd'[p] = [op |-> "apply", at |-> "classify", rows |-> rows, seen |-> seen]
  BY <1>t, <1>6 DEF StartApply, Begin, Set, Idle
<1>7. ASSUME NEW q \in Proc, Classify(q)
      PROVE  \/ cmd'[p] = cmd[p]
             \/ p = q /\ Foreign(p) = {} /\ cmd'[p].at = "execute" /\ cmd'[p].rows = cmd[p].rows
                /\ cmd'[p].seen = cmd[p].seen
  <2>1. cmd[q] \in [op : {"apply"}, at : {"classify", "execute"}, rows : SUBSET Permanode, seen : SUBSET Machine]
    BY <1>t, <1>7 DEF Cmd, Classify, At
  <2>2. CASE Foreign(q) = {}
    <3>1. cmd' = [cmd EXCEPT ![q] = [cmd[q] EXCEPT !.at = "execute"]]
      BY <1>7, <2>2 DEF Classify, Continue, Set
    <3>. QED
      BY <1>t, <2>1, <2>2, <3>1
  <2>3. CASE Foreign(q) # {}
    BY <1>1, <1>i, <1>7, <2>3 DEF Classify, Continue, Set
  <2>. QED
    BY <2>2, <2>3
<1>8. ASSUME \/ \E m \in Machine \cup {Self}, b \in Payload \cup {Bad, None} : Export(m, b)
             \/ \E x \in Permanode : LocalScan(x)
             \/ \E m \in Machine, s \in Time : LosePayload(m, s)
             \/ Tick
      PROVE  cmd'[p] = cmd[p]
  BY <1>8 DEF Export, LocalScan, LosePayload, Tick
<1>. QED
  BY <1>3, <1>4, <1>5, <1>6, <1>7, <1>8 DEF Step

LEMMA GuardStep ==
  ASSUME Attachable, SyncTypes, Guarding, [Next]_vars
  PROVE  Guarding'
<1>1. CASE UNCHANGED vars
  BY <1>1 DEF vars, Guarding
<1>2. ASSUME Next PROVE Guarding'
  <2>1. /\ Step
        /\ guarded' = [p \in Proc |-> IF cmd'[p].op # "apply" THEN {}
                                ELSE IF cmd[p].op = "apply" THEN guarded[p] \cap ForeignOnly'
                                ELSE ForeignOnly]
    BY <1>2 DEF Next
  <2>2. ForeignOnly \subseteq Permanode /\ ForeignOnly' \subseteq Permanode
        /\ ForeignOnly \cap local = {} /\ ForeignOnly' \cap local' = {}
    BY DEF ForeignOnly
  <2>3. guarded' \in [Proc -> SUBSET Permanode]
    BY <2>1, <2>2 DEF Guarding
  <2>4. ASSUME NEW p \in Proc, cmd'[p].op = "apply"
        PROVE  /\ guarded'[p] \cap local' = {}
               /\ cmd'[p].at = "classify" => \A x \in guarded'[p] : \E m \in cmd'[p].seen : x \in Holds[m]
               /\ cmd'[p].at = "execute" => cmd'[p].rows \cap guarded'[p] = {}
    <3>1. CASE cmd'[p] = cmd[p]
      <4>1. guarded'[p] = guarded[p] \cap ForeignOnly'
        BY <2>1, <2>4, <3>1
      <4>. QED
        BY <2>2, <2>4, <3>1, <4>1 DEF Guarding
    <3>2. ASSUME cmd[p].op = "idle", UNCHANGED local, NEW rows \in SUBSET Permanode, NEW seen \in SUBSET Machine,
                 StartApply(p, rows, seen),
                 cmd'[p] = [op |-> "apply", at |-> "classify", rows |-> rows, seen |-> seen]
          PROVE  /\ guarded'[p] \cap local' = {}
                 /\ \A x \in guarded'[p] : \E m \in cmd'[p].seen : x \in Holds[m]
                 /\ cmd'[p].at = "classify"
      <4>1. guarded'[p] = ForeignOnly
        BY <2>1, <2>4, <3>2
      <4>2. {m \in Machine : Present(m)} \subseteq seen
        <5>1. CASE Cardinality(seen) = MaxAttach
          <6>1. IsFiniteSet(seen) /\ Cardinality(seen) <= Cardinality(Machine) /\ Cardinality(Machine) \in Nat
                /\ (Cardinality(seen) = Cardinality(Machine) => seen = Machine)
            BY FS_Subset, FS_CardinalityType DEF Attachable
          <6>. QED
            BY <5>1, <6>1, SyncAssumption DEF Attachable
        <5>2. CASE seen = {m \in Machine : Present(m)}
          BY <5>2
        <5>. QED
          BY <3>2, <5>1, <5>2 DEF StartApply
      <4>3. \A x \in ForeignOnly : \E m \in seen : x \in Holds[m]
        BY <4>2 DEF ForeignOnly
      <4>. QED
        BY <2>2, <3>2, <4>1, <4>3
    <3>3. ASSUME Classify(p), Foreign(p) = {}, cmd'[p].at = "execute", cmd'[p].rows = cmd[p].rows
          PROVE  /\ guarded'[p] \cap local' = {}
                 /\ cmd'[p].rows \cap guarded'[p] = {}
      <4>1. cmd[p].op = "apply" /\ cmd[p].at = "classify"
        BY <3>3 DEF Classify, At
      <4>2. guarded'[p] = guarded[p] \cap ForeignOnly'
        BY <2>1, <2>4, <4>1
      <4>3. cmd[p].rows \cap guarded[p] = {}
        BY <3>3, <4>1 DEF Guarding, Foreign
      <4>. QED
        BY <2>2, <3>3, <4>2, <4>3
    <3>. QED
      BY <2>1, <2>4, <3>1, <3>2, <3>3, ApplySteps
  <2>. QED
    BY <2>3, <2>4 DEF Guarding
<1>. QED
  BY <1>1, <1>2

-----------------------------------------------------------------------------
(* Runners.  What a process may be doing.                                     *)
Running ==
  [at : {"source", "stage", "copy", "copying", "note", "check", "ship", "record"},
   run : Ru!Run, left : Seq(Sources), dry : BOOLEAN, since : Ru!Version, alone : BOOLEAN, copied : Ru!Version,
   read : SUBSET (Ru!Content \cup {NoFile, None}), says : {"ok", "failed"}]
RunJob == [at : {"idle"}] \cup Running

RunTypes ==
  /\ db \in Ru!Version
  /\ staged \in [content : Ru!Content \cup {NoFile}, by : Replicator \cup {None}]
  /\ lock \in Archiver \cup {None}
  /\ job \in [Ru!Process -> RunJob]
  /\ pend \cup log \subseteq Ru!Row
  /\ moved \subseteq Ru!Transfer
  /\ enforce \in BOOLEAN
  /\ runs \in 0..MaxRuns /\ faults \in Nat

Runs(p) == job[p].at # "idle"

(* A run has one process; nothing is on record of one that has not begun.     *)
RunIds ==
  /\ \A p \in Ru!Process : Runs(p) =>
       /\ job[p].run <= runs
       /\ job[p].at # "source" => job[p].left # << >>
  /\ \A p, q \in Ru!Process : Runs(p) /\ Runs(q) /\ job[p].run = job[q].run => p = q
  /\ \A x \in moved \cup pend \cup log : x.run <= runs

(* A replicate run that no other overlaps: what it has staged is a copy of    *)
(* the database, taken since it began.                                        *)
Staging(p) ==
  Runs(p) =>
    /\ job[p].since <= db
    /\ job[p].alone =>
         /\ \A q \in Replicator : q # p => job[q].at = "idle"
         /\ job[p].at = "copying" => staged.by = p /\ job[p].copied >= job[p].since
         /\ job[p].at \in {"note", "check"} => staged.content = job[p].copied /\ job[p].copied >= job[p].since
         /\ job[p].at = "ship" =>
              \/ job[p].read = {None}
              \/ \E v \in Ru!Version : v >= job[p].since /\ job[p].read = {v}

Logged(r, s, says) == [run |-> r, source |-> s, says |-> says] \in log

(* The log as to what left the host, and at each step of a run what it says   *)
(* of that run.                                                               *)
Accounted ==
  /\ \A t, u \in moved :
       t.run = u.run /\ Logged(t.run, None, "start") /\ ~Logged(t.run, t.source, "ok") /\ ~Logged(u.run, u.source, "ok") => t = u
  /\ \A t \in moved :
       /\ Logged(t.run, None, "end") => Logged(t.run, t.source, "ok")
       /\ Logged(t.run, None, "start") /\ t.source \in Outside => Logged(t.run, t.source, "refused") /\ ~enforce

ReplicateKnows(p) ==
  Runs(p) =>
    /\ Logged(job[p].run, None, "start") /\ ~Logged(job[p].run, None, "end")
    /\ \A t \in moved : t.run = job[p].run /\ ~Logged(t.run, t.source, "ok") =>
         job[p].at = "record" /\ job[p].says = "ok" /\ t.source = Head(job[p].left)
    /\ job[p].at \in {"stage", "copy", "copying", "note", "check", "ship"} /\ Head(job[p].left) \in Outside =>
         Logged(job[p].run, Head(job[p].left), "refused") /\ ~enforce

ArchiveKnows(p) ==
  Runs(p) =>
    /\ lock = p /\ job[p].at = "source"
    /\ \A w \in log : w.run # job[p].run
    /\ \A w \in pend : w.run = job[p].run
    /\ \A t \in moved : t.run = job[p].run =>
         /\ [run |-> t.run, source |-> t.source, says |-> "ok"] \in pend
         /\ t.source \in Outside => [run |-> t.run, source |-> t.source, says |-> "refused"] \in pend /\ ~enforce

RunInv ==
  /\ RunTypes /\ RunIds /\ Accounted /\ Ru!ShippedIsChecked
  /\ \A p \in Replicator : Staging(p) /\ ReplicateKnows(p)
  /\ \A p \in Archiver : ArchiveKnows(p)

(* Of sets in Runners. *)
LEMMA RunOne ==
  /\ \A x : Ru!Cardinality({x}) = 1
  /\ \A S : (\A x, y \in S : x = y) => Ru!Cardinality(S) <= 1
<1>1. \A S : Ru!Cardinality(S) = Cardinality(S)
  BY DEF Ru!Cardinality, Cardinality
<1>2. \A x : Cardinality({x}) = 1
  BY FS_Singleton
<1>3. ASSUME NEW S, \A x, y \in S : x = y PROVE Cardinality(S) <= 1
  <2>1. CASE S = {}
    BY <2>1, FS_EmptySet
  <2>2. ASSUME NEW x \in S PROVE Cardinality(S) <= 1
    <3>1. S = {x}
      BY <1>3
    <3>. QED
      BY <1>2, <3>1
  <2>. QED
    BY <2>1, <2>2
<1>. QED
  BY <1>1, <1>2, <1>3

(* The constants of Runners. *)
LEMMA RunConstants ==
  /\ Replicator \cap Archiver = {} /\ Policy \in [Ru!Process -> Seq(Sources)] /\ None \notin Ru!Process
  /\ {NoFile, Part, Empty, None} \cap Ru!Version = {} /\ NoFile \notin {Part, Empty, None} /\ None \notin {Part, Empty}
  /\ MaxRuns \in Nat /\ MaxWrites \in Nat /\ 0 \in Ru!Version
BY HostsAssumption DEF Ru!RunnersAssumption, Ru!Version

LEMMA RunInit == Ru!Init => RunInv
<1>. SUFFICES ASSUME Ru!Init PROVE RunInv
  OBVIOUS
<1>1. Ru!Idle \in RunJob /\ Ru!Idle.at = "idle"
  BY DEF RunJob, Ru!Idle
<1>2. job \in [Ru!Process -> RunJob] /\ \A p \in Ru!Process : ~Runs(p)
  BY <1>1 DEF Ru!Init, Runs
<1>3. RunTypes
  BY <1>2, RunConstants DEF RunTypes, Ru!Init, Ru!Unlinked
<1>. QED
  BY <1>2, <1>3 DEF RunInv, RunIds, Accounted, Ru!ShippedIsChecked, Staging, ReplicateKnows, ArchiveKnows, Ru!Init, Ru!Process

(* A step of one run leaves the others where they are; one of them may see    *)
(* the staged path change while it is read.                                   *)
Keeps(q) ==
  /\ job'[q].at = job[q].at
  /\ Runs(q) => /\ job'[q].run = job[q].run /\ job'[q].left = job[q].left /\ job'[q].since = job[q].since
                /\ job'[q].alone = job[q].alone /\ job'[q].copied = job[q].copied /\ job'[q].says = job[q].says
Moves(p, j) ==
  /\ job' \in [Ru!Process -> RunJob] /\ job'[p] = j
  /\ \A q \in Ru!Process : q # p => Keeps(q)

LEMMA BecomesMoves ==
  ASSUME RunTypes, NEW p \in Ru!Process, NEW j \in RunJob, Ru!Becomes(p, j)
  PROVE  Moves(p, j)
BY DEF RunTypes, Ru!Becomes, Moves, Keeps

LEMMA StagesMoves ==
  ASSUME RunTypes, NEW p \in Ru!Process, NEW j \in RunJob,
         NEW f \in [content : Ru!Content \cup {NoFile}, by : Replicator \cup {None}], Ru!Stages(p, j, f)
  PROVE  staged' = f /\ Moves(p, j)
<1>1. job \in [Ru!Process -> RunJob]
  BY DEF RunTypes
<1>2. staged' = f /\ job' = [q \in Ru!Process |->
       IF q = p THEN j
       ELSE IF job[q].at = "ship" /\ None \notin job[q].read
            THEN [job[q] EXCEPT !.read = @ \cup {f.content}] ELSE job[q]]
  BY DEF Ru!Stages
<1>3. ASSUME NEW q \in Ru!Process, q # p PROVE job'[q] \in RunJob /\ Keeps(q)
  <2>1. CASE job[q].at = "ship" /\ None \notin job[q].read
    <3>1. job[q] \in Running
      BY <1>1, <2>1 DEF RunJob
    <3>2. job'[q] = [at |-> job[q].at, run |-> job[q].run, left |-> job[q].left, dry |-> job[q].dry,
                     since |-> job[q].since, alone |-> job[q].alone, copied |-> job[q].copied,
                     read |-> job[q].read \cup {f.content}, says |-> job[q].says]
      BY <1>2, <1>3, <2>1, <3>1 DEF Running
    <3>. QED
      BY <3>1, <3>2 DEF RunJob, Running, Keeps
  <2>2. CASE ~(job[q].at = "ship" /\ None \notin job[q].read)
    BY <1>1, <1>2, <1>3, <2>2 DEF Keeps
  <2>. QED
    BY <2>1, <2>2
<1>. QED
  BY <1>2, <1>3 DEF Moves

(* A replicate run goes on.                                                   *)
LEMMA ReplicatorGoes ==
  ASSUME RunInv, NEW p \in Replicator, Runs(p), NEW j \in Running, Moves(p, j),
         j.run = job[p].run, j.since = job[p].since, j.alone = job[p].alone,
         j.at # "source" => j.left # << >>,
         staged' \in [content : Ru!Content \cup {NoFile}, by : Replicator \cup {None}],
         UNCHANGED <<db, lock, pend, enforce, runs>>, faults' \in Nat,
         log \subseteq log',
         \A w \in log' \ log : w \in Ru!Row /\ w.run = job[p].run /\ w.says \notin {"start", "end"},
         moved \subseteq moved', moved' = moved \/ job[p].at # "record",
         \A t, u \in moved' \ moved : t = u,
         \A t \in moved' \ moved :
           /\ t \in Ru!Transfer /\ t.run = job[p].run
           /\ t.content # None /\ t.alone => t.content \in Ru!Version /\ t.content >= t.since
           /\ t.source \in Outside => Logged(t.run, t.source, "refused") /\ ~enforce,
         Staging(p)', ReplicateKnows(p)'
  PROVE  RunInv'
<1>0. /\ RunTypes /\ RunIds /\ Accounted /\ Ru!ShippedIsChecked
      /\ \A q \in Replicator : Staging(q) /\ ReplicateKnows(q)
      /\ \A q \in Archiver : ArchiveKnows(q)
  BY DEF RunInv
<1>a. p \in Ru!Process /\ Replicator \subseteq Ru!Process /\ Archiver \subseteq Ru!Process /\ p \notin Archiver
  BY RunConstants DEF Ru!Process
<1>1. Runs(p)' /\ job'[p] = j /\ \A q \in Ru!Process : q # p => (Runs(q)' <=> Runs(q)) /\ Keeps(q)
  BY DEF Moves, Keeps, Runs, Running
<1>2. RunTypes'
  BY <1>0 DEF RunTypes, Moves
<1>3. RunIds'
  <2>1. job[p].run <= runs
    BY <1>0, <1>a DEF RunIds
  <2>2. \A q \in Ru!Process : Runs(q)' =>
          /\ job'[q].run <= runs
          /\ job'[q].at # "source" => job'[q].left # << >>
    BY <1>0, <1>a, <1>1, <2>1 DEF RunIds, Keeps
  <2>3. \A q \in Ru!Process : Runs(q)' => Runs(q) /\ job'[q].run = job[q].run
    BY <1>1 DEF Keeps
  <2>4. \A q, r \in Ru!Process : Runs(q)' /\ Runs(r)' /\ job'[q].run = job'[r].run => q = r
    BY <1>0, <2>3 DEF RunIds
  <2>5. \A x \in (moved \cup pend \cup log)' : x.run <= runs
    BY <1>0, <2>1 DEF RunIds
  <2>. QED
    BY <2>2, <2>4, <2>5 DEF RunIds
<1>4. Accounted'
  <2>1. /\ \A r, s, says : Logged(r, s, says) => Logged(r, s, says)'
        /\ \A r : (Logged(r, None, "start")' => Logged(r, None, "start")) /\ (Logged(r, None, "end")' => Logged(r, None, "end"))
    BY DEF Logged
  <2>2. \A t \in moved : t.run = job[p].run /\ ~Logged(t.run, t.source, "ok") => job[p].at = "record"
    BY <1>0 DEF ReplicateKnows
  <2>3. ~Logged(job[p].run, None, "end")
    BY <1>0 DEF ReplicateKnows
  <2>4. \A t, u \in moved' :
          t.run = u.run /\ Logged(t.run, None, "start")' /\ ~Logged(t.run, t.source, "ok")' /\ ~Logged(u.run, u.source, "ok")' => t = u
    BY <1>0, <2>1, <2>2 DEF Accounted
  <2>5. ASSUME NEW t \in moved'
        PROVE  /\ Logged(t.run, None, "end")' => Logged(t.run, t.source, "ok")'
               /\ Logged(t.run, None, "start")' /\ t.source \in Outside => Logged(t.run, t.source, "refused")' /\ ~enforce'
    BY <1>0, <2>1, <2>3 DEF Accounted
  <2>. QED
    BY <2>4, <2>5 DEF Accounted
<1>5. Ru!ShippedIsChecked'
  BY <1>0 DEF Ru!ShippedIsChecked
<1>6. ASSUME NEW q \in Replicator, q # p PROVE Staging(q)' /\ ReplicateKnows(q)'
  <2>1. Keeps(q) /\ (Runs(q)' <=> Runs(q)) /\ (Runs(q) => ~job[q].alone /\ job[q].run # job[p].run)
    BY <1>0, <1>a, <1>1, <1>6 DEF Staging, RunIds, Runs
  <2>2. Staging(q)'
    BY <1>0, <2>1 DEF Staging, Keeps
  <2>3. ReplicateKnows(q)'
    <3>. SUFFICES ASSUME Runs(q) PROVE ReplicateKnows(q)'
      BY <2>1 DEF ReplicateKnows
    <3>1. \A s, says : Logged(job[q].run, s, says)' <=> Logged(job[q].run, s, says)
      BY <2>1 DEF Logged, Keeps
    <3>2. \A t \in moved' : t.run = job[q].run => t \in moved
      BY <2>1
    <3>. QED
      BY <1>0, <2>1, <3>1, <3>2 DEF ReplicateKnows, Keeps
  <2>. QED
    BY <2>2, <2>3
<1>7. ASSUME NEW q \in Archiver PROVE ArchiveKnows(q)'
  <2>1. Keeps(q) /\ (Runs(q)' <=> Runs(q)) /\ (Runs(q) => job[q].run # job[p].run)
    BY <1>0, <1>a, <1>1 DEF RunIds
  <2>. QED
    BY <1>0, <2>1 DEF ArchiveKnows, Keeps
<1>. QED
  BY <1>2, <1>3, <1>4, <1>5, <1>6, <1>7 DEF RunInv

(* A replicate run is over or dies.                                           *)
LEMMA ReplicatorStops ==
  ASSUME RunInv, NEW p \in Replicator, Runs(p), Moves(p, Ru!Idle),
         staged' \in [content : Ru!Content \cup {NoFile}, by : Replicator \cup {None}],
         UNCHANGED <<db, lock, pend, moved, enforce, runs>>, faults' \in Nat,
         \/ log' = log
         \/ job[p].at # "record" /\ log' = log \cup {[run |-> job[p].run, source |-> None, says |-> "end"]}
  PROVE  RunInv'
<1>0. /\ RunTypes /\ RunIds /\ Accounted /\ Ru!ShippedIsChecked
      /\ \A q \in Replicator : Staging(q) /\ ReplicateKnows(q)
      /\ \A q \in Archiver : ArchiveKnows(q)
  BY DEF RunInv
<1>a. p \in Ru!Process /\ Replicator \subseteq Ru!Process /\ Archiver \subseteq Ru!Process /\ p \notin Archiver
  BY RunConstants DEF Ru!Process
<1>b. job[p].run \in Ru!Run /\ job[p].run <= runs
  BY <1>0, <1>a DEF RunIds, RunTypes, RunJob, Running, Runs
<1>1. ~Runs(p)' /\ \A q \in Ru!Process : q # p => (Runs(q)' <=> Runs(q)) /\ Keeps(q)
  BY DEF Moves, Keeps, Runs, Ru!Idle
<1>2. RunTypes'
  BY <1>0, <1>b DEF RunTypes, Moves, Ru!Row
<1>3. RunIds'
  <2>1. \A q \in Ru!Process : Runs(q)' => Runs(q) /\ Keeps(q)
    BY <1>1
  <2>2. \A x \in (moved \cup pend \cup log)' : x.run <= runs
    BY <1>0, <1>b DEF RunIds
  <2>. QED
    BY <1>0, <2>1, <2>2 DEF RunIds, Keeps
<1>4. Accounted'
  <2>1. /\ \A r, s, says : Logged(r, s, says) => Logged(r, s, says)'
        /\ \A r, s : \A says \in {"start", "refused", "ok"} : Logged(r, s, says)' <=> Logged(r, s, says)
        /\ \A r : Logged(r, None, "end")' => Logged(r, None, "end") \/ (r = job[p].run /\ job[p].at # "record")
    BY DEF Logged
  <2>2. \A t \in moved : t.run = job[p].run /\ ~Logged(t.run, t.source, "ok") => job[p].at = "record"
    BY <1>0 DEF ReplicateKnows
  <2>. QED
    BY <1>0, <2>1, <2>2 DEF Accounted
<1>5. Ru!ShippedIsChecked'
  BY <1>0 DEF Ru!ShippedIsChecked
<1>6. ASSUME NEW q \in Replicator PROVE Staging(q)' /\ ReplicateKnows(q)'
  <2>1. CASE q = p
    BY <1>1, <2>1 DEF Staging, ReplicateKnows
  <2>2. CASE q # p
    <3>1. Keeps(q) /\ (Runs(q)' <=> Runs(q)) /\ (Runs(q) => ~job[q].alone /\ job[q].run # job[p].run)
      BY <1>0, <1>a, <1>1, <2>2 DEF Staging, RunIds, Runs
    <3>2. Staging(q)'
      BY <1>0, <3>1 DEF Staging, Keeps
    <3>3. ReplicateKnows(q)'
      <4>. SUFFICES ASSUME Runs(q) PROVE ReplicateKnows(q)'
        BY <3>1 DEF ReplicateKnows
      <4>1. \A s, says : Logged(job[q].run, s, says)' <=> Logged(job[q].run, s, says)
        BY <3>1 DEF Logged, Keeps
      <4>. QED
        BY <1>0, <3>1, <4>1 DEF ReplicateKnows, Keeps
    <3>. QED
      BY <3>2, <3>3
  <2>. QED
    BY <2>1, <2>2
<1>7. ASSUME NEW q \in Archiver PROVE ArchiveKnows(q)'
  <2>1. Keeps(q) /\ (Runs(q)' <=> Runs(q)) /\ (Runs(q) => job[q].run # job[p].run)
    BY <1>0, <1>a, <1>1 DEF RunIds
  <2>. QED
    BY <1>0, <2>1 DEF ArchiveKnows, Keeps
<1>. QED
  BY <1>2, <1>3, <1>4, <1>5, <1>6, <1>7 DEF RunInv

LEMMA RunFields == ASSUME RunTypes, NEW p \in Ru!Process, Runs(p) PROVE job[p] \in Running
BY DEF RunTypes, RunJob, Runs

(* The records of runs, written out. *)
LEMMA RunDomain ==
  \A r \in Running : DOMAIN r = {"at", "run", "left", "dry", "since", "alone", "copied", "read", "says"}
BY DEF Running

LEMMA StartReplicateStep ==
  ASSUME RunInv, NEW p \in Replicator, NEW dry \in BOOLEAN, Ru!StartReplicate(p, dry)
  PROVE  RunInv'
<1>0. /\ RunTypes /\ RunIds /\ Accounted /\ Ru!ShippedIsChecked
      /\ \A q \in Replicator : Staging(q) /\ ReplicateKnows(q)
      /\ \A q \in Archiver : ArchiveKnows(q)
  BY DEF RunInv
<1>a. p \in Ru!Process /\ Replicator \subseteq Ru!Process /\ Archiver \subseteq Ru!Process /\ p \notin Archiver
  BY RunConstants DEF Ru!Process
<1>. DEFINE others == {q \in Replicator : job[q] # Ru!Idle}
            w == [run |-> runs + 1, source |-> None, says |-> "start"]
            j == [at |-> "source", run |-> runs + 1, left |-> Policy[p], dry |-> dry,
                  since |-> db, alone |-> others = {}, copied |-> 0, read |-> {}, says |-> "ok"]
<1>1. /\ job[p].at = "idle" /\ runs < MaxRuns /\ runs' = runs + 1 /\ log' = log \cup {w}
      /\ job' = [q \in Ru!Process |-> IF q = p THEN j
                   ELSE IF q \in others THEN [job[q] EXCEPT !.alone = FALSE] ELSE job[q]]
      /\ UNCHANGED <<db, staged, lock, pend, moved, enforce, faults>>
  BY DEF Ru!StartReplicate, Ru!At, Ru!Commits, Ru!Begun
<1>2. runs' \in 0..MaxRuns /\ runs + 1 \in Ru!Run /\ runs \in Nat
  BY <1>0, <1>1, RunConstants DEF RunTypes, Ru!Run
<1>n. PICK n \in Nat : n = runs + 1
  BY <1>2
<1>3. \A q \in Ru!Process : job[q].at = "idle" <=> job[q] = Ru!Idle
  BY <1>0 DEF RunTypes, RunJob, Ru!Idle, Running
<1>4. j \in Running
  <2>1. (others = {}) \in BOOLEAN
    OBVIOUS
  <2>2. Policy[p] \in Seq(Sources) /\ db \in Ru!Version /\ 0 \in Ru!Version
    BY <1>0, <1>a, RunConstants DEF RunTypes
  <2>. HIDE DEF others
  <2>. QED
    BY <1>2, <2>1, <2>2 DEF Running
<1>5. j.at = "source" /\ j.run = runs + 1 /\ j.since = db /\ j.left = Policy[p] /\ (j.alone => others = {})
  OBVIOUS
<1>. HIDE DEF j
<1>6. ASSUME NEW q \in Ru!Process, q # p
      PROVE  /\ job'[q] \in RunJob /\ job'[q].at = job[q].at
             /\ Runs(q) => /\ job'[q].run = job[q].run /\ job'[q].left = job[q].left /\ job'[q].since = job[q].since
                           /\ job'[q].says = job[q].says /\ (q \in Replicator => job'[q].alone = FALSE)
                           /\ (q \in Archiver => job'[q] = job[q])
  <2>1. CASE q \in others
    <3>1. job[q] \in Running /\ q \in Replicator
      BY <1>0, <1>a, <1>3, <2>1 DEF RunTypes, RunJob
    <3>2. job'[q] = [at |-> job[q].at, run |-> job[q].run, left |-> job[q].left, dry |-> job[q].dry,
                     since |-> job[q].since, alone |-> FALSE, copied |-> job[q].copied,
                     read |-> job[q].read, says |-> job[q].says]
      BY <1>1, <1>6, <2>1, <3>1 DEF Running
    <3>. QED
      BY <3>1, <3>2, RunConstants DEF RunJob, Running
  <2>2. CASE q \notin others
    <3>1. job'[q] = job[q]
      BY <1>1, <1>6, <2>2
    <3>2. q \in Replicator => ~Runs(q)
      BY <1>a, <1>3, <2>2 DEF Runs
    <3>. QED
      BY <1>0, <3>1, <3>2 DEF RunTypes
  <2>. QED
    BY <2>1, <2>2
<1>7. job' \in [Ru!Process -> RunJob] /\ job'[p] = j
  <2>1. job'[p] = j
    BY <1>1, <1>a
  <2>2. \A q \in Ru!Process : job'[q] \in RunJob
    BY <1>4, <1>6, <2>1 DEF RunJob
  <2>. QED
    BY <1>1, <2>1, <2>2
<1>8. others = {} => \A q \in Replicator : job[q].at = "idle"
  BY <1>a, <1>3
<1>. HIDE DEF others
<1>9. RunTypes'
  <2>1. w \in Ru!Row
    BY <1>2 DEF Ru!Row
  <2>. HIDE DEF w
  <2>. QED
    BY <1>0, <1>1, <1>2, <1>7, <2>1 DEF RunTypes
<1>10. RunIds'
  <2>1. \A q \in Ru!Process : Runs(q)' =>
          /\ job'[q].run <= runs' /\ (job'[q].at # "source" => job'[q].left # << >>)
          /\ (q # p => job'[q].run <= runs /\ Runs(q) /\ job'[q].run = job[q].run)
          /\ job'[q].run \in Nat
    <3>1. \A q \in Ru!Process : Runs(q) => job[q].run \in Nat
      BY <1>0 DEF RunTypes, RunJob, Running, Runs, Ru!Run
    <3>. QED
      BY <1>0, <1>1, <1>2, <1>5, <1>6, <1>7, <3>1 DEF RunIds, Runs
  <2>2. \A q, r \in Ru!Process : Runs(q)' /\ Runs(r)' /\ job'[q].run = job'[r].run => q = r
    BY <1>0, <1>2, <1>5, <1>7, <2>1 DEF RunIds
  <2>3. \A x \in moved \cup pend \cup log : x.run \in Nat /\ x.run <= runs
    BY <1>0 DEF RunIds, RunTypes, Ru!Row, Ru!Transfer, Ru!Run
  <2>4. \A x \in (moved \cup pend \cup log)' : x.run <= runs'
    BY <1>1, <1>2, <2>3
  <2>. QED
    BY <2>1, <2>2, <2>4 DEF RunIds
<1>11. /\ \A r, s, says : Logged(r, s, says) => Logged(r, s, says)'
       /\ \A r, s : \A says \in {"end", "refused", "ok"} : Logged(r, s, says)' <=> Logged(r, s, says)
       /\ \A r, s, says : r # n => (Logged(r, s, says)' <=> Logged(r, s, says))
       /\ Logged(n, None, "start")' /\ ~Logged(n, None, "end")'
       /\ \A r, s, says : Logged(r, s, says) => r <= runs
  <2>1. \A x \in log : x.run <= runs
    BY <1>0 DEF RunIds
  <2>. QED
    BY <1>1, <1>2, <1>n, <2>1 DEF Logged
<1>12. \A t \in moved : t.run # n
  BY <1>0, <1>2, <1>n DEF RunIds, RunTypes, Ru!Transfer, Ru!Run
<1>13. Accounted'
  BY <1>0, <1>1, <1>11, <1>12 DEF Accounted
<1>14. Ru!ShippedIsChecked'
  BY <1>0, <1>1 DEF Ru!ShippedIsChecked
<1>15. ASSUME NEW q \in Replicator PROVE Staging(q)' /\ ReplicateKnows(q)'
  <2>1. CASE q = p
    <3>1. \A r \in Replicator : r # p => job'[r].at = "idle" \/ others # {}
      BY <1>a, <1>6, <1>8
    <3>2. db \in Nat
      BY <1>0 DEF RunTypes, Ru!Version
    <3>3. Staging(p)'
      BY <1>1, <1>5, <1>7, <3>1, <3>2 DEF Staging
    <3>4. ReplicateKnows(p)'
      BY <1>1, <1>5, <1>7, <1>n, <1>11, <1>12 DEF ReplicateKnows
    <3>. QED
      BY <2>1, <3>3, <3>4
  <2>2. CASE q # p
    <3>1. job'[q].at = job[q].at /\ (Runs(q)' <=> Runs(q))
      BY <1>a, <1>6, <2>2 DEF Runs
    <3>2. Runs(q) => job[q].run # n /\ job[q].run <= runs
      BY <1>0, <1>a, <1>2, <1>n DEF RunIds, RunTypes, RunJob, Running, Runs, Ru!Run
    <3>3. Staging(q)'
      BY <1>0, <1>1, <1>a, <1>6, <2>2, <3>1 DEF Staging
    <3>4. ReplicateKnows(q)'
      <4>. SUFFICES ASSUME Runs(q) PROVE ReplicateKnows(q)'
        BY <3>1 DEF ReplicateKnows
      <4>1. job'[q].run = job[q].run /\ job'[q].left = job[q].left /\ job'[q].says = job[q].says
        BY <1>a, <1>6, <2>2
      <4>2. \A r, s, says : r # n => (Logged(r, s, says)' <=> Logged(r, s, says))
        BY <1>11
      <4>. QED
        BY <1>0, <1>1, <3>1, <3>2, <4>1, <4>2, <1>12 DEF ReplicateKnows
    <3>. QED
      BY <3>3, <3>4
  <2>. QED
    BY <2>1, <2>2
<1>16. ASSUME NEW q \in Archiver PROVE ArchiveKnows(q)'
  <2>1. q # p /\ job'[q].at = job[q].at /\ (Runs(q)' <=> Runs(q)) /\ (Runs(q) => job'[q] = job[q])
    BY <1>a, <1>6 DEF Runs
  <2>2. Runs(q) => job[q].run # n
    BY <1>0, <1>a, <1>2, <1>n DEF RunIds, RunTypes, RunJob, Running, Runs, Ru!Run
  <2>. QED
    <3>. SUFFICES ASSUME Runs(q) PROVE ArchiveKnows(q)'
      BY <2>1 DEF ArchiveKnows
    <3>1. w.run = n
      BY <1>n
    <3>2. \A x \in log' : x.run # job[q].run
      BY <1>0, <1>1, <2>2, <3>1 DEF ArchiveKnows
    <3>. HIDE DEF w
    <3>. QED
      BY <1>0, <1>1, <2>1, <3>2 DEF ArchiveKnows
<1>. QED
  BY <1>9, <1>10, <1>13, <1>14, <1>15, <1>16 DEF RunInv

(* Each other step of a replicate run. *)
LEMMA ReplicateSteps ==
  ASSUME RunInv, NEW p \in Replicator, Ru!Replicate(p) \/ Ru!Kill(p)
  PROVE  RunInv'
<1>0. /\ RunTypes /\ RunIds /\ Accounted /\ Ru!ShippedIsChecked
      /\ \A q \in Replicator : Staging(q) /\ ReplicateKnows(q)
      /\ \A q \in Archiver : ArchiveKnows(q)
  BY DEF RunInv
<1>a. p \in Ru!Process /\ p \notin Archiver
  BY RunConstants DEF Ru!Process
<1>t. /\ staged \in [content : Ru!Content \cup {NoFile}, by : Replicator \cup {None}] /\ faults \in Nat
      /\ db \in Ru!Version /\ db \in Nat /\ Part \in Ru!Content /\ Empty \in Ru!Content /\ Ru!Version \subseteq Ru!Content
  BY <1>0 DEF RunTypes, Ru!Version, Ru!Content
<1>1. CASE \E dry \in BOOLEAN : Ru!StartReplicate(p, dry)
  BY <1>1, StartReplicateStep
<1>2. CASE Ru!Consider(p)
  <2>1. job[p].at = "source" /\ job[p].left # << >> /\ Runs(p) /\ UNCHANGED <<db, staged, lock, pend, moved, enforce, runs, faults>>
    BY <1>2 DEF Ru!Consider, Ru!At, Runs
  <2>2. job[p] \in Running
    BY <1>0, <1>a, <2>1, RunFields
  <2>3. PICK a \in {"record", "stage", "ship"}, s \in {"failed", "ok"} :
          /\ Ru!Becomes(p, [job[p] EXCEPT !.at = a, !.says = s, !.read = {None}])
          /\ a # "record" => ~(Head(job[p].left) \in Outside /\ enforce)
          /\ a = "record" => s = "failed"
    BY <1>2 DEF Ru!Consider, Ru!Now
  <2>. DEFINE j == [at |-> a, run |-> job[p].run, left |-> job[p].left, dry |-> job[p].dry, since |-> job[p].since,
                    alone |-> job[p].alone, copied |-> job[p].copied, read |-> {None}, says |-> s]
  <2>4. [job[p] EXCEPT !.at = a, !.says = s, !.read = {None}] = j
    <3>1. [job[p] EXCEPT !.at = a, !.says = s, !.read = {None}] =
            [k \in DOMAIN job[p] |-> IF k = "read" THEN {None} ELSE IF k = "says" THEN s ELSE IF k = "at" THEN a ELSE job[p][k]]
      BY <2>2, RunDomain
    <3>. QED
      BY <2>2, <3>1, RunDomain
  <2>5. Ru!Becomes(p, j)
    BY <2>3, <2>4
  <2>6. j \in Running /\ j.at = a /\ j.run = job[p].run /\ j.since = job[p].since /\ j.alone = job[p].alone
        /\ j.left = job[p].left /\ j.read = {None}
    BY <2>2 DEF Running
  <2>. HIDE DEF j
  <2>7. Moves(p, j)
    BY <1>0, <1>a, <2>5, <2>6, BecomesMoves DEF RunJob
  <2>. DEFINE w == [run |-> job[p].run, source |-> Head(job[p].left), says |-> "refused"]
  <2>8. log' = IF Head(job[p].left) \in Outside THEN log \cup {w} ELSE log
    BY <1>2 DEF Ru!Consider, Ru!Now, Ru!Commits, Ru!RowOf
  <2>9. w \in Ru!Row
    BY <2>1, <2>2 DEF Ru!Row, Running
  <2>10. Staging(p)'
    BY <1>0, <2>1, <2>6, <2>7 DEF Staging, Moves, Keeps, Ru!Process
  <2>11. ReplicateKnows(p)'
    <3>1. /\ Logged(job[p].run, None, "start") /\ ~Logged(job[p].run, None, "end")
          /\ \A t \in moved : t.run = job[p].run => Logged(t.run, t.source, "ok")
      BY <1>0, <2>1 DEF ReplicateKnows
    <3>2. Head(job[p].left) \in Outside => w \in log'
      BY <2>8
    <3>3. job'[p] = j
      BY <2>7 DEF Moves
    <3>. QED
      BY <2>1, <2>3, <2>6, <2>8, <3>1, <3>2, <3>3 DEF ReplicateKnows, Logged
  <2>. QED
    <3>1. \A x \in log' \ log : x \in Ru!Row /\ x.run = job[p].run /\ x.says \notin {"start", "end"}
      BY <2>8, <2>9
    <3>2. log \subseteq log'
      BY <2>8
    <3>. QED
      BY <1>t, <2>1, <2>6, <2>7, <2>10, <2>11, <3>1, <3>2, ReplicatorGoes

<1>b. \A q \in Ru!Process : Ru!Unlinked \in [content : Ru!Content \cup {NoFile}, by : Replicator \cup {None}]
  BY DEF Ru!Unlinked
<1>3. CASE Ru!Unstage(p)
  <2>1. /\ job[p].at = "stage" /\ Runs(p) /\ Ru!Stages(p, [job[p] EXCEPT !.at = "copy"], Ru!Unlinked)
        /\ UNCHANGED <<db, lock, pend, log, moved, enforce, runs, faults>>
    BY <1>3 DEF Ru!Unstage, Ru!At, Runs
  <2>f. job[p] \in Running
    BY <1>0, <1>a, <2>1, RunFields
  <2>. DEFINE j == [at |-> "copy", run |-> job[p].run, left |-> job[p].left, dry |-> job[p].dry, since |-> job[p].since,
                    alone |-> job[p].alone, copied |-> job[p].copied, read |-> job[p].read, says |-> job[p].says]
  <2>2. [job[p] EXCEPT !.at = "copy"] = j
    <3>1. [job[p] EXCEPT !.at = "copy"] =
            [k \in DOMAIN job[p] |-> IF k = "at" THEN "copy" ELSE job[p][k]]
      BY <2>f, RunDomain
    <3>. QED
      BY <2>f, <3>1, RunDomain
  <2>3. j \in Running /\ j.at = "copy" /\ j.run = job[p].run /\ j.since = job[p].since /\ j.alone = job[p].alone
        /\ j.left = job[p].left
    BY <2>f DEF Running
  <2>4. Ru!Stages(p, j, Ru!Unlinked)
    BY <2>1, <2>2
  <2>. HIDE DEF j
  <2>5. staged' = Ru!Unlinked /\ Moves(p, j)
    BY <1>0, <1>a, <1>b, <2>3, <2>4, StagesMoves DEF RunJob
  <2>6. job[p].left # << >>
    BY <1>0, <1>a, <2>1 DEF RunIds
  <2>7. Staging(p)'
    BY <1>0, <2>1, <2>3, <2>5 DEF Staging, Moves, Keeps, Ru!Process
  <2>8. ReplicateKnows(p)'
    BY <1>0, <2>1, <2>3, <2>5 DEF ReplicateKnows, Logged, Moves, Runs
  <2>. QED
    BY <1>a, <1>b, <1>t, <2>1, <2>3, <2>5, <2>6, <2>7, <2>8, ReplicatorGoes
<1>4. CASE Ru!BeginCopy(p)
  <2>. DEFINE f == [content |-> Part, by |-> p]
  <2>1. /\ job[p].at = "copy" /\ Runs(p) /\ Ru!Stages(p, [job[p] EXCEPT !.at = "copying", !.copied = db], f)
        /\ UNCHANGED <<db, lock, pend, log, moved, enforce, runs, faults>>
    BY <1>4 DEF Ru!BeginCopy, Ru!At, Runs
  <2>f. job[p] \in Running
    BY <1>0, <1>a, <2>1, RunFields
  <2>. DEFINE j == [at |-> "copying", run |-> job[p].run, left |-> job[p].left, dry |-> job[p].dry, since |-> job[p].since,
                    alone |-> job[p].alone, copied |-> db, read |-> job[p].read, says |-> job[p].says]
  <2>2. [job[p] EXCEPT !.at = "copying", !.copied = db] = j
    <3>1. [job[p] EXCEPT !.at = "copying", !.copied = db] =
            [k \in DOMAIN job[p] |-> IF k = "copied" THEN db ELSE IF k = "at" THEN "copying" ELSE job[p][k]]
      BY <2>f, RunDomain
    <3>. QED
      BY <2>f, <3>1, RunDomain
  <2>3. j \in Running /\ j.at = "copying" /\ j.run = job[p].run /\ j.since = job[p].since /\ j.alone = job[p].alone
        /\ j.left = job[p].left /\ j.copied = db
    BY <2>f, <1>t DEF Running
  <2>4. Ru!Stages(p, j, f)
    BY <2>1, <2>2
  <2>. HIDE DEF j
  <2>g. f \in [content : Ru!Content \cup {NoFile}, by : Replicator \cup {None}] /\ f.by = p
    BY <1>t
  <2>. HIDE DEF f
  <2>5. staged' = f /\ Moves(p, j)
    BY <1>0, <1>a, <2>3, <2>4, <2>g, StagesMoves DEF RunJob
  <2>6. job[p].left # << >>
    BY <1>0, <1>a, <2>1 DEF RunIds
  <2>s. job[p].since \in Nat
    BY <2>f DEF Running, Ru!Version
  <2>7. Staging(p)'
    BY <1>0, <1>t, <2>1, <2>3, <2>5, <2>g, <2>s DEF Staging, Moves, Keeps, Ru!Process
  <2>8. ReplicateKnows(p)'
    BY <1>0, <2>1, <2>3, <2>5 DEF ReplicateKnows, Logged, Moves, Runs
  <2>. QED
    BY <1>a, <1>t, <2>1, <2>3, <2>5, <2>6, <2>7, <2>8, <2>g, ReplicatorGoes
<1>5. CASE Ru!EndCopy(p)
  <2>1. /\ job[p].at = "copying" /\ Runs(p)
        /\ UNCHANGED <<db, lock, pend, log, moved, enforce, runs, faults>>
    BY <1>5 DEF Ru!EndCopy, Ru!At, Runs
  <2>f. job[p] \in Running
    BY <1>0, <1>a, <2>1, RunFields
  <2>. DEFINE j == [at |-> "note", run |-> job[p].run, left |-> job[p].left, dry |-> job[p].dry, since |-> job[p].since,
                    alone |-> job[p].alone, copied |-> job[p].copied, read |-> job[p].read, says |-> job[p].says]
  <2>2. [job[p] EXCEPT !.at = "note"] = j
    <3>1. [job[p] EXCEPT !.at = "note"] =
            [k \in DOMAIN job[p] |-> IF k = "at" THEN "note" ELSE job[p][k]]
      BY <2>f, RunDomain
    <3>. QED
      BY <2>f, <3>1, RunDomain
  <2>3. j \in Running /\ j.at = "note" /\ j.run = job[p].run /\ j.since = job[p].since /\ j.alone = job[p].alone
        /\ j.left = job[p].left /\ j.copied = job[p].copied
    BY <2>f DEF Running
  <2>. DEFINE f == [staged EXCEPT !.content = job[p].copied]
  <2>4. \/ staged.by = p /\ Ru!Stages(p, j, f)
        \/ staged.by # p /\ Ru!Becomes(p, j) /\ UNCHANGED staged
    BY <1>5, <2>2 DEF Ru!EndCopy, Ru!Goes
  <2>g. f \in [content : Ru!Content \cup {NoFile}, by : Replicator \cup {None}] /\ f.content = job[p].copied
    <3>1. f = [content |-> job[p].copied, by |-> staged.by]
      BY <1>t
    <3>2. job[p].copied \in Ru!Content
      BY <1>t, <2>f DEF Running
    <3>. HIDE DEF f
    <3>. QED
      BY <1>t, <3>1, <3>2
  <2>. HIDE DEF f, j
  <2>5. Moves(p, j) /\ ((staged.by = p /\ staged' = f) \/ (staged.by # p /\ staged' = staged))
    BY <1>0, <1>a, <2>3, <2>4, <2>g, StagesMoves, BecomesMoves DEF RunJob
  <2>6. job[p].left # << >>
    BY <1>0, <1>a, <2>1 DEF RunIds
  <2>7. Staging(p)'
    BY <1>0, <2>1, <2>3, <2>5, <2>g DEF Staging, Moves, Keeps, Ru!Process
  <2>8. ReplicateKnows(p)'
    BY <1>0, <2>1, <2>3, <2>5 DEF ReplicateKnows, Logged, Moves, Runs
  <2>. QED
    BY <1>a, <1>t, <2>1, <2>3, <2>5, <2>6, <2>7, <2>8, <2>g, ReplicatorGoes
<1>6. CASE Ru!NoteBackup(p)
  <2>1. /\ job[p].at = "note" /\ Runs(p)
        /\ UNCHANGED <<db, staged, lock, pend, log, moved, enforce, runs, faults>>
    BY <1>6 DEF Ru!NoteBackup, Ru!At, Runs
  <2>f. job[p] \in Running
    BY <1>0, <1>a, <2>1, RunFields
  <2>. DEFINE j == [at |-> "check", run |-> job[p].run, left |-> job[p].left, dry |-> job[p].dry, since |-> job[p].since,
                    alone |-> job[p].alone, copied |-> job[p].copied, read |-> job[p].read, says |-> job[p].says]
  <2>2. [job[p] EXCEPT !.at = "check"] = j
    <3>1. [job[p] EXCEPT !.at = "check"] =
            [k \in DOMAIN job[p] |-> IF k = "at" THEN "check" ELSE job[p][k]]
      BY <2>f, RunDomain
    <3>. QED
      BY <2>f, <3>1, RunDomain
  <2>3. j \in Running /\ j.at = "check" /\ j.run = job[p].run /\ j.since = job[p].since /\ j.alone = job[p].alone
        /\ j.left = job[p].left /\ j.copied = job[p].copied
    BY <2>f DEF Running
  <2>4. Ru!Becomes(p, j)
    BY <1>6, <2>2 DEF Ru!NoteBackup, Ru!Goes
  <2>. HIDE DEF j
  <2>5. Moves(p, j)
    BY <1>0, <1>a, <2>3, <2>4, BecomesMoves DEF RunJob
  <2>6. job[p].left # << >>
    BY <1>0, <1>a, <2>1 DEF RunIds
  <2>7. Staging(p)'
    BY <1>0, <2>1, <2>3, <2>5 DEF Staging, Moves, Keeps, Ru!Process
  <2>8. ReplicateKnows(p)'
    BY <1>0, <2>1, <2>3, <2>5 DEF ReplicateKnows, Logged, Moves, Runs
  <2>. QED
    BY <1>a, <1>t, <2>1, <2>3, <2>5, <2>6, <2>7, <2>8, ReplicatorGoes
<1>7. CASE Ru!Check(p)
  <2>1. /\ job[p].at = "check" /\ Runs(p)
        /\ UNCHANGED <<db, lock, pend, log, moved, enforce, runs, faults>>
    BY <1>7 DEF Ru!Check, Ru!At, Runs
  <2>f. job[p] \in Running
    BY <1>0, <1>a, <2>1, RunFields
  <2>. DEFINE c == IF staged.content \in {NoFile, Part} THEN Empty ELSE staged.content
              g == [content |-> Empty, by |-> p]
  <2>. DEFINE j == [at |-> "ship", run |-> job[p].run, left |-> job[p].left, dry |-> job[p].dry, since |-> job[p].since,
                    alone |-> job[p].alone, copied |-> job[p].copied, read |-> {c}, says |-> job[p].says]
  <2>2. [job[p] EXCEPT !.at = "ship", !.read = {c}] = j
    <3>1. [job[p] EXCEPT !.at = "ship", !.read = {c}] =
            [k \in DOMAIN job[p] |-> IF k = "read" THEN {c} ELSE IF k = "at" THEN "ship" ELSE job[p][k]]
      BY <2>f, RunDomain
    <3>. QED
      BY <2>f, <3>1, RunDomain
  <2>3. j.at = "ship" /\ j.run = job[p].run /\ j.since = job[p].since /\ j.alone = job[p].alone
        /\ j.left = job[p].left /\ j.read = {c}
    OBVIOUS
  <2>g. g \in [content : Ru!Content \cup {NoFile}, by : Replicator \cup {None}] /\ c \in Ru!Content
        /\ (staged.content \in Ru!Version => c = staged.content)
    BY <1>t, RunConstants
  <2>. HIDE DEF c
  <2>h. j \in Running
    BY <2>f, <2>g DEF Running
  <2>. HIDE DEF j, g
  <2>4. Ru!Stages(p, j, g) \/ (Ru!Becomes(p, j) /\ UNCHANGED staged)
    BY <1>7, <2>2 DEF Ru!Check, c, g
  <2>5. Moves(p, j) /\ staged' \in [content : Ru!Content \cup {NoFile}, by : Replicator \cup {None}]
    BY <1>0, <1>a, <1>t, <2>h, <2>4, <2>g, StagesMoves, BecomesMoves DEF RunJob
  <2>6. job[p].left # << >>
    BY <1>0, <1>a, <2>1 DEF RunIds
  <2>7. Staging(p)'
    <3>1. job[p].copied \in Ru!Version
      BY <2>f DEF Running
    <3>2. job[p].alone => c \in Ru!Version /\ c >= job[p].since
      BY <1>0, <2>1, <2>g, <3>1 DEF Staging
    <3>. QED
      BY <1>0, <2>1, <2>3, <2>5, <3>2 DEF Staging, Moves, Keeps, Ru!Process
  <2>8. ReplicateKnows(p)'
    BY <1>0, <2>1, <2>3, <2>5 DEF ReplicateKnows, Logged, Moves, Runs
  <2>. QED
    BY <1>a, <1>t, <2>1, <2>3, <2>5, <2>h, <2>6, <2>7, <2>8, ReplicatorGoes
<1>8. CASE Ru!SnapshotFails(p)
  <2>1. /\ job[p].at \in {"copy", "copying", "note", "check"} /\ Runs(p) /\ faults' \in Nat
        /\ UNCHANGED <<db, staged, lock, pend, log, moved, enforce, runs>>
    BY <1>8, <1>t DEF Ru!SnapshotFails, Ru!NoSnapshot, Ru!At, Runs
  <2>f. job[p] \in Running
    BY <1>0, <1>a, <2>1, RunFields
  <2>. DEFINE j == [at |-> "record", run |-> job[p].run, left |-> job[p].left, dry |-> job[p].dry, since |-> job[p].since,
                    alone |-> job[p].alone, copied |-> job[p].copied, read |-> job[p].read, says |-> "failed"]
  <2>2. [job[p] EXCEPT !.at = "record", !.says = "failed"] = j
    <3>1. [job[p] EXCEPT !.at = "record", !.says = "failed"] =
            [k \in DOMAIN job[p] |-> IF k = "says" THEN "failed" ELSE IF k = "at" THEN "record" ELSE job[p][k]]
      BY <2>f, RunDomain
    <3>. QED
      BY <2>f, <3>1, RunDomain
  <2>3. j \in Running /\ j.at = "record" /\ j.run = job[p].run /\ j.since = job[p].since /\ j.alone = job[p].alone
        /\ j.left = job[p].left
    BY <2>f DEF Running
  <2>4. Ru!Becomes(p, j)
    BY <1>8, <2>2 DEF Ru!SnapshotFails
  <2>. HIDE DEF j
  <2>5. Moves(p, j)
    BY <1>0, <1>a, <2>3, <2>4, BecomesMoves DEF RunJob
  <2>6. job[p].left # << >>
    BY <1>0, <1>a, <2>1 DEF RunIds
  <2>7. Staging(p)'
    BY <1>0, <2>1, <2>3, <2>5 DEF Staging, Moves, Keeps, Ru!Process
  <2>8. ReplicateKnows(p)'
    BY <1>0, <2>1, <2>3, <2>5 DEF ReplicateKnows, Logged, Moves, Runs
  <2>. QED
    BY <1>a, <1>t, <2>1, <2>3, <2>5, <2>6, <2>7, <2>8, ReplicatorGoes
<1>9. CASE Ru!Ship(p)
  <2>1. /\ job[p].at = "ship" /\ Runs(p)
        /\ UNCHANGED <<db, lock, pend, log, enforce, runs, faults>>
    BY <1>9 DEF Ru!Ship, Ru!At, Runs
  <2>f. job[p] \in Running
    BY <1>0, <1>a, <2>1, RunFields
  <2>r. PICK s \in {"ok", "failed"} :
          /\ IF s = "ok" THEN Ru!Ships(p) ELSE UNCHANGED moved
          /\ \/ Ru!Stages(p, [job[p] EXCEPT !.at = "record", !.says = s, !.read = {}], Ru!Unlinked)
             \/ Ru!Becomes(p, [job[p] EXCEPT !.at = "record", !.says = s, !.read = {}]) /\ UNCHANGED staged
    BY <1>9 DEF Ru!Ship
  <2>. DEFINE j == [at |-> "record", run |-> job[p].run, left |-> job[p].left, dry |-> job[p].dry, since |-> job[p].since,
                    alone |-> job[p].alone, copied |-> job[p].copied, read |-> {}, says |-> s]
  <2>2. [job[p] EXCEPT !.at = "record", !.says = s, !.read = {}] = j
    <3>1. [job[p] EXCEPT !.at = "record", !.says = s, !.read = {}] =
            [k \in DOMAIN job[p] |-> IF k = "read" THEN {} ELSE IF k = "says" THEN s ELSE IF k = "at" THEN "record" ELSE job[p][k]]
      BY <2>f, RunDomain
    <3>. QED
      BY <2>f, <3>1, RunDomain
  <2>3. j \in Running /\ j.at = "record" /\ j.run = job[p].run /\ j.since = job[p].since /\ j.alone = job[p].alone
        /\ j.left = job[p].left /\ j.says = s
    BY <2>f DEF Running
  <2>4. Ru!Stages(p, j, Ru!Unlinked) \/ (Ru!Becomes(p, j) /\ UNCHANGED staged)
    BY <2>r, <2>2
  <2>. HIDE DEF j
  <2>5. Moves(p, j) /\ staged' \in [content : Ru!Content \cup {NoFile}, by : Replicator \cup {None}]
    BY <1>0, <1>a, <1>b, <1>t, <2>3, <2>4, StagesMoves, BecomesMoves DEF RunJob
  <2>6. job[p].left # << >>
    BY <1>0, <1>a, <2>1 DEF RunIds
  <2>7. Staging(p)'
    BY <1>0, <2>1, <2>3, <2>5 DEF Staging, Moves, Keeps, Ru!Process
  <2>8. CASE UNCHANGED moved
    <3>1. ReplicateKnows(p)'
      BY <1>0, <2>1, <2>3, <2>5, <2>8 DEF ReplicateKnows, Logged, Moves, Runs
    <3>. QED
      BY <1>a, <1>t, <2>1, <2>3, <2>5, <2>6, <2>7, <2>8, <3>1, ReplicatorGoes
  <2>9. CASE s = "ok" /\ moved' # moved
    <3>1. PICK c \in (job[p].read \cup IF Ru!Cardinality(job[p].read) = 1 THEN {} ELSE {Part}) \ {NoFile} :
            moved' = moved \cup {[run |-> job[p].run, source |-> Head(job[p].left), content |-> c,
                                  since |-> job[p].since, alone |-> job[p].alone]}
      BY <2>r, <2>9 DEF Ru!Ships, Ru!Now
    <3>. DEFINE t == [run |-> job[p].run, source |-> Head(job[p].left), content |-> c,
                      since |-> job[p].since, alone |-> job[p].alone]
    <3>2. c \in Ru!Content \cup {None}
      BY <1>t, <2>f, <3>1 DEF Running
    <3>3. t \in Ru!Transfer
      BY <2>f, <2>6, <3>2 DEF Ru!Transfer, Running
    <3>4. c # None /\ job[p].alone => c \in Ru!Version /\ c >= job[p].since
      <4>. SUFFICES ASSUME c # None, job[p].alone PROVE c \in Ru!Version /\ c >= job[p].since
        OBVIOUS
      <4>1. job[p].read = {None} \/ \E v \in Ru!Version : v >= job[p].since /\ job[p].read = {v}
        BY <1>0, <2>1 DEF Staging
      <4>2. Ru!Cardinality(job[p].read) = 1
        BY <4>1, RunOne
      <4>. QED
        BY <3>1, <4>1, <4>2
    <3>5. t.source \in Outside => Logged(t.run, t.source, "refused") /\ ~enforce
      BY <1>0, <2>1 DEF ReplicateKnows
    <3>6. t.run = job[p].run /\ t.source = Head(job[p].left) /\ t.content = c /\ t.alone = job[p].alone /\ t.since = job[p].since
          /\ moved' = moved \cup {t}
      BY <3>1
    <3>. HIDE DEF t
    <3>7. ReplicateKnows(p)'
      <4>1. \A x \in moved : x.run = job[p].run => Logged(x.run, x.source, "ok")
        BY <1>0, <2>1 DEF ReplicateKnows
      <4>2. \A r, x, y : Logged(r, x, y)' <=> Logged(r, x, y)
        BY <2>1 DEF Logged
      <4>3. job'[p] = j
        BY <2>5 DEF Moves
      <4>4. Logged(job[p].run, None, "start") /\ ~Logged(job[p].run, None, "end")
        BY <1>0, <2>1 DEF ReplicateKnows
      <4>. QED
        BY <2>1, <2>3, <2>9, <3>6, <4>1, <4>2, <4>3, <4>4 DEF ReplicateKnows
    <3>8. moved \subseteq moved' /\ \A x \in moved' \ moved : x = t
      BY <3>6
    <3>. QED
      BY <1>a, <1>t, <2>1, <2>3, <2>5, <2>6, <2>7, <3>3, <3>4, <3>5, <3>6, <3>7, <3>8, ReplicatorGoes
  <2>. QED
    BY <2>r, <2>8, <2>9
<1>10. CASE Ru!Record(p)
  <2>1. /\ job[p].at = "record" /\ Runs(p)
        /\ log' = log \cup {[run |-> job[p].run, source |-> Head(job[p].left), says |-> job[p].says]}
        /\ UNCHANGED <<db, staged, lock, pend, moved, enforce, runs, faults>>
    BY <1>10 DEF Ru!Record, Ru!At, Runs, Ru!Commits, Ru!RowOf, Ru!Now
  <2>f. job[p] \in Running
    BY <1>0, <1>a, <2>1, RunFields
  <2>6. job[p].left # << >>
    BY <1>0, <1>a, <2>1 DEF RunIds
  <2>l. Tail(job[p].left) \in Seq(Sources) /\ Head(job[p].left) \in Sources
    BY <2>f, <2>6 DEF Running
  <2>k. PICK l \in Seq(Sources) : l = Tail(job[p].left)
    BY <2>l
  <2>. DEFINE j == [at |-> "source", run |-> job[p].run, left |-> l, dry |-> job[p].dry, since |-> job[p].since,
                    alone |-> job[p].alone, copied |-> job[p].copied, read |-> job[p].read, says |-> job[p].says]
  <2>2. [job[p] EXCEPT !.at = "source", !.left = l] = j
    <3>1. [job[p] EXCEPT !.at = "source", !.left = l] =
            [k \in DOMAIN job[p] |-> IF k = "left" THEN l ELSE IF k = "at" THEN "source" ELSE job[p][k]]
      BY <2>f, RunDomain
    <3>. QED
      BY <2>f, <3>1, RunDomain
  <2>3. j \in Running /\ j.at = "source" /\ j.run = job[p].run /\ j.since = job[p].since /\ j.alone = job[p].alone
    BY <2>f, <2>l DEF Running
  <2>4. Ru!Becomes(p, j)
    BY <1>10, <2>2, <2>k DEF Ru!Record
  <2>. HIDE DEF j
  <2>5. Moves(p, j)
    BY <1>0, <1>a, <2>3, <2>4, BecomesMoves DEF RunJob
  <2>7. Staging(p)'
    BY <1>0, <2>1, <2>3, <2>5 DEF Staging, Moves, Keeps, Ru!Process
  <2>. DEFINE w == [run |-> job[p].run, source |-> Head(job[p].left), says |-> job[p].says]
  <2>9. w \in Ru!Row /\ w.run = job[p].run /\ w.says \in {"ok", "failed"}
    BY <2>f, <2>l DEF Ru!Row, Running
  <2>8. ReplicateKnows(p)'
    <3>1. ASSUME NEW t \in moved, t.run = job[p].run PROVE Logged(t.run, t.source, "ok")'
      <4>1. CASE Logged(t.run, t.source, "ok")
        BY <2>1, <4>1 DEF Logged
      <4>2. CASE ~Logged(t.run, t.source, "ok")
        BY <1>0, <2>1, <3>1, <4>2 DEF Logged, ReplicateKnows
      <4>. QED
        BY <4>1, <4>2
    <3>2. job'[p] = j
      BY <2>5 DEF Moves
    <3>3. Logged(job[p].run, None, "start") /\ ~Logged(job[p].run, None, "end")
      BY <1>0, <2>1 DEF ReplicateKnows
    <3>4. w \in log' /\ \A x \in log' : x \in log \/ x.says \in {"ok", "failed"}
      BY <2>1, <2>9
    <3>. HIDE DEF w
    <3>. QED
      BY <2>1, <2>3, <3>1, <3>2, <3>3, <3>4 DEF ReplicateKnows, Logged
  <2>10. log \subseteq log' /\ \A x \in log' \ log : x \in Ru!Row /\ x.run = job[p].run /\ x.says \notin {"start", "end"}
    BY <2>1, <2>9
  <2>. QED
    BY <1>a, <1>t, <2>1, <2>3, <2>5, <2>7, <2>8, <2>10, ReplicatorGoes
<1>i. Ru!Idle \in RunJob
  BY DEF RunJob, Ru!Idle
<1>11. CASE Ru!EndReplicate(p)
  <2>1. /\ job[p].at = "source" /\ Runs(p) /\ Ru!Becomes(p, Ru!Idle)
        /\ log' = log \cup {[run |-> job[p].run, source |-> None, says |-> "end"]}
        /\ UNCHANGED <<db, staged, lock, pend, moved, enforce, runs, faults>>
    BY <1>11 DEF Ru!EndReplicate, Ru!At, Runs, Ru!Commits, Ru!Mark
  <2>2. Moves(p, Ru!Idle)
    BY <1>0, <1>a, <1>i, <2>1, BecomesMoves
  <2>. QED
    BY <1>t, <2>1, <2>2, ReplicatorStops
<1>12. CASE Ru!ReplicateRaises(p)
  <2>1. /\ Runs(p) /\ faults' \in Nat
        /\ Ru!Stages(p, Ru!Idle, Ru!Unlinked) \/ (Ru!Becomes(p, Ru!Idle) /\ UNCHANGED staged)
        /\ UNCHANGED <<db, lock, pend, log, moved, enforce, runs>>
    BY <1>12, <1>t DEF Ru!ReplicateRaises, Ru!At, Runs
  <2>2. Moves(p, Ru!Idle) /\ staged' \in [content : Ru!Content \cup {NoFile}, by : Replicator \cup {None}]
    BY <1>0, <1>a, <1>b, <1>i, <1>t, <2>1, StagesMoves, BecomesMoves
  <2>. QED
    BY <2>1, <2>2, ReplicatorStops
<1>13. CASE Ru!Kill(p)
  <2>1. /\ job[p] # Ru!Idle /\ faults' \in Nat /\ Ru!Becomes(p, Ru!Idle)
        /\ UNCHANGED <<db, staged, lock, pend, log, moved, enforce, runs>>
    BY <1>13, <1>t DEF Ru!Kill
  <2>2. Moves(p, Ru!Idle)
    BY <1>0, <1>a, <1>i, <2>1, BecomesMoves
  <2>3. Runs(p)
    <3>1. job[p] \in RunJob
      BY <1>0, <1>a DEF RunTypes
    <3>2. job[p].at = "idle" => job[p] = Ru!Idle
      BY <3>1 DEF RunJob, Running, Ru!Idle
    <3>. QED
      BY <2>1, <3>2 DEF Runs
  <2>. QED
    BY <1>t, <2>1, <2>2, <2>3, ReplicatorStops
<1>. QED
  BY <1>1, <1>2, <1>3, <1>4, <1>5, <1>6, <1>7, <1>8, <1>9, <1>10, <1>11, <1>12, <1>13 DEF Ru!Replicate

(* What an archive run does leaves the replicate runs alone.                  *)
LEMMA ArchiveElse ==
  ASSUME RunInv, NEW p \in Archiver, NEW j, Ru!Becomes(p, j), UNCHANGED <<db, staged, enforce>>,
         log \subseteq log', moved \subseteq moved',
         \A q \in Replicator : Runs(q) =>
           /\ \A w \in log' \ log : w.run # job[q].run
           /\ \A t \in moved' \ moved : t.run # job[q].run
  PROVE  \A q \in Replicator : Staging(q)' /\ ReplicateKnows(q)'
<1>. SUFFICES ASSUME NEW q \in Replicator PROVE Staging(q)' /\ ReplicateKnows(q)'
  OBVIOUS
<1>1. Staging(q) /\ ReplicateKnows(q)
  BY DEF RunInv
<1>2. \A r \in Replicator : job'[r] = job[r]
  BY RunConstants DEF RunInv, RunTypes, Ru!Becomes, Ru!Process
<1>3. Staging(q)'
  BY <1>1, <1>2 DEF Staging, Runs
<1>4. ReplicateKnows(q)'
  <2>. SUFFICES ASSUME Runs(q) PROVE ReplicateKnows(q)'
    BY <1>2 DEF ReplicateKnows, Runs
  <2>1. \A s, says : Logged(job[q].run, s, says)' <=> Logged(job[q].run, s, says)
    BY <1>2 DEF Logged
  <2>2. \A t \in moved' : t.run = job[q].run => t \in moved
    OBVIOUS
  <2>. QED
    BY <1>1, <1>2, <2>1, <2>2 DEF ReplicateKnows
<1>. QED
  BY <1>3, <1>4

(* The write lock has one holder. *)
LEMMA OneArchiver ==
  ASSUME RunInv, NEW p \in Archiver, lock \in {None, p}
  PROVE  \A q \in Archiver : q # p => ~Runs(q)
<1>1. None \notin Archiver
  BY RunConstants DEF Ru!Process
<1>. QED
  BY <1>1 DEF RunInv, ArchiveKnows

(* One run of archive: of its rows none is in the log before its last step.   *)
LEMMA ArchiveSteps ==
  ASSUME RunInv, NEW p \in Archiver, Ru!Archive(p)
  PROVE  RunInv'
<1>0. /\ RunTypes /\ RunIds /\ Accounted /\ Ru!ShippedIsChecked
      /\ \A q \in Replicator : Staging(q) /\ ReplicateKnows(q)
      /\ \A q \in Archiver : ArchiveKnows(q)
  BY DEF RunInv
<1>a. p \in Ru!Process /\ Replicator \subseteq Ru!Process /\ Archiver \subseteq Ru!Process /\ p \notin Replicator
  BY RunConstants DEF Ru!Process
<1>t. /\ db \in Ru!Version /\ faults \in Nat /\ pend \cup log \subseteq Ru!Row /\ moved \subseteq Ru!Transfer
      /\ lock \in Archiver \cup {None} /\ runs \in 0..MaxRuns /\ staged \in [content : Ru!Content \cup {NoFile}, by : Replicator \cup {None}]
      /\ enforce \in BOOLEAN
  BY <1>0 DEF RunTypes
<1>i. Ru!Idle \in RunJob /\ Ru!Idle.at = "idle"
  BY DEF RunJob, Ru!Idle
<1>u. \A q \in Replicator : Runs(q) => job[q].run <= runs /\ (Runs(p) => job[q].run # job[p].run)
  BY <1>0, <1>a DEF RunIds
<1>1. ASSUME NEW dry \in BOOLEAN, Ru!StartArchive(p, dry) PROVE RunInv'
  <2>. DEFINE j == [at |-> "source", run |-> runs + 1, left |-> Policy[p], dry |-> dry,
                    since |-> db, alone |-> TRUE, copied |-> 0, read |-> {}, says |-> "ok"]
              w == [run |-> runs + 1, source |-> None, says |-> "start"]
  <2>1. /\ job[p].at = "idle" /\ lock = None /\ runs < MaxRuns /\ runs' = runs + 1 /\ lock' = p /\ pend' = {w}
        /\ Ru!Becomes(p, j) /\ UNCHANGED <<db, staged, log, moved, enforce, faults>>
    BY <1>1 DEF Ru!StartArchive, Ru!At, Ru!Begun
  <2>2. runs' \in 0..MaxRuns /\ runs + 1 \in Ru!Run /\ runs \in Nat
    BY <1>t, <2>1, RunConstants DEF Ru!Run
  <2>3. j \in Running /\ j.at = "source" /\ j.run = runs + 1
    BY <1>a, <1>t, <2>2, RunConstants DEF Running
  <2>4. w \in Ru!Row /\ w.run = runs + 1
    BY <2>2 DEF Ru!Row
  <2>. HIDE DEF j, w
  <2>5. Moves(p, j)
    BY <1>0, <1>a, <2>1, <2>3, BecomesMoves DEF RunJob
  <2>6. RunTypes'
    BY <1>0, <2>1, <2>2, <2>4, <2>5 DEF RunTypes, Moves
  <2>7. \A q \in Ru!Process : q # p => (Runs(q)' <=> Runs(q)) /\ Keeps(q)
    BY <2>5 DEF Moves, Keeps, Runs
  <2>8. RunIds'
    <3>1. job'[p] = j
      BY <2>5 DEF Moves
    <3>2. ASSUME NEW q \in Ru!Process, Runs(q)'
          PROVE  /\ job'[q].run <= runs'
                 /\ job'[q].at # "source" => job'[q].left # << >>
                 /\ job'[q].run = runs + 1 => q = p
      <4>1. CASE q = p
        BY <2>1, <2>2, <2>3, <3>1, <4>1
      <4>2. CASE q # p
        <5>1. job[q] \in Running /\ job[q].run \in Ru!Run
          BY <1>0, <2>7, <3>2, <4>2, RunFields DEF Running
        <5>. QED
          BY <1>0, <2>1, <2>2, <2>7, <3>2, <4>2, <5>1 DEF RunIds, Keeps, Ru!Run
      <4>. QED
        BY <4>1, <4>2
    <3>3. ASSUME NEW q \in Ru!Process, NEW r \in Ru!Process, Runs(q)', Runs(r)', job'[q].run = job'[r].run PROVE q = r
      <4>1. CASE q = p \/ r = p
        BY <2>3, <3>1, <3>2, <3>3, <4>1
      <4>2. CASE q # p /\ r # p
        BY <1>0, <2>7, <3>3, <4>2 DEF RunIds, Keeps
      <4>. QED
        BY <4>1, <4>2
    <3>4. ASSUME NEW x \in (moved \cup pend \cup log)' PROVE x.run <= runs'
      <4>1. CASE x \in moved \cup log
        <5>1. x.run <= runs /\ x.run \in Ru!Run
          BY <1>0, <1>t, <4>1 DEF RunIds, Ru!Row, Ru!Transfer
        <5>. QED
          BY <2>1, <2>2, <5>1 DEF Ru!Run
      <4>2. CASE x \in pend'
        BY <2>1, <2>2, <2>4, <4>2
      <4>. QED
        BY <2>1, <4>1, <4>2
    <3>. QED
      BY <3>2, <3>3, <3>4 DEF RunIds
  <2>9. Accounted' /\ Ru!ShippedIsChecked'
    BY <1>0, <2>1 DEF Accounted, Logged, Ru!ShippedIsChecked
  <2>10. \A q \in Replicator : Staging(q)' /\ ReplicateKnows(q)'
    BY <2>1, ArchiveElse
  <2>11. ASSUME NEW q \in Archiver PROVE ArchiveKnows(q)'
    <3>1. CASE q = p
      <4>1. job'[p] = j
        BY <2>5 DEF Moves
      <4>2. \A x \in moved \cup log : x.run # runs + 1
        BY <1>0, <1>t, <2>2 DEF RunIds, Ru!Row, Ru!Transfer, Ru!Run
      <4>. QED
        BY <2>1, <2>3, <2>4, <3>1, <4>1, <4>2 DEF ArchiveKnows
    <3>2. CASE q # p
      BY <1>a, <2>1, <2>7, <3>2, OneArchiver DEF ArchiveKnows
    <3>. QED
      BY <3>1, <3>2
  <2>. QED
    BY <2>6, <2>8, <2>9, <2>10, <2>11 DEF RunInv
<1>2. CASE Ru!ArchiveSource(p)
  <2>1. /\ job[p].at = "source" /\ job[p].left # << >> /\ Runs(p)
        /\ UNCHANGED <<db, staged, lock, log, enforce, runs, faults>>
    BY <1>2 DEF Ru!ArchiveSource, Ru!At, Runs
  <2>f. job[p] \in Running
    BY <1>0, <1>a, <2>1, RunFields
  <2>l. Tail(job[p].left) \in Seq(Sources) /\ Head(job[p].left) \in Sources
    BY <2>1, <2>f DEF Running
  <2>k. PICK l \in Seq(Sources) : l = Tail(job[p].left)
    BY <2>l
  <2>s. PICK s \in Sources : s = Head(job[p].left)
    BY <2>l
  <2>. DEFINE row(x) == [run |-> job[p].run, source |-> s, says |-> x]
              t == [run |-> job[p].run, source |-> s, content |-> None, since |-> job[p].since, alone |-> TRUE]
              j == [at |-> job[p].at, run |-> job[p].run, left |-> l, dry |-> job[p].dry, since |-> job[p].since,
                    alone |-> job[p].alone, copied |-> job[p].copied, read |-> job[p].read, says |-> job[p].says]
  <2>2. [job[p] EXCEPT !.left = l] = j
    <3>1. [job[p] EXCEPT !.left = l] = [k \in DOMAIN job[p] |-> IF k = "left" THEN l ELSE job[p][k]]
      BY <2>f, RunDomain
    <3>. QED
      BY <2>f, <3>1, RunDomain
  <2>3. j \in Running /\ j.at = "source" /\ j.run = job[p].run
    BY <2>1, <2>f DEF Running
  <2>4. Ru!Becomes(p, j)
    BY <1>2, <2>2, <2>k DEF Ru!ArchiveSource
  <2>5. PICK says \in {"ok", "failed"} :
          /\ says = "ok" => ~(s \in Outside /\ enforce)
          /\ pend' = pend \cup {row(says)} \cup IF s \in Outside THEN {row("refused")} ELSE {}
          /\ moved' = IF says = "ok" /\ ~job[p].dry THEN moved \cup {t} ELSE moved
    BY <1>2, <2>s DEF Ru!ArchiveSource, Ru!Now, Ru!RowOf
  <2>6. \A x \in {"ok", "failed", "refused"} : row(x) \in Ru!Row /\ row(x).run = job[p].run
    BY <2>f DEF Ru!Row, Running
  <2>7. t \in Ru!Transfer /\ t.run = job[p].run /\ t.content = None /\ t.source = s
    BY <2>f DEF Ru!Transfer, Running
  <2>. HIDE DEF j
  <2>8. Moves(p, j)
    BY <1>0, <1>a, <2>3, <2>4, BecomesMoves DEF RunJob
  <2>9. \A q \in Ru!Process : q # p => (Runs(q)' <=> Runs(q)) /\ Keeps(q)
    BY <2>8 DEF Moves, Keeps, Runs
  <2>j. job'[p] = j /\ Runs(p)'
    BY <2>3, <2>8 DEF Moves, Runs
  <2>10. pend' \subseteq pend \cup {row("ok"), row("failed"), row("refused")} /\ moved \subseteq moved' /\ moved' \subseteq moved \cup {t}
    BY <2>5
  <2>11. pend' \subseteq Ru!Row /\ moved' \subseteq Ru!Transfer /\ (\A x \in pend' \ pend : x.run = job[p].run)
         /\ \A x \in moved' \ moved : x.run = job[p].run /\ x.content = None
    BY <1>t, <2>6, <2>7, <2>10
  <2>12. RunTypes'
    BY <1>0, <2>1, <2>8, <2>11 DEF RunTypes, Moves
  <2>13. RunIds'
    <3>1. \A q \in Ru!Process : Runs(q)' => Runs(q) /\ job'[q].run = job[q].run /\ (job'[q].at # "source" => job'[q].left # << >>)
      BY <1>0, <2>1, <2>3, <2>9, <2>j DEF RunIds, Keeps
    <3>2. \A x \in (moved \cup pend \cup log)' : x.run <= runs
      BY <1>0, <1>a, <2>1, <2>11 DEF RunIds
    <3>. QED
      BY <1>0, <2>1, <3>1, <3>2 DEF RunIds
  <2>14. \A x \in log : x.run # job[p].run
    BY <1>0, <2>1 DEF ArchiveKnows
  <2>15. Accounted'
    <3>1. \A r, x, says2 : Logged(r, x, says2)' <=> Logged(r, x, says2)
      BY <2>1 DEF Logged
    <3>2. \A x, says2 : ~Logged(job[p].run, x, says2)
      BY <2>14 DEF Logged
    <3>3. \A x \in moved' : x \in moved \/ x.run = job[p].run
      BY <2>11
    <3>. QED
      BY <1>0, <2>1, <3>1, <3>2, <3>3 DEF Accounted
  <2>16. Ru!ShippedIsChecked'
    BY <1>0, <2>11 DEF Ru!ShippedIsChecked
  <2>17. \A q \in Replicator : Staging(q)' /\ ReplicateKnows(q)'
    BY <1>u, <2>1, <2>4, <2>10, <2>11, ArchiveElse
  <2>18. ASSUME NEW q \in Archiver PROVE ArchiveKnows(q)'
    <3>1. CASE q = p
      <4>1. ASSUME NEW x \in moved', x.run = job[p].run
            PROVE  /\ [run |-> x.run, source |-> x.source, says |-> "ok"] \in pend'
                   /\ x.source \in Outside => [run |-> x.run, source |-> x.source, says |-> "refused"] \in pend' /\ ~enforce
        <5>1. CASE x \in moved
          BY <1>0, <2>1, <2>5, <4>1, <5>1 DEF ArchiveKnows
        <5>2. CASE x \notin moved
          <6>1. x = t /\ says = "ok"
            BY <2>5, <4>1, <5>2
          <6>2. [run |-> x.run, source |-> x.source, says |-> "ok"] = row("ok") /\ [run |-> x.run, source |-> x.source, says |-> "refused"] = row("refused")
            BY <2>7, <6>1
          <6>. QED
            BY <2>5, <2>7, <6>1, <6>2
        <5>. QED
          BY <5>1, <5>2
      <4>. QED
        BY <1>0, <2>1, <2>3, <2>11, <2>14, <2>j, <3>1, <4>1 DEF ArchiveKnows
    <3>2. CASE q # p
      <4>1. ~Runs(q)
        BY <1>0, <2>1, <3>2 DEF ArchiveKnows
      <4>. QED
        BY <1>a, <2>9, <3>2, <4>1 DEF ArchiveKnows
    <3>. QED
      BY <3>1, <3>2
  <2>. QED
    BY <2>12, <2>13, <2>15, <2>16, <2>17, <2>18 DEF RunInv
<1>3. CASE Ru!EndArchive(p)
  <2>. DEFINE w == [run |-> job[p].run, source |-> None, says |-> "end"]
  <2>1. /\ job[p].at = "source" /\ Runs(p) /\ Ru!Becomes(p, Ru!Idle)
        /\ log' = log \cup pend \cup {w} /\ pend' = {} /\ lock' = None
        /\ UNCHANGED <<db, staged, moved, enforce, runs, faults>>
    BY <1>3 DEF Ru!EndArchive, Ru!At, Runs, Ru!Mark
  <2>f. job[p] \in Running
    BY <1>0, <1>a, <2>1, RunFields
  <2>2. Moves(p, Ru!Idle)
    BY <1>0, <1>a, <1>i, <2>1, BecomesMoves
  <2>3. ~Runs(p)' /\ \A q \in Ru!Process : q # p => (Runs(q)' <=> Runs(q)) /\ Keeps(q)
    BY <1>i, <2>2 DEF Moves, Keeps, Runs
  <2>4. /\ lock = p /\ \A x \in log : x.run # job[p].run
        /\ \A x \in pend : x.run = job[p].run
        /\ \A t \in moved : t.run = job[p].run =>
             /\ [run |-> t.run, source |-> t.source, says |-> "ok"] \in pend
             /\ t.source \in Outside => [run |-> t.run, source |-> t.source, says |-> "refused"] \in pend /\ ~enforce
    BY <1>0, <2>1 DEF ArchiveKnows
  <2>5. w \in Ru!Row /\ w.run = job[p].run /\ job[p].run <= runs
    BY <1>0, <1>a, <2>1, <2>f DEF Ru!Row, Running, RunIds
  <2>. HIDE DEF w
  <2>6. log \subseteq log' /\ log' \subseteq Ru!Row /\ (\A x \in log' \ log : x.run = job[p].run) /\ pend \subseteq log'
    BY <1>t, <2>1, <2>4, <2>5
  <2>7. RunTypes'
    BY <1>0, <2>1, <2>2, <2>6 DEF RunTypes, Moves
  <2>8. RunIds'
    <3>1. \A q \in Ru!Process : Runs(q)' => Runs(q) /\ Keeps(q)
      BY <2>3
    <3>2. \A x \in (moved \cup pend \cup log)' : x.run <= runs
      BY <1>0, <2>1, <2>5, <2>6 DEF RunIds
    <3>. QED
      BY <1>0, <2>1, <3>1, <3>2 DEF RunIds, Keeps
  <2>9. Accounted'
    <3>1. \A r, s, says : Logged(r, s, says) => Logged(r, s, says)'
      BY <2>6 DEF Logged
    <3>2. \A r, s, says : Logged(r, s, says)' => Logged(r, s, says) \/ r = job[p].run
      BY <2>6 DEF Logged
    <3>3. \A t \in moved : t.run = job[p].run =>
            Logged(t.run, t.source, "ok")' /\ (t.source \in Outside => Logged(t.run, t.source, "refused")' /\ ~enforce)
      BY <2>4, <2>6 DEF Logged
    <3>4. ASSUME NEW t \in moved, NEW u \in moved, t.run = u.run, Logged(t.run, None, "start")',
                 ~Logged(t.run, t.source, "ok")', ~Logged(u.run, u.source, "ok")'
          PROVE  t = u
      BY <1>0, <3>1, <3>2, <3>3, <3>4 DEF Accounted
    <3>5. ASSUME NEW t \in moved
          PROVE  /\ Logged(t.run, None, "end")' => Logged(t.run, t.source, "ok")'
                 /\ Logged(t.run, None, "start")' /\ t.source \in Outside => Logged(t.run, t.source, "refused")' /\ ~enforce'
      BY <1>0, <2>1, <3>1, <3>2, <3>3 DEF Accounted
    <3>. QED
      BY <2>1, <3>4, <3>5 DEF Accounted
  <2>10. Ru!ShippedIsChecked'
    BY <1>0, <2>1 DEF Ru!ShippedIsChecked
  <2>11. \A q \in Replicator : Staging(q)' /\ ReplicateKnows(q)'
    BY <1>u, <2>1, <2>6, ArchiveElse
  <2>12. ASSUME NEW q \in Archiver PROVE ArchiveKnows(q)'
    <3>1. ~Runs(q)'
      BY <1>0, <1>a, <2>3, <2>4, OneArchiver
    <3>. QED
      BY <3>1 DEF ArchiveKnows
  <2>. QED
    BY <2>7, <2>8, <2>9, <2>10, <2>11, <2>12 DEF RunInv
<1>4. CASE Ru!ArchiveRaises(p)
  <2>1. /\ job[p].at = "source" /\ Runs(p) /\ Ru!Becomes(p, Ru!Idle) /\ faults' \in Nat
        /\ pend' = {} /\ lock' = None
        /\ UNCHANGED <<db, staged, log, moved, enforce, runs>>
    BY <1>4, <1>t DEF Ru!ArchiveRaises, Ru!At, Runs
  <2>2. Moves(p, Ru!Idle)
    BY <1>0, <1>a, <1>i, <2>1, BecomesMoves
  <2>3. ~Runs(p)' /\ \A q \in Ru!Process : q # p => (Runs(q)' <=> Runs(q)) /\ Keeps(q)
    BY <1>i, <2>2 DEF Moves, Keeps, Runs
  <2>4. lock = p
    BY <1>0, <2>1 DEF ArchiveKnows
  <2>7. RunTypes'
    BY <1>0, <2>1, <2>2 DEF RunTypes, Moves
  <2>8. RunIds'
    <3>1. \A q \in Ru!Process : Runs(q)' => Runs(q) /\ Keeps(q)
      BY <2>3
    <3>2. \A x \in (moved \cup pend \cup log)' : x.run <= runs
      BY <1>0, <2>1 DEF RunIds
    <3>. QED
      BY <1>0, <2>1, <3>1, <3>2 DEF RunIds, Keeps
  <2>9. Accounted' /\ Ru!ShippedIsChecked'
    BY <1>0, <2>1 DEF Accounted, Logged, Ru!ShippedIsChecked
  <2>11. \A q \in Replicator : Staging(q)' /\ ReplicateKnows(q)'
    BY <2>1, ArchiveElse
  <2>12. ASSUME NEW q \in Archiver PROVE ArchiveKnows(q)'
    <3>1. ~Runs(q)'
      BY <1>0, <1>a, <2>3, <2>4, OneArchiver
    <3>. QED
      BY <3>1 DEF ArchiveKnows
  <2>. QED
    BY <2>7, <2>8, <2>9, <2>11, <2>12 DEF RunInv
<1>. QED
  BY <1>1, <1>2, <1>3, <1>4 DEF Ru!Archive

(* Any step of the runners. *)
LEMMA RunStep == RunInv /\ [Ru!Next]_Ru!vars => RunInv'
<1>. SUFFICES ASSUME RunInv, [Ru!Next]_Ru!vars PROVE RunInv'
  OBVIOUS
<1>1. ASSUME NEW p \in Replicator, Ru!Replicate(p) \/ Ru!Kill(p) PROVE RunInv'
  BY <1>1, ReplicateSteps
<1>2. ASSUME NEW p \in Archiver, Ru!Archive(p) PROVE RunInv'
  BY <1>2, ArchiveSteps
<1>3. CASE Ru!Write
  <2>1. db' = db + 1 /\ db < MaxWrites /\ UNCHANGED <<staged, lock, job, pend, log, moved, enforce, runs, faults>>
    BY <1>3 DEF Ru!Write
  <2>2. db \in Nat /\ db' \in Ru!Version
    BY <2>1, RunConstants DEF RunInv, RunTypes, Ru!Version
  <2>3. \A p \in Replicator : Runs(p) => job[p].since \in Nat
    BY RunFields DEF RunInv, Running, Ru!Version, Ru!Process
  <2>4. \A p \in Replicator : Staging(p) => Staging(p)'
    BY <2>1, <2>2, <2>3 DEF Staging, Runs
  <2>5. RunTypes'
    BY <2>1, <2>2 DEF RunInv, RunTypes
  <2>. QED
    BY <2>1, <2>4, <2>5 DEF RunInv, RunIds, Accounted, Ru!ShippedIsChecked, ReplicateKnows, ArchiveKnows, Logged, Runs
<1>4. CASE UNCHANGED Ru!vars
  BY <1>4 DEF Ru!vars, RunInv, RunTypes, RunIds, Accounted, Ru!ShippedIsChecked, Staging, ReplicateKnows, ArchiveKnows, Logged, Runs
<1>. QED
  BY <1>1, <1>2, <1>3, <1>4 DEF Ru!Next

LEMMA RunAttested == RunInv => Ru!TransfersAttested
<1>. SUFFICES ASSUME RunInv, NEW r \in 1..runs
              PROVE  /\ Ru!Ended(r) => Ru!Unrecorded(r) = {}
                     /\ [run |-> r, source |-> None, says |-> "start"] \in log =>
                          /\ Ru!Cardinality(Ru!Unrecorded(r)) <= 1
                          /\ \A t \in moved : t.run = r /\ t.source \in Outside => Ru!RowFor(t, "refused") /\ ~enforce
  BY DEF Ru!TransfersAttested
<1>1. Accounted
  BY DEF RunInv
<1>2. Ru!Ended(r) => Ru!Unrecorded(r) = {}
  BY <1>1 DEF Accounted, Logged, Ru!Ended, Ru!Unrecorded, Ru!RowFor
<1>3. ASSUME Logged(r, None, "start")
      PROVE  /\ \A x, y \in Ru!Unrecorded(r) : x = y
             /\ \A t \in moved : t.run = r /\ t.source \in Outside => Ru!RowFor(t, "refused") /\ ~enforce
  BY <1>1, <1>3 DEF Accounted, Logged, Ru!Unrecorded, Ru!RowFor
<1>. QED
  BY <1>2, <1>3, RunOne DEF Logged

-----------------------------------------------------------------------------
(* The whole composition: a component's state is touched by its own steps.    *)
HostsInv == SyncInv /\ RunInv

LEMMA HostsSteps ==
  [HostsNext]_<<subject, vars, exportVars, runnerVars>> => [Next]_vars /\ [Ru!Next]_Ru!vars
<1>1. UNCHANGED runnerVars => UNCHANGED Ru!vars
  BY DEF runnerVars, Ru!vars
<1>. QED
  BY <1>1 DEF HostsNext

(* The inductive invariants of the importing machine and of the runs that     *)
(* send copies elsewhere hold together, for every overlap, kill and fault.    *)
THEOREM HostsInvariant == HostsSpec => []HostsInv
<1>1. HostsInit => HostsInv
  BY SyncInit, RunInit DEF HostsInit, HostsInv
<1>2. HostsInv /\ [HostsNext]_<<subject, vars, exportVars, runnerVars>> => HostsInv'
  BY HostsSteps, SyncStep, RunStep DEF HostsInv
<1>. QED
  BY <1>1, <1>2, PTL DEF HostsSpec

(* An attached inventory is a database its machine exported, and without      *)
(* overlapping commands the one its row names.                                *)
THEOREM AttachedGenuineHolds == HostsSpec => []AttachedGenuine
<1>1. HostsInv => AttachedGenuine
  BY SyncAttached DEF HostsInv
<1>. QED
  BY <1>1, HostsInvariant, PTL

(* A recorded pull is of the pinned machine and, without overlapping          *)
(* commands, of an inventory that was attached.                               *)
THEOREM PulledWasAttachedHolds == HostsSpec => []PulledWasAttached
<1>1. HostsInv => PulledWasAttached
  BY SyncPulled DEF HostsInv
<1>. QED
  BY <1>1, HostsInvariant, PTL

(* Where SQLite attaches the inventory of every other machine at once, apply  *)
(* acts on no permanode that others alone have had a claim for since it began.*)
THEOREM ForeignNeverAppliedHolds == ASSUME Attachable PROVE HostsSpec => ForeignNeverApplied
<1>1. HostsInit => Guarding
  BY SyncInit DEF HostsInit, Init, Idle, Guarding
<1>2. Guarding /\ HostsInv /\ [HostsNext]_<<subject, vars, exportVars, runnerVars>> => Guarding'
  BY HostsSteps, GuardStep DEF HostsInv, SyncInv
<1>3. Guarding /\ HostsInv /\ [HostsNext]_<<subject, vars, exportVars, runnerVars>> =>
        [\A p \in Proc : Execute(p) => cmd[p].rows \cap guarded[p] = {}]_vars
  BY DEF Guarding, Execute, At
<1>. QED
  BY <1>1, <1>2, <1>3, HostsInvariant, PTL DEF HostsSpec, ForeignNeverApplied

(* A replicate run that no other overlaps ships a whole copy of the database  *)
(* that is no older than the run.                                             *)
THEOREM ShippedIsCheckedHolds == HostsSpec => []ShippedIsChecked
<1>1. HostsInv => ShippedIsChecked
  BY DEF HostsInv, RunInv, ShippedIsChecked
<1>. QED
  BY <1>1, HostsInvariant, PTL

(* Of what left the host all is on record once the run has ended, and all but *)
(* the last transfer before.                                                  *)
THEOREM TransfersAttestedHolds == HostsSpec => []TransfersAttested
<1>1. HostsInv => TransfersAttested
  BY RunAttested DEF HostsInv, TransfersAttested
<1>. QED
  BY <1>1, HostsInvariant, PTL

-----------------------------------------------------------------------------
(* ExportProofs, of the exports here.                                         *)
XP == INSTANCE ExportProofs

LEMMA ExportSame ==
  /\ Ex!Init => XP!Init
  /\ [Ex!Next]_Ex!vars => [XP!Next]_XP!vars
  /\ Ex!ExportAssumption => XP!ExportAssumption
<1>1. Ex!Init => XP!Init
  BY DEF Ex!Init, XP!Init
<1>2. Ex!ExportAssumption => XP!ExportAssumption
  BY DEF Ex!ExportAssumption, XP!ExportAssumption
<1>4. Ex!ChangeDatabase => XP!ChangeDatabase
  BY DEF Ex!ChangeDatabase, XP!ChangeDatabase, Ex!files, XP!files, Ex!places, XP!places
<1>5. ASSUME NEW e \in Exporter
      PROVE  /\ Ex!Snapshot(e) => XP!Snapshot(e)
             /\ Ex!OpenPartial(e) => XP!OpenPartial(e)
             /\ Ex!ClosePartial(e) => XP!ClosePartial(e)
             /\ Ex!ClearTarget(e) => XP!ClearTarget(e)
             /\ Ex!RenamePartial(e) => XP!RenamePartial(e)
             /\ Ex!CleanUp(e) => XP!CleanUp(e)
             /\ Ex!RecordExport(e) => XP!RecordExport(e)
             /\ Ex!Kill(e) => XP!Kill(e)
             /\ Ex!Raises(e) => XP!Raises(e)
  <2>1. Ex!Snapshot(e) => XP!Snapshot(e)
    BY DEF Ex!Snapshot, XP!Snapshot, Ex!Go, XP!Go, Ex!Step, XP!Step, Ex!Under, XP!Under, Ex!files, XP!files, Ex!places, XP!places
  <2>2. Ex!OpenPartial(e) => XP!OpenPartial(e)
    BY DEF Ex!OpenPartial, XP!OpenPartial, Ex!Go, XP!Go, Ex!OpenAs, XP!OpenAs, Ex!Writers, XP!Writers
  <2>3. Ex!ClosePartial(e) => XP!ClosePartial(e)
    BY DEF Ex!ClosePartial, XP!ClosePartial, Ex!Go, XP!Go, Ex!places, XP!places
  <2>4. Ex!ClearTarget(e) => XP!ClearTarget(e)
    BY DEF Ex!ClearTarget, XP!ClearTarget, Ex!Go, XP!Go, Ex!files, XP!files
  <2>5. Ex!RenamePartial(e) => XP!RenamePartial(e)
    BY DEF Ex!RenamePartial, XP!RenamePartial, Ex!Go, XP!Go, Ex!files, XP!files, Ex!places, XP!places
  <2>6. Ex!CleanUp(e) => XP!CleanUp(e)
    BY DEF Ex!CleanUp, XP!CleanUp, Ex!Go, XP!Go, Ex!files, XP!files
  <2>7. Ex!RecordExport(e) => XP!RecordExport(e)
    BY DEF Ex!RecordExport, XP!RecordExport, Ex!Go, XP!Go, Ex!files, XP!files, Ex!places, XP!places
  <2>8. Ex!Kill(e) => XP!Kill(e)
    BY DEF Ex!Kill, XP!Kill, Ex!Go, XP!Go, Ex!Step, XP!Step, Ex!Under, XP!Under, Ex!files, XP!files, Ex!places, XP!places
  <2>9. Ex!Raises(e) => XP!Raises(e)
    BY DEF Ex!Raises, XP!Raises, Ex!Go, XP!Go, Ex!files, XP!files
  <2>. QED
    BY <2>1, <2>2, <2>3, <2>4, <2>5, <2>6, <2>7, <2>8, <2>9
<1>6. Ex!Next => XP!Next
  BY <1>4, <1>5, Zenon DEF Ex!Next, XP!Next
<1>. QED
  BY <1>1, <1>2, <1>6 DEF Ex!vars, XP!vars

(* What a reader finds at the target of a host's exports is what a publisher  *)
(* would put there (see Publisher), whoever exports at once.                  *)
THEOREM ImplementsPublisherHolds == HostsSpec => ImplementsPublisher
<1>1. HostsInit => XP!Init
  BY ExportSame DEF HostsInit
<1>2. [HostsNext]_<<subject, vars, exportVars, runnerVars>> => [XP!Next]_XP!vars
  <2>1. UNCHANGED exportVars => UNCHANGED Ex!vars
    BY DEF exportVars, Ex!vars
  <2>. QED
    BY <2>1, ExportSame DEF HostsNext
<1>3. XP!ExportAssumption
  BY ExportSame, HostsAssumption
<1>4. XP!Spec => XP!ImplementsPublisher
  BY <1>3, XP!Refines
<1>5. XP!Abstract!PublisherInit => Ex!Abstract!PublisherInit
  BY DEF XP!Abstract!PublisherInit, Ex!Abstract!PublisherInit, XP!Published, Ex!Published, XP!NoEnvelope, Ex!NoEnvelope
<1>6. [XP!Abstract!PublisherNext]_<<taken, XP!Published>> => [Ex!Abstract!PublisherNext]_<<taken, Ex!Published>>
  BY DEF XP!Abstract!PublisherNext, Ex!Abstract!PublisherNext, XP!Abstract!Snapshot, Ex!Abstract!Snapshot,
         XP!Abstract!Publish, Ex!Abstract!Publish, XP!Abstract!Withdraw, Ex!Abstract!Withdraw,
         XP!Published, Ex!Published, XP!NoEnvelope, Ex!NoEnvelope
<1>. QED
  BY <1>1, <1>2, <1>4, <1>5, <1>6, PTL DEF HostsSpec, XP!Spec, XP!ImplementsPublisher, ImplementsPublisher, Ex!ImplementsPublisher,
     XP!Abstract!PublisherSpec, Ex!Abstract!PublisherSpec
=============================================================================
