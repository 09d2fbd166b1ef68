------------------------------ MODULE HealthRelay ------------------------------
(* How the primary learns that another machine is short of space: the machine *)
(* writes latest.json beside its snapshots, a pull copies the file to the     *)
(* primary's inbox, and every report of the primary grades the copy.  The     *)
(* writers of latest.json (status --refresh, a dashboard refresh, health      *)
(* check) may overlap, and the two machines have clocks of their own.         *)
(*                                                                            *)
(* A file is an inode with a content; a name is bound to one.  The series     *)
(* snapshots.jsonl and the LATEST pointer, which no grade reads, are left out.*)
EXTENDS Naturals, FiniteSets

CONSTANTS Writer,     \* commands on the publishing machine
          Inode,      \* files that latest.json and its .tmp may be: more than writers
          NoFile,     \* no inode
          MaxAge,     \* publish.max_age_hours
          Skews,      \* how far the publisher's clock is ahead
          MaxClock,   \* bound: time
          MaxChanges, \* bound: changes of the publisher's volumes
          MaxReports  \* bound: reports written

RelayAssumption ==
  /\ NoFile \notin Inode /\ Skews \subseteq Nat
  /\ \A held \in [Writer -> Inode \cup {NoFile}] : \E i \in Inode : \A w \in Writer : held[w] # i
  /\ {MaxAge, MaxClock, MaxChanges, MaxReports} \subseteq Nat

(* What the report says of the volumes: the free space grade of the present   *)
(* ones, or no probe at all.                                                  *)
Grade == {"ok", "warn", "fail", "unknown"}
Probes == Grade \cup {"none"}
Report == [generated : Nat, probes : Probes]
Torn == [generated |-> 0, probes |-> "torn"]    \* cut, or the end of another
Missing == [generated |-> 0, probes |-> "missing"]
Content == Report \cup {Torn}
Idle == [pc |-> "idle", report |-> Torn, fd |-> NoFile]

VARIABLES
  clock,
  skew,
  volumes,   \* the grade the publisher's volumes deserve
  lastOk,    \* the last time they deserved ok
  writer,    \* writer[w]: where it is, its report, the file it has open
  file,      \* file[i]: the content of inode i
  tmp,       \* the inode latest.json.tmp names
  latest,    \* the inode latest.json names
  inbox,     \* the primary's copy
  changes, begun

relayVars == <<clock, skew, volumes, lastOk, writer, file, tmp, latest, inbox, changes, begun>>

Init ==
  /\ clock = 0 /\ changes = 0 /\ begun = 0 /\ skew \in Skews
  /\ volumes = "ok" /\ lastOk = 0
  /\ writer = [w \in Writer |-> Idle]
  /\ file = [i \in Inode |-> Torn] /\ tmp = NoFile /\ latest = NoFile
  /\ inbox = Missing

Goto(w, r) == writer' = [writer EXCEPT ![w] = r]

-----------------------------------------------------------------------------
(* collect_estate_health on the publisher: the time first, the probes after   *)
(* the other sections; --no-probes and a failing prober give none.            *)
Begin(w) ==
  /\ writer[w].pc = "idle" /\ begun < MaxReports /\ begun' = begun + 1
  /\ Goto(w, [pc |-> "collect", report |-> [generated |-> clock + skew, probes |-> "none"], fd |-> NoFile])
  /\ UNCHANGED <<clock, skew, volumes, lastOk, file, tmp, latest, inbox, changes>>

Probe(w) ==
  /\ writer[w].pc = "collect"
  /\ \E seen \in {volumes, "none"} :
       Goto(w, [writer[w] EXCEPT !.pc = "open", !.report.probes = seen])
  /\ UNCHANGED <<clock, skew, volumes, lastOk, file, tmp, latest, inbox, changes, begun>>

(* write_health_snapshot: all writers share one .tmp.  Opening it truncates   *)
(* the file it names, whoever made it; a new one takes an inode nobody has.   *)
Free(i) == i \notin {tmp, latest} /\ \A w \in Writer : writer[w].fd # i
OpenTmp(w) ==
  /\ writer[w].pc = "open"
  /\ LET i == IF tmp = NoFile THEN CHOOSE j \in Inode : Free(j) ELSE tmp IN
       /\ tmp' = i
       /\ file' = [j \in Inode |-> IF j = i \/ Free(j) THEN Torn ELSE file[j]]
       /\ Goto(w, [writer[w] EXCEPT !.pc = "fill", !.fd = i])
  /\ UNCHANGED <<clock, skew, volumes, lastOk, latest, inbox, changes, begun>>

(* The time taken when the report is written out.                             *)
FillTmpStamped(w) ==
  /\ writer[w].pc = "fill"
  /\ file' = [file EXCEPT ![writer[w].fd] = [writer[w].report EXCEPT !.generated = clock + skew]]
  /\ Goto(w, [writer[w] EXCEPT !.pc = "replace", !.fd = NoFile])
  /\ UNCHANGED <<clock, skew, volumes, lastOk, tmp, latest, inbox, changes, begun>>

(* The text goes to the file that was opened, wherever it is named now; over  *)
(* another writer's longer text it leaves an end of that.                     *)
FillTmp(w) ==
  LET i == writer[w].fd IN
  /\ writer[w].pc = "fill"
  /\ \E text \in {writer[w].report} \cup IF file[i] = Torn THEN {} ELSE {Torn} :
       file' = [file EXCEPT ![i] = text]
  /\ Goto(w, [writer[w] EXCEPT !.pc = "replace", !.fd = NoFile])
  /\ UNCHANGED <<clock, skew, volumes, lastOk, tmp, latest, inbox, changes, begun>>

(* tmp.replace(latest): without a .tmp it raises and is swallowed.            *)
Publish(w) ==
  /\ writer[w].pc = "replace"
  /\ IF tmp = NoFile THEN UNCHANGED <<tmp, latest>> ELSE latest' = tmp /\ tmp' = NoFile
  /\ Goto(w, Idle)
  /\ UNCHANGED <<clock, skew, volumes, lastOk, file, inbox, changes, begun>>

Kill(w) ==
  /\ writer[w].pc # "idle" /\ Goto(w, Idle)
  /\ UNCHANGED <<clock, skew, volumes, lastOk, file, tmp, latest, inbox, changes, begun>>

(* The pull of the health directory.  A failed one keeps the copy there is    *)
(* and does not stop the pull of the inventory.                               *)
Pull ==
  /\ latest # NoFile /\ inbox' = file[latest]
  /\ UNCHANGED <<clock, skew, volumes, lastOk, writer, file, tmp, latest, changes, begun>>

-----------------------------------------------------------------------------
(* grade_remote_capacity at the primary's time: a missing or unreadable copy  *)
(* is unknown, an old one warn whatever it says, one without probes unknown.  *)
AgeOf(sidecar) == IF sidecar.generated > clock THEN 0 ELSE clock - sidecar.generated
RemoteCapacity ==
  IF inbox \in {Missing, Torn} THEN "unknown"
  ELSE IF AgeOf(inbox) > MaxAge THEN "warn"
  ELSE IF inbox.probes = "none" THEN "unknown"
  ELSE IF inbox.probes = "unknown" THEN "warn"
  ELSE inbox.probes

-----------------------------------------------------------------------------
VolumesChange ==
  /\ changes < MaxChanges /\ changes' = changes + 1
  /\ \E g \in Grade \ {volumes} :
       volumes' = g /\ lastOk' = IF g = "ok" \/ volumes = "ok" THEN clock ELSE lastOk
  /\ UNCHANGED <<clock, skew, writer, file, tmp, latest, inbox, begun>>
Tick ==
  /\ clock < MaxClock /\ clock' = clock + 1
  /\ lastOk' = IF volumes = "ok" THEN clock + 1 ELSE lastOk
  /\ UNCHANGED <<skew, volumes, writer, file, tmp, latest, inbox, changes, begun>>

Next ==
  \/ VolumesChange \/ Tick \/ Pull
  \/ \E w \in Writer : Begin(w) \/ Probe(w) \/ OpenTmp(w) \/ FillTmp(w) \/ Publish(w) \/ Kill(w)

Spec == Init /\ [][Next]_relayVars

-----------------------------------------------------------------------------
(* grade_remote_capacity's "capacity numbers describe a disk as it was": when *)
(* the primary calls the publisher ok, its volumes were ok within max_age (and*)
(* the difference of the clocks), however slowly a report was collected,      *)
(* written, overwritten and pulled.                                           *)
OkWasHealthy == RemoteCapacity = "ok" => clock - lastOk <= MaxAge + skew
=============================================================================
