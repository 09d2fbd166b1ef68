---------------------------- MODULE ReportsProofs ----------------------------
(* What TLAPS checks of the health snapshots of another machine, of the       *)
(* dashboard's caches, of the ownership of volumes and of the health report,  *)
(* for any writers, threads, processes, estates, roots and bounds.            *)
EXTENDS Reports, Sequences, WellFoundedInduction, FiniteSetTheorems, TLAPS

-----------------------------------------------------------------------------
(* HealthRelay.  A snapshot that says ok was begun no later than the volumes  *)
(* were last ok, by the clock of the machine that wrote it.                   *)
Honest(r, t) == r.probes = "ok" => r \in Re!Report /\ r.generated <= t

(* What a writer of a snapshot may be doing.                                  *)
WriterState ==
  [pc : {"idle", "collect", "open", "replace"}, report : Re!Content, fd : {NoFile}]
  \cup [pc : {"fill"}, report : Re!Content, fd : Inode]

RelayTypes ==
  /\ time \in Nat /\ skew \in Nat /\ lastOk \in Nat /\ lastOk <= time
  /\ volumes \in Re!Grade /\ (volumes = "ok" => lastOk = time)
  /\ writer \in [Writer -> WriterState]
  /\ file \in [Inode -> Re!Content]
  /\ tmp \in Inode \cup {NoFile} /\ latest \in Inode \cup {NoFile}
  /\ inbox \in Re!Content \cup {Re!Missing}

AllHonest ==
  /\ \A w \in Writer :
       /\ Honest(writer[w].report, lastOk + skew)
       /\ writer[w].pc = "collect" =>
            writer[w].report \in Re!Report /\ writer[w].report.generated <= time + skew
  /\ \A i \in Inode : Honest(file[i], lastOk + skew)
  /\ Honest(inbox, lastOk + skew)

RelayInv == RelayTypes /\ AllHonest

LEMMA RelayInitial == ASSUME Re!RelayAssumption, Re!Init PROVE RelayInv
<1>1. skew \in Nat BY DEF Re!RelayAssumption, Re!Init
<1>2. RelayTypes
  BY <1>1 DEF RelayTypes, Re!Init, WriterState, Re!Idle, Re!Content, Re!Torn, Re!Missing, Re!Grade
<1>3. AllHonest
  BY <1>1 DEF AllHonest, Re!Init, Re!Idle, Honest, Re!Torn, Re!Missing
<1>4. QED BY <1>2, <1>3 DEF RelayInv

(* The publisher's time and volumes: lastOk only grows.                       *)
LEMMA RelayWorldKeeps ==
  ASSUME RelayInv, Re!VolumesChange \/ Re!Tick PROVE RelayInv'
<1>0. RelayTypes /\ AllHonest BY DEF RelayInv
<1>1. UNCHANGED <<skew, writer, file, tmp, latest, inbox>> BY DEF Re!VolumesChange, Re!Tick
<1>2. lastOk' \in Nat /\ lastOk <= lastOk' /\ lastOk' <= time' /\ time' \in Nat /\ time <= time'
      /\ volumes' \in Re!Grade /\ (volumes' = "ok" => lastOk' = time')
  <2>1. CASE Re!VolumesChange BY <1>0, <2>1 DEF RelayTypes, Re!VolumesChange
  <2>2. CASE Re!Tick BY <1>0, <2>2 DEF RelayTypes, Re!Tick
  <2>3. QED BY <2>1, <2>2
<1>3. RelayTypes' BY <1>0, <1>1, <1>2 DEF RelayTypes
<1>4. \A r : Honest(r, lastOk + skew) => Honest(r, lastOk' + skew')
  <2>1. skew \in Nat /\ lastOk \in Nat /\ lastOk' \in Nat /\ lastOk <= lastOk' /\ skew' = skew
    BY <1>0, <1>1, <1>2 DEF RelayTypes
  <2>2. \A r : r \in Re!Report => r.generated \in Nat BY DEF Re!Report
  <2>3. QED BY <2>1, <2>2 DEF Honest
<1>5. AllHonest'
  <2>1. \A w \in Writer : Honest(writer'[w].report, lastOk' + skew')
    BY <1>0, <1>1, <1>4 DEF AllHonest
  <2>2. \A i \in Inode : Honest(file'[i], lastOk' + skew')
    BY <1>0, <1>1, <1>4 DEF AllHonest
  <2>3. Honest(inbox', lastOk' + skew') BY <1>0, <1>1, <1>4 DEF AllHonest
  <2>4. ASSUME NEW w \in Writer, writer'[w].pc = "collect"
        PROVE writer'[w].report \in Re!Report /\ writer'[w].report.generated <= time' + skew'
    <3>1. writer[w].report \in Re!Report /\ writer[w].report.generated <= time + skew
      BY <1>0, <1>1, <2>4 DEF AllHonest
    <3>2. writer[w].report.generated \in Nat BY <3>1 DEF Re!Report
    <3>3. QED BY <1>0, <1>1, <1>2, <3>1, <3>2 DEF RelayTypes
  <2>5. QED BY <2>1, <2>2, <2>3, <2>4 DEF AllHonest
<1>6. QED BY <1>3, <1>5 DEF RelayInv

(* One writer moves, and honestly: the others and their files are as before.  *)
LEMMA WriterMoves ==
  ASSUME RelayInv, NEW w \in Writer, NEW x \in WriterState, Re!Goto(w, x), Honest(x.report, lastOk + skew),
         UNCHANGED <<time, skew, volumes, lastOk>>,
         x.pc = "collect" => x.report \in Re!Report /\ x.report.generated <= time + skew,
         file' \in [Inode -> Re!Content], \A i \in Inode : Honest(file'[i], lastOk + skew),
         tmp' \in Inode \cup {NoFile}, latest' \in Inode \cup {NoFile}, inbox' = inbox
  PROVE  RelayInv'
<1>0. RelayTypes /\ AllHonest BY DEF RelayInv
<1>1. writer' \in [Writer -> WriterState] /\ \A v \in Writer : writer'[v] = IF v = w THEN x ELSE writer[v]
  BY <1>0 DEF RelayTypes, Re!Goto
<1>2. RelayTypes' BY <1>0, <1>1 DEF RelayTypes
<1>3. AllHonest' BY <1>0, <1>1 DEF AllHonest
<1>4. QED BY <1>2, <1>3 DEF RelayInv

LEMMA BeginKeeps ==
  ASSUME RelayInv, NEW w \in Writer, Re!Begin(w) PROVE RelayInv'
<1>0. RelayTypes /\ AllHonest BY DEF RelayInv
<1> DEFINE r == [generated |-> time + skew, probes |-> "none"]
           x == [pc |-> "collect", report |-> r, fd |-> NoFile]
<1>1. r \in Re!Report /\ r.generated <= time + skew /\ r.probes # "ok"
  BY <1>0 DEF RelayTypes, Re!Report, Re!Probes, Re!Grade
<1>2. x \in WriterState BY <1>1 DEF WriterState, Re!Content
<1>3. Honest(x.report, lastOk + skew) BY <1>1 DEF Honest
<1>4. Re!Goto(w, x) /\ UNCHANGED <<time, skew, volumes, lastOk, file, tmp, latest, inbox>> BY DEF Re!Begin
<1>5. file' \in [Inode -> Re!Content] /\ (\A i \in Inode : Honest(file'[i], lastOk + skew))
      /\ tmp' \in Inode \cup {NoFile} /\ latest' \in Inode \cup {NoFile}
  BY <1>0, <1>4 DEF RelayTypes, AllHonest
<1>6. x.report = r OBVIOUS
<1> HIDE DEF r, x
<1>7. QED BY ONLY RelayInv, w \in Writer, <1>1, <1>2, <1>3, <1>4, <1>5, <1>6, WriterMoves

(* A probe that finds the volumes ok does so now.                             *)
LEMMA ProbeKeeps ==
  ASSUME RelayInv, NEW w \in Writer, Re!Probe(w) PROVE RelayInv'
<1>0. RelayTypes /\ AllHonest BY DEF RelayInv
<1>1. PICK seen \in {volumes, "none"} :
        Re!Goto(w, [writer[w] EXCEPT !.pc = "open", !.report.probes = seen])
  BY DEF Re!Probe
<1>2. writer[w].pc = "collect" /\ writer[w] \in WriterState /\ UNCHANGED <<time, skew, volumes, lastOk, file, tmp, latest, inbox>>
  BY <1>0 DEF Re!Probe, RelayTypes
<1>3. PICK x : x = [writer[w] EXCEPT !.pc = "open", !.report.probes = seen] OBVIOUS
<1>4. writer[w].report \in Re!Report /\ writer[w].report.generated <= time + skew
  BY <1>0, <1>2 DEF AllHonest
<1>5. x.pc = "open" /\ x.fd = NoFile
      /\ x.report = [generated |-> writer[w].report.generated, probes |-> seen]
  BY <1>2, <1>3, <1>4 DEF WriterState, Re!Report
<1>6. x = [pc |-> "open", report |-> x.report, fd |-> NoFile]
  BY <1>2, <1>3, <1>5 DEF WriterState
<1>7. x.report \in Re!Report BY <1>0, <1>4, <1>5 DEF RelayTypes, Re!Report, Re!Probes
<1>8. x \in WriterState BY <1>6, <1>7 DEF WriterState, Re!Content
<1>9. Honest(x.report, lastOk + skew)
  <2>1. seen = "ok" => lastOk = time BY <1>0 DEF RelayTypes
  <2>2. x.report.probes = seen /\ x.report.generated = writer[w].report.generated BY <1>5
  <2>3. QED BY <1>4, <1>7, <2>1, <2>2 DEF Honest
<1>10. Re!Goto(w, x) BY <1>1, <1>3
<1>11. file' \in [Inode -> Re!Content] /\ (\A i \in Inode : Honest(file'[i], lastOk + skew))
      /\ tmp' \in Inode \cup {NoFile} /\ latest' \in Inode \cup {NoFile}
  BY <1>0, <1>2 DEF RelayTypes, AllHonest
<1>12. x.pc # "collect" BY <1>5
<1>13. QED BY ONLY RelayInv, w \in Writer, <1>2, <1>8, <1>9, <1>10, <1>11, <1>12, WriterMoves

(* There is always an inode that nobody has.                                  *)
LEMMA InodeFree ==
  ASSUME RelayInv, Re!RelayAssumption, NEW w \in Writer, writer[w].fd = NoFile, tmp = NoFile
  PROVE  \E i \in Inode : Re!Free(i)
<1>0. RelayTypes BY DEF RelayInv
<1>1. PICK held : held = [v \in Writer |-> IF v = w THEN latest ELSE writer[v].fd] OBVIOUS
<1>2. held \in [Writer -> Inode \cup {NoFile}] BY <1>0, <1>1 DEF RelayTypes, WriterState
<1>3. PICK i \in Inode : \A v \in Writer : held[v] # i BY <1>2 DEF Re!RelayAssumption
<1>4. i # NoFile BY DEF Re!RelayAssumption
<1>5. i # latest /\ \A v \in Writer : writer[v].fd # i BY <1>1, <1>3, <1>4
<1>6. QED BY <1>4, <1>5 DEF Re!Free

LEMMA OpenTmpKeeps ==
  ASSUME RelayInv, Re!RelayAssumption, NEW w \in Writer, Re!OpenTmp(w) PROVE RelayInv'
<1>0. RelayTypes /\ AllHonest BY DEF RelayInv
<1>1. writer[w].pc = "open" /\ writer[w] \in WriterState /\ UNCHANGED <<time, skew, volumes, lastOk, latest, inbox>>
  BY <1>0 DEF Re!OpenTmp, RelayTypes
<1>2. writer[w].fd = NoFile BY <1>1 DEF WriterState
<1>3. PICK i : i = IF tmp = NoFile THEN CHOOSE j \in Inode : Re!Free(j) ELSE tmp OBVIOUS
<1>4. i \in Inode BY <1>0, <1>2, <1>3, InodeFree DEF RelayTypes
<1>5. tmp' = i /\ file' = [j \in Inode |-> IF j = i \/ Re!Free(j) THEN Re!Torn ELSE file[j]]
      /\ Re!Goto(w, [writer[w] EXCEPT !.pc = "fill", !.fd = i])
  BY <1>3 DEF Re!OpenTmp
<1>6. PICK x : x = [writer[w] EXCEPT !.pc = "fill", !.fd = i] OBVIOUS
<1>7. x \in WriterState /\ x.report = writer[w].report /\ x.pc # "collect"
  BY <1>1, <1>4, <1>6 DEF WriterState
<1>8. Honest(Re!Torn, lastOk + skew) /\ Re!Torn \in Re!Content BY DEF Honest, Re!Torn, Re!Content
<1>9. file' \in [Inode -> Re!Content] /\ (\A j \in Inode : Honest(file'[j], lastOk + skew))
  BY <1>0, <1>5, <1>8 DEF RelayTypes, AllHonest
<1>10. Honest(x.report, lastOk + skew) BY <1>0, <1>7 DEF AllHonest
<1>11. Re!Goto(w, x) /\ tmp' \in Inode \cup {NoFile} /\ latest' \in Inode \cup {NoFile}
  BY <1>0, <1>1, <1>4, <1>5, <1>6 DEF RelayTypes
<1>12. QED BY ONLY RelayInv, w \in Writer, <1>1, <1>7, <1>9, <1>10, <1>11, WriterMoves

LEMMA FillTmpKeeps ==
  ASSUME RelayInv, NEW w \in Writer, Re!FillTmp(w) PROVE RelayInv'
<1>0. RelayTypes /\ AllHonest BY DEF RelayInv
<1>1. writer[w].pc = "fill" /\ writer[w] \in WriterState /\ UNCHANGED <<time, skew, volumes, lastOk, tmp, latest, inbox>>
  BY <1>0 DEF Re!FillTmp, RelayTypes
<1>2. PICK text \in {writer[w].report, Re!Torn} : file' = [file EXCEPT ![writer[w].fd] = text]
  BY DEF Re!FillTmp
<1>3. PICK x : x = [writer[w] EXCEPT !.pc = "replace", !.fd = NoFile] OBVIOUS
<1>4. x \in WriterState /\ x.report = writer[w].report /\ x.pc # "collect" /\ x.report \in Re!Content
  BY <1>1, <1>3 DEF WriterState
<1>5. Honest(Re!Torn, lastOk + skew) /\ Re!Torn \in Re!Content BY DEF Honest, Re!Torn, Re!Content
<1>6. Honest(x.report, lastOk + skew) BY <1>0, <1>4 DEF AllHonest
<1>7. Honest(text, lastOk + skew) /\ text \in Re!Content BY <1>2, <1>4, <1>5, <1>6
<1>8. file' \in [Inode -> Re!Content] /\ (\A j \in Inode : Honest(file'[j], lastOk + skew))
  BY <1>0, <1>2, <1>7 DEF RelayTypes, AllHonest
<1>9. Re!Goto(w, x) /\ tmp' \in Inode \cup {NoFile} /\ latest' \in Inode \cup {NoFile}
  BY <1>0, <1>1, <1>3 DEF RelayTypes, Re!FillTmp
<1>10. QED BY ONLY RelayInv, w \in Writer, <1>1, <1>4, <1>6, <1>8, <1>9, WriterMoves

(* The writer is done, with or without having renamed its file.               *)
LEMMA WriterEndsKeeps ==
  ASSUME RelayInv, NEW w \in Writer, Re!Publish(w) \/ Re!Kill(w) PROVE RelayInv'
<1>0. RelayTypes /\ AllHonest BY DEF RelayInv
<1>1. Re!Goto(w, Re!Idle) /\ UNCHANGED <<time, skew, volumes, lastOk, file, inbox>>
  BY DEF Re!Publish, Re!Kill
<1>2. tmp' \in Inode \cup {NoFile} /\ latest' \in Inode \cup {NoFile}
  BY <1>0 DEF RelayTypes, Re!Publish, Re!Kill
<1>3. Re!Idle \in WriterState /\ Honest(Re!Idle.report, lastOk + skew) /\ Re!Idle.pc # "collect"
  BY DEF WriterState, Re!Idle, Re!Torn, Re!Content, Honest
<1>4. file' \in [Inode -> Re!Content] /\ (\A j \in Inode : Honest(file'[j], lastOk + skew))
  BY <1>0, <1>1 DEF RelayTypes, AllHonest
<1>5. QED BY ONLY RelayInv, w \in Writer, <1>1, <1>2, <1>3, <1>4, WriterMoves

LEMMA RelayKeeps ==
  ASSUME RelayInv, Re!RelayAssumption, Re!Next PROVE RelayInv'
<1>1. CASE Re!VolumesChange \/ Re!Tick BY <1>1, RelayWorldKeeps
<1>2. CASE Re!Pull
  <2>0. RelayTypes /\ AllHonest BY DEF RelayInv
  <2>1. inbox' = file[latest] /\ latest \in Inode BY <1>2, <2>0 DEF Re!Pull, RelayTypes
  <2>2. inbox' \in Re!Content /\ Honest(inbox', lastOk + skew) BY <2>0, <2>1 DEF RelayTypes, AllHonest
  <2>3. QED BY <1>2, <2>0, <2>2 DEF RelayInv, RelayTypes, AllHonest, Re!Pull
<1>3. ASSUME NEW w \in Writer, Re!Begin(w) \/ Re!Probe(w) \/ Re!OpenTmp(w) \/ Re!FillTmp(w) \/ Re!Publish(w) \/ Re!Kill(w)
      PROVE RelayInv'
  BY <1>3, BeginKeeps, ProbeKeeps, OpenTmpKeeps, FillTmpKeeps, WriterEndsKeeps
<1>4. QED BY <1>1, <1>2, <1>3 DEF Re!Next

LEMMA HonestIsHealthy ==
  ASSUME RelayInv, Re!RelayAssumption PROVE Re!OkWasHealthy
<1>0. RelayTypes /\ AllHonest BY DEF RelayInv
<1>1. SUFFICES ASSUME Re!RemoteCapacity = "ok" PROVE time - lastOk <= MaxAge + skew BY DEF Re!OkWasHealthy
<1>2. inbox.probes = "ok" /\ Re!AgeOf(inbox) <= MaxAge
  <2>1. inbox \notin {Re!Missing, Re!Torn} /\ ~(Re!AgeOf(inbox) > MaxAge) BY <1>1 DEF Re!RemoteCapacity
  <2>2. inbox.probes = "ok" BY <1>1, <2>1 DEF Re!RemoteCapacity
  <2>3. inbox \in Re!Report BY <1>0, <2>2 DEF AllHonest, Honest
  <2>4. Re!AgeOf(inbox) \in Nat BY <1>0, <2>3 DEF RelayTypes, Re!Report, Re!AgeOf
  <2>5. MaxAge \in Nat BY DEF Re!RelayAssumption
  <2>6. QED BY <2>1, <2>2, <2>4, <2>5
<1>3. inbox \in Re!Report /\ inbox.generated <= lastOk + skew BY <1>0, <1>2 DEF AllHonest, Honest
<1>4. PICK g \in Nat : g = inbox.generated BY <1>3 DEF Re!Report
<1>5. (IF g > time THEN 0 ELSE time - g) <= MaxAge /\ g <= lastOk + skew BY <1>2, <1>3, <1>4 DEF Re!AgeOf
<1>6. time \in Nat /\ lastOk \in Nat /\ skew \in Nat /\ MaxAge \in Nat
  BY <1>0 DEF RelayTypes, Re!RelayAssumption
<1>7. QED BY <1>5, <1>6

-----------------------------------------------------------------------------
(* A set of natural numbers that is not empty has a least element.            *)
LEMMA Least ==
  ASSUME NEW T, T \subseteq Nat, T # {}
  PROVE  \E x \in T : \A y \in T : x <= y
<1> DEFINE R == {ss \in Nat \X Nat : ss[1] < ss[2]}
<1>1. IsWellFoundedOn(OpToRel(<, Nat), Nat) BY NatLessThanWellFounded
<1>2. OpToRel(<, Nat) = R BY DEF OpToRel
<1>3. IsWellFoundedOn(R, Nat) BY <1>1, <1>2
<1>4. \A x, y \in Nat : x < y => <<x, y>> \in R OBVIOUS
<1> HIDE DEF R
<1>5. PICK x \in T : \A y \in T : ~(<<y, x>> \in R) BY <1>3, WFMin
<1>6. \A y \in T : ~(y < x) BY <1>4, <1>5
<1>7. \A y \in T : x <= y BY <1>6
<1>8. QED BY <1>7

(* The worst of some levels is one of them, and none of them is worse.        *)
Levels == {"ok", "skipped", "unknown", "warn", "fail"}
LEMMA DashboardWorst ==
  ASSUME NEW L, L \subseteq Levels, L # {}
  PROVE  Da!Worst(L) \in L /\ \A k \in L : Da!Rank[k] <= Da!Rank[Da!Worst(L)]
<1>1. \E l \in L : \A k \in L : Da!Rank[k] <= Da!Rank[l]
  <2>1. CASE "fail" \in L BY <2>1 DEF Levels, Da!Rank
  <2>2. CASE "fail" \notin L /\ "warn" \in L BY <2>2 DEF Levels, Da!Rank
  <2>3. CASE "fail" \notin L /\ "warn" \notin L /\ "unknown" \in L BY <2>3 DEF Levels, Da!Rank
  <2>4. CASE "fail" \notin L /\ "warn" \notin L /\ "unknown" \notin L
    <3>1. \A k \in L : k \in {"ok", "skipped"} BY <2>4 DEF Levels
    <3>2. \A k \in L : Da!Rank[k] = 0 BY <3>1 DEF Da!Rank
    <3>3. QED BY <3>2
  <2>5. QED BY <2>1, <2>2, <2>3, <2>4
<1>2. QED BY <1>1 DEF Da!Worst

(* So the worst is ok only if all are ok or skipped, and not a warning only   *)
(* if none is one.                                                            *)
LEMMA DashboardWorstOk ==
  ASSUME NEW L, L \subseteq Levels
  PROVE  /\ Da!Worst(L) \in Levels
         /\ Da!Worst(L) = "ok" => L \subseteq {"ok", "skipped"}
         /\ Da!Worst(L) \notin {"warn", "fail"} => L \cap {"warn", "fail"} = {}
<1>1. CASE L = {} BY <1>1 DEF Da!Worst, Levels
<1>2. CASE L # {}
  <2>1. PICK w : w = Da!Worst(L) OBVIOUS
  <2>2. w \in L /\ \A k \in L : Da!Rank[k] <= Da!Rank[w] BY <1>2, <2>1, DashboardWorst
  <2>3. w \in Levels BY <2>2
  <2>4. ASSUME w = "ok", NEW k \in L PROVE k \in {"ok", "skipped"} BY <2>2, <2>4 DEF Levels, Da!Rank
  <2>5. ASSUME w \notin {"warn", "fail"}, NEW k \in L PROVE k \notin {"warn", "fail"}
    BY <2>2, <2>3, <2>5 DEF Levels, Da!Rank
  <2>6. QED BY <2>1, <2>3, <2>4, <2>5
<1>3. QED BY <1>1, <1>2

-----------------------------------------------------------------------------
(* Dashboard.  What a banner that says ok stands for, of the facts f.         *)
Stands(f, source, quick) ==
  /\ quick \/ f.audit
  /\ \E r \in Root : f.roots[r] = "fresh"
  /\ \A a \in Da!Adapter : f.runs[a] # "old"
  /\ source = "estate" => \A r \in Da!Tracked(f) : f.roots[r] = "fresh"
  /\ source = "status" =>
       /\ ~f.errors
       /\ \A a \in Da!Adapter : f.runs[a] # "failed"

LEMMA RunLevels ==
  ASSUME NEW f \in Da!Facts
  PROVE  /\ Da!AdapterLevel(f) \in Levels
         /\ Da!AdapterLevel(f) \notin {"warn", "fail"} => \A a \in Da!Adapter : f.runs[a] \notin {"failed", "old"}
         /\ Da!AgedLevel(f) \in Levels
         /\ Da!AgedLevel(f) \notin {"warn", "fail"} => \A a \in Da!Adapter : f.runs[a] # "old"
<1>1. PICK L : L = {Da!RunLevel(f.runs[a]) : a \in Da!Adapter} OBVIOUS
<1>2. L \subseteq Levels BY <1>1 DEF Da!RunLevel, Levels
<1>3. Da!AdapterLevel(f) = Da!Worst(L) BY <1>1 DEF Da!AdapterLevel
<1>4. ASSUME NEW a \in Da!Adapter, f.runs[a] \in {"failed", "old"} PROVE "warn" \in L
  <2>1. Da!RunLevel(f.runs[a]) = "warn" BY <1>4 DEF Da!RunLevel
  <2>2. QED BY <1>1, <2>1
<1>5. PICK M : M = {Da!AgeLevel(f.runs[a]) : a \in Da!Adapter} OBVIOUS
<1>6. M \subseteq Levels BY <1>5 DEF Da!AgeLevel, Levels
<1>7. Da!AgedLevel(f) = Da!Worst(M) BY <1>5 DEF Da!AgedLevel
<1>8. ASSUME NEW a \in Da!Adapter, f.runs[a] = "old" PROVE "warn" \in M
  <2>1. Da!AgeLevel(f.runs[a]) = "warn" BY <1>8 DEF Da!AgeLevel
  <2>2. QED BY <1>5, <2>1
<1>9. QED BY <1>2, <1>3, <1>4, <1>6, <1>7, <1>8, DashboardWorstOk

(* The status report's overall level.                                         *)
LEMMA StatusStands ==
  ASSUME NEW f \in Da!Facts, NEW quick \in BOOLEAN, Da!StatusOverall(f, quick) = "ok"
  PROVE  Stands(f, "status", quick)
<1>1. PICK s : s = Da!StatusSignals(f, quick) OBVIOUS
<1>2. /\ s.audit = Da!AuditLevel(f, quick) /\ s.scan = Da!ScanLevel(f) /\ s.stash = Da!StashLevel(quick)
      /\ s.inventory = Da!InventoryLevel(f) /\ s.rollups = "ok" /\ s.adapters = Da!AdapterLevel(f)
  BY <1>1 DEF Da!StatusSignals
<1>3. PICK x : x = IF s.adapters \in {"warn", "fail"} THEN "warn" ELSE "ok" OBVIOUS
<1>4. PICK L : L = {s.audit, s.scan, s.stash, s.inventory, s.rollups, x} OBVIOUS
<1>5. Da!Worst(L) = "ok" BY <1>1, <1>3, <1>4 DEF Da!StatusOverall
<1>6. L \subseteq Levels
  <2>1. s.audit \in Levels BY <1>2 DEF Da!AuditLevel, Levels
  <2>2. s.scan \in Levels BY <1>2 DEF Da!ScanLevel, Levels
  <2>3. s.stash \in Levels /\ s.inventory \in Levels /\ s.rollups \in Levels /\ x \in Levels
    BY <1>2, <1>3 DEF Da!StashLevel, Da!InventoryLevel, Levels
  <2>4. QED BY <1>4, <2>1, <2>2, <2>3
<1>7. {s.audit, s.scan, x} \subseteq {"ok", "skipped"} BY <1>4, <1>5, <1>6, DashboardWorstOk
<1>8. quick \/ f.audit BY <1>2, <1>7 DEF Da!AuditLevel
<1>9. Da!LatestScan(f) = "fresh" /\ ~f.errors BY <1>2, <1>7 DEF Da!ScanLevel, Da!LatestScan
<1>10. \E r \in Root : f.roots[r] = "fresh" BY <1>9 DEF Da!LatestScan
<1>11. \A a \in Da!Adapter : f.runs[a] \notin {"failed", "old"} BY <1>2, <1>3, <1>7, RunLevels
<1>12. QED BY <1>8, <1>9, <1>10, <1>11 DEF Stands

LEMMA EstateLevel ==
  ASSUME NEW f \in Da!Facts, NEW quick, NEW fp
  PROVE  Da!EstateOverall(f, quick, fp) \in Levels
<1>1. PICK s : s = Da!EstateSignals(f, quick, fp) OBVIOUS
<1>2. PICK M : M = {Da!RootLevel(f.roots[r]) : r \in Da!Tracked(f)} OBVIOUS
<1>3. /\ s.audit = Da!AuditLevel(f, quick)
      /\ s.scan = IF Da!Tracked(f) = {} THEN "warn" ELSE Da!Worst(M)
      /\ s.stash = Da!StashLevel(quick) /\ s.rollups = "ok" /\ s.adapters = Da!AgedLevel(f)
      /\ s.fp = IF fp THEN Da!FpLevel(f) ELSE "skipped"
  BY <1>1, <1>2 DEF Da!EstateSignals
<1>4. PICK L : L = {s.audit, IF Da!Tracked(f) = {} THEN "fail" ELSE s.scan, s.stash, s.rollups, s.fp,
                    IF s.adapters \in {"warn", "fail"} THEN s.adapters ELSE "ok"} OBVIOUS
<1>5. M \subseteq Levels BY <1>2 DEF Da!RootLevel, Levels
<1>6. L \subseteq Levels
  <2>1. s.audit \in Levels BY <1>3 DEF Da!AuditLevel, Levels
  <2>2. (IF Da!Tracked(f) = {} THEN "fail" ELSE s.scan) \in Levels BY <1>3, <1>5, DashboardWorstOk DEF Levels
  <2>3. s.stash \in Levels /\ s.rollups \in Levels BY <1>3 DEF Da!StashLevel, Levels
  <2>4. s.fp \in Levels BY <1>3 DEF Da!FpLevel, Levels
  <2>5. QED BY <1>4, <2>1, <2>2, <2>3, <2>4 DEF Levels
<1>7. Da!EstateOverall(f, quick, fp) = Da!Worst(L) BY <1>1, <1>4 DEF Da!EstateOverall
<1>8. QED BY <1>6, <1>7, DashboardWorstOk

(* The collector's overall level.                                             *)
LEMMA EstateStands ==
  ASSUME NEW f \in Da!Facts, NEW quick \in BOOLEAN, NEW fp \in BOOLEAN, Da!EstateOverall(f, quick, fp) = "ok"
  PROVE  Stands(f, "estate", quick)
<1>1. PICK s : s = Da!EstateSignals(f, quick, fp) OBVIOUS
<1>2. PICK M : M = {Da!RootLevel(f.roots[r]) : r \in Da!Tracked(f)} OBVIOUS
<1>3. /\ s.audit = Da!AuditLevel(f, quick)
      /\ s.scan = IF Da!Tracked(f) = {} THEN "warn" ELSE Da!Worst(M)
      /\ s.stash = Da!StashLevel(quick) /\ s.rollups = "ok" /\ s.adapters = Da!AgedLevel(f)
      /\ s.fp = IF fp THEN Da!FpLevel(f) ELSE "skipped"
  BY <1>1, <1>2 DEF Da!EstateSignals
<1>4. PICK x : x = IF s.adapters \in {"warn", "fail"} THEN s.adapters ELSE "ok" OBVIOUS
<1>5. PICK y : y = IF Da!Tracked(f) = {} THEN "fail" ELSE s.scan OBVIOUS
<1>6. PICK L : L = {s.audit, y, s.stash, s.rollups, s.fp, x} OBVIOUS
<1>7. Da!Worst(L) = "ok" BY <1>1, <1>4, <1>5, <1>6 DEF Da!EstateOverall
<1>8. M \subseteq Levels BY <1>2 DEF Da!RootLevel, Levels
<1>9. L \subseteq Levels
  <2>1. s.audit \in Levels BY <1>3 DEF Da!AuditLevel, Levels
  <2>2. y \in Levels BY <1>3, <1>5, <1>8, DashboardWorstOk DEF Levels
  <2>3. s.stash \in Levels /\ s.rollups \in Levels BY <1>3 DEF Da!StashLevel, Levels
  <2>4. s.fp \in Levels BY <1>3 DEF Da!FpLevel, Levels
  <2>5. x \in Levels BY <1>4 DEF Levels
  <2>6. QED BY <1>6, <2>1, <2>2, <2>3, <2>4, <2>5
<1>10. {s.audit, y, x} \subseteq {"ok", "skipped"} BY <1>6, <1>7, <1>9, DashboardWorstOk
<1>11. quick \/ f.audit BY <1>3, <1>10 DEF Da!AuditLevel
<1>12. Da!Tracked(f) # {} /\ M # {} /\ Da!Worst(M) \in {"ok", "skipped"} BY <1>2, <1>3, <1>5, <1>10
<1>13. "fail" \notin M
  <2>1. Da!Worst(M) \notin {"warn", "fail"} BY <1>12
  <2>2. QED BY <1>8, <2>1, DashboardWorstOk
<1>14. \A r \in Da!Tracked(f) : f.roots[r] = "fresh" BY <1>2, <1>13 DEF Da!RootLevel
<1>15. \E r \in Root : f.roots[r] = "fresh" BY <1>12, <1>14 DEF Da!Tracked
<1>16. \A a \in Da!Adapter : f.runs[a] # "old" BY <1>3, <1>4, <1>10, RunLevels
<1>17. QED BY <1>11, <1>14, <1>15, <1>16 DEF Stands

-----------------------------------------------------------------------------
(* What a cache or a thread has loaded, and what it must not be older than:   *)
(* a cache, what the actions answered have left; a thread that has yet to     *)
(* store it, the same; an answer, what its browser had been told.             *)
Keys == {"status", "health", "fleet"} \X BOOLEAN \X BOOLEAN
Payloads ==
  [of : Keys, read : Nat, facts : Da!Facts, source : {"status", "estate", "fleet"},
   overall : Levels, crossed : BOOLEAN]
Sound(x) == x.overall = "ok" => Stands(x.facts, x.source, x.of[2])
Fresh(x, since) == x.read >= since \/ x.crossed
Entry(x, since) == x \in Payloads /\ Sound(x) /\ Fresh(x, since)

Asking(x, a) ==
  x \in [at : {"load", "look"}, request : Da!Request, floor : 0..a, answer : {NoEntry}]
Holding(x, a) ==
  /\ x \in [at : {"store", "prime status", "prime health"}, request : Da!Request, floor : 0..a, answer : Payloads]
  /\ Entry(x.answer, a) /\ x.answer.of = Da!KeyOf(x.request)
Answering(x, a) ==
  /\ x \in [at : {"answered"}, request : Da!Request, floor : 0..a, answer : Payloads]
  /\ Entry(x.answer, x.floor) /\ x.answer.of = Da!KeyOf(x.request)
Acting(x, v) == x \in [at : {"invalidate"}, action : Actions, left : 0..v]
ThreadOk(x, a, v) == x = Da!Idle \/ Asking(x, a) \/ Holding(x, a) \/ Answering(x, a) \/ Acting(x, v)

PageTypes ==
  /\ facts \in Da!Facts /\ version \in Nat /\ acked \in Nat /\ acked <= version
  /\ DOMAIN thread = Thread /\ thread = [t \in Thread |-> thread[t]]
PageInv ==
  /\ PageTypes
  /\ status # NoEntry => Entry(status, acked)
  /\ health # NoEntry => Entry(health, acked)
  /\ \A t \in Thread : ThreadOk(thread[t], acked, version)

LEMMA FreshSooner ==
  ASSUME NEW x \in Payloads, NEW a \in Nat, NEW f \in 0..a, Fresh(x, a) PROVE Fresh(x, f)
<1>1. PICK r \in Nat : r = x.read BY DEF Payloads
<1>2. r >= a => r >= f OBVIOUS
<1>3. r >= a \/ x.crossed BY <1>1 DEF Fresh
<1>4. r >= f \/ x.crossed BY <1>2, <1>3
<1>5. QED BY <1>1, <1>4 DEF Fresh

LEMMA KeyQuick ==
  ASSUME NEW q \in Da!Request
  PROVE  Da!KeyOf(q) \in Keys /\ Da!KeyOf(q)[2] = q.quick
         /\ (q.route \in {"html", "status"} => Da!KeyOf(q) = Da!StatusKey(q))
         /\ (q.route = "health" => Da!KeyOf(q) = Da!HealthKey(q))
         /\ (q.route = "fleet" => Da!KeyOf(q) = Da!FleetKey(q))
<1>1. q.route \in {"html", "status", "health", "fleet"} /\ q.quick \in BOOLEAN /\ q.fp \in BOOLEAN
  BY DEF Da!Request
<1>2. CASE q.route \in {"html", "status"} BY <1>1, <1>2 DEF Da!KeyOf, Da!StatusKey, Keys
<1>3. CASE q.route = "health" BY <1>1, <1>3 DEF Da!KeyOf, Da!HealthKey, Keys
<1>4. CASE q.route = "fleet" BY <1>1, <1>4 DEF Da!KeyOf, Da!FleetKey, Keys
<1>5. QED BY <1>1, <1>2, <1>3, <1>4

(* What is loaded now is sound, and as new as can be.                         *)
LEMMA PayloadEntry ==
  ASSUME PageTypes, NEW key \in Keys, NEW source \in {"status", "estate", "fleet"}, NEW overall \in Levels,
         overall = "ok" => Stands(facts, source, key[2])
  PROVE  Entry(Da!Payload(key, facts, source, overall), acked) /\ Da!Payload(key, facts, source, overall).of = key
<1>1. PICK x : x = Da!Payload(key, facts, source, overall) OBVIOUS
<1>2. x = [of |-> key, read |-> version, facts |-> facts, source |-> source, overall |-> overall, crossed |-> FALSE]
  BY <1>1 DEF Da!Payload
<1>3. x \in Payloads BY <1>2 DEF PageTypes, Payloads
<1>4. x.overall = overall /\ x.facts = facts /\ x.source = source /\ x.of = key /\ x.read = version BY <1>2
<1>5. Sound(x) BY <1>4 DEF Sound
<1>6. Fresh(x, acked) BY <1>4 DEF Fresh, PageTypes
<1>7. QED BY <1>1, <1>3, <1>4, <1>5, <1>6 DEF Entry

LEMMA Loaded ==
  ASSUME PageTypes, NEW q \in Da!Request, NEW x,
         x \in CASE q.route \in {"html", "status"} -> {Da!StatusPayload(Da!StatusKey(q), q.quick)}
                [] q.route = "health" -> {Da!EstatePayload(Da!HealthKey(q), q), Da!FallbackPayload(Da!HealthKey(q), q)}
                [] q.route = "fleet" -> {Da!Payload(Da!FleetKey(q), facts, "fleet", "unknown")}
  PROVE  Entry(x, acked) /\ x.of = Da!KeyOf(q)
<1>0. q.route \in {"html", "status", "health", "fleet"} /\ q.quick \in BOOLEAN /\ q.fp \in BOOLEAN
  BY DEF Da!Request
<1>f. facts \in Da!Facts BY DEF PageTypes
<1>k. Da!KeyOf(q) \in Keys /\ Da!KeyOf(q)[2] = q.quick BY KeyQuick
<1>l. Da!StatusOverall(facts, q.quick) \in Levels
  <2>1. PICK L : L = {Da!StatusSignals(facts, q.quick).audit, Da!StatusSignals(facts, q.quick).scan,
            Da!StatusSignals(facts, q.quick).stash, Da!StatusSignals(facts, q.quick).inventory,
            Da!StatusSignals(facts, q.quick).rollups,
            IF Da!StatusSignals(facts, q.quick).adapters \in {"warn", "fail"} THEN "warn" ELSE "ok"}
    OBVIOUS
  <2>2. Da!StatusOverall(facts, q.quick) = Da!Worst(L) BY <2>1 DEF Da!StatusOverall
  <2>3. L \subseteq Levels
    BY <2>1 DEF Da!StatusSignals, Da!AuditLevel, Da!ScanLevel, Da!StashLevel, Da!InventoryLevel, Levels
  <2>4. QED BY <2>2, <2>3, DashboardWorstOk
<1>1. CASE q.route \in {"html", "status"}
  <2>1. x = Da!Payload(Da!KeyOf(q), facts, "status", Da!StatusOverall(facts, q.quick))
    BY <1>1, KeyQuick DEF Da!StatusPayload
  <2>2. Da!StatusOverall(facts, q.quick) = "ok" => Stands(facts, "status", Da!KeyOf(q)[2])
    BY <1>0, <1>f, <1>k, StatusStands
  <2>3. QED BY <1>k, <1>l, <2>1, <2>2, PayloadEntry
<1>2. CASE q.route = "fleet"
  <2>1. x = Da!Payload(Da!KeyOf(q), facts, "fleet", "unknown") BY <1>2, KeyQuick
  <2>2. QED BY <1>k, <2>1, PayloadEntry DEF Levels
<1>3. CASE q.route = "health"
  <2>0. x \in {Da!EstatePayload(Da!KeyOf(q), q), Da!FallbackPayload(Da!KeyOf(q), q)} BY <1>3, KeyQuick
  <2>1. CASE x = Da!EstatePayload(Da!KeyOf(q), q)
    <3>1. PICK fp \in BOOLEAN : fp = (q.fp \/ ~q.quick) BY <1>0
    <3>2. PICK o : o = Da!EstateOverall(facts, q.quick, fp) OBVIOUS
    <3>3. x = Da!Payload(Da!KeyOf(q), facts, "estate", o) BY <2>1, <3>1, <3>2, Zenon DEF Da!EstatePayload
    <3>4. o = "ok" => Stands(facts, "estate", Da!KeyOf(q)[2]) BY <1>0, <1>f, <1>k, <3>2, EstateStands
    <3>5. o \in Levels BY <1>f, <3>2, EstateLevel
    <3>6. QED BY <1>k, <3>3, <3>4, <3>5, PayloadEntry
  <2>2. CASE x = Da!FallbackPayload(Da!KeyOf(q), q)
    <3>1. PICK posture : posture = Da!StatusOverall(facts, q.quick) OBVIOUS
    <3>2. PICK o : o = IF (q.fp \/ ~q.quick) /\ facts.cloud = "not ready" THEN Da!Worst({posture, "warn"}) ELSE posture OBVIOUS
    <3>3. x = Da!Payload(Da!KeyOf(q), facts, "status", o) BY <2>2, <3>1, <3>2 DEF Da!FallbackPayload
    <3>4. PICK L : L = {posture, "warn"} OBVIOUS
    <3>5. L \subseteq Levels /\ "warn" \in L BY <1>l, <3>1, <3>4 DEF Levels
    <3>6. Da!Worst(L) \in Levels /\ Da!Worst(L) # "ok" BY <3>5, DashboardWorstOk
    <3>7. o \in Levels /\ (o = "ok" => posture = "ok") BY <1>l, <3>1, <3>2, <3>4, <3>6
    <3>8. o = "ok" => Stands(facts, "status", Da!KeyOf(q)[2]) BY <1>0, <1>f, <1>k, <3>1, <3>7, StatusStands
    <3>9. QED BY <1>k, <3>3, <3>7, <3>8, PayloadEntry
  <2>3. QED BY <2>0, <2>1, <2>2
<1>4. QED BY <1>0, <1>1, <1>2, <1>3

LEMMA PagesInitial == ASSUME Da!DashboardAssumption, Da!Init PROVE PageInv
<1>1. facts \in Da!Facts BY DEF Da!DashboardAssumption, Da!Init
<1>2. QED BY <1>1 DEF PageInv, PageTypes, Da!Init, ThreadOk

(* One thread moves; what is shown and what was acknowledged stay.            *)
LEMMA ThreadMoves ==
  ASSUME PageInv, NEW t \in Thread, NEW x, thread' = [thread EXCEPT ![t] = x], ThreadOk(x, acked, version),
         UNCHANGED <<facts, version, acked>>,
         status' # NoEntry => Entry(status', acked),
         health' # NoEntry => Entry(health', acked)
  PROVE  PageInv'
<1>0. PageTypes BY DEF PageInv
<1>1. DOMAIN thread' = Thread /\ thread' = [u \in Thread |-> thread'[u]]
  BY <1>0 DEF PageTypes
<1>2. \A u \in Thread : thread'[u] = IF u = t THEN x ELSE thread[u] BY <1>0 DEF PageTypes
<1>3. \A u \in Thread : ThreadOk(thread'[u], acked, version) BY <1>2 DEF PageInv
<1>4. PageTypes' BY <1>0, <1>1 DEF PageTypes
<1>5. QED BY <1>3, <1>4 DEF PageInv

LEMMA GetKeeps ==
  ASSUME PageInv, Da!DashboardAssumption, NEW t \in Thread, NEW q \in Polls, Da!Get(t, q) PROVE PageInv'
<1>1. PICK x : x = [at |-> IF q.route = "html" THEN "load" ELSE "look", request |-> q, floor |-> acked, answer |-> NoEntry]
  OBVIOUS
<1>2. thread' = [thread EXCEPT ![t] = x] /\ UNCHANGED <<facts, version, acked, status, health>>
  BY <1>1 DEF Da!Get
<1>3. q \in Da!Request BY DEF Da!DashboardAssumption
<1>4. acked \in 0..acked BY DEF PageInv, PageTypes
<1>5. Asking(x, acked) BY <1>1, <1>3, <1>4 DEF Asking
<1>6. ThreadOk(x, acked, version) BY <1>5 DEF ThreadOk
<1>7. (status' # NoEntry => Entry(status', acked)) /\ (health' # NoEntry => Entry(health', acked))
  BY <1>2 DEF PageInv
<1>8. QED BY ONLY PageInv, t \in Thread, <1>2, <1>6, <1>7, ThreadMoves

(* Who is where: what the step of a thread tells of it.                       *)
LEMMA WhoIs ==
  ASSUME PageInv, NEW t \in Thread
  PROVE  /\ thread[t].at \in {"load", "look"} => Asking(thread[t], acked)
         /\ thread[t].at \in {"store", "prime status", "prime health"} => Holding(thread[t], acked)
         /\ thread[t].at = "answered" => Answering(thread[t], acked)
         /\ thread[t].at = "invalidate" => Acting(thread[t], version)
<1>1. ThreadOk(thread[t], acked, version) BY DEF PageInv
<1>2. CASE thread[t] = Da!Idle BY <1>2 DEF Da!Idle
<1>3. CASE Asking(thread[t], acked) BY <1>3 DEF Asking
<1>4. CASE Holding(thread[t], acked) BY <1>4 DEF Holding
<1>5. CASE Answering(thread[t], acked) BY <1>5 DEF Answering
<1>6. CASE Acting(thread[t], version) BY <1>6 DEF Acting
<1>7. QED BY <1>1, <1>2, <1>3, <1>4, <1>5, <1>6 DEF ThreadOk

LEMMA LookKeeps ==
  ASSUME PageInv, NEW t \in Thread, Da!Look(t) PROVE PageInv'
<1>0. PageTypes BY DEF PageInv
<1>1. PICK q : q = thread[t].request OBVIOUS
<1>2. PICK hit : hit = Da!CacheOf(q) OBVIOUS
<1>3. thread[t].at = "look" /\ UNCHANGED <<facts, version, status, health, acked>> BY DEF Da!Look
<1>4. Asking(thread[t], acked) BY <1>3, WhoIs
<1>5. PICK x : x = [at |-> IF Da!Hit(hit, Da!KeyOf(q)) THEN "answered" ELSE "load", request |-> q,
                    floor |-> thread[t].floor, answer |-> IF Da!Hit(hit, Da!KeyOf(q)) THEN hit ELSE NoEntry]
  OBVIOUS
<1>6. PICK y : y = [thread EXCEPT
           ![t].at = IF Da!Hit(hit, Da!KeyOf(q)) THEN "answered" ELSE "load",
           ![t].answer = IF Da!Hit(hit, Da!KeyOf(q)) THEN hit ELSE NoEntry] OBVIOUS
<1>7. thread' = y BY <1>1, <1>2, <1>6 DEF Da!Look
<1>8. y = [thread EXCEPT ![t] = x]
  <2>1. PICK r : r = [thread[t] EXCEPT !.at = IF Da!Hit(hit, Da!KeyOf(q)) THEN "answered" ELSE "load",
                                       !.answer = IF Da!Hit(hit, Da!KeyOf(q)) THEN hit ELSE NoEntry] OBVIOUS
  <2>2. r = x
    <3>1. PICK a, b : /\ a = IF Da!Hit(hit, Da!KeyOf(q)) THEN "answered" ELSE "load"
                      /\ b = IF Da!Hit(hit, Da!KeyOf(q)) THEN hit ELSE NoEntry OBVIOUS
    <3>2. r = [[thread[t] EXCEPT !.at = a] EXCEPT !.answer = b] BY <2>1, <3>1
    <3>3. x = [at |-> a, request |-> q, floor |-> thread[t].floor, answer |-> b] BY <1>5, <3>1
    <3>4. thread[t] = [at |-> thread[t].at, request |-> q, floor |-> thread[t].floor, answer |-> thread[t].answer]
      BY <1>1, <1>4 DEF Asking
    <3>5. PICK o, f, n : thread[t] = [at |-> o, request |-> q, floor |-> f, answer |-> n] /\ f = thread[t].floor BY <3>4
    <3>6. [thread[t] EXCEPT !.at = a] = [at |-> a, request |-> q, floor |-> f, answer |-> n] BY <3>5
    <3>7. r = [at |-> a, request |-> q, floor |-> f, answer |-> b] BY <3>2, <3>6
    <3>8. QED BY <3>3, <3>5, <3>7
  <2>3. y = [thread EXCEPT ![t] = r] BY <1>0, <1>6, <2>1 DEF PageTypes
  <2>4. QED BY <2>2, <2>3
<1>9. q \in Da!Request /\ thread[t].floor \in 0..acked BY <1>1, <1>4 DEF Asking
<1>10. ThreadOk(x, acked, version)
  <2>1. CASE Da!Hit(hit, Da!KeyOf(q))
    <3>1. hit # NoEntry /\ hit.of = Da!KeyOf(q) BY <2>1 DEF Da!Hit
    <3>2. Entry(hit, acked) BY <1>2, <3>1 DEF Da!CacheOf, PageInv
    <3>3. Entry(hit, thread[t].floor)
      <4>1. hit \in Payloads /\ Sound(hit) /\ Fresh(hit, acked) BY <3>2 DEF Entry
      <4>2. hit.read \in Nat BY <4>1 DEF Payloads
      <4>3. Fresh(hit, thread[t].floor) BY <1>0, <1>9, <4>1, <4>2 DEF Fresh, PageTypes
      <4>4. QED BY <4>1, <4>3 DEF Entry
    <3>4. x = [at |-> "answered", request |-> q, floor |-> thread[t].floor, answer |-> hit] BY <1>5, <2>1
    <3>5. hit \in Payloads BY <3>2 DEF Entry
    <3>6. Answering(x, acked) BY <1>9, <3>1, <3>3, <3>4, <3>5 DEF Answering
    <3>7. QED BY <3>6 DEF ThreadOk
  <2>2. CASE ~Da!Hit(hit, Da!KeyOf(q))
    <3>1. x = [at |-> "load", request |-> q, floor |-> thread[t].floor, answer |-> NoEntry] BY <1>5, <2>2
    <3>2. Asking(x, acked) BY <1>9, <3>1 DEF Asking
    <3>3. QED BY <3>2 DEF ThreadOk
  <2>3. QED BY <2>1, <2>2
<1>11. thread' = [thread EXCEPT ![t] = x] BY <1>7, <1>8
<1>12. (status' # NoEntry => Entry(status', acked)) /\ (health' # NoEntry => Entry(health', acked))
  BY <1>3 DEF PageInv
<1>13. QED BY ONLY PageInv, t \in Thread, <1>3, <1>10, <1>11, <1>12, ThreadMoves

LEMMA LoadKeeps ==
  ASSUME PageInv, NEW t \in Thread, Da!Load(t) PROVE PageInv'
<1>0. PageTypes BY DEF PageInv
<1>1. PICK q : q = thread[t].request OBVIOUS
<1>2. thread[t].at = "load" /\ UNCHANGED <<facts, version, status, health, acked>> BY DEF Da!Load
<1>3. Asking(thread[t], acked) BY <1>2, WhoIs
<1>4. q \in Da!Request /\ thread[t].floor \in 0..acked BY <1>1, <1>3 DEF Asking
<1>5. PICK payload \in
         CASE q.route \in {"html", "status"} -> {Da!StatusPayload(Da!StatusKey(q), q.quick)}
           [] q.route = "health" -> {Da!EstatePayload(Da!HealthKey(q), q), Da!FallbackPayload(Da!HealthKey(q), q)}
           [] q.route = "fleet" -> {Da!Payload(Da!FleetKey(q), facts, "fleet", "unknown")} :
       thread' = [thread EXCEPT ![t].at = IF q.route = "html" THEN "prime status" ELSE "store",
                                ![t].answer = payload]
  BY <1>1 DEF Da!Load
<1>6. Entry(payload, acked) /\ payload.of = Da!KeyOf(q) BY <1>0, <1>4, <1>5, Loaded
<1>7. PICK x : x = [at |-> IF q.route = "html" THEN "prime status" ELSE "store", request |-> q,
                    floor |-> thread[t].floor, answer |-> payload] OBVIOUS
<1>8. PICK y : y = [thread EXCEPT ![t].at = IF q.route = "html" THEN "prime status" ELSE "store",
                                  ![t].answer = payload] OBVIOUS
<1>9. y = [thread EXCEPT ![t] = x]
  <2>1. PICK r : r = [thread[t] EXCEPT !.at = IF q.route = "html" THEN "prime status" ELSE "store",
                                       !.answer = payload] OBVIOUS
  <2>2. r = x
    <3>1. PICK a : a = IF q.route = "html" THEN "prime status" ELSE "store" OBVIOUS
    <3>2. r = [[thread[t] EXCEPT !.at = a] EXCEPT !.answer = payload] BY <2>1, <3>1
    <3>3. x = [at |-> a, request |-> q, floor |-> thread[t].floor, answer |-> payload] BY <1>7, <3>1
    <3>4. thread[t] = [at |-> thread[t].at, request |-> q, floor |-> thread[t].floor, answer |-> thread[t].answer]
      BY <1>1, <1>3 DEF Asking
    <3>5. PICK o, f, n : thread[t] = [at |-> o, request |-> q, floor |-> f, answer |-> n] /\ f = thread[t].floor BY <3>4
    <3>6. [thread[t] EXCEPT !.at = a] = [at |-> a, request |-> q, floor |-> f, answer |-> n] BY <3>5
    <3>7. r = [at |-> a, request |-> q, floor |-> f, answer |-> payload] BY <3>2, <3>6
    <3>8. QED BY <3>3, <3>5, <3>7
  <2>3. y = [thread EXCEPT ![t] = r] BY <1>0, <1>8, <2>1 DEF PageTypes
  <2>4. QED BY <2>2, <2>3
<1>10. thread' = [thread EXCEPT ![t] = x] BY <1>5, <1>8, <1>9
<1>11. payload \in Payloads BY <1>6 DEF Entry
<1>12. Holding(x, acked) BY <1>4, <1>6, <1>7, <1>11 DEF Holding
<1>13. ThreadOk(x, acked, version) BY <1>12 DEF ThreadOk
<1>14. (status' # NoEntry => Entry(status', acked)) /\ (health' # NoEntry => Entry(health', acked))
  BY <1>2 DEF PageInv
<1>15. QED BY ONLY PageInv, t \in Thread, <1>2, <1>10, <1>13, <1>14, ThreadMoves

(* A thread that goes on with what it has loaded.                             *)
LEMMA GoesOn ==
  ASSUME PageInv, NEW t \in Thread, Holding(thread[t], acked), NEW at, Da!Goes(t, at),
         at \in {"prime health", "answered"}, UNCHANGED <<facts, version, acked>>,
         status' # NoEntry => Entry(status', acked),
         health' # NoEntry => Entry(health', acked)
  PROVE  PageInv'
<1>0. PageTypes BY DEF PageInv
<1>1. PICK x : x = [thread[t] EXCEPT !.at = at] OBVIOUS
<1>2. thread' = [thread EXCEPT ![t] = x] BY <1>0, <1>1 DEF Da!Goes, PageTypes
<1>3. thread[t] = [at |-> thread[t].at, request |-> thread[t].request, floor |-> thread[t].floor, answer |-> thread[t].answer]
  BY DEF Holding
<1>4. PICK o, q, f, n : thread[t] = [at |-> o, request |-> q, floor |-> f, answer |-> n]
                         /\ q = thread[t].request /\ f = thread[t].floor /\ n = thread[t].answer
  BY <1>3
<1>5. x = [at |-> at, request |-> q, floor |-> f, answer |-> n] BY <1>1, <1>4
<1>6. q \in Da!Request /\ f \in 0..acked /\ n \in Payloads /\ Entry(n, acked) /\ n.of = Da!KeyOf(q)
  BY <1>4 DEF Holding
<1>7. Entry(n, f)
  <2>2. Fresh(n, acked) BY <1>6 DEF Entry
  <2>3. acked \in Nat /\ f \in 0..acked BY <1>0, <1>6 DEF PageTypes
  <2>4. Fresh(n, f) BY <1>6, <2>2, <2>3, FreshSooner
  <2>5. QED BY <1>6, <2>4 DEF Entry
<1>8. ThreadOk(x, acked, version)
  <2>1. CASE at = "prime health"
    <3>1. Holding(x, acked) BY <1>5, <1>6, <2>1 DEF Holding
    <3>2. QED BY <3>1 DEF ThreadOk
  <2>2. CASE at = "answered"
    <3>1. Answering(x, acked) BY <1>5, <1>6, <1>7, <2>2 DEF Answering
    <3>2. QED BY <3>1 DEF ThreadOk
  <2>3. QED BY <2>1, <2>2
<1>9. QED BY ONLY PageInv, t \in Thread, <1>2, <1>8, ThreadMoves,
        UNCHANGED <<facts, version, acked>>, status' # NoEntry => Entry(status', acked),
        health' # NoEntry => Entry(health', acked)

LEMMA StoreKeeps ==
  ASSUME PageInv, NEW t \in Thread, Da!Store(t) PROVE PageInv'
<1>1. thread[t].at = "store" /\ Da!Goes(t, "answered") /\ UNCHANGED <<facts, version, acked>> BY DEF Da!Store
<1>2. Holding(thread[t], acked) BY <1>1, WhoIs
<1>3. Entry(thread[t].answer, acked) BY <1>2 DEF Holding
<1>4. (status' # NoEntry => Entry(status', acked)) /\ (health' # NoEntry => Entry(health', acked))
  <2>1. (status # NoEntry => Entry(status, acked)) /\ (health # NoEntry => Entry(health, acked)) BY DEF PageInv
  <2>2. status' \in {status, thread[t].answer} /\ health' \in {health, thread[t].answer} BY DEF Da!Store
  <2>3. QED BY <1>3, <2>1, <2>2
<1>5. QED BY ONLY PageInv, t \in Thread, <1>1, <1>2, <1>4, GoesOn

LEMMA PrimeStatusKeeps ==
  ASSUME PageInv, NEW t \in Thread, Da!PrimeStatus(t) PROVE PageInv'
<1>1. thread[t].at = "prime status" /\ Da!Goes(t, "prime health") /\ UNCHANGED <<facts, version, acked, health>>
  BY DEF Da!PrimeStatus
<1>2. Holding(thread[t], acked) BY <1>1, WhoIs
<1>3. Entry(thread[t].answer, acked) BY <1>2 DEF Holding
<1>4. (status' # NoEntry => Entry(status', acked)) /\ (health' # NoEntry => Entry(health', acked))
  <2>1. (status # NoEntry => Entry(status, acked)) /\ (health # NoEntry => Entry(health, acked)) BY DEF PageInv
  <2>2. status' \in {status, thread[t].answer} /\ health' = health BY DEF Da!PrimeStatus
  <2>3. QED BY <1>3, <2>1, <2>2
<1>5. QED BY ONLY PageInv, t \in Thread, <1>1, <1>2, <1>4, GoesOn

(* The page's payload is as good for the other key: quick is the same.        *)
LEMMA PrimeHealthKeeps ==
  ASSUME PageInv, NEW t \in Thread, Da!PrimeHealth(t) PROVE PageInv'
<1>1. thread[t].at = "prime health" /\ Da!Goes(t, "answered") /\ UNCHANGED <<facts, version, acked, status>>
  BY DEF Da!PrimeHealth
<1>2. Holding(thread[t], acked) BY <1>1, WhoIs
<1>3. PICK q, n : q = thread[t].request /\ n = thread[t].answer OBVIOUS
<1>4. q \in Da!Request /\ Entry(n, acked) /\ n.of = Da!KeyOf(q) BY <1>2, <1>3 DEF Holding
<1>5. PICK key : key = <<"health", q.quick, ~q.quick>> OBVIOUS
<1>6. PICK y : y = [n EXCEPT !.of = key] OBVIOUS
<1>7. health' \in {health, y}
  BY <1>3, <1>5, <1>6 DEF Da!PrimeHealth
<1>8. key \in Keys /\ key[2] = q.quick BY <1>4, <1>5 DEF Keys, Da!Request
<1>9. Entry(y, acked)
  <2>1. n \in Payloads BY <1>4 DEF Entry
  <2>2. y \in Payloads /\ y.of = key /\ y.overall = n.overall /\ y.facts = n.facts /\ y.source = n.source
        /\ y.read = n.read /\ y.crossed = n.crossed
    BY <1>6, <1>8, <2>1 DEF Payloads
  <2>3. n.of[2] = q.quick BY <1>4, KeyQuick
  <2>4. Sound(y) BY <1>4, <1>8, <2>2, <2>3 DEF Sound, Entry
  <2>5. Fresh(n, acked) BY <1>4 DEF Entry
  <2>6. Fresh(y, acked) BY <2>2, <2>5 DEF Fresh
  <2>7. QED BY <2>2, <2>4, <2>6 DEF Entry
<1>10. (status' # NoEntry => Entry(status', acked)) /\ (health' # NoEntry => Entry(health', acked))
  <2>1. (status # NoEntry => Entry(status, acked)) /\ (health # NoEntry => Entry(health, acked)) BY DEF PageInv
  <2>2. QED BY <1>1, <1>7, <1>9, <2>1
<1>11. QED BY ONLY PageInv, t \in Thread, <1>1, <1>2, <1>10, GoesOn

LEMMA AnsweredKeeps ==
  ASSUME PageInv, NEW t \in Thread, Da!Answered(t) PROVE PageInv'
<1>1. thread' = [thread EXCEPT ![t] = Da!Idle] /\ UNCHANGED <<facts, version, status, health, acked>>
  BY DEF Da!Answered
<1>2. ThreadOk(Da!Idle, acked, version) BY DEF ThreadOk
<1>3. (status' # NoEntry => Entry(status', acked)) /\ (health' # NoEntry => Entry(health', acked))
  BY <1>1 DEF PageInv
<1>4. QED BY ONLY PageInv, t \in Thread, <1>1, <1>2, <1>3, ThreadMoves

-----------------------------------------------------------------------------
(* What changes what there is to show.                                        *)
LEMMA OutcomeIsFacts ==
  ASSUME facts \in Da!Facts, NEW a, NEW f \in Da!Outcome(a) PROVE f \in Da!Facts
<1>1. CASE a \in {"replicate_execute", "replicate_dry_run"}
  <2>1. PICK r \in {"ok", "failed"} : f = [facts EXCEPT !.runs["replicate"] = r] BY <1>1 DEF Da!Outcome
  <2>2. QED BY <2>1 DEF Da!Facts, Da!Adapter
<1>2. CASE a \in {"archive_execute", "archive_dry_run"}
  <2>1. PICK r \in {"ok", "failed"} : f = [facts EXCEPT !.runs["archive"] = r] BY <1>2 DEF Da!Outcome
  <2>2. QED BY <2>1 DEF Da!Facts, Da!Adapter
<1>3. CASE a \notin {"replicate_execute", "replicate_dry_run", "archive_execute", "archive_dry_run"}
  BY <1>3 DEF Da!Outcome
<1>4. QED BY <1>1, <1>2, <1>3

LEMMA WorldIsFacts ==
  ASSUME facts \in Da!Facts, Da!World PROVE facts' \in Da!Facts
<1>1. ASSUME NEW r \in Root, NEW e \in BOOLEAN, facts' = [facts EXCEPT !.roots[r] = "fresh", !.errors = e]
      PROVE facts' \in Da!Facts
  <2>1. PICK h : h = [facts EXCEPT !.roots[r] = "fresh"] OBVIOUS
  <2>2. h \in Da!Facts BY <2>1 DEF Da!Facts
  <2>3. facts' = [h EXCEPT !.errors = e] BY <1>1, <2>1
  <2>4. QED BY <2>2, <2>3 DEF Da!Facts
<1>2. ASSUME NEW r \in Root, facts' = [facts EXCEPT !.roots[r] = "old"] PROVE facts' \in Da!Facts
  BY <1>2 DEF Da!Facts
<1>3. ASSUME NEW a \in Da!Adapter, facts' = [facts EXCEPT !.runs[a] = "old"] PROVE facts' \in Da!Facts
  BY <1>3 DEF Da!Facts
<1>4. CASE facts' = [facts EXCEPT !.audit = FALSE] BY <1>4 DEF Da!Facts
<1>5. QED BY <1>1, <1>2, <1>3, <1>4 DEF Da!World

(* The facts change, and nobody has seen that yet.                            *)
LEMMA FactsChange ==
  ASSUME PageInv, facts' \in Da!Facts, version' \in Nat, version <= version', UNCHANGED <<status, health, acked>>,
         DOMAIN thread' = Thread /\ thread' = [t \in Thread |-> thread'[t]],
         NEW moved, \A t \in Thread : thread'[t] = thread[t] \/ (t = moved /\ ThreadOk(thread'[t], acked, version'))
  PROVE  PageInv'
<1>0. PageTypes BY DEF PageInv
<1>1. PageTypes' BY <1>0 DEF PageTypes
<1>2. \A x : ThreadOk(x, acked, version) => ThreadOk(x, acked, version')
  <2>1. \A x : Acting(x, version) => Acting(x, version') BY <1>0 DEF Acting, PageTypes
  <2>2. QED BY <2>1 DEF ThreadOk
<1>3. \A t \in Thread : ThreadOk(thread'[t], acked, version') BY <1>2 DEF PageInv
<1>4. QED BY <1>1, <1>3 DEF PageInv

LEMMA WroteFacts ==
  ASSUME PageInv, NEW a, Da!Wrote(a) \/ Da!Unwritten
  PROVE  facts' \in Da!Facts /\ version' \in Nat /\ version <= version'
<1>0. PageTypes BY DEF PageInv
<1>v. version \in Nat BY <1>0 DEF PageTypes
<1>1. CASE Da!Wrote(a)
  <2>1. facts' \in Da!Facts BY <1>0, <1>1, OutcomeIsFacts DEF Da!Wrote, PageTypes
  <2>2. version' = version + 1 BY <1>1 DEF Da!Wrote
  <2>3. version' \in Nat /\ version <= version' BY ONLY <1>v, <2>2
  <2>4. QED BY <2>1, <2>3
<1>2. CASE Da!Unwritten
  <2>1. facts' = facts /\ version' = version BY <1>2 DEF Da!Unwritten
  <2>2. QED BY <1>0, <1>v, <2>1 DEF PageTypes
<1>3. QED BY <1>1, <1>2, Zenon

LEMMA WorldKeeps ==
  ASSUME PageInv, Da!World PROVE PageInv'
<1>0. PageTypes BY DEF PageInv
<1>1. facts' \in Da!Facts BY <1>0, WorldIsFacts DEF PageTypes
<1>v. version \in Nat BY <1>0 DEF PageTypes
<1>w. version' = version + 1 /\ UNCHANGED <<status, health, thread, acked>> BY DEF Da!World
<1>2. version' \in Nat /\ version <= version' /\ UNCHANGED <<status, health, thread, acked>> BY ONLY <1>v, <1>w
<1>3. DOMAIN thread' = Thread /\ thread' = [t \in Thread |-> thread'[t]] BY <1>0, <1>2 DEF PageTypes
<1>4. \A t \in Thread : thread'[t] = thread[t] BY <1>2
<1>5. QED BY ONLY PageInv, <1>1, <1>2, <1>3, <1>4, FactsChange

(* An action writes; its thread will empty the caches, or is done.            *)
LEMMA ActKeeps ==
  ASSUME PageInv, NEW t \in Thread, NEW a \in Actions,
         Da!Wrote(a) \/ Da!Unwritten,
         NEW x, x \in {thread[t], Da!Idle, [at |-> "invalidate", action |-> a, left |-> version']},
         thread' = [thread EXCEPT ![t] = x], UNCHANGED <<status, health, acked>>
  PROVE  PageInv'
<1>0. PageTypes BY DEF PageInv
<1>1. facts' \in Da!Facts /\ version' \in Nat /\ version <= version' BY WroteFacts
<1>2. DOMAIN thread' = Thread /\ thread' = [u \in Thread |-> thread'[u]] BY <1>0 DEF PageTypes
<1>3. \A u \in Thread : thread'[u] = IF u = t THEN x ELSE thread[u] BY <1>0 DEF PageTypes
<1>4. CASE x = thread[t]
  <2>1. \A u \in Thread : thread'[u] = thread[u] BY <1>3, <1>4
  <2>2. QED BY ONLY PageInv, <1>1, <1>2, <2>1, UNCHANGED <<status, health, acked>>, FactsChange
<1>5. CASE x # thread[t]
  <2>1. ThreadOk(x, acked, version')
    <3>1. version' \in 0..version' BY <1>1
    <3>2. Acting([at |-> "invalidate", action |-> a, left |-> version'], version') BY <3>1 DEF Acting
    <3>3. QED BY <1>5, <3>2 DEF ThreadOk
  <2>2. \A u \in Thread : thread'[u] = thread[u] \/ (u = t /\ ThreadOk(thread'[u], acked, version'))
    BY <1>3, <2>1
  <2>3. QED BY ONLY PageInv, <1>1, <1>2, <2>2, UNCHANGED <<status, health, acked>>, FactsChange
<1>6. QED BY <1>4, <1>5

(* The caches are emptied and the action is answered: what another thread has *)
(* loaded and not stored is marked, all else is empty or on its own floor.    *)
LEMMA EmptyKeeps ==
  ASSUME PageInv, NEW t \in Thread, thread[t].at = "invalidate",
         Da!Emptied(t, Da!Idle), Da!Acknowledge(thread[t].left), UNCHANGED <<facts, version>>
  PROVE  PageInv'
<1>0. PageTypes BY DEF PageInv
<1>1. Acting(thread[t], version) BY WhoIs
<1>2. thread[t].left \in 0..version BY <1>1 DEF Acting
<1>3. acked' \in Nat /\ acked <= acked' /\ acked' <= version BY <1>0, <1>2 DEF Da!Acknowledge, PageTypes
<1>4. status' = NoEntry /\ health' = NoEntry BY DEF Da!Emptied
<1>5. thread' = [s \in Thread |->
       IF s = t THEN Da!Idle
       ELSE IF thread[s].at \in {"store", "prime status", "prime health"}
            THEN [thread[s] EXCEPT !.answer.crossed = TRUE] ELSE thread[s]]
  BY DEF Da!Emptied
<1>6. DOMAIN thread' = Thread /\ thread' = [u \in Thread |-> thread'[u]] BY <1>5
<1>7. PageTypes' BY <1>0, <1>3, <1>6 DEF PageTypes
<1>8. ASSUME NEW s \in Thread PROVE ThreadOk(thread'[s], acked', version)
  <2>1. CASE s = t BY <1>5, <2>1 DEF ThreadOk
  <2>2. CASE s # t /\ thread[s].at \in {"store", "prime status", "prime health"}
    <3>1. Holding(thread[s], acked) BY <2>2, WhoIs
    <3>2. PICK o, q, f, n : thread[s] = [at |-> o, request |-> q, floor |-> f, answer |-> n]
                             /\ o = thread[s].at /\ q = thread[s].request /\ f = thread[s].floor /\ n = thread[s].answer
      BY <3>1 DEF Holding
    <3>3. PICK m : m = [n EXCEPT !.crossed = TRUE] OBVIOUS
    <3>4. q \in Da!Request /\ f \in 0..acked /\ n \in Payloads /\ Entry(n, acked) /\ n.of = Da!KeyOf(q)
          /\ o \in {"store", "prime status", "prime health"}
      BY <3>1, <3>2 DEF Holding
    <3>5. m \in Payloads /\ m.of = n.of /\ m.overall = n.overall /\ m.facts = n.facts /\ m.source = n.source
      BY <3>3, <3>4 DEF Payloads
    <3>6. m.crossed BY <3>3, <3>4 DEF Payloads
    <3>7. Entry(m, acked') BY <3>4, <3>5, <3>6 DEF Entry, Sound, Fresh
    <3>8. thread'[s] = [thread[s] EXCEPT !.answer.crossed = TRUE] BY <1>5, <2>2
    <3>9. thread'[s] = [at |-> o, request |-> q, floor |-> f, answer |-> m] BY <3>2, <3>3, <3>8
    <3>10. f \in 0..acked'
      <4>1. 0..acked \subseteq 0..acked' BY <1>0, <1>3 DEF PageTypes
      <4>2. f \in 0..acked BY <3>4
      <4>3. QED BY ONLY <4>1, <4>2, Zenon
    <3>11. Holding(thread'[s], acked')
      <4>1. thread'[s].answer = m /\ thread'[s].request = q BY <3>9
      <4>2. thread'[s] \in [at : {"store", "prime status", "prime health"}, request : Da!Request,
                            floor : 0..acked', answer : Payloads]
        <5>1. PICK F, O, P, Q : F = 0..acked' /\ O = {"store", "prime status", "prime health"} /\ P = Payloads /\ Q = Da!Request
          OBVIOUS
        <5>2. o \in O /\ q \in Q /\ f \in F /\ m \in P BY <3>4, <3>5, <3>10, <5>1
        <5>3. thread'[s] \in [at : O, request : Q, floor : F, answer : P] BY ONLY <3>9, <5>2
        <5>4. QED BY <5>1, <5>3
      <4>3. m.of = Da!KeyOf(q) BY <3>4, <3>5
      <4>4. QED BY <3>7, <4>1, <4>2, <4>3 DEF Holding
    <3>12. QED BY <3>11 DEF ThreadOk
  <2>3. CASE s # t /\ thread[s].at \notin {"store", "prime status", "prime health"}
    <3>1. thread'[s] = thread[s] /\ ThreadOk(thread[s], acked, version) BY <1>5, <2>3 DEF PageInv
    <3>2. ~Holding(thread[s], acked) BY <2>3 DEF Holding
    <3>3. 0..acked \subseteq 0..acked' BY <1>0, <1>3 DEF PageTypes
    <3>4. Asking(thread[s], acked) => Asking(thread[s], acked') BY <3>3 DEF Asking
    <3>5. Answering(thread[s], acked) => Answering(thread[s], acked') BY <3>3 DEF Answering
    <3>6. QED BY <3>1, <3>2, <3>4, <3>5 DEF ThreadOk
  <2>4. QED BY <2>1, <2>2, <2>3
<1>9. QED BY <1>4, <1>7, <1>8 DEF PageInv

LEMMA RunActionKeeps ==
  ASSUME PageInv, NEW t \in Thread, NEW a \in Actions, Da!RunAction(t, a) PROVE PageInv'
<1>0. PageTypes BY DEF PageInv
<1>1. CASE /\ Da!Wrote(a) \/ Da!Unwritten
           /\ Da!Turn(t, IF a \in Da!Invalidating THEN [at |-> "invalidate", action |-> a, left |-> version'] ELSE Da!Idle)
           /\ UNCHANGED acked
  <2>1. PICK x : x = IF a \in Da!Invalidating THEN [at |-> "invalidate", action |-> a, left |-> version'] ELSE Da!Idle
    OBVIOUS
  <2>2. x \in {thread[t], Da!Idle, [at |-> "invalidate", action |-> a, left |-> version']} BY <2>1
  <2>3. thread' = [thread EXCEPT ![t] = x] /\ UNCHANGED <<status, health, acked>> BY <1>1, <2>1 DEF Da!Turn
  <2>4. QED BY ONLY PageInv, t \in Thread, a \in Actions, <1>1, <2>2, <2>3, ActKeeps
<1>2. CASE Da!Wrote(a) /\ UNCHANGED <<status, health, thread, acked>>
  <2>1. PICK x : x = thread[t] OBVIOUS
  <2>2. thread' = [thread EXCEPT ![t] = x] BY <1>0, <1>2, <2>1 DEF PageTypes
  <2>3. x \in {thread[t], Da!Idle, [at |-> "invalidate", action |-> a, left |-> version']} BY <2>1
  <2>4. QED BY ONLY PageInv, t \in Thread, a \in Actions, <1>2, <2>2, <2>3, ActKeeps
<1>3. CASE thread[t].at = "invalidate" /\ Da!Emptied(t, Da!Idle) /\ Da!Acknowledge(thread[t].left)
           /\ UNCHANGED <<facts, version>>
  BY <1>3, EmptyKeeps
<1>4. QED BY <1>1, <1>2, <1>3 DEF Da!RunAction, Da!ActThenEmpty

LEMMA ExpireKeeps == ASSUME PageInv, Da!Expire PROVE PageInv'
<1>1. UNCHANGED <<facts, version, thread, acked>> BY DEF Da!Expire
<1>2. status' \in {status, NoEntry} /\ health' \in {health, NoEntry} BY DEF Da!Expire
<1>3. PageTypes' BY <1>1 DEF PageInv, PageTypes
<1>4. QED BY <1>1, <1>2, <1>3 DEF PageInv

LEMMA PagesKeep ==
  ASSUME PageInv, Da!DashboardAssumption, Da!Next PROVE PageInv'
<1>1. ASSUME NEW t \in Thread, NEW q \in Polls, Da!Get(t, q) PROVE PageInv' BY <1>1, GetKeeps
<1>2. ASSUME NEW t \in Thread, Da!Look(t) \/ Da!Load(t) \/ Da!Store(t) PROVE PageInv'
  BY <1>2, LookKeeps, LoadKeeps, StoreKeeps
<1>3. ASSUME NEW t \in Thread, Da!PrimeStatus(t) \/ Da!PrimeHealth(t) \/ Da!Answered(t) PROVE PageInv'
  BY <1>3, PrimeStatusKeeps, PrimeHealthKeeps, AnsweredKeeps
<1>4. ASSUME NEW t \in Thread, NEW a \in Actions, Da!RunAction(t, a) PROVE PageInv' BY <1>4, RunActionKeeps
<1>5. CASE Da!Expire BY <1>5, ExpireKeeps
<1>6. CASE Da!World BY <1>6, WorldKeeps
<1>7. QED BY <1>1, <1>2, <1>3, <1>4, <1>5, <1>6 DEF Da!Next

LEMMA AnswersAreNew ==
  ASSUME PageInv PROVE Da!ReadsItsActions /\ Da!BannerOkIsTrue
<1>1. ASSUME NEW t \in Da!Answers PROVE Answering(thread[t], acked) /\ t \in Thread
  BY <1>1, WhoIs DEF Da!Answers
<1>2. Da!ReadsItsActions
  <2>1. ASSUME NEW t \in Da!Answers
        PROVE  /\ thread[t].answer.read >= thread[t].floor \/ thread[t].answer.crossed
               /\ thread[t].answer.of = Da!KeyOf(thread[t].request)
    <3>1. Entry(thread[t].answer, thread[t].floor) /\ thread[t].answer.of = Da!KeyOf(thread[t].request)
      BY <1>1, <2>1 DEF Answering
    <3>2. QED BY <3>1 DEF Entry, Fresh
  <2>2. QED BY <2>1 DEF Da!ReadsItsActions
<1>3. Da!BannerOkIsTrue
  <2>1. ASSUME NEW t \in Da!Answers, thread[t].answer.overall = "ok"
        PROVE  Stands(thread[t].answer.facts, thread[t].answer.source, thread[t].request.quick)
    <3>1. Sound(thread[t].answer) /\ thread[t].answer.of = Da!KeyOf(thread[t].request) /\ thread[t].request \in Da!Request
      BY <1>1, <2>1 DEF Answering, Entry
    <3>2. thread[t].answer.of[2] = thread[t].request.quick BY <3>1, KeyQuick
    <3>3. QED BY <2>1, <3>1, <3>2 DEF Sound
  <2>2. QED BY <2>1 DEF Da!BannerOkIsTrue, Stands
<1>4. QED BY <1>2, <1>3

-----------------------------------------------------------------------------
(* Ownership.  Prefixes, element by element.                                  *)
LEMMA PrefixElements ==
  ASSUME NEW X, NEW s \in Seq(X), NEW t \in Seq(X)
  PROVE  Es!IsPrefix(s, t) <=> Len(s) <= Len(t) /\ \A i \in 1..Len(s) : s[i] = t[i]
<1>1. SubSeq(s, 1, Len(s)) = s OBVIOUS
<1>2. CASE Len(s) <= Len(t)
  <2>1. PICK u : u = SubSeq(t, 1, Len(s)) OBVIOUS
  <2>2. u \in Seq(X) /\ Len(u) = Len(s) /\ \A i \in 1..Len(s) : u[i] = t[i] BY <1>2, <2>1
  <2>3. s = u <=> \A i \in 1..Len(s) : s[i] = u[i] BY <2>2
  <2>4. QED BY <1>1, <1>2, <2>1, <2>2, <2>3 DEF Es!IsPrefix
<1>3. CASE ~(Len(s) <= Len(t)) BY <1>3 DEF Es!IsPrefix
<1>4. QED BY <1>2, <1>3

LEMMA PrefixTransitive ==
  ASSUME NEW X, NEW s \in Seq(X), NEW t \in Seq(X), NEW u \in Seq(X), Es!IsPrefix(s, t), Es!IsPrefix(t, u)
  PROVE  Es!IsPrefix(s, u)
<1>1. Len(s) <= Len(t) /\ Len(t) <= Len(u) BY PrefixElements
<1>2. \A i \in 1..Len(s) : s[i] = t[i] /\ t[i] = u[i]
  <2>1. \A i \in 1..Len(s) : s[i] = t[i] BY PrefixElements
  <2>2. \A i \in 1..Len(t) : t[i] = u[i] BY PrefixElements
  <2>3. 1..Len(s) \subseteq 1..Len(t) BY <1>1
  <2>4. QED BY <2>1, <2>2, <2>3
<1>3. Len(s) <= Len(u) BY <1>1
<1>4. QED BY <1>2, <1>3, PrefixElements

(* Of two prefixes of one path the shorter is a prefix of the longer.         *)
LEMMA PrefixesNest ==
  ASSUME NEW X, NEW s \in Seq(X), NEW t \in Seq(X), NEW u \in Seq(X), Es!IsPrefix(s, u), Es!IsPrefix(t, u),
         Len(s) <= Len(t)
  PROVE  Es!IsPrefix(s, t)
<1>1. \A i \in 1..Len(s) : s[i] = u[i] BY PrefixElements
<1>2. \A i \in 1..Len(t) : t[i] = u[i] BY PrefixElements
<1>3. 1..Len(s) \subseteq 1..Len(t) OBVIOUS
<1>4. \A i \in 1..Len(s) : s[i] = t[i] BY <1>1, <1>2, <1>3
<1>5. QED BY <1>4, PrefixElements

(* A volume's place in the estate file.                                       *)
LEMMA DeclaredNat ==
  ASSUME Es!OwnershipAssumption, NEW v \in Es!Range(Volumes) PROVE Es!Declared(v) \in Nat
<1>1. PICK I : I = {i \in 1..Len(Volumes) : Volumes[i] = v} OBVIOUS
<1>2. Es!Declared(v) = IF I # {} THEN Es!Min(I) ELSE 0 BY <1>1 DEF Es!Declared, Es!SelectInSeq
<1>3. CASE I # {}
  <2>1. Len(Volumes) \in Nat BY DEF Es!OwnershipAssumption
  <2>2. I \subseteq Nat BY <1>1, <2>1
  <2>3. \E x \in I : \A y \in I : x <= y BY <1>3, <2>2, Least
  <2>4. Es!Min(I) \in I BY <2>3 DEF Es!Min
  <2>5. QED BY <1>2, <1>3, <2>2, <2>4
<1>4. CASE I = {} BY <1>2, <1>4
<1>5. QED BY <1>3, <1>4

LEMMA FirstDeclared ==
  ASSUME Es!OwnershipAssumption, NEW F, F \subseteq Es!Range(Volumes), F # {}
  PROVE  \E v \in F : \A w \in F : Es!Declared(v) <= Es!Declared(w)
<1>1. PICK D : D = {Es!Declared(v) : v \in F} OBVIOUS
<1>2. D \subseteq Nat /\ D # {} BY <1>1, DeclaredNat
<1>3. PICK d \in D : \A e \in D : d <= e BY <1>2, Least
<1>4. PICK v \in F : d = Es!Declared(v) BY <1>1
<1>5. \A w \in F : Es!Declared(w) \in D BY <1>1
<1>6. QED BY <1>3, <1>4, <1>5

LEMMA RuleVolume ==
  ASSUME NEW e, NEW h, NEW r \in Es!Rules(e, h)
  PROVE  r.volume \in Es!Mounts(e, h) /\ r.volume \in Es!Range(Volumes)
<1>1. PICK v \in Es!Mounts(e, h) :
        LET m == Es!MountOf(e, h, v) IN
           r \in {[volume |-> v, prefix |-> x, itself |-> FALSE, root |-> m.path] : x \in m.prefixes}
           \cup (IF m.prefixes # {} THEN {}
                 ELSE {[volume |-> v, prefix |-> m.path, itself |-> TRUE, root |-> m.path]})
           \cup {[volume |-> v, prefix |-> x, itself |-> FALSE, root |-> x] : x \in e.volumes[v].aliases}
  BY DEF Es!Rules
<1>2. r.volume = v BY <1>1
<1>3. QED BY <1>2 DEF Es!Mounts

(* Of the rules that fit a path there is a first one.                         *)
LEMMA FirstRule ==
  ASSUME Es!OwnershipAssumption, NEW e, NEW h, NEW path \in Seq(STRING), NEW F, F \subseteq Es!Rules(e, h), F # {},
         \A r \in F : r.prefix \in Seq(STRING) /\ Len(r.prefix) <= Len(path)
  PROVE  \E r \in F : \A s \in F : Es!Before(r, s)
<1>1. PICK D : D = {Len(path) - Len(r.prefix) : r \in F} OBVIOUS
<1>2. \A r \in F : Len(r.prefix) \in Nat /\ Len(path) - Len(r.prefix) \in Nat OBVIOUS
<1>3. D \subseteq Nat /\ D # {} BY <1>1, <1>2
<1>4. PICK d \in D : \A c \in D : d <= c BY <1>3, Least
<1>5. PICK G : G = {r \in F : Len(path) - Len(r.prefix) = d} OBVIOUS
<1>6. G # {} BY <1>1, <1>5
<1>7. \A r \in G, s \in F : Len(r.prefix) >= Len(s.prefix)
  <2> TAKE r \in G, s \in F
  <2>1. Len(path) - Len(r.prefix) = d /\ r \in F BY <1>5
  <2>2. d <= Len(path) - Len(s.prefix) BY <1>1, <1>4
  <2>3. Len(r.prefix) \in Nat /\ Len(s.prefix) \in Nat /\ Len(path) \in Nat BY <1>2, <2>1
  <2>4. QED BY ONLY <2>1, <2>2, <2>3
<1>8. PICK V : V = {r.volume : r \in G} OBVIOUS
<1>9. V \subseteq Es!Range(Volumes) /\ V # {} BY <1>5, <1>6, <1>8, RuleVolume
<1>10. PICK v \in V : \A w \in V : Es!Declared(v) <= Es!Declared(w) BY <1>9, FirstDeclared
<1>11. PICK r \in G : r.volume = v BY <1>8
<1>12. ASSUME NEW s \in F PROVE Es!Before(r, s)
  <2>1. Len(r.prefix) \in Nat /\ Len(s.prefix) \in Nat /\ Len(r.prefix) >= Len(s.prefix) BY <1>2, <1>5, <1>7
  <2>2. CASE Len(r.prefix) > Len(s.prefix) BY <2>2 DEF Es!Before, Es!LongestFirst
  <2>3. CASE Len(r.prefix) = Len(s.prefix)
    <3>1. s \in G BY <1>5, <1>11, <2>3
    <3>2. Es!Declared(r.volume) <= Es!Declared(s.volume) BY <1>8, <1>10, <1>11, <3>1
    <3>3. QED BY <2>3, <3>2 DEF Es!Before, Es!LongestFirst
  <2>4. QED BY <2>1, <2>2, <2>3
<1>13. QED BY <1>5, <1>12

(* The longest rule that fits a path names the volume the path is on: a mount *)
(* further in would have a rule of its own, and a longer one.                 *)
LEMMA LongestRuleIsThere ==
  ASSUME Es!OwnershipAssumption, NEW h \in Host, NEW e, Es!Truthful(e, h), NEW path \in Seq(STRING),
         NEW r \in Es!Rules(e, h), Es!Fits(r, path),
         \A s \in Es!Rules(e, h) : Es!Fits(s, path) => Es!Before(r, s)
  PROVE  Es!Where(h, path) = r.volume
<1>1. r.prefix \in Seq(STRING) /\ Es!Where(h, r.prefix) = r.volume BY DEF Es!Truthful
<1>2. DOMAIN MountedAt[h] \subseteq Seq(STRING) BY DEF Es!OwnershipAssumption
<1>3. Es!IsPrefix(r.prefix, path) BY DEF Es!Fits
<1>4. ASSUME NEW m \in DOMAIN MountedAt[h], Es!IsPrefix(m, path) PROVE Es!IsPrefix(m, r.prefix)
  <2>0. m \in Seq(STRING) BY <1>2
  <2>1. CASE Len(m) <= Len(r.prefix) BY <1>1, <1>3, <1>4, <2>0, <2>1, PrefixesNest
  <2>2. CASE ~(Len(m) <= Len(r.prefix))
    <3>1. Len(r.prefix) \in Nat /\ Len(m) \in Nat BY <1>1, <2>0
    <3>2. Len(r.prefix) <= Len(m) BY <2>2, <3>1
    <3>3. Es!IsPrefix(r.prefix, m) BY <1>1, <1>3, <1>4, <2>0, <3>2, PrefixesNest
    <3>4. Es!IsStrictPrefix(r.prefix, m) BY <2>2, <3>1, <3>3 DEF Es!IsStrictPrefix
    <3>5. PICK s \in Es!Rules(e, h) : s.prefix = m /\ s.itself BY <3>4 DEF Es!Truthful
    <3>6. Es!Fits(s, path) BY <1>4, <3>5 DEF Es!Fits
    <3>7. Es!LongestFirst(r, s) BY <3>6 DEF Es!Before
    <3>8. Len(r.prefix) >= Len(m) BY <3>1, <3>5, <3>7 DEF Es!LongestFirst
    <3>9. QED BY <2>2, <3>1, <3>8
  <2>3. QED BY <2>1, <2>2
<1>5. ASSUME NEW m \in DOMAIN MountedAt[h], Es!IsPrefix(m, r.prefix) PROVE Es!IsPrefix(m, path)
  BY <1>1, <1>2, <1>3, <1>5, PrefixTransitive
<1>6. {m \in DOMAIN MountedAt[h] : Es!IsPrefix(m, path)} = {m \in DOMAIN MountedAt[h] : Es!IsPrefix(m, r.prefix)}
  BY <1>4, <1>5
<1>7. Es!Where(h, path) = Es!Where(h, r.prefix) BY <1>6 DEF Es!Where
<1>8. QED BY <1>1, <1>7

(* A path is put on the volume it is on, or on none.                          *)
LEMMA ClassifiedRight ==
  ASSUME Es!OwnershipAssumption, NEW h \in Host, NEW e, Es!Truthful(e, h), NEW path \in Seq(STRING),
         Es!Classify(e, h, path).volume # NoEstate
  PROVE  /\ Es!Where(h, path) = Es!Classify(e, h, path).volume
         /\ Es!Classify(e, h, path).volume \in Es!Mounts(e, h)
<1>1. PICK found, fits : /\ found = {v \in Es!Mounts(e, h) : path \in Es!MountOf(e, h, v).regex}
                         /\ fits = {r \in Es!Rules(e, h) : Es!Fits(r, path)}
  OBVIOUS
<1>2. CASE found # {}
  <2>1. found \subseteq Es!Range(Volumes) BY <1>1 DEF Es!Mounts
  <2>2. \E v \in found : \A w \in found : Es!Declared(v) <= Es!Declared(w) BY <1>2, <2>1, FirstDeclared
  <2>3. PICK v : v = CHOOSE u \in found : \A w \in found : Es!Declared(u) <= Es!Declared(w) OBVIOUS
  <2>4. v \in found BY <2>2, <2>3
  <2>5. Es!Classify(e, h, path) = [volume |-> v, root |-> Es!MountOf(e, h, v).path]
    BY <1>1, <1>2, <2>3 DEF Es!Classify
  <2>6. Es!Where(h, path) = v BY <1>1, <2>4 DEF Es!Truthful
  <2>7. QED BY <1>1, <2>4, <2>5, <2>6
<1>3. CASE found = {} /\ fits # {}
  <2>1. \A r \in fits : r.prefix \in Seq(STRING) /\ Len(r.prefix) <= Len(path)
    BY <1>1 DEF Es!Truthful, Es!Fits, Es!IsPrefix
  <2>2. \E r \in fits : \A s \in fits : Es!Before(r, s) BY <1>1, <1>3, <2>1, FirstRule
  <2>3. PICK r : r = CHOOSE q \in fits : \A s \in fits : Es!Before(q, s) OBVIOUS
  <2>4. r \in fits /\ \A s \in fits : Es!Before(r, s) BY <2>2, <2>3
  <2>5. Es!Classify(e, h, path) = [volume |-> r.volume, root |-> r.root]
    BY <1>1, <1>3, <2>3 DEF Es!Classify
  <2>6. r \in Es!Rules(e, h) /\ Es!Fits(r, path) BY <1>1, <2>4
  <2>7. \A s \in Es!Rules(e, h) : Es!Fits(s, path) => Es!Before(r, s) BY <1>1, <2>4
  <2>8. Es!Where(h, path) = r.volume BY <2>6, <2>7, LongestRuleIsThere
  <2>9. QED BY <2>5, <2>6, <2>8, RuleVolume
<1>4. CASE found = {} /\ fits = {}
  <2>1. Es!Classify(e, h, path) = [volume |-> NoEstate, root |-> <<>>] BY <1>1, <1>4 DEF Es!Classify
  <2>2. QED BY <2>1
<1>5. QED BY <1>2, <1>3, <1>4

(* What is allowed is what the host is entitled to.                           *)
LEMMA AllowedIsEntitled ==
  ASSUME Es!OwnershipAssumption, NEW h \in Host, NEW e, Es!Truthful(e, h), NEW k \in Es!Asked, Es!Allowed(e, h, k)
  PROVE  Es!Entitled(e, h, k)
<1>1. CASE k.path = NoEstate BY <1>1 DEF Es!Entitled
<1>2. CASE k.path # NoEstate
  <2>1. k.path \in Seq(STRING) /\ k.action # "probe" BY <1>2 DEF Es!OwnershipAssumption
  <2>2. PICK m : m = Es!Classify(e, h, k.path) OBVIOUS
  <2>3. m.volume # NoEstate BY <1>2, <2>2 DEF Es!Allowed
  <2>4. m.volume = Es!Where(h, k.path) /\ m.volume \in Es!Mounts(e, h) BY <2>1, <2>2, <2>3, ClassifiedRight
  <2>5. PICK vol : vol = e.volumes[m.volume] OBVIOUS
  <2>6. h \in DOMAIN vol.mounts BY <2>4, <2>5 DEF Es!Mounts
  <2>7. PICK mount0 : mount0 = vol.mounts[h] OBVIOUS
  <2>9. CASE k.action \in {"scan", "promote-source"}
    <3>1. mount0.access \in {"rw", "ro"} BY <1>2, <2>2, <2>5, <2>7, <2>9 DEF Es!Allowed, Es!Destinations
    <3>2. QED BY <2>4, <2>5, <2>6, <2>7, <2>9, <3>1 DEF Es!Entitled
  <2>10. CASE k.action \in Es!Destinations
    <3>1. Es!MayReceive(vol, h, mount0.access, m.root, k.path)
      BY <1>2, <2>2, <2>5, <2>7, <2>10 DEF Es!Allowed, Es!Destinations
    <3>2. vol.owner = h \/ \E g \in vol.grants : g.host = h BY <3>1 DEF Es!MayReceive
    <3>3. QED BY <2>4, <2>5, <2>6, <2>10, <3>2 DEF Es!Entitled, Es!Destinations
  <2>11. CASE k.action \notin {"scan", "promote-source"} \cup Es!Destinations
    <3>1. vol.owner = h /\ k.action \in Es!PlanPermits(vol.plan)
      BY <1>2, <2>1, <2>2, <2>5, <2>7, <2>11 DEF Es!Allowed
    <3>2. QED BY <2>4, <2>5, <2>6, <2>11, <3>1 DEF Es!Entitled
  <2>12. QED BY <2>9, <2>10, <2>11
<1>3. QED BY <1>1, <1>2

-----------------------------------------------------------------------------
(* What a running command still has to do was granted, or the refusal is on   *)
(* record where the command records: in its own transaction or at once.       *)
Note(r, k) == [run |-> r, check |-> k]
Granted(j, e, h, k, own, L) ==
  Es!Allowed(e, h, k) \/ (~e.enforce /\ Note(j.run, k) \in (IF j.kind \in {"finalize", "restore"} THEN own ELSE L))
Governed(e) == e = NoEstate \/ (e \in Estates /\ Es!Valid(e))
Asks == SUBSET Es!Asked
Running == [kind : {"apply", "scan", "finalize", "restore", "replicate", "archive"}, left : Seq(Asks), run : Nat]
JobOk(j, e, h, own, L) ==
  j # Es!Idle =>
    /\ j \in Running /\ Governed(e)
    /\ e # NoEstate /\ j.kind \notin {"replicate", "archive"} =>
         \A i \in DOMAIN j.left : \A k \in j.left[i] : Granted(j, e, h, k, own, L)

(* What was done was granted, or recorded, or is still to be recorded by the  *)
(* transaction it was done in, if that is not lost.                           *)
Owed(a, j, own) == j # Es!Idle /\ j.run = a.run /\ Note(a.run, a.check) \in own
ActOk(a, L, J, P, D) ==
  \/ a.under = NoEstate
  \/ Es!Entitled(a.under, a.host, a.check)
  \/ /\ ~a.under.enforce
     /\ \/ Note(a.run, a.check) \in L
        \/ a.own /\ (a.run \in D \/ \E p \in Process : Owed(a, J[p], P[p]))

EstateTypes ==
  /\ \A h \in Host : config[h] \in Estates \cup {NoEstate}
  /\ loaded = [p \in Process |-> loaded[p]]
  /\ \A p \in Process : loaded[p] \in Estates \cup {NoEstate, Es!NotLoaded}
  /\ manifest = [h \in Host |-> manifest[h]] /\ \A h \in Host : manifest[h] \in Seq(Asks)
  /\ job = [p \in Process |-> job[p]]
  /\ pend = [p \in Process |-> pend[p]]
  /\ runs \in Nat
EstateInv ==
  /\ EstateTypes
  /\ \A p \in Process : JobOk(job[p], loaded[p], HostOf[p], pend[p], log)
  /\ \A a \in acts : ActOk(a, log, job, pend, died)

LEMMA EstateInitial == ASSUME Es!OwnershipAssumption, Es!Init PROVE EstateInv
<1>1. \A h \in Host : config[h] \in Estates \cup {NoEstate} BY DEF Es!Init
<1>2. <<>> \in Seq(Asks) OBVIOUS
<1>3. EstateTypes BY <1>1, <1>2 DEF EstateTypes, Es!Init
<1>4. \A p \in Process : job[p] = Es!Idle BY DEF Es!Init
<1>5. acts = {} BY DEF Es!Init
<1>6. QED BY <1>3, <1>4, <1>5 DEF EstateInv, JobOk

LEMMA ActStays ==
  ASSUME NEW a, NEW L, NEW M, L \subseteq M, NEW D, NEW E, D \subseteq E, NEW J, NEW K, NEW P, NEW Q,
         ActOk(a, L, J, P, D),
         \A p \in Process : J[p] # Es!Idle => \/ (K[p] # Es!Idle /\ K[p].run = J[p].run /\ P[p] \subseteq Q[p])
                                              \/ J[p].run \in E
                                              \/ P[p] \subseteq M
  PROVE  ActOk(a, M, K, Q, E)
<1>1. CASE a.under = NoEstate BY <1>1 DEF ActOk
<1>2. CASE Es!Entitled(a.under, a.host, a.check) BY <1>2 DEF ActOk
<1>3. CASE ~a.under.enforce /\ Note(a.run, a.check) \in L BY <1>3 DEF ActOk
<1>4. CASE ~a.under.enforce /\ a.own /\ a.run \in D BY <1>4 DEF ActOk
<1>5. CASE ~a.under.enforce /\ a.own /\ \E p \in Process : Owed(a, J[p], P[p])
  <2>1. PICK p \in Process : J[p] # Es!Idle /\ J[p].run = a.run /\ Note(a.run, a.check) \in P[p] BY <1>5 DEF Owed
  <2>2. CASE K[p] # Es!Idle /\ K[p].run = J[p].run /\ P[p] \subseteq Q[p] BY <1>5, <2>1, <2>2 DEF ActOk, Owed
  <2>3. CASE J[p].run \in E BY <1>5, <2>1, <2>3 DEF ActOk
  <2>4. CASE P[p] \subseteq M BY <1>5, <2>1, <2>4 DEF ActOk
  <2>5. QED BY <2>1, <2>2, <2>3, <2>4
<1>6. QED BY <1>1, <1>2, <1>3, <1>4, <1>5 DEF ActOk

LEMMA JobStays ==
  ASSUME NEW j, NEW e, NEW h, NEW own, NEW L, NEW M, L \subseteq M, JobOk(j, e, h, own, L)
  PROVE  JobOk(j, e, h, own, M)
<1>1. \A k : Granted(j, e, h, k, own, L) => Granted(j, e, h, k, own, M) BY DEF Granted
<1>2. QED BY <1>1 DEF JobOk

(* One process moves, and nothing is done yet.                                *)
LEMMA ProcessMoves ==
  ASSUME EstateInv, NEW p \in Process, NEW e, e \in Estates \cup {NoEstate, Es!NotLoaded}, NEW j, NEW own,
         loaded' = [loaded EXCEPT ![p] = e], job' = [job EXCEPT ![p] = j], pend' = [pend EXCEPT ![p] = own],
         config' = config, log \subseteq log', died \subseteq died', acts' = acts, runs' \in Nat,
         manifest' = [h \in Host |-> manifest'[h]], \A h \in Host : manifest'[h] \in Seq(Asks),
         JobOk(j, e, HostOf[p], own, log'),
         job[p] = Es!Idle \/ job[p].run \in died' \/ pend[p] \subseteq log'
  PROVE  EstateInv'
<1>0. EstateTypes BY DEF EstateInv
<1>1. /\ loaded' = [q \in Process |-> loaded'[q]] /\ \A q \in Process : loaded'[q] = IF q = p THEN e ELSE loaded[q]
      /\ job' = [q \in Process |-> job'[q]] /\ \A q \in Process : job'[q] = IF q = p THEN j ELSE job[q]
      /\ pend' = [q \in Process |-> pend'[q]] /\ \A q \in Process : pend'[q] = IF q = p THEN own ELSE pend[q]
  BY <1>0 DEF EstateTypes
<1>2. EstateTypes' BY <1>0, <1>1 DEF EstateTypes
<1>3. ASSUME NEW q \in Process PROVE JobOk(job'[q], loaded'[q], HostOf[q], pend'[q], log')
  <2>1. CASE q = p BY <1>1, <2>1
  <2>2. CASE q # p
    <3>1. JobOk(job[q], loaded[q], HostOf[q], pend[q], log) BY DEF EstateInv
    <3>2. JobOk(job[q], loaded[q], HostOf[q], pend[q], log') BY <3>1, JobStays
    <3>3. QED BY <1>1, <2>2, <3>2
  <2>3. QED BY <2>1, <2>2
<1>4. ASSUME NEW a \in acts PROVE ActOk(a, log', job', pend', died')
  <2>1. ActOk(a, log, job, pend, died) BY DEF EstateInv
  <2>2. \A q \in Process : job[q] # Es!Idle =>
          \/ (job'[q] # Es!Idle /\ job'[q].run = job[q].run /\ pend[q] \subseteq pend'[q])
          \/ job[q].run \in died'
          \/ pend[q] \subseteq log'
    BY <1>1
  <2>3. QED BY ONLY <2>1, <2>2, log \subseteq log', died \subseteq died', ActStays
<1>5. QED BY <1>2, <1>3, <1>4 DEF EstateInv

(* What a command is left with once it has asked.                             *)
LEMMA RowsLeft ==
  ASSUME NEW e, NEW h, NEW items \in Seq(Asks), NEW refused, NEW rows, rows = Es!RowsKept(e, items, refused),
         refused = Es!Refused(e, h, items)
  PROVE  /\ rows \in Seq(Asks)
         /\ e # NoEstate => \A i \in DOMAIN rows : \A k \in rows[i] :
              Es!Allowed(e, h, k) \/ (~e.enforce /\ k \in refused)
<1>1. PICK n \in Nat : n = Len(items) OBVIOUS
<1>2. items = [i \in 1..n |-> items[i]] /\ \A i \in 1..n : items[i] \in Asks BY <1>1
<1>3. PICK w : w = Es!Without(items, refused) OBVIOUS
<1>4. w = [i \in 1..n |-> IF items[i] \cap refused = {} THEN items[i] ELSE {}]
  BY <1>2, <1>3 DEF Es!Without
<1>5. \A i \in 1..n : w[i] \in Asks BY <1>2, <1>4 DEF Asks
<1>6. w \in [1..n -> Asks] BY <1>4, <1>5
<1>7. w \in Seq(Asks) BY <1>6
<1>8. rows \in {items, w} BY <1>3 DEF Es!RowsKept
<1>9. ASSUME e # NoEstate, NEW i \in DOMAIN rows, NEW k \in rows[i]
      PROVE  Es!Allowed(e, h, k) \/ (~e.enforce /\ k \in refused)
  <2>1. CASE e.enforce
    <3>1. rows = w BY <1>3, <1>9, <2>1 DEF Es!RowsKept
    <3>2. i \in 1..n BY <1>4, <1>9, <3>1
    <3>3. k \in items[i] /\ k \notin refused BY <1>4, <1>9, <3>1, <3>2
    <3>4. i \in DOMAIN items BY <1>2, <3>2
    <3>5. k \in UNION Es!Range(items) BY <3>3, <3>4 DEF Es!Range
    <3>6. QED BY <1>9, <3>3, <3>5 DEF Es!Refused
  <2>2. CASE ~e.enforce
    <3>1. rows = items BY <2>2 DEF Es!RowsKept
    <3>2. k \in UNION Es!Range(items) BY <1>9, <3>1 DEF Es!Range
    <3>3. Es!Allowed(e, h, k) \/ k \in refused BY <1>9, <3>2 DEF Es!Refused
    <3>4. QED BY <2>2, <3>3
  <2>3. QED BY <2>1, <2>2
<1>10. QED BY <1>2, <1>7, <1>8, <1>9

LEMMA ReadIsGoverned ==
  ASSUME EstateTypes, Es!OwnershipAssumption, NEW p \in Process, NEW e, e = Es!Current(p), Es!Reads(p, e)
  PROVE  e \in Estates \cup {NoEstate} /\ Governed(e)
<1>1. HostOf[p] \in Host BY DEF Es!OwnershipAssumption
<1>2. e \in Estates \cup {NoEstate} BY <1>1 DEF EstateTypes, Es!Current
<1>3. QED BY <1>2 DEF Governed, Es!Reads

LEMMA CheckedKeeps ==
  ASSUME EstateInv, Es!OwnershipAssumption, NEW p \in Process, NEW kind \in Es!Kinds \ {"replicate", "archive"},
         NEW items \in Seq(Asks), Es!BeginChecked(p, kind, items)
  PROVE  EstateInv'
<1>0. EstateTypes /\ HostOf[p] \in Host BY DEF EstateInv, Es!OwnershipAssumption
<1>1. PICK e : e = Es!Current(p) OBVIOUS
<1>2. Es!Reads(p, e) BY <1>1 DEF Es!BeginChecked
<1>3. e \in Estates \cup {NoEstate} /\ Governed(e) BY <1>0, <1>1, <1>2, ReadIsGoverned
<1>4. PICK h : h = HostOf[p] OBVIOUS
<1>5. PICK refused : refused = Es!Refused(e, h, items) OBVIOUS
<1>6. PICK rows : rows = Es!RowsKept(e, items, refused) OBVIOUS
<1>7. /\ rows \in Seq(Asks)
      /\ e # NoEstate => \A i \in DOMAIN rows : \A k \in rows[i] :
           Es!Allowed(e, h, k) \/ (~e.enforce /\ k \in refused)
  BY <1>5, <1>6, RowsLeft
<1>8. PICK stops : stops = (kind \in {"apply", "scan"} /\ refused # {} /\ e.enforce) OBVIOUS
<1>9. PICK noted : noted = Es!Records(runs + 1, refused) OBVIOUS
<1>10. \A k \in refused : Note(runs + 1, k) \in noted BY <1>9 DEF Es!Records, Note
<1>11. job[p] = Es!Idle /\ runs' = runs + 1 /\ UNCHANGED <<config, acts, died>> BY DEF Es!BeginChecked
<1>12. loaded' = [loaded EXCEPT ![p] = e] BY <1>2 DEF Es!Reads
<1>13. manifest' = manifest \/ manifest' = [manifest EXCEPT ![h] = rows]
  BY <1>1, <1>4, <1>5, <1>6 DEF Es!BeginChecked
<1>14. manifest' = [g \in Host |-> manifest'[g]] /\ \A g \in Host : manifest'[g] \in Seq(Asks)
  BY <1>0, <1>7, <1>13 DEF EstateTypes
<1>15. PICK going : going = [kind |-> kind, left |-> rows, run |-> runs + 1] OBVIOUS
<1>16. (job' = [job EXCEPT ![p] = Es!Idle]) \/ (kind # "plan" /\ job' = [job EXCEPT ![p] = going])
  BY <1>1, <1>4, <1>5, <1>6, <1>15 DEF Es!BeginChecked
<1>17. log' = IF kind \in {"apply", "scan"} THEN log \cup noted ELSE log
  BY <1>1, <1>4, <1>5, <1>9 DEF Es!BeginChecked
<1>18. pend' = IF kind \in {"finalize", "restore"} THEN [pend EXCEPT ![p] = noted] ELSE pend
  BY <1>1, <1>4, <1>5, <1>9 DEF Es!BeginChecked
<1>19. PICK own : own = IF kind \in {"finalize", "restore"} THEN noted ELSE pend[p] OBVIOUS
<1>20. pend' = [pend EXCEPT ![p] = own] BY <1>0, <1>18, <1>19 DEF EstateTypes
<1>21. JobOk(Es!Idle, e, h, own, log') BY DEF JobOk
<1>22. ASSUME kind # "plan" PROVE JobOk(going, e, h, own, log')
  <2>1. kind \in {"apply", "scan", "finalize", "restore"} BY <1>22 DEF Es!Kinds
  <2>2. going \in Running
    <3>1. runs + 1 \in Nat BY <1>0 DEF EstateTypes
    <3>2. QED BY <1>7, <1>15, <2>1, <3>1 DEF Running
  <2>3. ASSUME e # NoEstate, NEW i \in DOMAIN going.left, NEW k \in going.left[i]
        PROVE  Granted(going, e, h, k, own, log')
    <3>1. Es!Allowed(e, h, k) \/ (~e.enforce /\ k \in refused) BY <1>7, <1>15, <2>3
    <3>2. noted \subseteq (IF kind \in {"finalize", "restore"} THEN own ELSE log') BY <1>17, <1>19, <2>1
    <3>3. going.run = runs + 1 /\ going.kind = kind BY <1>15
    <3>4. CASE Es!Allowed(e, h, k) BY <3>4 DEF Granted
    <3>5. CASE ~e.enforce /\ k \in refused
      <4>1. Note(going.run, k) \in (IF going.kind \in {"finalize", "restore"} THEN own ELSE log')
        BY <1>10, <3>2, <3>3, <3>5
      <4>2. QED BY <3>5, <4>1 DEF Granted
    <3>6. QED BY <3>1, <3>4, <3>5
  <2>4. QED BY <1>3, <2>2, <2>3 DEF JobOk
<1>23. PICK j : j \in {Es!Idle, going} /\ job' = [job EXCEPT ![p] = j] /\ JobOk(j, e, h, own, log')
  BY <1>16, <1>21, <1>22
<1>24. log \subseteq log' BY <1>17
<1>25. runs' \in Nat BY <1>0, <1>11 DEF EstateTypes
<1>26. QED BY <1>3, <1>4, <1>11, <1>12, <1>14, <1>20, <1>23, <1>24, <1>25, ProcessMoves

LEMMA RunnerKeeps ==
  ASSUME EstateInv, Es!OwnershipAssumption, NEW p \in Process, NEW kind, NEW items \in Seq(Asks),
         Es!BeginRunner(p, kind, items)
  PROVE  EstateInv'
<1>0. EstateTypes /\ HostOf[p] \in Host BY DEF EstateInv, Es!OwnershipAssumption
<1>1. PICK e : e = Es!Current(p) OBVIOUS
<1>2. Es!Reads(p, e) BY <1>1 DEF Es!BeginRunner
<1>3. e \in Estates \cup {NoEstate} /\ Governed(e) BY <1>0, <1>1, <1>2, ReadIsGoverned
<1>4. PICK going : going = [kind |-> kind, left |-> items, run |-> runs + 1] OBVIOUS
<1>5. /\ kind \in {"replicate", "archive"} /\ job[p] = Es!Idle /\ runs' = runs + 1
      /\ job' = [job EXCEPT ![p] = going] /\ UNCHANGED <<config, manifest, pend, log, acts, died>>
  BY <1>4 DEF Es!BeginRunner
<1>6. loaded' = [loaded EXCEPT ![p] = e] BY <1>2 DEF Es!Reads
<1>7. runs + 1 \in Nat BY <1>0 DEF EstateTypes
<1>8. going \in Running /\ going.kind = kind BY <1>4, <1>5, <1>7 DEF Running
<1>9. PICK own : own = pend[p] OBVIOUS
<1>10. JobOk(going, e, HostOf[p], own, log') BY <1>3, <1>5, <1>8 DEF JobOk
<1>11. pend' = [pend EXCEPT ![p] = own] BY <1>0, <1>5, <1>9 DEF EstateTypes
<1>12. manifest' = [g \in Host |-> manifest'[g]] /\ \A g \in Host : manifest'[g] \in Seq(Asks)
  BY <1>0, <1>5 DEF EstateTypes
<1>13. QED BY <1>3, <1>5, <1>6, <1>7, <1>10, <1>11, <1>12, ProcessMoves

LEMMA DeployKeeps ==
  ASSUME EstateInv, NEW h \in Host, NEW e \in Estates, Es!Deploy(h, e) PROVE EstateInv'
<1>1. config' = [config EXCEPT ![h] = e] /\ UNCHANGED <<loaded, manifest, job, pend, log, acts, runs, died>>
  BY DEF Es!Deploy
<1>2. \A g \in Host : config'[g] \in Estates \cup {NoEstate} BY <1>1 DEF EstateInv, EstateTypes
<1>3. EstateTypes' BY <1>1, <1>2 DEF EstateInv, EstateTypes
<1>4. QED BY <1>1, <1>3 DEF EstateInv

LEMMA EndsKeeps ==
  ASSUME EstateInv, NEW p \in Process, Es!Finish(p) \/ Es!Exit(p) \/ Es!Crash(p) PROVE EstateInv'
<1>0. EstateTypes BY DEF EstateInv
<1>1. PICK e, own, j : e = loaded'[p] /\ own = pend'[p] /\ j = job'[p] OBVIOUS
<1>7. /\ e \in Estates \cup {NoEstate, Es!NotLoaded} /\ j = Es!Idle
      /\ loaded' = [loaded EXCEPT ![p] = e] /\ job' = [job EXCEPT ![p] = j] /\ pend' = [pend EXCEPT ![p] = own]
      /\ log \subseteq log' /\ died \subseteq died'
      /\ job[p] = Es!Idle \/ job[p].run \in died' \/ pend[p] \subseteq log'
  <2>1. CASE Es!Finish(p) BY <1>0, <1>1, <2>1 DEF Es!Finish, EstateTypes
  <2>2. CASE Es!Exit(p) BY <1>0, <1>1, <2>2 DEF Es!Exit, EstateTypes
  <2>3. CASE Es!Crash(p) BY <1>0, <1>1, <2>3 DEF Es!Crash, EstateTypes
  <2>4. QED BY <2>1, <2>2, <2>3
<1>2. UNCHANGED <<config, manifest, acts, runs>> BY DEF Es!Finish, Es!Exit, Es!Crash
<1>3. JobOk(j, e, HostOf[p], own, log') BY <1>7 DEF JobOk
<1>4. manifest' = [g \in Host |-> manifest'[g]] /\ \A g \in Host : manifest'[g] \in Seq(Asks)
  BY <1>0, <1>2 DEF EstateTypes
<1>5. runs' \in Nat BY <1>0, <1>2 DEF EstateTypes
<1>6. QED BY <1>2, <1>3, <1>4, <1>5, <1>7, ProcessMoves

(* The next row, entry or source is handled.                                  *)
LEMMA PerformKeeps ==
  ASSUME EstateInv, Es!OwnershipAssumption, NEW p \in Process, Es!Perform(p) PROVE EstateInv'
<1>0. EstateTypes /\ HostOf[p] \in Host BY DEF EstateInv, Es!OwnershipAssumption
<1>1. PICK j, e, h, item, kind, run0 : /\ j = job[p] /\ e = loaded[p] /\ h = HostOf[p] /\ item = Es!Item(p)
                                       /\ kind = j.kind /\ run0 = j.run
  OBVIOUS
<1>2. PICK refused : refused = IF kind \in {"replicate", "archive"} THEN Es!Refused(e, h, <<item>>) ELSE {}
  OBVIOUS
<1>3. PICK own : own = (kind \in {"finalize", "restore", "archive"}) OBVIOUS
<1>4. PICK noted : noted = Es!Records(run0, refused) OBVIOUS
<1>5. PICK done : done = {Es!Act(p, k, own) : k \in item} OBVIOUS
<1>6. job[p] # Es!Idle /\ j.left # <<>> /\ UNCHANGED <<config, loaded, manifest, runs, died>>
  BY <1>1 DEF Es!Perform, Es!Running
<1>7. j \in Running /\ Governed(e) BY <1>1, <1>6 DEF EstateInv, JobOk
<1>8. PICK rest : rest = Tail(j.left) OBVIOUS
<1>9. j.left \in Seq(Asks) /\ rest \in Seq(Asks) /\ item \in Asks /\ item = j.left[1] /\ 1 \in DOMAIN j.left
      /\ \A i \in DOMAIN rest : i + 1 \in DOMAIN j.left /\ rest[i] = j.left[i + 1]
  <2>1. j.left \in Seq(Asks) BY <1>7 DEF Running
  <2>2. item = Head(j.left) BY <1>1 DEF Es!Item
  <2>3. QED BY <1>6, <1>8, <2>1, <2>2
<1>10. PICK g : g = [kind |-> kind, left |-> rest, run |-> run0] OBVIOUS
<1>11. job' = [job EXCEPT ![p] = g]
  <2>1. job' = [job EXCEPT ![p].left = Tail(@)] BY DEF Es!Perform
  <2>2. PICK K, L, R : K = {"apply", "scan", "finalize", "restore", "replicate", "archive"} /\ L = Seq(Asks) /\ R = Nat OBVIOUS
  <2>3. j \in [kind : K, left : L, run : R] BY <1>7, <2>2 DEF Running
  <2>4. job' = [job EXCEPT ![p] = [j EXCEPT !.left = rest]] BY <1>1, <1>8, <2>1
  <2>5. [j EXCEPT !.left = rest] = g BY <1>1, <1>10, <2>3
  <2>6. QED BY <2>4, <2>5
<1>12. log' = IF kind = "replicate" THEN log \cup noted ELSE log BY <1>1, <1>2, <1>4 DEF Es!Perform
<1>13. pend' = IF kind = "archive" THEN [pend EXCEPT ![p] = @ \cup noted] ELSE pend
  BY <1>1, <1>2, <1>4 DEF Es!Perform
<1>14. PICK kept : kept = pend'[p] OBVIOUS
<1>15. /\ pend' = [q \in Process |-> pend'[q]] /\ \A q \in Process : pend[q] \subseteq pend'[q]
       /\ \A q \in Process : q # p => pend'[q] = pend[q]
       /\ kind = "archive" => pend'[p] = pend[p] \cup noted
       /\ kind # "archive" => pend'[p] = pend[p]
  BY <1>0, <1>13 DEF EstateTypes
<1>16. job' = [q \in Process |-> job'[q]] /\ \A q \in Process : job'[q] = IF q = p THEN g ELSE job[q]
  BY <1>0, <1>11 DEF EstateTypes
<1>17. g \in Running /\ g # Es!Idle BY <1>1, <1>7, <1>9, <1>10 DEF Running, Es!Idle
<1>18. log \subseteq log' BY <1>12
<1>19. EstateTypes' BY <1>0, <1>6, <1>15, <1>16 DEF EstateTypes
<1>20. ASSUME NEW q \in Process PROVE JobOk(job'[q], loaded'[q], HostOf[q], pend'[q], log')
  <2>1. JobOk(job[q], loaded[q], HostOf[q], pend[q], log) BY DEF EstateInv
  <2>2. JobOk(job[q], loaded[q], HostOf[q], pend[q], log') BY <1>18, <2>1, JobStays
  <2>3. CASE q # p BY <1>6, <1>15, <1>16, <2>2, <2>3
  <2>4. CASE q = p
    <3>1. ASSUME e # NoEstate, kind \notin {"replicate", "archive"}, NEW i \in DOMAIN rest, NEW k \in rest[i]
          PROVE  Granted(g, e, h, k, pend'[p], log')
      <4>1. Granted(j, e, h, k, pend[p], log') BY <1>1, <1>6, <1>9, <2>2, <2>4, <3>1 DEF JobOk
      <4>2. g.kind = j.kind /\ g.run = j.run BY <1>1, <1>10
      <4>3. pend'[p] = pend[p] BY <1>15, <3>1
      <4>4. QED BY <4>1, <4>2, <4>3 DEF Granted
    <3>2. g.kind = kind /\ g.left = rest BY <1>10
    <3>3. JobOk(g, e, h, pend'[p], log') BY <1>7, <1>17, <3>1, <3>2 DEF JobOk
    <3>4. QED BY <1>1, <1>6, <1>16, <2>4, <3>3
  <2>5. QED BY <2>3, <2>4
<1>21. \A a \in acts : ActOk(a, log', job', pend', died')
  <2>1. ASSUME NEW a \in acts PROVE ActOk(a, log', job', pend', died')
    <3>1. ActOk(a, log, job, pend, died) BY DEF EstateInv
    <3>2. g.run = job[p].run BY <1>1, <1>10
    <3>3. \A q \in Process : job[q] # Es!Idle => (job'[q] # Es!Idle /\ job'[q].run = job[q].run /\ pend[q] \subseteq pend'[q])
      BY <1>15, <1>16, <1>17, <3>2
    <3>4. died \subseteq died' BY <1>6
    <3>5. QED BY ONLY <3>1, <3>3, <3>4, <1>18, ActStays
  <2>2. QED BY <2>1
<1>22. acts' = acts \/ (acts' = acts \cup done /\ ~(refused # {} /\ e.enforce))
  BY <1>1, <1>2, <1>3, <1>5 DEF Es!Perform
<1>23. ASSUME acts' = acts \cup done, ~(refused # {} /\ e.enforce), NEW a \in done
       PROVE  ActOk(a, log', job', pend', died')
  <2>1. PICK k \in item : a = Es!Act(p, k, own) BY <1>5, <1>23
  <2>2. a.run = run0 /\ a.host = h /\ a.check = k /\ a.under = e /\ a.own = own BY <1>1, <2>1 DEF Es!Act
  <2>3. CASE e = NoEstate BY <2>2, <2>3 DEF ActOk
  <2>4. CASE e # NoEstate /\ Es!Allowed(e, h, k)
    <3>1. e \in Estates /\ Es!Valid(e) BY <1>7, <2>4 DEF Governed
    <3>2. Es!Truthful(e, h) BY <1>0, <1>1, <3>1 DEF Es!OwnershipAssumption
    <3>3. k \in Es!Asked BY <1>9, <2>1 DEF Asks
    <3>4. Es!Entitled(e, h, k) BY <1>0, <1>1, <2>4, <3>2, <3>3, AllowedIsEntitled
    <3>5. QED BY <2>2, <3>4 DEF ActOk
  <2>5. CASE e # NoEstate /\ ~Es!Allowed(e, h, k) /\ kind \in {"replicate", "archive"}
    <3>1. <<item>>[1] = item /\ DOMAIN <<item>> = {1} OBVIOUS
    <3>2. k \in UNION Es!Range(<<item>>) BY <2>1, <3>1 DEF Es!Range
    <3>3. k \in refused BY <1>2, <2>5, <3>2 DEF Es!Refused
    <3>4. ~e.enforce BY <1>23, <3>3
    <3>5. Note(run0, k) \in noted BY <1>4, <3>3 DEF Es!Records, Note
    <3>6. CASE kind = "replicate"
      <4>1. Note(run0, k) \in log' BY <1>12, <3>5, <3>6
      <4>2. QED BY <2>2, <3>4, <4>1 DEF ActOk
    <3>7. CASE kind = "archive"
      <4>1. own BY <1>3, <3>7
      <4>2. Note(run0, k) \in pend'[p] BY <1>15, <3>5, <3>7
      <4>3. job'[p] # Es!Idle /\ job'[p].run = run0 BY <1>10, <1>16, <1>17
      <4>4. Owed(a, job'[p], pend'[p]) BY <2>2, <4>2, <4>3 DEF Owed
      <4>5. QED BY <2>2, <3>4, <4>1, <4>4 DEF ActOk
    <3>8. QED BY <2>5, <3>6, <3>7
  <2>6. CASE e # NoEstate /\ ~Es!Allowed(e, h, k) /\ kind \notin {"replicate", "archive"}
    <3>1. Granted(j, e, h, k, pend[p], log)
      <4>1. JobOk(j, e, h, pend[p], log) BY <1>1 DEF EstateInv
      <4>2. QED BY <1>1, <1>6, <1>9, <2>1, <2>6, <4>1 DEF JobOk
    <3>2. ~e.enforce /\ Note(run0, k) \in (IF kind \in {"finalize", "restore"} THEN pend[p] ELSE log)
      BY <1>1, <2>6, <3>1 DEF Granted
    <3>3. CASE kind \in {"finalize", "restore"}
      <4>1. own BY <1>3, <3>3
      <4>2. Note(run0, k) \in pend'[p] BY <1>15, <3>2, <3>3
      <4>3. job'[p] # Es!Idle /\ job'[p].run = run0 BY <1>10, <1>16, <1>17
      <4>4. Owed(a, job'[p], pend'[p]) BY <2>2, <4>2, <4>3 DEF Owed
      <4>5. QED BY <2>2, <3>2, <4>1, <4>4 DEF ActOk
    <3>4. CASE kind \notin {"finalize", "restore"}
      <4>1. Note(run0, k) \in log' BY <1>18, <3>2, <3>4
      <4>2. QED BY <2>2, <3>2, <4>1 DEF ActOk
    <3>5. QED BY <3>3, <3>4
  <2>7. QED BY <2>3, <2>4, <2>5, <2>6
<1>24. \A a \in acts' : ActOk(a, log', job', pend', died') BY <1>21, <1>22, <1>23
<1>25. QED BY <1>19, <1>20, <1>24 DEF EstateInv

LEMMA EstateKeeps ==
  ASSUME EstateInv, Es!OwnershipAssumption, Es!Next PROVE EstateInv'
<1>0. \A c \in Commands : c.kind \in Es!Kinds /\ c.items \in Seq(Asks) BY DEF Es!OwnershipAssumption, Asks
<1>1. ASSUME NEW h \in Host, NEW e \in Estates, Es!Deploy(h, e) PROVE EstateInv' BY <1>1, DeployKeeps
<1>2. ASSUME NEW p \in Process, Es!Begin(p) PROVE EstateInv'
  <2>1. PICK c \in Commands : c.kind \notin {"replicate", "archive"} /\ Es!BeginChecked(p, c.kind, c.items)
    BY <1>2 DEF Es!Begin
  <2>2. QED BY <1>0, <2>1, CheckedKeeps
<1>3. ASSUME NEW p \in Process, Es!ApplyPlanned(p) PROVE EstateInv'
  <2>1. HostOf[p] \in Host BY DEF Es!OwnershipAssumption
  <2>2. manifest[HostOf[p]] \in Seq(Asks) BY <2>1 DEF EstateInv, EstateTypes
  <2>3. "apply" \in Es!Kinds \ {"replicate", "archive"} BY DEF Es!Kinds
  <2>4. QED BY <1>3, <2>2, <2>3, CheckedKeeps DEF Es!ApplyPlanned
<1>4. ASSUME NEW p \in Process, NEW c \in Commands, Es!BeginRunner(p, c.kind, c.items) PROVE EstateInv'
  BY <1>0, <1>4, RunnerKeeps
<1>5. ASSUME NEW p \in Process, Es!Perform(p) PROVE EstateInv' BY <1>5, PerformKeeps
<1>6. ASSUME NEW p \in Process, Es!Finish(p) \/ Es!Exit(p) \/ Es!Crash(p) PROVE EstateInv' BY <1>6, EndsKeeps
<1>7. QED BY <1>1, <1>2, <1>3, <1>4, <1>5, <1>6 DEF Es!Next

LEMMA ActsAreOwners == ASSUME EstateInv PROVE Es!OwnersOnly
<1>1. ASSUME NEW a \in acts
      PROVE  \/ a.under = NoEstate
             \/ Es!Entitled(a.under, a.host, a.check)
             \/ /\ ~a.under.enforce
                /\ Es!Recorded(a) \/ (a.own /\ (Es!Left(a) \/ a.run \in died))
  <2>1. ActOk(a, log, job, pend, died) BY DEF EstateInv
  <2>2. Note(a.run, a.check) \in log => Es!Recorded(a) BY DEF Note, Es!Recorded
  <2>3. (\E p \in Process : Owed(a, job[p], pend[p])) => Es!Left(a) BY DEF Owed, Es!Left
  <2>4. QED BY <2>1, <2>2, <2>3 DEF ActOk
<1>2. QED BY <1>1 DEF Es!OwnersOnly

-----------------------------------------------------------------------------
(* HealthReport.  Levels and times.                                           *)
When == Nat \cup {Never}

LEMMA NotLateIsFresh ==
  ASSUME clock \in Nat, NEW at \in When, NEW max \in Nat PROVE ~He!Late(at, max) <=> He!Fresh(at, max)
BY DEF When, He!Late, He!Fresh

LEMMA WorstOfReport ==
  ASSUME NEW L, L \subseteq He!Level, L # {}
  PROVE  He!WorstLevel(L) \in L /\ \A k \in L : He!Rank[k] <= He!Rank[He!WorstLevel(L)]
<1>1. \E l \in L : \A k \in L : He!Rank[k] <= He!Rank[l]
  <2>1. /\ He!Rank["ok"] = 0 /\ He!Rank["skipped"] = 0 /\ He!Rank["unknown"] = 1
        /\ He!Rank["warn"] = 2 /\ He!Rank["fail"] = 3
    BY DEF He!Rank
  <2>2. CASE "fail" \in L BY <2>1, <2>2 DEF He!Level
  <2>3. CASE "fail" \notin L /\ "warn" \in L BY <2>1, <2>3 DEF He!Level
  <2>4. CASE {"fail", "warn"} \cap L = {} /\ "unknown" \in L BY <2>1, <2>4 DEF He!Level
  <2>5. CASE {"fail", "warn", "unknown"} \cap L = {}
    <3>1. \A k \in L : He!Rank[k] = 0 BY <2>1, <2>5 DEF He!Level
    <3>2. QED BY <3>1
  <2>6. QED BY <2>2, <2>3, <2>4, <2>5
<1>2. He!WorstLevel(L) = CHOOSE l \in L : \A k \in L : He!Rank[k] <= He!Rank[l] BY DEF He!WorstLevel
<1>3. QED BY <1>1, <1>2

(* Levels whose worst is not bad are not bad.                                 *)
Bad == {"unknown", "warn", "fail"}
LEMMA WorstIsNotBad ==
  ASSUME NEW L, L \subseteq He!Level, L # {}, He!WorstLevel(L) \notin Bad
  PROVE  \A k \in L : k \notin Bad
<1>1. He!WorstLevel(L) \in {"ok", "skipped"} BY WorstOfReport DEF Bad, He!Level
<1>2. He!Rank[He!WorstLevel(L)] = 0 BY <1>1 DEF He!Rank
<1>3. \A k \in L : He!Rank[k] <= 0 BY <1>2, WorstOfReport
<1>4. He!Rank["unknown"] = 1 /\ He!Rank["warn"] = 2 /\ He!Rank["fail"] = 3 BY DEF He!Rank
<1>5. QED BY <1>3, <1>4 DEF Bad

(* The state of the machine that is reported on.                              *)
ReportTypes ==
  /\ clock \in He!Time /\ clock \in Nat
  /\ scanned \in [Root -> When] /\ left \subseteq Root
  /\ claims \in Nat /\ counted \in [He!Time -> SUBSET Nat]
  /\ mount \in [He!Mount -> He!MountState]
  /\ peer \in [Peer -> [payload : BOOLEAN, imported : When, verified : When, scanned : When]]
  /\ exported \in When

(* What is cached was counted, and no later than now.                         *)
CacheCounts ==
  /\ claims \in counted[clock]
  /\ cache.at # Never => /\ cache.at \in He!Time /\ cache.at <= clock
                         /\ cache.counts \in counted[cache.at]

MachineInv == ReportTypes /\ CacheCounts /\ He!OkIsTrue

LEMMA MachineInitial == ASSUME He!HealthAssumption, He!Init PROVE MachineInv
<1>1. 0 \in He!Time /\ 0 \in Nat BY DEF He!HealthAssumption, He!Time
<1>2. [payload |-> TRUE, imported |-> 0, verified |-> 0, scanned |-> 0]
        \in [payload : BOOLEAN, imported : When, verified : When, scanned : When]
  BY DEF When
<1>3. He!Fine \in He!MountState BY DEF He!MountState, He!Fine, He!Readable
<1>4. ReportTypes
  <2>1. scanned \in [Root -> When] BY <1>1 DEF He!Init, When
  <2>2. peer \in [Peer -> [payload : BOOLEAN, imported : When, verified : When, scanned : When]] BY <1>2 DEF He!Init
  <2>3. QED BY <1>1, <1>3, <2>1, <2>2 DEF ReportTypes, He!Init, When
<1>5. CacheCounts BY <1>1 DEF CacheCounts, He!Init
<1>6. DOMAIN report.levels = {} BY DEF He!Init, He!NoReport
<1>7. He!OkIsTrue BY <1>6 DEF He!OkIsTrue
<1>8. QED BY <1>4, <1>5, <1>7 DEF MachineInv

-----------------------------------------------------------------------------
(* Token by token: one that is ok is true.                                    *)
LEMMA StaleScanTrue ==
  ASSUME ReportTypes, He!HealthAssumption, NEW f, He!StaleScan(f) = "ok" PROVE He!Holds("stale_scan")
<1>1. PICK rows : rows = He!ScanFreshness(f) OBVIOUS
<1>2. rows # {} /\ (\A row \in rows : ~He!Late(row.finished, ScanMaxAge)) /\ (\A row \in rows : ~row.unfinished)
  BY <1>1 DEF He!StaleScan
<1>3. rows = {[finished |-> scanned[r], unfinished |-> r \in left] :
          r \in {q \in Root : scanned[q] # Never \/ q \in left}}
  BY <1>1, <1>2 DEF He!ScanFreshness
<1>4. ASSUME NEW r \in Root, scanned[r] # Never \/ r \in left
      PROVE  ~He!Late(scanned[r], ScanMaxAge) /\ r \notin left
  <2>1. PICK row : row = [finished |-> scanned[r], unfinished |-> r \in left] OBVIOUS
  <2>2. row \in rows BY <1>3, <1>4, <2>1
  <2>3. QED BY <1>2, <2>1, <2>2
<1>5. left = {} BY <1>4 DEF ReportTypes
<1>6. ASSUME NEW r \in Root, scanned[r] # Never PROVE He!Fresh(scanned[r], ScanMaxAge)
  BY <1>4, <1>6, NotLateIsFresh DEF ReportTypes, He!HealthAssumption
<1>7. QED BY <1>5, <1>6 DEF He!Holds

LEMMA BrokenAuditTrue == ASSUME NEW p, He!BrokenAudit(p) = "ok" PROVE He!Holds("broken_audit")
<1>1. CASE "quick" \in p BY <1>1 DEF He!BrokenAudit, He!Inventory
<1>2. CASE "quick" \notin p
  <2>1. He!Inventory(p).audit = (IF intact THEN "ok" ELSE "fail") BY <1>2 DEF He!Inventory
  <2>2. CASE intact BY <2>2 DEF He!Holds
  <2>3. CASE ~intact
    <3>1. He!Inventory(p).audit = "fail" BY <2>1, <2>3
    <3>2. QED BY <3>1 DEF He!BrokenAudit
  <2>4. QED BY <2>2, <2>3
<1>3. QED BY <1>1, <1>2

LEMMA FpNotReadyTrue == ASSUME NEW p, NEW f, He!FpNotReady(p, f) = "ok" PROVE He!Holds("fp_not_ready")
<1>1. He!FpSection(p, f) = {He!FpStatus} /\ He!FpStatus.ready BY DEF He!FpNotReady, He!FpSection
<1>2. He!Problems = {} /\ He!Mounted BY <1>1 DEF He!FpStatus
<1>3. He!Pairs # "store_only" /\ (He!DomainUnlinked => He!Layout = "external_drive_fp")
  BY <1>2 DEF He!Problems
<1>4. "cloud_mount_gone" \notin trouble BY <1>2 DEF He!Mounted
<1>5. "cloud_unpaired" \in trouble => "cloud_store_gone" \in trouble
  BY <1>3 DEF He!Pairs, He!Stored
<1>6. "cloud_unlinked" \in trouble => trouble \cap {"cloud_store_gone", "cloud_one_volume"} = {}
  BY <1>2, <1>3 DEF He!DomainUnlinked, He!Layout, He!Stored
<1>7. QED BY <1>4, <1>5, <1>6 DEF He!Holds

LEMMA DualPresenceTrue == ASSUME NEW p, He!DualPresencePoor(p) = "ok" PROVE He!Holds("dual_presence_poor")
<1>1. He!PresenceCounts.dual # 0 BY DEF He!DualPresencePoor
<1>2. He!Pairs = "both" BY <1>1 DEF He!PresenceCounts
<1>3. He!Stored /\ He!Mounted /\ "cloud_unpaired" \notin trouble BY <1>2 DEF He!Pairs
<1>4. QED BY <1>3 DEF He!Holds, He!Stored, He!Mounted

LEMMA FpSyncStuckTrue == ASSUME NEW p, NEW f, He!FpSyncStuck(p, f) = "ok" PROVE He!Holds("fp_sync_stuck")
BY DEF He!FpSyncStuck, He!DomainLevel, He!Holds

LEMMA UnaccountedTrue == ASSUME NEW p, NEW f, He!UnaccountedSpace(p, f) = "ok" PROVE He!Holds("unaccounted_space")
BY DEF He!UnaccountedSpace, He!Holds

LEMMA ForeignAttachTrue ==
  ASSUME NEW p, NEW f, He!ForeignAttach(p, f) = "ok"
  PROVE  "forbidden_mount" \notin trouble /\ ("foreign_image" \in trouble => f = "hdiutil")
<1>1. PICK s : s = He!EstateSection(p, f) OBVIOUS
<1>2. s.foreign = {} BY <1>1 DEF He!ForeignAttach
<1>3. s.foreign = {x \in trouble \cap {"forbidden_mount", "foreign_image"} : x = "foreign_image" => f # "hdiutil"}
  BY <1>1 DEF He!EstateSection
<1>4. QED BY <1>2, <1>3

LEMMA EstateBindingTrue == ASSUME NEW p, NEW f, He!EstateBinding(p, f) = "ok" PROVE He!Holds("estate_binding")
<1>1. He!EstateSection(p, f).host /\ He!EstateSection(p, f).bound BY DEF He!EstateBinding
<1>2. "not_a_host" \notin trouble /\ "wrong_db" \notin trouble BY <1>1 DEF He!EstateSection
<1>3. QED BY <1>2 DEF He!Holds

(* Every declared mount is among what is probed, when there are not too many. *)
LEMMA DeclaredIsProbed ==
  ASSUME He!HealthAssumption, Len(DeclaredMounts) <= MaxProbes, NEW p, NEW f, He!Probed(p, f) # {},
         NEW m \in He!Range(DeclaredMounts)
  PROVE  m \in He!Probed(p, f)
<1>1. PICK U : U = {u \in Unmanaged : mount[u].present} OBVIOUS
<1>2. IsFiniteSet(U)
  <2>1. U \in SUBSET Unmanaged /\ IsFiniteSet(Unmanaged)
    BY <1>1 DEF He!HealthAssumption, He!IsFiniteSet, IsFiniteSet
  <2>2. QED BY ONLY <2>1, FS_Subset
<1>3. PICK n : n = Cardinality(U) OBVIOUS
<1>4. n \in Nat /\ ExistsBijection(1..n, U) BY <1>2, <1>3, FS_CardinalityType
<1>5. \E g \in [1..n -> U] : He!IsInjective(g)
  <2>1. PICK g : g \in Bijection(1..n, U) BY <1>4 DEF ExistsBijection
  <2>2. g \in [1..n -> U] /\ \A a, b \in 1..n : g[a] = g[b] => a = b
    BY <2>1 DEF Bijection, Injection, IsInjective
  <2>3. QED BY <2>2 DEF He!IsInjective
<1>6. He!SetToSeq(U) \in [1..n -> U]
  <2>1. He!Cardinality(U) = Cardinality(U) BY DEF He!Cardinality, Cardinality
  <2>2. He!SetToSeq(U) = CHOOSE g \in [1..n -> U] : He!IsInjective(g) BY <1>3, <2>1 DEF He!SetToSeq
  <2>3. QED BY <1>5, <2>2
<1>7. PICK s : s = He!SetToSeq(U) OBVIOUS
<1>8. PICK d : d = DeclaredMounts OBVIOUS
<1>9. d \in Seq(He!Range(d)) BY <1>8 DEF He!HealthAssumption
<1>10. PICK X : X = He!Range(d) \cup U OBVIOUS
<1>11. d \in Seq(X) /\ s \in Seq(X) BY <1>4, <1>6, <1>7, <1>9, <1>10
<1>12. He!CandidateRoots = d \o s BY <1>1, <1>7, <1>8 DEF He!CandidateRoots
<1>13. PICK i \in DOMAIN d : d[i] = m BY <1>8 DEF He!Range
<1>14. i \in DOMAIN (d \o s) /\ (d \o s)[i] = m /\ i <= Len(d) BY <1>9, <1>11, <1>13
<1>15. i <= MaxProbes BY <1>8, <1>9, <1>13, <1>14 DEF He!HealthAssumption
<1>16. He!Probed(p, f) = {He!CandidateRoots[j] : j \in {k \in DOMAIN He!CandidateRoots : k <= MaxProbes}}
  BY DEF He!Probed
<1>17. i \in {k \in DOMAIN He!CandidateRoots : k <= MaxProbes} BY <1>12, <1>14, <1>15
<1>18. QED BY <1>12, <1>14, <1>16, <1>17

LEMMA MountMissingTrue ==
  ASSUME He!HealthAssumption, Len(DeclaredMounts) <= MaxProbes, NEW p, NEW f, He!MountMissing(p, f) = "ok"
  PROVE  He!Holds("mount_missing")
<1>1. PICK absent : absent = {m \in He!Probed(p, f) : ~mount[m].present} OBVIOUS
<1>2. He!Probed(p, f) # {} /\ absent = {} BY <1>1 DEF He!MountMissing
<1>3. \A m \in He!Range(DeclaredMounts) : mount[m].present BY <1>1, <1>2, DeclaredIsProbed
<1>4. QED BY <1>3 DEF He!Holds

(* A readable, writable volume whose level is not bad has room and answers.   *)
LEMMA ProbeLevelTrue ==
  ASSUME ReportTypes, He!HealthAssumption, NEW m \in He!Range(DeclaredMounts), mount[m].present,
         ~mount[m].link, ~mount[m].readonly, He!ProbeLevel(m) \notin Bad
  PROVE  /\ mount[m].free # Unread /\ mount[m].free >= BytesWarn /\ ~mount[m].slow
         /\ mount[m].total # 0 => mount[m].free <= mount[m].total
<1>1. PICK v : v = mount[m] OBVIOUS
<1>2. m \in He!Mount /\ m \notin Unmanaged BY DEF He!Mount, He!HealthAssumption
<1>3. v.free \in Int \cup {Unread} /\ v.total \in Nat \cup {Unread} /\ (v.total = Unread => v.free = Unread)
  <2>1. v \in He!MountState BY <1>1, <1>2 DEF ReportTypes
  <2>2. {Total, BytesWarn, BytesFail} \subseteq Nat BY DEF He!HealthAssumption
  <2>3. \/ v.free \in Int /\ v.total \in Nat
        \/ v.free = Unread /\ v.total = Unread
    <3>1. \A free, total : /\ He!Readable(free, total).free = free
                          /\ He!Readable(free, total).total = total
      BY DEF He!Readable
    <3>2. CASE \E free \in {Total, BytesWarn - 1, BytesFail - 1, Total + 1} : v = He!Readable(free, Total)
      BY <2>2, <3>1, <3>2
    <3>3. CASE v \in {He!Readable(Total, 0), He!Readable(Unread, Unread)} BY <2>2, <3>1, <3>3
    <3>4. CASE v \in {[He!Fine EXCEPT !.slow = TRUE], [He!Readable(0, Total) EXCEPT !.readonly = TRUE],
                      [He!Readable(0, Total) EXCEPT !.link = TRUE],
                      [He!Readable(Unread, Unread) EXCEPT !.present = FALSE]}
      BY <2>2, <3>4 DEF He!Readable, He!Fine
    <3>5. QED BY <2>1, <3>2, <3>3, <3>4 DEF He!MountState
  <2>4. Unread \notin Nat BY DEF He!HealthAssumption
  <2>5. QED BY <2>3, <2>4
<1>4. PICK L : L = {He!FreeSpaceLevel(v.free, v.total), IF v.slow THEN "warn" ELSE "ok", "ok"} OBVIOUS
<1>5. He!ProbeLevel(m) = He!WorstLevel(L) BY <1>1, <1>2, <1>4 DEF He!ProbeLevel
<1>6. L \subseteq He!Level BY <1>4 DEF He!Level, He!FreeSpaceLevel
<1>7. \A k \in L : k \notin Bad BY <1>4, <1>5, <1>6, WorstIsNotBad
<1>8. He!FreeSpaceLevel(v.free, v.total) \notin Bad BY <1>4, <1>7
<1>9. ~v.slow BY <1>4, <1>7 DEF Bad
<1>10. v.free # Unread /\ ~(v.total # Unread /\ v.total > 0 /\ v.free > v.total) /\ ~(v.free < BytesWarn)
  BY <1>8 DEF He!FreeSpaceLevel, Bad
<1>11. BytesWarn \in Nat BY DEF He!HealthAssumption
<1>12. QED BY <1>1, <1>3, <1>9, <1>10, <1>11

LEMMA MountLowTrue ==
  ASSUME ReportTypes, He!HealthAssumption, Len(DeclaredMounts) <= MaxProbes, NEW p, NEW f,
         He!MountLow(p, f) = "ok"
  PROVE  He!Holds("mount_low")
<1>1. PICK levels : levels = {He!ProbeLevel(m) : m \in {n \in He!Probed(p, f) : mount[n].present}} OBVIOUS
<1>2. levels # {} /\ levels \cap Bad = {} BY <1>1 DEF He!MountLow, Bad
<1>3. He!Probed(p, f) # {} BY <1>1, <1>2
<1>4. ASSUME NEW m \in He!Range(DeclaredMounts), mount[m].present, ~mount[m].link, ~mount[m].readonly
      PROVE  /\ mount[m].free # Unread /\ mount[m].free >= BytesWarn /\ ~mount[m].slow
             /\ mount[m].total # 0 => mount[m].free <= mount[m].total
  <2>1. m \in He!Probed(p, f) BY <1>3, DeclaredIsProbed
  <2>2. He!ProbeLevel(m) \in levels BY <1>1, <1>4, <2>1
  <2>3. He!ProbeLevel(m) \notin Bad BY <1>2, <2>2
  <2>4. QED BY <1>4, <2>3, ProbeLevelTrue
<1>5. QED BY <1>4 DEF He!Holds

(* The fleet: a row that is in order belongs to a machine that is.            *)
LEMMA PeerTypes ==
  ASSUME ReportTypes, NEW x \in Peer
  PROVE  peer[x].payload \in BOOLEAN /\ peer[x].imported \in When /\ peer[x].verified \in When /\ peer[x].scanned \in When
BY DEF ReportTypes

LEMMA FleetRows ==
  ASSUME NEW p, NEW f, f # "imports"
  PROVE  /\ He!Rows(p, f) = {He!LocalRow(p)} \cup {He!AttachedRow(peer[x], f) : x \in Peer}
         /\ He!LocalRow(p) \in He!Rows(p, f)
         /\ \A x \in Peer : He!AttachedRow(peer[x], f) \in He!Rows(p, f)
<1>1. He!Rows(p, f) = {He!LocalRow(p)} \cup {He!AttachedRow(peer[x], f) : x \in Peer} BY DEF He!Rows
<1>2. QED BY <1>1

LEMMA FleetStaleScanTrue ==
  ASSUME ReportTypes, He!HealthAssumption, NEW p, NEW f, f # "imports",
         He!FleetStaleScan(He!Rows(p, f)) = "ok"
  PROVE  He!Holds("fleet_stale_scan")
<1>1. \A r \in He!Rows(p, f) : r.scan # "fail" BY DEF He!FleetStaleScan
<1>2. \E r \in Root : He!Fresh(scanned[r], ScanMaxAge)
  <2>1. He!LocalRow(p).scan # "fail" BY <1>1, FleetRows
  <2>2. ~(\A r \in Root : He!Late(scanned[r], ScanMaxAge)) BY <2>1 DEF He!LocalRow
  <2>3. PICK r \in Root : ~He!Late(scanned[r], ScanMaxAge) BY <2>2
  <2>4. QED BY <2>3, NotLateIsFresh DEF ReportTypes, He!HealthAssumption
<1>3. ASSUME NEW x \in Peer PROVE peer[x].payload /\ He!Fresh(peer[x].scanned, ScanMaxAge)
  <2>1. He!AttachedRow(peer[x], f).scan # "fail" BY <1>1, FleetRows
  <2>2. ~(~peer[x].payload \/ He!Late(peer[x].scanned, ScanMaxAge)) BY <2>1 DEF He!AttachedRow
  <2>3. ~He!Late(peer[x].scanned, ScanMaxAge) BY <2>2
  <2>4. He!Fresh(peer[x].scanned, ScanMaxAge)
    BY <2>3, NotLateIsFresh, PeerTypes DEF ReportTypes, He!HealthAssumption
  <2>5. QED BY <2>2, <2>4
<1>4. QED BY <1>2, <1>3 DEF He!Holds

LEMMA FleetChainTrue ==
  ASSUME ReportTypes, He!HealthAssumption, NEW p, NEW f, f # "imports",
         He!FleetChainStale(He!Rows(p, f)) = "ok"
  PROVE  He!Holds("fleet_chain_stale")
<1>1. PICK chains : chains = {r.chain : r \in He!Rows(p, f)} OBVIOUS
<1>2. "fail" \notin chains /\ "warn" \notin chains BY <1>1 DEF He!FleetChainStale
<1>3. ASSUME NEW x \in Peer PROVE peer[x].payload /\ He!Fresh(peer[x].verified, AttachedMaxAge)
  <2>1. He!AttachedRow(peer[x], f).chain \in chains BY <1>1, FleetRows
  <2>2. He!AttachedRow(peer[x], f).chain \notin {"fail", "warn"} BY <1>2, <2>1
  <2>3. peer[x].payload /\ ~He!Late(peer[x].verified, AttachedMaxAge) BY <2>2 DEF He!AttachedRow
  <2>4. He!Fresh(peer[x].verified, AttachedMaxAge)
    BY <2>3, NotLateIsFresh, PeerTypes DEF ReportTypes, He!HealthAssumption
  <2>5. QED BY <2>3, <2>4
<1>4. QED BY <1>3 DEF He!Holds

LEMMA EnvelopeTrue ==
  ASSUME ReportTypes, He!HealthAssumption, NEW p, NEW f, f # "imports",
         He!EnvelopeSla(He!Rows(p, f)) = "ok"
  PROVE  He!Holds("envelope_sla")
<1>1. PICK L : L = {r.envelope : r \in He!Rows(p, f)} OBVIOUS
<1>2. He!LocalRow(p).envelope \in L /\ \A x \in Peer : He!AttachedRow(peer[x], f).envelope \in L
  BY <1>1, FleetRows
<1>3. L \subseteq He!Level
  <2>1. He!LocalRow(p).envelope \in He!Level BY DEF He!LocalRow, He!Level
  <2>2. \A x \in Peer : He!AttachedRow(peer[x], f).envelope \in He!Level BY DEF He!AttachedRow, He!Level
  <2>3. QED BY <1>1, <2>1, <2>2, FleetRows
<1>4. \A k \in L : k \notin Bad BY <1>1, <1>2, <1>3, WorstIsNotBad DEF He!EnvelopeSla, Bad
<1>5. He!Fresh(exported, EnvelopeMaxAge)
  <2>1. He!LocalRow(p).envelope \notin Bad BY <1>2, <1>4
  <2>2. ~He!Late(exported, EnvelopeMaxAge) /\ exported # Never BY <2>1 DEF He!LocalRow, Bad
  <2>3. QED BY <2>2, NotLateIsFresh DEF ReportTypes, He!HealthAssumption
<1>6. ASSUME NEW x \in Peer PROVE peer[x].payload /\ He!Fresh(peer[x].imported, AttachedMaxAge)
  <2>1. He!AttachedRow(peer[x], f).envelope \notin Bad BY <1>2, <1>4
  <2>2. ~(~peer[x].payload \/ He!Late(peer[x].imported, AttachedMaxAge)) BY <2>1 DEF He!AttachedRow, Bad
  <2>3. He!Fresh(peer[x].imported, AttachedMaxAge)
    BY <2>2, NotLateIsFresh, PeerTypes DEF ReportTypes, He!HealthAssumption
  <2>4. QED BY <2>2, <2>3
<1>7. QED BY <1>5, <1>6 DEF He!Holds

LEMMA AttachedMissingTrue ==
  ASSUME NEW p, NEW f, f # "imports", He!AttachedMissing(He!Rows(p, f)) = "ok"
  PROVE  He!Holds("attached_missing")
<1>1. ASSUME NEW x \in Peer PROVE peer[x].payload
  <2>1. ~(~He!AttachedRow(peer[x], f).payload) BY FleetRows DEF He!AttachedMissing
  <2>2. He!AttachedRow(peer[x], f).payload = peer[x].payload BY DEF He!AttachedRow
  <2>3. QED BY <2>1, <2>2
<1>2. QED BY <1>1 DEF He!Holds

(* Every token of a report, with what its level comes from.                   *)
FleetTokens == {"fleet_stale_scan", "fleet_chain_stale", "envelope_sla", "attached_missing"}
OkBy(t, p, f) ==
  \/ t = "stale_scan" /\ He!StaleScan(f) = "ok"
  \/ t = "broken_audit" /\ He!BrokenAudit(p) = "ok"
  \/ t = "stash_overdue"
  \/ t = "fp_not_ready" /\ He!FpNotReady(p, f) = "ok"
  \/ t = "rollup_stale"
  \/ t = "dual_presence_poor" /\ He!DualPresencePoor(p) = "ok"
  \/ t = "mount_missing" /\ He!MountMissing(p, f) = "ok"
  \/ t = "mount_low" /\ He!MountLow(p, f) = "ok"
  \/ t = "fp_sync_stuck" /\ He!FpSyncStuck(p, f) = "ok"
  \/ t = "unaccounted_space" /\ He!UnaccountedSpace(p, f) = "ok"
  \/ t = "foreign_attach" /\ He!ForeignAttach(p, f) = "ok"
  \/ t = "estate_binding" /\ He!EstateBinding(p, f) = "ok"
  \/ t = "fleet_stale_scan" /\ He!FleetStaleScan(He!Rows(p, f)) = "ok"
  \/ t = "fleet_chain_stale" /\ He!FleetChainStale(He!Rows(p, f)) = "ok"
  \/ t = "envelope_sla" /\ He!EnvelopeSla(He!Rows(p, f)) = "ok"
  \/ t = "attached_missing" /\ He!AttachedMissing(He!Rows(p, f)) = "ok"

LEMMA LevelOf ==
  ASSUME NEW p, NEW f, NEW levels, levels = He!Joined(He!Checks(p, f), He!FleetSection(p, f)),
         NEW t \in DOMAIN levels, levels[t] = "ok"
  PROVE  OkBy(t, p, f)
<1>1. PICK a, b : a = He!Checks(p, f) /\ b = He!FleetSection(p, f) OBVIOUS
<1>2. levels = [x \in DOMAIN a \cup DOMAIN b |-> IF x \in DOMAIN a THEN a[x] ELSE b[x]]
  BY <1>1 DEF He!Joined
<1>3. t \in DOMAIN a \cup DOMAIN b /\ (IF t \in DOMAIN a THEN a[t] ELSE b[t]) = "ok" BY <1>2
<1>4. CASE t \in DOMAIN a
  <2>1. a[t] = "ok" BY <1>3, <1>4
  <2>2. t \in {"stale_scan", "broken_audit", "stash_overdue", "fp_not_ready", "rollup_stale",
               "dual_presence_poor", "mount_missing", "mount_low", "fp_sync_stuck",
               "unaccounted_space", "foreign_attach", "estate_binding"}
    BY <1>1, <1>4 DEF He!Checks
  <2>3. /\ a["stale_scan"] = He!StaleScan(f) /\ a["broken_audit"] = He!BrokenAudit(p)
        /\ a["fp_not_ready"] = He!FpNotReady(p, f) /\ a["dual_presence_poor"] = He!DualPresencePoor(p)
        /\ a["mount_missing"] = He!MountMissing(p, f) /\ a["mount_low"] = He!MountLow(p, f)
        /\ a["fp_sync_stuck"] = He!FpSyncStuck(p, f) /\ a["unaccounted_space"] = He!UnaccountedSpace(p, f)
        /\ a["foreign_attach"] = He!ForeignAttach(p, f) /\ a["estate_binding"] = He!EstateBinding(p, f)
    BY <1>1 DEF He!Checks
  <2>4. QED BY ONLY <2>1, <2>2, <2>3 DEF OkBy
<1>5. CASE t \notin DOMAIN a
  <2>1. t \in DOMAIN b /\ b[t] = "ok" BY <1>3, <1>5
  <2>2. b = He!FleetChecks(p, f) BY <1>1, <2>1 DEF He!FleetSection
  <2>3. t \in FleetTokens BY <2>1, <2>2 DEF He!FleetChecks, FleetTokens
  <2>4. PICK rows : rows = He!Rows(p, f) OBVIOUS
  <2>5. /\ b["fleet_stale_scan"] = He!FleetStaleScan(rows) /\ b["fleet_chain_stale"] = He!FleetChainStale(rows)
        /\ b["envelope_sla"] = He!EnvelopeSla(rows) /\ b["attached_missing"] = He!AttachedMissing(rows)
    BY <2>2, <2>4 DEF He!FleetChecks
  <2>6. QED BY <2>1, <2>3, <2>4, <2>5 DEF OkBy, FleetTokens
<1>6. QED BY <1>3, <1>4, <1>5

LEMMA TokenTrue ==
  ASSUME ReportTypes, He!HealthAssumption, Len(DeclaredMounts) <= MaxProbes, NEW p, NEW f, NEW t,
         OkBy(t, p, f), f = "imports" => t \notin FleetTokens, t \notin {"rollup_stale", "foreign_attach"}
  PROVE  He!Holds(t)
<1>1. CASE t = "stale_scan" BY <1>1, StaleScanTrue DEF OkBy
<1>2. CASE t = "broken_audit" BY <1>2, BrokenAuditTrue DEF OkBy
<1>3. CASE t = "stash_overdue" BY <1>3 DEF He!Holds
<1>4. CASE t = "fp_not_ready" BY <1>4, FpNotReadyTrue DEF OkBy
<1>5. CASE t = "dual_presence_poor" BY <1>5, DualPresenceTrue DEF OkBy
<1>6. CASE t = "mount_missing" BY <1>6, MountMissingTrue DEF OkBy
<1>7. CASE t = "mount_low" BY <1>7, MountLowTrue DEF OkBy
<1>8. CASE t = "fp_sync_stuck" BY <1>8, FpSyncStuckTrue DEF OkBy
<1>9. CASE t = "unaccounted_space" BY <1>9, UnaccountedTrue DEF OkBy
<1>10. CASE t = "estate_binding" BY <1>10, EstateBindingTrue DEF OkBy
<1>11. CASE t = "fleet_stale_scan" BY <1>11, FleetStaleScanTrue DEF OkBy, FleetTokens
<1>12. CASE t = "fleet_chain_stale" BY <1>12, FleetChainTrue DEF OkBy, FleetTokens
<1>13. CASE t = "envelope_sla" BY <1>13, EnvelopeTrue DEF OkBy, FleetTokens
<1>14. CASE t = "attached_missing" BY <1>14, AttachedMissingTrue DEF OkBy, FleetTokens
<1>15. QED
  BY <1>1, <1>2, <1>3, <1>4, <1>5, <1>6, <1>7, <1>8, <1>9, <1>10, <1>11, <1>12, <1>13, <1>14 DEF OkBy

(* The counts of a report were true no longer ago than the cache is used.     *)
LEMMA CountsWereTrue ==
  ASSUME ReportTypes, CacheCounts, He!HealthAssumption, NEW c \in {claims, He!Counts}
  PROVE  \E at \in He!Time : at <= clock /\ clock - at <= RollupMaxAge /\ c \in counted[at]
<1>1. CASE c = claims
  <2>1. clock \in He!Time /\ clock <= clock /\ clock - clock <= RollupMaxAge /\ c \in counted[clock]
    BY <1>1 DEF ReportTypes, CacheCounts, He!HealthAssumption
  <2>2. QED BY <2>1
<1>2. CASE c # claims BY <1>2 DEF ReportTypes, CacheCounts, He!Counts, He!FromCache
<1>3. QED BY <1>1, <1>2

(* What does not depend on the report stays true while it is taken.           *)
LEMMA HoldsStays ==
  ASSUME NEW t, He!Holds(t), t \notin {"rollup_stale", "foreign_attach"},
         UNCHANGED <<clock, scanned, left, intact, mount, peer, exported, trouble>>
  PROVE  He!Holds(t)'
BY DEF He!Holds, He!Fresh

LEMMA CollectKeeps ==
  ASSUME MachineInv, He!HealthAssumption, Len(DeclaredMounts) <= MaxProbes, He!Collect PROVE MachineInv'
<1>0. ReportTypes /\ CacheCounts BY DEF MachineInv
<1>1. UNCHANGED <<clock, scanned, left, claims, counted, intact, flight, mount, peer, exported, trouble, events>>
  BY DEF He!Collect
<1>2. PICK q \in HealthRequests :
        \E levels \in {He!Joined(He!Checks(q.profile, q.fault), He!FleetSection(q.profile, q.fault))} :
            /\ cache' = IF "refresh" \in q.profile THEN [counts |-> claims, at |-> clock] ELSE cache
            /\ report' =
                 [levels |-> levels, request |-> q,
                  counts |-> IF "refresh" \in q.profile THEN claims ELSE He!Inventory(q.profile).counts,
                  overall |-> He!WorstLevel({levels[t] : t \in DOMAIN levels}
                                            \cup He!AttachedImports(q.profile, q.fault))]
  BY DEF He!Collect
<1>3. PICK p, f : p = q.profile /\ f = q.fault OBVIOUS
<1>4. PICK levels : levels = He!Joined(He!Checks(p, f), He!FleetSection(p, f)) OBVIOUS
<1>5. PICK c : c = IF "refresh" \in p THEN claims ELSE He!Inventory(p).counts OBVIOUS
<1>6. report'.levels = levels /\ report'.request = q /\ report'.counts = c BY <1>2, <1>3, <1>4, <1>5
<1>7. c \in {claims, He!Counts} BY <1>5 DEF He!Inventory
<1>8. ReportTypes' BY <1>0, <1>1 DEF ReportTypes
<1>9. CacheCounts'
  <2>1. cache' = [counts |-> claims, at |-> clock] \/ cache' = cache BY <1>2
  <2>2. claims' \in counted'[clock'] BY <1>0, <1>1 DEF CacheCounts
  <2>3. CASE cache' = cache BY <1>0, <1>1, <2>3 DEF CacheCounts
  <2>4. CASE cache' = [counts |-> claims, at |-> clock]
    <3>1. cache'.at = clock /\ cache'.counts = claims BY <2>4
    <3>2. QED BY <1>0, <1>1, <2>2, <3>1 DEF CacheCounts, ReportTypes
  <2>5. QED BY <2>1, <2>3, <2>4
<1>10. ASSUME NEW t \in DOMAIN levels, levels[t] = "ok", f = "imports" => t \notin FleetTokens
       PROVE  He!Holds(t)'
  <2>1. OkBy(t, p, f) BY <1>4, <1>10, LevelOf
  <2>2. CASE t = "rollup_stale"
    <3>1. PICK at \in He!Time : at <= clock /\ clock - at <= RollupMaxAge /\ c \in counted[at]
      BY <1>0, <1>7, CountsWereTrue
    <3>2. \E u \in He!Time : u <= clock' /\ clock' - u <= RollupMaxAge /\ report'.counts \in counted'[u]
      BY <1>1, <1>6, <3>1
    <3>3. QED BY <2>2, <3>2 DEF He!Holds
  <2>3. CASE t = "foreign_attach"
    <3>1. "forbidden_mount" \notin trouble /\ ("foreign_image" \in trouble => f = "hdiutil")
      BY <2>1, <2>3, ForeignAttachTrue DEF OkBy
    <3>2. "forbidden_mount" \notin trouble' /\ ("foreign_image" \in trouble' => report'.request.fault = "hdiutil")
      BY <1>1, <1>3, <1>6, <3>1
    <3>3. QED BY <2>3, <3>2 DEF He!Holds
  <2>4. CASE t \notin {"rollup_stale", "foreign_attach"}
    <3>1. He!Holds(t) BY <1>0, <1>10, <2>1, <2>4, TokenTrue
    <3>2. QED BY <1>1, <2>4, <3>1, HoldsStays
  <2>5. QED BY <2>2, <2>3, <2>4
<1>11. He!OkIsTrue' BY <1>3, <1>6, <1>10 DEF He!OkIsTrue, FleetTokens
<1>12. QED BY <1>8, <1>9, <1>11 DEF MachineInv

(* Without a report nothing is called ok.                                     *)
LEMMA NoReportOk == ASSUME report = He!NoReport, UNCHANGED report PROVE He!OkIsTrue'
<1>1. DOMAIN report'.levels = {} BY DEF He!NoReport
<1>2. QED BY <1>1 DEF He!OkIsTrue

LEMMA FactsKeep ==
  ASSUME MachineInv, He!HealthAssumption,
         \/ \E r \in Root : He!ScanEnds(r)
         \/ He!CommitStash \/ He!Export \/ He!EditRow \/ He!Tick
         \/ \E e \in flight : He!CloseStash(e)
         \/ \E x \in Peer : He!Import(x) \/ He!LosePayload(x)
         \/ \E m \in He!Mount : He!MountBecomes(m)
         \/ \E x \in He!Trouble : He!TroubleArises(x)
  PROVE  MachineInv'
<1>0. ReportTypes /\ CacheCounts BY DEF MachineInv
<1>1. report = He!NoReport /\ UNCHANGED report
  BY DEF He!ScanEnds, He!CommitStash, He!Export, He!EditRow, He!Tick, He!CloseStash, He!Import,
         He!LosePayload, He!MountBecomes, He!TroubleArises, He!Event
<1>2. He!OkIsTrue' BY <1>1, NoReportOk
<1>3. ASSUME NEW r \in Root, He!ScanEnds(r) PROVE ReportTypes' /\ CacheCounts'
  <2>1. UNCHANGED <<clock, cache, mount, peer, exported>> /\ claims' = claims + 1
        /\ counted' = [counted EXCEPT ![clock] = @ \cup {claims + 1}]
    BY <1>3 DEF He!ScanEnds
  <2>2. scanned' \in [Root -> When] /\ left' \subseteq Root
    <3>1. clock \in When BY <1>0 DEF ReportTypes, When
    <3>2. QED BY <1>0, <1>3, <3>1 DEF He!ScanEnds, ReportTypes
  <2>3. \A t \in He!Time : counted[t] \subseteq counted'[t] BY <1>0, <2>1 DEF ReportTypes
  <2>4. claims' \in counted'[clock'] /\ claims' \in Nat /\ counted' \in [He!Time -> SUBSET Nat]
    BY <1>0, <2>1 DEF ReportTypes
  <2>5. ReportTypes' BY <1>0, <2>1, <2>2, <2>4 DEF ReportTypes
  <2>6. CacheCounts' BY <1>0, <2>1, <2>3, <2>4 DEF CacheCounts
  <2>7. QED BY <2>5, <2>6
<1>4. ASSUME He!Tick PROVE ReportTypes' /\ CacheCounts'
  <2>1. clock' = clock + 1 /\ counted' = [counted EXCEPT ![clock + 1] = {claims}] /\ clock < MaxClock
        /\ UNCHANGED <<scanned, left, claims, cache, mount, peer, exported>>
    BY <1>4 DEF He!Tick
  <2>2. clock + 1 \in He!Time /\ clock + 1 \in Nat BY <1>0, <2>1 DEF ReportTypes, He!Time, He!HealthAssumption
  <2>3. counted' \in [He!Time -> SUBSET Nat] /\ claims' \in counted'[clock']
    BY <1>0, <2>1, <2>2 DEF ReportTypes
  <2>4. ReportTypes' BY <1>0, <2>1, <2>2, <2>3 DEF ReportTypes
  <2>5. ASSUME cache.at # Never PROVE cache.at \in He!Time /\ cache.at <= clock' /\ cache.counts \in counted'[cache.at]
    <3>1. cache.at \in He!Time /\ cache.at <= clock /\ cache.counts \in counted[cache.at] BY <1>0, <2>5 DEF CacheCounts
    <3>2. cache.at \in Nat /\ clock \in Nat BY <1>0, <3>1 DEF He!Time, ReportTypes
    <3>3. cache.at # clock + 1 /\ cache.at <= clock + 1 BY <3>1, <3>2
    <3>4. counted'[cache.at] = counted[cache.at] BY <1>0, <2>1, <3>1, <3>3 DEF ReportTypes
    <3>5. QED BY <2>1, <3>1, <3>3, <3>4
  <2>6. CacheCounts' BY <2>1, <2>3, <2>5 DEF CacheCounts
  <2>7. QED BY <2>4, <2>6
<1>5. ASSUME UNCHANGED <<clock, scanned, left, claims, counted, cache>>,
             mount' \in [He!Mount -> He!MountState], exported' \in When,
             peer' \in [Peer -> [payload : BOOLEAN, imported : When, verified : When, scanned : When]]
      PROVE  ReportTypes' /\ CacheCounts'
  <2>1. ReportTypes' BY <1>0, <1>5 DEF ReportTypes
  <2>2. CacheCounts' BY <1>0, <1>5 DEF CacheCounts
  <2>3. QED BY <2>1, <2>2
<1>6. clock \in When /\ Never \in When BY <1>0 DEF ReportTypes, When
<1>7. ASSUME He!CommitStash \/ He!EditRow \/ He!Export \/ (\E e \in flight : He!CloseStash(e))
             \/ (\E x \in He!Trouble : He!TroubleArises(x))
      PROVE  ReportTypes' /\ CacheCounts'
  <2>1. UNCHANGED <<clock, scanned, left, claims, counted, cache, mount, peer>> /\ exported' \in {exported, clock}
    BY <1>7 DEF He!CommitStash, He!EditRow, He!Export, He!CloseStash, He!TroubleArises
  <2>2. QED BY <1>0, <1>5, <1>6, <2>1 DEF ReportTypes
<1>8. ASSUME NEW m \in He!Mount, He!MountBecomes(m) PROVE ReportTypes' /\ CacheCounts'
  <2>1. UNCHANGED <<clock, scanned, left, claims, counted, cache, exported, peer>>
        /\ \E v \in He!MountState : mount' = [mount EXCEPT ![m] = v]
    BY <1>8 DEF He!MountBecomes
  <2>2. mount' \in [He!Mount -> He!MountState] BY <1>0, <2>1 DEF ReportTypes
  <2>3. QED BY <1>0, <1>5, <2>1, <2>2 DEF ReportTypes
<1>9. ASSUME NEW x \in Peer, He!Import(x) \/ He!LosePayload(x) PROVE ReportTypes' /\ CacheCounts'
  <2>1. UNCHANGED <<clock, scanned, left, claims, counted, cache, exported, mount>>
    BY <1>9 DEF He!Import, He!LosePayload
  <2>2. PICK B, W : B = BOOLEAN /\ W = When OBVIOUS
  <2>3. peer \in [Peer -> [payload : B, imported : W, verified : W, scanned : W]] BY <1>0, <2>2 DEF ReportTypes
  <2>4. TRUE \in B /\ FALSE \in B /\ clock \in W /\ Never \in W BY <1>6, <2>2
  <2>5. peer' \in [Peer -> [payload : B, imported : W, verified : W, scanned : W]]
    <3>1. CASE He!LosePayload(x)
      <4>1. peer' = [peer EXCEPT ![x].payload = FALSE] BY <3>1 DEF He!LosePayload
      <4>2. QED BY ONLY <2>3, <2>4, <4>1
    <3>2. CASE He!Import(x)
      <4>1. PICK at \in {clock, Never} :
              peer' = [peer EXCEPT ![x] = [@ EXCEPT !.payload = TRUE, !.imported = clock, !.verified = at]]
        BY <3>2 DEF He!Import
      <4>2. QED BY ONLY <2>3, <2>4, <4>1
    <3>3. QED BY <1>9, <3>1, <3>2
  <2>6. peer' \in [Peer -> [payload : BOOLEAN, imported : When, verified : When, scanned : When]] BY <2>2, <2>5
  <2>7. QED BY <1>0, <1>5, <2>1, <2>6 DEF ReportTypes
<1>10. ReportTypes' /\ CacheCounts' BY <1>3, <1>4, <1>7, <1>8, <1>9
<1>11. QED BY <1>2, <1>10 DEF MachineInv

LEMMA MachineKeeps ==
  ASSUME MachineInv, He!HealthAssumption, Len(DeclaredMounts) <= MaxProbes, He!Next PROVE MachineInv'
<1>1. CASE He!Collect BY <1>1, CollectKeeps
<1>2. CASE He!Answer
  <2>1. UNCHANGED <<clock, scanned, left, claims, counted, cache, mount, peer, exported>> /\ report' = He!NoReport
    BY <1>2 DEF He!Answer
  <2>2. ReportTypes' BY <2>1 DEF MachineInv, ReportTypes
  <2>3. CacheCounts' BY <2>1 DEF MachineInv, CacheCounts
  <2>4. DOMAIN report'.levels = {} BY <2>1 DEF He!NoReport
  <2>5. He!OkIsTrue' BY <2>4 DEF He!OkIsTrue
  <2>6. QED BY <2>2, <2>3, <2>5 DEF MachineInv
<1>3. CASE ~He!Collect /\ ~He!Answer BY <1>3, FactsKeep DEF He!Next
<1>4. QED BY <1>1, <1>2, <1>3

-----------------------------------------------------------------------------
(* All of them together: who is not the subject stands still.                 *)
ReportsInv == RelayInv /\ EstateInv /\ PageInv

LEMMA RelayStays == ASSUME RelayInv, UNCHANGED relayVars PROVE RelayInv'
<1>1. UNCHANGED <<time, skew, volumes, lastOk, writer, file, tmp, latest, inbox>> BY DEF relayVars
<1>2. RelayTypes' BY <1>1 DEF RelayInv, RelayTypes
<1>3. AllHonest' BY <1>1 DEF RelayInv, AllHonest
<1>4. QED BY <1>2, <1>3 DEF RelayInv

LEMMA EstateStays == ASSUME EstateInv, UNCHANGED estateVars PROVE EstateInv'
<1>1. UNCHANGED <<config, loaded, manifest, job, pend, log, acts, runs, died>> BY DEF estateVars
<1>2. QED BY <1>1 DEF EstateInv, EstateTypes

LEMMA PagesStay == ASSUME PageInv, UNCHANGED pageVars PROVE PageInv'
<1>1. UNCHANGED <<facts, version, status, health, thread, acked>> BY DEF pageVars
<1>2. QED BY <1>1 DEF PageInv, PageTypes

(* The inductive invariants of the relay, of ownership and of the dashboard   *)
(* hold together, whatever else happens.                                      *)
THEOREM ReportsInvariant == ReportsSpec => []ReportsInv
<1>1. ReportsInit => ReportsInv
  BY ReportsAssumption, RelayInitial, EstateInitial, PagesInitial DEF ReportsInit, ReportsInv
<1>2. ASSUME ReportsInv, [ReportsNext]_<<subject, reportVars, relayVars, estateVars, pageVars>>
      PROVE  ReportsInv'
  <2>1. RelayInv /\ EstateInv /\ PageInv BY <1>2 DEF ReportsInv
  <2>2. /\ Re!RelayAssumption /\ Es!OwnershipAssumption /\ Da!DashboardAssumption BY ReportsAssumption
  <2>3. CASE Re!Next /\ UNCHANGED <<estateVars, pageVars>>
    BY ONLY <2>1, <2>2, <2>3, RelayKeeps, EstateStays, PagesStay DEF ReportsInv
  <2>4. CASE Es!Next /\ UNCHANGED <<relayVars, pageVars>>
    BY ONLY <2>1, <2>2, <2>4, RelayStays, EstateKeeps, PagesStay DEF ReportsInv
  <2>5. CASE Da!Next /\ UNCHANGED <<relayVars, estateVars>>
    BY ONLY <2>1, <2>2, <2>5, RelayStays, EstateStays, PagesKeep DEF ReportsInv
  <2>6. CASE UNCHANGED <<relayVars, estateVars, pageVars>>
    BY ONLY <2>1, <2>6, RelayStays, EstateStays, PagesStay DEF ReportsInv
  <2>7. QED BY ONLY <1>2, <2>3, <2>4, <2>5, <2>6 DEF ReportsNext
<1>3. QED BY <1>1, <1>2, PTL DEF ReportsSpec

(* A machine that is called ok by its snapshot had its volumes ok within      *)
(* MaxAge and the difference of the clocks.                                   *)
THEOREM OkWasHealthyHolds == ReportsSpec => []OkWasHealthy
<1>1. ReportsInv => OkWasHealthy
  BY ReportsAssumption, HonestIsHealthy DEF ReportsInv, OkWasHealthy
<1>2. QED BY <1>1, ReportsInvariant, PTL

(* Whoever changes a file on a volume is entitled to by the estate it read,   *)
(* or the refusal that report mode ignored is on record, or was in the        *)
(* transaction of a command that has not ended or that died.                  *)
THEOREM OwnersOnlyHolds == ReportsSpec => []OwnersOnly
<1>1. ReportsInv => OwnersOnly BY ActsAreOwners DEF ReportsInv, OwnersOnly
<1>2. QED BY <1>1, ReportsInvariant, PTL

(* A poll of the dashboard answers with what was read after the last action   *)
(* that had been answered before the poll, or with an entry that was stored   *)
(* across that action's invalidation.                                         *)
THEOREM ReadsItsActionsHolds == ReportsSpec => []ReadsItsActions
<1>1. ReportsInv => ReadsItsActions BY AnswersAreNew DEF ReportsInv, ReadsItsActions
<1>2. QED BY <1>1, ReportsInvariant, PTL

(* A banner that says ok stands for facts that were so when it was made.      *)
THEOREM BannerOkIsTrueHolds == ReportsSpec => []BannerOkIsTrue
<1>1. ReportsInv => BannerOkIsTrue BY AnswersAreNew DEF ReportsInv, BannerOkIsTrue
<1>2. QED BY <1>1, ReportsInvariant, PTL

LEMMA MachineStays == ASSUME MachineInv, UNCHANGED reportVars PROVE MachineInv'
<1>1. UNCHANGED <<clock, scanned, left, claims, counted, cache, intact, mount, peer, exported, trouble, report>>
  BY DEF reportVars
<1>2. ReportTypes' BY <1>1 DEF MachineInv, ReportTypes
<1>3. CacheCounts' BY <1>1 DEF MachineInv, CacheCounts
<1>4. He!OkIsTrue' BY <1>1 DEF MachineInv, He!OkIsTrue, He!Holds, He!Fresh
<1>5. QED BY <1>2, <1>3, <1>4 DEF MachineInv

(* A token of the health report that says ok is true, when the estate         *)
(* declares no more mounts than are probed.                                   *)
THEOREM OkIsTrueHolds == ASSUME Len(DeclaredMounts) <= MaxProbes PROVE ReportsSpec => []OkIsTrue
<1>1. ReportsInit => MachineInv
  BY ReportsAssumption, MachineInitial DEF ReportsInit
<1>2. ASSUME MachineInv, [ReportsNext]_<<subject, reportVars, relayVars, estateVars, pageVars>>
      PROVE  MachineInv'
  <2>1. He!HealthAssumption BY ReportsAssumption
  <2>2. CASE He!Next BY <1>2, <2>1, <2>2, MachineKeeps
  <2>3. CASE UNCHANGED reportVars BY <1>2, <2>3, MachineStays
  <2>4. QED BY ONLY <1>2, <2>2, <2>3 DEF ReportsNext
<1>3. MachineInv => OkIsTrue BY DEF MachineInv, OkIsTrue
<1>4. QED BY <1>1, <1>2, <1>3, PTL DEF ReportsSpec
=============================================================================
