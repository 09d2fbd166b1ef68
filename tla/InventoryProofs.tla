---------------------------- MODULE InventoryProofs ----------------------------
(* Proofs about the components of module Inventory, for any parameters.       *)
EXTENDS Inventory, AuditChainProofs, Integers, FiniteSets, FiniteSetTheorems

-----------------------------------------------------------------------------
(* Each component's part of a behaviour of the composition is one of its own. *)
LEMMA EachAlone == InventorySpec => ArchiveSpec /\ Sc!Spec /\ Co!Spec /\ Wa!Spec /\ En!Spec
<1>1. InventoryInit => ArchiveInit /\ Sc!Init /\ Co!Init /\ Wa!Init /\ En!Init
  BY DEF InventoryInit
<1>2. /\ UNCHANGED scanVars => UNCHANGED Sc!vars
      /\ UNCHANGED memberVars => UNCHANGED Co!vars
      /\ UNCHANGED watchVars => UNCHANGED Wa!vars
      /\ UNCHANGED enrichVars => UNCHANGED En!vars
  BY DEF scanVars, memberVars, watchVars, enrichVars, Sc!vars, Co!vars, Wa!vars, En!vars
<1>3. [InventoryNext]_<<subject, allVars, scanVars, memberVars, watchVars, enrichVars>> =>
        [ArchiveNext]_allVars /\ [Sc!Next]_Sc!vars /\ [Co!Next]_Co!vars /\ [Wa!Next]_Wa!vars /\ [En!Next]_En!vars
  BY <1>2 DEF InventoryNext
<1>. QED
  BY <1>1, <1>3, PTL DEF InventorySpec, ArchiveSpec, Sc!Spec, Co!Spec, Wa!Spec, En!Spec

-----------------------------------------------------------------------------
(* Audit archive: registered segments hold. *)

(* The log of a database that is archived is that of AuditChain: sealing is   *)
(* one more connection's append.                                              *)
LEMMA ArchiveAppends == ArchiveSpec => Spec
<1>1. ArchiveInit => Init
  BY DEF ArchiveInit
<1>2. [ArchiveNext]_allVars => [Next]_vars
  BY ArchiveAssumption
     DEF ArchiveNext, Next, allVars, PlanArchive, WriteSegment, AppendCommitRow, CommitSegment, AbortSeal
<1>. QED
  BY <1>1, <1>2, PTL DEF ArchiveSpec, Spec

(* The rows of s are the first ones of the log and chain up, and the file of  *)
(* s is there.                                                                *)
Sealed(s) ==
  /\ s \in Seq(Row) /\ s \in cold
  /\ Len(log) >= Len(s) + HotMin
  /\ s = SubSeq(log, 1, Len(s)) /\ VerifyChain(s)

(* What is planned leaves the hot rows; what is being sealed holds already,   *)
(* and only a connection that seals something has rows pending.               *)
ArchiveInv ==
  /\ planned \in [Archiver -> Nat] /\ sealing \in [Archiver -> Seq(Row)]
  /\ \A c \in Archiver :
       /\ planned[c] # 0 => Len(log) >= planned[c] + HotMin
       /\ sealing[c] # << >> => Sealed(sealing[c])
       /\ pend[c] # << >> => sealing[c] # << >>
  /\ \A s \in segments : Sealed(s) /\ Len(log) > Len(s) + HotMin

(* A prefix of a log stays one when rows are appended; a prefix of a chain    *)
(* that verifies is one that verifies.                                        *)
LEMMA PrefixStays ==
  ASSUME NEW s \in Seq(Row), NEW t \in Seq(Row), NEW n \in 0..Len(s)
  PROVE  /\ SubSeq(s, 1, n) \in Seq(Row) /\ Len(SubSeq(s, 1, n)) = n
         /\ SubSeq(s \o t, 1, n) = SubSeq(s, 1, n)
         /\ VerifyChain(s) => VerifyChain(SubSeq(s, 1, n))
<1>0. /\ SubSeq(s, 1, n) \in Seq(Row) /\ Len(SubSeq(s, 1, n)) = n
      /\ \A i \in 1..n : SubSeq(s, 1, n)[i] = s[i]
      /\ SubSeq(s \o t, 1, n) \in Seq(Row) /\ Len(SubSeq(s \o t, 1, n)) = n
      /\ \A i \in 1..n : SubSeq(s \o t, 1, n)[i] = s[i]
  OBVIOUS
<1>1. PICK u \in Seq(Row) : u = SubSeq(s, 1, n) /\ Len(u) = n /\ \A i \in 1..n : u[i] = s[i]
  BY <1>0
<1>2. PICK w \in Seq(Row) : w = SubSeq(s \o t, 1, n) /\ Len(w) = n /\ \A i \in 1..n : w[i] = s[i]
  BY <1>0
<1>3. w = u
  BY <1>1, <1>2
<1>4. ASSUME VerifyChain(s), NEW i \in 1..n
      PROVE  Names(u, i) /\ Hashed(u, i)
  <2>1. i \in 1..Len(s) /\ Names(s, i) /\ Hashed(s, i)
    BY <1>4 DEF VerifyChain
  <2>2. CASE i = 1
    BY <1>1, <2>1, <2>2 DEF Names, Hashed
  <2>3. CASE i # 1
    <3>1. i - 1 \in 1..n
      BY <2>3
    <3>. QED
      BY <1>1, <2>1, <2>3, <3>1 DEF Names, Hashed
  <2>. QED
    BY <2>2, <2>3
<1>. QED
  BY <1>1, <1>2, <1>3, <1>4 DEF VerifyChain

(* The empty archive is sound. *)
LEMMA ArchiveInvInit == ArchiveInit => ArchiveInv
BY ArchiveAssumption DEF ArchiveInit, ArchiveInv, Init

(* The log only grows, so what is sealed stays sealed. *)
LEMMA SealedStays ==
  ASSUME TypeOK, NEW t \in Seq(Row), log' = log \o t, cold \subseteq cold', NEW s, Sealed(s)
  PROVE  Sealed(s)' /\ Len(log') = Len(log) + Len(t)
<1>1. s \in Seq(Row) /\ Len(s) \in Nat /\ Len(log) \in Nat /\ Len(t) \in Nat /\ HotMin \in Nat
      /\ log \in Seq(Row) /\ Len(log') = Len(log) + Len(t) /\ Len(log) >= Len(s) + HotMin
  BY ArchiveAssumption DEF TypeOK, Sealed
<1>2. Len(s) \in 0..Len(log)
  BY <1>1
<1>3. SubSeq(log', 1, Len(s)) = SubSeq(log, 1, Len(s))
  BY <1>1, <1>2, PrefixStays
<1>. QED
  BY <1>1, <1>3 DEF Sealed

(* Whoever appends, plans, writes a file, commits or fails: what is sealed    *)
(* and registered still holds.                                                *)
LEMMA ArchiveInvNext == TypeOK /\ OneWriter /\ ArchiveInv /\ [ArchiveNext]_allVars => ArchiveInv'
<1>. SUFFICES ASSUME TypeOK, OneWriter, ArchiveInv, [ArchiveNext]_allVars PROVE ArchiveInv'
  OBVIOUS
<1>. USE DEF ArchiveInv, TypeOK
<1>0. Archiver \subseteq Conn /\ HotMin \in Nat /\ Len(log) \in Nat
  BY ArchiveAssumption
<1>1. ASSUME NEW c \in Conn \ Archiver, UNCHANGED archiveVars,
             WriteData(c) \/ ReadTip(c) \/ InsertRow(c) \/ Commit(c) \/ Abort(c)
      PROVE  ArchiveInv'
  <2>1. \A d \in Archiver : pend'[d] = pend[d]
    BY <1>0, <1>1 DEF WriteData, ReadTip, InsertRow, Commit, Abort
  <2>2. \E t \in Seq(Row) : log' = log \o t
    <3>1. CASE Commit(c)
      BY <1>1, <3>1 DEF Commit
    <3>2. CASE ~Commit(c)
      <4>1. log' = log \o << >> /\ << >> \in Seq(Row)
        BY <1>1, <3>2 DEF WriteData, ReadTip, InsertRow, Abort
      <4>. QED
        BY <4>1
    <3>. QED
      BY <3>1, <3>2
  <2>3. PICK t \in Seq(Row) : log' = log \o t
    BY <2>2
  <2>4. Len(log') = Len(log) + Len(t) /\ Len(t) \in Nat
    BY <2>3
  <2>5. \A x : Sealed(x) => Sealed(x)'
    BY <1>1, <2>3, SealedStays DEF archiveVars
  <2>6. /\ planned' = planned /\ sealing' = sealing /\ segments' = segments
    BY <1>1 DEF archiveVars
  <2>7. \A d \in Archiver : planned[d] # 0 => Len(log') >= planned[d] + HotMin
    BY <1>0, <2>4
  <2>8. \A x \in segments : Sealed(x)' /\ Len(log') > Len(x) + HotMin
    BY <1>0, <2>4, <2>5 DEF Sealed
  <2>. QED
    BY <2>1, <2>5, <2>6, <2>7, <2>8
<1>2. ASSUME NEW c \in Archiver, NEW t \in 1..MaxRows, PlanArchive(c, t) PROVE ArchiveInv'
  <2>1. \A x : Sealed(x)' <=> Sealed(x)
    BY <1>2 DEF PlanArchive, vars, Sealed
  <2>2. Len(log) >= t + HotMin /\ t \in Nat
    BY <1>0, <1>2 DEF PlanArchive
  <2>. QED
    BY <1>2, <2>1, <2>2 DEF PlanArchive, vars
<1>3. ASSUME NEW c \in Archiver, WriteSegment(c) PROVE ArchiveInv'
  <2>1. CASE VerifyChain(log)
    <3>1. /\ planned[c] \in 0..Len(log) /\ planned[c] # 0 /\ Len(log) >= planned[c] + HotMin
      BY <1>0, <1>3 DEF WriteSegment
    <3>2. PICK u \in Seq(Row) : /\ u = SubSeq(log, 1, planned[c]) /\ Len(u) = planned[c] /\ VerifyChain(u)
      BY <2>1, <3>1, PrefixStays
    <3>3. /\ cold' = cold \cup {u} /\ sealing' = [sealing EXCEPT ![c] = u]
          /\ log' = log /\ pend' = pend /\ segments' = segments
          /\ planned' = [planned EXCEPT ![c] = 0]
      BY <1>3, <2>1, <3>2 DEF WriteSegment, vars
    <3>4. u # << >> /\ Sealed(u)'
      BY <3>1, <3>2, <3>3 DEF Sealed
    <3>5. \A x : Sealed(x) => Sealed(x)'
      BY <3>3 DEF Sealed
    <3>. QED
      BY <3>3, <3>4, <3>5
  <2>2. CASE ~VerifyChain(log)
    <3>1. /\ UNCHANGED <<cold, sealing, log, pend, segments>> /\ planned' = [planned EXCEPT ![c] = 0]
      BY <1>3, <2>2 DEF WriteSegment, vars
    <3>2. \A x : Sealed(x)' <=> Sealed(x)
      BY <3>1 DEF Sealed
    <3>. QED
      BY <3>1, <3>2
  <2>. QED
    BY <2>1, <2>2
<1>4. ASSUME NEW c \in Archiver, AppendCommitRow(c) PROVE ArchiveInv'
  <2>1. /\ UNCHANGED <<planned, sealing, cold, segments, log>> /\ sealing[c] # << >>
        /\ \A d \in Archiver \ {c} : pend'[d] = pend[d]
    BY <1>0, <1>4 DEF AppendCommitRow, archiveVars, ReadTip, InsertRow
  <2>2. \A x : Sealed(x)' <=> Sealed(x)
    BY <2>1 DEF Sealed
  <2>. QED
    BY <2>1, <2>2
<1>5. ASSUME NEW c \in Archiver, CommitSegment(c) PROVE ArchiveInv'
  <2>1. /\ pend[c] \in Seq(Row) /\ pend[c] # << >> /\ log' = log \o pend[c] /\ pend' = [pend EXCEPT ![c] = << >>]
        /\ segments' \in {segments, segments \cup {sealing[c]}} /\ sealing' = [sealing EXCEPT ![c] = << >>]
        /\ planned' = planned /\ cold' = cold
    BY <1>0, <1>5 DEF CommitSegment, Commit
  <2>2. Len(log') = Len(log) + Len(pend[c]) /\ Len(pend[c]) \in Nat /\ Len(pend[c]) > 0
    BY <2>1
  <2>3. \A x : Sealed(x) => Sealed(x)'
    BY <2>1, SealedStays
  <2>4. ASSUME NEW x, Sealed(x) PROVE Sealed(x)' /\ Len(log') > Len(x) + HotMin
    <3>1. Len(x) \in Nat /\ Len(log) >= Len(x) + HotMin
      BY <2>4 DEF Sealed
    <3>. QED
      BY <1>0, <2>2, <2>3, <2>4, <3>1
  <2>5. Sealed(sealing[c])
    BY <2>1
  <2>6. \A x \in segments' : Sealed(x)' /\ Len(log') > Len(x) + HotMin
    BY <2>1, <2>4, <2>5
  <2>7. \A d \in Archiver : planned[d] # 0 => Len(log') >= planned[d] + HotMin
    BY <1>0, <2>2
  <2>8. \A d \in Archiver : /\ sealing'[d] = (IF d = c THEN << >> ELSE sealing[d])
                            /\ pend'[d] = IF d = c THEN << >> ELSE pend[d]
    BY <1>0, <2>1
  <2>9. \A d \in Archiver : /\ sealing'[d] # << >> => Sealed(sealing[d])'
                            /\ pend'[d] # << >> => sealing'[d] # << >>
    BY <2>3, <2>8
  <2>10. planned' \in [Archiver -> Nat] /\ sealing' \in [Archiver -> Seq(Row)]
    BY <2>1
  <2>. QED
    <3>1. \A d \in Archiver : planned'[d] # 0 => Len(log') >= planned'[d] + HotMin
      BY <2>1, <2>7
    <3>. QED
      BY <2>6, <2>9, <2>10, <3>1
<1>6. ASSUME NEW c \in Archiver, AbortSeal(c) PROVE ArchiveInv'
  <2>1. /\ UNCHANGED <<log, cold, segments>> /\ planned' = [planned EXCEPT ![c] = 0]
        /\ sealing' = [sealing EXCEPT ![c] = << >>]
        /\ \A d \in Archiver : pend'[d] = << >> \/ pend'[d] = pend[d]
    BY <1>0, <1>6 DEF AbortSeal, Abort, vars
  <2>2. pend'[c] = << >>
    BY <1>0, <1>6 DEF AbortSeal, Abort, vars, OneWriter
  <2>3. \A x : Sealed(x)' <=> Sealed(x)
    BY <2>1 DEF Sealed
  <2>4. \A d \in Archiver : /\ sealing'[d] = (IF d = c THEN << >> ELSE sealing[d])
                            /\ planned'[d] = IF d = c THEN 0 ELSE planned[d]
    BY <2>1
  <2>5. \A d \in Archiver : /\ planned'[d] # 0 => Len(log') >= planned'[d] + HotMin
                            /\ sealing'[d] # << >> => Sealed(sealing[d])'
                            /\ pend'[d] # << >> => sealing'[d] # << >>
    BY <2>1, <2>2, <2>3, <2>4
  <2>6. planned' \in [Archiver -> Nat] /\ sealing' \in [Archiver -> Seq(Row)]
    BY <2>1
  <2>7. \A x \in segments' : Sealed(x)' /\ Len(log') > Len(x) + HotMin
    BY <2>1, <2>3
  <2>. QED
    BY <2>5, <2>6, <2>7
<1>7. CASE UNCHANGED allVars
  <2>1. UNCHANGED <<log, pend, cold, segments, planned, sealing>>
    BY <1>7 DEF allVars, vars, archiveVars
  <2>2. \A x : Sealed(x)' <=> Sealed(x)
    BY <2>1 DEF Sealed
  <2>. QED
    BY <2>1, <2>2
<1>. QED
  BY <1>1, <1>2, <1>3, <1>4, <1>5, <1>6, <1>7 DEF ArchiveNext

(* The rows of a registered segment are for good the first ones of the log,   *)
(* with hot rows after them; its file is there and verifies: whoever appended *)
(* or forked the chain meanwhile, and whatever failed.                        *)
THEOREM SegmentsStay == InventorySpec => []SegmentsHold
<1>1. ArchiveInv => SegmentsHold
  BY DEF ArchiveInv, SegmentsHold, Sealed
<1>2. ArchiveSpec => []ArchiveInv
  BY ArchiveAppends, TypeCorrect, SingleWriter, ArchiveInvInit, ArchiveInvNext, PTL DEF ArchiveSpec
<1>. QED
  BY <1>1, <1>2, EachAlone, PTL

-----------------------------------------------------------------------------
(* Watch: the paths of the events in sequences of them. *)

(* The paths a batch of events is about, event by event.                      *)
Tells(e) == IF e.kind = "deleted" THEN {} ELSE Wa!AllPaths(e)

LEMMA PathsOfEvents ==
  ASSUME NEW s \in Seq(Wa!Event)
  PROVE  /\ \A p : p \in Wa!UniquePaths(s) <=> \E i \in 1..Len(s) : p \in Tells(s[i])
         /\ Wa!UniquePaths(s) \subseteq UNION {Wa!AllPaths(e) : e \in Wa!EventsOf(s)}
<1>1. DOMAIN s = 1..Len(s)
  OBVIOUS
<1>2. \A p : p \in Wa!UniquePaths(s) <=> \E i \in 1..Len(s) : s[i].kind # "deleted" /\ p \in Wa!AllPaths(s[i])
  BY <1>1 DEF Wa!UniquePaths, Wa!EventsOf
<1>3. Wa!UniquePaths(s) \subseteq UNION {Wa!AllPaths(e) : e \in Wa!EventsOf(s)}
  BY DEF Wa!UniquePaths
<1>. QED
  BY <1>2, <1>3 DEF Tells

LEMMA PathsOfAppend ==
  ASSUME NEW s \in Seq(Wa!Event), NEW e \in Wa!Event
  PROVE  Wa!UniquePaths(Append(s, e)) = Wa!UniquePaths(s) \cup Tells(e)
<1>1. Append(s, e) \in Seq(Wa!Event) /\ Len(Append(s, e)) = Len(s) + 1 /\ Append(s, e)[Len(s) + 1] = e /\ Len(s) \in Nat
      /\ \A i \in 1..Len(s) : Append(s, e)[i] = s[i]
  OBVIOUS
<1>2. 1..(Len(s) + 1) = (1..Len(s)) \cup {Len(s) + 1}
  BY <1>1
<1>3. \A p : (\E i \in 1..Len(Append(s, e)) : p \in Tells(Append(s, e)[i])) <=>
               p \in Tells(e) \/ \E i \in 1..Len(s) : p \in Tells(s[i])
  BY <1>1, <1>2
<1>4. \A p : p \in Wa!UniquePaths(Append(s, e)) <=> p \in Tells(e) \/ p \in Wa!UniquePaths(s)
  BY <1>1, <1>3, PathsOfEvents
<1>. QED
  BY <1>4

LEMMA PathsOfTail ==
  ASSUME NEW s \in Seq(Wa!Event), s # << >>
  PROVE  Head(s) \in Wa!Event /\ Tail(s) \in Seq(Wa!Event) /\ Wa!UniquePaths(s) = Tells(Head(s)) \cup Wa!UniquePaths(Tail(s))
<1>1. Head(s) \in Wa!Event /\ Tail(s) \in Seq(Wa!Event)
  OBVIOUS
<1>2. PICK h \in Wa!Event, t \in Seq(Wa!Event) : h = Head(s) /\ t = Tail(s)
  BY <1>1
<1>3. /\ s[1] = h /\ Len(s) = Len(t) + 1 /\ Len(t) \in Nat
      /\ \A i \in 1..Len(t) : t[i] = s[i + 1]
  BY <1>2
<1>4. ASSUME NEW i \in 1..Len(s)
      PROVE  i = 1 \/ \E k \in 1..Len(t) : s[i] = t[k]
  <2>1. CASE i # 1
    <3>1. i - 1 \in 1..Len(t) /\ t[i - 1] = s[(i - 1) + 1] /\ (i - 1) + 1 = i
      BY <1>3, <2>1
    <3>. QED
      BY <3>1
  <2>. QED
    BY <2>1
<1>5. \A k \in 1..Len(t) : \E i \in 1..Len(s) : s[i] = t[k]
  <2>. SUFFICES ASSUME NEW k \in 1..Len(t) PROVE \E i \in 1..Len(s) : s[i] = t[k]
    OBVIOUS
  <2>1. k + 1 \in 1..Len(s) /\ s[k + 1] = t[k]
    BY <1>3
  <2>. QED
    BY <2>1
<1>6. 1 \in 1..Len(s)
  BY <1>3
<1>7. \A p : (\E i \in 1..Len(s) : p \in Tells(s[i])) <=> p \in Tells(h) \/ \E k \in 1..Len(t) : p \in Tells(t[k])
  BY <1>3, <1>4, <1>5, <1>6
<1>8. \A p : p \in Wa!UniquePaths(s) <=> p \in Tells(h) \/ p \in Wa!UniquePaths(t)
  BY <1>7, PathsOfEvents
<1>. QED
  BY <1>1, <1>2, <1>8

-----------------------------------------------------------------------------
(* Watch: no change is forgotten. *)

(* A file is claimed with its content, in the open transaction if that has a  *)
(* claim of it, or an event that is not a delete will have it scanned.        *)
Heard(p) ==
  \/ p \in Wa!Skipped \cup unseen \cup batch \cup Wa!UniquePaths(emitted) \cup Wa!UniquePaths(buffer)
  \/ at[p] = Gone
  \/ IF fresh[p] # Gone THEN fresh[p] = at[p] ELSE newest[p] = at[p]

WatchInv == Wa!TypeOK /\ \A p \in Wa!Place : Heard(p)

LEMMA PathsOfNone == Wa!UniquePaths(<<>>) = {}
BY DEF Wa!UniquePaths, Wa!EventsOf

(* Before the first command there are no files and no claims. *)
LEMMA WatchInvInit == Wa!Init => WatchInv
<1>. SUFFICES ASSUME Wa!Init PROVE WatchInv
  OBVIOUS
<1>1. Wa!Nowhere \in [Wa!Place -> Wa!Writing \cup {Gone}] /\ \A p \in Wa!Place : Wa!Nowhere[p] = Gone
  BY DEF Wa!Nowhere
<1>2. MaxWrites \in Nat /\ MaxStops \in Nat /\ MaxReads \in Nat
  BY InventoryAssumption DEF Wa!WatchAssumption
<1>3. Wa!TypeOK
  <2>1. <<>> \in Seq(Wa!Event)
    OBVIOUS
  <2>2. /\ at \in [Wa!Place -> Wa!Writing \cup {Gone}] /\ fresh \in [Wa!Place -> Wa!Writing \cup {Gone}]
        /\ newest \in [Wa!Place -> Wa!Writing \cup {Gone}]
    BY <1>1 DEF Wa!Init
  <2>3. /\ batch \subseteq Wa!Place /\ current \subseteq Wa!Place \X Wa!Writing /\ unseen \subseteq Wa!Place
        /\ batch = {} /\ fresh = Wa!Nowhere /\ once \in BOOLEAN /\ up \in {"down", "loop", "scan", "stopping"}
    BY DEF Wa!Init
  <2>4. writes \in 0..MaxWrites /\ stops \in 0..MaxStops /\ reads \in 0..MaxReads
    BY <1>2 DEF Wa!Init
  <2>5. emitted \in Seq(Wa!Event) /\ buffer \in Seq(Wa!Event)
    BY <2>1 DEF Wa!Init
  <2>. QED
    BY <2>2, <2>3, <2>4, <2>5 DEF Wa!TypeOK
<1>4. \A p \in Wa!Place : Heard(p)
  BY <1>1 DEF Wa!Init, Heard
<1>. QED
  BY <1>3, <1>4 DEF WatchInv

(* A change of files by another program is emitted while a command watches,   *)
(* and unseen while none does.                                                *)
LEMMA ChangeHeard ==
  ASSUME WatchInv, NEW P \in SUBSET Wa!Place, NEW e \in Seq(Wa!Event), Wa!Changes(P, e),
         at' \in [Wa!Place -> Wa!Writing \cup {Gone}],
         \A q \in Wa!Place \ P : at'[q] = at[q],
         e = <<>> \/ \E v \in Wa!Event : e = <<v>>,
         \A q \in P : q \in Wa!Skipped \/ at'[q] = Gone \/ q \in Wa!UniquePaths(e)
  PROVE  WatchInv'
<1>. USE InventoryAssumption DEF WatchInv, Wa!WatchAssumption, Wa!TypeOK
<1>1. /\ UNCHANGED <<buffer, batch, up, once, fresh, newest, current, stops, reads>>
      /\ writes' \in 0..MaxWrites
  BY DEF Wa!Changes, Wa!inventory
<1>2. CASE up = "down"
  <2>1. emitted' = emitted /\ unseen' = unseen \cup P
    BY <1>2 DEF Wa!Changes
  <2>2. ASSUME NEW q \in Wa!Place PROVE Heard(q)'
    BY <1>1, <2>1 DEF Heard
  <2>. QED
    BY <1>1, <2>1, <2>2
<1>3. CASE up # "down"
  <2>1. emitted' = emitted \o e /\ unseen' = unseen
    BY <1>3 DEF Wa!Changes
  <2>2. emitted' \in Seq(Wa!Event) /\ Wa!UniquePaths(emitted') = Wa!UniquePaths(emitted) \cup Wa!UniquePaths(e)
    <3>1. CASE e = <<>>
      <4>1. emitted' = emitted
        BY <2>1, <3>1
      <4>. QED
        BY <3>1, <4>1, PathsOfNone
    <3>2. ASSUME NEW v \in Wa!Event, e = <<v>>
          PROVE  emitted' \in Seq(Wa!Event) /\ Wa!UniquePaths(emitted') = Wa!UniquePaths(emitted) \cup Wa!UniquePaths(e)
      <4>1. emitted' = Append(emitted, v) /\ e = Append(<<>>, v) /\ <<>> \in Seq(Wa!Event)
        BY <2>1, <3>2
      <4>2. Wa!UniquePaths(Append(<<>>, v)) = Wa!UniquePaths(<<>>) \cup Tells(v)
        BY <4>1, PathsOfAppend
      <4>3. Wa!UniquePaths(Append(emitted, v)) = Wa!UniquePaths(emitted) \cup Tells(v)
        BY PathsOfAppend
      <4>. QED
        BY <4>1, <4>2, <4>3, PathsOfNone
    <3>. QED
      BY <3>1, <3>2
  <2>3. ASSUME NEW q \in Wa!Place PROVE Heard(q)'
    BY <1>1, <2>1, <2>2 DEF Heard
  <2>. QED
    BY <1>1, <2>1, <2>2, <2>3
<1>. QED
  BY <1>2, <1>3

(* What other programs and the observer's thread do keeps every change heard. *)
LEMMA EventsHeard ==
  ASSUME WatchInv, NEW p \in Wa!Place, NEW q \in Wa!Place,
         Wa!WriteFile(p) \/ Wa!DeleteFile(p) \/ Wa!MoveFile(p, q) \/ Wa!Push
  PROVE  WatchInv'
<1>0. at \in [Wa!Place -> Wa!Writing \cup {Gone}] /\ writes \in 0..MaxWrites /\ MaxWrites \in Nat
  BY InventoryAssumption DEF WatchInv, Wa!TypeOK, Wa!WatchAssumption
<1>1. CASE Wa!WriteFile(p)
  <2>1. PICK e : e = (IF p \in Wa!Skipped THEN <<>>
                      ELSE <<[kind |-> IF at[p] = Gone THEN "created" ELSE "modified", path |-> p]>>)
    OBVIOUS
  <2>2. at' = [at EXCEPT ![p] = writes + 1] /\ Wa!Changes({p}, e) /\ writes < MaxWrites
    BY <1>1, <2>1 DEF Wa!WriteFile, Wa!Changes
  <2>3. at' \in [Wa!Place -> Wa!Writing \cup {Gone}] /\ \A r \in Wa!Place \ {p} : at'[r] = at[r]
    BY <1>0, <2>2 DEF Wa!Writing
  <2>4. CASE p \in Wa!Skipped
    <3>1. {p} \in SUBSET Wa!Place /\ e \in Seq(Wa!Event) /\ e = <<>>
          /\ \A r \in {p} : r \in Wa!Skipped \/ at'[r] = Gone \/ r \in Wa!UniquePaths(e)
      BY <2>1, <2>4
    <3>. QED
      BY <2>2, <2>3, <3>1, ChangeHeard
  <2>5. ASSUME p \notin Wa!Skipped PROVE WatchInv'
    <3>0. PICK v : v = [kind |-> IF at[p] = Gone THEN "created" ELSE "modified", path |-> p]
      OBVIOUS
    <3>1. v \in Wa!Event /\ v.kind \in {"created", "modified"} /\ v.path = p /\ e = <<v>>
      BY <2>1, <2>5, <3>0 DEF Wa!Event, Wa!Place
    <3>2. p \in Wa!UniquePaths(e) /\ e \in Seq(Wa!Event)
      BY <3>1 DEF Wa!UniquePaths, Wa!EventsOf, Wa!AllPaths
    <3>3. {p} \in SUBSET Wa!Place
          /\ \A r \in {p} : r \in Wa!Skipped \/ at'[r] = Gone \/ r \in Wa!UniquePaths(e)
      BY <3>2
    <3>. QED
      BY <2>2, <2>3, <3>1, <3>2, <3>3, ChangeHeard
  <2>. QED
    BY <2>4, <2>5
<1>2. CASE Wa!DeleteFile(p)
  <2>1. PICK e : e = (IF p \in Wa!Skipped THEN <<>> ELSE <<[kind |-> "deleted", path |-> p]>>)
    OBVIOUS
  <2>2. at' = [at EXCEPT ![p] = Gone] /\ Wa!Changes({p}, e)
    BY <1>2, <2>1 DEF Wa!DeleteFile
  <2>3. /\ at' \in [Wa!Place -> Wa!Writing \cup {Gone}] /\ at'[p] = Gone
        /\ \A r \in Wa!Place \ {p} : at'[r] = at[r]
    BY <1>0, <2>2
  <2>4. e \in Seq(Wa!Event) /\ (e = <<>> \/ \E v \in Wa!Event : e = <<v>>)
    <3>1. CASE p \in Wa!Skipped
      BY <2>1, <3>1
    <3>2. CASE p \notin Wa!Skipped
      <4>0. PICK v : v = [kind |-> "deleted", path |-> p]
        OBVIOUS
      <4>1. v \in Wa!Event /\ e = <<v>>
        BY <2>1, <3>2, <4>0 DEF Wa!Event, Wa!Place
      <4>. QED
        BY <4>1
    <3>. QED
      BY <3>1, <3>2
  <2>5. {p} \in SUBSET Wa!Place
        /\ \A r \in {p} : r \in Wa!Skipped \/ at'[r] = Gone \/ r \in Wa!UniquePaths(e)
    BY <2>3
  <2>. QED
    BY <2>2, <2>3, <2>4, <2>5, ChangeHeard
<1>3. CASE Wa!MoveFile(p, q)
  <2>1. PICK e : e = (IF {p, q} \subseteq Wa!Skipped THEN <<>> ELSE <<[kind |-> "moved", path |-> p, to |-> q]>>)
    OBVIOUS
  <2>0. PICK P \in SUBSET Wa!Place : P = {p, q}
    OBVIOUS
  <2>2. at' = [at EXCEPT ![p] = Gone, ![q] = at[p]] /\ Wa!Changes(P, e)
    BY <1>3, <2>0, <2>1 DEF Wa!MoveFile
  <2>3. at' \in [Wa!Place -> Wa!Writing \cup {Gone}] /\ \A r \in Wa!Place \ P : at'[r] = at[r]
    BY <1>0, <2>0, <2>2
  <2>4. CASE {p, q} \subseteq Wa!Skipped
    <3>1. e \in Seq(Wa!Event) /\ e = <<>>
          /\ \A r \in P : r \in Wa!Skipped \/ at'[r] = Gone \/ r \in Wa!UniquePaths(e)
      BY <2>0, <2>1, <2>4
    <3>. QED
      BY <2>2, <2>3, <3>1, ChangeHeard
  <2>5. ASSUME ~({p, q} \subseteq Wa!Skipped) PROVE WatchInv'
    <3>1. PICK v \in Wa!Event : v.kind = "moved" /\ v.path = p /\ v.to = q /\ e = <<v>>
      BY <2>1, <2>5 DEF Wa!Event
    <3>2. p \in Wa!UniquePaths(e) /\ q \in Wa!UniquePaths(e) /\ e \in Seq(Wa!Event)
      BY <3>1 DEF Wa!UniquePaths, Wa!EventsOf, Wa!AllPaths
    <3>3. \A r \in P : r \in Wa!Skipped \/ at'[r] = Gone \/ r \in Wa!UniquePaths(e)
      BY <2>0, <3>2
    <3>. QED
      BY <2>2, <2>3, <3>1, <3>2, <3>3, ChangeHeard
  <2>. QED
    BY <2>4, <2>5
<1>4. CASE Wa!Push
  <2>1. /\ emitted \in Seq(Wa!Event) /\ emitted # <<>> /\ buffer \in Seq(Wa!Event)
        /\ buffer' = Append(buffer, Head(emitted)) /\ emitted' = Tail(emitted)
        /\ UNCHANGED <<at, batch, up, once, fresh, newest, current, writes, stops, reads, unseen>>
    BY <1>4 DEF Wa!Push, Wa!inventory, Wa!bounds, WatchInv, Wa!TypeOK
  <2>2. /\ buffer' \in Seq(Wa!Event) /\ emitted' \in Seq(Wa!Event)
        /\ Wa!UniquePaths(emitted) \cup Wa!UniquePaths(buffer) = Wa!UniquePaths(emitted') \cup Wa!UniquePaths(buffer')
    <3>1. /\ Head(emitted) \in Wa!Event /\ Tail(emitted) \in Seq(Wa!Event)
          /\ Wa!UniquePaths(emitted) = Tells(Head(emitted)) \cup Wa!UniquePaths(Tail(emitted))
      BY <2>1, PathsOfTail
    <3>2. Wa!UniquePaths(Append(buffer, Head(emitted))) = Wa!UniquePaths(buffer) \cup Tells(Head(emitted))
      BY <2>1, <3>1, PathsOfAppend
    <3>. QED
      BY <2>1, <3>1, <3>2
  <2>3. ASSUME NEW r \in Wa!Place PROVE Heard(r)'
    BY <2>1, <2>2 DEF WatchInv, Heard
  <2>. QED
    BY <2>1, <2>2, <2>3 DEF WatchInv, Wa!TypeOK
<1>. QED
  BY <1>1, <1>2, <1>3, <1>4

(* The paths of an event that is on its way are those of the flight. *)
LEMMA OnTheWay ==
  ASSUME WatchInv
  PROVE  /\ Wa!UniquePaths(emitted) \cup Wa!UniquePaths(buffer) \cup batch \cup Wa!Scanned \subseteq Wa!InFlight
         /\ Wa!InFlight \subseteq Wa!Place
<1>1. emitted \in Seq(Wa!Event) /\ buffer \in Seq(Wa!Event) /\ batch \subseteq Wa!Place
  BY DEF WatchInv, Wa!TypeOK
<1>2. /\ emitted \o buffer \in Seq(Wa!Event) /\ Len(emitted \o buffer) = Len(emitted) + Len(buffer)
      /\ DOMAIN (emitted \o buffer) = 1..Len(emitted \o buffer)
      /\ DOMAIN emitted = 1..Len(emitted) /\ DOMAIN buffer = 1..Len(buffer)
      /\ Len(emitted) \in Nat /\ Len(buffer) \in Nat
      /\ \A i \in 1..Len(emitted) : (emitted \o buffer)[i] = emitted[i]
      /\ \A i \in 1..Len(buffer) : (emitted \o buffer)[Len(emitted) + i] = buffer[i]
  BY <1>1
<1>3. PICK f : f = emitted \o buffer
  OBVIOUS
<1>4. Wa!EventsOf(emitted) \subseteq Wa!EventsOf(f)
  BY <1>2, <1>3 DEF Wa!EventsOf
<1>5. Wa!EventsOf(buffer) \subseteq Wa!EventsOf(f)
  <2>. SUFFICES ASSUME NEW i \in 1..Len(buffer) PROVE buffer[i] \in Wa!EventsOf(f)
    BY <1>2 DEF Wa!EventsOf
  <2>1. PICK k : k = Len(emitted) + i
    OBVIOUS
  <2>2. k \in DOMAIN f /\ f[k] = buffer[i]
    BY <1>2, <1>3, <2>1
  <2>. QED
    BY <2>2 DEF Wa!EventsOf
<1>6. /\ Wa!UniquePaths(emitted) \subseteq UNION {Wa!AllPaths(e) : e \in Wa!EventsOf(emitted)}
      /\ Wa!UniquePaths(buffer) \subseteq UNION {Wa!AllPaths(e) : e \in Wa!EventsOf(buffer)}
  BY <1>1, PathsOfEvents
<1>7. Wa!InFlight = batch \cup Wa!Scanned \cup UNION {Wa!AllPaths(e) : e \in Wa!EventsOf(f)}
  BY <1>3 DEF Wa!InFlight
<1>8. Wa!EventsOf(f) \subseteq Wa!Event
  BY <1>2, <1>3 DEF Wa!EventsOf
<1>9. \A e \in Wa!Event : Wa!AllPaths(e) \subseteq Wa!Place
  BY DEF Wa!AllPaths, Wa!Event, Wa!Place
<1>10. Wa!Scanned \subseteq Wa!Place
  BY DEF Wa!Scanned
<1>11. ASSUME NEW p, p \in Wa!UniquePaths(emitted) \cup Wa!UniquePaths(buffer)
       PROVE  p \in Wa!InFlight
  <2>1. PICK e \in Wa!EventsOf(f) : p \in Wa!AllPaths(e)
    BY <1>4, <1>5, <1>6, <1>11
  <2>. QED
    BY <1>7, <2>1
<1>12. Wa!InFlight \subseteq Wa!Place
  <2>1. \A e \in Wa!EventsOf(f) : Wa!AllPaths(e) \subseteq Wa!Place
    BY <1>8, <1>9
  <2>2. ASSUME NEW p, p \in Wa!InFlight PROVE p \in Wa!Place
    <3>1. CASE p \in batch \cup Wa!Scanned
      BY <1>1, <1>10, <3>1
    <3>2. CASE p \notin batch \cup Wa!Scanned
      <4>1. PICK e \in Wa!EventsOf(f) : p \in Wa!AllPaths(e)
        BY <1>7, <2>2, <3>2
      <4>. QED
        BY <2>1, <4>1
    <3>. QED
      BY <3>1, <3>2
  <2>. QED
    BY <2>2
<1>13. batch \cup Wa!Scanned \subseteq Wa!InFlight
  BY <1>7
<1>. QED
  BY <1>11, <1>12, <1>13

(* Draining, scanning and committing take no change out of sight. *)
LEMMA LoopHeard == ASSUME WatchInv, Wa!Loop \/ Wa!Stop PROVE WatchInv'
<1>. USE DEF WatchInv, Wa!TypeOK, Wa!inventory, Wa!bounds
<1>1. CASE Wa!Drain
  <2>1. /\ buffer \in Seq(Wa!Event) /\ Wa!UniquePaths(buffer) \subseteq Wa!Place
        /\ UNCHANGED <<at, emitted, once, fresh, newest, current, writes, stops, reads, unseen>>
        /\ up = "loop" /\ up' \in {"loop", "scan", "stopping"}
        /\ batch' = Wa!UniquePaths(buffer) /\ (up' # "scan" => Wa!UniquePaths(buffer) = {})
        /\ buffer' = <<>> /\ Wa!UniquePaths(buffer') = {} /\ batch = {} /\ fresh = Wa!Nowhere
    BY <1>1, OnTheWay, PathsOfNone DEF Wa!Drain
  <2>2. \A p \in Wa!Place : Heard(p)'
    BY <2>1 DEF Heard
  <2>. QED
    BY <2>1, <2>2
<1>2. CASE Wa!DrainNothing
  <2>1. /\ UNCHANGED <<at, emitted, buffer, batch, once, fresh, newest, current, writes, stops, reads, unseen>>
        /\ up' = "stopping" /\ up = "loop"
    BY <1>2 DEF Wa!DrainNothing
  <2>2. \A p \in Wa!Place : Heard(p)'
    BY <2>1 DEF Heard
  <2>. QED
    BY <2>1, <2>2
<1>3. ASSUME NEW p \in Wa!Place, Wa!ScanPath(p) PROVE WatchInv'
  <2>1. /\ UNCHANGED <<at, emitted, buffer, up, once, newest, current, writes, stops, reads, unseen>>
        /\ up = "scan" /\ batch' = batch \ {p}
        /\ fresh' \in [Wa!Place -> Wa!Writing \cup {Gone}]
        /\ \A q \in Wa!Place \ {p} : fresh'[q] = fresh[q]
        /\ \/ p \in SkippedFile \/ at[p] = Gone
           \/ fresh'[p] = at[p] /\ at[p] # Gone
    BY <1>3 DEF Wa!ScanPath
  <2>2. \A q \in Wa!Place : Heard(q)'
    BY <2>1 DEF Heard, Wa!Skipped
  <2>. QED
    BY <2>1, <2>2
<1>4. CASE Wa!CommitScan
  <2>1. /\ UNCHANGED <<at, emitted, buffer, batch, once, writes, stops, reads>>
        /\ batch = {} /\ up' \in {"loop", "stopping"} /\ fresh' = Wa!Nowhere
        /\ newest' = [p \in Wa!Place |-> IF p \in Wa!Scanned THEN fresh[p] ELSE newest[p]]
        /\ current' = current \cup {<<p, fresh[p]>> : p \in Wa!Scanned}
        /\ unseen' = unseen \ {p \in Wa!Scanned : fresh[p] = at[p]}
    BY <1>4 DEF Wa!CommitScan
  <2>2. Wa!Nowhere \in [Wa!Place -> Wa!Writing \cup {Gone}] /\ \A p \in Wa!Place : Wa!Nowhere[p] = Gone
    BY DEF Wa!Nowhere
  <2>3. \A p \in Wa!Scanned : p \in Wa!Place /\ fresh[p] \in Wa!Writing
    BY DEF Wa!Scanned
  <2>4. current' \subseteq Wa!Place \X Wa!Writing /\ newest' \in [Wa!Place -> Wa!Writing \cup {Gone}]
    BY <2>1, <2>3
  <2>5. \A p \in Wa!Place : Heard(p)'
    BY <2>1, <2>2 DEF Heard, Wa!Scanned
  <2>. QED
    BY <2>1, <2>2, <2>4, <2>5
<1>5. ASSUME Wa!Ends, stops' \in 0..MaxStops PROVE WatchInv'
  <2>1. /\ UNCHANGED <<at, once, newest, current, writes, reads>>
        /\ up' = "down" /\ emitted' = <<>> /\ buffer' = <<>> /\ batch' = {} /\ fresh' = Wa!Nowhere
        /\ unseen' = unseen \cup Wa!InFlight
    BY <1>5 DEF Wa!Ends
  <2>2. Wa!Nowhere \in [Wa!Place -> Wa!Writing \cup {Gone}] /\ \A p \in Wa!Place : Wa!Nowhere[p] = Gone
    BY DEF Wa!Nowhere
  <2>3. \A p \in Wa!Place : Heard(p)'
    BY <2>1, <2>2, OnTheWay DEF Heard, Wa!Scanned
  <2>4. emitted' \in Seq(Wa!Event) /\ buffer' \in Seq(Wa!Event)
    BY <2>1
  <2>. QED
    BY <1>5, <2>1, <2>2, <2>3, <2>4, OnTheWay
<1>6. CASE Wa!Finish
  BY <1>5, <1>6 DEF Wa!Finish
<1>7. CASE Wa!Stop
  <2>1. stops' \in 0..MaxStops
    BY <1>7, InventoryAssumption DEF Wa!Stop, Wa!WatchAssumption
  <2>. QED
    BY <1>5, <1>7, <2>1 DEF Wa!Stop
<1>. QED
  BY <1>1, <1>2, <1>3, <1>4, <1>6, <1>7 DEF Wa!Loop

(* A change is heard whatever the two threads, other programs and a user do.  *)
LEMMA WatchInvNext == WatchInv /\ [Wa!Next]_Wa!vars => WatchInv'
<1>. SUFFICES ASSUME WatchInv, [Wa!Next]_Wa!vars PROVE WatchInv'
  OBVIOUS
<1>1. CASE Wa!Loop \/ Wa!Stop
  BY <1>1, LoopHeard
<1>2. ASSUME NEW p \in Wa!Place, NEW q \in Wa!Place,
             Wa!WriteFile(p) \/ Wa!DeleteFile(p) \/ Wa!MoveFile(p, q) \/ Wa!Push
      PROVE  WatchInv'
  BY <1>2, EventsHeard
<1>3. CASE Wa!Push
  <2>1. CASE Wa!Place = {}
    <3>1. \A v \in Wa!Event : v.path \in Wa!Place
      BY DEF Wa!Event, Wa!Place
    <3>2. Head(emitted) \in Wa!Event
      BY <1>3 DEF Wa!Push, WatchInv, Wa!TypeOK
    <3>. QED
      BY <2>1, <3>1, <3>2
  <2>. QED
    BY <1>2, <1>3, <2>1
<1>4. ASSUME NEW b \in BOOLEAN, Wa!Start(b) PROVE WatchInv'
  <2>1. /\ UNCHANGED <<at, emitted, buffer, batch, fresh, newest, current, writes, stops, reads, unseen>>
        /\ up = "down" /\ up' = "loop" /\ once' = b
    BY <1>4 DEF Wa!Start, Wa!inventory, Wa!bounds
  <2>2. \A p \in Wa!Place : Heard(p)'
    BY <2>1 DEF Heard, WatchInv
  <2>. QED
    BY <2>1, <2>2 DEF WatchInv, Wa!TypeOK
<1>5. ASSUME NEW p \in Wa!Place, Wa!ReadFails(p) PROVE WatchInv'
  <2>1. /\ UNCHANGED <<at, emitted, buffer, up, once, fresh, newest, current, writes, stops>>
        /\ up = "scan" /\ batch' = batch \ {p} /\ unseen' = unseen \cup {p}
        /\ reads' = reads + 1 /\ reads < MaxReads /\ MaxReads \in Nat
    BY <1>5, InventoryAssumption DEF Wa!ReadFails, Wa!inventory, Wa!WatchAssumption
  <2>2. \A q \in Wa!Place : Heard(q)'
    BY <2>1 DEF Heard, WatchInv
  <2>. QED
    BY <2>1, <2>2 DEF WatchInv, Wa!TypeOK
<1>6. CASE UNCHANGED Wa!vars
  <2>1. UNCHANGED <<at, emitted, buffer, batch, up, once, fresh, newest, current, writes, stops, reads, unseen>>
    BY <1>6 DEF Wa!vars
  <2>2. \A p \in Wa!Place : Heard(p)'
    BY <2>1 DEF Heard, WatchInv
  <2>. QED
    BY <2>1, <2>2 DEF WatchInv, Wa!TypeOK
<1>. QED
  BY <1>1, <1>2, <1>3, <1>4, <1>5, <1>6 DEF Wa!Next

(* No event is lost between the observer's thread and the command's loop: a   *)
(* file that changed while a command watched is claimed with the content it   *)
(* has, or the change is still under way.                                     *)
THEOREM NoChangeForgotten == InventorySpec => []NothingForgotten
<1>1. WatchInv => NothingForgotten
  <2>. SUFFICES ASSUME WatchInv, NEW p \in Wa!Place PROVE Wa!Known(p) \/ p \in Wa!InFlight
    BY DEF NothingForgotten, Wa!NothingForgotten
  <2>1. Heard(p)
    BY DEF WatchInv
  <2>2. fresh[p] # Gone => p \in Wa!Scanned
    BY DEF Wa!Scanned
  <2>. QED
    BY <2>1, <2>2, OnTheWay DEF Heard, Wa!Known
<1>2. Wa!Spec => []WatchInv
  BY WatchInvInit, WatchInvNext, PTL DEF Wa!Spec
<1>. QED
  BY <1>1, <1>2, EachAlone, PTL

-----------------------------------------------------------------------------
(* Containers: a member's claim is of the container. *)

(* What the claim of a member says, in a container the walk has held.         *)
FromContainer(k) ==
  k.member # Nothing => k.sha \in k.during /\ \E v \in k.during : Members[v][k.member] = k.data

Extract == {Members[v][m] : v \in Version, m \in Member}
Totals == [walked : Int, skipped : Int, errored : Int, members : Int, failed : Int]
ContainerWalk ==
  [run : Nat, from : Nat, todo : SUBSET Container, at : {"next", "dispatch", "open", "members"},
   file : Container \cup {Nothing}, sha : Version \cup {Nothing}, members : SUBSET Member,
   dir : Nat, stats : Totals]

MemberTypes ==
  /\ disk \in [Container -> Version \cup {Nothing}]
  /\ versions \in [Container -> SUBSET Version]
  /\ dirs \in Seq(SUBSET (Member \X Extract))
  /\ walking # Nothing => walking \in ContainerWalk
  /\ \A k \in members \cup pending : FromContainer(k)

(* From the checksum on, what the container holds is among its versions, and  *)
(* what was extracted is one of them, whole and alone in its directory.       *)
InContainer ==
  walking # Nothing =>
    /\ walking.at # "next" => walking.file \in Container
    /\ walking.at \in {"open", "members"} =>
         /\ walking.sha \in versions[walking.file]
         /\ disk[walking.file] \in versions[walking.file] \cup {Nothing}
    /\ walking.at = "members" /\ walking.dir # 0 =>
         /\ walking.dir \in DOMAIN dirs
         /\ \E v \in versions[walking.file] : dirs[walking.dir] = Co!Extracted(v)

MemberInv == MemberTypes /\ InContainer

(* Before the first scan nothing is claimed or extracted. *)
LEMMA MemberInvInit == Co!Init => MemberInv
<1>. SUFFICES ASSUME Co!Init PROVE MemberInv
  OBVIOUS
<1>1. disk = First /\ First \in [Container -> Version]
  BY InventoryAssumption DEF Co!Init, Co!ContainersAssumption
<1>2. disk \in [Container -> Version \cup {Nothing}]
  BY <1>1
<1>3. versions \in [Container -> SUBSET Version] /\ dirs \in Seq(SUBSET (Member \X Extract))
  BY DEF Co!Init
<1>. QED
  BY <1>2, <1>3 DEF Co!Init, MemberInv, MemberTypes, InContainer

(* What Open extracts into a directory of its own comes after the others.     *)
LEMMA Unpacked ==
  ASSUME NEW D, NEW ds \in Seq(D), NEW x, NEW new \in [DOMAIN ds \cup {Len(ds) + 1} -> D], new[Len(ds) + 1] = x
  PROVE  new \in Seq(D) /\ Len(ds) + 1 \in DOMAIN new /\ new[Len(ds) + 1] = x
<1>1. DOMAIN ds \cup {Len(ds) + 1} = 1..(Len(ds) + 1) /\ Len(ds) + 1 \in Nat
  OBVIOUS
<1>. QED
  BY <1>1

(* The walk after a step, which never changes what run it is. *)
Made(w, a, b, c, d, e, f, g) ==
  [run |-> w.run, from |-> w.from, todo |-> a, at |-> b, file |-> c, sha |-> d, members |-> e, dir |-> f, stats |-> g]
Bump(t, f, n) == [t EXCEPT ![f] = @ + n]
(* One of the totals moves, and the others stay. *)
LEMMA Bumped ==
  ASSUME NEW t \in Totals, NEW f \in {"walked", "skipped", "errored", "members", "failed"}, NEW n \in Int
  PROVE  /\ Bump(t, f, n) \in Totals
         /\ \A g \in {"walked", "skipped", "errored", "members", "failed"} :
              Bump(t, f, n)[g] = IF g = f THEN t[g] + n ELSE t[g]
BY DEF Totals, Bump

(* The record of a walk, written out. *)
LEMMA WalkDomain ==
  \A w \in ContainerWalk : DOMAIN w = {"run", "from", "todo", "at", "file", "sha", "members", "dir", "stats"}
BY DEF ContainerWalk

(* What the steps of the walk make of it. *)
LEMMA WalkSteps ==
  ASSUME walking \in ContainerWalk, NEW c, NEW m, NEW st, st = walking.stats
  PROVE  /\ Co!ProcessFile(c) => \E a \in {"next", "dispatch"} :
              /\ walking' = Made(walking, walking.todo \ {c}, a, c, walking.sha, walking.members, walking.dir, st)
              /\ a = IF disk[c] # Nothing /\ ~Co!Reused(c) THEN "dispatch" ELSE "next"
         /\ Co!Skip =>
              walking' = Made(walking, walking.todo, "next", walking.file, walking.sha, walking.members, walking.dir,
                              Bump(st, "skipped", 1))
         /\ Co!TakeChecksum =>
              walking' = IF disk[walking.file] = Nothing
                         THEN Made(walking, walking.todo, "next", walking.file, walking.sha, walking.members,
                                   walking.dir, Bump(st, "errored", 1))
                         ELSE Made(walking, walking.todo, "open", walking.file, disk[walking.file], walking.members,
                                   walking.dir, Bump(st, "walked", 1))
         /\ Co!OpenFails => \E n \in {0, 1} :
              walking' = Made(walking, walking.todo, "next", walking.file, walking.sha, walking.members, walking.dir,
                              Bump(Bump(st, "walked", -n), "errored", 1))
         /\ \A data : Co!Claims(m, data) =>
              walking' = Made(walking, walking.todo, walking.at, walking.file, walking.sha, walking.members \ {m},
                              walking.dir, Bump(st, "members", 1))
         /\ Co!MemberFails(m) =>
              walking' = Made(walking, walking.todo, walking.at, walking.file, walking.sha, walking.members \ {m},
                              walking.dir, Bump(st, "failed", 1))
         /\ Co!CloseContainer =>
              walking' = Made(walking, walking.todo, "next", walking.file, walking.sha, walking.members, 0, st)
<1>0. DOMAIN walking = {"run", "from", "todo", "at", "file", "sha", "members", "dir", "stats"}
  BY WalkDomain
<1>. USE <1>0
<1>1. ASSUME Co!ProcessFile(c) PROVE \E a \in {"next", "dispatch"} :
              /\ walking' = Made(walking, walking.todo \ {c}, a, c, walking.sha, walking.members, walking.dir, st)
              /\ a = IF disk[c] # Nothing /\ ~Co!Reused(c) THEN "dispatch" ELSE "next"
  <2>1. PICK a \in {"next", "dispatch"} : a = IF disk[c] # Nothing /\ ~Co!Reused(c) THEN "dispatch" ELSE "next"
    OBVIOUS
  <2>2. walking' = [k \in DOMAIN walking |-> IF k = "at" THEN a ELSE IF k = "file" THEN c
                      ELSE IF k = "todo" THEN walking.todo \ {c} ELSE walking[k]]
    BY <1>1, <2>1 DEF Co!ProcessFile
  <2>. QED
    BY <2>1, <2>2 DEF Made
<1>2. ASSUME Co!Skip PROVE
        walking' = Made(walking, walking.todo, "next", walking.file, walking.sha, walking.members, walking.dir,
                        Bump(st, "skipped", 1))
  <2>1. walking' = [k \in DOMAIN walking |-> IF k = "at" THEN "next"
                      ELSE IF k = "stats" THEN Bump(st, "skipped", 1) ELSE walking[k]]
    BY <1>2 DEF Co!Skip, Co!Counting, Bump
  <2>. QED
    BY <2>1 DEF Made
<1>3. ASSUME Co!TakeChecksum PROVE
        walking' = IF disk[walking.file] = Nothing
                   THEN Made(walking, walking.todo, "next", walking.file, walking.sha, walking.members,
                             walking.dir, Bump(st, "errored", 1))
                   ELSE Made(walking, walking.todo, "open", walking.file, disk[walking.file], walking.members,
                             walking.dir, Bump(st, "walked", 1))
  <2>1. CASE disk[walking.file] = Nothing
    <3>1. walking' = [k \in DOMAIN walking |-> IF k = "at" THEN "next"
                        ELSE IF k = "stats" THEN Bump(st, "errored", 1) ELSE walking[k]]
      BY <1>3, <2>1 DEF Co!TakeChecksum, Co!Errored, Bump
    <3>. QED
      BY <2>1, <3>1 DEF Made
  <2>2. CASE disk[walking.file] # Nothing
    <3>1. walking' = [k \in DOMAIN walking |-> IF k = "at" THEN "open" ELSE IF k = "sha" THEN disk[walking.file]
                        ELSE IF k = "stats" THEN Bump(st, "walked", 1) ELSE walking[k]]
      BY <1>3, <2>2 DEF Co!TakeChecksum, Co!Counting, Bump
    <3>. QED
      BY <2>2, <3>1 DEF Made
  <2>. QED
    BY <2>1, <2>2
<1>4. ASSUME Co!OpenFails PROVE \E n \in {0, 1} :
        walking' = Made(walking, walking.todo, "next", walking.file, walking.sha, walking.members, walking.dir,
                        Bump(Bump(st, "walked", -n), "errored", 1))
  <2>0. st \in Totals
    BY DEF ContainerWalk
  <2>1. CASE Kind[walking.file] = "native"
    <3>1. walking' = [k \in DOMAIN walking |-> IF k = "at" THEN "next"
                        ELSE IF k = "stats" THEN Bump(st, "errored", 1) ELSE walking[k]]
      BY <1>4, <2>1 DEF Co!OpenFails, Co!Errored, Bump
    <3>2. Bump(st, "walked", -0) = st
      BY <2>0 DEF Bump, Totals
    <3>3. walking' = Made(walking, walking.todo, "next", walking.file, walking.sha, walking.members, walking.dir,
                        Bump(Bump(st, "walked", -0), "errored", 1))
      BY <3>1, <3>2 DEF Made
    <3>. QED
      BY <3>3
  <2>2. CASE Kind[walking.file] # "native"
    <3>1. walking' = [k \in DOMAIN walking |-> IF k = "at" THEN "next"
                        ELSE IF k = "stats" THEN Bump(Bump(st, "walked", -1), "errored", 1) ELSE walking[k]]
      BY <1>4, <2>0, <2>2 DEF Co!OpenFails, Co!Errored, Bump, Totals
    <3>3. walking' = Made(walking, walking.todo, "next", walking.file, walking.sha, walking.members, walking.dir,
                        Bump(Bump(st, "walked", -1), "errored", 1))
      BY <3>1 DEF Made
    <3>. QED
      BY <3>3
  <2>. QED
    BY <2>1, <2>2
<1>5. ASSUME NEW data, Co!Claims(m, data)
      PROVE  walking' = Made(walking, walking.todo, walking.at, walking.file, walking.sha, walking.members \ {m},
                             walking.dir, Bump(st, "members", 1))
  <2>1. walking' = [k \in DOMAIN walking |-> IF k = "members" THEN walking.members \ {m}
                      ELSE IF k = "stats" THEN Bump(st, "members", 1) ELSE walking[k]]
    BY <1>5 DEF Co!Claims, Co!Counting, Bump
  <2>. QED
    BY <2>1 DEF Made
<1>7. ASSUME Co!MemberFails(m)
      PROVE  walking' = Made(walking, walking.todo, walking.at, walking.file, walking.sha, walking.members \ {m},
                             walking.dir, Bump(st, "failed", 1))
  <2>1. walking' = [k \in DOMAIN walking |-> IF k = "members" THEN walking.members \ {m}
                      ELSE IF k = "stats" THEN Bump(st, "failed", 1) ELSE walking[k]]
    BY <1>7 DEF Co!MemberFails, Co!Counting, Bump
  <2>. QED
    BY <2>1 DEF Made
<1>6. ASSUME Co!CloseContainer PROVE
        walking' = Made(walking, walking.todo, "next", walking.file, walking.sha, walking.members, 0, st)
  <2>1. walking' = [k \in DOMAIN walking |-> IF k = "at" THEN "next" ELSE IF k = "dir" THEN 0 ELSE walking[k]]
    BY <1>6 DEF Co!CloseContainer
  <2>. QED
    BY <2>1 DEF Made
<1>. QED
  BY <1>1, <1>2, <1>3, <1>4, <1>5, <1>6, <1>7

(* Members are passed over, and noted as such. *)
LEMMA PassSteps ==
  ASSUME walking \in ContainerWalk, Co!PassMembers
  PROVE  \E ms \in SUBSET walking.members :
           /\ walking' = Made(walking, walking.todo, walking.at, walking.file, walking.sha, walking.members \ ms,
                              walking.dir, walking.stats)
           /\ dropped' = dropped \cup ({walking.run} \X {walking.file} \X ms)
<1>0. DOMAIN walking = {"run", "from", "todo", "at", "file", "sha", "members", "dir", "stats"}
  BY WalkDomain
<1>1. PICK ms \in SUBSET walking.members :
        /\ walking' = [walking EXCEPT !.members = @ \ ms]
        /\ dropped' = dropped \cup ({walking.run} \X {walking.file} \X ms)
  BY DEF Co!PassMembers
<1>2. walking' = [k \in DOMAIN walking |-> IF k = "members" THEN walking.members \ ms ELSE walking[k]]
  BY <1>0, <1>1
<1>3. walking' = Made(walking, walking.todo, walking.at, walking.file, walking.sha, walking.members \ ms,
                      walking.dir, walking.stats)
  BY <1>0, <1>2 DEF Made
<1>. QED
  BY <1>1, <1>3

(* The walk's own steps keep what it holds and claims of its container.       *)
LEMMA WalkHolds ==
  ASSUME MemberInv,
         \/ (\E c \in Container : Co!ProcessFile(c)) \/ Co!Skip \/ Co!TakeChecksum \/ Co!Open \/ Co!OpenError
         \/ (\E m \in Member : Co!ReadMember(m) \/ Co!MemberError(m)) \/ Co!PassMembers \/ Co!CloseContainer
  PROVE  MemberInv'
<1>. USE DEF MemberInv, MemberTypes, InContainer, Co!kept
<1>0. walking # Nothing /\ walking \in ContainerWalk
  BY DEF Co!ProcessFile, Co!Skip, Co!TakeChecksum, Co!Open, Co!OpenError, Co!ReadMember, Co!MemberError,
         Co!PassMembers, Co!CloseContainer
<1>t. walking.stats \in Totals
  BY <1>0 DEF ContainerWalk
<1>1. ASSUME NEW c \in Container, Co!ProcessFile(c) PROVE MemberInv'
  <2>1. /\ UNCHANGED <<disk, versions, dirs, members>>
        /\ \A k \in pending' : k \in pending \/ k = Co!FileClaim(c)
    BY <1>1 DEF Co!ProcessFile
  <2>2. PICK a \in {"next", "dispatch"} :
          walking' = Made(walking, walking.todo \ {c}, a, c, walking.sha, walking.members, walking.dir, walking.stats)
    BY <1>0, <1>1, WalkSteps
  <2>3. walking' \in ContainerWalk /\ walking'.file = c /\ walking'.at \in {"next", "dispatch"}
    BY <1>0, <2>2 DEF ContainerWalk, Made
  <2>4. FromContainer(Co!FileClaim(c))
    BY DEF FromContainer, Co!FileClaim
  <2>. QED
    BY <2>1, <2>3, <2>4
<1>2. ASSUME NEW t \in Totals, UNCHANGED <<disk, versions, dirs, members, pending>>,
             walking' = Made(walking, walking.todo, "next", walking.file, walking.sha, walking.members, walking.dir, t)
      PROVE  MemberInv'
  <2>1. walking' \in ContainerWalk /\ walking'.at = "next"
    BY <1>0, <1>2 DEF ContainerWalk, Made
  <2>. QED
    BY <1>2, <2>1
<1>3. CASE Co!Skip
  <2>1. Bump(walking.stats, "skipped", 1) \in Totals
    BY <1>t, Bumped
  <2>. QED
    BY <1>0, <1>2, <1>3, <2>1, WalkSteps DEF Co!Skip
<1>4. CASE Co!TakeChecksum
  <2>1. /\ UNCHANGED <<disk, dirs, members, pending>> /\ walking.at = "dispatch" /\ walking.file \in Container
        /\ disk[walking.file] \in Version \cup {Nothing}
    BY <1>0, <1>4 DEF Co!TakeChecksum
  <2>2. Bump(walking.stats, "errored", 1) \in Totals /\ Bump(walking.stats, "walked", 1) \in Totals
    BY <1>t, Bumped
  <2>3. CASE disk[walking.file] = Nothing
    <3>1. versions' = versions
      BY <1>4, <2>3 DEF Co!TakeChecksum
    <3>. QED
      BY <1>0, <1>2, <1>4, <2>1, <2>2, <2>3, <3>1, WalkSteps
  <2>4. CASE disk[walking.file] # Nothing
    <3>1. /\ versions' = [versions EXCEPT ![walking.file] = {disk[walking.file]}]
          /\ walking' = Made(walking, walking.todo, "open", walking.file, disk[walking.file], walking.members,
                            walking.dir, Bump(walking.stats, "walked", 1))
      BY <1>0, <1>4, <2>4, WalkSteps DEF Co!TakeChecksum
    <3>2. /\ walking' \in ContainerWalk /\ walking'.at = "open" /\ walking'.file = walking.file
          /\ walking'.sha = disk[walking.file]
      BY <1>0, <2>1, <2>2, <3>1 DEF ContainerWalk, Made
    <3>3. versions' \in [Container -> SUBSET Version] /\ versions'[walking.file] = {disk[walking.file]}
      BY <2>1, <2>4, <3>1
    <3>. QED
      BY <2>1, <3>2, <3>3
  <2>. QED
    BY <2>3, <2>4
<1>5. ASSUME Co!OpenFails, UNCHANGED <<disk, versions, dirs, members, pending>> PROVE MemberInv'
  <2>1. PICK n \in {0, 1} :
          walking' = Made(walking, walking.todo, "next", walking.file, walking.sha, walking.members, walking.dir,
                          Bump(Bump(walking.stats, "walked", -n), "errored", 1))
    BY <1>0, <1>5, WalkSteps
  <2>2. Bump(Bump(walking.stats, "walked", -n), "errored", 1) \in Totals
    <3>1. Bump(walking.stats, "walked", -n) \in Totals
      BY <1>t, Bumped
    <3>. QED
      BY <3>1, Bumped
  <2>. QED
    BY <1>2, <1>5, <2>1, <2>2
<1>6. CASE Co!OpenError
  BY <1>5, <1>6 DEF Co!OpenError
<1>7. CASE Co!Open
  <2>1. /\ UNCHANGED <<disk, versions, members, pending>> /\ walking.at = "open" /\ walking.file \in Container
        /\ disk[walking.file] \in versions[walking.file] \cup {Nothing} /\ versions[walking.file] \subseteq Version
        /\ walking.sha \in versions[walking.file]
    BY <1>0, <1>7 DEF Co!Open
  <2>2. CASE disk[walking.file] = Nothing
    BY <1>5, <1>7, <2>1, <2>2 DEF Co!Open
  <2>3. ASSUME NEW ms \in SUBSET Member, NEW d \in Nat, walking' = [walking EXCEPT !.at = "members", !.dir = d, !.members = ms]
        PROVE  /\ walking' \in ContainerWalk /\ walking'.at = "members" /\ walking'.dir = d
               /\ walking'.file = walking.file /\ walking'.sha = walking.sha
    <3>1. walking' = [k \in DOMAIN walking |-> IF k = "members" THEN ms ELSE IF k = "dir" THEN d
                        ELSE IF k = "at" THEN "members" ELSE walking[k]]
      BY <1>0, <2>3, WalkDomain
    <3>2. walking' = Made(walking, walking.todo, "members", walking.file, walking.sha, ms, d, walking.stats)
      BY <1>0, <3>1, WalkDomain DEF Made
    <3>. QED
      BY <1>0, <2>3, <3>2 DEF Made, ContainerWalk
  <2>4. CASE disk[walking.file] # Nothing /\ Kind[walking.file] # "unar"
    <3>1. /\ walking' = [walking EXCEPT !.at = "members", !.dir = 0, !.members = Co!Contains(disk[walking.file])]
          /\ dirs' = dirs /\ Co!Contains(disk[walking.file]) \in SUBSET Member
      BY <1>7, <2>4 DEF Co!Open, Co!Contains
    <3>2. /\ walking' \in ContainerWalk /\ walking'.at = "members" /\ walking'.dir = 0
          /\ walking'.file = walking.file /\ walking'.sha = walking.sha
      BY <2>3, <3>1
    <3>. QED
      BY <2>1, <3>1, <3>2
  <2>5. CASE disk[walking.file] # Nothing /\ Kind[walking.file] = "unar"
    <3>1. PICK v \in Version : v = disk[walking.file]
      BY <2>1, <2>5
    <3>2. Co!Extracted(v) \in SUBSET (Member \X Extract)
      BY DEF Co!Extracted, Co!Contains, Extract
    <3>3. Len(dirs) \in Nat /\ Len(dirs) + 1 \notin DOMAIN dirs
      OBVIOUS
    <3>4. PICK found : found = Co!Extracted(v)
      OBVIOUS
    <3>5. /\ dirs' = [n \in DOMAIN dirs \cup {Len(dirs) + 1} |-> IF n = Len(dirs) + 1 THEN found ELSE dirs[n]]
          /\ walking' = [walking EXCEPT !.at = "members", !.dir = Len(dirs) + 1, !.members = {x[1] : x \in found}]
      BY <1>7, <2>5, <3>1, <3>3, <3>4 DEF Co!Open, Co!ExtractDir, Co!FreshDir
    <3>6. PICK D : D = SUBSET (Member \X Extract)
      OBVIOUS
    <3>7. /\ dirs' \in Seq(D) /\ Len(dirs) + 1 \in DOMAIN dirs' /\ dirs'[Len(dirs) + 1] = found
      <4>1. dirs \in Seq(D) /\ found \in D
        BY <3>2, <3>4, <3>6
      <4>2. dirs' \in [DOMAIN dirs \cup {Len(dirs) + 1} -> D] /\ dirs'[Len(dirs) + 1] = found
        BY <3>5, <4>1
      <4>. QED
        BY <4>1, <4>2, Unpacked
    <3>8. {x[1] : x \in found} \in SUBSET Member
      BY <3>2, <3>4
    <3>a. PICK ms \in SUBSET Member : ms = {x[1] : x \in found}
      BY <3>8
    <3>9. PICK d \in Nat : d = Len(dirs) + 1
      BY <3>3
    <3>10. walking' = [walking EXCEPT !.at = "members", !.dir = d, !.members = ms]
      BY <3>5, <3>9, <3>a
    <3>11. /\ walking' \in ContainerWalk /\ walking'.at = "members" /\ walking'.dir = d
           /\ walking'.file = walking.file /\ walking'.sha = walking.sha
      BY <2>3, <3>10
    <3>. QED
      BY <2>1, <2>5, <3>1, <3>4, <3>6, <3>7, <3>9, <3>11
  <2>. QED
    BY <2>2, <2>4, <2>5
<1>8. ASSUME NEW m \in Member, Co!ReadMember(m) PROVE MemberInv'
  <2>1. PICK data \in Co!Readable(m) : Co!Claims(m, data)
    BY <1>8 DEF Co!ReadMember
  <2>2. UNCHANGED <<disk, versions, dirs, members>> /\ walking.at = "members"
    BY <1>8 DEF Co!ReadMember
  <2>3. \E v \in versions[walking.file] : Members[v][m] = data
    <3>1. CASE walking.dir = 0
      BY <2>1, <3>1 DEF Co!Readable
    <3>2. CASE walking.dir # 0
      <4>1. PICK v \in versions[walking.file] : dirs[walking.dir] = Co!Extracted(v)
        BY <1>0, <2>2, <3>2
      <4>2. PICK y \in Co!Extracted(v) : y[1] = m /\ y[2] = data
        BY <2>1, <3>2, <4>1 DEF Co!Readable
      <4>. QED
        BY <4>2 DEF Co!Extracted
    <3>. QED
      BY <3>1, <3>2
  <2>4. PICK k : /\ k = [run |-> walking.run, file |-> walking.file, member |-> m, data |-> data,
                          sha |-> walking.sha, during |-> versions[walking.file]]
                 /\ pending' = pending \cup {k}
    BY <2>1 DEF Co!Claims
  <2>5. FromContainer(k)
    BY <1>0, <2>2, <2>3, <2>4 DEF FromContainer
  <2>6. walking' = Made(walking, walking.todo, walking.at, walking.file, walking.sha, walking.members \ {m},
                        walking.dir, Bump(walking.stats, "members", 1))
    BY <1>0, <2>1, WalkSteps
  <2>7. Bump(walking.stats, "members", 1) \in Totals
    BY <1>t, Bumped
  <2>8. /\ walking' \in ContainerWalk /\ walking'.at = walking.at /\ walking'.file = walking.file
        /\ walking'.sha = walking.sha /\ walking'.dir = walking.dir
    BY <1>0, <2>6, <2>7 DEF Made, ContainerWalk
  <2>. QED
    BY <1>0, <2>2, <2>4, <2>5, <2>8
<1>9. ASSUME NEW m \in Member, Co!MemberError(m) PROVE MemberInv'
  <2>1. /\ UNCHANGED <<disk, versions, dirs, members, pending>>
        /\ Co!MemberFails(m)
    BY <1>9 DEF Co!MemberError, Co!MemberFails
  <2>2. walking' = Made(walking, walking.todo, walking.at, walking.file, walking.sha, walking.members \ {m},
                        walking.dir, Bump(walking.stats, "failed", 1))
    BY <1>0, <2>1, WalkSteps
  <2>3. Bump(walking.stats, "failed", 1) \in Totals
    BY <1>t, Bumped
  <2>4. /\ walking' \in ContainerWalk /\ walking'.at = walking.at /\ walking'.file = walking.file
        /\ walking'.sha = walking.sha /\ walking'.dir = walking.dir
    BY <1>0, <2>2, <2>3 DEF Made, ContainerWalk
  <2>. QED
    BY <1>0, <2>1, <2>4
<1>11. CASE Co!PassMembers
  <2>1. UNCHANGED <<disk, versions, dirs, members, pending>>
    BY <1>11 DEF Co!PassMembers
  <2>2. PICK ms \in SUBSET walking.members :
          walking' = Made(walking, walking.todo, walking.at, walking.file, walking.sha, walking.members \ ms,
                          walking.dir, walking.stats)
    BY <1>0, <1>11, PassSteps
  <2>3. /\ walking' \in ContainerWalk /\ walking'.at = walking.at /\ walking'.file = walking.file
        /\ walking'.sha = walking.sha /\ walking'.dir = walking.dir
    BY <1>0, <2>2 DEF Made, ContainerWalk
  <2>. QED
    BY <1>0, <2>1, <2>3
<1>10. CASE Co!CloseContainer
  <2>1. UNCHANGED <<disk, versions, members, pending>> /\ dirs' \in Seq(SUBSET (Member \X Extract))
    <3>1. CASE walking.dir = 0
      BY <1>10, <3>1 DEF Co!CloseContainer
    <3>2. CASE walking.dir # 0
      <4>1. walking.dir \in DOMAIN dirs /\ dirs' = [dirs EXCEPT ![walking.dir] = {}]
        BY <1>0, <1>10, <3>2 DEF Co!CloseContainer
      <4>2. dirs' \in Seq(SUBSET (Member \X Extract))
        BY <4>1
      <4>. QED
        BY <1>10, <4>2 DEF Co!CloseContainer
    <3>. QED
      BY <3>1, <3>2
  <2>2. walking' = Made(walking, walking.todo, "next", walking.file, walking.sha, walking.members, 0, walking.stats)
    BY <1>0, <1>10, WalkSteps
  <2>3. walking' \in ContainerWalk /\ walking'.at = "next"
    BY <1>0, <2>2 DEF Made, ContainerWalk
  <2>. QED
    BY <2>1, <2>3
<1>. QED
  BY <1>1, <1>3, <1>4, <1>6, <1>7, <1>8, <1>9, <1>10, <1>11

(* A walk that starts is at no container yet. *)
LEMMA WalkStarts ==
  ASSUME MemberTypes, NEW from \in 0..MaxScans, Co!Start(from)
  PROVE  /\ walking' \in ContainerWalk /\ walking'.at = "next" /\ walking'.run = Len(scans) + 1
         /\ walking'.todo \subseteq Container /\ walking'.stats = Co!Zero
<1>1. Len(scans) + 1 \in Nat
  OBVIOUS
<1>. QED
  BY <1>1 DEF Co!Start, ContainerWalk, Totals, Co!Zero

(* Starting, committing, closing, dying and writes of others keep it too.     *)
LEMMA MemberInvNext == MemberInv /\ [Co!Next]_Co!vars => MemberInv'
<1>. SUFFICES ASSUME MemberInv, [Co!Next]_Co!vars PROVE MemberInv'
  OBVIOUS
<1>. USE DEF MemberInv, MemberTypes, InContainer
<1>1. CASE \/ (\E c \in Container : Co!ProcessFile(c)) \/ Co!Skip \/ Co!TakeChecksum \/ Co!Open \/ Co!OpenError
           \/ (\E m \in Member : Co!ReadMember(m) \/ Co!MemberError(m)) \/ Co!PassMembers \/ Co!CloseContainer
  BY <1>1, WalkHolds
<1>2. ASSUME NEW from \in 0..MaxScans, Co!Start(from) PROVE MemberInv'
  BY <1>2, WalkStarts DEF Co!Start
<1>3. CASE Co!Commit
  BY <1>3 DEF Co!Commit, Co!kept
<1>4. CASE Co!CloseRun
  BY <1>4 DEF Co!CloseRun
<1>5. ASSUME NEW cleans \in BOOLEAN, Co!Dies(cleans) PROVE MemberInv'
  <2>1. /\ UNCHANGED <<disk, versions, members>> /\ pending' = {} /\ walking' = Nothing
        /\ dirs' = dirs \/ (walking.dir # 0 /\ walking.at = "members" /\ dirs' = [dirs EXCEPT ![walking.dir] = {}])
    BY <1>5 DEF Co!Dies, Co!kept
  <2>2. dirs' \in Seq(SUBSET (Member \X Extract))
    <3>1. CASE walking.dir # 0 /\ walking.at = "members" /\ dirs' = [dirs EXCEPT ![walking.dir] = {}]
      <4>1. walking.dir \in DOMAIN dirs
        BY <1>5, <3>1 DEF Co!Dies
      <4>. QED
        BY <3>1, <4>1
    <3>. QED
      BY <2>1, <3>1
  <2>. QED
    BY <2>1, <2>2
<1>6. ASSUME NEW c \in Container, Co!Write(c) PROVE MemberInv'
  <2>1. PICK v \in Version \cup {Nothing} :
          /\ disk' = [disk EXCEPT ![c] = v]
          /\ versions' = [versions EXCEPT ![c] = @ \cup ({v} \ {Nothing})]
    BY <1>6 DEF Co!Write
  <2>2. UNCHANGED <<members, pending, walking, dirs>>
    BY <1>6 DEF Co!Write
  <2>3. /\ disk' \in [Container -> Version \cup {Nothing}] /\ versions' \in [Container -> SUBSET Version]
        /\ \A d \in Container : /\ versions[d] \subseteq versions'[d]
                                /\ \/ disk'[d] = disk[d]
                                   \/ disk'[d] \in versions'[d] \cup {Nothing}
    BY <2>1
  <2>. QED
    BY <2>2, <2>3
<1>7. CASE UNCHANGED Co!vars
  BY <1>7 DEF Co!vars
<1>. QED
  BY <1>1, <1>2, <1>3, <1>4, <1>5, <1>6, <1>7 DEF Co!Next

(* A member's claim names what it held in a version its container had while   *)
(* it was read, and carries the checksum of one: whatever is replaced         *)
(* meanwhile, and whatever killed scans have left behind.                     *)
THEOREM MembersAreTheContainers == InventorySpec => []MembersWereThere
<1>1. MemberInv => MembersWereThere
  BY DEF MemberInv, MemberTypes, FromContainer, MembersWereThere, Co!MembersWereThere
<1>2. Co!Spec => []MemberInv
  BY MemberInvInit, MemberInvNext, PTL DEF Co!Spec
<1>. QED
  BY <1>1, <1>2, EachAlone, PTL

-----------------------------------------------------------------------------
(* Containers: the totals of a finished scan account for the members. *)

(* Among the claims of K, those of run r for members, and whether the file c  *)
(* was claimed with version v, and its member m.                              *)
MemberClaims(K, r) == {k \in K : k.run = r /\ k.member # Nothing}
Whole(K, r, c, v) == \E k \in K : k.run = r /\ k.file = c /\ k.member = Nothing /\ k.data = v
HasMember(K, r, c, m) == \E k \in K : k.run = r /\ k.file = c /\ k.member = m

(* The totals t of run r account for the claims of K: F are the members that  *)
(* failed and B the containers that were skipped or could not be opened, of   *)
(* those that were hashed and stayed as they were; undone are the members that *)
(* have yet to be read or were passed over uncounted.                         *)
Excused(K, r, t, seen, busy, undone, F, B) ==
  /\ IsFiniteSet(F) /\ IsFiniteSet(B)
  /\ Cardinality(F) <= t.failed /\ Cardinality(B) <= t.skipped + t.errored
  /\ B \cap busy = {} /\ \A k \in MemberClaims(K, r) : k.file \notin B
  /\ \A c \in seen :
       /\ \E v \in Version : Whole(K, r, c, v)
       /\ \A v \in Version : Whole(K, r, c, v) => \A m \in Co!Contains(v) :
            HasMember(K, r, c, m) \/ c \in B \/ <<c, m>> \in F \/ <<c, m>> \in undone
Books(K, r, t, seen, busy, undone) ==
  /\ t.members = Cardinality(MemberClaims(K, r))
  /\ \E F \in SUBSET (Container \X Member), B \in SUBSET Container : Excused(K, r, t, seen, busy, undone, F, B)

ContainerRun == [finished : BOOLEAN, totals : Totals, hashed : SUBSET Container, touched : SUBSET Container]
Claimed == members \cup pending
Seen(r) == scans[r].hashed \ scans[r].touched
Busied == walking.todo \cup (IF walking.at = "next" THEN {} ELSE {walking.file})
(* What run r passed over. *)
Passed(r) == {x \in Container \X Member : <<r, x[1], x[2]>> \in dropped}
Undone == CASE walking.at = "next" -> {}
            [] walking.at = "members" -> {walking.file} \X walking.members
            [] OTHER -> {walking.file} \X Member

(* The container the walk is in: not one to come, none of its members claimed *)
(* that are left to do, and claimed as it is unless it was written.           *)
AtContainer ==
  LET c == walking.file IN
  /\ c \notin walking.todo
  /\ \A k \in MemberClaims(Claimed, walking.run) : k.file = c =>
       walking.at = "members" /\ k.member \notin walking.members
  /\ c \notin scans[walking.run].touched => \A v \in Version : Whole(Claimed, walking.run, c, v) => v = disk[c]

AccountInv ==
  /\ IsFiniteSet(Claimed) /\ scans \in Seq(ContainerRun)
  /\ \A k \in Claimed : k.run \in 1..Len(scans)
  /\ \A k \in pending : k.run \notin Co!Finished
  /\ \A r \in Co!Finished : Books(Claimed, r, scans[r].totals, Seen(r), {}, Passed(r))
  /\ walking # Nothing =>
       /\ walking.run \in 1..Len(scans) /\ ~scans[walking.run].finished
       /\ \A k \in Claimed : k.run = walking.run => k.file \notin walking.todo
       /\ scans[walking.run].hashed \cap walking.todo = {}
       /\ walking.at # "next" => AtContainer
       /\ Books(Claimed, walking.run, walking.stats, Seen(walking.run), Busied, Undone \cup Passed(walking.run))

(* What the books say depends on the claims of their run alone.               *)
LEMMA BooksSame ==
  ASSUME NEW K, NEW K2, NEW r, NEW t, NEW t2, NEW seen, NEW seen2, NEW busy, NEW busy2, NEW undone, NEW undone2,
         \A k : k \in K /\ k.run = r <=> k \in K2 /\ k.run = r,
         t2.members = t.members, t2.failed = t.failed, t2.skipped = t.skipped, t2.errored = t.errored,
         seen2 \subseteq seen, busy2 \subseteq busy, undone \subseteq undone2, Books(K, r, t, seen, busy, undone)
  PROVE  Books(K2, r, t2, seen2, busy2, undone2)
<1>1. MemberClaims(K2, r) = MemberClaims(K, r)
  BY DEF MemberClaims
<1>2. /\ \A c, v : Whole(K2, r, c, v) <=> Whole(K, r, c, v)
      /\ \A c, m : HasMember(K2, r, c, m) <=> HasMember(K, r, c, m)
  BY DEF Whole, HasMember
<1>. QED
  BY <1>1, <1>2 DEF Books, Excused

(* A run that has no claim yet has empty books. *)
LEMMA BooksNew ==
  ASSUME NEW K, NEW r, NEW busy, NEW undone, \A k \in K : k.run # r
  PROVE  Books(K, r, Co!Zero, {}, busy, undone)
<1>1. MemberClaims(K, r) = {}
  BY DEF MemberClaims
<1>2. IsFiniteSet({}) /\ Cardinality({}) = 0
  BY FS_EmptySet
<1>. QED
  BY <1>1, <1>2 DEF Books, Excused, Co!Zero

(* The file of a container is claimed, and the container is still to be done  *)
(* if it is hashed.                                                           *)
LEMMA BooksFile ==
  ASSUME NEW K, NEW r, NEW t, NEW seen, NEW seen2, NEW busy, NEW busy2, NEW undone2, NEW f, NEW c,
         f.run = r, f.member = Nothing, f.file = c, f.data \in Version,
         seen2 \subseteq seen \cup {c}, c \notin seen, busy2 \subseteq busy,
         c \in seen2 => \A m \in Member : <<c, m>> \in undone2,
         NEW undone, undone \subseteq undone2, Books(K, r, t, seen, busy, undone)
  PROVE  Books(K \cup {f}, r, t, seen2, busy2, undone2)
<1>1. MemberClaims(K \cup {f}, r) = MemberClaims(K, r)
  BY DEF MemberClaims
<1>2. /\ \A d, v : d # c => (Whole(K \cup {f}, r, d, v) <=> Whole(K, r, d, v))
      /\ Whole(K \cup {f}, r, c, f.data)
  BY DEF Whole
<1>3. \A d, m : HasMember(K, r, d, m) => HasMember(K \cup {f}, r, d, m)
  BY DEF HasMember
<1>4. \A v : Co!Contains(v) \subseteq Member
  BY DEF Co!Contains
<1>5. PICK F \in SUBSET (Container \X Member), B \in SUBSET Container : Excused(K, r, t, seen, busy, undone, F, B)
  BY DEF Books
<1>6. ASSUME NEW d \in seen2
      PROVE  /\ \E v \in Version : Whole(K \cup {f}, r, d, v)
             /\ \A v \in Version : Whole(K \cup {f}, r, d, v) => \A m \in Co!Contains(v) :
                  HasMember(K \cup {f}, r, d, m) \/ d \in B \/ <<d, m>> \in F \/ <<d, m>> \in undone2
  <2>1. CASE d = c
    <3>1. \E v \in Version : Whole(K \cup {f}, r, d, v)
      BY <2>1, <1>2
    <3>2. \A m \in Member : <<d, m>> \in undone2
      BY <2>1
    <3>. QED
      BY <3>1, <3>2, <1>4
  <2>2. CASE d # c
    <3>1. d \in seen
      BY <2>2
    <3>. QED
      BY <3>1, <2>2, <1>2, <1>3, <1>5 DEF Excused
  <2>. QED
    BY <2>1, <2>2
<1>7. B \cap busy2 = {} /\ t.members = Cardinality(MemberClaims(K \cup {f}, r))
  BY <1>1, <1>5 DEF Books, Excused
<1>8. \A k \in MemberClaims(K \cup {f}, r) : k.file \notin B
  BY <1>1, <1>5 DEF Excused
<1>9. Excused(K \cup {f}, r, t, seen2, busy2, undone2, F, B)
  BY <1>5, <1>6, <1>7, <1>8 DEF Excused
<1>. QED
  BY <1>7, <1>9 DEF Books

(* A container is counted as skipped or errored, and is done.                 *)
LEMMA BooksPassed ==
  ASSUME NEW K, NEW r, NEW t \in Totals, NEW t2 \in Totals, NEW seen, NEW busy, NEW busy2, NEW undone, NEW c \in Container,
         t2.members = t.members, t2.failed = t.failed, t2.skipped + t2.errored = t.skipped + t.errored + 1,
         busy2 \subseteq busy \ {c}, NEW over, undone \subseteq ({c} \X Member) \cup over,
         \A k \in MemberClaims(K, r) : k.file # c,
         Books(K, r, t, seen, busy, undone)
  PROVE  Books(K, r, t2, seen, busy2, over)
<1>1. PICK F \in SUBSET (Container \X Member), B \in SUBSET Container : Excused(K, r, t, seen, busy, undone, F, B)
  BY DEF Books
<1>2. PICK B2 \in SUBSET Container : B2 = B \cup {c}
  OBVIOUS
<1>9. IsFiniteSet(B \cup {c}) /\ Cardinality(B \cup {c}) = IF c \in B THEN Cardinality(B) ELSE Cardinality(B) + 1
  BY <1>1, FS_AddElement DEF Excused
<1>10. Cardinality(B) \in Nat
  BY <1>1, FS_CardinalityType DEF Excused
<1>3. IsFiniteSet(B2) /\ Cardinality(B2) <= Cardinality(B) + 1 /\ Cardinality(B2) \in Nat
  BY <1>2, <1>9, <1>10
<1>4. Cardinality(B2) <= t2.skipped + t2.errored
  <2>1. /\ t.skipped \in Int /\ t.errored \in Int /\ t2.skipped \in Int /\ t2.errored \in Int
    BY DEF Totals
  <2>. QED
    BY <1>1, <1>3, <1>10, <2>1 DEF Excused
<1>5. \A d, m : <<d, m>> \in undone => d = c \/ <<d, m>> \in over
  OBVIOUS
<1>6. \A d \in seen :
        /\ \E v \in Version : Whole(K, r, d, v)
        /\ \A v \in Version : Whole(K, r, d, v) => \A m \in Co!Contains(v) :
             HasMember(K, r, d, m) \/ d \in B2 \/ <<d, m>> \in F \/ <<d, m>> \in over
  BY <1>1, <1>2, <1>5 DEF Excused
<1>7. B2 \cap busy2 = {} /\ \A k \in MemberClaims(K, r) : k.file \notin B2
  BY <1>1, <1>2 DEF Excused
<1>8. t2.members = Cardinality(MemberClaims(K, r)) /\ Cardinality(F) <= t2.failed
  BY <1>1 DEF Books, Excused
<1>11. Excused(K, r, t2, seen, busy2, over, F, B2)
  BY <1>1, <1>3, <1>4, <1>6, <1>7, <1>8 DEF Excused
<1>. QED
  BY <1>8, <1>11 DEF Books

(* A member is claimed. *)
LEMMA BooksMember ==
  ASSUME NEW K, NEW r, NEW t \in Totals, NEW t2 \in Totals, NEW seen, NEW busy, NEW undone, NEW undone2,
         NEW f, NEW c, NEW m, IsFiniteSet(K),
         f.run = r, f.member = m, f.file = c, m # Nothing, c \in busy,
         t2.members = t.members + 1, t2.failed = t.failed, t2.skipped = t.skipped, t2.errored = t.errored,
         \A k \in MemberClaims(K, r) : k.file = c => k.member # m,
         undone \subseteq undone2 \cup {<<c, m>>},
         Books(K, r, t, seen, busy, undone)
  PROVE  Books(K \cup {f}, r, t2, seen, busy, undone2)
<1>1. PICK F \in SUBSET (Container \X Member), B \in SUBSET Container : Excused(K, r, t, seen, busy, undone, F, B)
  BY DEF Books
<1>2. MemberClaims(K \cup {f}, r) = MemberClaims(K, r) \cup {f} /\ f \notin MemberClaims(K, r)
  BY DEF MemberClaims
<1>3. IsFiniteSet(MemberClaims(K, r))
  <2>1. MemberClaims(K, r) \in SUBSET K
    BY DEF MemberClaims
  <2>. QED
    BY <2>1, FS_Subset
<1>4. t2.members = Cardinality(MemberClaims(K \cup {f}, r))
  <2>1. PICK M : M = MemberClaims(K, r)
    OBVIOUS
  <2>2. Cardinality(M \cup {f}) = Cardinality(M) + 1
    BY <2>1, <1>2, <1>3, FS_AddElement
  <2>3. t.members = Cardinality(M) /\ MemberClaims(K \cup {f}, r) = M \cup {f}
    BY <2>1, <1>2 DEF Books
  <2>. QED
    BY <2>2, <2>3
<1>5. \A d, v : Whole(K \cup {f}, r, d, v) <=> Whole(K, r, d, v)
  BY DEF Whole
<1>6. /\ \A d, n : HasMember(K, r, d, n) => HasMember(K \cup {f}, r, d, n)
      /\ HasMember(K \cup {f}, r, c, m)
  BY DEF HasMember
<1>7. \A d \in seen :
        /\ \E v \in Version : Whole(K \cup {f}, r, d, v)
        /\ \A v \in Version : Whole(K \cup {f}, r, d, v) => \A n \in Co!Contains(v) :
             HasMember(K \cup {f}, r, d, n) \/ d \in B \/ <<d, n>> \in F \/ <<d, n>> \in undone2
  BY <1>1, <1>5, <1>6 DEF Excused
<1>8. \A k \in MemberClaims(K \cup {f}, r) : k.file \notin B
  BY <1>1, <1>2 DEF Excused
<1>9. Cardinality(F) <= t2.failed /\ Cardinality(B) <= t2.skipped + t2.errored
  BY <1>1 DEF Excused
<1>10. Excused(K \cup {f}, r, t2, seen, busy, undone2, F, B)
  BY <1>1, <1>7, <1>8, <1>9 DEF Excused
<1>. QED
  BY <1>4, <1>10 DEF Books

(* A member failed. *)
LEMMA BooksFailed ==
  ASSUME NEW K, NEW r, NEW t \in Totals, NEW t2 \in Totals, NEW seen, NEW busy, NEW undone, NEW undone2,
         NEW c \in Container, NEW m \in Member,
         t2.members = t.members, t2.failed = t.failed + 1, t2.skipped = t.skipped, t2.errored = t.errored,
         undone \subseteq undone2 \cup {<<c, m>>},
         Books(K, r, t, seen, busy, undone)
  PROVE  Books(K, r, t2, seen, busy, undone2)
<1>1. PICK F \in SUBSET (Container \X Member), B \in SUBSET Container : Excused(K, r, t, seen, busy, undone, F, B)
  BY DEF Books
<1>2. PICK x \in Container \X Member : x = <<c, m>>
  OBVIOUS
<1>7. PICK F2 \in SUBSET (Container \X Member) : F2 = F \cup {x}
  OBVIOUS
<1>8. IsFiniteSet(F \cup {x}) /\ Cardinality(F \cup {x}) = IF x \in F THEN Cardinality(F) ELSE Cardinality(F) + 1
  BY <1>1, FS_AddElement DEF Excused
<1>9. Cardinality(F) \in Nat
  BY <1>1, FS_CardinalityType DEF Excused
<1>3. IsFiniteSet(F2) /\ Cardinality(F2) <= Cardinality(F) + 1 /\ Cardinality(F2) \in Nat
  BY <1>7, <1>8, <1>9
<1>4. Cardinality(F2) <= t2.failed
  <2>1. t.failed \in Int /\ t2.failed \in Int
    BY DEF Totals
  <2>. QED
    BY <2>1, <1>1, <1>3, <1>9 DEF Excused
<1>5. t2.members = Cardinality(MemberClaims(K, r)) /\ Cardinality(B) <= t2.skipped + t2.errored
  BY <1>1 DEF Books, Excused
<1>6. \A d \in seen :
        /\ \E v \in Version : Whole(K, r, d, v)
        /\ \A v \in Version : Whole(K, r, d, v) => \A n \in Co!Contains(v) :
             HasMember(K, r, d, n) \/ d \in B \/ <<d, n>> \in F2 \/ <<d, n>> \in undone2
  BY <1>1, <1>2, <1>7 DEF Excused
<1>10. Excused(K, r, t2, seen, busy, undone2, F2, B)
  BY <1>1, <1>3, <1>4, <1>5, <1>6 DEF Excused
<1>. QED
  BY <1>5, <1>10 DEF Books

(* A container is open: the members to come are those of the version it holds *)
(* unless it was written.                                                     *)
LEMMA BooksOpened ==
  ASSUME NEW K, NEW r, NEW t, NEW seen, NEW busy, NEW undone, NEW c, NEW ms,
         NEW over, undone \subseteq ({c} \X Member) \cup over,
         c \in seen => \A v \in Version : Whole(K, r, c, v) => Co!Contains(v) \subseteq ms,
         Books(K, r, t, seen, busy, undone)
  PROVE  Books(K, r, t, seen, busy, ({c} \X ms) \cup over)
<1>1. PICK F \in SUBSET (Container \X Member), B \in SUBSET Container : Excused(K, r, t, seen, busy, undone, F, B)
  BY DEF Books
<1>2. ASSUME NEW d \in seen, NEW v \in Version, Whole(K, r, d, v), NEW m \in Co!Contains(v)
      PROVE  HasMember(K, r, d, m) \/ d \in B \/ <<d, m>> \in F \/ <<d, m>> \in ({c} \X ms) \cup over
  <2>1. CASE d = c
    <3>1. m \in ms
      BY <1>2, <2>1
    <3>. QED
      BY <2>1, <3>1
  <2>2. CASE d # c
    <3>1. <<d, m>> \in undone => <<d, m>> \in ({c} \X ms) \cup over
      BY <2>2
    <3>. QED
      BY <1>1, <1>2, <3>1 DEF Excused
  <2>. QED
    BY <2>1, <2>2
<1>3. Excused(K, r, t, seen, busy, ({c} \X ms) \cup over, F, B)
  BY <1>1, <1>2 DEF Excused
<1>. QED
  BY <1>1, <1>3 DEF Books

(* Before the first scan there is nothing to account for. *)
LEMMA AccountInvInit == Co!Init => AccountInv
<1>. SUFFICES ASSUME Co!Init PROVE AccountInv
  OBVIOUS
<1>1. IsFiniteSet({})
  BY FS_EmptySet
<1>2. Claimed = {} /\ scans = <<>> /\ walking = Nothing /\ pending = {} /\ Co!Finished = {}
  BY DEF Co!Init, Claimed, Co!Finished
<1>. QED
  BY <1>1, <1>2 DEF AccountInv

(* While a walk goes on the books of the finished runs stay as they are: all  *)
(* that is claimed or hashed is of its own run.                               *)
LEMMA OthersAccounted ==
  ASSUME AccountInv, walking # Nothing,
         \A k : k.run # walking.run => (k \in Claimed' <=> k \in Claimed),
         DOMAIN scans' = DOMAIN scans, \A r \in DOMAIN scans : r # walking.run => scans'[r] = scans[r],
         ~scans'[walking.run].finished, \A r : r # walking.run => Passed(r)' = Passed(r)
  PROVE  \A r \in Co!Finished' : Books(Claimed', r, scans'[r].totals, scans'[r].hashed \ scans'[r].touched, {}, Passed(r)')
<1>. SUFFICES ASSUME NEW r \in Co!Finished'
              PROVE  Books(Claimed', r, scans'[r].totals, scans'[r].hashed \ scans'[r].touched, {}, Passed(r)')
  OBVIOUS
<1>1. r # walking.run /\ scans'[r] = scans[r] /\ r \in Co!Finished
  BY DEF Co!Finished
<1>2. Books(Claimed, r, scans[r].totals, scans[r].hashed \ scans[r].touched, {}, Passed(r))
  BY <1>1 DEF AccountInv, Seen
<1>3. \A k : k \in Claimed /\ k.run = r <=> k \in Claimed' /\ k.run = r
  BY <1>1
<1>. QED
  BY <1>1, <1>2, <1>3, BooksSame

(* What a step of the walk has to keep: its own books and its place.          *)
LEMMA AccountedStep ==
  ASSUME AccountInv, walking # Nothing, walking'.run = walking.run, members' = members,
         NEW f, pending' = pending \/ (pending' = pending \cup {f} /\ f.run = walking.run /\ f.file \notin walking'.todo),
         walking'.todo \subseteq walking.todo,
         scans' \in Seq(ContainerRun), DOMAIN scans' = DOMAIN scans,
         \A r \in DOMAIN scans : r # walking.run => scans'[r] = scans[r], ~scans'[walking.run].finished,
         scans'[walking.run].hashed \cap walking'.todo = {},
         walking'.at # "next" => AtContainer',
         \A r : r # walking.run => Passed(r)' = Passed(r),
         Books(Claimed', walking.run, walking'.stats, Seen(walking.run)', Busied', Undone' \cup Passed(walking.run)')
  PROVE  AccountInv'
<1>1. Claimed' = Claimed \/ (Claimed' = Claimed \cup {f} /\ f.run = walking.run)
  BY DEF Claimed
<1>2. IsFiniteSet(Claimed')
  BY <1>1, FS_AddElement DEF AccountInv
<1>3. Len(scans') = Len(scans) /\ DOMAIN scans = 1..Len(scans)
  BY DEF AccountInv
<1>4. \A k \in Claimed' : k.run \in 1..Len(scans')
  BY <1>1, <1>3 DEF AccountInv
<1>5. \A r \in Co!Finished' : Books(Claimed', r, scans'[r].totals, Seen(r)', {}, Passed(r)')
  <2>1. \A k : k.run # walking.run => (k \in Claimed' <=> k \in Claimed)
    BY <1>1
  <2>. QED
    BY <2>1, OthersAccounted DEF Seen
<1>6. \A k \in pending' : k.run \notin Co!Finished'
  BY DEF AccountInv, Co!Finished
<1>7. \A k \in Claimed' : k.run = walking'.run => k.file \notin walking'.todo
  BY DEF AccountInv, Claimed
<1>8. Books(Claimed', walking'.run, walking'.stats, Seen(walking.run)', Busied', (Undone \cup Passed(walking.run))')
  OBVIOUS
<1>9. walking'.run \in 1..Len(scans')
  BY <1>3 DEF AccountInv
<1>. QED
  BY <1>2, <1>4, <1>5, <1>6, <1>7, <1>8, <1>9 DEF AccountInv, Co!Finished

(* What is noted of a run in its record. *)
NoteHashed(s, r, x) == [s EXCEPT ![r].hashed = x]
NoteTouched(s, r, x) == [s EXCEPT ![r].touched = x]
(* The record of the run changes in that, and the other runs do not change.   *)
LEMMA RunNoted ==
  ASSUME NEW s \in Seq(ContainerRun), NEW r \in DOMAIN s, NEW x \in SUBSET Container
  PROVE  /\ NoteHashed(s, r, x) \in Seq(ContainerRun) /\ NoteTouched(s, r, x) \in Seq(ContainerRun)
         /\ DOMAIN NoteHashed(s, r, x) = DOMAIN s /\ DOMAIN NoteTouched(s, r, x) = DOMAIN s
         /\ \A q \in DOMAIN s : q # r => NoteHashed(s, r, x)[q] = s[q] /\ NoteTouched(s, r, x)[q] = s[q]
         /\ NoteHashed(s, r, x)[r].finished = s[r].finished /\ NoteTouched(s, r, x)[r].finished = s[r].finished
         /\ NoteHashed(s, r, x)[r].hashed = x /\ NoteTouched(s, r, x)[r].hashed = s[r].hashed
         /\ NoteHashed(s, r, x)[r].touched = s[r].touched /\ NoteTouched(s, r, x)[r].touched = x
<1>1. s[r] \in ContainerRun
  OBVIOUS
<1>2. [s[r] EXCEPT !.hashed = x] \in ContainerRun /\ [s[r] EXCEPT !.touched = x] \in ContainerRun
  BY <1>1 DEF ContainerRun
<1>. QED
  BY <1>1, <1>2 DEF ContainerRun, NoteHashed, NoteTouched

(* The file of a container is claimed, hashed if it is not as it was.         *)
LEMMA FileAccounted ==
  ASSUME AccountInv, MemberInv, NEW c \in Container, Co!ProcessFile(c)
  PROVE  AccountInv'
<1>0. /\ walking # Nothing /\ walking \in ContainerWalk /\ walking.at = "next" /\ c \in walking.todo
      /\ UNCHANGED <<disk, members, dropped>> /\ disk[c] \in Version \cup {Nothing}
  BY DEF Co!ProcessFile, MemberInv, MemberTypes, Co!kept
<1>1. PICK a \in {"next", "dispatch"} :
        /\ walking' = Made(walking, walking.todo \ {c}, a, c, walking.sha, walking.members, walking.dir, walking.stats)
        /\ a = IF disk[c] # Nothing /\ ~Co!Reused(c) THEN "dispatch" ELSE "next"
  BY <1>0, WalkSteps
<1>2. /\ walking'.run = walking.run /\ walking'.todo = walking.todo \ {c} /\ walking'.at = a /\ walking'.file = c
      /\ walking'.stats = walking.stats
  BY <1>1 DEF Made
<1>3. PICK f : f = Co!FileClaim(c)
  OBVIOUS
<1>4. /\ f.run = walking.run /\ f.member = Nothing /\ f.file = c /\ f.data = disk[c]
      /\ pending' = IF disk[c] = Nothing THEN pending ELSE pending \cup {f}
      /\ scans' = IF a = "dispatch" THEN [scans EXCEPT ![walking.run].hashed = @ \cup {c}] ELSE scans
  BY <1>1, <1>3 DEF Co!ProcessFile, Co!FileClaim
<1>5. /\ scans \in Seq(ContainerRun) /\ walking.run \in DOMAIN scans /\ ~scans[walking.run].finished
      /\ scans[walking.run] \in ContainerRun /\ scans[walking.run].hashed \cap walking.todo = {}
      /\ Books(Claimed, walking.run, walking.stats, Seen(walking.run), walking.todo, Passed(walking.run))
  <2>1. Busied = walking.todo /\ Undone \cup Passed(walking.run) = Passed(walking.run)
    BY <1>0 DEF Busied, Undone
  <2>2. Books(Claimed, walking.run, walking.stats, Seen(walking.run), Busied, Undone \cup Passed(walking.run))
    BY <1>0 DEF AccountInv
  <2>3. /\ scans \in Seq(ContainerRun) /\ walking.run \in DOMAIN scans /\ ~scans[walking.run].finished
        /\ scans[walking.run] \in ContainerRun /\ scans[walking.run].hashed \cap walking.todo = {}
    BY <1>0 DEF AccountInv
  <2>. QED
    BY <2>1, <2>2, <2>3
<1>6. /\ scans' \in Seq(ContainerRun) /\ DOMAIN scans' = DOMAIN scans
      /\ \A r \in DOMAIN scans : r # walking.run => scans'[r] = scans[r]
      /\ ~scans'[walking.run].finished /\ scans'[walking.run].touched = scans[walking.run].touched
      /\ scans'[walking.run].hashed = IF a = "dispatch" THEN scans[walking.run].hashed \cup {c} ELSE scans[walking.run].hashed
  <2>1. PICK x \in SUBSET Container : x = scans[walking.run].hashed \cup {c}
    BY <1>5 DEF ContainerRun
  <2>2. CASE a = "dispatch"
    <3>1. scans' = NoteHashed(scans, walking.run, x)
      BY <1>4, <2>1, <2>2 DEF NoteHashed
    <3>. QED
      BY <1>5, <2>1, <2>2, <3>1, RunNoted
  <2>3. CASE a # "dispatch"
    BY <1>4, <1>5, <2>3
  <2>. QED
    BY <2>2, <2>3
<1>7. walking'.at # "next" => AtContainer'
  <2>. SUFFICES ASSUME a = "dispatch" PROVE AtContainer'
    BY <1>2
  <2>1. disk[c] # Nothing /\ pending' = pending \cup {f} /\ Claimed' = Claimed \cup {f}
    BY <1>0, <1>1, <1>4 DEF Claimed
  <2>2. \A k \in Claimed : k.run = walking.run => k.file # c
    BY <1>0 DEF AccountInv
  <2>3. \A k \in MemberClaims(Claimed', walking'.run) : k.file # c
    BY <1>2, <1>4, <2>1, <2>2 DEF MemberClaims
  <2>4. \A v \in Version : Whole(Claimed', walking'.run, c, v) => v = disk'[c]
    BY <1>0, <1>2, <1>4, <2>1, <2>2 DEF Whole
  <2>. QED
    BY <1>2, <2>3, <2>4 DEF AtContainer
<1>10. Passed(walking.run)' = Passed(walking.run) /\ \A r : Passed(r)' = Passed(r)
  BY <1>0, <1>2 DEF Passed
<1>8. Books(Claimed', walking.run, walking'.stats, Seen(walking.run)', Busied', Undone' \cup Passed(walking.run)')
  <2>1. Seen(walking.run)' \subseteq Seen(walking.run) \cup {c} /\ c \notin Seen(walking.run)
    BY <1>0, <1>2, <1>5, <1>6 DEF Seen
  <2>2. Busied' \subseteq walking.todo
    BY <1>0, <1>2 DEF Busied
  <2>3. CASE disk[c] = Nothing
    <3>1. Claimed' = Claimed /\ a = "next" /\ Seen(walking.run)' = Seen(walking.run)
      BY <1>0, <1>1, <1>2, <1>4, <1>6, <2>3 DEF Claimed, Seen
    <3>. QED
      BY <1>2, <1>5, <1>10, <2>2, <3>1, BooksSame
  <2>4. CASE disk[c] # Nothing
    <3>1. Claimed' = Claimed \cup {f} /\ f.data \in Version
      BY <1>0, <1>4, <2>4 DEF Claimed
    <3>2. c \in Seen(walking.run)' => a = "dispatch"
      BY <1>2, <1>6, <2>1 DEF Seen
    <3>3. a = "dispatch" => Undone' = {c} \X Member
      BY <1>2 DEF Undone
    <3>4. /\ c \in Seen(walking.run)' => \A m \in Member : <<c, m>> \in Undone' \cup Passed(walking.run)'
          /\ Passed(walking.run) \subseteq Undone' \cup Passed(walking.run)'
      BY <1>10, <3>2, <3>3
    <3>. QED
      BY <1>2, <1>4, <1>5, <2>1, <2>2, <3>1, <3>4, BooksFile
  <2>. QED
    BY <2>3, <2>4
<1>9. scans'[walking.run].hashed \cap walking'.todo = {}
  BY <1>2, <1>5, <1>6
<1>. QED
  BY <1>0, <1>2, <1>4, <1>6, <1>7, <1>8, <1>9, <1>10, AccountedStep

(* A container that is skipped or cannot be opened is counted.                *)
LEMMA PassedAccounted ==
  ASSUME AccountInv, MemberInv, walking # Nothing, walking.at \in {"dispatch", "open"},
         NEW t \in Totals, t.members = walking.stats.members, t.failed = walking.stats.failed,
         t.skipped + t.errored = walking.stats.skipped + walking.stats.errored + 1,
         UNCHANGED <<members, pending, scans, dropped>>,
         walking' = Made(walking, walking.todo, "next", walking.file, walking.sha, walking.members, walking.dir, t)
  PROVE  AccountInv'
<1>0. walking \in ContainerWalk /\ walking.file \in Container
  BY DEF MemberInv, MemberTypes, InContainer
<1>1. walking'.run = walking.run /\ walking'.todo = walking.todo /\ walking'.at = "next" /\ walking'.stats = t
  BY DEF Made
<1>2. /\ scans \in Seq(ContainerRun) /\ ~scans[walking.run].finished /\ scans[walking.run].hashed \cap walking.todo = {}
      /\ Books(Claimed, walking.run, walking.stats, Seen(walking.run), Busied, Undone \cup Passed(walking.run))
      /\ walking.file \notin walking.todo
      /\ \A k \in MemberClaims(Claimed, walking.run) : k.file # walking.file
  BY <1>0 DEF AccountInv, AtContainer
<1>3. Claimed' = Claimed /\ Seen(walking.run)' = Seen(walking.run) /\ Undone' = {}
  BY <1>1 DEF Claimed, Seen, Undone
<1>4. Busied' \subseteq Busied \ {walking.file}
  BY <1>1, <1>2 DEF Busied
<1>5. Undone \cup Passed(walking.run) \subseteq ({walking.file} \X Member) \cup Passed(walking.run)
  BY DEF Undone
<1>8. Passed(walking.run)' = Passed(walking.run) /\ \A r : Passed(r)' = Passed(r)
  BY <1>1 DEF Passed
<1>6. walking.stats \in Totals
  BY <1>0 DEF ContainerWalk
<1>7. Books(Claimed', walking.run, walking'.stats, Seen(walking.run)', Busied', Undone' \cup Passed(walking.run)')
  <2>1. Books(Claimed, walking.run, t, Seen(walking.run), Busied', Passed(walking.run))
    BY <1>0, <1>2, <1>4, <1>5, <1>6, BooksPassed
  <2>2. Undone' \cup Passed(walking.run)' = Passed(walking.run)
    BY <1>3, <1>8
  <2>. QED
    BY <1>1, <1>3, <2>1, <2>2
<1>. QED
  BY <1>1, <1>2, <1>7, <1>8, AccountedStep

(* The totals after a container that was not walked. *)
LEMMA PassedTotals ==
  ASSUME NEW t \in Totals, NEW n \in {0, 1}, NEW t2,
         t2 = Bump(t, "skipped", 1) \/ t2 = Bump(t, "errored", 1) \/ t2 = Bump(Bump(t, "walked", -n), "errored", 1)
  PROVE  t2 \in Totals /\ t2.members = t.members /\ t2.failed = t.failed
         /\ t2.skipped + t2.errored = t.skipped + t.errored + 1
<1>1. PICK w : w = Bump(t, "walked", -n)
  OBVIOUS
<1>2. -n \in Int /\ t.skipped \in Int /\ t.errored \in Int
  BY DEF Totals
<1>3. /\ w \in Totals /\ w.skipped = t.skipped /\ w.errored = t.errored /\ w.members = t.members /\ w.failed = t.failed
  BY <1>1, <1>2 DEF Bump, Totals
<1>4. CASE t2 = Bump(t, "skipped", 1)
  <2>1. t2 \in Totals /\ t2.skipped = t.skipped + 1 /\ t2.errored = t.errored /\ t2.members = t.members /\ t2.failed = t.failed
    BY <1>4 DEF Bump, Totals
  <2>. QED
    BY <1>2, <2>1
<1>5. ASSUME NEW u \in Totals, u.skipped = t.skipped, u.errored = t.errored, u.members = t.members, u.failed = t.failed,
             t2 = Bump(u, "errored", 1)
      PROVE  t2 \in Totals /\ t2.members = t.members /\ t2.failed = t.failed
             /\ t2.skipped + t2.errored = t.skipped + t.errored + 1
  <2>1. t2 \in Totals /\ t2.skipped = u.skipped /\ t2.errored = u.errored + 1 /\ t2.members = u.members /\ t2.failed = u.failed
    BY <1>5 DEF Bump, Totals
  <2>. QED
    BY <1>2, <1>5, <2>1
<1>6. CASE t2 = Bump(t, "errored", 1)
  BY <1>5, <1>6
<1>7. CASE t2 = Bump(Bump(t, "walked", -n), "errored", 1)
  BY <1>1, <1>3, <1>5, <1>7
<1>. QED
  BY <1>4, <1>6, <1>7

(* The container is skipped, hashed once more or opened. *)
LEMMA OpenAccounted ==
  ASSUME AccountInv, MemberInv, Co!Skip \/ Co!TakeChecksum \/ Co!Open \/ Co!OpenError
  PROVE  AccountInv'
<1>0. /\ walking # Nothing /\ walking.at \in {"dispatch", "open"} /\ UNCHANGED <<members, pending, scans, disk, dropped>>
      /\ walking \in ContainerWalk /\ walking.file \in Container
  BY DEF Co!Skip, Co!TakeChecksum, Co!Open, Co!OpenError, MemberInv, MemberTypes, InContainer, Co!kept
<1>1. walking.stats \in Totals
  BY <1>0 DEF ContainerWalk
<1>2. /\ scans \in Seq(ContainerRun) /\ ~scans[walking.run].finished /\ scans[walking.run].hashed \cap walking.todo = {}
      /\ Books(Claimed, walking.run, walking.stats, Seen(walking.run), Busied, Undone \cup Passed(walking.run)) /\ AtContainer
      /\ Undone = {walking.file} \X Member /\ Busied = walking.todo \cup {walking.file}
  BY <1>0 DEF AccountInv, Undone, Busied
<1>8. \A r : Passed(r)' = Passed(r)
  BY <1>0 DEF Passed
<1>3. CASE Co!Skip
  <2>1. walking' = Made(walking, walking.todo, "next", walking.file, walking.sha, walking.members, walking.dir,
                        Bump(walking.stats, "skipped", 1))
    BY <1>0, <1>3, WalkSteps
  <2>. QED
    BY <1>0, <1>1, <2>1, PassedTotals, PassedAccounted
<1>4. CASE Co!TakeChecksum /\ disk[walking.file] = Nothing
  <2>1. walking' = Made(walking, walking.todo, "next", walking.file, walking.sha, walking.members,
                        walking.dir, Bump(walking.stats, "errored", 1))
    BY <1>0, <1>4, WalkSteps
  <2>. QED
    BY <1>0, <1>1, <2>1, PassedTotals, PassedAccounted
<1>5. CASE Co!OpenFails
  <2>1. PICK n \in {0, 1} :
          walking' = Made(walking, walking.todo, "next", walking.file, walking.sha, walking.members, walking.dir,
                          Bump(Bump(walking.stats, "walked", -n), "errored", 1))
    BY <1>0, <1>5, WalkSteps
  <2>. QED
    BY <1>0, <1>1, <2>1, PassedTotals, PassedAccounted
<1>6. CASE Co!TakeChecksum /\ disk[walking.file] # Nothing
  <2>1. walking' = Made(walking, walking.todo, "open", walking.file, disk[walking.file], walking.members,
                        walking.dir, Bump(walking.stats, "walked", 1))
    BY <1>0, <1>6, WalkSteps
  <2>2. /\ walking'.run = walking.run /\ walking'.todo = walking.todo /\ walking'.at = "open" /\ walking'.file = walking.file
        /\ walking'.stats = Bump(walking.stats, "walked", 1)
    BY <2>1 DEF Made
  <2>3. walking'.stats.members = walking.stats.members /\ walking'.stats.failed = walking.stats.failed
        /\ walking'.stats.skipped = walking.stats.skipped /\ walking'.stats.errored = walking.stats.errored
    BY <1>1, <2>2 DEF Bump, Totals
  <2>4. Claimed' = Claimed /\ Seen(walking.run)' = Seen(walking.run) /\ Undone' = Undone /\ Busied' = Busied
    BY <1>0, <1>2, <2>2 DEF Claimed, Seen, Undone, Busied
  <2>5. AtContainer'
    BY <1>0, <1>2, <2>2, <2>4 DEF AtContainer
  <2>6. Books(Claimed', walking.run, walking'.stats, Seen(walking.run)', Busied', Undone' \cup Passed(walking.run)')
    <3>1. Undone \cup Passed(walking.run) \subseteq Undone' \cup Passed(walking.run)'
      BY <1>0, <2>2, <2>4 DEF Passed
    <3>. QED
      BY <1>2, <2>3, <2>4, <3>1, BooksSame
  <2>. QED
    BY <1>0, <1>2, <1>8, <2>2, <2>5, <2>6, AccountedStep
<1>7. CASE Co!Open /\ disk[walking.file] # Nothing
  <2>1. PICK ms \in SUBSET Member, d \in Nat :
          /\ walking' = Made(walking, walking.todo, "members", walking.file, walking.sha, ms, d, walking.stats)
          /\ Co!Contains(disk[walking.file]) \subseteq ms
    <3>1. CASE Kind[walking.file] # "unar"
      <4>1. PICK ms \in SUBSET Member : ms = Co!Contains(disk[walking.file])
        BY DEF Co!Contains
      <4>2. walking' = [k \in DOMAIN walking |-> IF k = "members" THEN ms ELSE IF k = "dir" THEN 0
                          ELSE IF k = "at" THEN "members" ELSE walking[k]]
        BY <1>0, <1>7, <3>1, <4>1, WalkDomain DEF Co!Open
      <4>3. walking' = Made(walking, walking.todo, "members", walking.file, walking.sha, ms, 0, walking.stats)
        BY <1>0, <4>2, WalkDomain DEF Made
      <4>. QED
        BY <4>1, <4>3
    <3>2. CASE Kind[walking.file] = "unar"
      <4>1. PICK d \in Nat : d = Len(dirs) + 1 /\ d \notin DOMAIN dirs
        BY DEF MemberInv, MemberTypes
      <4>2. PICK ms : ms = {x[1] : x \in Co!Extracted(disk[walking.file])}
        OBVIOUS
      <4>3. Co!Contains(disk[walking.file]) \subseteq ms
        <5>1. ASSUME NEW m \in Co!Contains(disk[walking.file]) PROVE m \in ms
          <6>1. PICK x \in Co!Extracted(disk[walking.file]) : x = <<m, Members[disk[walking.file]][m]>>
            BY DEF Co!Extracted
          <6>2. x[1] = m
            BY <6>1
          <6>. QED
            BY <4>2, <6>2
        <5>. QED
          BY <5>1
      <4>4. ms \in SUBSET Member
        BY <4>2 DEF Co!Extracted, Co!Contains
      <4>5. Co!ExtractDir = d
        BY <4>1 DEF Co!ExtractDir, Co!FreshDir
      <4>6. PICK found : found = Co!Extracted(disk[walking.file])
        OBVIOUS
      <4>7. found \cup {} = found
        OBVIOUS
      <4>8. walking' = [walking EXCEPT !.at = "members", !.dir = d, !.members = {x[1] : x \in found}]
        BY <1>7, <3>2, <4>1, <4>5, <4>6, <4>7 DEF Co!Open
      <4>9. walking' = [walking EXCEPT !.at = "members", !.dir = d, !.members = ms]
        BY <4>2, <4>6, <4>8
      <4>11. walking' = [k \in DOMAIN walking |-> IF k = "members" THEN ms ELSE IF k = "dir" THEN d
                           ELSE IF k = "at" THEN "members" ELSE walking[k]]
        BY <1>0, <4>9, WalkDomain
      <4>10. walking' = Made(walking, walking.todo, "members", walking.file, walking.sha, ms, d, walking.stats)
        BY <1>0, <4>11, WalkDomain DEF Made
      <4>. QED
        BY <4>1, <4>3, <4>4, <4>10
    <3>. QED
      BY <3>1, <3>2
  <2>2. /\ walking'.run = walking.run /\ walking'.todo = walking.todo /\ walking'.at = "members"
        /\ walking'.file = walking.file /\ walking'.stats = walking.stats /\ walking'.members = ms
    BY <2>1 DEF Made
  <2>3. Claimed' = Claimed /\ Seen(walking.run)' = Seen(walking.run) /\ Busied' = Busied /\ Undone' = {walking.file} \X ms
    BY <1>0, <1>2, <2>2 DEF Claimed, Seen, Undone, Busied
  <2>4. AtContainer'
    BY <1>0, <1>2, <2>2, <2>3 DEF AtContainer
  <2>5. walking.file \in Seen(walking.run) => \A v \in Version :
          Whole(Claimed, walking.run, walking.file, v) => Co!Contains(v) \subseteq ms
    BY <1>2, <2>1 DEF AtContainer, Seen
  <2>6. Books(Claimed, walking.run, walking.stats, Seen(walking.run), Busied, Undone' \cup Passed(walking.run))
    <3>1. PICK over, undone : over = Passed(walking.run) /\ undone = Undone \cup over
      OBVIOUS
    <3>2. undone \subseteq ({walking.file} \X Member) \cup over
      BY <1>2, <3>1
    <3>3. Books(Claimed, walking.run, walking.stats, Seen(walking.run), Busied, undone)
      BY <1>2, <3>1
    <3>4. Books(Claimed, walking.run, walking.stats, Seen(walking.run), Busied, ({walking.file} \X ms) \cup over)
      BY <2>5, <3>2, <3>3, BooksOpened
    <3>. QED
      BY <2>3, <3>1, <3>4
  <2>7. Passed(walking.run)' = Passed(walking.run)
    BY <1>0, <2>2 DEF Passed
  <2>. QED
    BY <1>0, <1>2, <1>8, <2>2, <2>3, <2>4, <2>6, <2>7, AccountedStep
<1>. QED
  BY <1>3, <1>4, <1>5, <1>6, <1>7 DEF Co!TakeChecksum, Co!Open, Co!OpenError

(* A member is claimed, or fails and is counted. *)
LEMMA MembersCounted ==
  ASSUME AccountInv, MemberInv, NEW m \in Member, Co!ReadMember(m) \/ Co!MemberError(m)
  PROVE  AccountInv'
<1>0. /\ walking # Nothing /\ walking.at = "members" /\ m \in walking.members /\ UNCHANGED <<members, scans, disk, dropped>>
      /\ walking \in ContainerWalk /\ walking.file \in Container
  BY DEF Co!ReadMember, Co!MemberError, MemberInv, MemberTypes, InContainer, Co!kept
<1>1. walking.stats \in Totals /\ m # Nothing
  BY <1>0, InventoryAssumption DEF ContainerWalk, Co!ContainersAssumption
<1>2. /\ scans \in Seq(ContainerRun) /\ ~scans[walking.run].finished /\ scans[walking.run].hashed \cap walking.todo = {}
      /\ Books(Claimed, walking.run, walking.stats, Seen(walking.run), Busied, Undone \cup Passed(walking.run)) /\ AtContainer
      /\ Undone = {walking.file} \X walking.members /\ Busied = walking.todo \cup {walking.file}
      /\ walking.file \notin walking.todo /\ IsFiniteSet(Claimed)
  BY <1>0 DEF AccountInv, AtContainer, Undone, Busied
<1>3. ASSUME NEW t, walking' = Made(walking, walking.todo, walking.at, walking.file, walking.sha, walking.members \ {m},
                                    walking.dir, t)
      PROVE  /\ walking'.run = walking.run /\ walking'.todo = walking.todo /\ walking'.at = "members"
             /\ walking'.file = walking.file /\ walking'.stats = t /\ walking'.members = walking.members \ {m}
             /\ Undone \cup Passed(walking.run) \subseteq (Undone' \cup Passed(walking.run)') \cup {<<walking.file, m>>}
             /\ Busied' = Busied /\ \A r : Passed(r)' = Passed(r)
             /\ Seen(walking.run)' = Seen(walking.run)
  <2>1. /\ walking'.run = walking.run /\ walking'.todo = walking.todo /\ walking'.at = "members"
        /\ walking'.file = walking.file /\ walking'.stats = t /\ walking'.members = walking.members \ {m}
    BY <1>0, <1>3 DEF Made
  <2>2. Undone' = {walking.file} \X (walking.members \ {m}) /\ Busied' = walking.todo \cup {walking.file}
    BY <2>1 DEF Undone, Busied
  <2>3. Passed(walking.run)' = Passed(walking.run) /\ \A r : Passed(r)' = Passed(r)
    BY <1>0, <2>1 DEF Passed
  <2>4. Undone \subseteq Undone' \cup {<<walking.file, m>>}
    BY <1>2, <2>2
  <2>5. Seen(walking.run)' = Seen(walking.run) /\ Busied' = Busied
    BY <1>0, <1>2, <2>1, <2>2 DEF Seen
  <2>6. Undone \cup Passed(walking.run) \subseteq (Undone' \cup Passed(walking.run)') \cup {<<walking.file, m>>}
    BY <2>3, <2>4
  <2>. QED
    BY <2>1, <2>3, <2>5, <2>6
<1>4. CASE Co!ReadMember(m)
  <2>1. PICK data : Co!Claims(m, data)
    BY <1>4 DEF Co!ReadMember
  <2>2. PICK f : /\ f = [run |-> walking.run, file |-> walking.file, member |-> m, data |-> data,
                          sha |-> walking.sha, during |-> versions[walking.file]]
                 /\ pending' = pending \cup {f}
    BY <2>1 DEF Co!Claims
  <2>3. f.run = walking.run /\ f.file = walking.file /\ f.member = m
    BY <2>2
  <2>4. PICK t : t = Bump(walking.stats, "members", 1)
    OBVIOUS
  <2>5. /\ t \in Totals /\ t.members = walking.stats.members + 1 /\ t.failed = walking.stats.failed
        /\ t.skipped = walking.stats.skipped /\ t.errored = walking.stats.errored
    BY <1>1, <2>4 DEF Bump, Totals
  <2>6. walking' = Made(walking, walking.todo, walking.at, walking.file, walking.sha, walking.members \ {m}, walking.dir, t)
    BY <1>0, <2>1, <2>4, WalkSteps
  <2>7. Claimed' = Claimed \cup {f}
    BY <1>0, <2>2 DEF Claimed
  <2>8. \A k \in MemberClaims(Claimed, walking.run) : k.file = walking.file => k.member \notin walking.members
    BY <1>2 DEF AtContainer
  <2>9. AtContainer'
    <3>1. \A k \in MemberClaims(Claimed', walking'.run) :
            k.file = walking.file => k.member \notin walking.members \ {m}
      BY <1>3, <2>3, <2>6, <2>7, <2>8 DEF MemberClaims
    <3>2. \A v : Whole(Claimed', walking'.run, walking.file, v) => Whole(Claimed, walking.run, walking.file, v)
      BY <1>1, <1>3, <2>3, <2>6, <2>7 DEF Whole
    <3>. QED
      BY <1>0, <1>2, <1>3, <2>6, <3>1, <3>2 DEF AtContainer
  <2>10. Books(Claimed', walking.run, t, Seen(walking.run), Busied, Undone' \cup Passed(walking.run)')
    <3>1. /\ Undone \cup Passed(walking.run) \subseteq (Undone' \cup Passed(walking.run)') \cup {<<walking.file, m>>}
          /\ walking.file \in Busied
      BY <1>2, <1>3, <2>6
    <3>. QED
      BY <1>0, <1>1, <1>2, <2>3, <2>5, <2>7, <2>8, <3>1, BooksMember
  <2>11. /\ walking'.run = walking.run /\ walking'.todo = walking.todo /\ walking'.at = "members"
         /\ walking'.file = walking.file /\ \A r : Passed(r)' = Passed(r)
    BY <1>3, <2>6
  <2>12. Books(Claimed', walking.run, walking'.stats, Seen(walking.run)', Busied', Undone' \cup Passed(walking.run)')
    BY <1>3, <2>6, <2>10
  <2>. QED
    BY <1>0, <1>2, <2>2, <2>3, <2>9, <2>11, <2>12, AccountedStep
<1>5. CASE Co!MemberError(m)
  <2>1. Co!MemberFails(m) /\ pending' = pending
    BY <1>5 DEF Co!MemberError, Co!MemberFails
  <2>4. PICK t : t = Bump(walking.stats, "failed", 1)
    OBVIOUS
  <2>5. /\ t \in Totals /\ t.members = walking.stats.members /\ t.failed = walking.stats.failed + 1
        /\ t.skipped = walking.stats.skipped /\ t.errored = walking.stats.errored
    BY <1>1, <2>4 DEF Bump, Totals
  <2>6. walking' = Made(walking, walking.todo, walking.at, walking.file, walking.sha, walking.members \ {m}, walking.dir, t)
    BY <1>0, <2>1, <2>4, WalkSteps
  <2>7. Claimed' = Claimed
    BY <1>0, <2>1 DEF Claimed
  <2>9. AtContainer'
    BY <1>0, <1>2, <1>3, <2>6, <2>7 DEF AtContainer
  <2>10. Books(Claimed', walking.run, t, Seen(walking.run), Busied, Undone' \cup Passed(walking.run)')
    <3>1. Undone \cup Passed(walking.run) \subseteq (Undone' \cup Passed(walking.run)') \cup {<<walking.file, m>>}
      BY <1>3, <2>6
    <3>. QED
      BY <1>0, <1>1, <1>2, <2>5, <2>7, <3>1, BooksFailed
  <2>11. /\ walking'.run = walking.run /\ walking'.todo = walking.todo /\ walking'.at = "members"
         /\ walking'.file = walking.file /\ \A r : Passed(r)' = Passed(r)
    BY <1>3, <2>6
  <2>12. Books(Claimed', walking.run, walking'.stats, Seen(walking.run)', Busied', Undone' \cup Passed(walking.run)')
    BY <1>3, <2>6, <2>10
  <2>. QED
    BY <1>0, <1>2, <2>1, <2>9, <2>11, <2>12, AccountedStep
<1>. QED
  BY <1>4, <1>5

(* Members that an extracted tree does not show are passed over. *)
LEMMA MembersPassed ==
  ASSUME AccountInv, MemberInv, Co!PassMembers
  PROVE  AccountInv'
<1>0. /\ walking # Nothing /\ walking.at = "members" /\ UNCHANGED <<members, pending, scans, disk>>
      /\ walking \in ContainerWalk /\ walking.file \in Container
  BY DEF Co!PassMembers, MemberInv, MemberTypes, InContainer
<1>1. PICK ms \in SUBSET walking.members :
        /\ walking' = Made(walking, walking.todo, walking.at, walking.file, walking.sha, walking.members \ ms,
                           walking.dir, walking.stats)
        /\ dropped' = dropped \cup ({walking.run} \X {walking.file} \X ms)
  BY <1>0, PassSteps
<1>2. /\ walking'.run = walking.run /\ walking'.todo = walking.todo /\ walking'.at = "members"
      /\ walking'.file = walking.file /\ walking'.stats = walking.stats /\ walking'.members = walking.members \ ms
  BY <1>0, <1>1 DEF Made
<1>3. /\ scans \in Seq(ContainerRun) /\ ~scans[walking.run].finished /\ scans[walking.run].hashed \cap walking.todo = {}
      /\ Books(Claimed, walking.run, walking.stats, Seen(walking.run), Busied, Undone \cup Passed(walking.run)) /\ AtContainer
  BY <1>0 DEF AccountInv
<1>4. /\ Claimed' = Claimed /\ Seen(walking.run)' = Seen(walking.run) /\ Busied' = Busied
      /\ Undone = {walking.file} \X walking.members /\ Undone' = {walking.file} \X (walking.members \ ms)
  BY <1>0, <1>2 DEF Claimed, Seen, Busied, Undone
<1>5. \A r : r # walking.run => Passed(r)' = Passed(r)
  BY <1>1 DEF Passed
<1>6. ms \subseteq Member
  BY <1>0 DEF ContainerWalk
<1>7. Passed(walking.run)' = Passed(walking.run) \cup ({walking.file} \X ms)
  <2>1. Passed(walking.run)' = {x \in Container \X Member : <<walking.run, x[1], x[2]>> \in dropped'}
    BY <1>2 DEF Passed
  <2>2. \A x \in Container \X Member : <<walking.run, x[1], x[2]>> \in {walking.run} \X {walking.file} \X ms
                                    <=> x \in {walking.file} \X ms
    OBVIOUS
  <2>. QED
    BY <1>0, <1>1, <1>6, <2>1, <2>2 DEF Passed
<1>8. Undone \cup Passed(walking.run) \subseteq Undone' \cup Passed(walking.run)'
  BY <1>4, <1>7
<1>9. Books(Claimed', walking.run, walking'.stats, Seen(walking.run)', Busied', Undone' \cup Passed(walking.run)')
  BY <1>2, <1>3, <1>4, <1>8, BooksSame
<1>10. AtContainer'
  BY <1>0, <1>2, <1>3, <1>4 DEF AtContainer
<1>. QED
  BY <1>0, <1>2, <1>3, <1>5, <1>9, <1>10, AccountedStep

(* Starting, committing, closing, dying and writes of others keep it too.     *)
LEMMA AccountInvNext == AccountInv /\ MemberInv /\ [Co!Next]_Co!vars => AccountInv'
<1>. SUFFICES ASSUME AccountInv, MemberInv, [Co!Next]_Co!vars PROVE AccountInv'
  OBVIOUS
<1>0. walking # Nothing => walking \in ContainerWalk /\ walking.run \in DOMAIN scans /\ scans[walking.run] \in ContainerRun
  BY DEF MemberInv, MemberTypes, AccountInv
<1>1. CASE \/ (\E c \in Container : Co!ProcessFile(c)) \/ Co!Skip \/ Co!TakeChecksum \/ Co!Open \/ Co!OpenError
           \/ (\E m \in Member : Co!ReadMember(m) \/ Co!MemberError(m)) \/ Co!PassMembers
  BY <1>1, FileAccounted, OpenAccounted, MembersCounted, MembersPassed
<1>2. CASE Co!CloseContainer
  <2>1. /\ walking # Nothing /\ walking.at = "members" /\ walking.members = {} /\ UNCHANGED <<members, pending, scans, dropped>>
    BY <1>2 DEF Co!CloseContainer, Co!kept
  <2>2. walking' = Made(walking, walking.todo, "next", walking.file, walking.sha, walking.members, 0, walking.stats)
    BY <1>0, <1>2, <2>1, WalkSteps
  <2>3. walking'.run = walking.run /\ walking'.todo = walking.todo /\ walking'.at = "next" /\ walking'.stats = walking.stats
    BY <2>2 DEF Made
  <2>4. /\ Books(Claimed, walking.run, walking.stats, Seen(walking.run), Busied, Passed(walking.run))
        /\ scans \in Seq(ContainerRun) /\ ~scans[walking.run].finished /\ scans[walking.run].hashed \cap walking.todo = {}
    <3>1. Undone \cup Passed(walking.run) = Passed(walking.run)
      BY <2>1 DEF Undone
    <3>. QED
      BY <2>1, <3>1 DEF AccountInv
  <2>5. Claimed' = Claimed /\ Seen(walking.run)' = Seen(walking.run) /\ Undone' = {} /\ Busied' \subseteq Busied
    BY <2>1, <2>3 DEF Claimed, Seen, Undone, Busied
  <2>6. Books(Claimed', walking.run, walking'.stats, Seen(walking.run)', Busied', Undone' \cup Passed(walking.run)')
    <3>1. Passed(walking.run) \subseteq Undone' \cup Passed(walking.run)'
      BY <2>1, <2>3 DEF Passed
    <3>. QED
      BY <2>3, <2>4, <2>5, <3>1, BooksSame
  <2>7. \A r : Passed(r)' = Passed(r)
    BY <2>1 DEF Passed
  <2>. QED
    BY <2>1, <2>3, <2>4, <2>6, <2>7, AccountedStep
<1>3. CASE Co!Commit
  <2>1. Claimed' = Claimed /\ pending' = {} /\ UNCHANGED <<disk, scans, walking, dropped>>
    BY <1>3 DEF Co!Commit, Co!kept, Claimed
  <2>. QED
    BY <2>1 DEF AccountInv, Co!Finished, Seen, Busied, Undone, AtContainer, Passed
<1>4. CASE Co!CloseRun
  <2>1. /\ walking # Nothing /\ walking.at = "next" /\ walking.todo = {} /\ pending = {} /\ walking' = Nothing
        /\ scans' = [scans EXCEPT ![walking.run].finished = TRUE, ![walking.run].totals = walking.stats]
        /\ Claimed' = Claimed /\ pending' = pending /\ \A r : Passed(r)' = Passed(r)
    BY <1>4 DEF Co!CloseRun, Claimed, Passed
  <2>2. PICK n : n = [scans[walking.run] EXCEPT !.finished = TRUE, !.totals = walking.stats]
    OBVIOUS
  <2>3. n \in ContainerRun /\ n.totals = walking.stats /\ n.hashed = scans[walking.run].hashed
        /\ n.touched = scans[walking.run].touched
    BY <1>0, <2>1, <2>2 DEF ContainerRun, ContainerWalk
  <2>4. scans' = [scans EXCEPT ![walking.run] = n] /\ scans \in Seq(ContainerRun)
    BY <1>0, <2>1, <2>2 DEF AccountInv
  <2>5. scans' \in Seq(ContainerRun) /\ Len(scans') = Len(scans) /\ DOMAIN scans' = DOMAIN scans
    BY <1>0, <2>1, <2>3, <2>4
  <2>6. ASSUME NEW r \in Co!Finished'
        PROVE  Books(Claimed', r, scans'[r].totals, Seen(r)', {}, Passed(r)')
    <3>1. CASE r = walking.run
      <4>1. Books(Claimed, r, walking.stats, Seen(r), Busied, Undone \cup Passed(r)) /\ Undone = {}
        BY <2>1, <3>1 DEF AccountInv, Undone
      <4>2. scans'[r].totals = walking.stats /\ Seen(r)' = Seen(r) /\ {} \subseteq Busied
        BY <1>0, <2>1, <2>3, <2>4, <3>1 DEF Seen
      <4>. QED
        BY <2>1, <4>1, <4>2, BooksSame
    <3>2. CASE r # walking.run
      <4>1. r \in Co!Finished /\ scans'[r] = scans[r]
        BY <2>4, <2>5, <3>2 DEF Co!Finished
      <4>. QED
        BY <2>1, <4>1 DEF AccountInv, Seen
    <3>. QED
      BY <3>1, <3>2
  <2>7. IsFiniteSet(Claimed') /\ \A k \in Claimed' : k.run \in 1..Len(scans')
    BY <2>1, <2>5 DEF AccountInv
  <2>. QED
    BY <2>1, <2>5, <2>6, <2>7 DEF AccountInv
<1>5. ASSUME NEW cleans \in BOOLEAN, Co!Dies(cleans) PROVE AccountInv'
  <2>1. /\ walking' = Nothing /\ pending' = {} /\ UNCHANGED <<members, scans>> /\ Claimed' = members
        /\ \A r : Passed(r)' = Passed(r)
    BY <1>5 DEF Co!Dies, Co!kept, Claimed, Passed
  <2>2. IsFiniteSet(Claimed') /\ \A k \in Claimed' : k.run \in 1..Len(scans')
    BY <2>1, FS_Subset DEF AccountInv, Claimed
  <2>3. ASSUME NEW r \in Co!Finished'
        PROVE  Books(Claimed', r, scans'[r].totals, Seen(r)', {}, Passed(r)')
    <3>1. r \in Co!Finished /\ Seen(r)' = Seen(r)
      BY <2>1 DEF Co!Finished, Seen
    <3>2. \A k : k \in Claimed /\ k.run = r <=> k \in Claimed' /\ k.run = r
      BY <2>1, <3>1 DEF AccountInv, Claimed
    <3>3. Books(Claimed, r, scans[r].totals, Seen(r), {}, Passed(r))
      BY <3>1 DEF AccountInv
    <3>. QED
      BY <2>1, <3>1, <3>2, <3>3, BooksSame
  <2>. QED
    BY <2>1, <2>2, <2>3 DEF AccountInv
<1>6. ASSUME NEW from \in 0..MaxScans, Co!Start(from) PROVE AccountInv'
  <2>1. PICK n : n = [finished |-> FALSE, totals |-> Co!Zero, hashed |-> {}, touched |-> {}]
    OBVIOUS
  <2>2. /\ scans' = Append(scans, n) /\ UNCHANGED <<members, pending>> /\ Claimed' = Claimed /\ scans \in Seq(ContainerRun)
        /\ \A r : Passed(r)' = Passed(r)
    BY <1>6, <2>1 DEF Co!Start, Claimed, AccountInv, Passed
  <2>3. n \in ContainerRun /\ ~n.finished /\ n.hashed = {}
    BY <2>1 DEF ContainerRun, Totals, Co!Zero
  <2>4. /\ scans' \in Seq(ContainerRun) /\ Len(scans') = Len(scans) + 1 /\ scans'[Len(scans) + 1] = n
        /\ \A r \in DOMAIN scans : scans'[r] = scans[r]
    BY <2>2, <2>3
  <2>5. Co!Finished' = Co!Finished /\ \A r \in Co!Finished : r \in DOMAIN scans /\ scans'[r] = scans[r]
    BY <2>2, <2>3, <2>4 DEF Co!Finished
  <2>6. \A k \in Claimed : k.run \in 1..Len(scans) /\ k.run \in 1..Len(scans') /\ k.run # Len(scans) + 1
    BY <2>2, <2>4 DEF AccountInv
  <2>7. \A r \in Co!Finished' : Books(Claimed', r, scans'[r].totals, Seen(r)', {}, Passed(r)')
    BY <2>2, <2>5 DEF AccountInv, Seen
  <2>8. /\ walking'.run = Len(scans) + 1 /\ walking'.at = "next" /\ walking'.stats = Co!Zero
    BY <1>6 DEF Co!Start
  <2>9. Books(Claimed', walking'.run, walking'.stats, Seen(walking.run)', Busied', (Undone \cup Passed(walking.run))')
    <3>1. Seen(walking.run)' = {} /\ Undone' = {}
      BY <2>3, <2>4, <2>8 DEF Seen, Undone
    <3>2. PICK over : over = (Undone \cup Passed(walking.run))'
      OBVIOUS
    <3>3. Books(Claimed, Len(scans) + 1, Co!Zero, {}, Busied', over)
      BY <2>6, BooksNew
    <3>. QED
      BY <2>2, <2>8, <3>1, <3>2, <3>3
  <2>10. walking'.run \in 1..Len(scans') /\ ~scans'[walking'.run].finished /\ scans'[walking'.run].hashed = {}
    BY <2>2, <2>3, <2>4, <2>8
  <2>11. IsFiniteSet(Claimed') /\ \A k \in pending' : k.run \notin Co!Finished'
    BY <2>2, <2>5 DEF AccountInv
  <2>. QED
    BY <2>2, <2>4, <2>6, <2>7, <2>8, <2>9, <2>10, <2>11 DEF AccountInv
<1>7. ASSUME NEW c \in Container, Co!Write(c) PROVE AccountInv'
  <2>1. /\ UNCHANGED <<members, pending, walking, dropped>> /\ Claimed' = Claimed
        /\ (\A d \in Container : d # c => disk'[d] = disk[d]) /\ \A r : Passed(r)' = Passed(r)
    BY <1>7 DEF Co!Write, Claimed, MemberInv, MemberTypes, Passed
  <2>2. CASE walking = Nothing
    <3>1. scans' = scans
      BY <1>7, <2>2 DEF Co!Write
    <3>. QED
      BY <2>1, <2>2, <3>1 DEF AccountInv, Co!Finished, Seen, Passed
  <2>3. CASE walking # Nothing
    <3>1. PICK x \in SUBSET Container : x = scans[walking.run].touched \cup {c}
      BY <1>0, <2>3 DEF ContainerRun
    <3>2. scans' = NoteTouched(scans, walking.run, x)
      BY <1>7, <2>3, <3>1 DEF Co!Write, NoteTouched
    <3>3. /\ scans' \in Seq(ContainerRun) /\ DOMAIN scans' = DOMAIN scans
          /\ \A r \in DOMAIN scans : r # walking.run => scans'[r] = scans[r]
          /\ ~scans'[walking.run].finished /\ scans'[walking.run].hashed = scans[walking.run].hashed
          /\ scans'[walking.run].touched = scans[walking.run].touched \cup {c}
      BY <1>0, <2>3, <3>1, <3>2, RunNoted DEF AccountInv
    <3>4. Books(Claimed', walking.run, walking'.stats, Seen(walking.run)', Busied', Undone' \cup Passed(walking.run)')
      <4>1. Books(Claimed, walking.run, walking.stats, Seen(walking.run), Busied, Undone \cup Passed(walking.run))
        BY <2>3 DEF AccountInv
      <4>2. Busied' = Busied /\ Undone' = Undone /\ Seen(walking.run)' \subseteq Seen(walking.run)
        BY <2>1, <3>3 DEF Busied, Undone, Seen
      <4>3. Undone \cup Passed(walking.run) \subseteq Undone' \cup Passed(walking.run)'
        BY <2>1, <4>2 DEF Passed
      <4>. QED
        BY <2>1, <4>1, <4>2, <4>3, BooksSame
    <3>5. walking'.at # "next" => AtContainer'
      <4>. SUFFICES ASSUME walking.at # "next" PROVE AtContainer'
        BY <2>1
      <4>1. AtContainer /\ walking.file \in Container
        BY <2>3 DEF AccountInv, MemberInv, InContainer
      <4>2. walking.file \notin scans'[walking.run].touched => disk'[walking.file] = disk[walking.file]
        BY <2>1, <3>3, <4>1
      <4>. QED
        BY <2>1, <3>3, <4>1, <4>2 DEF AtContainer
    <3>6. scans'[walking.run].hashed \cap walking'.todo = {}
      BY <2>1, <2>3, <3>3 DEF AccountInv
    <3>. QED
      BY <2>1, <2>3, <3>3, <3>4, <3>5, <3>6, AccountedStep
  <2>. QED
    BY <2>2, <2>3
<1>8. CASE UNCHANGED Co!vars
  BY <1>8 DEF Co!vars, AccountInv, Claimed, Co!Finished, Seen, Busied, Undone, AtContainer, Passed
<1>. QED
  BY <1>1, <1>2, <1>3, <1>4, <1>5, <1>6, <1>7, <1>8 DEF Co!Next

(* The totals of a finished scan account for what it hashed: a member that is *)
(* missing failed, and a container that is blank was passed over, or one of   *)
(* its members failed.                                                        *)
LEMMA AccountedMembers == AccountInv => Co!MembersAccounted
<1>. SUFFICES ASSUME AccountInv, NEW r \in Co!Finished
              PROVE  LET t == scans[r].totals
                         whole(c) == CHOOSE v \in Version :
                           \E k \in members : k.run = r /\ k.file = c /\ k.member = Nothing /\ k.data = v
                         seen == scans[r].hashed \ scans[r].touched
                         due(c) == {m \in Co!Contains(whole(c)) : <<r, c, m>> \notin dropped}
                         blank == {c \in seen : Co!MembersOf(r, c) = {} /\ due(c) # {}}
                         missing == {x \in (seen \ blank) \X Member :
                           x[2] \in due(x[1]) /\ \A k \in Co!MembersOf(r, x[1]) : k.member # x[2]}
                     IN /\ t.members = Cardinality({k \in members : k.run = r /\ k.member # Nothing})
                        /\ Cardinality(missing) <= t.failed
                        /\ Cardinality(blank) <= t.skipped + t.errored + t.failed
  BY DEF Co!MembersAccounted, Co!Cardinality, Cardinality
<1>. DEFINE t == scans[r].totals
            whole(c) == CHOOSE v \in Version :
              \E k \in members : k.run = r /\ k.file = c /\ k.member = Nothing /\ k.data = v
            seen == scans[r].hashed \ scans[r].touched
            due(c) == {m \in Co!Contains(whole(c)) : <<r, c, m>> \notin dropped}
            blank == {c \in seen : Co!MembersOf(r, c) = {} /\ due(c) # {}}
            missing == {x \in (seen \ blank) \X Member :
              x[2] \in due(x[1]) /\ \A k \in Co!MembersOf(r, x[1]) : k.member # x[2]}
<1>1. Books(members, r, t, seen, {}, Passed(r))
  <2>1. Books(Claimed, r, t, seen, {}, Passed(r))
    BY DEF AccountInv, Seen
  <2>2. \A k : k \in Claimed /\ k.run = r <=> k \in members /\ k.run = r
    BY DEF AccountInv, Claimed
  <2>. QED
    BY <2>1, <2>2, BooksSame
<1>2. PICK F \in SUBSET (Container \X Member), B \in SUBSET Container : Excused(members, r, t, seen, {}, Passed(r), F, B)
  BY <1>1 DEF Books
<1>3. t \in Totals
  <2>1. scans \in Seq(ContainerRun) /\ r \in DOMAIN scans
    BY DEF AccountInv, Co!Finished
  <2>2. scans[r] \in ContainerRun
    BY <2>1
  <2>. QED
    BY <2>2 DEF ContainerRun
<1>4. \A c \in seen : whole(c) \in Version /\ Whole(members, r, c, whole(c))
  BY <1>2 DEF Excused, Whole
<1>5. \A c \in seen : \A m \in due(c) :
        (\A k \in Co!MembersOf(r, c) : k.member # m) => c \in B \/ <<c, m>> \in F
  <2>1. ASSUME NEW c \in seen, NEW m \in due(c), \A k \in Co!MembersOf(r, c) : k.member # m
        PROVE  c \in B \/ <<c, m>> \in F
    <3>1. m # Nothing /\ m \in Co!Contains(whole(c)) /\ <<c, m>> \notin Passed(r)
      BY InventoryAssumption DEF Co!ContainersAssumption, Co!Contains, Passed
    <3>2. ~HasMember(members, r, c, m)
      BY <2>1, <3>1 DEF HasMember, Co!MembersOf
    <3>3. PICK v \in Version : v = whole(c)
      BY <1>4
    <3>. QED
      BY <1>2, <1>4, <3>1, <3>2, <3>3 DEF Excused
  <2>. QED
    BY <2>1
<1>6. \A c \in B : Co!MembersOf(r, c) = {}
  BY <1>2 DEF Excused, Co!MembersOf, MemberClaims
<1>. HIDE DEF t, whole, seen, due
<1>7. missing \subseteq F
  <2>1. ASSUME NEW x \in missing PROVE x \in F
    <3>1. /\ x = <<x[1], x[2]>> /\ x[1] \in seen /\ x[1] \notin blank /\ x[2] \in due(x[1])
          /\ \A k \in Co!MembersOf(r, x[1]) : k.member # x[2]
      OBVIOUS
    <3>2. x[1] \notin B
      BY <1>6, <3>1
    <3>. QED
      BY <1>5, <3>1, <3>2
  <2>. QED
    BY <2>1
<1>8. PICK G : G = [x \in F |-> x[1]]
  OBVIOUS
<1>9. blank \subseteq B \cup {G[x] : x \in F}
  <2>1. ASSUME NEW c \in blank PROVE c \in B \cup {G[x] : x \in F}
    <3>1. c \in seen /\ Co!MembersOf(r, c) = {}
      OBVIOUS
    <3>2. PICK m \in due(c) : TRUE
      OBVIOUS
    <3>3. c \in B \/ <<c, m>> \in F
      BY <1>5, <3>1, <3>2
    <3>. QED
      BY <1>8, <3>3
  <2>. QED
    BY <2>1
<1>. HIDE DEF missing, blank
<1>10. PICK H : H = {G[x] : x \in F}
  OBVIOUS
<1>11. IsFiniteSet(H) /\ Cardinality(H) <= Cardinality(F)
  <2>1. G \in Surjection(F, H)
    BY <1>8, <1>10 DEF Surjection
  <2>. QED
    BY <1>2, <2>1, FS_Surjection DEF Excused
<1>12. IsFiniteSet(B \cup H) /\ Cardinality(B \cup H) <= Cardinality(B) + Cardinality(H)
  <2>1. IsFiniteSet(B) /\ IsFiniteSet(B \cap H)
    BY <1>2, FS_Intersection DEF Excused
  <2>2. IsFiniteSet(B \cup H) /\ Cardinality(B \cup H) = Cardinality(B) + Cardinality(H) - Cardinality(B \cap H)
    BY <1>11, <2>1, FS_Union
  <2>3. Cardinality(B) \in Nat /\ Cardinality(H) \in Nat /\ Cardinality(B \cap H) \in Nat
    BY <1>11, <2>1, FS_CardinalityType
  <2>. QED
    BY <2>2, <2>3
<1>13. Cardinality(missing) <= Cardinality(F) /\ Cardinality(missing) \in Nat /\ Cardinality(F) \in Nat
  BY <1>2, <1>7, FS_Subset, FS_CardinalityType DEF Excused
<1>14. Cardinality(blank) <= Cardinality(B \cup H) /\ Cardinality(blank) \in Nat
  BY <1>9, <1>10, <1>12, FS_Subset, FS_CardinalityType
<1>15. Cardinality(B) \in Nat /\ Cardinality(H) \in Nat /\ Cardinality(B \cup H) \in Nat
  BY <1>2, <1>11, <1>12, FS_CardinalityType DEF Excused
<1>16. /\ t.failed \in Int /\ t.skipped \in Int /\ t.errored \in Int
       /\ Cardinality(F) <= t.failed /\ Cardinality(B) <= t.skipped + t.errored
  BY <1>2, <1>3 DEF Excused, Totals
<1>17. Cardinality(missing) <= t.failed /\ Cardinality(blank) <= t.skipped + t.errored + t.failed
  BY <1>11, <1>12, <1>13, <1>14, <1>15, <1>16
<1>18. t.members = Cardinality({k \in members : k.run = r /\ k.member # Nothing})
  BY <1>1 DEF Books, MemberClaims
<1>. QED
  BY <1>17, <1>18 DEF t, whole, seen, due, missing, blank

(* The totals of a scan that has finished account for every member of the     *)
(* containers it hashed and nobody wrote meanwhile, but for those that an      *)
(* extracted tree did not show.                                               *)
THEOREM ScansAccountForMembers == InventorySpec => []MembersAccounted
<1>1. AccountInv => MembersAccounted
  BY AccountedMembers DEF MembersAccounted
<1>2. Co!Spec => [](AccountInv /\ MemberInv)
  BY AccountInvInit, AccountInvNext, MemberInvInit, MemberInvNext, PTL DEF Co!Spec
<1>. QED
  BY <1>1, <1>2, EachAlone, PTL

-----------------------------------------------------------------------------
(* Scan: what a run claims was there, and a finished run stays as it is. *)

RunFields == {"started", "finished", "resumed", "walked", "errors"}
Rows(s) == {s[i] : i \in DOMAIN s}

(* The lists have their types, but for the counters of a run; a content is    *)
(* one that was written, and what lies at a path has lain there.              *)
ScanTypes ==
  /\ start \in Starts /\ edits \in 0..start.edits /\ clock \in 0..MaxClock
  /\ file \in [Path -> Sc!File \cup {NoFile}] /\ stamps \in [Path -> SUBSET Sc!File]
  /\ \A p \in Path : (file[p] # NoFile => file[p] \in stamps[p]) /\ \A f \in stamps[p] : f.data <= edits
  /\ DOMAIN held = Sc!Run /\ \A r \in Sc!Run : DOMAIN held[r] = Path
  /\ runs \in Seq(Rows(runs)) /\ Len(runs) <= MaxRuns
  /\ \A r \in DOMAIN runs : DOMAIN runs[r] = RunFields /\ runs[r].resumed \in 0..(r - 1)
  /\ walk \in [Sc!Walker -> Sc!Walk]
  /\ claims \subseteq Sc!Claim /\ inserted \in [Sc!Walker -> SUBSET Sc!Claim]

(* A claim that is there is one of its run, and of what lay at its path: it   *)
(* stands for what ClaimsWereThere says of it.                                *)
WasThere(c) ==
  \/ c.data \in held[c.run][c.path]
  \/ Sc!Ambiguous(c.path)
  \/ \E d \in claims : d.run < c.run /\ d.path = c.path /\ d.data = c.data /\ Sc!Torn(d)
ClaimHolds(c) == c.run \in DOMAIN runs /\ c.data <= edits /\ WasThere(c)
ClaimsHold ==
  /\ \A c \in claims : ClaimHolds(c)
  /\ \A w \in Sc!Walker : \A c \in inserted[w] : c.run = w[1] /\ ClaimHolds(c)

(* What lies at a path counts as held by a run under way, and so does the     *)
(* file of a stat, even if it has been replaced.                              *)
HeldNow ==
  /\ \A r \in Sc!Run : Sc!UnderWay(r) => \A p \in Path : Sc!At(p) \in held[r][p]
  /\ \A w \in Sc!Walker : walk[w].step = "walk" /\ walk[w].stat # NoFile =>
       LET s == walk[w].stat IN
       \E f \in stamps[s.path] : f.mtime = s.mtime /\ SizeOf[f.data] = s.size /\ f.data \in held[w[1]][s.path]

(* A walker that has no part in a run, is done or gave up does nothing more;  *)
(* claims are pending only between two commits; and the workers are quiet     *)
(* once the command walks itself.                                             *)
Quiet(w) == walk[w].step \in {"off", "done", "failed"} \/ Sc!Walked(w)
WalkersHold ==
  /\ \A w \in Sc!Walker : walk[w].step # "off" => w[1] \in DOMAIN runs /\ w[2] \in Sc!Subtree \cup {Root}
  /\ \A w \in Sc!Walker : inserted[w] # {} => walk[w].step = "walk" /\ walk[w].fresh > 0
  /\ \A w \in Sc!Walker : w[2] # Root => walk[w].step # "wait"
  /\ \A r \in Sc!Run : walk[Sc!Main(r)].step \in {"walk", "done"} => \A d \in Dir \ {Root} : Quiet(<<r, d>>)
  /\ \A r \in DOMAIN runs : runs[r].finished => walk[Sc!Main(r)].step = "done"

ScanInv == ScanTypes /\ ClaimsHold /\ HeldNow /\ WalkersHold

(* A walker moves on. *)
Moves(w, y) == walk' = [walk EXCEPT ![w] = y]
(* The record of a walker, written out. *)
Walking(dirs2, todo2, stat2, fresh2, walked2, errors2) ==
  [step |-> "walk", dirs |-> dirs2, todo |-> todo2, stat |-> stat2,
   fresh |-> fresh2, walked |-> walked2, errors |-> errors2]
LEMMA WalkerFields ==
  ASSUME NEW x \in Sc!Walk
  PROVE  /\ DOMAIN x = {"step", "dirs", "todo", "stat", "fresh", "walked", "errors"}
         /\ x.step \in {"off", "walk", "wait", "done", "failed"} /\ x.dirs \subseteq Dir /\ x.todo \subseteq Path
         /\ x.fresh \in Nat /\ x.walked \in Nat /\ x.errors \in Nat
         /\ x.stat # NoFile => x.stat \in Sc!Stat
BY DEF Sc!Walk

(* A directory is listed. *)
LEMMA ListMoves ==
  ASSUME walk \in [Sc!Walker -> Sc!Walk], NEW w \in Sc!Walker, NEW x, x = walk[w], x.step = "walk", Sc!ListDir(w)
  PROVE  \E d \in x.dirs, ps \in SUBSET Path :
         /\ ps = {p \in Path : DirOf[p] = d /\ file[p] # NoFile}
         /\ Moves(w, Walking(x.dirs \ {d}, ps, x.stat, x.fresh, x.walked, x.errors))
<1>0. x \in Sc!Walk /\ DOMAIN x = {"step", "dirs", "todo", "stat", "fresh", "walked", "errors"}
  BY WalkerFields
<1>1. PICK d \in Sc!NextDir(w) : walk' = [walk EXCEPT ![w].dirs = @ \ {d},
                                                 ![w].todo = {p \in Path : DirOf[p] = d /\ file[p] # NoFile}]
  BY DEF Sc!ListDir
<1>2. PICK ps \in SUBSET Path : ps = {p \in Path : DirOf[p] = d /\ file[p] # NoFile}
  OBVIOUS
<1>3. PICK y : y = [x EXCEPT !.dirs = @ \ {d}, !.todo = ps]
  OBVIOUS
<1>4. Moves(w, y)
  BY <1>1, <1>2, <1>3 DEF Moves
<1>5. y = [k \in DOMAIN x |-> IF k = "todo" THEN ps ELSE IF k = "dirs" THEN x.dirs \ {d} ELSE x[k]]
  BY <1>0, <1>3
<1>6. y = Walking(x.dirs \ {d}, ps, x.stat, x.fresh, x.walked, x.errors)
  BY <1>0, <1>5 DEF Walking
<1>7. d \in x.dirs
  BY <1>1 DEF Sc!NextDir
<1>. QED
  BY <1>2, <1>4, <1>6, <1>7

(* A file is statted. *)
LEMMA StatMoves ==
  ASSUME walk \in [Sc!Walker -> Sc!Walk], NEW w \in Sc!Walker, NEW x, x = walk[w], x.step = "walk", Sc!StatFile(w)
  PROVE  \E p \in x.todo : \E s :
         /\ Moves(w, Walking(x.dirs, x.todo \ {p}, s, x.fresh, x.walked, x.errors))
         /\ s = IF file[p] = NoFile THEN NoFile ELSE [path |-> p, mtime |-> file[p].mtime, size |-> SizeOf[file[p].data], fast |-> NoFile]
<1>0. x \in Sc!Walk /\ DOMAIN x = {"step", "dirs", "todo", "stat", "fresh", "walked", "errors"}
  BY WalkerFields
<1>1. PICK p \in walk[w].todo :
          walk' = [walk EXCEPT
                  ![w].todo = @ \ {p},
                  ![w].stat = IF file[p] = NoFile THEN NoFile
                              ELSE [path |-> p, mtime |-> file[p].mtime,
                                    size |-> SizeOf[file[p].data], fast |-> NoFile]]
  BY DEF Sc!StatFile
<1>2. PICK s : s = IF file[p] = NoFile THEN NoFile ELSE [path |-> p, mtime |-> file[p].mtime, size |-> SizeOf[file[p].data], fast |-> NoFile]
  OBVIOUS
<1>3. PICK y : y = [x EXCEPT !.todo = @ \ {p}, !.stat = s]
  OBVIOUS
<1>4. Moves(w, y)
  BY <1>1, <1>2, <1>3 DEF Moves
<1>5. y = [k \in DOMAIN x |-> IF k = "stat" THEN s ELSE IF k = "todo" THEN x.todo \ {p} ELSE x[k]]
  BY <1>0, <1>3
<1>6. y = Walking(x.dirs, x.todo \ {p}, s, x.fresh, x.walked, x.errors)
  BY <1>0, <1>5 DEF Walking
<1>. QED
  BY <1>2, <1>4, <1>6

(* A directory or a file is passed over, or the first hash of a file is kept. *)
LEMMA PassMoves ==
  ASSUME walk \in [Sc!Walker -> Sc!Walk], NEW w \in Sc!Walker, NEW x, x = walk[w], x.step = "walk",
         NEW y, walk' = [walk EXCEPT ![w] = y], NEW dirs2, NEW todo2, NEW stat2, NEW fresh2,
         y = [x EXCEPT !.dirs = dirs2, !.todo = todo2, !.stat = stat2, !.fresh = fresh2]
  PROVE  Moves(w, Walking(dirs2, todo2, stat2, fresh2, x.walked, x.errors))
<1>0. x \in Sc!Walk /\ DOMAIN x = {"step", "dirs", "todo", "stat", "fresh", "walked", "errors"}
  BY WalkerFields
<1>1. y = [k \in DOMAIN x |-> IF k = "fresh" THEN fresh2 ELSE IF k = "stat" THEN stat2
               ELSE IF k = "todo" THEN todo2 ELSE IF k = "dirs" THEN dirs2 ELSE x[k]]
  BY <1>0
<1>2. y = Walking(dirs2, todo2, stat2, fresh2, x.walked, x.errors)
  BY <1>0, <1>1 DEF Walking
<1>. QED
  BY <1>2 DEF Moves

(* The root or another directory is passed over. *)
LEMMA PassDirMoves ==
  ASSUME walk \in [Sc!Walker -> Sc!Walk], NEW w \in Sc!Walker, NEW x, x = walk[w], x.step = "walk", Sc!PassDir(w)
  PROVE  \E D \in SUBSET x.dirs :
         /\ Moves(w, Walking(x.dirs \ D, x.todo, x.stat, x.fresh, x.walked, x.errors))
         /\ passed' = [passed EXCEPT ![w[1]] = @ \cup Sc!Below(D)]
<1>1. PICK d \in Sc!NextDir(w) :
        LET D == IF d = Root THEN walk[w].dirs ELSE {d}
        IN walk' = [walk EXCEPT ![w].dirs = @ \ D] /\ Sc!Overlook(w[1], Sc!Below(D))
  BY DEF Sc!PassDir
<1>2. PICK D : D = IF d = Root THEN x.dirs ELSE {d}
  OBVIOUS
<1>3. D \subseteq x.dirs
  BY <1>1, <1>2 DEF Sc!NextDir
<1>4. PICK y : y = [x EXCEPT !.dirs = @ \ D]
  OBVIOUS
<1>5. walk' = [walk EXCEPT ![w] = y] /\ Sc!Overlook(w[1], Sc!Below(D))
  BY <1>1, <1>2, <1>4
<1>6. x \in Sc!Walk /\ DOMAIN x = {"step", "dirs", "todo", "stat", "fresh", "walked", "errors"}
  BY WalkerFields
<1>7. y = [x EXCEPT !.dirs = x.dirs \ D, !.todo = x.todo, !.stat = x.stat, !.fresh = x.fresh]
  BY <1>4, <1>6
<1>8. Moves(w, Walking(x.dirs \ D, x.todo, x.stat, x.fresh, x.walked, x.errors))
  BY <1>5, <1>7, PassMoves
<1>. QED
  BY <1>3, <1>5, <1>8 DEF Sc!Overlook

(* A file is passed over. *)
LEMMA PassFileMoves ==
  ASSUME walk \in [Sc!Walker -> Sc!Walk], NEW w \in Sc!Walker, NEW x, x = walk[w], x.step = "walk", Sc!PassFile(w)
  PROVE  \E p \in x.todo :
         /\ Moves(w, Walking(x.dirs, x.todo \ {p}, x.stat, x.fresh, x.walked, x.errors))
         /\ passed' = [passed EXCEPT ![w[1]] = @ \cup {p}]
<1>1. PICK p \in x.todo : walk' = [walk EXCEPT ![w].todo = @ \ {p}] /\ Sc!Overlook(w[1], {p})
  BY DEF Sc!PassFile
<1>2. PICK y : y = [x EXCEPT !.todo = @ \ {p}]
  OBVIOUS
<1>3. walk' = [walk EXCEPT ![w] = y]
  BY <1>1, <1>2
<1>4. x \in Sc!Walk /\ DOMAIN x = {"step", "dirs", "todo", "stat", "fresh", "walked", "errors"}
  BY WalkerFields
<1>5. y = [x EXCEPT !.dirs = x.dirs, !.todo = x.todo \ {p}, !.stat = x.stat, !.fresh = x.fresh]
  BY <1>2, <1>4
<1>6. Moves(w, Walking(x.dirs, x.todo \ {p}, x.stat, x.fresh, x.walked, x.errors))
  BY <1>3, <1>5, PassMoves
<1>. QED
  BY <1>1, <1>6 DEF Sc!Overlook

(* The first hash of a large file leaves its size with the stat. *)
Counting(w) ==
  /\ walk[w].step = "walk" /\ walk[w].stat # NoFile
  /\ \E n \in Sc!Size : walk' = [walk EXCEPT ![w].stat.fast = n]
LEMMA FastMoves ==
  ASSUME walk \in [Sc!Walker -> Sc!Walk], NEW w \in Sc!Walker, NEW x, x = walk[w], Counting(w)
  PROVE  \E s \in Sc!Stat :
         /\ s.path = x.stat.path /\ s.mtime = x.stat.mtime /\ s.size = x.stat.size
         /\ Moves(w, Walking(x.dirs, x.todo, s, x.fresh, x.walked, x.errors))
<1>1. PICK n \in Sc!Size : walk' = [walk EXCEPT ![w].stat.fast = n]
  BY DEF Counting
<1>2. PICK s : s = [x.stat EXCEPT !.fast = n]
  OBVIOUS
<1>3. PICK y : y = [x EXCEPT !.stat = s]
  OBVIOUS
<1>4. walk' = [walk EXCEPT ![w] = y]
  BY <1>1, <1>2, <1>3
<1>5. x \in Sc!Walk /\ DOMAIN x = {"step", "dirs", "todo", "stat", "fresh", "walked", "errors"} /\ x.step = "walk" /\ x.stat \in Sc!Stat
  BY WalkerFields DEF Counting
<1>6. s \in Sc!Stat /\ s.path = x.stat.path /\ s.mtime = x.stat.mtime /\ s.size = x.stat.size
  BY <1>2, <1>5 DEF Sc!Stat
<1>7. y = [x EXCEPT !.dirs = x.dirs, !.todo = x.todo, !.stat = s, !.fresh = x.fresh]
  BY <1>3, <1>5
<1>8. Moves(w, Walking(x.dirs, x.todo, s, x.fresh, x.walked, x.errors))
  BY <1>4, <1>5, <1>7, PassMoves
<1>. QED
  BY <1>6, <1>8

(* A file has been processed. *)
LEMMA ProcessMoves ==
  ASSUME walk \in [Sc!Walker -> Sc!Walk], NEW w \in Sc!Walker, NEW x, x = walk[w], x.step = "walk", NEW failed \in BOOLEAN, Sc!Processed(w, failed)
  PROVE  \E n \in {0, 1} :
         /\ n = IF failed THEN 1 ELSE 0
         /\ Moves(w, Walking(x.dirs, x.todo, NoFile, x.fresh + 1, x.walked + 1, x.errors + n))
<1>0. x \in Sc!Walk /\ DOMAIN x = {"step", "dirs", "todo", "stat", "fresh", "walked", "errors"}
  BY WalkerFields
<1>1. PICK n \in {0, 1} : n = IF failed THEN 1 ELSE 0
  OBVIOUS
<1>2. walk' = [walk EXCEPT ![w].stat = NoFile, ![w].fresh = @ + 1, ![w].walked = @ + 1, ![w].errors = @ + n]
  BY <1>1 DEF Sc!Processed
<1>3. PICK y : y = [x EXCEPT !.stat = NoFile, !.fresh = @ + 1, !.walked = @ + 1, !.errors = @ + n]
  OBVIOUS
<1>4. Moves(w, y)
  BY <1>0, <1>2, <1>3 DEF Moves
<1>5. y = [k \in DOMAIN x |-> IF k = "errors" THEN x.errors + n ELSE IF k = "walked" THEN x.walked + 1
               ELSE IF k = "fresh" THEN x.fresh + 1 ELSE IF k = "stat" THEN NoFile ELSE x[k]]
  BY <1>0, <1>3
<1>6. y = Walking(x.dirs, x.todo, NoFile, x.fresh + 1, x.walked + 1, x.errors + n)
  BY <1>0, <1>5 DEF Walking
<1>. QED
  BY <1>1, <1>4, <1>6

(* A batch is committed, or its files are left for the end of the run. *)
LEMMA CommitMoves ==
  ASSUME walk \in [Sc!Walker -> Sc!Walk], NEW w \in Sc!Walker, NEW x, x = walk[w], x.step = "walk",
         Sc!CommitBatch(w) \/ Sc!BumpTimeout(w)
  PROVE  Moves(w, Walking(x.dirs, x.todo, x.stat, 0, x.walked, x.errors))
<1>0. x \in Sc!Walk /\ DOMAIN x = {"step", "dirs", "todo", "stat", "fresh", "walked", "errors"}
  BY WalkerFields
<1>3. PICK y : y = [x EXCEPT !.fresh = 0]
  OBVIOUS
<1>4. Moves(w, y)
  BY <1>3 DEF Sc!CommitBatch, Sc!BumpTimeout, Moves
<1>6. y = Walking(x.dirs, x.todo, x.stat, 0, x.walked, x.errors)
  BY <1>0, <1>3 DEF Walking
<1>. QED
  BY <1>4, <1>6

(* Before the first scan nothing is claimed, and no walker walks. *)
LEMMA ScanInvInit == Sc!Init => ScanInv
<1>. SUFFICES ASSUME Sc!Init PROVE ScanInv
  OBVIOUS
<1>1. /\ start \in Starts /\ start.files \in SUBSET Path /\ start.edits \in 0..MaxEdits /\ start.faults \in 0..MaxFaults
      /\ MaxEdits \in Nat /\ MaxClock \in Nat /\ MaxRuns \in Nat
  BY InventoryAssumption DEF Sc!Init, Sc!ScanAssumption
<1>2. [data |-> 0, mtime |-> 0] \in Sc!File
  BY <1>1 DEF Sc!File, Sc!Content
<1>3. ScanTypes
  <2>1. file \in [Path -> Sc!File \cup {NoFile}] /\ stamps \in [Path -> SUBSET Sc!File]
    BY <1>2 DEF Sc!Init
  <2>2. \A p \in Path : (file[p] # NoFile => file[p] \in stamps[p]) /\ \A f \in stamps[p] : f.data <= edits
    BY <1>2 DEF Sc!Init
  <2>3. runs \in Seq(Rows(runs)) /\ Len(runs) <= MaxRuns /\ DOMAIN runs = {}
    BY <1>1 DEF Sc!Init
  <2>4. walk \in [Sc!Walker -> Sc!Walk] /\ inserted \in [Sc!Walker -> SUBSET Sc!Claim]
    BY DEF Sc!Init, Sc!Walk, Sc!Off
  <2>5. edits \in 0..start.edits /\ clock \in 0..MaxClock /\ claims \subseteq Sc!Claim
    BY <1>1 DEF Sc!Init
  <2>6. DOMAIN held = Sc!Run /\ \A r \in Sc!Run : DOMAIN held[r] = Path
    BY DEF Sc!Init
  <2>. QED
    BY <1>1, <2>1, <2>2, <2>3, <2>4, <2>5, <2>6 DEF ScanTypes
<1>4. \A w \in Sc!Walker : walk[w].step = "off" /\ inserted[w] = {} /\ w[2] \in Dir /\ w[1] \in Sc!Run
  BY DEF Sc!Init, Sc!Off, Sc!Walker
<1>5. \A r \in Sc!Run, d \in Dir : <<r, d>> \in Sc!Walker
  BY DEF Sc!Walker
<1>6. ClaimsHold
  BY <1>4 DEF Sc!Init, ClaimsHold
<1>7. HeldNow
  BY <1>4, <1>5 DEF HeldNow, Sc!UnderWay, Sc!Live
<1>8. Root \in Dir /\ runs = <<>>
  BY InventoryAssumption DEF Sc!Init, Sc!ScanAssumption
<1>9. WalkersHold
  BY <1>4, <1>5, <1>8 DEF WalkersHold, Quiet, Sc!Main
<1>. QED
  BY <1>3, <1>6, <1>7, <1>9 DEF ScanInv

(* The runs have the first numbers. *)
LEMMA RunsNumbered ==
  ASSUME ScanInv
  PROVE  /\ MaxRuns \in Nat /\ MaxEdits \in Nat /\ MaxClock \in Nat /\ Len(runs) \in Nat /\ DOMAIN runs = 1..Len(runs)
         /\ \A r \in DOMAIN runs : r \in Sc!Run /\ r <= Len(runs)
<1>1. MaxRuns \in Nat /\ MaxEdits \in Nat /\ MaxClock \in Nat
  BY InventoryAssumption DEF Sc!ScanAssumption
<1>2. Len(runs) \in Nat /\ DOMAIN runs = 1..Len(runs) /\ Len(runs) <= MaxRuns
  BY DEF ScanInv, ScanTypes
<1>. QED
  BY <1>1, <1>2 DEF Sc!Run

(* A walker that was not quiet has moved on in its walk. *)
LEMMA WalkerKeeps ==
  ASSUME ScanInv, NEW w \in Sc!Walker, walk[w].step = "walk", ~Sc!Walked(w),
         NEW y \in Sc!Walk, y.step = "walk", Moves(w, y),
         UNCHANGED <<file, clock, start, edits, stamps, held>>,
         claims \subseteq claims', claims' \subseteq claims \cup inserted[w],
         inserted' \in [Sc!Walker -> SUBSET Sc!Claim], \A v \in Sc!Walker : v # w => inserted'[v] = inserted[v],
         \A c \in inserted'[w] : c \in inserted[w] \/ (c.run = w[1] /\ ClaimHolds(c)),
         inserted'[w] # {} => y.fresh > 0,
         runs' \in Seq(Rows(runs')), DOMAIN runs' = DOMAIN runs, Len(runs') = Len(runs),
         \A r \in DOMAIN runs : DOMAIN runs'[r] = RunFields /\ runs'[r].resumed = runs[r].resumed
                                /\ (runs'[r].finished => runs[r].finished),
         \/ y.stat = NoFile \/ y.stat = walk[w].stat
         \/ \E f \in stamps[y.stat.path] :
              f.mtime = y.stat.mtime /\ SizeOf[f.data] = y.stat.size /\ f.data \in held[w[1]][y.stat.path]
  PROVE  ScanInv'
<1>. USE DEF ScanInv
<1>1. walk' \in [Sc!Walker -> Sc!Walk] /\ walk'[w] = y /\ \A v \in Sc!Walker : v # w => walk'[v] = walk[v]
  BY DEF ScanTypes, Moves
<1>2. ScanTypes'
  <2>1. claims' \subseteq Sc!Claim
    BY DEF ScanTypes
  <2>2. \A r \in DOMAIN runs' : DOMAIN runs'[r] = RunFields /\ runs'[r].resumed \in 0..(r - 1)
    BY DEF ScanTypes
  <2>. QED
    BY <1>1, <2>1, <2>2 DEF ScanTypes
<1>3. \A c : ClaimHolds(c) => ClaimHolds(c)'
  <2>1. \A p : Sc!Ambiguous(p) <=> Sc!Ambiguous(p)'
    BY DEF Sc!Ambiguous
  <2>2. \A d : Sc!Torn(d) <=> Sc!Torn(d)'
    BY DEF Sc!Torn
  <2>. QED
    BY <2>1, <2>2 DEF ClaimHolds, WasThere
<1>4. ClaimsHold'
  <2>1. \A c \in claims' : ClaimHolds(c)'
    BY <1>3 DEF ClaimsHold
  <2>2. \A v \in Sc!Walker : \A c \in inserted'[v] : c.run = v[1] /\ ClaimHolds(c)'
    BY <1>3 DEF ClaimsHold
  <2>. QED
    BY <2>1, <2>2 DEF ClaimsHold
<1>5. Sc!Live(w)
  BY DEF Sc!Live
<1>6. \A r \in Sc!Run : Sc!UnderWay(r)' => Sc!UnderWay(r)
  <2>1. \A v \in Sc!Walker : Sc!Live(v)' => Sc!Live(v)
    BY <1>1, <1>5 DEF Sc!Live, Sc!Walked, Sc!Exhausted
  <2>. QED
    BY <2>1 DEF Sc!UnderWay, Sc!Walker
<1>7. HeldNow'
  <2>1. \A r \in Sc!Run : Sc!UnderWay(r)' => \A p \in Path : Sc!At(p)' \in held'[r][p]
    BY <1>6 DEF HeldNow, Sc!At
  <2>2. ASSUME NEW v \in Sc!Walker, walk'[v].step = "walk", walk'[v].stat # NoFile
        PROVE  \E f \in stamps[walk'[v].stat.path] :
                 /\ f.mtime = walk'[v].stat.mtime /\ SizeOf[f.data] = walk'[v].stat.size
                 /\ f.data \in held[v[1]][walk'[v].stat.path]
    BY <1>1, <2>2 DEF HeldNow
  <2>. QED
    BY <2>1, <2>2 DEF HeldNow
<1>8. WalkersHold'
  <2>1. Sc!Subtree' = Sc!Subtree
    BY DEF Sc!Subtree
  <2>2. \A v \in Sc!Walker : walk'[v].step = walk[v].step
    BY <1>1
  <2>3. \A v \in Sc!Walker : v # w => (Quiet(v) => Quiet(v)')
    BY <1>1 DEF Quiet, Sc!Walked, Sc!Exhausted
  <2>4. ~Quiet(w)
    BY DEF Quiet
  <2>5. \A r \in Sc!Run, d \in Dir : <<r, d>> \in Sc!Walker
    BY DEF Sc!Walker
  <2>6. \A r \in Sc!Run : Sc!Main(r) \in Sc!Walker
    BY InventoryAssumption DEF Sc!Main, Sc!Walker, Sc!ScanAssumption
  <2>7. ASSUME NEW r \in Sc!Run, walk'[Sc!Main(r)].step \in {"walk", "done"}, NEW d \in Dir \ {Root} PROVE Quiet(<<r, d>>)'
    <3>1. Quiet(<<r, d>>)
      BY <2>2, <2>6, <2>7 DEF WalkersHold
    <3>. QED
      BY <2>3, <2>4, <2>5, <3>1
  <2>8. \A r \in DOMAIN runs : r \in Sc!Run
    BY RunsNumbered
  <2>9. \A r \in DOMAIN runs' : runs'[r].finished => walk'[Sc!Main(r)].step = "done"
    BY <2>2, <2>6, <2>8 DEF WalkersHold
  <2>10. \A v \in Sc!Walker : inserted'[v] # {} => walk'[v].step = "walk" /\ walk'[v].fresh > 0
    BY <1>1 DEF WalkersHold
  <2>11. \A v \in Sc!Walker : walk'[v].step # "off" => v[1] \in DOMAIN runs' /\ v[2] \in Sc!Subtree' \cup {Root}
    BY <2>1, <2>2 DEF WalkersHold
  <2>12. \A v \in Sc!Walker : v[2] # Root => walk'[v].step # "wait"
    BY <2>2 DEF WalkersHold
  <2>13. \A r \in Sc!Run : walk'[Sc!Main(r)].step \in {"walk", "done"} => \A d \in Dir \ {Root} : Quiet(<<r, d>>)'
    BY <2>7
  <2>. QED
    BY <2>9, <2>10, <2>11, <2>12, <2>13 DEF WalkersHold, Sc!Main
<1>. QED
  BY <1>2, <1>4, <1>7, <1>8

(* A claim of what the walker has statted is a claim that holds, if the       *)
(* content is what lies there or what a claim of the resumed run says.        *)
LEMMA InsertKeeps ==
  ASSUME ScanInv, NEW w \in Sc!Walker, walk[w].step = "walk", walk[w].stat # NoFile, NEW data, NEW size \in Sc!Size,
         Sc!Insert(w, data, size), UNCHANGED <<clock, start, stamps, held>>,
         \/ file[walk[w].stat.path] # NoFile /\ data = file[walk[w].stat.path].data
         \/ \E c \in Sc!Cached(w) : data = c.data
  PROVE  ScanInv'
<1>. USE DEF ScanInv
<1>1. PICK x : x = walk[w]
  OBVIOUS
<1>2. /\ x \in Sc!Walk /\ x.step = "walk" /\ x.stat \in Sc!Stat /\ x.stat.path \in Path /\ x.stat.mtime \in 0..MaxClock
      /\ x.dirs \subseteq Dir /\ x.todo \subseteq Path /\ x.fresh \in Nat /\ x.walked \in Nat /\ x.errors \in Nat
  BY <1>1, WalkerFields DEF ScanTypes, Sc!Stat
<1>3. ~Sc!Walked(w) /\ Sc!Live(w)
  BY DEF Sc!Walked, Sc!Live, Sc!Exhausted
<1>17. walk \in [Sc!Walker -> Sc!Walk] /\ Sc!Processed(w, FALSE)
  BY DEF ScanTypes, Sc!Insert
<1>4. PICK n \in {0, 1} : Moves(w, Walking(x.dirs, x.todo, NoFile, x.fresh + 1, x.walked + 1, x.errors + n))
  BY <1>1, <1>2, <1>17, ProcessMoves
<1>5. PICK y : y = Walking(x.dirs, x.todo, NoFile, x.fresh + 1, x.walked + 1, x.errors + n)
  OBVIOUS
<1>6. y \in Sc!Walk /\ y.step = "walk" /\ y.fresh > 0 /\ y.stat = NoFile
  BY <1>2, <1>5 DEF Walking, Sc!Walk
<1>7. PICK c : c = [run |-> w[1], path |-> x.stat.path, data |-> data, mtime |-> x.stat.mtime, size |-> size]
  OBVIOUS
<1>8. /\ inserted' = [inserted EXCEPT ![w] = @ \cup {c}]
      /\ UNCHANGED <<file, edits, runs, claims>>
  BY <1>1, <1>7 DEF Sc!Insert, Sc!disk, Sc!history
<1>9. w[1] \in Sc!Run /\ w[1] \in DOMAIN runs /\ w[2] \in Dir /\ w = <<w[1], w[2]>>
  BY DEF WalkersHold, Sc!Walker
<1>10. PICK f \in stamps[x.stat.path] :
         f.mtime = x.stat.mtime /\ SizeOf[f.data] = x.stat.size /\ f.data \in held[w[1]][x.stat.path]
  BY <1>1 DEF HeldNow
<1>11. data \in Sc!Content /\ data <= edits /\ WasThere(c)
  <2>1. CASE file[x.stat.path] # NoFile /\ data = file[x.stat.path].data
    <3>1. file[x.stat.path] \in stamps[x.stat.path] /\ file[x.stat.path] \in Sc!File
      BY <1>2, <2>1 DEF ScanTypes
    <3>2. Sc!At(x.stat.path) \in held[w[1]][x.stat.path]
      BY <1>2, <1>3, <1>9 DEF HeldNow, Sc!UnderWay
    <3>3. data \in held[w[1]][x.stat.path]
      BY <2>1, <3>2 DEF Sc!At
    <3>. QED
      BY <1>2, <1>7, <2>1, <3>1, <3>3 DEF ScanTypes, WasThere, Sc!File
  <2>2. ASSUME NEW b \in Sc!Cached(w), data = b.data
        PROVE  data \in Sc!Content /\ data <= edits /\ WasThere(c)
    <3>1. /\ b \in claims /\ b.run = runs[w[1]].resumed /\ b.path = x.stat.path /\ b.mtime = x.stat.mtime
          /\ b.size = x.stat.size
      BY <1>1, <2>2 DEF Sc!Cached
    <3>2. b.data \in Sc!Content /\ b.data <= edits /\ b.run < w[1]
      <4>1. b.data \in Sc!Content /\ b.data <= edits
        BY <3>1 DEF ScanTypes, Sc!Claim, ClaimsHold, ClaimHolds
      <4>2. runs[w[1]].resumed \in 0..(w[1] - 1) /\ w[1] \in Int
        BY <1>9, RunsNumbered DEF ScanTypes, Sc!Run
      <4>. QED
        BY <3>1, <4>1, <4>2
    <3>3. CASE Sc!Torn(b)
      BY <1>7, <2>2, <3>1, <3>2, <3>3 DEF WasThere
    <3>4. CASE ~Sc!Torn(b)
      <4>1. PICK g \in stamps[x.stat.path] : g.data = b.data /\ g.mtime = b.mtime /\ SizeOf[b.data] = b.size
        BY <3>1, <3>4 DEF Sc!Torn
      <4>2. CASE g.data = f.data
        BY <1>7, <1>10, <2>2, <3>2, <4>1, <4>2 DEF WasThere
      <4>3. CASE g.data # f.data
        <5>1. Sc!Ambiguous(x.stat.path)
          BY <1>10, <3>1, <4>1, <4>3 DEF Sc!Ambiguous
        <5>. QED
          BY <1>7, <2>2, <3>2, <5>1 DEF WasThere
      <4>. QED
        BY <4>2, <4>3
    <3>. QED
      BY <2>2, <3>2, <3>3, <3>4
  <2>. QED
    BY <1>1, <2>1, <2>2
<1>12. c \in Sc!Claim /\ c.run = w[1] /\ ClaimHolds(c)
  BY <1>2, <1>7, <1>9, <1>11 DEF Sc!Claim, ClaimHolds
<1>13. /\ inserted' \in [Sc!Walker -> SUBSET Sc!Claim] /\ inserted'[w] = inserted[w] \cup {c}
       /\ \A v \in Sc!Walker : v # w => inserted'[v] = inserted[v]
  BY <1>8, <1>12 DEF ScanTypes
<1>14. Moves(w, y)
  BY <1>4, <1>5
<1>15. \A r \in DOMAIN runs : DOMAIN runs'[r] = RunFields
  BY <1>8 DEF ScanTypes
<1>16. runs' \in Seq(Rows(runs'))
  BY <1>8 DEF ScanTypes
<1>. QED
  BY <1>3, <1>6, <1>8, <1>12, <1>13, <1>14, <1>15, <1>16, WalkerKeeps

(* The steps of a walker that write nothing. *)
LEMMA WalkersHoldOn ==
  ASSUME ScanInv, NEW w \in Sc!Walker,
         \/ Sc!ListDir(w) \/ Sc!PassDir(w) \/ Sc!StatFile(w) \/ Sc!PassFile(w) \/ Sc!BumpTimeout(w) \/ Counting(w)
         \/ \E failed \in BOOLEAN : Sc!Processed(w, failed),
         walk[w].step = "walk", ~Sc!Walked(w), UNCHANGED <<file, clock, start, edits, stamps, held, claims, inserted, runs>>
  PROVE  ScanInv'
<1>. USE DEF ScanInv
<1>1. PICK x : x = walk[w]
  OBVIOUS
<1>2. /\ x \in Sc!Walk /\ x.step = "walk" /\ (x.stat # NoFile => x.stat \in Sc!Stat)
      /\ x.dirs \subseteq Dir /\ x.todo \subseteq Path /\ x.fresh \in Nat /\ x.walked \in Nat /\ x.errors \in Nat
  BY <1>1, WalkerFields DEF ScanTypes
<1>0. walk \in [Sc!Walker -> Sc!Walk]
  BY DEF ScanTypes
<1>3. inserted[w] # {} => x.fresh > 0
  BY <1>1 DEF WalkersHold
<1>4. ASSUME NEW y \in Sc!Walk, y.step = "walk", Moves(w, y), inserted[w] # {} => y.fresh > 0,
             \/ y.stat = NoFile \/ y.stat = x.stat
             \/ \E f \in stamps[y.stat.path] :
                  f.mtime = y.stat.mtime /\ SizeOf[f.data] = y.stat.size /\ f.data \in held[w[1]][y.stat.path]
      PROVE  ScanInv'
  <2>1. runs' \in Seq(Rows(runs')) /\ \A r \in DOMAIN runs : DOMAIN runs'[r] = RunFields
    BY DEF ScanTypes
  <2>2. inserted' \in [Sc!Walker -> SUBSET Sc!Claim]
    BY DEF ScanTypes
  <2>. QED
    BY <1>1, <1>4, <2>1, <2>2, WalkerKeeps
<1>5. CASE Sc!ListDir(w)
  <2>1. PICK d \in x.dirs, ps \in SUBSET Path :
          Moves(w, Walking(x.dirs \ {d}, ps, x.stat, x.fresh, x.walked, x.errors))
    BY <1>0, <1>1, <1>2, <1>5, ListMoves
  <2>2. PICK y : y = Walking(x.dirs \ {d}, ps, x.stat, x.fresh, x.walked, x.errors)
    OBVIOUS
  <2>3. y \in Sc!Walk /\ y.step = "walk" /\ y.fresh = x.fresh /\ y.stat = x.stat
    BY <1>2, <2>2 DEF Walking, Sc!Walk
  <2>. QED
    BY <1>3, <1>4, <2>1, <2>2, <2>3
<1>6. ASSUME NEW failed \in BOOLEAN, Sc!Processed(w, failed) PROVE ScanInv'
  <2>1. PICK n \in {0, 1} : Moves(w, Walking(x.dirs, x.todo, NoFile, x.fresh + 1, x.walked + 1, x.errors + n))
    BY <1>0, <1>1, <1>2, <1>6, ProcessMoves
  <2>2. PICK y : y = Walking(x.dirs, x.todo, NoFile, x.fresh + 1, x.walked + 1, x.errors + n)
    OBVIOUS
  <2>3. y \in Sc!Walk /\ y.step = "walk" /\ y.fresh > 0 /\ y.stat = NoFile
    BY <1>2, <2>2 DEF Walking, Sc!Walk
  <2>. QED
    BY <1>4, <2>1, <2>2, <2>3
<1>7. CASE Sc!StatFile(w)
  <2>1. PICK p \in x.todo : \E s :
              /\ Moves(w, Walking(x.dirs, x.todo \ {p}, s, x.fresh, x.walked, x.errors))
              /\ s = IF file[p] = NoFile THEN NoFile ELSE [path |-> p, mtime |-> file[p].mtime, size |-> SizeOf[file[p].data], fast |-> NoFile]
    BY <1>0, <1>1, <1>2, <1>7, StatMoves
  <2>2. PICK s :
              /\ Moves(w, Walking(x.dirs, x.todo \ {p}, s, x.fresh, x.walked, x.errors))
              /\ s = IF file[p] = NoFile THEN NoFile ELSE [path |-> p, mtime |-> file[p].mtime, size |-> SizeOf[file[p].data], fast |-> NoFile]
    BY <2>1
  <2>3. PICK y : y = Walking(x.dirs, x.todo \ {p}, s, x.fresh, x.walked, x.errors)
    OBVIOUS
  <2>4. p \in Path /\ file[p] \in Sc!File \cup {NoFile} /\ (file[p] # NoFile => file[p] \in stamps[p])
    BY <1>2 DEF ScanTypes
  <2>5. s = NoFile \/ (file[p] # NoFile /\ s \in Sc!Stat /\ s.path = p
                       /\ s.mtime = file[p].mtime /\ s.size = SizeOf[file[p].data])
    <3>1. file[p] # NoFile => file[p].mtime \in 0..MaxClock /\ SizeOf[file[p].data] \in Sc!Size
      BY <2>4 DEF Sc!File, Sc!Size
    <3>. QED
      BY <2>2, <2>4, <3>1 DEF Sc!Stat
  <2>6. y \in Sc!Walk /\ y.step = "walk" /\ y.fresh = x.fresh /\ y.stat = s
    BY <1>2, <2>3, <2>5 DEF Walking, Sc!Walk
  <2>7. ASSUME s # NoFile
        PROVE  \E f \in stamps[s.path] : f.mtime = s.mtime /\ SizeOf[f.data] = s.size /\ f.data \in held[w[1]][s.path]
    <3>1. file[p] \in stamps[p] /\ s.path = p /\ s.mtime = file[p].mtime /\ s.size = SizeOf[file[p].data]
      BY <2>4, <2>5, <2>7
    <3>2. w[1] \in Sc!Run /\ w[2] \in Dir /\ w = <<w[1], w[2]>> /\ Sc!Live(w)
      BY DEF Sc!Walker, Sc!Live
    <3>3. Sc!At(p) \in held[w[1]][p]
      BY <2>4, <3>2 DEF HeldNow, Sc!UnderWay
    <3>. QED
      BY <2>5, <2>7, <3>1, <3>3 DEF Sc!At
  <2>. QED
    BY <1>3, <1>4, <2>2, <2>3, <2>6, <2>7
<1>8. CASE Sc!PassDir(w)
  <2>1. PICK D \in SUBSET x.dirs : Moves(w, Walking(x.dirs \ D, x.todo, x.stat, x.fresh, x.walked, x.errors))
    BY <1>0, <1>1, <1>2, <1>8, PassDirMoves
  <2>2. PICK y : y = Walking(x.dirs \ D, x.todo, x.stat, x.fresh, x.walked, x.errors)
    OBVIOUS
  <2>3. y \in Sc!Walk /\ y.step = "walk" /\ y.fresh = x.fresh /\ y.stat = x.stat
    BY <1>2, <2>2 DEF Walking, Sc!Walk
  <2>. QED
    BY <1>3, <1>4, <2>1, <2>2, <2>3
<1>9. CASE Sc!PassFile(w)
  <2>1. PICK p \in x.todo : Moves(w, Walking(x.dirs, x.todo \ {p}, x.stat, x.fresh, x.walked, x.errors))
    BY <1>0, <1>1, <1>2, <1>9, PassFileMoves
  <2>2. PICK y : y = Walking(x.dirs, x.todo \ {p}, x.stat, x.fresh, x.walked, x.errors)
    OBVIOUS
  <2>3. y \in Sc!Walk /\ y.step = "walk" /\ y.fresh = x.fresh /\ y.stat = x.stat
    BY <1>2, <2>2 DEF Walking, Sc!Walk
  <2>. QED
    BY <1>3, <1>4, <2>1, <2>2, <2>3
<1>10. CASE Sc!BumpTimeout(w)
  <2>1. Moves(w, Walking(x.dirs, x.todo, x.stat, 0, x.walked, x.errors)) /\ inserted[w] = {}
    BY <1>0, <1>1, <1>2, <1>10, CommitMoves DEF Sc!BumpTimeout
  <2>2. PICK y : y = Walking(x.dirs, x.todo, x.stat, 0, x.walked, x.errors)
    OBVIOUS
  <2>3. y \in Sc!Walk /\ y.step = "walk" /\ y.stat = x.stat
    BY <1>2, <2>2 DEF Walking, Sc!Walk
  <2>. QED
    BY <1>4, <2>1, <2>2, <2>3
<1>11. CASE Counting(w)
  <2>1. PICK s \in Sc!Stat :
          /\ s.path = x.stat.path /\ s.mtime = x.stat.mtime /\ s.size = x.stat.size
          /\ Moves(w, Walking(x.dirs, x.todo, s, x.fresh, x.walked, x.errors))
    BY <1>0, <1>1, <1>11, FastMoves
  <2>2. PICK y : y = Walking(x.dirs, x.todo, s, x.fresh, x.walked, x.errors)
    OBVIOUS
  <2>3. y \in Sc!Walk /\ y.step = "walk" /\ y.fresh = x.fresh /\ y.stat = s
    BY <1>2, <2>2 DEF Walking, Sc!Walk
  <2>4. \E f \in stamps[s.path] : f.mtime = s.mtime /\ SizeOf[f.data] = s.size /\ f.data \in held[w[1]][s.path]
    BY <1>1, <1>11, <2>1 DEF Counting, HeldNow
  <2>. QED
    BY <1>3, <1>4, <2>1, <2>2, <2>3, <2>4
<1>. QED
  BY <1>5, <1>6, <1>7, <1>8, <1>9, <1>10, <1>11

(* A sequence is one of its own rows. *)
LEMMA RowsAreRows ==
  ASSUME NEW n \in Nat, NEW t, DOMAIN t = 1..n, t = [i \in 1..n |-> t[i]]
  PROVE  t \in Seq(Rows(t)) /\ Len(t) = n
<1>1. \A i \in 1..n : t[i] \in Rows(t)
  BY DEF Rows
<1>2. t \in [1..n -> Rows(t)]
  BY <1>1
<1>. QED
  BY <1>2

(* A row of a run, with other counters and finished or not. *)
Rewritten(s, r, x) == [s EXCEPT ![r] = x]
LEMMA RunRow ==
  ASSUME NEW s, NEW n \in Nat, DOMAIN s = 1..n, NEW r \in 1..n, NEW x, NEW t, t = Rewritten(s, r, x)
  PROVE  /\ t \in Seq(Rows(t)) /\ Len(t) = n /\ DOMAIN t = 1..n
         /\ t[r] = x /\ \A i \in 1..n : i # r => t[i] = s[i]
<1>1. DOMAIN t = 1..n /\ t = [i \in 1..n |-> t[i]] /\ t[r] = x /\ \A i \in 1..n : i # r => t[i] = s[i]
  BY DEF Rewritten
<1>2. t \in Seq(Rows(t)) /\ Len(t) = n
  BY <1>1, RowsAreRows
<1>. QED
  BY <1>1, <1>2

(* A commit makes the pending claims of its walker claims. *)
LEMMA CommitKeeps ==
  ASSUME ScanInv, NEW w \in Sc!Walker, Sc!CommitBatch(w)
  PROVE  ScanInv'
<1>. USE DEF ScanInv
<1>1. PICK x : x = walk[w]
  OBVIOUS
<1>0. walk \in [Sc!Walker -> Sc!Walk]
  BY DEF ScanTypes
<1>2. /\ x \in Sc!Walk /\ x.step = "walk" /\ (x.stat # NoFile => x.stat \in Sc!Stat)
      /\ x.dirs \subseteq Dir /\ x.todo \subseteq Path /\ x.fresh \in Nat /\ x.walked \in Nat /\ x.errors \in Nat /\ x.fresh > 0
  <2>1. x.step = "walk" /\ x.fresh > 0
    BY <1>1 DEF Sc!CommitBatch
  <2>. QED
    BY <1>0, <1>1, <2>1, WalkerFields
<1>3. PICK y : y = Walking(x.dirs, x.todo, x.stat, 0, x.walked, x.errors)
  OBVIOUS
<1>4. Moves(w, y)
  BY <1>0, <1>1, <1>2, <1>3, CommitMoves
<1>5. y \in Sc!Walk /\ y.step = "walk" /\ y.stat = walk[w].stat
  BY <1>1, <1>2, <1>3 DEF Walking, Sc!Walk
<1>6. ~Sc!Walked(w) /\ walk[w].step = "walk"
  BY <1>1, <1>2 DEF Sc!Walked
<1>7. /\ UNCHANGED <<file, clock, start, edits, stamps, held>> /\ claims' = claims \cup inserted[w]
      /\ inserted' = [inserted EXCEPT ![w] = {}]
  BY DEF Sc!CommitBatch, Sc!disk, Sc!history
<1>8. /\ inserted' \in [Sc!Walker -> SUBSET Sc!Claim] /\ inserted'[w] = {}
      /\ \A v \in Sc!Walker : v # w => inserted'[v] = inserted[v]
  BY <1>7 DEF ScanTypes
<1>9. w[1] \in DOMAIN runs
  BY <1>1, <1>2 DEF WalkersHold
<1>10. PICK k : k = runs[w[1]].walked + walk[w].fresh
  OBVIOUS
<1>11. runs' = [runs EXCEPT ![w[1]].walked = k]
  BY <1>10 DEF Sc!CommitBatch
<1>12. PICK z : z = [runs[w[1]] EXCEPT !.walked = k]
  OBVIOUS
<1>13. runs' = [runs EXCEPT ![w[1]] = z]
  BY <1>11, <1>12
<1>14. /\ runs' \in Seq(Rows(runs')) /\ Len(runs') = Len(runs) /\ DOMAIN runs' = DOMAIN runs
       /\ runs'[w[1]] = z /\ \A i \in DOMAIN runs : i # w[1] => runs'[i] = runs[i]
  <2>1. PICK t : t = runs'
    OBVIOUS
  <2>2. t = Rewritten(runs, w[1], z) /\ Len(runs) \in Nat /\ DOMAIN runs = 1..Len(runs)
    BY <1>13, <2>1, RunsNumbered DEF Rewritten
  <2>3. /\ t \in Seq(Rows(t)) /\ Len(t) = Len(runs) /\ DOMAIN t = 1..Len(runs)
        /\ t[w[1]] = z /\ \A i \in 1..Len(runs) : i # w[1] => t[i] = runs[i]
    BY <1>9, <2>2, RunRow
  <2>. QED
    BY <2>1, <2>2, <2>3
<1>15. DOMAIN z = RunFields /\ z.resumed = runs[w[1]].resumed /\ z.finished = runs[w[1]].finished
  <2>1. DOMAIN runs[w[1]] = RunFields
    BY <1>9 DEF ScanTypes
  <2>2. z = [f \in RunFields |-> IF f = "walked" THEN k ELSE runs[w[1]][f]]
    BY <1>12, <2>1
  <2>. QED
    BY <2>2 DEF RunFields
<1>16. \A r \in DOMAIN runs : DOMAIN runs'[r] = RunFields /\ runs'[r].resumed = runs[r].resumed
                              /\ (runs'[r].finished => runs[r].finished)
  <2>1. \A r \in DOMAIN runs : DOMAIN runs[r] = RunFields
    BY DEF ScanTypes
  <2>. QED
    BY <1>14, <1>15, <2>1
<1>. QED
  BY <1>4, <1>5, <1>6, <1>7, <1>8, <1>14, <1>16, WalkerKeeps

(* A walker's step that is not a lock timeout. *)
LEMMA WalkerStepKeeps ==
  ASSUME ScanInv, NEW w \in Sc!Walker,
         \/ Sc!ListDir(w) \/ Sc!PassDir(w) \/ Sc!StatFile(w) \/ Sc!PassFile(w) \/ Sc!ReuseClaim(w)
         \/ Sc!FastHash(w) \/ Sc!ArchiveHash(w) \/ Sc!ReadError(w) \/ Sc!CommitBatch(w) \/ Sc!BumpTimeout(w)
  PROVE  ScanInv'
<1>1. CASE Sc!ListDir(w)
  <2>1. walk[w].step = "walk" /\ ~Sc!Walked(w)
    BY <1>1 DEF Sc!ListDir, Sc!NextDir, Sc!Walked, Sc!Exhausted
  <2>2. UNCHANGED <<file, clock, start, edits, stamps, held, claims, inserted, runs>>
    BY <1>1 DEF Sc!ListDir, Sc!disk, Sc!history
  <2>. QED
    BY <1>1, <2>1, <2>2, WalkersHoldOn
<1>2. CASE Sc!StatFile(w)
  <2>1. walk[w].step = "walk" /\ ~Sc!Walked(w)
    BY <1>2 DEF Sc!StatFile, Sc!Walked, Sc!Exhausted
  <2>2. UNCHANGED <<file, clock, start, edits, stamps, held, claims, inserted, runs>>
    BY <1>2 DEF Sc!StatFile, Sc!disk, Sc!history
  <2>. QED
    BY <1>2, <2>1, <2>2, WalkersHoldOn
<1>3. CASE Sc!ReuseClaim(w)
  <2>1. PICK c \in Sc!Cached(w) : Sc!Insert(w, c.data, c.size)
    BY <1>3 DEF Sc!ReuseClaim
  <2>2. walk[w].step = "walk" /\ walk[w].stat # NoFile
    BY <1>3 DEF Sc!ReuseClaim
  <2>3. UNCHANGED <<clock, start, stamps, held>>
    BY <2>1 DEF Sc!Insert, Sc!disk, Sc!history
  <2>4. c.size \in Sc!Size
    BY DEF ScanInv, ScanTypes, Sc!Claim, Sc!Cached
  <2>. QED
    BY <2>1, <2>2, <2>3, <2>4, InsertKeeps
<1>11. ASSUME Sc!Vanished(w), walk[w].step = "walk", walk[w].stat # NoFile PROVE ScanInv'
  <2>1. Sc!Processed(w, TRUE) /\ UNCHANGED <<file, clock, start, edits, stamps, held, claims, inserted, runs>>
    BY <1>11 DEF Sc!Vanished, Sc!disk, Sc!history
  <2>2. ~Sc!Walked(w)
    BY <1>11 DEF Sc!Walked, Sc!Exhausted
  <2>. QED
    BY <1>11, <2>1, <2>2, WalkersHoldOn
<1>12. ASSUME NEW size \in Sc!Size, walk[w].step = "walk", walk[w].stat # NoFile, file[walk[w].stat.path] # NoFile,
              Sc!Insert(w, file[walk[w].stat.path].data, size)
       PROVE  ScanInv'
  <2>1. UNCHANGED <<clock, start, stamps, held>>
    BY <1>12 DEF Sc!Insert, Sc!disk, Sc!history
  <2>2. PICK d : d = file[walk[w].stat.path].data
    OBVIOUS
  <2>. QED
    BY <1>12, <2>1, <2>2, InsertKeeps
<1>13. ASSUME walk[w].step = "walk", walk[w].stat # NoFile, file[walk[w].stat.path] # NoFile
       PROVE  SizeOf[file[walk[w].stat.path].data] \in Sc!Size
  <2>1. walk[w].stat.path \in Path
    BY <1>13, WalkerFields DEF ScanInv, ScanTypes, Sc!Stat
  <2>2. file[walk[w].stat.path] \in Sc!File
    BY <1>13, <2>1 DEF ScanInv, ScanTypes
  <2>. QED
    BY <2>2 DEF Sc!File, Sc!Size
<1>4. CASE Sc!FastHash(w)
  <2>1. walk[w].step = "walk" /\ walk[w].stat # NoFile /\ ~Sc!Walked(w)
    BY <1>4 DEF Sc!FastHash, Sc!Walked, Sc!Exhausted
  <2>2. PICK f : f = file[walk[w].stat.path]
    OBVIOUS
  <2>3. CASE f = NoFile /\ Sc!Vanished(w)
    BY <1>11, <2>1, <2>3
  <2>4. CASE f # NoFile /\ Sc!Insert(w, f.data, SizeOf[f.data])
    BY <1>12, <1>13, <2>1, <2>2, <2>4
  <2>5. CASE /\ f # NoFile /\ walk' = [walk EXCEPT ![w].stat.fast = SizeOf[f.data]]
             /\ UNCHANGED <<file, clock, start, edits, runs, claims, inserted, stamps, held>>
    <3>1. Counting(w)
      BY <1>13, <2>1, <2>2, <2>5 DEF Counting
    <3>. QED
      BY <2>1, <2>5, <3>1, WalkersHoldOn
  <2>. QED
    BY <1>4, <2>2, <2>3, <2>4, <2>5 DEF Sc!FastHash, Sc!disk, Sc!history
<1>14. CASE Sc!ArchiveHash(w)
  <2>1. walk[w].step = "walk" /\ walk[w].stat # NoFile /\ walk[w].stat.fast # NoFile
    BY <1>14 DEF Sc!ArchiveHash
  <2>2. CASE file[walk[w].stat.path] = NoFile
    BY <1>11, <1>14, <2>1, <2>2 DEF Sc!ArchiveHash
  <2>3. CASE file[walk[w].stat.path] # NoFile
    <3>1. walk[w].stat \in Sc!Stat
      BY <2>1, WalkerFields DEF ScanInv, ScanTypes
    <3>2. walk[w].stat.fast \in Sc!Size
      BY <2>1, <3>1 DEF Sc!Stat
    <3>. QED
      BY <1>12, <1>14, <2>1, <2>3, <3>2 DEF Sc!ArchiveHash
  <2>. QED
    BY <2>2, <2>3
<1>5. CASE Sc!ReadError(w)
  <2>1. walk[w].step = "walk" /\ ~Sc!Walked(w) /\ Sc!Processed(w, TRUE)
    BY <1>5 DEF Sc!ReadError, Sc!Walked, Sc!Exhausted
  <2>2. UNCHANGED <<file, clock, start, edits, stamps, held, claims, inserted, runs>>
    BY <1>5 DEF Sc!ReadError, Sc!disk, Sc!history
  <2>. QED
    BY <2>1, <2>2, WalkersHoldOn
<1>6. CASE Sc!CommitBatch(w)
  BY <1>6, CommitKeeps
<1>7. CASE Sc!PassDir(w)
  <2>1. walk[w].step = "walk" /\ ~Sc!Walked(w)
    BY <1>7 DEF Sc!PassDir, Sc!NextDir, Sc!Walked, Sc!Exhausted
  <2>2. UNCHANGED <<file, clock, start, edits, stamps, held, claims, inserted, runs>>
    BY <1>7 DEF Sc!PassDir, Sc!disk
  <2>. QED
    BY <1>7, <2>1, <2>2, WalkersHoldOn
<1>8. CASE Sc!PassFile(w)
  <2>1. walk[w].step = "walk" /\ ~Sc!Walked(w)
    BY <1>8 DEF Sc!PassFile, Sc!Walked, Sc!Exhausted
  <2>2. UNCHANGED <<file, clock, start, edits, stamps, held, claims, inserted, runs>>
    BY <1>8 DEF Sc!PassFile, Sc!disk
  <2>. QED
    BY <1>8, <2>1, <2>2, WalkersHoldOn
<1>9. CASE Sc!BumpTimeout(w)
  <2>1. walk[w].step = "walk" /\ ~Sc!Walked(w)
    BY <1>9 DEF Sc!BumpTimeout, Sc!Walked
  <2>2. UNCHANGED <<file, clock, start, edits, stamps, held, claims, inserted, runs>>
    BY <1>9 DEF Sc!BumpTimeout, Sc!disk, Sc!history
  <2>. QED
    BY <1>9, <2>1, <2>2, WalkersHoldOn
<1>. QED
  BY <1>1, <1>2, <1>3, <1>4, <1>5, <1>6, <1>7, <1>8, <1>9, <1>14

(* What claims that hold say still holds when paths have held more since, and *)
(* files of later contents have lain there.                                   *)
LEMMA ClaimsStand ==
  ASSUME ScanInv, claims' = claims, \A w \in Sc!Walker : inserted'[w] \subseteq inserted[w],
         DOMAIN runs \subseteq DOMAIN runs', edits' \in Nat, edits <= edits',
         \A r \in DOMAIN runs : \A p \in Path : held[r][p] \subseteq held'[r][p],
         \A p \in Path : stamps[p] \subseteq stamps'[p] /\ \A f \in stamps'[p] : f \in stamps[p] \/ f.data > edits
  PROVE  ClaimsHold'
<1>. USE DEF ScanInv
<1>0. /\ \A c \in claims : c \in Sc!Claim /\ c.data \in Nat /\ c.path \in Path /\ ClaimHolds(c)
      /\ \A w \in Sc!Walker : \A c \in inserted[w] : c \in Sc!Claim /\ c.data \in Nat /\ c.path \in Path /\ c.run = w[1] /\ ClaimHolds(c)
      /\ edits \in Nat
  <2>1. \A c \in Sc!Claim : c.data \in Nat /\ c.path \in Path
    BY InventoryAssumption DEF Sc!Claim, Sc!Content, Sc!ScanAssumption
  <2>2. claims \subseteq Sc!Claim /\ inserted \in [Sc!Walker -> SUBSET Sc!Claim]
    BY DEF ScanTypes
  <2>3. edits \in Nat
    <3>1. start.edits \in Nat
      BY InventoryAssumption DEF Sc!ScanAssumption, ScanTypes
    <3>. QED
      BY <3>1 DEF ScanTypes
  <2>. QED
    BY <2>1, <2>2, <2>3 DEF ClaimsHold
<1>1. \A p \in Path : Sc!Ambiguous(p) => Sc!Ambiguous(p)'
  BY DEF Sc!Ambiguous
<1>2. ASSUME NEW d \in claims, Sc!Torn(d) PROVE Sc!Torn(d)'
  <2>1. d.data \in Nat /\ d.path \in Path /\ d.data <= edits
    BY <1>0 DEF ClaimHolds
  <2>5. CASE d.size # SizeOf[d.data]
    BY <2>5 DEF Sc!Torn
  <2>6. SUFFICES ASSUME d.size = SizeOf[d.data] PROVE Sc!Torn(d)'
    BY <2>5
  <2>2. PICK f : f = [data |-> d.data, mtime |-> d.mtime]
    OBVIOUS
  <2>3. f \notin stamps[d.path] /\ f.data = d.data
    BY <1>2, <2>2, <2>6 DEF Sc!Torn
  <2>4. f \notin stamps'[d.path]
    BY <1>0, <2>1, <2>3
  <2>. QED
    BY <2>2, <2>4 DEF Sc!Torn
<1>3. ASSUME NEW c, c \in Sc!Claim, c.data \in Nat, c.path \in Path, ClaimHolds(c) PROVE ClaimHolds(c)'
  <2>1. c.run \in DOMAIN runs' /\ c.data <= edits'
    BY <1>0, <1>3 DEF ClaimHolds
  <2>2. CASE c.data \in held[c.run][c.path]
    BY <1>3, <2>1, <2>2 DEF ClaimHolds, WasThere
  <2>3. CASE Sc!Ambiguous(c.path)
    BY <1>1, <1>3, <2>1, <2>3 DEF ClaimHolds, WasThere
  <2>4. ASSUME NEW d \in claims, d.run < c.run, d.path = c.path, d.data = c.data, Sc!Torn(d) PROVE ClaimHolds(c)'
    BY <1>2, <2>1, <2>4 DEF ClaimHolds, WasThere
  <2>. QED
    BY <1>3, <2>2, <2>3, <2>4 DEF ClaimHolds, WasThere
<1>4. \A c \in claims' : ClaimHolds(c)'
  BY <1>0, <1>3
<1>5. \A w \in Sc!Walker : \A c \in inserted'[w] : c.run = w[1] /\ ClaimHolds(c)'
  BY <1>0, <1>3
<1>. QED
  BY <1>4, <1>5 DEF ClaimsHold

(* Processes that end, killed or timed out, leave no claims pending. *)
LEMMA FailsKeeps ==
  ASSUME ScanInv, NEW W, Sc!Fails(W)
  PROVE  ScanInv'
<1>. USE DEF ScanInv
<1>1. /\ UNCHANGED <<file, clock, start, edits, stamps, held, runs, claims>>
      /\ inserted' = [w \in Sc!Walker |-> IF w \in W THEN {} ELSE inserted[w]]
  BY DEF Sc!Fails, Sc!disk, Sc!history
<1>2. ASSUME NEW w \in Sc!Walker
      PROVE  /\ walk'[w] \in Sc!Walk
             /\ \/ walk'[w] = walk[w] /\ (w \notin W \/ ~Sc!Live(w))
                \/ walk'[w].step = "failed" /\ w \in W /\ Sc!Live(w)
  <2>1. walk'[w] = IF w \in W /\ Sc!Live(w) THEN [walk[w] EXCEPT !.step = "failed"] ELSE walk[w]
    BY DEF Sc!Fails
  <2>2. walk[w] \in Sc!Walk
    BY DEF ScanTypes
  <2>3. [walk[w] EXCEPT !.step = "failed"] \in Sc!Walk /\ [walk[w] EXCEPT !.step = "failed"].step = "failed"
    BY <2>2 DEF Sc!Walk
  <2>. QED
    BY <2>1, <2>2, <2>3
<1>9. \A w \in Sc!Walker : walk'[w].step = walk[w].step \/ walk'[w].step = "failed"
  BY <1>2
<1>10. \A w \in Sc!Walker : ~Sc!Live(w) => walk'[w] = walk[w]
  BY <1>2
<1>3. walk' \in [Sc!Walker -> Sc!Walk]
  <2>1. walk' = [w \in Sc!Walker |-> walk'[w]]
    BY DEF Sc!Fails
  <2>. QED
    BY <1>2, <2>1
<1>4. ScanTypes'
  <2>1. inserted' \in [Sc!Walker -> SUBSET Sc!Claim]
    BY <1>1 DEF ScanTypes
  <2>. QED
    BY <1>1, <1>3, <2>1 DEF ScanTypes
<1>5. ClaimsHold'
  <2>1. \A w \in Sc!Walker : inserted'[w] \subseteq inserted[w]
    BY <1>1
  <2>2. edits' \in Nat /\ edits <= edits'
    BY <1>1, InventoryAssumption DEF ScanTypes, Sc!ScanAssumption
  <2>. QED
    BY <1>1, <2>1, <2>2, ClaimsStand
<1>6. \A w \in Sc!Walker : Sc!Live(w)' => Sc!Live(w)
  BY <1>2 DEF Sc!Live, Sc!Walked, Sc!Exhausted
<1>7. HeldNow'
  <2>1. \A r \in Sc!Run : Sc!UnderWay(r)' => Sc!UnderWay(r)
    BY <1>6 DEF Sc!UnderWay, Sc!Walker
  <2>2. \A r \in Sc!Run : Sc!UnderWay(r)' => \A p \in Path : Sc!At(p)' \in held'[r][p]
    BY <1>1, <2>1 DEF HeldNow, Sc!At
  <2>3. \A w \in Sc!Walker : walk'[w].step = "walk" => walk'[w] = walk[w]
    BY <1>2
  <2>. QED
    BY <1>1, <2>2, <2>3 DEF HeldNow
<1>8. WalkersHold'
  <2>0. \A r \in Sc!Run, d \in Dir : <<r, d>> \in Sc!Walker /\ Sc!Main(r) \in Sc!Walker
    BY InventoryAssumption DEF Sc!Main, Sc!Walker, Sc!ScanAssumption
  <2>1. \A w \in Sc!Walker : walk'[w].step # "off" => walk[w].step # "off"
    BY <1>2 DEF Sc!Live
  <2>2. \A w \in Sc!Walker : walk'[w].step # "off" => w[1] \in DOMAIN runs' /\ w[2] \in Sc!Subtree' \cup {Root}
    <3>1. Sc!Subtree' = Sc!Subtree /\ runs' = runs
      BY <1>1 DEF Sc!Subtree
    <3>. QED
      BY <2>1, <3>1 DEF WalkersHold
  <2>3. ASSUME NEW w \in Sc!Walker, inserted'[w] # {} PROVE walk'[w].step = "walk" /\ walk'[w].fresh > 0
    <3>1. w \notin W /\ inserted'[w] = inserted[w]
      BY <1>1, <2>3
    <3>2. walk'[w] = walk[w]
      BY <1>2, <3>1
    <3>. QED
      BY <2>3, <3>1, <3>2 DEF WalkersHold
  <2>4. \A w \in Sc!Walker : w[2] # Root => walk'[w].step # "wait"
    BY <1>2 DEF WalkersHold
  <2>5. \A w \in Sc!Walker : Quiet(w) => Quiet(w)'
    BY <1>2 DEF Quiet, Sc!Walked, Sc!Exhausted
  <2>6. \A r \in Sc!Run : walk'[Sc!Main(r)].step \in {"walk", "done"} => \A d \in Dir \ {Root} : Quiet(<<r, d>>)'
    <3>2. ASSUME NEW r \in Sc!Run, walk'[Sc!Main(r)].step \in {"walk", "done"}, NEW d \in Dir \ {Root} PROVE Quiet(<<r, d>>)'
      <4>2. Sc!Main(r) \in Sc!Walker
        BY <2>0, <3>2
      <4>3. walk[Sc!Main(r)].step \in {"walk", "done"}
        BY <1>9, <3>2, <4>2
      <4>1. Quiet(<<r, d>>)
        BY <3>2, <4>3 DEF WalkersHold
      <4>. QED
        BY <2>0, <2>5, <4>1
    <3>. QED
      BY <3>2
  <2>7. ASSUME NEW r \in DOMAIN runs', runs'[r].finished PROVE walk'[Sc!Main(r)].step = "done"
    <3>1. r \in Sc!Run /\ walk[Sc!Main(r)].step = "done"
      BY <1>1, <2>7, RunsNumbered DEF WalkersHold
    <3>2. ~Sc!Live(Sc!Main(r))
      BY <3>1 DEF Sc!Live
    <3>3. Sc!Main(r) \in Sc!Walker
      BY InventoryAssumption, <3>1 DEF Sc!Main, Sc!Walker, Sc!ScanAssumption
    <3>. QED
      BY <1>10, <3>1, <3>2, <3>3
  <2>. QED
    BY <2>2, <2>3, <2>4, <2>6, <2>7 DEF WalkersHold, Sc!Main
<1>. QED
  BY <1>4, <1>5, <1>7, <1>8

(* The command leaves its wait: it gives up or walks the loose files, its     *)
(* workers quiet.                                                             *)
LEMMA GatherKeeps ==
  ASSUME ScanInv, NEW r \in Sc!Run, Sc!Gather(r)
  PROVE  ScanInv'
<1>. USE DEF ScanInv
<1>1. PICK m : m = Sc!Main(r)
  OBVIOUS
<1>0. m \in Sc!Walker /\ m = <<r, Root>> /\ m[1] = r /\ m[2] = Root /\ Root \in Dir
  BY <1>1, InventoryAssumption DEF Sc!Main, Sc!Walker, Sc!ScanAssumption
<1>2. /\ UNCHANGED <<file, clock, start, edits, stamps, held, runs, claims, inserted>>
      /\ walk[m].step = "wait" /\ \A w \in Sc!Workers(r) : ~Sc!Live(w)
  BY <1>1 DEF Sc!Gather, Sc!disk, Sc!history
<1>3. PICK y : y = IF \E w \in Sc!Workers(r) : walk[w].step = "failed" THEN [walk[m] EXCEPT !.step = "failed"] ELSE Sc!Begun({Root})
  OBVIOUS
<1>4. walk' = [walk EXCEPT ![m] = y]
  BY <1>1, <1>3 DEF Sc!Gather
<1>5. y \in Sc!Walk /\ (y.step = "failed" \/ (y.step = "walk" /\ y.stat = NoFile))
  <2>1. walk[m] \in Sc!Walk
    BY <1>0 DEF ScanTypes
  <2>2. [walk[m] EXCEPT !.step = "failed"] \in Sc!Walk /\ [walk[m] EXCEPT !.step = "failed"].step = "failed"
    BY <2>1 DEF Sc!Walk
  <2>3. Sc!Begun({Root}) \in Sc!Walk /\ Sc!Begun({Root}).step = "walk" /\ Sc!Begun({Root}).stat = NoFile
    BY <1>0 DEF Sc!Begun, Sc!Off, Sc!Walk
  <2>. QED
    BY <1>3, <2>2, <2>3
<1>6. walk' \in [Sc!Walker -> Sc!Walk] /\ walk'[m] = y /\ \A v \in Sc!Walker : v # m => walk'[v] = walk[v]
  BY <1>0, <1>4, <1>5 DEF ScanTypes
<1>7. ScanTypes'
  BY <1>2, <1>6 DEF ScanTypes
<1>8. ClaimsHold'
  <2>1. \A w \in Sc!Walker : inserted'[w] \subseteq inserted[w]
    BY <1>2
  <2>2. edits' \in Nat /\ edits <= edits'
    BY <1>2, InventoryAssumption DEF ScanTypes, Sc!ScanAssumption
  <2>. QED
    BY <1>2, <2>1, <2>2, ClaimsStand
<1>9. \A w \in Sc!Walker : Sc!Live(w)' => Sc!Live(w)
  BY <1>2, <1>6 DEF Sc!Live, Sc!Walked, Sc!Exhausted
<1>10. HeldNow'
  <2>1. \A q \in Sc!Run : Sc!UnderWay(q)' => Sc!UnderWay(q)
    BY <1>9 DEF Sc!UnderWay, Sc!Walker
  <2>2. \A q \in Sc!Run : Sc!UnderWay(q)' => \A p \in Path : Sc!At(p)' \in held'[q][p]
    BY <1>2, <2>1 DEF HeldNow, Sc!At
  <2>3. \A w \in Sc!Walker : walk'[w].step = "walk" /\ walk'[w].stat # NoFile => walk'[w] = walk[w]
    BY <1>5, <1>6
  <2>. QED
    BY <1>2, <2>2, <2>3 DEF HeldNow
<1>11. WalkersHold'
  <2>1. \A v \in Sc!Walker : walk'[v].step # "off" => walk[v].step # "off"
    BY <1>2, <1>6
  <2>2. \A v \in Sc!Walker : walk'[v].step # "off" => v[1] \in DOMAIN runs' /\ v[2] \in Sc!Subtree' \cup {Root}
    <3>1. Sc!Subtree' = Sc!Subtree /\ runs' = runs
      BY <1>2 DEF Sc!Subtree
    <3>. QED
      BY <2>1, <3>1 DEF WalkersHold
  <2>3. ASSUME NEW v \in Sc!Walker, inserted'[v] # {} PROVE walk'[v].step = "walk" /\ walk'[v].fresh > 0
    <3>1. inserted[v] # {} /\ v # m
      BY <1>0, <1>2, <2>3 DEF WalkersHold
    <3>. QED
      BY <1>6, <3>1 DEF WalkersHold
  <2>4. \A v \in Sc!Walker : v[2] # Root => walk'[v].step # "wait"
    BY <1>0, <1>6 DEF WalkersHold
  <2>5. \A v \in Sc!Walker : v # m => (Quiet(v) => Quiet(v)')
    BY <1>6 DEF Quiet, Sc!Walked, Sc!Exhausted
  <2>6. ASSUME NEW q \in Sc!Run, walk'[Sc!Main(q)].step \in {"walk", "done"}, NEW d \in Dir \ {Root} PROVE Quiet(<<q, d>>)'
    <3>1. <<q, d>> \in Sc!Walker /\ <<q, d>> # m /\ Sc!Main(q) \in Sc!Walker
      BY <1>0, <2>6 DEF Sc!Walker, Sc!Main
    <3>2. Quiet(<<q, d>>)
      <4>1. CASE q # r
        <5>1. Sc!Main(q) # m
          BY <1>0, <4>1 DEF Sc!Main
        <5>2. walk[Sc!Main(q)].step \in {"walk", "done"}
          BY <1>6, <2>6, <3>1, <5>1
        <5>. QED
          BY <2>6, <5>2 DEF WalkersHold
      <4>2. CASE q = r /\ d \in Sc!Subtree
        <5>1. PICK v : v = <<q, d>>
          OBVIOUS
        <5>2. v \in Sc!Workers(r) /\ v \in Sc!Walker /\ v[2] # Root
          BY <3>1, <4>2, <5>1 DEF Sc!Workers
        <5>6. ~Sc!Live(v) /\ walk[v] \in Sc!Walk
          BY <1>2, <5>2 DEF ScanTypes
        <5>3. ~Sc!Live(v) /\ walk[v].step # "wait" /\ walk[v] \in Sc!Walk
          BY <5>6 DEF Sc!Live
        <5>4. walk[v].step \in {"off", "walk", "wait", "done", "failed"}
          BY <5>3 DEF Sc!Walk
        <5>5. Quiet(v)
          BY <5>2, <5>3, <5>4 DEF Quiet, Sc!Live
        <5>. QED
          BY <5>1, <5>5
      <4>3. CASE q = r /\ d \notin Sc!Subtree
        <5>1. PICK v : v = <<q, d>>
          OBVIOUS
        <5>2. v \in Sc!Walker /\ v[2] \notin Sc!Subtree \cup {Root}
          BY <2>6, <3>1, <4>3, <5>1
        <5>3. Quiet(v)
          BY <5>2 DEF WalkersHold, Quiet
        <5>. QED
          BY <5>1, <5>3
      <4>. QED
        BY <4>1, <4>2, <4>3
    <3>3. PICK v : v = <<q, d>>
      OBVIOUS
    <3>4. Quiet(v)'
      BY <2>5, <3>1, <3>2, <3>3
    <3>. QED
      BY <3>3, <3>4
  <2>7. ASSUME NEW q \in DOMAIN runs', runs'[q].finished PROVE walk'[Sc!Main(q)].step = "done"
    <3>1. q \in Sc!Run /\ walk[Sc!Main(q)].step = "done"
      BY <1>2, <2>7, RunsNumbered DEF WalkersHold
    <3>2. Sc!Main(q) \in Sc!Walker /\ Sc!Main(q) # m
      BY <1>0, <1>2, <3>1 DEF Sc!Walker, Sc!Main
    <3>. QED
      BY <1>6, <3>1, <3>2
  <2>. QED
    BY <2>2, <2>3, <2>4, <2>6, <2>7 DEF WalkersHold, Sc!Main
<1>. QED
  BY <1>7, <1>8, <1>10, <1>11

(* The command closes its run. *)
LEMMA CloseKeeps ==
  ASSUME ScanInv, NEW r \in Sc!Run, Sc!CloseRun(r)
  PROVE  ScanInv'
<1>. USE DEF ScanInv
<1>1. PICK m : m = Sc!Main(r)
  OBVIOUS
<1>0. m \in Sc!Walker /\ m = <<r, Root>> /\ m[1] = r /\ m[2] = Root /\ Root \in Dir
  BY <1>1, InventoryAssumption DEF Sc!Main, Sc!Walker, Sc!ScanAssumption
<1>2. /\ UNCHANGED <<file, clock, start, edits, stamps, held, claims, inserted>>
      /\ Sc!Walked(m)
  BY <1>1 DEF Sc!CloseRun, Sc!disk, Sc!history
<1>12. walk[m].step = "walk" /\ walk[m].fresh = 0 /\ inserted[m] = {} /\ r \in DOMAIN runs
  <2>1. walk[m].step = "walk" /\ walk[m].fresh = 0
    BY <1>2 DEF Sc!Walked
  <2>2. ~(walk[m].fresh > 0)
    BY <2>1
  <2>. QED
    BY <1>0, <2>1, <2>2 DEF WalkersHold
<1>3. PICK y : y = [walk[m] EXCEPT !.step = "done"]
  OBVIOUS
<1>4. walk' = [walk EXCEPT ![m] = y]
  BY <1>1, <1>3 DEF Sc!CloseRun
<1>5. y \in Sc!Walk /\ y.step = "done"
  <2>1. walk[m] \in Sc!Walk
    BY <1>0 DEF ScanTypes
  <2>. QED
    BY <1>3, <2>1 DEF Sc!Walk
<1>6. walk' \in [Sc!Walker -> Sc!Walk] /\ walk'[m] = y /\ \A v \in Sc!Walker : v # m => walk'[v] = walk[v]
  BY <1>0, <1>4, <1>5 DEF ScanTypes
<1>13. PICK i, j : i = Sc!Total(r, "walked") /\ j = Sc!Total(r, "errors")
  OBVIOUS
<1>14. PICK z : z = [runs[r] EXCEPT !.finished = TRUE, !.walked = i, !.errors = j]
  OBVIOUS
<1>15. runs' = [runs EXCEPT ![r] = z]
  BY <1>12, <1>13, <1>14 DEF Sc!CloseRun
<1>16. /\ runs' \in Seq(Rows(runs')) /\ Len(runs') = Len(runs) /\ DOMAIN runs' = DOMAIN runs
       /\ runs'[r] = z /\ \A k \in DOMAIN runs : k # r => runs'[k] = runs[k]
  <2>1. PICK t : t = runs'
    OBVIOUS
  <2>2. t = Rewritten(runs, r, z) /\ Len(runs) \in Nat /\ DOMAIN runs = 1..Len(runs)
    BY <1>15, <2>1, RunsNumbered DEF Rewritten
  <2>3. /\ t \in Seq(Rows(t)) /\ Len(t) = Len(runs) /\ DOMAIN t = 1..Len(runs)
        /\ t[r] = z /\ \A k \in 1..Len(runs) : k # r => t[k] = runs[k]
    BY <1>12, <2>2, RunRow
  <2>. QED
    BY <2>1, <2>2, <2>3
<1>17. DOMAIN z = RunFields /\ z.resumed = runs[r].resumed
  <2>1. DOMAIN runs[r] = RunFields
    BY <1>12 DEF ScanTypes
  <2>2. z = [f \in RunFields |-> IF f = "errors" THEN j ELSE IF f = "walked" THEN i ELSE IF f = "finished" THEN TRUE ELSE runs[r][f]]
    BY <1>14, <2>1 DEF RunFields
  <2>. QED
    BY <2>2 DEF RunFields
<1>7. ScanTypes'
  <2>1. \A q \in DOMAIN runs' : DOMAIN runs'[q] = RunFields /\ runs'[q].resumed \in 0..(q - 1)
    BY <1>16, <1>17 DEF ScanTypes
  <2>2. runs' \in Seq(Rows(runs')) /\ Len(runs') <= MaxRuns
    BY <1>16 DEF ScanTypes
  <2>3. Rows(runs)' = Rows(runs')
    BY DEF Rows
  <2>. QED
    BY <1>2, <1>6, <2>1, <2>2, <2>3 DEF ScanTypes
<1>8. ClaimsHold'
  <2>1. \A w \in Sc!Walker : inserted'[w] \subseteq inserted[w]
    BY <1>2
  <2>2. edits' \in Nat /\ edits <= edits'
    BY <1>2, InventoryAssumption DEF ScanTypes, Sc!ScanAssumption
  <2>. QED
    BY <1>2, <1>16, <2>1, <2>2, ClaimsStand
<1>9. \A w \in Sc!Walker : Sc!Live(w)' => Sc!Live(w)
  BY <1>5, <1>6 DEF Sc!Live, Sc!Walked, Sc!Exhausted
<1>10. HeldNow'
  <2>1. \A q \in Sc!Run : Sc!UnderWay(q)' => Sc!UnderWay(q)
    BY <1>9 DEF Sc!UnderWay, Sc!Walker
  <2>2. \A q \in Sc!Run : Sc!UnderWay(q)' => \A p \in Path : Sc!At(p)' \in held'[q][p]
    BY <1>2, <2>1 DEF HeldNow, Sc!At
  <2>3. \A w \in Sc!Walker : walk'[w].step = "walk" /\ walk'[w].stat # NoFile => walk'[w] = walk[w]
    BY <1>5, <1>6
  <2>. QED
    BY <1>2, <2>2, <2>3 DEF HeldNow
<1>11. WalkersHold'
  <2>1. \A v \in Sc!Walker : walk'[v].step # "off" => walk[v].step # "off"
    BY <1>6, <1>12
  <2>2. \A v \in Sc!Walker : walk'[v].step # "off" => v[1] \in DOMAIN runs' /\ v[2] \in Sc!Subtree' \cup {Root}
    <3>1. Sc!Subtree' = Sc!Subtree /\ DOMAIN runs' = DOMAIN runs
      BY <1>2, <1>16 DEF Sc!Subtree
    <3>. QED
      BY <2>1, <3>1 DEF WalkersHold
  <2>3. \A v \in Sc!Walker : inserted'[v] # {} => walk'[v].step = "walk" /\ walk'[v].fresh > 0
    BY <1>2, <1>6, <1>12 DEF WalkersHold
  <2>4. \A v \in Sc!Walker : v[2] # Root => walk'[v].step # "wait"
    BY <1>0, <1>6 DEF WalkersHold
  <2>5. \A v \in Sc!Walker : v # m => (Quiet(v) => Quiet(v)')
    BY <1>6 DEF Quiet, Sc!Walked, Sc!Exhausted
  <2>6. ASSUME NEW q \in Sc!Run, walk'[Sc!Main(q)].step \in {"walk", "done"}, NEW d \in Dir \ {Root} PROVE Quiet(<<q, d>>)'
    <3>1. <<q, d>> \in Sc!Walker /\ <<q, d>> # m /\ Sc!Main(q) \in Sc!Walker
      BY <1>0, <2>6 DEF Sc!Walker, Sc!Main
    <3>5. walk[Sc!Main(q)].step \in {"walk", "done"}
      BY <1>6, <1>12, <2>6, <3>1
    <3>2. Quiet(<<q, d>>)
      BY <2>6, <3>5 DEF WalkersHold
    <3>3. PICK v : v = <<q, d>>
      OBVIOUS
    <3>4. Quiet(v)'
      BY <2>5, <3>1, <3>2, <3>3
    <3>. QED
      BY <3>3, <3>4
  <2>7. ASSUME NEW q \in DOMAIN runs', runs'[q].finished PROVE walk'[Sc!Main(q)].step = "done"
    <3>1. CASE q = r
      BY <1>1, <1>5, <1>6, <3>1
    <3>2. CASE q # r
      <4>1. q \in Sc!Run /\ walk[Sc!Main(q)].step = "done"
        BY <1>16, <2>7, <3>2, RunsNumbered DEF WalkersHold
      <4>2. Sc!Main(q) \in Sc!Walker /\ Sc!Main(q) # m
        BY <1>0, <3>2, <4>1 DEF Sc!Walker, Sc!Main
      <4>. QED
        BY <1>6, <4>1, <4>2
    <3>. QED
      BY <3>1, <3>2
  <2>. QED
    BY <2>2, <2>3, <2>4, <2>6, <2>7 DEF WalkersHold, Sc!Main
<1>. QED
  BY <1>7, <1>8, <1>10, <1>11

(* A run begins: it has no claims yet, and its walkers none pending. *)
LEMMA StartKeeps ==
  ASSUME ScanInv, NEW D \in SUBSET Sc!Subtree, NEW resume \in BOOLEAN, Sc!StartScan(D, resume)
  PROVE  ScanInv'
<1>. USE DEF ScanInv
<1>1. PICK n : n = Len(runs) + 1
  OBVIOUS
<1>0. /\ n \in Sc!Run /\ n \notin DOMAIN runs /\ Len(runs) \in Nat /\ DOMAIN runs = 1..Len(runs) /\ n \in Nat /\ n <= MaxRuns
      /\ \A r \in DOMAIN runs : r \in Sc!Run /\ r # n /\ r <= n - 1
  BY <1>1, RunsNumbered DEF Sc!StartScan, Sc!Run
<1>2. /\ UNCHANGED <<file, clock, start, edits, stamps, claims, inserted>>
      /\ held' = [held EXCEPT ![n] = [p \in Path |-> {Sc!At(p)}]]
  BY <1>1 DEF Sc!StartScan, Sc!disk
<1>3. PICK alone \in BOOLEAN : (alone <=> D = {}) /\
        walk' = [w \in Sc!Walker |->
                   IF w = Sc!Main(n) THEN (IF alone THEN Sc!Begun(Sc!Subtree \cup {Root}) ELSE [Sc!Off EXCEPT !.step = "wait"])
                   ELSE IF w[1] = n /\ w[2] \in D THEN Sc!Begun({w[2]})
                   ELSE walk[w]]
  BY <1>1 DEF Sc!StartScan
<1>4. PICK from \in IF resume /\ Sc!LatestFinished # {} THEN Sc!LatestFinished ELSE {0} :
        runs' = Append(runs, [started |-> clock, finished |-> FALSE, resumed |-> from, walked |-> 0, errors |-> 0])
  BY DEF Sc!StartScan
<1>5. PICK x : x = [started |-> clock, finished |-> FALSE, resumed |-> from, walked |-> 0, errors |-> 0]
  OBVIOUS
<1>6. from \in 0..(n - 1)
  <2>1. Sc!LatestFinished \subseteq DOMAIN runs
    BY DEF Sc!LatestFinished
  <2>2. from = 0 \/ from \in DOMAIN runs
    BY <1>4, <2>1
  <2>3. n - 1 = Len(runs)
    BY <1>0, <1>1
  <2>. QED
    BY <1>0, <2>2, <2>3
<1>7. /\ runs' \in Seq(Rows(runs')) /\ Len(runs') = n /\ DOMAIN runs' = 1..n
      /\ runs'[n] = x /\ \A r \in DOMAIN runs : runs'[r] = runs[r]
  <2>1. PICK t : t = runs'
    OBVIOUS
  <2>2. t = Append(runs, x) /\ runs \in Seq(Rows(runs))
    BY <1>4, <1>5, <2>1 DEF ScanTypes
  <2>5. PICK S : S = Rows(runs) \cup {x}
    OBVIOUS
  <2>6. runs \in Seq(S) /\ x \in S
    BY <1>0, <2>2, <2>5
  <2>7. t \in Seq(S) /\ Len(t) = Len(runs) + 1 /\ t[Len(runs) + 1] = x /\ \A r \in 1..Len(runs) : t[r] = runs[r]
    BY <2>2, <2>6
  <2>8. t \in [1..n -> S]
    BY <1>0, <1>1, <2>7
  <2>3. DOMAIN t = 1..n /\ t = [i \in 1..n |-> t[i]] /\ t[n] = x /\ \A r \in DOMAIN runs : t[r] = runs[r]
    BY <1>0, <1>1, <2>7, <2>8
  <2>4. t \in Seq(Rows(t)) /\ Len(t) = n
    BY <1>0, <2>3, RowsAreRows
  <2>. QED
    BY <2>1, <2>3, <2>4
<1>8. DOMAIN x = RunFields /\ x.resumed = from /\ x.finished = FALSE
  BY <1>5 DEF RunFields
<1>9. Sc!Subtree \subseteq Dir /\ Root \in Dir /\ Sc!Subtree' = Sc!Subtree
  <2>1. start.files \subseteq Path
    BY InventoryAssumption DEF ScanTypes, Sc!ScanAssumption
  <2>. QED
    BY <1>2, <2>1, InventoryAssumption DEF Sc!Subtree, Sc!ScanAssumption
<1>10. PICK m : m = Sc!Main(n)
  OBVIOUS
<1>11. m \in Sc!Walker /\ m = <<n, Root>> /\ m[1] = n /\ m[2] = Root
  BY <1>0, <1>9, <1>10 DEF Sc!Main, Sc!Walker
<1>12. ASSUME NEW w \in Sc!Walker
       PROVE  /\ walk'[w] \in Sc!Walk
              /\ \/ walk'[w] = walk[w] /\ w # m
                 \/ w[1] = n /\ w[2] \in Sc!Subtree \cup {Root} /\ walk'[w].step \in {"walk", "wait"} /\ walk'[w].stat = NoFile
                    /\ (walk'[w].step = "wait" <=> w = m /\ ~alone) /\ (w # m => ~alone)
  <2>1. \A E : E \subseteq Dir => Sc!Begun(E) \in Sc!Walk /\ Sc!Begun(E).step = "walk" /\ Sc!Begun(E).stat = NoFile
    BY DEF Sc!Begun, Sc!Off, Sc!Walk
  <2>2. [Sc!Off EXCEPT !.step = "wait"] \in Sc!Walk /\ [Sc!Off EXCEPT !.step = "wait"].step = "wait"
        /\ [Sc!Off EXCEPT !.step = "wait"].stat = NoFile
    BY DEF Sc!Off, Sc!Walk
  <2>3. walk[w] \in Sc!Walk
    BY DEF ScanTypes
  <2>4. CASE w = m
    <3>1. walk'[w] = IF alone THEN Sc!Begun(Sc!Subtree \cup {Root}) ELSE [Sc!Off EXCEPT !.step = "wait"]
      BY <1>3, <1>10, <2>4
    <3>2. Sc!Begun(Sc!Subtree \cup {Root}) \in Sc!Walk /\ Sc!Begun(Sc!Subtree \cup {Root}).step = "walk"
          /\ Sc!Begun(Sc!Subtree \cup {Root}).stat = NoFile
      BY <1>9, <2>1
    <3>. QED
      BY <1>11, <2>2, <2>4, <3>1, <3>2
  <2>5. CASE w # m /\ w[1] = n /\ w[2] \in D
    <3>1. walk'[w] = Sc!Begun({w[2]})
      BY <1>3, <1>10, <2>5
    <3>2. {w[2]} \subseteq Dir
      BY <1>9, <2>5
    <3>3. ~alone /\ w[2] \in Sc!Subtree
      BY <1>3, <2>5
    <3>. QED
      BY <2>1, <2>5, <3>1, <3>2, <3>3
  <2>6. CASE w # m /\ ~(w[1] = n /\ w[2] \in D)
    BY <1>3, <1>10, <2>3, <2>6
  <2>. QED
    BY <2>4, <2>5, <2>6
<1>13. walk' \in [Sc!Walker -> Sc!Walk]
  <2>1. walk' = [w \in Sc!Walker |-> walk'[w]]
    BY <1>3
  <2>. QED
    BY <1>12, <2>1
<1>14. \A w \in Sc!Walker : w[1] = n => walk[w].step = "off" /\ inserted[w] = {}
  BY <1>0 DEF WalkersHold
<1>15. \A r \in Sc!Run : r # n => held'[r] = held[r]
  BY <1>2 DEF ScanTypes
<1>16. ScanTypes'
  <2>1. \A r \in DOMAIN runs' : DOMAIN runs'[r] = RunFields /\ runs'[r].resumed \in 0..(r - 1)
    <3>1. \A r \in DOMAIN runs' : r = n \/ r \in DOMAIN runs
      BY <1>0, <1>1, <1>7
    <3>2. \A r \in DOMAIN runs : DOMAIN runs[r] = RunFields /\ runs[r].resumed \in 0..(r - 1)
      BY DEF ScanTypes
    <3>. QED
      BY <1>6, <1>7, <1>8, <3>1, <3>2
  <2>2. DOMAIN held' = Sc!Run /\ \A r \in Sc!Run : DOMAIN held'[r] = Path
    BY <1>0, <1>2 DEF ScanTypes
  <2>3. runs' \in Seq(Rows(runs')) /\ Len(runs') <= MaxRuns
    BY <1>0, <1>7
  <2>4. Rows(runs)' = Rows(runs')
    BY DEF Rows
  <2>. QED
    BY <1>2, <1>13, <2>1, <2>2, <2>3, <2>4 DEF ScanTypes
<1>17. ClaimsHold'
  <2>1. \A w \in Sc!Walker : inserted'[w] \subseteq inserted[w]
    BY <1>2
  <2>2. edits' \in Nat /\ edits <= edits'
    BY <1>2, InventoryAssumption DEF ScanTypes, Sc!ScanAssumption
  <2>3. DOMAIN runs \subseteq DOMAIN runs'
    BY <1>0, <1>7
  <2>4. \A r \in DOMAIN runs : \A p \in Path : held[r][p] \subseteq held'[r][p]
    BY <1>0, <1>15
  <2>. QED
    BY <1>2, <2>1, <2>2, <2>3, <2>4, ClaimsStand
<1>18. HeldNow'
  <2>1. \A r \in Sc!Run : Sc!UnderWay(r)' /\ r # n => Sc!UnderWay(r)
    <3>1. \A w \in Sc!Walker : Sc!Live(w)' /\ w[1] # n => Sc!Live(w)
      BY <1>12 DEF Sc!Live, Sc!Walked, Sc!Exhausted
    <3>. QED
      BY <3>1 DEF Sc!UnderWay, Sc!Walker
  <2>2. ASSUME NEW r \in Sc!Run, Sc!UnderWay(r)', NEW p \in Path PROVE Sc!At(p)' \in held'[r][p]
    <3>1. Sc!At(p)' = Sc!At(p)
      BY <1>2 DEF Sc!At
    <3>2. CASE r = n
      <4>1. held'[n] = [q \in Path |-> {Sc!At(q)}]
        BY <1>0, <1>2 DEF ScanTypes
      <4>. QED
        BY <3>1, <3>2, <4>1
    <3>3. CASE r # n
      BY <1>15, <2>1, <2>2, <3>1, <3>3 DEF HeldNow
    <3>. QED
      BY <3>2, <3>3
  <2>3. ASSUME NEW w \in Sc!Walker, walk'[w].step = "walk", walk'[w].stat # NoFile
        PROVE  \E f \in stamps[walk'[w].stat.path] :
                 /\ f.mtime = walk'[w].stat.mtime /\ SizeOf[f.data] = walk'[w].stat.size
                 /\ f.data \in held'[w[1]][walk'[w].stat.path]
    <3>1. walk'[w] = walk[w]
      BY <1>12, <2>3
    <3>2. w[1] # n /\ w[1] \in Sc!Run
      BY <1>14, <2>3, <3>1 DEF Sc!Walker
    <3>. QED
      BY <1>15, <2>3, <3>1, <3>2 DEF HeldNow
  <2>. QED
    BY <1>2, <2>2, <2>3 DEF HeldNow
<1>19. WalkersHold'
  <2>1. \A v \in Sc!Walker : walk'[v].step # "off" => v[1] \in DOMAIN runs' /\ v[2] \in Sc!Subtree' \cup {Root}
    <3>1. DOMAIN runs \subseteq DOMAIN runs' /\ n \in DOMAIN runs'
      BY <1>0, <1>1, <1>7
    <3>. QED
      BY <1>9, <1>12, <3>1 DEF WalkersHold
  <2>2. ASSUME NEW v \in Sc!Walker, inserted'[v] # {} PROVE walk'[v].step = "walk" /\ walk'[v].fresh > 0
    <3>1. inserted[v] # {} /\ v[1] # n
      BY <1>2, <1>14, <2>2
    <3>2. walk'[v] = walk[v]
      BY <1>12, <3>1
    <3>. QED
      BY <3>1, <3>2 DEF WalkersHold
  <2>3. \A v \in Sc!Walker : v[2] # Root => walk'[v].step # "wait"
    BY <1>11, <1>12 DEF WalkersHold
  <2>4. ASSUME NEW q \in Sc!Run, walk'[Sc!Main(q)].step \in {"walk", "done"}, NEW d \in Dir \ {Root} PROVE Quiet(<<q, d>>)'
    <3>0. PICK v : v = <<q, d>>
      OBVIOUS
    <3>1. v \in Sc!Walker /\ v[1] = q /\ v[2] = d /\ v # m /\ Sc!Main(q) \in Sc!Walker /\ Sc!Main(q)[1] = q
      BY <1>9, <1>11, <2>4, <3>0 DEF Sc!Walker, Sc!Main
    <3>2. CASE q = n
      <4>1. walk'[m].step # "wait"
        BY <1>10, <2>4, <3>2
      <4>2. alone
        BY <1>11, <1>12, <4>1
      <4>3. walk'[v] = walk[v]
        BY <1>12, <3>1, <4>2
      <4>4. walk[v].step = "off"
        BY <1>14, <3>1, <3>2
      <4>5. Quiet(v)'
        BY <4>3, <4>4 DEF Quiet
      <4>. QED
        BY <3>0, <4>5
    <3>3. CASE q # n
      <4>1. walk'[Sc!Main(q)] = walk[Sc!Main(q)]
        BY <1>12, <3>1, <3>3
      <4>2. Quiet(<<q, d>>)
        BY <2>4, <4>1 DEF WalkersHold
      <4>3. walk'[v] = walk[v]
        BY <1>12, <3>1, <3>3
      <4>4. Quiet(v)'
        BY <3>0, <4>2, <4>3 DEF Quiet, Sc!Walked, Sc!Exhausted
      <4>. QED
        BY <3>0, <4>4
    <3>. QED
      BY <3>2, <3>3
  <2>5. ASSUME NEW q \in DOMAIN runs', runs'[q].finished PROVE walk'[Sc!Main(q)].step = "done"
    <3>1. q # n /\ q \in DOMAIN runs /\ runs[q].finished
      BY <1>0, <1>1, <1>7, <1>8, <2>5
    <3>2. q \in Sc!Run /\ walk[Sc!Main(q)].step = "done"
      BY <1>0, <3>1 DEF WalkersHold
    <3>3. Sc!Main(q) \in Sc!Walker /\ Sc!Main(q)[1] = q
      BY <1>9, <3>2 DEF Sc!Walker, Sc!Main
    <3>. QED
      BY <1>12, <3>1, <3>2, <3>3
  <2>. QED
    BY <2>1, <2>2, <2>3, <2>4, <2>5 DEF WalkersHold, Sc!Main
<1>. QED
  BY <1>16, <1>17, <1>18, <1>19

(* Another program writes or deletes a file: its content is new, so a claim   *)
(* that was torn stays so, and the runs under way take note.                  *)
LEMMA PutsKeeps ==
  ASSUME ScanInv, NEW p \in Path, NEW f,
         f = NoFile \/ (\E m \in 0..clock : f = [data |-> edits + 1, mtime |-> m]),
         Sc!Puts(p, f)
  PROVE  ScanInv'
<1>. USE DEF ScanInv
<1>1. /\ UNCHANGED <<clock, start, runs, claims, inserted, walk>> /\ edits' = edits + 1 /\ edits < start.edits
      /\ file' = [file EXCEPT ![p] = f] /\ stamps' = [stamps EXCEPT ![p] = @ \cup ({f} \ {NoFile})]
  BY DEF Sc!Puts
<1>2. edits \in Nat /\ edits' \in Nat /\ edits <= edits' /\ edits' \in 0..start.edits /\ edits' \in Sc!Content
  <2>1. start.edits \in Nat /\ start.edits <= MaxEdits /\ MaxEdits \in Nat
    BY InventoryAssumption DEF ScanTypes, Sc!ScanAssumption
  <2>2. edits \in 0..start.edits
    BY DEF ScanTypes
  <2>. QED
    BY <1>1, <2>1, <2>2 DEF Sc!Content
<1>3. f = NoFile \/ (f \in Sc!File /\ f.data = edits')
  <2>1. clock \in 0..MaxClock /\ MaxClock \in Nat
    BY InventoryAssumption DEF ScanTypes, Sc!ScanAssumption
  <2>2. ASSUME NEW m \in 0..clock, f = [data |-> edits + 1, mtime |-> m] PROVE f \in Sc!File /\ f.data = edits'
    <3>1. m \in 0..MaxClock
      BY <2>1
    <3>. QED
      BY <1>1, <1>2, <2>2, <3>1 DEF Sc!File
  <2>. QED
    BY <2>2
<1>4. file' \in [Path -> Sc!File \cup {NoFile}] /\ file'[p] = f /\ \A q \in Path : q # p => file'[q] = file[q]
  BY <1>1, <1>3 DEF ScanTypes
<1>5. /\ stamps' \in [Path -> SUBSET Sc!File] /\ stamps'[p] = stamps[p] \cup ({f} \ {NoFile})
      /\ \A q \in Path : q # p => stamps'[q] = stamps[q]
  BY <1>1, <1>3 DEF ScanTypes
<1>6. PICK x : x = IF f = NoFile THEN NoFile ELSE f.data
  OBVIOUS
<1>7. held' = [r \in Sc!Run |-> IF Sc!UnderWay(r) THEN [held[r] EXCEPT ![p] = @ \cup {x}] ELSE held[r]]
  BY <1>6 DEF Sc!Puts
<1>8. ASSUME NEW r \in Sc!Run
      PROVE  /\ DOMAIN held'[r] = Path /\ \A q \in Path : held[r][q] \subseteq held'[r][q]
             /\ Sc!UnderWay(r) => x \in held'[r][p]
  <2>1. DOMAIN held[r] = Path
    BY DEF ScanTypes
  <2>2. CASE Sc!UnderWay(r)
    <3>1. held'[r] = [held[r] EXCEPT ![p] = @ \cup {x}]
      BY <1>7, <2>2
    <3>. QED
      BY <2>1, <3>1
  <2>3. CASE ~Sc!UnderWay(r)
    BY <1>7, <2>1, <2>3
  <2>. QED
    BY <2>2, <2>3
<1>9. ScanTypes'
  <2>1. \A q \in Path : (file'[q] # NoFile => file'[q] \in stamps'[q]) /\ \A g \in stamps'[q] : g.data <= edits'
    <3>1. \A q \in Path : (file[q] # NoFile => file[q] \in stamps[q]) /\ \A g \in stamps[q] : g.data <= edits /\ g.data \in Nat
      <4>1. \A q \in Path : stamps[q] \subseteq Sc!File
        BY DEF ScanTypes
      <4>2. \A g \in Sc!File : g.data \in Nat
        BY InventoryAssumption DEF Sc!File, Sc!Content, Sc!ScanAssumption
      <4>. QED
        BY <4>1, <4>2 DEF ScanTypes
    <3>2. \A q \in Path : \A g \in stamps'[q] : g \in stamps[q] \/ g.data = edits'
      BY <1>3, <1>5
    <3>3. \A q \in Path : \A g \in stamps'[q] : g.data <= edits'
      BY <1>2, <3>1, <3>2
    <3>4. \A q \in Path : file'[q] # NoFile => file'[q] \in stamps'[q]
      BY <1>4, <1>5, <3>1
    <3>. QED
      BY <3>3, <3>4
  <2>2. DOMAIN held' = Sc!Run /\ \A r \in Sc!Run : DOMAIN held'[r] = Path
    BY <1>7, <1>8
  <2>. QED
    BY <1>1, <1>2, <1>4, <1>5, <2>1, <2>2 DEF ScanTypes
<1>10. ClaimsHold'
  <2>1. \A w \in Sc!Walker : inserted'[w] \subseteq inserted[w]
    BY <1>1
  <2>2. DOMAIN runs \subseteq DOMAIN runs'
    BY <1>1
  <2>3. \A r \in DOMAIN runs : \A q \in Path : held[r][q] \subseteq held'[r][q]
    BY <1>8, RunsNumbered
  <2>4. edits' > edits
    BY <1>1, <1>2
  <2>5. \A q \in Path : stamps[q] \subseteq stamps'[q] /\ \A g \in stamps'[q] : g \in stamps[q] \/ g.data > edits
    BY <1>3, <1>5, <2>4
  <2>. QED
    BY <1>1, <1>2, <2>1, <2>2, <2>3, <2>5, ClaimsStand
<1>11. HeldNow'
  <2>1. \A r \in Sc!Run : Sc!UnderWay(r)' <=> Sc!UnderWay(r)
    BY <1>1 DEF Sc!UnderWay, Sc!Live, Sc!Walked, Sc!Exhausted
  <2>2. ASSUME NEW r \in Sc!Run, Sc!UnderWay(r)', NEW q \in Path PROVE Sc!At(q)' \in held'[r][q]
    <3>1. CASE q = p
      BY <1>4, <1>6, <1>8, <2>1, <2>2, <3>1 DEF Sc!At
    <3>2. CASE q # p
      <4>1. Sc!At(q)' = Sc!At(q)
        BY <1>4, <3>2 DEF Sc!At
      <4>. QED
        BY <1>8, <2>1, <2>2, <4>1 DEF HeldNow
    <3>. QED
      BY <3>1, <3>2
  <2>3. ASSUME NEW w \in Sc!Walker, walk'[w].step = "walk", walk'[w].stat # NoFile
        PROVE  \E g \in stamps'[walk'[w].stat.path] :
                 /\ g.mtime = walk'[w].stat.mtime /\ SizeOf[g.data] = walk'[w].stat.size
                 /\ g.data \in held'[w[1]][walk'[w].stat.path]
    <3>1. PICK s : s = walk[w].stat
      OBVIOUS
    <3>2. s = walk'[w].stat /\ walk[w].step = "walk" /\ s # NoFile
      BY <1>1, <2>3, <3>1
    <3>3. s.path \in Path /\ w[1] \in Sc!Run
      <4>1. walk[w] \in Sc!Walk
        BY DEF ScanTypes
      <4>2. s \in Sc!Stat
        BY <3>1, <3>2, <4>1, WalkerFields
      <4>. QED
        BY <4>2 DEF Sc!Walker, Sc!Stat
    <3>4. PICK g \in stamps[s.path] : g.mtime = s.mtime /\ SizeOf[g.data] = s.size /\ g.data \in held[w[1]][s.path]
      BY <3>1, <3>2 DEF HeldNow
    <3>5. g \in stamps'[s.path] /\ g.data \in held'[w[1]][s.path]
      BY <1>5, <1>8, <3>3, <3>4
    <3>. QED
      BY <3>2, <3>4, <3>5
  <2>. QED
    BY <2>2, <2>3 DEF HeldNow
<1>12. WalkersHold'
  BY <1>1 DEF WalkersHold, Quiet, Sc!Walked, Sc!Exhausted, Sc!Subtree, Sc!Main
<1>. QED
  BY <1>9, <1>10, <1>11, <1>12

(* A second passes, or nothing happens. *)
LEMMA NothingKeeps ==
  ASSUME ScanInv, UNCHANGED <<file, start, runs, claims, inserted, walk, edits, stamps, held>>, clock' \in 0..MaxClock
  PROVE  ScanInv'
<1>1. ScanTypes'
  BY DEF ScanInv, ScanTypes, Rows
<1>2. ClaimsHold'
  BY DEF ScanInv, ClaimsHold, ClaimHolds, WasThere, Sc!Ambiguous, Sc!Torn
<1>3. HeldNow'
  BY DEF ScanInv, HeldNow, Sc!UnderWay, Sc!Live, Sc!Walked, Sc!Exhausted, Sc!At
<1>4. WalkersHold'
  BY DEF ScanInv, WalkersHold, Quiet, Sc!Walked, Sc!Exhausted, Sc!Subtree, Sc!Main
<1>. QED
  BY <1>1, <1>2, <1>3, <1>4 DEF ScanInv

LEMMA ScanInvNext == ScanInv /\ [Sc!Next]_Sc!vars => ScanInv'
<1>. SUFFICES ASSUME ScanInv, [Sc!Next]_Sc!vars PROVE ScanInv'
  OBVIOUS
<1>1. ASSUME NEW D \in SUBSET Sc!Subtree, NEW c \in BOOLEAN, Sc!StartScan(D, c) PROVE ScanInv'
  BY <1>1, StartKeeps
<1>2. ASSUME NEW w \in Sc!Walker, Sc!WalkerStep(w) PROVE ScanInv'
  <2>1. CASE Sc!LockTimeout(w)
    <3>1. PICK W : W = {w}
      OBVIOUS
    <3>2. Sc!Fails(W)
      BY <2>1, <3>1 DEF Sc!LockTimeout
    <3>. QED
      BY <3>2, FailsKeeps
  <2>2. CASE \/ Sc!ListDir(w) \/ Sc!PassDir(w) \/ Sc!StatFile(w) \/ Sc!PassFile(w) \/ Sc!ReuseClaim(w)
             \/ Sc!FastHash(w) \/ Sc!ArchiveHash(w) \/ Sc!ReadError(w) \/ Sc!CommitBatch(w) \/ Sc!BumpTimeout(w)
    BY <2>2, WalkerStepKeeps
  <2>. QED
    BY <1>2, <2>1, <2>2 DEF Sc!WalkerStep
<1>3. ASSUME NEW r \in Sc!Run, Sc!Gather(r) PROVE ScanInv'
  BY <1>3, GatherKeeps
<1>4. ASSUME NEW r \in Sc!Run, Sc!CloseRun(r) PROVE ScanInv'
  BY <1>4, CloseKeeps
<1>5. ASSUME NEW r \in Sc!Run, Sc!Kill(r) PROVE ScanInv'
  <2>1. PICK W : Sc!Fails(W)
    BY <1>5 DEF Sc!Kill
  <2>. QED
    BY <2>1, FailsKeeps
<1>6. ASSUME NEW p \in Busy, Sc!WriteFile(p) \/ Sc!DeleteFile(p) PROVE ScanInv'
  <2>0. p \in Path
    BY InventoryAssumption DEF Sc!ScanAssumption
  <2>1. PICK f : (f = NoFile \/ \E m \in 0..clock : f = [data |-> edits + 1, mtime |-> m]) /\ Sc!Puts(p, f)
    BY <1>6 DEF Sc!WriteFile, Sc!DeleteFile
  <2>. QED
    BY <2>0, <2>1, PutsKeeps
<1>7. CASE Sc!Tick
  <2>1. clock' \in 0..MaxClock
    <3>1. clock \in 0..MaxClock /\ MaxClock \in Nat
      BY InventoryAssumption DEF ScanInv, ScanTypes, Sc!ScanAssumption
    <3>. QED
      BY <1>7, <3>1 DEF Sc!Tick
  <2>2. UNCHANGED <<file, start, runs, claims, inserted, walk, edits, stamps, held>>
    BY <1>7 DEF Sc!Tick, Sc!history
  <2>. QED
    BY <2>1, <2>2, NothingKeeps
<1>8. CASE UNCHANGED Sc!vars
  <2>1. clock' \in 0..MaxClock
    BY <1>8 DEF Sc!vars, ScanInv, ScanTypes
  <2>. QED
    BY <1>8, <2>1, NothingKeeps DEF Sc!vars
<1>. QED
  BY <1>1, <1>2, <1>3, <1>4, <1>5, <1>6, <1>7, <1>8 DEF Sc!Next

(* Every claim of a scan, hashed or reused over any number of resumed runs,   *)
(* names a content its path had while its run was under way, but for the two  *)
(* excuses of ClaimsWereThere.                                                *)
THEOREM ClaimsAreOfTheFiles == InventorySpec => []ClaimsWereThere
<1>1. ScanInv => ClaimsWereThere
  BY DEF ScanInv, ClaimsHold, ClaimHolds, WasThere, ClaimsWereThere, Sc!ClaimsWereThere
<1>2. Sc!Spec => []ScanInv
  BY ScanInvInit, ScanInvNext, PTL DEF Sc!Spec
<1>. QED
  BY <1>1, <1>2, EachAlone, PTL

(* What FinishedFrozen says of a step and a run. *)
Frozen(r) == runs[r].finished => runs'[r] = runs[r] /\ Sc!ClaimsOf(r)' = Sc!ClaimsOf(r)

(* No step touches a finished run: its command is done and its workers are    *)
(* quiet.                                                                     *)
LEMMA FinishedStay ==
  ASSUME ScanInv, [Sc!Next]_Sc!vars, NEW r \in DOMAIN runs
  PROVE  Frozen(r)
<1>. SUFFICES ASSUME runs[r].finished PROVE runs'[r] = runs[r] /\ Sc!ClaimsOf(r)' = Sc!ClaimsOf(r)
  BY DEF Frozen
<1>0. Root \in Dir /\ r \in Sc!Run /\ Sc!Main(r) = <<r, Root>> /\ walk[Sc!Main(r)].step = "done"
  <2>1. Root \in Dir /\ r \in Sc!Run
    BY RunsNumbered, InventoryAssumption DEF Sc!ScanAssumption
  <2>2. walk[Sc!Main(r)].step = "done"
    BY DEF ScanInv, WalkersHold
  <2>. QED
    BY <2>1, <2>2 DEF Sc!Main
<1>1. ASSUME claims' = claims, runs' = runs PROVE runs'[r] = runs[r] /\ Sc!ClaimsOf(r)' = Sc!ClaimsOf(r)
  BY <1>1 DEF Sc!ClaimsOf
<1>2. ASSUME NEW w \in Sc!Walker, Sc!CommitBatch(w) PROVE runs'[r] = runs[r] /\ Sc!ClaimsOf(r)' = Sc!ClaimsOf(r)
  <2>1. w = <<w[1], w[2]>> /\ w[2] \in Dir /\ walk[w].step = "walk" /\ walk[w].fresh > 0
    BY <1>2 DEF Sc!Walker, Sc!CommitBatch
  <2>2. w[1] # r
    <3>1. SUFFICES ASSUME w[1] = r PROVE FALSE
      OBVIOUS
    <3>2. w[2] # Root
      BY <1>0, <2>1, <3>1
    <3>3. Quiet(<<r, w[2]>>)
      BY <1>0, <2>1, <3>2 DEF ScanInv, WalkersHold
    <3>4. Quiet(w)
      BY <2>1, <3>1, <3>3
    <3>5. walk[w].fresh = 0
      BY <2>1, <3>4 DEF Quiet, Sc!Walked
    <3>. QED
      BY <2>1, <3>5
  <2>3. runs'[r] = runs[r]
    BY <1>2, <2>2 DEF Sc!CommitBatch
  <2>4. \A c \in inserted[w] : c.run # r
    BY <2>2 DEF ScanInv, ClaimsHold
  <2>5. claims' = claims \cup inserted[w]
    BY <1>2 DEF Sc!CommitBatch
  <2>. QED
    BY <2>3, <2>4, <2>5 DEF Sc!ClaimsOf
<1>3. ASSUME NEW q \in Sc!Run, Sc!CloseRun(q) PROVE runs'[r] = runs[r] /\ Sc!ClaimsOf(r)' = Sc!ClaimsOf(r)
  <2>1. q # r
    BY <1>0, <1>3 DEF Sc!CloseRun, Sc!Walked
  <2>2. runs'[r] = runs[r] /\ claims' = claims
    BY <1>3, <2>1 DEF Sc!CloseRun
  <2>. QED
    BY <2>2 DEF Sc!ClaimsOf
<1>4. ASSUME NEW D \in SUBSET Sc!Subtree, NEW c \in BOOLEAN, Sc!StartScan(D, c) PROVE runs'[r] = runs[r] /\ Sc!ClaimsOf(r)' = Sc!ClaimsOf(r)
  <2>1. PICK x : runs' = Append(runs, x) /\ claims' = claims
    BY <1>4 DEF Sc!StartScan
  <2>2. PICK S : S = Rows(runs) \cup {x}
    OBVIOUS
  <2>3. runs \in Seq(S) /\ x \in S
    BY <2>2 DEF ScanInv, ScanTypes
  <2>4. r \in 1..Len(runs)
    BY RunsNumbered
  <2>5. runs'[r] = runs[r]
    BY <2>1, <2>3, <2>4
  <2>. QED
    BY <2>1, <2>5 DEF Sc!ClaimsOf
<1>5. ASSUME NEW w \in Sc!Walker, Sc!WalkerStep(w), ~Sc!CommitBatch(w) PROVE claims' = claims /\ runs' = runs
  BY <1>5 DEF Sc!WalkerStep, Sc!ListDir, Sc!PassDir, Sc!StatFile, Sc!PassFile, Sc!ReuseClaim, Sc!FastHash, Sc!ArchiveHash,
              Sc!Vanished, Sc!Insert, Sc!ReadError, Sc!BumpTimeout, Sc!LockTimeout, Sc!Fails
<1>6. ASSUME NEW q \in Sc!Run, Sc!Gather(q) \/ Sc!Kill(q) PROVE claims' = claims /\ runs' = runs
  BY <1>6 DEF Sc!Gather, Sc!Kill, Sc!Fails
<1>7. ASSUME NEW p \in Busy, Sc!WriteFile(p) \/ Sc!DeleteFile(p) PROVE claims' = claims /\ runs' = runs
  BY <1>7 DEF Sc!WriteFile, Sc!DeleteFile, Sc!Puts
<1>8. CASE Sc!Tick \/ UNCHANGED Sc!vars
  BY <1>1, <1>8 DEF Sc!Tick, Sc!vars
<1>. QED
  BY <1>1, <1>2, <1>3, <1>4, <1>5, <1>6, <1>7, <1>8 DEF Sc!Next

(* Once a run is finished, and so a base to resume from, no process adds a    *)
(* claim to it or changes its row, killed commands and workers that outlive   *)
(* them included.                                                             *)
THEOREM FinishedRunsStay == InventorySpec => FinishedFrozen
<1>1. ScanInv /\ [Sc!Next]_Sc!vars =>
        [\A r \in DOMAIN runs : runs[r].finished => runs'[r] = runs[r] /\ Sc!ClaimsOf(r)' = Sc!ClaimsOf(r)]_Sc!vars
  BY FinishedStay DEF Frozen
<1>2. Sc!Spec => []ScanInv
  BY ScanInvInit, ScanInvNext, PTL DEF Sc!Spec
<1>3. Sc!Spec => Sc!FinishedFrozen
  BY <1>1, <1>2, PTL DEF Sc!Spec, Sc!FinishedFrozen
<1>. QED
  BY <1>3, EachAlone, PTL DEF FinishedFrozen

-----------------------------------------------------------------------------
(* Scan: a finished run accounts for what lay below its root. *)

(* What a walker has still to list and to process.  A command that waits has  *)
(* the loose files before it.                                                 *)
DirsLeft(w) == IF walk[w].step = "wait" THEN {Root} ELSE walk[w].dirs
FilesLeft(w) == walk[w].todo \cup (IF walk[w].stat = NoFile THEN {} ELSE {walk[w].stat.path})
Due(w, p) == DirOf[p] \in DirsLeft(w) \/ p \in FilesLeft(w)

(* The claims of a run, committed or pending; the paths that lay untouched    *)
(* and are neither due nor claimed nor passed over; and whether a walker gave *)
(* up.                                                                        *)
Found(r) == {c \in Sc!Claim : c.run = r /\ (c \in claims \/ \E d \in Dir : c \in inserted[<<r, d>>])}
Missed(r) ==
  {p \in Path : /\ p \notin passed[r] /\ \E c \in Sc!Content : held[r][p] = {c}
                /\ \A d \in Dir : ~Due(<<r, d>>, p)
                /\ \A c \in Found(r) : c.path # p}
GaveUp(r) == \E d \in Dir : walk[<<r, d>>].step = "failed"

(* A walker that has no part, waits or is done has nothing in its hands.      *)
Orderly(w) ==
  /\ walk[w].step = "off" => walk[w] = Sc!Off
  /\ walk[w].step = "wait" => walk[w] = [Sc!Off EXCEPT !.step = "wait"]
  /\ walk[w].step = "done" => Sc!Exhausted(w)

(* A path is due once, with one walker of a run, and is not claimed before.   *)
DueOnce ==
  /\ \A w \in Sc!Walker : walk[w].stat # NoFile => walk[w].stat.path \notin walk[w].todo
  /\ \A w \in Sc!Walker : \A p \in FilesLeft(w) : DirOf[p] \notin DirsLeft(w)
  /\ \A r \in Sc!Run : \A d, e \in Dir : \A p \in Path : Due(<<r, d>>, p) /\ Due(<<r, e>>, p) => d = e
  /\ \A r \in Sc!Run : \A d \in Dir : \A c \in Found(r) : ~Due(<<r, d>>, c.path)

(* Unless a walker gave up, every file that was walked is a claim or an       *)
(* error, and no more files were missed than there are errors.                *)
Balanced(r) ==
  /\ IsFiniteSet(Found(r)) /\ IsFiniteSet(Missed(r))
  /\ IsFiniteSet(Sc!Counts(r, "walked")) /\ IsFiniteSet(Sc!Counts(r, "errors"))
  /\ Sc!Total(r, "walked") = Cardinality(Found(r)) + Sc!Total(r, "errors")
  /\ Cardinality(Missed(r)) <= Sc!Total(r, "errors")

(* Files lie in directories the scans find; a run has seen every path; the    *)
(* workers have not failed when the command walks itself.                     *)
ScanGround ==
  /\ \A p \in Path : file[p] # NoFile => DirOf[p] \in Sc!Subtree \cup {Root}
  /\ \A r \in DOMAIN runs : \A p \in Path : held[r][p] # {}
  /\ DOMAIN passed = Sc!Run
  /\ \A w \in Sc!Walker : Orderly(w)
  /\ \A r \in Sc!Run : walk[Sc!Main(r)].step \in {"walk", "done"} =>
       \A d \in Dir \ {Root} : walk[<<r, d>>].step # "failed"
(* What was passed over stays so. *)
PassedGrow == DOMAIN passed' = Sc!Run /\ \A r \in Sc!Run : passed[r] \subseteq passed'[r]
Totalled(r) == runs[r].walked = Sc!Total(r, "walked") /\ runs[r].errors = Sc!Total(r, "errors")
CoverInv ==
  /\ ScanGround /\ DueOnce
  /\ \A r \in DOMAIN runs : runs[r].finished => Totalled(r)
  /\ \A r \in DOMAIN runs : GaveUp(r) \/ Balanced(r)

(* One more. *)
Grows(S, T) == \E z : z \notin S /\ T = S \cup {z}
LEMMA GrowsByOne ==
  ASSUME NEW S, NEW T, IsFiniteSet(S), Grows(S, T)
  PROVE  IsFiniteSet(T) /\ Cardinality(S) \in Nat /\ Cardinality(T) = Cardinality(S) + 1
<1>1. PICK z : z \notin S /\ T = S \cup {z}
  BY DEF Grows
<1>. QED
  BY <1>1, FS_AddElement, FS_CardinalityType

LEMMA OneMoreAtMost ==
  ASSUME NEW S, NEW x, IsFiniteSet(S)
  PROVE  /\ IsFiniteSet(S \cup {x}) /\ Cardinality(S) \in Nat
         /\ Cardinality(S \cup {x}) \in Nat /\ Cardinality(S \cup {x}) <= Cardinality(S) + 1
<1>1. IsFiniteSet(S \cup {x}) /\ Cardinality(S \cup {x}) = IF x \in S THEN Cardinality(S) ELSE Cardinality(S) + 1
  BY FS_AddElement
<1>2. Cardinality(S) \in Nat
  BY FS_CardinalityType
<1>. QED
  BY <1>1, <1>2
LEMMA TotalIsCardinality == \A r, field : Sc!Total(r, field) = Cardinality(Sc!Counts(r, field))
BY DEF Sc!Total, Sc!Cardinality, Cardinality

(* A walker that counts a file counts one more for its run. *)
LEMMA CountsGrow ==
  ASSUME walk \in [Sc!Walker -> Sc!Walk], NEW w \in Sc!Walker, NEW y \in Sc!Walk, Moves(w, y),
         NEW r \in Sc!Run, NEW field \in {"walked", "errors"}
  PROVE  /\ w[1] # r \/ y[field] = walk[w][field] => Sc!Counts(r, field)' = Sc!Counts(r, field)
         /\ w[1] = r /\ y[field] = walk[w][field] + 1 => Grows(Sc!Counts(r, field), Sc!Counts(r, field)')
<1>1. walk' \in [Sc!Walker -> Sc!Walk] /\ walk'[w] = y /\ \A v \in Sc!Walker : v # w => walk'[v] = walk[v]
  BY DEF Moves
<1>2. /\ \A d \in Dir : <<r, d>> \in Sc!Walker
      /\ w = <<w[1], w[2]>> /\ w[2] \in Dir
  BY DEF Sc!Walker
<1>3. \A x \in Sc!Walk : x[field] \in Nat
  BY DEF Sc!Walk
<1>4. ASSUME w[1] # r \/ y[field] = walk[w][field] PROVE Sc!Counts(r, field)' = Sc!Counts(r, field)
  <2>1. \A d \in Dir : walk'[<<r, d>>][field] = walk[<<r, d>>][field]
    BY <1>1, <1>2, <1>4
  <2>. QED
    BY <2>1 DEF Sc!Counts
<1>5. ASSUME w[1] = r, y[field] = walk[w][field] + 1 PROVE Grows(Sc!Counts(r, field), Sc!Counts(r, field)')
  <2>1. PICK k \in Nat : k = walk[w][field]
    BY <1>3
  <2>2. PICK e \in Dir : w = <<r, e>>
    BY <1>2, <1>5
  <2>3. walk[<<r, e>>][field] = k /\ walk'[<<r, e>>][field] = k + 1
    BY <1>1, <1>5, <2>1, <2>2
  <2>4. \A d \in Dir \ {e} : walk'[<<r, d>>][field] = walk[<<r, d>>][field]
    BY <1>1, <1>2, <2>2
  <2>5. PICK z : z = <<e, k + 1>>
    OBVIOUS
  <2>6. z \notin Sc!Counts(r, field)
    <3>1. SUFFICES ASSUME z \in Sc!Counts(r, field) PROVE FALSE
      OBVIOUS
    <3>2. PICK d \in Dir : z \in {d} \X (1..walk[<<r, d>>][field])
      BY <3>1 DEF Sc!Counts
    <3>3. d = e /\ k + 1 \in 1..walk[<<r, d>>][field]
      BY <2>5, <3>2
    <3>. QED
      BY <2>1, <2>3, <3>3
  <2>7. 1..(k + 1) = (1..k) \cup {k + 1}
    BY <2>1
  <2>8. {e} \X (1..(k + 1)) = ({e} \X (1..k)) \cup {z}
    BY <2>5, <2>7
  <2>9. Sc!Counts(r, field)' = Sc!Counts(r, field) \cup {z}
    <3>1. \A d \in Dir \ {e} : {d} \X (1..walk'[<<r, d>>][field]) = {d} \X (1..walk[<<r, d>>][field])
      BY <2>4
    <3>2. {e} \X (1..walk'[<<r, e>>][field]) = ({e} \X (1..walk[<<r, e>>][field])) \cup {z}
      BY <2>3, <2>8
    <3>3. PICK A, B : /\ A = [d \in Dir |-> {d} \X (1..walk'[<<r, d>>][field])]
                      /\ B = [d \in Dir |-> {d} \X (1..walk[<<r, d>>][field])]
      OBVIOUS
    <3>4. /\ Sc!Counts(r, field)' = UNION {A[d] : d \in Dir} /\ Sc!Counts(r, field) = UNION {B[d] : d \in Dir}
      BY <3>3 DEF Sc!Counts
    <3>5. A[e] = B[e] \cup {z} /\ \A d \in Dir \ {e} : A[d] = B[d]
      BY <3>1, <3>2, <3>3
    <3>6. (UNION {A[d] : d \in Dir}) = (UNION {B[d] : d \in Dir}) \cup {z}
      <4>1. \A t : (\E d \in Dir : t \in A[d]) <=> (\E d \in Dir : t \in B[d]) \/ t = z
        BY <3>5
      <4>. QED
        BY <4>1
    <3>. QED
      BY <3>4, <3>6
  <2>. QED
    BY <2>6, <2>9 DEF Grows
<1>. QED
  BY <1>4, <1>5

LEMMA CountsStay ==
  ASSUME NEW r, NEW field, \A d \in Dir : walk'[<<r, d>>][field] = walk[<<r, d>>][field]
  PROVE  Sc!Counts(r, field)' = Sc!Counts(r, field)
<1>1. \A d \in Dir : {d} \X (1..walk'[<<r, d>>][field]) = {d} \X (1..walk[<<r, d>>][field])
  OBVIOUS
<1>. QED
  BY <1>1 DEF Sc!Counts
LEMMA TotalStays ==
  ASSUME NEW r, NEW field, Sc!Counts(r, field)' = Sc!Counts(r, field)
  PROVE  Sc!Total(r, field)' = Sc!Total(r, field)
BY DEF Sc!Total, Sc!Cardinality

(* A run stays balanced by a step that counts nothing, a claim or an error.   *)
LEMMA BalanceStays ==
  ASSUME NEW r, Balanced(r),
         \/ /\ Found(r)' = Found(r) /\ Missed(r)' \subseteq Missed(r)
            /\ Sc!Counts(r, "walked")' = Sc!Counts(r, "walked") /\ Sc!Counts(r, "errors")' = Sc!Counts(r, "errors")
         \/ /\ Grows(Found(r), Found(r)') /\ Missed(r)' \subseteq Missed(r)
            /\ Grows(Sc!Counts(r, "walked"), Sc!Counts(r, "walked")')
            /\ Sc!Counts(r, "errors")' = Sc!Counts(r, "errors")
         \/ /\ Found(r)' = Found(r) /\ \E p : Missed(r)' \subseteq Missed(r) \cup {p}
            /\ Grows(Sc!Counts(r, "walked"), Sc!Counts(r, "walked")')
            /\ Grows(Sc!Counts(r, "errors"), Sc!Counts(r, "errors")')
  PROVE  Balanced(r)'
<1>. DEFINE F == Found(r)
            M == Missed(r)
            W == Sc!Counts(r, "walked")
            E == Sc!Counts(r, "errors")
<1>1. /\ IsFiniteSet(F) /\ IsFiniteSet(M) /\ IsFiniteSet(W) /\ IsFiniteSet(E)
      /\ Cardinality(W) = Cardinality(F) + Cardinality(E) /\ Cardinality(M) <= Cardinality(E)
  BY TotalIsCardinality DEF Balanced
<1>2. \/ F' = F /\ M' \subseteq M /\ W' = W /\ E' = E
      \/ Grows(F, F') /\ M' \subseteq M /\ Grows(W, W') /\ E' = E
      \/ F' = F /\ (\E p : M' \subseteq M \cup {p}) /\ Grows(W, W') /\ Grows(E, E')
  OBVIOUS
<1>3. Balanced(r)' <=>
        /\ IsFiniteSet(F') /\ IsFiniteSet(M') /\ IsFiniteSet(W') /\ IsFiniteSet(E')
        /\ Cardinality(W') = Cardinality(F') + Cardinality(E') /\ Cardinality(M') <= Cardinality(E')
  <2>1. Sc!Total(r, "walked")' = Cardinality(W') /\ Sc!Total(r, "errors")' = Cardinality(E')
    BY DEF Sc!Total, Sc!Cardinality, Cardinality
  <2>. QED
    BY <2>1 DEF Balanced
<1>. HIDE DEF F, M, W, E
<1>4. Cardinality(F) \in Nat /\ Cardinality(M) \in Nat /\ Cardinality(W) \in Nat /\ Cardinality(E) \in Nat
  BY <1>1, FS_CardinalityType
<1>5. M' \subseteq M => IsFiniteSet(M') /\ Cardinality(M') <= Cardinality(M) /\ Cardinality(M') \in Nat
  BY <1>1, FS_Subset, FS_CardinalityType
<1>6. CASE F' = F /\ M' \subseteq M /\ W' = W /\ E' = E
  BY <1>1, <1>3, <1>4, <1>5, <1>6
<1>7. CASE Grows(F, F') /\ M' \subseteq M /\ Grows(W, W') /\ E' = E
  <2>1. IsFiniteSet(F') /\ Cardinality(F') = Cardinality(F) + 1 /\ IsFiniteSet(W') /\ Cardinality(W') = Cardinality(W) + 1
    BY <1>1, <1>7, GrowsByOne
  <2>. QED
    BY <1>1, <1>3, <1>4, <1>5, <1>7, <2>1
<1>8. CASE F' = F /\ (\E p : M' \subseteq M \cup {p}) /\ Grows(W, W') /\ Grows(E, E')
  <2>1. IsFiniteSet(E') /\ Cardinality(E') = Cardinality(E) + 1 /\ IsFiniteSet(W') /\ Cardinality(W') = Cardinality(W) + 1
    BY <1>1, <1>8, GrowsByOne
  <2>2. PICK p : M' \subseteq M \cup {p}
    BY <1>8
  <2>3. PICK N : N = M \cup {p}
    OBVIOUS
  <2>4. IsFiniteSet(N) /\ Cardinality(N) \in Nat /\ Cardinality(N) <= Cardinality(M) + 1
    BY <1>1, <2>3, OneMoreAtMost
  <2>5. IsFiniteSet(M') /\ Cardinality(M') <= Cardinality(N) /\ Cardinality(M') \in Nat
    BY <2>2, <2>3, <2>4, FS_Subset, FS_CardinalityType
  <2>. QED
    BY <1>1, <1>3, <1>4, <1>8, <2>1, <2>4, <2>5
<1>. QED
  BY <1>2, <1>6, <1>7, <1>8

(* A run of which somebody walks is not finished. *)
LEMMA WalkingIsOpen ==
  ASSUME ScanInv, NEW w \in Sc!Walker, walk[w].step = "walk", ~Sc!Walked(w)
  PROVE  w[1] \in DOMAIN runs /\ ~runs[w[1]].finished
<1>1. w[1] \in DOMAIN runs /\ w[1] \in Sc!Run /\ w[2] \in Dir /\ w = <<w[1], w[2]>>
  BY DEF ScanInv, WalkersHold, Sc!Walker
<1>2. SUFFICES ASSUME runs[w[1]].finished PROVE FALSE
  BY <1>1
<1>3. walk[Sc!Main(w[1])].step = "done"
  BY <1>1, <1>2 DEF ScanInv, WalkersHold
<1>4. w[2] # Root
  BY <1>1, <1>3 DEF Sc!Main
<1>5. Quiet(<<w[1], w[2]>>)
  BY <1>1, <1>3, <1>4 DEF ScanInv, WalkersHold
<1>6. Quiet(w)
  BY <1>1, <1>5
<1>. QED
  BY <1>6 DEF Quiet

(* What is due to a walker in the state x. *)
DueIn(x, p) == DirOf[p] \in x.dirs \/ p \in x.todo \/ (x.stat # NoFile /\ p = x.stat.path)

(* A walker moves on in its walk. *)
LEMMA StepCovers ==
  ASSUME ScanInv, CoverInv, NEW w \in Sc!Walker, walk[w].step = "walk", ~Sc!Walked(w),
         NEW y \in Sc!Walk, y.step = "walk", Moves(w, y),
         UNCHANGED <<file, start, held>>, PassedGrow, DOMAIN runs' = DOMAIN runs,
         \A r \in DOMAIN runs : (r # w[1] => runs'[r] = runs[r]) /\ (runs'[r].finished => runs[r].finished),
         y.stat # NoFile => y.stat.path \notin y.todo /\ DirOf[y.stat.path] \notin y.dirs,
         \A p \in y.todo : DirOf[p] \notin y.dirs,
         \A p \in Path : DueIn(y, p) => Due(w, p),
         \A r \in Sc!Run : r # w[1] => Found(r)' = Found(r),
         \A c \in Found(w[1])' : c \in Found(w[1]) \/ (Due(w, c.path) /\ ~DueIn(y, c.path)),
         Balanced(w[1]) => Balanced(w[1])'
  PROVE  CoverInv'
<1>1. walk \in [Sc!Walker -> Sc!Walk] /\ walk'[w] = y /\ \A v \in Sc!Walker : v # w => walk'[v] = walk[v]
  BY DEF Moves, ScanInv, ScanTypes
<1>2. /\ \A r \in Sc!Run, d \in Dir : <<r, d>> \in Sc!Walker
      /\ w = <<w[1], w[2]>> /\ w[1] \in Sc!Run /\ w[2] \in Dir
      /\ w[1] \in DOMAIN runs /\ ~runs[w[1]].finished /\ \A r \in DOMAIN runs : r \in Sc!Run
      /\ \A r \in Sc!Run : Sc!Main(r) \in Sc!Walker
  BY WalkingIsOpen, RunsNumbered, InventoryAssumption DEF Sc!Walker, Sc!Main, Sc!ScanAssumption
<1>3. /\ DirsLeft(w)' = y.dirs /\ \A p : Due(w, p)' <=> DueIn(y, p)
      /\ \A p : p \in FilesLeft(w)' <=> p \in y.todo \/ (y.stat # NoFile /\ p = y.stat.path)
  BY <1>1 DEF DirsLeft, FilesLeft, Due, DueIn
<1>4. \A v \in Sc!Walker : v # w =>
        DirsLeft(v)' = DirsLeft(v) /\ FilesLeft(v)' = FilesLeft(v) /\ \A p : Due(v, p)' <=> Due(v, p)
  BY <1>1 DEF DirsLeft, FilesLeft, Due
<1>5. \A v \in Sc!Walker : walk'[v].step = walk[v].step
  BY <1>1
<1>6. ScanGround'
  <2>1. \A p \in Path : file'[p] # NoFile => DirOf[p] \in Sc!Subtree' \cup {Root}
    BY DEF CoverInv, ScanGround, Sc!Subtree
  <2>2. \A r \in DOMAIN runs' : \A p \in Path : held'[r][p] # {}
    BY DEF CoverInv, ScanGround
  <2>3. ASSUME NEW v \in Sc!Walker PROVE Orderly(v)'
    <3>1. CASE v = w
      BY <1>1, <3>1 DEF Orderly
    <3>2. CASE v # w
      <4>1. Orderly(v)
        BY DEF CoverInv, ScanGround
      <4>. QED
        BY <1>1, <3>2, <4>1 DEF Orderly, Sc!Exhausted
    <3>. QED
      BY <3>1, <3>2
  <2>4. \A r \in Sc!Run : walk'[Sc!Main(r)].step \in {"walk", "done"} =>
          \A d \in Dir \ {Root} : walk'[<<r, d>>].step # "failed"
    BY <1>2, <1>5 DEF CoverInv, ScanGround
  <2>. QED
    BY <2>1, <2>2, <2>3, <2>4 DEF ScanGround, Sc!Main, PassedGrow
<1>7. DueOnce'
  <2>1. \A v \in Sc!Walker : walk'[v].stat # NoFile => walk'[v].stat.path \notin walk'[v].todo
    BY <1>1 DEF CoverInv, DueOnce
  <2>2. \A v \in Sc!Walker : \A p \in FilesLeft(v)' : DirOf[p] \notin DirsLeft(v)'
    <3>1. \A p \in FilesLeft(w)' : DirOf[p] \notin DirsLeft(w)'
      BY <1>3
    <3>. QED
      BY <1>4, <3>1 DEF CoverInv, DueOnce
  <2>3. \A v \in Sc!Walker : \A p \in Path : Due(v, p)' => Due(v, p)
    BY <1>3, <1>4
  <2>4. \A r \in Sc!Run : \A d, e \in Dir : \A p \in Path : Due(<<r, d>>, p)' /\ Due(<<r, e>>, p)' => d = e
    BY <1>2, <2>3 DEF CoverInv, DueOnce
  <2>5. ASSUME NEW r \in Sc!Run, NEW d \in Dir, NEW c \in Found(r)' PROVE ~Due(<<r, d>>, c.path)'
    <3>1. PICK v \in Sc!Walker : v = <<r, d>>
      BY <1>2
    <3>2. c.path \in Path
      <4>1. c \in Sc!Claim
        BY <2>5 DEF Found
      <4>. QED
        BY <4>1 DEF Sc!Claim
    <3>3. CASE c \in Found(r)
      <4>1. ~Due(v, c.path)
        BY <3>1, <3>3 DEF CoverInv, DueOnce
      <4>. QED
        BY <2>3, <3>1, <3>2, <4>1
    <3>4. CASE c \notin Found(r)
      <4>1. r = w[1] /\ Due(w, c.path) /\ ~DueIn(y, c.path)
        BY <2>5, <3>4
      <4>2. CASE v = w
        BY <1>3, <3>1, <4>1, <4>2
      <4>3. CASE v # w
        <5>1. d # w[2]
          BY <1>2, <3>1, <4>1, <4>3
        <5>2. ~Due(<<r, d>>, c.path)
          BY <1>2, <3>2, <4>1, <5>1 DEF CoverInv, DueOnce
        <5>. QED
          BY <1>4, <3>1, <4>3, <5>2
      <4>. QED
        BY <4>2, <4>3
    <3>. QED
      BY <3>3, <3>4
  <2>. QED
    BY <2>1, <2>2, <2>4, <2>5 DEF DueOnce
<1>8. \A r \in Sc!Run : r # w[1] => /\ Sc!Counts(r, "walked")' = Sc!Counts(r, "walked")
                                   /\ Sc!Counts(r, "errors")' = Sc!Counts(r, "errors")
  BY <1>1, CountsGrow
<1>9. ASSUME NEW r \in DOMAIN runs', runs'[r].finished PROVE Totalled(r)'
  <2>1. r \in DOMAIN runs /\ runs[r].finished /\ r # w[1] /\ r \in Sc!Run /\ runs'[r] = runs[r]
    BY <1>2, <1>9
  <2>2. Totalled(r)
    BY <2>1 DEF CoverInv
  <2>3. Sc!Total(r, "walked")' = Sc!Total(r, "walked") /\ Sc!Total(r, "errors")' = Sc!Total(r, "errors")
    BY <1>8, <2>1, TotalStays
  <2>. QED
    BY <2>1, <2>2, <2>3 DEF Totalled
<1>10. ASSUME NEW r \in DOMAIN runs', ~GaveUp(r)' PROVE Balanced(r)'
  <2>1. r \in DOMAIN runs /\ r \in Sc!Run /\ ~GaveUp(r)
    BY <1>2, <1>5, <1>10 DEF GaveUp
  <2>2. Balanced(r)
    BY <2>1 DEF CoverInv
  <2>3. CASE r # w[1]
    <3>1. \A d \in Dir : \A p : Due(<<r, d>>, p)' <=> Due(<<r, d>>, p)
      BY <1>2, <1>4, <2>1, <2>3
    <3>2. Found(r)' = Found(r)
      BY <2>1, <2>3
    <3>3. Missed(r)' \subseteq Missed(r)
      BY <2>1, <3>1, <3>2 DEF Missed, PassedGrow
    <3>. QED
      BY <1>8, <2>1, <2>2, <2>3, <3>2, <3>3, BalanceStays
  <2>. QED
    BY <2>2, <2>3
<1>. QED
  BY <1>6, <1>7, <1>9, <1>10 DEF CoverInv

(* What is not there is not missed by a run that is under way. *)
LEMMA GoneIsSeen ==
  ASSUME ScanInv, NEW w \in Sc!Walker, Sc!Live(w), NEW p \in Path, file[p] = NoFile
  PROVE  ~\E c \in Sc!Content : held[w[1]][p] = {c}
<1>1. w[1] \in Sc!Run /\ w[2] \in Dir /\ w = <<w[1], w[2]>>
  BY DEF Sc!Walker
<1>2. Sc!At(p) \in held[w[1]][p]
  BY <1>1 DEF ScanInv, HeldNow, Sc!UnderWay
<1>3. NoFile \in held[w[1]][p]
  BY <1>2 DEF Sc!At
<1>4. NoFile \notin Sc!Content
  BY InventoryAssumption DEF Sc!ScanAssumption, Sc!Content
<1>. QED
  BY <1>3, <1>4

(* A walker moves on and counts nothing. *)
LEMMA IdleCovers ==
  ASSUME ScanInv, CoverInv, NEW w \in Sc!Walker, walk[w].step = "walk", ~Sc!Walked(w),
         NEW y \in Sc!Walk, y.step = "walk", Moves(w, y), y.walked = walk[w].walked, y.errors = walk[w].errors,
         UNCHANGED <<file, start, held>>, PassedGrow, DOMAIN runs' = DOMAIN runs,
         \A r \in DOMAIN runs : (r # w[1] => runs'[r] = runs[r]) /\ (runs'[r].finished => runs[r].finished),
         y.stat # NoFile => y.stat.path \notin y.todo /\ DirOf[y.stat.path] \notin y.dirs,
         \A p \in y.todo : DirOf[p] \notin y.dirs,
         \A p \in Path : DueIn(y, p) => Due(w, p),
         \A p \in Path : Due(w, p) /\ ~DueIn(y, p) => file[p] = NoFile \/ p \in passed'[w[1]],
         \A r \in Sc!Run : Found(r)' = Found(r)
  PROVE  CoverInv'
<1>1. walk \in [Sc!Walker -> Sc!Walk] /\ walk'[w] = y /\ \A v \in Sc!Walker : v # w => walk'[v] = walk[v]
  BY DEF Moves, ScanInv, ScanTypes
<1>2. /\ \A d \in Dir : <<w[1], d>> \in Sc!Walker
      /\ w = <<w[1], w[2]>> /\ w[1] \in Sc!Run /\ w[2] \in Dir
  BY DEF Sc!Walker
<1>3. \A v \in Sc!Walker : v # w => \A p : Due(v, p)' <=> Due(v, p)
  BY <1>1 DEF DirsLeft, FilesLeft, Due
<1>4. \A p : Due(w, p)' <=> DueIn(y, p)
  BY <1>1 DEF DirsLeft, FilesLeft, Due, DueIn
<1>5. Missed(w[1])' \subseteq Missed(w[1])
  <2>1. SUFFICES ASSUME NEW p \in Path, p \in Missed(w[1])' PROVE p \in Missed(w[1])
    BY DEF Missed
  <2>2. /\ \E c \in Sc!Content : held[w[1]][p] = {c}
        /\ \A d \in Dir : ~Due(<<w[1], d>>, p)'
        /\ \A c \in Found(w[1]) : c.path # p
        /\ p \notin passed'[w[1]] /\ p \notin passed[w[1]]
    BY <1>2, <2>1 DEF Missed, PassedGrow
  <2>3. Sc!Live(w)
    BY DEF Sc!Live
  <2>4. ~Due(w, p)
    <3>1. ~DueIn(y, p)
      BY <1>2, <1>4, <2>2
    <3>2. file[p] # NoFile
      BY <2>2, <2>3, GoneIsSeen
    <3>. QED
      BY <2>2, <3>1, <3>2
  <2>5. \A d \in Dir : ~Due(<<w[1], d>>, p)
    BY <1>2, <1>3, <2>2, <2>4
  <2>. QED
    BY <2>2, <2>5 DEF Missed
<1>6. /\ Sc!Counts(w[1], "walked")' = Sc!Counts(w[1], "walked")
      /\ Sc!Counts(w[1], "errors")' = Sc!Counts(w[1], "errors")
  <2>1. y["walked"] = walk[w]["walked"] /\ y["errors"] = walk[w]["errors"]
    OBVIOUS
  <2>. QED
    BY <1>1, <1>2, <2>1, CountsGrow
<1>7. Balanced(w[1]) => Balanced(w[1])'
  BY <1>2, <1>5, <1>6, BalanceStays
<1>8. \A c \in Found(w[1])' : c \in Found(w[1])
  BY <1>2
<1>. QED
  BY <1>7, <1>8, StepCovers

(* A walker has processed its file: it is an error, or a claim.               *)
LEMMA ProcessCovers ==
  ASSUME ScanInv, CoverInv, NEW w \in Sc!Walker, walk[w].step = "walk", walk[w].stat # NoFile,
         NEW failed \in BOOLEAN, Sc!Processed(w, failed), UNCHANGED <<file, start, held, passed, runs>>,
         \A r \in Sc!Run : r # w[1] => Found(r)' = Found(r),
         \/ failed /\ Found(w[1])' = Found(w[1])
         \/ ~failed /\ \E c : c.path = walk[w].stat.path /\ Found(w[1])' = Found(w[1]) \cup {c}
  PROVE  CoverInv'
<1>1. PICK x \in Sc!Walk : x = walk[w]
  BY DEF ScanInv, ScanTypes
<1>2. /\ x.step = "walk" /\ x.stat \in Sc!Stat
      /\ x.dirs \subseteq Dir /\ x.todo \subseteq Path /\ x.fresh \in Nat /\ x.walked \in Nat /\ x.errors \in Nat
  BY <1>1, WalkerFields
<1>3. walk \in [Sc!Walker -> Sc!Walk] /\ ~Sc!Walked(w)
  BY DEF ScanInv, ScanTypes, Sc!Walked, Sc!Exhausted
<1>4. PICK n \in {0, 1} :
        /\ n = IF failed THEN 1 ELSE 0
        /\ Moves(w, Walking(x.dirs, x.todo, NoFile, x.fresh + 1, x.walked + 1, x.errors + n))
  BY <1>1, <1>2, <1>3, ProcessMoves
<1>5. PICK y : y = Walking(x.dirs, x.todo, NoFile, x.fresh + 1, x.walked + 1, x.errors + n)
  OBVIOUS
<1>6. /\ y \in Sc!Walk /\ y.step = "walk" /\ y.stat = NoFile /\ y.dirs = x.dirs /\ y.todo = x.todo
      /\ y.walked = x.walked + 1 /\ y.errors = x.errors + n
  BY <1>2, <1>5 DEF Walking, Sc!Walk
<1>7. Moves(w, y)
  BY <1>4, <1>5
<1>8. PICK q \in Path : q = x.stat.path
  BY <1>2 DEF Sc!Stat
<1>9. DirsLeft(w) = x.dirs /\ FilesLeft(w) = x.todo \cup {q}
  BY <1>1, <1>2, <1>8 DEF DirsLeft, FilesLeft
<1>10. q \notin x.todo /\ \A p \in x.todo \cup {q} : DirOf[p] \notin x.dirs
  BY <1>1, <1>8, <1>9 DEF CoverInv, DueOnce
<1>11. \A p : (DueIn(y, p) => Due(w, p)) /\ (Due(w, p) /\ ~DueIn(y, p) => p = q)
  BY <1>6, <1>9 DEF DueIn, Due
<1>12. Due(w, q) /\ ~DueIn(y, q)
  BY <1>6, <1>9, <1>10 DEF DueIn, Due
<1>13. /\ \A d \in Dir : <<w[1], d>> \in Sc!Walker
       /\ w = <<w[1], w[2]>> /\ w[1] \in Sc!Run /\ w[2] \in Dir
  BY DEF Sc!Walker
<1>14. walk'[w] = y /\ \A v \in Sc!Walker : v # w => walk'[v] = walk[v]
  BY <1>3, <1>7 DEF Moves
<1>15. /\ \A v \in Sc!Walker : v # w => \A p : Due(v, p)' <=> Due(v, p)
       /\ \A p : Due(w, p)' <=> DueIn(y, p)
  BY <1>6, <1>14 DEF DirsLeft, FilesLeft, Due, DueIn
<1>16. \A c \in Found(w[1]) : c.path # q
  BY <1>12, <1>13 DEF CoverInv, DueOnce
<1>17. ASSUME NEW p \in Missed(w[1])' PROVE p = q \/ p \in Missed(w[1])
  <2>1. /\ p \in Path /\ p \notin passed[w[1]] /\ \E c \in Sc!Content : held[w[1]][p] = {c}
        /\ \A d \in Dir : ~Due(<<w[1], d>>, p)'
        /\ \A c \in Found(w[1])' : c.path # p
    BY <1>13, <1>17 DEF Missed
  <2>2. \A c \in Found(w[1]) : c.path # p
    BY <2>1
  <2>3. SUFFICES ASSUME p # q PROVE p \in Missed(w[1])
    OBVIOUS
  <2>4. \A d \in Dir : ~Due(<<w[1], d>>, p)
    BY <1>11, <1>13, <1>15, <2>1, <2>3
  <2>. QED
    BY <2>1, <2>2, <2>4 DEF Missed
<1>18. Grows(Sc!Counts(w[1], "walked"), Sc!Counts(w[1], "walked")')
  <2>1. y["walked"] = walk[w]["walked"] + 1
    BY <1>1, <1>6
  <2>. QED
    BY <1>3, <1>6, <1>7, <1>13, <2>1, CountsGrow
<1>19. /\ failed => Grows(Sc!Counts(w[1], "errors"), Sc!Counts(w[1], "errors")')
       /\ ~failed => Sc!Counts(w[1], "errors")' = Sc!Counts(w[1], "errors")
  <2>1. (failed => y["errors"] = walk[w]["errors"] + 1) /\ (~failed => y["errors"] = walk[w]["errors"])
    BY <1>1, <1>2, <1>4, <1>6
  <2>. QED
    BY <1>3, <1>6, <1>7, <1>13, <2>1, CountsGrow
<1>20. ASSUME Balanced(w[1]) PROVE Balanced(w[1])'
  <2>1. CASE failed
    <3>1. Found(w[1])' = Found(w[1]) /\ Missed(w[1])' \subseteq Missed(w[1]) \cup {q}
      BY <1>17, <2>1
    <3>. QED
      BY <1>18, <1>19, <1>20, <2>1, <3>1, BalanceStays
  <2>2. CASE ~failed
    <3>1. PICK c : c.path = q /\ Found(w[1])' = Found(w[1]) \cup {c}
      BY <1>1, <1>8, <2>2
    <3>2. Grows(Found(w[1]), Found(w[1])')
      BY <1>16, <3>1 DEF Grows
    <3>3. \A p \in Missed(w[1])' : p # q
      BY <1>13, <3>1 DEF Missed
    <3>4. Missed(w[1])' \subseteq Missed(w[1])
      BY <1>17, <3>3
    <3>. QED
      BY <1>18, <1>19, <1>20, <2>2, <3>2, <3>4, BalanceStays
  <2>. QED
    BY <2>1, <2>2
<1>21. \A c \in Found(w[1])' : c \in Found(w[1]) \/ (Due(w, c.path) /\ ~DueIn(y, c.path))
  BY <1>1, <1>8, <1>12
<1>22. /\ DOMAIN runs' = DOMAIN runs
       /\ \A r \in DOMAIN runs : (r # w[1] => runs'[r] = runs[r]) /\ (runs'[r].finished => runs[r].finished)
  OBVIOUS
<1>24. PassedGrow
  BY DEF PassedGrow, CoverInv, ScanGround
<1>23. /\ y.stat # NoFile => y.stat.path \notin y.todo /\ DirOf[y.stat.path] \notin y.dirs
       /\ \A p \in y.todo : DirOf[p] \notin y.dirs
       /\ \A p \in Path : DueIn(y, p) => Due(w, p)
  BY <1>6, <1>10, <1>11
<1>. QED
  BY <1>3, <1>6, <1>7, <1>20, <1>21, <1>22, <1>23, <1>24, StepCovers

(* The claims of a run stay while nobody claims. *)
LEMMA FoundStays ==
  ASSUME claims' = claims, inserted' = inserted
  PROVE  \A r : Found(r)' = Found(r)
BY DEF Found

LEMMA PassedStays ==
  ASSUME CoverInv, UNCHANGED passed
  PROVE  PassedGrow
BY DEF PassedGrow, CoverInv, ScanGround

(* A directory is listed: what is there becomes due, what is not is gone.     *)
LEMMA ListCovers ==
  ASSUME ScanInv, CoverInv, NEW w \in Sc!Walker, Sc!ListDir(w)
  PROVE  CoverInv'
<1>1. PICK x \in Sc!Walk : x = walk[w]
  BY DEF ScanInv, ScanTypes
<1>2. x.step = "walk" /\ x.todo = {} /\ x.stat = NoFile /\ x.dirs # {} /\ ~Sc!Walked(w)
  BY <1>1 DEF Sc!ListDir, Sc!NextDir, Sc!Walked, Sc!Exhausted
<1>3. x.dirs \subseteq Dir /\ x.fresh \in Nat /\ x.walked \in Nat /\ x.errors \in Nat
  BY WalkerFields
<1>4. walk \in [Sc!Walker -> Sc!Walk]
  BY DEF ScanInv, ScanTypes
<1>5. PICK d \in x.dirs, ps \in SUBSET Path :
        /\ ps = {p \in Path : DirOf[p] = d /\ file[p] # NoFile}
        /\ Moves(w, Walking(x.dirs \ {d}, ps, x.stat, x.fresh, x.walked, x.errors))
  BY <1>1, <1>2, <1>4, ListMoves
<1>6. PICK y : y = Walking(x.dirs \ {d}, ps, x.stat, x.fresh, x.walked, x.errors)
  OBVIOUS
<1>7. /\ y \in Sc!Walk /\ y.step = "walk" /\ y.stat = NoFile /\ y.dirs = x.dirs \ {d} /\ y.todo = ps
      /\ y.walked = x.walked /\ y.errors = x.errors /\ Moves(w, y)
  BY <1>2, <1>3, <1>5, <1>6 DEF Walking, Sc!Walk
<1>8. \A p \in Path : Due(w, p) <=> DirOf[p] \in x.dirs
  BY <1>1, <1>2 DEF Due, DirsLeft, FilesLeft
<1>9. \A p \in Path : DueIn(y, p) <=> DirOf[p] \in x.dirs \ {d} \/ p \in ps
  BY <1>7 DEF DueIn
<1>10. /\ \A p \in Path : DueIn(y, p) => Due(w, p)
       /\ \A p \in Path : Due(w, p) /\ ~DueIn(y, p) => file[p] = NoFile
       /\ \A p \in ps : DirOf[p] \notin y.dirs
  BY <1>5, <1>7, <1>8, <1>9
<1>11. UNCHANGED <<file, start, held, passed, runs, claims, inserted>>
  BY DEF Sc!ListDir, Sc!disk, Sc!history
<1>12. \A r \in Sc!Run : Found(r)' = Found(r)
  BY <1>11, FoundStays
<1>13. /\ DOMAIN runs' = DOMAIN runs
       /\ \A r \in DOMAIN runs : (r # w[1] => runs'[r] = runs[r]) /\ (runs'[r].finished => runs[r].finished)
  BY <1>11
<1>. QED
  BY <1>1, <1>2, <1>7, <1>10, <1>11, <1>12, <1>13, PassedStays, IdleCovers

(* "No file" is not the stat of one. *)
LEMMA NoStat == NoFile \notin Sc!Stat
<1>1. Sc!Size \subseteq Nat
  BY InventoryAssumption DEF Sc!ScanAssumption, Sc!Size, Sc!Content
<1>2. NoFile \notin [path : Path, mtime : 0..MaxClock, size : Nat, fast : Nat \cup {NoFile}]
  BY InventoryAssumption DEF Sc!ScanAssumption
<1>3. Sc!Stat \subseteq [path : Path, mtime : 0..MaxClock, size : Nat, fast : Nat \cup {NoFile}]
  BY <1>1 DEF Sc!Stat
<1>. QED
  BY <1>2, <1>3

(* A file is statted, or gone. *)
LEMMA StatCovers ==
  ASSUME ScanInv, CoverInv, NEW w \in Sc!Walker, Sc!StatFile(w)
  PROVE  CoverInv'
<1>1. PICK x \in Sc!Walk : x = walk[w]
  BY DEF ScanInv, ScanTypes
<1>2. x.step = "walk" /\ x.stat = NoFile /\ x.todo # {} /\ ~Sc!Walked(w)
  BY <1>1 DEF Sc!StatFile, Sc!Walked, Sc!Exhausted
<1>3. x.dirs \subseteq Dir /\ x.todo \subseteq Path /\ x.fresh \in Nat /\ x.walked \in Nat /\ x.errors \in Nat
  BY WalkerFields
<1>4. walk \in [Sc!Walker -> Sc!Walk]
  BY DEF ScanInv, ScanTypes
<1>5. PICK q \in x.todo : \E s :
        /\ Moves(w, Walking(x.dirs, x.todo \ {q}, s, x.fresh, x.walked, x.errors))
        /\ s = IF file[q] = NoFile THEN NoFile ELSE [path |-> q, mtime |-> file[q].mtime, size |-> SizeOf[file[q].data], fast |-> NoFile]
  BY <1>1, <1>2, <1>4, StatMoves
<1>6. PICK s :
        /\ Moves(w, Walking(x.dirs, x.todo \ {q}, s, x.fresh, x.walked, x.errors))
        /\ s = IF file[q] = NoFile THEN NoFile ELSE [path |-> q, mtime |-> file[q].mtime, size |-> SizeOf[file[q].data], fast |-> NoFile]
  BY <1>5
<1>7. \/ s = NoFile /\ file[q] = NoFile
      \/ s \in Sc!Stat /\ s.path = q /\ s # NoFile
  <2>1. q \in Path /\ file[q] \in Sc!File \cup {NoFile}
    BY <1>3 DEF ScanInv, ScanTypes
  <2>2. file[q] # NoFile => file[q].mtime \in 0..MaxClock /\ SizeOf[file[q].data] \in Sc!Size
    BY <2>1 DEF Sc!File, Sc!Size
  <2>3. NoFile \notin Sc!Stat
    BY NoStat
  <2>4. file[q] # NoFile => s \in Sc!Stat /\ s.path = q
    BY <1>6, <2>1, <2>2 DEF Sc!Stat
  <2>. QED
    BY <1>6, <2>3, <2>4
<1>8. PICK y : y = Walking(x.dirs, x.todo \ {q}, s, x.fresh, x.walked, x.errors)
  OBVIOUS
<1>9. /\ y \in Sc!Walk /\ y.step = "walk" /\ y.stat = s /\ y.dirs = x.dirs /\ y.todo = x.todo \ {q}
      /\ y.walked = x.walked /\ y.errors = x.errors /\ Moves(w, y)
  BY <1>3, <1>6, <1>7, <1>8 DEF Walking, Sc!Walk
<1>10. DirsLeft(w) = x.dirs /\ FilesLeft(w) = x.todo
  BY <1>1, <1>2 DEF DirsLeft, FilesLeft
<1>11. \A p \in x.todo : DirOf[p] \notin x.dirs
  BY <1>10 DEF CoverInv, DueOnce
<1>12. /\ y.stat # NoFile => y.stat.path \notin y.todo /\ DirOf[y.stat.path] \notin y.dirs
       /\ \A p \in y.todo : DirOf[p] \notin y.dirs
  BY <1>7, <1>9, <1>11
<1>13. /\ \A p \in Path : DueIn(y, p) => Due(w, p)
       /\ \A p \in Path : Due(w, p) /\ ~DueIn(y, p) => file[p] = NoFile
  BY <1>7, <1>9, <1>10 DEF DueIn, Due
<1>14. UNCHANGED <<file, start, held, passed, runs, claims, inserted>>
  BY DEF Sc!StatFile, Sc!disk, Sc!history
<1>15. \A r \in Sc!Run : Found(r)' = Found(r)
  BY <1>14, FoundStays
<1>16. /\ DOMAIN runs' = DOMAIN runs
       /\ \A r \in DOMAIN runs : (r # w[1] => runs'[r] = runs[r]) /\ (runs'[r].finished => runs[r].finished)
  BY <1>14
<1>. QED
  BY <1>1, <1>2, <1>9, <1>12, <1>13, <1>14, <1>15, <1>16, PassedStays, IdleCovers

(* A directory that cannot be listed is passed over with its files.           *)
LEMMA PassDirCovers ==
  ASSUME ScanInv, CoverInv, NEW w \in Sc!Walker, Sc!PassDir(w)
  PROVE  CoverInv'
<1>1. PICK x \in Sc!Walk : x = walk[w]
  BY DEF ScanInv, ScanTypes
<1>2. x.step = "walk" /\ x.todo = {} /\ x.stat = NoFile /\ x.dirs # {} /\ ~Sc!Walked(w)
  BY <1>1 DEF Sc!PassDir, Sc!NextDir, Sc!Walked, Sc!Exhausted
<1>3. x.dirs \subseteq Dir /\ x.fresh \in Nat /\ x.walked \in Nat /\ x.errors \in Nat
  BY WalkerFields
<1>4. walk \in [Sc!Walker -> Sc!Walk]
  BY DEF ScanInv, ScanTypes
<1>5. PICK D \in SUBSET x.dirs :
         /\ Moves(w, Walking(x.dirs \ D, x.todo, x.stat, x.fresh, x.walked, x.errors))
         /\ passed' = [passed EXCEPT ![w[1]] = @ \cup Sc!Below(D)]
  BY <1>1, <1>2, <1>4, PassDirMoves
<1>6. PICK y : y = Walking(x.dirs \ D, x.todo, x.stat, x.fresh, x.walked, x.errors)
  OBVIOUS
<1>7. /\ y \in Sc!Walk /\ y.step = "walk" /\ y.stat = NoFile /\ y.dirs = x.dirs \ D /\ y.todo = {}
      /\ y.walked = x.walked /\ y.errors = x.errors /\ Moves(w, y)
  BY <1>2, <1>3, <1>5, <1>6 DEF Walking, Sc!Walk
<1>8. \A p \in Path : Due(w, p) <=> DirOf[p] \in x.dirs
  BY <1>1, <1>2 DEF Due, DirsLeft, FilesLeft
<1>9. \A p \in Path : DueIn(y, p) <=> DirOf[p] \in x.dirs \ D
  BY <1>7 DEF DueIn
<1>10. w[1] \in Sc!Run /\ DOMAIN passed = Sc!Run
  BY DEF Sc!Walker, CoverInv, ScanGround
<1>11. PassedGrow /\ Sc!Below(D) \subseteq passed'[w[1]]
  BY <1>5, <1>10 DEF PassedGrow
<1>12. /\ \A p \in Path : DueIn(y, p) => Due(w, p)
       /\ \A p \in Path : Due(w, p) /\ ~DueIn(y, p) => p \in passed'[w[1]]
  BY <1>8, <1>9, <1>11 DEF Sc!Below
<1>13. UNCHANGED <<file, start, held, runs, claims, inserted>>
  BY DEF Sc!PassDir, Sc!disk
<1>14. \A r \in Sc!Run : Found(r)' = Found(r)
  BY <1>13, FoundStays
<1>15. /\ DOMAIN runs' = DOMAIN runs
       /\ \A r \in DOMAIN runs : (r # w[1] => runs'[r] = runs[r]) /\ (runs'[r].finished => runs[r].finished)
  BY <1>13
<1>. QED
  BY <1>1, <1>2, <1>7, <1>11, <1>12, <1>13, <1>14, <1>15, IdleCovers

(* A file whose stat fails is passed over. *)
LEMMA PassFileCovers ==
  ASSUME ScanInv, CoverInv, NEW w \in Sc!Walker, Sc!PassFile(w)
  PROVE  CoverInv'
<1>1. PICK x \in Sc!Walk : x = walk[w]
  BY DEF ScanInv, ScanTypes
<1>2. x.step = "walk" /\ x.stat = NoFile /\ x.todo # {} /\ ~Sc!Walked(w)
  BY <1>1 DEF Sc!PassFile, Sc!Walked, Sc!Exhausted
<1>3. x.dirs \subseteq Dir /\ x.todo \subseteq Path /\ x.fresh \in Nat /\ x.walked \in Nat /\ x.errors \in Nat
  BY WalkerFields
<1>4. walk \in [Sc!Walker -> Sc!Walk]
  BY DEF ScanInv, ScanTypes
<1>5. PICK q \in x.todo :
         /\ Moves(w, Walking(x.dirs, x.todo \ {q}, x.stat, x.fresh, x.walked, x.errors))
         /\ passed' = [passed EXCEPT ![w[1]] = @ \cup {q}]
  BY <1>1, <1>2, <1>4, PassFileMoves
<1>6. PICK y : y = Walking(x.dirs, x.todo \ {q}, x.stat, x.fresh, x.walked, x.errors)
  OBVIOUS
<1>7. /\ y \in Sc!Walk /\ y.step = "walk" /\ y.stat = NoFile /\ y.dirs = x.dirs /\ y.todo = x.todo \ {q}
      /\ y.walked = x.walked /\ y.errors = x.errors /\ Moves(w, y)
  BY <1>2, <1>3, <1>5, <1>6 DEF Walking, Sc!Walk
<1>8. DirsLeft(w) = x.dirs /\ FilesLeft(w) = x.todo
  BY <1>1, <1>2 DEF DirsLeft, FilesLeft
<1>9. \A p \in y.todo : DirOf[p] \notin y.dirs
  BY <1>7, <1>8 DEF CoverInv, DueOnce
<1>10. w[1] \in Sc!Run /\ DOMAIN passed = Sc!Run
  BY DEF Sc!Walker, CoverInv, ScanGround
<1>11. PassedGrow /\ q \in passed'[w[1]]
  BY <1>5, <1>10 DEF PassedGrow
<1>12. /\ \A p \in Path : DueIn(y, p) => Due(w, p)
       /\ \A p \in Path : Due(w, p) /\ ~DueIn(y, p) => p \in passed'[w[1]]
  BY <1>7, <1>8, <1>11 DEF DueIn, Due
<1>13. UNCHANGED <<file, start, held, runs, claims, inserted>>
  BY DEF Sc!PassFile, Sc!disk
<1>14. \A r \in Sc!Run : Found(r)' = Found(r)
  BY <1>13, FoundStays
<1>15. /\ DOMAIN runs' = DOMAIN runs
       /\ \A r \in DOMAIN runs : (r # w[1] => runs'[r] = runs[r]) /\ (runs'[r].finished => runs[r].finished)
  BY <1>13
<1>. QED
  BY <1>1, <1>2, <1>7, <1>9, <1>11, <1>12, <1>13, <1>14, <1>15, IdleCovers

(* What is due stays due while a walker changes no more than the number of    *)
(* its files or the size its file was counted with.                           *)
LEMMA SameDueCovers ==
  ASSUME ScanInv, CoverInv, NEW w \in Sc!Walker, walk[w].step = "walk", ~Sc!Walked(w),
         UNCHANGED <<file, start, held, passed, runs, claims, inserted>>,
         NEW s, NEW n \in Nat, NEW x \in Sc!Walk, x = walk[w],
         Moves(w, Walking(x.dirs, x.todo, s, n, x.walked, x.errors)),
         s = x.stat \/ (x.stat # NoFile /\ s \in Sc!Stat /\ s.path = x.stat.path)
  PROVE  CoverInv'
<1>1. /\ x.dirs \subseteq Dir /\ x.todo \subseteq Path /\ x.walked \in Nat /\ x.errors \in Nat
      /\ x.stat # NoFile => x.stat \in Sc!Stat
  BY WalkerFields
<1>2. s \in Sc!Stat \cup {NoFile} /\ (s = NoFile <=> x.stat = NoFile) /\ (s # NoFile => s.path = x.stat.path)
  BY <1>1, NoStat
<1>3. PICK y : y = Walking(x.dirs, x.todo, s, n, x.walked, x.errors)
  OBVIOUS
<1>4. /\ y \in Sc!Walk /\ y.step = "walk" /\ y.stat = s /\ y.dirs = x.dirs /\ y.todo = x.todo
      /\ y.walked = x.walked /\ y.errors = x.errors /\ Moves(w, y)
  BY <1>1, <1>2, <1>3 DEF Walking, Sc!Walk
<1>5. /\ DirsLeft(w) = x.dirs
      /\ \A p : p \in FilesLeft(w) <=> p \in x.todo \/ (x.stat # NoFile /\ p = x.stat.path)
      /\ \A p : DueIn(y, p) <=> Due(w, p)
  BY <1>2, <1>4 DEF DirsLeft, FilesLeft, Due, DueIn
<1>6. /\ y.stat # NoFile => y.stat.path \notin y.todo /\ DirOf[y.stat.path] \notin y.dirs
      /\ \A p \in y.todo : DirOf[p] \notin y.dirs
  <2>1. \A p \in FilesLeft(w) : DirOf[p] \notin DirsLeft(w)
    BY DEF CoverInv, DueOnce
  <2>2. x.stat # NoFile => x.stat.path \notin x.todo
    BY DEF CoverInv, DueOnce
  <2>. QED
    BY <1>2, <1>4, <1>5, <2>1, <2>2
<1>7. \A r \in Sc!Run : Found(r)' = Found(r)
  BY FoundStays
<1>8. /\ DOMAIN runs' = DOMAIN runs
      /\ \A r \in DOMAIN runs : (r # w[1] => runs'[r] = runs[r]) /\ (runs'[r].finished => runs[r].finished)
  OBVIOUS
<1>. QED
  BY <1>4, <1>5, <1>6, <1>7, <1>8, PassedStays, IdleCovers

(* A large file has been read once. *)
LEMMA CountingCovers ==
  ASSUME ScanInv, CoverInv, NEW w \in Sc!Walker, Counting(w),
         UNCHANGED <<file, start, held, passed, runs, claims, inserted>>
  PROVE  CoverInv'
<1>1. PICK x \in Sc!Walk : x = walk[w]
  BY DEF ScanInv, ScanTypes
<1>2. walk \in [Sc!Walker -> Sc!Walk]
  BY DEF ScanInv, ScanTypes
<1>3. x.step = "walk" /\ x.stat # NoFile /\ ~Sc!Walked(w) /\ x.fresh \in Nat
  BY <1>1, WalkerFields DEF Counting, Sc!Walked, Sc!Exhausted
<1>4. PICK s \in Sc!Stat :
         /\ s.path = x.stat.path
         /\ Moves(w, Walking(x.dirs, x.todo, s, x.fresh, x.walked, x.errors))
  BY <1>1, <1>2, FastMoves
<1>. QED
  BY <1>1, <1>3, <1>4, SameDueCovers

(* A batch without a claim is not recorded. *)
LEMMA BumpCovers ==
  ASSUME ScanInv, CoverInv, NEW w \in Sc!Walker, Sc!BumpTimeout(w)
  PROVE  CoverInv'
<1>1. PICK x \in Sc!Walk : x = walk[w]
  BY DEF ScanInv, ScanTypes
<1>2. walk \in [Sc!Walker -> Sc!Walk]
  BY DEF ScanInv, ScanTypes
<1>3. x.step = "walk" /\ x.fresh # 0 /\ ~Sc!Walked(w)
  <2>1. x.step = "walk" /\ x.fresh > 0 /\ x.fresh \in Nat
    BY <1>1, WalkerFields DEF Sc!BumpTimeout
  <2>2. x.fresh # 0
    BY <2>1
  <2>. QED
    BY <1>1, <2>1, <2>2 DEF Sc!Walked
<1>4. UNCHANGED <<file, start, held, passed, runs, claims, inserted>>
  BY DEF Sc!BumpTimeout, Sc!disk, Sc!history
<1>5. Moves(w, Walking(x.dirs, x.todo, x.stat, 0, x.walked, x.errors))
  BY <1>1, <1>2, <1>3, CommitMoves
<1>6. PICK s : s = x.stat
  OBVIOUS
<1>. QED
  BY <1>1, <1>3, <1>4, <1>5, <1>6, SameDueCovers

(* A file is claimed. *)
LEMMA InsertCovers ==
  ASSUME ScanInv, ScanInv', CoverInv, NEW w \in Sc!Walker, walk[w].step = "walk", walk[w].stat # NoFile, NEW data, NEW size, Sc!Insert(w, data, size)
  PROVE  CoverInv'
<1>1. PICK c : c = [run |-> w[1], path |-> walk[w].stat.path, data |-> data, mtime |-> walk[w].stat.mtime, size |-> size]
  OBVIOUS
<1>2. /\ inserted' = [inserted EXCEPT ![w] = @ \cup {c}] /\ Sc!Processed(w, FALSE)
      /\ UNCHANGED <<file, start, held, passed, runs, claims>>
  BY <1>1 DEF Sc!Insert, Sc!disk, Sc!history
<1>3. inserted \in [Sc!Walker -> SUBSET Sc!Claim] /\ inserted' \in [Sc!Walker -> SUBSET Sc!Claim]
  BY DEF ScanInv, ScanTypes
<1>4. c \in Sc!Claim /\ c.run = w[1] /\ c.path = walk[w].stat.path
  BY <1>1, <1>2, <1>3
<1>5. /\ inserted'[w] = inserted[w] \cup {c} /\ \A v \in Sc!Walker : v # w => inserted'[v] = inserted[v]
      /\ \A r \in Sc!Run, d \in Dir : <<r, d>> \in Sc!Walker
      /\ w = <<w[1], w[2]>> /\ w[1] \in Sc!Run /\ w[2] \in Dir
  BY <1>2, <1>3 DEF Sc!Walker
<1>6. ASSUME NEW r \in Sc!Run, r # w[1] PROVE Found(r)' = Found(r)
  <2>1. \A d \in Dir : inserted'[<<r, d>>] = inserted[<<r, d>>]
    BY <1>5, <1>6
  <2>. QED
    BY <1>2, <2>1 DEF Found
<1>7. Found(w[1])' = Found(w[1]) \cup {c}
  <2>1. \A b : (\E d \in Dir : b \in inserted'[<<w[1], d>>]) <=> (\E d \in Dir : b \in inserted[<<w[1], d>>]) \/ b = c
    BY <1>5
  <2>2. \A b : b \in Found(w[1])' <=> b \in Found(w[1]) \/ b = c
    BY <1>2, <1>4, <2>1 DEF Found
  <2>. QED
    BY <2>2
<1>. QED
  BY <1>2, <1>4, <1>6, <1>7, ProcessCovers

(* A batch is committed: what was pending is committed. *)
LEMMA CommitCovers ==
  ASSUME ScanInv, CoverInv, NEW w \in Sc!Walker, Sc!CommitBatch(w)
  PROVE  CoverInv'
<1>1. PICK x \in Sc!Walk : x = walk[w]
  BY DEF ScanInv, ScanTypes
<1>2. x.step = "walk" /\ x.fresh # 0 /\ ~Sc!Walked(w)
  <2>1. x.step = "walk" /\ x.fresh > 0 /\ x.fresh \in Nat
    BY <1>1, WalkerFields DEF Sc!CommitBatch
  <2>2. x.fresh # 0
    BY <2>1
  <2>. QED
    BY <1>1, <2>1, <2>2 DEF Sc!Walked
<1>3. /\ x.dirs \subseteq Dir /\ x.todo \subseteq Path /\ x.fresh \in Nat /\ x.walked \in Nat /\ x.errors \in Nat
      /\ x.stat # NoFile => x.stat \in Sc!Stat
  BY WalkerFields
<1>4. walk \in [Sc!Walker -> Sc!Walk] /\ inserted \in [Sc!Walker -> SUBSET Sc!Claim]
  BY DEF ScanInv, ScanTypes
<1>5. Moves(w, Walking(x.dirs, x.todo, x.stat, 0, x.walked, x.errors))
  BY <1>1, <1>2, <1>4, CommitMoves
<1>6. PICK y : y = Walking(x.dirs, x.todo, x.stat, 0, x.walked, x.errors)
  OBVIOUS
<1>7. /\ y \in Sc!Walk /\ y.step = "walk" /\ y.stat = x.stat /\ y.dirs = x.dirs /\ y.todo = x.todo
      /\ y.walked = x.walked /\ y.errors = x.errors /\ Moves(w, y)
  BY <1>3, <1>5, <1>6 DEF Walking, Sc!Walk
<1>8. /\ DirsLeft(w) = x.dirs
      /\ \A p : p \in FilesLeft(w) <=> p \in x.todo \/ (x.stat # NoFile /\ p = x.stat.path)
      /\ \A p : DueIn(y, p) <=> Due(w, p)
  BY <1>1, <1>2, <1>7 DEF DirsLeft, FilesLeft, Due, DueIn
<1>9. /\ y.stat # NoFile => y.stat.path \notin y.todo /\ DirOf[y.stat.path] \notin y.dirs
      /\ \A p \in y.todo : DirOf[p] \notin y.dirs
  <2>1. \A p \in FilesLeft(w) : DirOf[p] \notin DirsLeft(w)
    BY DEF CoverInv, DueOnce
  <2>2. x.stat # NoFile => x.stat.path \notin x.todo
    BY <1>1 DEF CoverInv, DueOnce
  <2>. QED
    BY <1>7, <1>8, <2>1, <2>2
<1>10. /\ UNCHANGED <<file, start, held, passed>> /\ claims' = claims \cup inserted[w]
       /\ inserted' = [inserted EXCEPT ![w] = {}]
  BY DEF Sc!CommitBatch, Sc!disk, Sc!history
<1>11. /\ inserted'[w] = {} /\ \A v \in Sc!Walker : v # w => inserted'[v] = inserted[v]
       /\ \A r \in Sc!Run, d \in Dir : <<r, d>> \in Sc!Walker
       /\ w = <<w[1], w[2]>> /\ w[1] \in Sc!Run /\ w[2] \in Dir
       /\ \A c \in inserted[w] : c.run = w[1]
  BY <1>4, <1>10 DEF Sc!Walker, ScanInv, ClaimsHold
<1>12. ASSUME NEW r \in Sc!Run PROVE Found(r)' = Found(r)
  <2>1. ASSUME NEW c, c.run = r
        PROVE  (c \in claims' \/ \E d \in Dir : c \in inserted'[<<r, d>>]) <=> (c \in claims \/ \E d \in Dir : c \in inserted[<<r, d>>])
    <3>1. CASE c \in inserted[w]
      BY <1>10, <1>11, <2>1, <3>1
    <3>2. CASE c \notin inserted[w]
      <4>1. \A v \in Sc!Walker : c \in inserted'[v] <=> c \in inserted[v]
        BY <1>11, <3>2
      <4>. QED
        BY <1>10, <1>11, <3>2, <4>1
    <3>. QED
      BY <3>1, <3>2
  <2>. QED
    BY <2>1 DEF Found
<1>13. PICK k : k = runs[w[1]].walked + walk[w].fresh
  OBVIOUS
<1>14. runs' = [runs EXCEPT ![w[1]].walked = k]
  BY <1>13 DEF Sc!CommitBatch
<1>15. /\ DOMAIN runs' = DOMAIN runs
       /\ \A r \in DOMAIN runs : (r # w[1] => runs'[r] = runs[r]) /\ (runs'[r].finished => runs[r].finished)
  <2>1. PICK z : z = [runs[w[1]] EXCEPT !.walked = k]
    OBVIOUS
  <2>2. runs' = [runs EXCEPT ![w[1]] = z]
    BY <1>14, <2>1
  <2>3. z.finished = runs[w[1]].finished
    <3>1. w[1] \in DOMAIN runs
      BY <1>1, <1>2 DEF ScanInv, WalkersHold
    <3>2. DOMAIN runs[w[1]] = RunFields
      BY <3>1 DEF ScanInv, ScanTypes
    <3>3. z = [f \in RunFields |-> IF f = "walked" THEN k ELSE runs[w[1]][f]]
      BY <2>1, <3>2
    <3>. QED
      BY <3>3 DEF RunFields
  <2>. QED
    BY <2>2, <2>3
<1>. QED
  BY <1>1, <1>2, <1>7, <1>8, <1>9, <1>10, <1>12, <1>15, PassedStays, IdleCovers

(* A walker processes its file: it finds a claim to reuse, or reads it once or *)
(* twice, or fails.                                                           *)
LEMMA WalkerStepCovers ==
  ASSUME ScanInv, ScanInv', CoverInv, NEW w \in Sc!Walker,
         Sc!ReuseClaim(w) \/ Sc!FastHash(w) \/ Sc!ArchiveHash(w) \/ Sc!ReadError(w)
  PROVE  CoverInv'
<1>1. walk[w].step = "walk" /\ walk[w].stat # NoFile
  BY DEF Sc!ReuseClaim, Sc!FastHash, Sc!ArchiveHash, Sc!ReadError
<1>2. ASSUME NEW data, NEW size, Sc!Insert(w, data, size) PROVE CoverInv'
  BY <1>1, <1>2, InsertCovers
<1>3. ASSUME Sc!Processed(w, TRUE), UNCHANGED <<file, start, held, passed, runs, claims, inserted>>
      PROVE  CoverInv'
  <2>1. \A r : Found(r)' = Found(r)
    BY <1>3, FoundStays
  <2>. QED
    BY <1>1, <1>3, <2>1, ProcessCovers
<1>4. CASE Sc!ReuseClaim(w)
  <2>1. PICK data, size : Sc!Insert(w, data, size)
    BY <1>4 DEF Sc!ReuseClaim
  <2>. QED
    BY <1>2, <2>1
<1>5. CASE Sc!FastHash(w)
  <2>1. PICK f : f = file[walk[w].stat.path]
    OBVIOUS
  <2>2. \/ Sc!Vanished(w)
        \/ f # NoFile /\ Sc!Insert(w, f.data, SizeOf[f.data])
        \/ /\ f # NoFile /\ walk' = [walk EXCEPT ![w].stat.fast = SizeOf[f.data]]
           /\ UNCHANGED <<file, start, held, passed, runs, claims, inserted>>
    BY <1>5, <2>1 DEF Sc!FastHash, Sc!disk, Sc!history
  <2>3. CASE Sc!Vanished(w)
    BY <1>3, <2>3 DEF Sc!Vanished, Sc!disk, Sc!history
  <2>4. CASE Sc!Insert(w, f.data, SizeOf[f.data])
    BY <1>2, <2>4
  <2>5. CASE /\ f # NoFile /\ walk' = [walk EXCEPT ![w].stat.fast = SizeOf[f.data]]
             /\ UNCHANGED <<file, start, held, passed, runs, claims, inserted>>
    <3>1. walk[w].stat.path \in Path
      <4>1. walk[w] \in Sc!Walk
        BY DEF ScanInv, ScanTypes
      <4>2. walk[w].stat \in Sc!Stat
        BY <1>1, <4>1, WalkerFields
      <4>. QED
        BY <4>2 DEF Sc!Stat
    <3>2. f \in Sc!File
      BY <2>1, <2>5, <3>1 DEF ScanInv, ScanTypes
    <3>3. SizeOf[f.data] \in Sc!Size
      BY <3>2 DEF Sc!File, Sc!Size
    <3>4. Counting(w)
      BY <1>1, <2>5, <3>3 DEF Counting
    <3>. QED
      BY <2>5, <3>4, CountingCovers
  <2>. QED
    BY <2>2, <2>3, <2>4, <2>5
<1>6. CASE Sc!ArchiveHash(w)
  <2>1. Sc!Vanished(w) \/ \E data, size : Sc!Insert(w, data, size)
    BY <1>6 DEF Sc!ArchiveHash
  <2>2. CASE Sc!Vanished(w)
    BY <1>3, <2>2 DEF Sc!Vanished, Sc!disk, Sc!history
  <2>. QED
    BY <1>2, <2>1, <2>2
<1>7. CASE Sc!ReadError(w)
  <2>1. Sc!Processed(w, TRUE) /\ UNCHANGED <<file, start, held, passed, runs, claims, inserted>>
    BY <1>7 DEF Sc!ReadError, Sc!disk, Sc!history
  <2>. QED
    BY <1>3, <2>1
<1>. QED
  BY <1>4, <1>5, <1>6, <1>7

(* Walkers end, or a command goes on: nothing more becomes due, and no claim  *)
(* of a run is lost unless a walker of it gives up.                           *)
LEMMA EndingCovers ==
  ASSUME ScanInv, CoverInv, UNCHANGED <<file, start, held, passed, claims>>, DOMAIN runs' = DOMAIN runs,
         \A w \in Sc!Walker :
           /\ walk'[w].walked = walk[w].walked /\ walk'[w].errors = walk[w].errors
           /\ walk'[w].todo = walk[w].todo /\ walk'[w].stat = walk[w].stat
           /\ DirsLeft(w)' \subseteq DirsLeft(w) /\ Orderly(w)' /\ inserted'[w] \subseteq inserted[w]
           /\ walk'[w].step # "failed" => /\ walk[w].step # "failed" /\ inserted'[w] = inserted[w]
                                          /\ DirsLeft(w)' = DirsLeft(w),
         \A r \in Sc!Run : walk'[Sc!Main(r)].step \in {"walk", "done"} =>
            \A d \in Dir \ {Root} : walk'[<<r, d>>].step # "failed",
         \A r \in DOMAIN runs : runs'[r].finished =>
            \/ runs'[r] = runs[r]
            \/ runs'[r].walked = Sc!Total(r, "walked") /\ runs'[r].errors = Sc!Total(r, "errors")
  PROVE  CoverInv'
<1>1. /\ \A r \in Sc!Run, d \in Dir : <<r, d>> \in Sc!Walker
      /\ \A r \in DOMAIN runs : r \in Sc!Run
  BY RunsNumbered DEF Sc!Walker
<1>2. \A w \in Sc!Walker : FilesLeft(w)' = FilesLeft(w) /\ \A p : Due(w, p)' => Due(w, p)
  BY DEF FilesLeft, Due
<1>3. ScanGround'
  <2>1. \A p \in Path : file'[p] # NoFile => DirOf[p] \in Sc!Subtree' \cup {Root}
    BY DEF CoverInv, ScanGround, Sc!Subtree
  <2>2. \A r \in DOMAIN runs' : \A p \in Path : held'[r][p] # {}
    BY DEF CoverInv, ScanGround
  <2>. QED
    BY <2>1, <2>2 DEF CoverInv, ScanGround, Sc!Main
<1>4. DueOnce'
  <2>1. \A v \in Sc!Walker : walk'[v].stat # NoFile => walk'[v].stat.path \notin walk'[v].todo
    BY DEF CoverInv, DueOnce
  <2>2. \A v \in Sc!Walker : \A p \in FilesLeft(v)' : DirOf[p] \notin DirsLeft(v)'
    BY <1>2 DEF CoverInv, DueOnce
  <2>3. \A r \in Sc!Run : \A d, e \in Dir : \A p \in Path : Due(<<r, d>>, p)' /\ Due(<<r, e>>, p)' => d = e
    BY <1>1, <1>2 DEF CoverInv, DueOnce
  <2>4. \A r \in Sc!Run : Found(r)' \subseteq Found(r)
    <3>1. \A r \in Sc!Run, d \in Dir : inserted'[<<r, d>>] \subseteq inserted[<<r, d>>]
      BY <1>1
    <3>. QED
      BY <3>1 DEF Found
  <2>5. \A r \in Sc!Run : \A d \in Dir : \A c \in Found(r)' : ~Due(<<r, d>>, c.path)'
    BY <1>1, <1>2, <2>4 DEF CoverInv, DueOnce
  <2>. QED
    BY <2>1, <2>2, <2>3, <2>5 DEF DueOnce
<1>5. \A r \in Sc!Run : /\ Sc!Counts(r, "walked")' = Sc!Counts(r, "walked")
                        /\ Sc!Counts(r, "errors")' = Sc!Counts(r, "errors")
  <2>1. SUFFICES ASSUME NEW r \in Sc!Run
                 PROVE  /\ Sc!Counts(r, "walked")' = Sc!Counts(r, "walked")
                        /\ Sc!Counts(r, "errors")' = Sc!Counts(r, "errors")
    OBVIOUS
  <2>2. \A d \in Dir : walk'[<<r, d>>]["walked"] = walk[<<r, d>>]["walked"]
    BY <1>1
  <2>3. \A d \in Dir : walk'[<<r, d>>]["errors"] = walk[<<r, d>>]["errors"]
    BY <1>1
  <2>. QED
    BY <2>2, <2>3, CountsStay
<1>6. ASSUME NEW r \in DOMAIN runs', runs'[r].finished PROVE Totalled(r)'
  <2>1. r \in DOMAIN runs /\ r \in Sc!Run
    BY <1>1
  <2>2. Sc!Total(r, "walked")' = Sc!Total(r, "walked") /\ Sc!Total(r, "errors")' = Sc!Total(r, "errors")
    BY <1>5, <2>1, TotalStays
  <2>3. runs'[r].walked = Sc!Total(r, "walked") /\ runs'[r].errors = Sc!Total(r, "errors")
    BY <1>6, <2>1 DEF CoverInv, Totalled
  <2>. QED
    BY <2>2, <2>3 DEF Totalled
<1>7. ASSUME NEW r \in DOMAIN runs', ~GaveUp(r)' PROVE Balanced(r)'
  <2>1. r \in DOMAIN runs /\ r \in Sc!Run
    BY <1>1
  <2>2. \A d \in Dir : /\ walk[<<r, d>>].step # "failed" /\ inserted'[<<r, d>>] = inserted[<<r, d>>]
                       /\ DirsLeft(<<r, d>>)' = DirsLeft(<<r, d>>)
    BY <1>1, <1>7, <2>1 DEF GaveUp
  <2>3. Balanced(r)
    BY <2>1, <2>2 DEF CoverInv, GaveUp
  <2>4. Found(r)' = Found(r)
    BY <2>2 DEF Found
  <2>5. \A d \in Dir : \A p : Due(<<r, d>>, p)' <=> Due(<<r, d>>, p)
    BY <1>1, <1>2, <2>1, <2>2 DEF Due
  <2>6. Missed(r)' \subseteq Missed(r)
    BY <2>4, <2>5 DEF Missed
  <2>. QED
    BY <1>5, <2>1, <2>3, <2>4, <2>6, BalanceStays
<1>. QED
  BY <1>3, <1>4, <1>6, <1>7 DEF CoverInv

(* A worker is not live once the command walks itself. *)
LEMMA QuietIsNotLive ==
  ASSUME NEW w \in Sc!Walker, w[2] # Root, Quiet(w)
  PROVE  ~Sc!Live(w)
BY DEF Quiet, Sc!Live, Sc!Walked

(* Processes are killed or time out. *)
LEMMA FailsCovers ==
  ASSUME ScanInv, CoverInv, NEW W, Sc!Fails(W)
  PROVE  CoverInv'
<1>1. /\ UNCHANGED <<file, start, held, passed, runs, claims>>
      /\ inserted' = [w \in Sc!Walker |-> IF w \in W THEN {} ELSE inserted[w]]
  BY DEF Sc!Fails, Sc!disk, Sc!history
<1>2. ASSUME NEW w \in Sc!Walker
      PROVE  /\ walk'[w].walked = walk[w].walked /\ walk'[w].errors = walk[w].errors
             /\ walk'[w].todo = walk[w].todo /\ walk'[w].stat = walk[w].stat /\ walk'[w].dirs = walk[w].dirs
             /\ \/ walk'[w] = walk[w] /\ (w \notin W \/ ~Sc!Live(w))
                \/ walk'[w].step = "failed" /\ Sc!Live(w)
  <2>1. walk'[w] = IF w \in W /\ Sc!Live(w) THEN [walk[w] EXCEPT !.step = "failed"] ELSE walk[w]
    BY DEF Sc!Fails
  <2>2. walk[w] \in Sc!Walk
    BY DEF ScanInv, ScanTypes
  <2>3. PICK x : x = [walk[w] EXCEPT !.step = "failed"]
    OBVIOUS
  <2>4. /\ x.step = "failed" /\ x.walked = walk[w].walked /\ x.errors = walk[w].errors
        /\ x.todo = walk[w].todo /\ x.stat = walk[w].stat /\ x.dirs = walk[w].dirs
    BY <2>2, <2>3 DEF Sc!Walk
  <2>. QED
    BY <2>1, <2>3, <2>4
<1>3. ASSUME NEW w \in Sc!Walker, walk'[w].step # "failed"
      PROVE  walk'[w] = walk[w] /\ inserted'[w] = inserted[w]
  <2>1. walk'[w] = walk[w] /\ (w \notin W \/ ~Sc!Live(w))
    BY <1>2, <1>3
  <2>2. CASE w \notin W
    BY <1>1, <2>1, <2>2
  <2>3. CASE ~Sc!Live(w)
    <3>1. inserted[w] = {}
      <4>1. SUFFICES ASSUME inserted[w] # {} PROVE FALSE
        OBVIOUS
      <4>2. walk[w].step = "walk" /\ walk[w].fresh > 0
        BY <4>1 DEF ScanInv, WalkersHold
      <4>3. walk[w].fresh # 0
        BY <4>2
      <4>. QED
        BY <2>3, <4>2, <4>3 DEF Sc!Live, Sc!Walked
    <3>. QED
      BY <1>1, <2>1, <3>1
  <2>. QED
    BY <2>1, <2>2, <2>3
<1>4. ASSUME NEW w \in Sc!Walker PROVE DirsLeft(w)' \subseteq DirsLeft(w) /\ Orderly(w)'
  <2>1. CASE walk'[w] = walk[w]
    <3>1. Orderly(w)
      BY DEF CoverInv, ScanGround
    <3>. QED
      BY <2>1, <3>1 DEF DirsLeft, Orderly, Sc!Exhausted
  <2>2. CASE walk'[w].step = "failed"
    <3>1. walk[w].step = "wait" => walk[w].dirs = {}
      BY DEF CoverInv, ScanGround, Orderly, Sc!Off
    <3>. QED
      BY <1>2, <2>2, <3>1 DEF DirsLeft, Orderly
  <2>. QED
    BY <1>2, <2>1, <2>2
<1>5. ASSUME NEW r \in Sc!Run, walk'[Sc!Main(r)].step \in {"walk", "done"}, NEW d \in Dir \ {Root}
      PROVE  walk'[<<r, d>>].step # "failed"
  <2>1. PICK v : v = <<r, d>>
    OBVIOUS
  <2>2. v \in Sc!Walker /\ v[2] # Root /\ Sc!Main(r) \in Sc!Walker
    BY <2>1, InventoryAssumption DEF Sc!Walker, Sc!Main, Sc!ScanAssumption
  <2>3. walk[Sc!Main(r)].step \in {"walk", "done"}
    BY <1>3, <1>5, <2>2
  <2>4. Quiet(v) /\ walk[v].step # "failed"
    BY <2>1, <2>3 DEF ScanInv, WalkersHold, CoverInv, ScanGround
  <2>5. ~Sc!Live(v)
    BY <2>2, <2>4, QuietIsNotLive
  <2>. QED
    BY <1>2, <2>1, <2>2, <2>4, <2>5
<1>6. ASSUME NEW w \in Sc!Walker PROVE inserted'[w] \subseteq inserted[w]
  BY <1>1
<1>7. ASSUME NEW w \in Sc!Walker, walk'[w].step # "failed"
      PROVE  walk[w].step # "failed" /\ inserted'[w] = inserted[w] /\ DirsLeft(w)' = DirsLeft(w)
  BY <1>3, <1>7 DEF DirsLeft
<1>. QED
  BY <1>1, <1>2, <1>4, <1>5, <1>6, <1>7, EndingCovers

(* The command leaves its wait. *)
LEMMA GatherCovers ==
  ASSUME ScanInv, CoverInv, NEW r \in Sc!Run, Sc!Gather(r)
  PROVE  CoverInv'
<1>1. PICK m \in Sc!Walker : m = Sc!Main(r) /\ m = <<r, Root>>
  BY InventoryAssumption DEF Sc!Main, Sc!Walker, Sc!ScanAssumption
<1>2. /\ UNCHANGED <<file, start, held, passed, runs, claims, inserted>>
      /\ walk[m].step = "wait"
  BY <1>1 DEF Sc!Gather, Sc!disk, Sc!history
<1>3. walk[m] = [Sc!Off EXCEPT !.step = "wait"]
  BY <1>2 DEF CoverInv, ScanGround, Orderly
<1>4. PICK fail \in BOOLEAN : fail <=> \E w \in Sc!Workers(r) : walk[w].step = "failed"
  OBVIOUS
<1>5. PICK y : y = IF fail THEN [walk[m] EXCEPT !.step = "failed"] ELSE Sc!Begun({Root})
  OBVIOUS
<1>6. walk' = [walk EXCEPT ![m] = y]
  BY <1>1, <1>4, <1>5 DEF Sc!Gather
<1>7. /\ y.walked = 0 /\ y.errors = 0 /\ y.todo = {} /\ y.stat = NoFile
      /\ fail => y.step = "failed" /\ y.dirs = {}
      /\ ~fail => y.step = "walk" /\ y.dirs = {Root}
  BY <1>3, <1>5 DEF Sc!Off, Sc!Begun
<1>8. walk[m].walked = 0 /\ walk[m].errors = 0 /\ walk[m].todo = {} /\ walk[m].stat = NoFile
  BY <1>3 DEF Sc!Off
<1>9. walk'[m] = y /\ \A v \in Sc!Walker : v # m => walk'[v] = walk[v]
  BY <1>6 DEF ScanInv, ScanTypes
<1>10. /\ DirsLeft(m) = {Root} /\ DirsLeft(m)' \subseteq {Root}
       /\ y.step # "failed" => DirsLeft(m)' = {Root}
  BY <1>2, <1>7, <1>9 DEF DirsLeft
<1>11. ASSUME NEW w \in Sc!Walker
       PROVE  /\ walk'[w].walked = walk[w].walked /\ walk'[w].errors = walk[w].errors
              /\ walk'[w].todo = walk[w].todo /\ walk'[w].stat = walk[w].stat
              /\ DirsLeft(w)' \subseteq DirsLeft(w) /\ Orderly(w)'
              /\ walk'[w].step # "failed" => walk[w].step # "failed" /\ DirsLeft(w)' = DirsLeft(w)
  <2>1. CASE w = m
    BY <1>2, <1>7, <1>8, <1>9, <1>10, <2>1 DEF Orderly
  <2>2. CASE w # m
    <3>1. Orderly(w)
      BY DEF CoverInv, ScanGround
    <3>. QED
      BY <1>9, <2>2, <3>1 DEF DirsLeft, Orderly, Sc!Exhausted
  <2>. QED
    BY <2>1, <2>2
<1>12. ASSUME NEW q \in Sc!Run, walk'[Sc!Main(q)].step \in {"walk", "done"}, NEW d \in Dir \ {Root}
       PROVE  walk'[<<q, d>>].step # "failed"
  <2>1. PICK v : v = <<q, d>>
    OBVIOUS
  <2>2. v \in Sc!Walker /\ v # m /\ Sc!Main(q) \in Sc!Walker
    BY <1>1, <1>12, <2>1, InventoryAssumption DEF Sc!Walker, Sc!Main, Sc!ScanAssumption
  <2>3. CASE q # r
    <3>1. Sc!Main(q) # m
      BY <1>1, <2>3 DEF Sc!Main
    <3>2. walk[v].step # "failed"
      BY <1>9, <1>12, <2>1, <2>2, <3>1 DEF CoverInv, ScanGround
    <3>. QED
      BY <1>9, <2>1, <2>2, <3>2
  <2>4. CASE q = r
    <3>1. ~fail
      BY <1>1, <1>7, <1>9, <1>12, <2>4
    <3>2. CASE d \in Sc!Subtree
      <4>1. v \in Sc!Workers(r)
        BY <2>1, <2>4, <3>2 DEF Sc!Workers
      <4>. QED
        BY <1>4, <1>9, <2>1, <2>2, <3>1, <4>1
    <3>3. CASE d \notin Sc!Subtree
      <4>1. v[2] \notin Sc!Subtree \cup {Root}
        BY <1>12, <2>1, <3>3
      <4>2. walk[v].step = "off"
        BY <2>2, <4>1 DEF ScanInv, WalkersHold
      <4>. QED
        BY <1>9, <2>1, <2>2, <4>2
    <3>. QED
      BY <3>2, <3>3
  <2>. QED
    BY <2>3, <2>4
<1>. QED
  BY <1>2, <1>11, <1>12, EndingCovers

(* The command closes its run with the totals. *)
LEMMA CloseCovers ==
  ASSUME ScanInv, CoverInv, NEW r \in Sc!Run, Sc!CloseRun(r)
  PROVE  CoverInv'
<1>1. PICK m \in Sc!Walker : m = Sc!Main(r) /\ m = <<r, Root>>
  BY InventoryAssumption DEF Sc!Main, Sc!Walker, Sc!ScanAssumption
<1>2. UNCHANGED <<file, start, held, passed, claims, inserted>> /\ Sc!Walked(m)
  BY <1>1 DEF Sc!CloseRun, Sc!disk, Sc!history
<1>3. walk[m].step = "walk" /\ walk[m].dirs = {} /\ walk[m].todo = {} /\ walk[m].stat = NoFile /\ walk[m] \in Sc!Walk
  BY <1>2 DEF Sc!Walked, Sc!Exhausted, ScanInv, ScanTypes
<1>4. PICK y : y = [walk[m] EXCEPT !.step = "done"]
  OBVIOUS
<1>5. walk' = [walk EXCEPT ![m] = y]
  BY <1>1, <1>4 DEF Sc!CloseRun
<1>6. /\ y.step = "done" /\ y.walked = walk[m].walked /\ y.errors = walk[m].errors
      /\ y.todo = {} /\ y.stat = NoFile /\ y.dirs = {}
  BY <1>3, <1>4 DEF Sc!Walk
<1>7. walk'[m] = y /\ \A v \in Sc!Walker : v # m => walk'[v] = walk[v]
  BY <1>5 DEF ScanInv, ScanTypes
<1>8. ASSUME NEW w \in Sc!Walker
      PROVE  /\ walk'[w].walked = walk[w].walked /\ walk'[w].errors = walk[w].errors
             /\ walk'[w].todo = walk[w].todo /\ walk'[w].stat = walk[w].stat
             /\ DirsLeft(w)' \subseteq DirsLeft(w) /\ Orderly(w)'
             /\ walk'[w].step # "failed" => walk[w].step # "failed" /\ DirsLeft(w)' = DirsLeft(w)
  <2>1. CASE w = m
    BY <1>3, <1>6, <1>7, <2>1 DEF Orderly, DirsLeft, Sc!Exhausted
  <2>2. CASE w # m
    <3>1. Orderly(w)
      BY DEF CoverInv, ScanGround
    <3>. QED
      BY <1>7, <2>2, <3>1 DEF DirsLeft, Orderly, Sc!Exhausted
  <2>. QED
    BY <2>1, <2>2
<1>9. ASSUME NEW q \in Sc!Run, walk'[Sc!Main(q)].step \in {"walk", "done"}, NEW d \in Dir \ {Root}
      PROVE  walk'[<<q, d>>].step # "failed"
  <2>1. PICK v : v = <<q, d>>
    OBVIOUS
  <2>2. v \in Sc!Walker /\ v # m /\ Sc!Main(q) \in Sc!Walker
    BY <1>1, <1>9, <2>1, InventoryAssumption DEF Sc!Walker, Sc!Main, Sc!ScanAssumption
  <2>3. walk[Sc!Main(q)].step \in {"walk", "done"}
    BY <1>3, <1>7, <1>9, <2>2
  <2>. QED
    BY <1>7, <1>9, <2>1, <2>2, <2>3 DEF CoverInv, ScanGround
<1>10. PICK i, j : i = Sc!Total(r, "walked") /\ j = Sc!Total(r, "errors")
  OBVIOUS
<1>11. runs' = [runs EXCEPT ![r].finished = TRUE, ![r].walked = i, ![r].errors = j]
  BY <1>10 DEF Sc!CloseRun
<1>12. DOMAIN runs' = DOMAIN runs /\ \A q \in DOMAIN runs : q # r => runs'[q] = runs[q]
  BY <1>11
<1>13. r \in DOMAIN runs /\ DOMAIN runs[r] = RunFields
  <2>1. r \in DOMAIN runs
    BY <1>1, <1>3 DEF ScanInv, WalkersHold
  <2>. QED
    BY <2>1 DEF ScanInv, ScanTypes
<1>14. runs'[r].walked = i /\ runs'[r].errors = j
  <2>1. PICK z : z = [runs[r] EXCEPT !.finished = TRUE, !.walked = i, !.errors = j]
    OBVIOUS
  <2>2. runs'[r] = z
    BY <1>11, <1>13, <2>1
  <2>3. z.walked = i /\ z.errors = j
    BY <1>13, <2>1 DEF RunFields
  <2>. QED
    BY <2>2, <2>3
<1>15. \A q \in DOMAIN runs : runs'[q].finished =>
            \/ runs'[q] = runs[q]
            \/ runs'[q].walked = Sc!Total(q, "walked") /\ runs'[q].errors = Sc!Total(q, "errors")
  BY <1>10, <1>12, <1>14
<1>. QED
  BY <1>2, <1>8, <1>9, <1>12, <1>15, EndingCovers

(* A run begins: what is there is due to one of its walkers. *)
LEMMA StartCovers ==
  ASSUME ScanInv, CoverInv, NEW D \in SUBSET Sc!Subtree, NEW resume \in BOOLEAN, Sc!StartScan(D, resume)
  PROVE  CoverInv'
<1>1. PICK n : n = Len(runs) + 1
  OBVIOUS
<1>2. /\ n \in Sc!Run /\ n \notin DOMAIN runs /\ DOMAIN runs = 1..Len(runs) /\ Len(runs) \in Nat
      /\ \A r \in DOMAIN runs : r \in Sc!Run
  BY <1>1, RunsNumbered DEF Sc!StartScan, Sc!Run
<1>3. /\ UNCHANGED <<file, start, claims, inserted>>
      /\ held' = [held EXCEPT ![n] = [p \in Path |-> {Sc!At(p)}]]
  BY <1>1 DEF Sc!StartScan, Sc!disk
<1>4. PICK alone \in BOOLEAN :
        /\ alone <=> D = {}
        /\ walk' = [w \in Sc!Walker |->
                   IF w = Sc!Main(n) THEN (IF alone THEN Sc!Begun(Sc!Subtree \cup {Root}) ELSE [Sc!Off EXCEPT !.step = "wait"])
                   ELSE IF w[1] = n /\ w[2] \in D THEN Sc!Begun({w[2]})
                   ELSE walk[w]]
  BY <1>1 DEF Sc!StartScan
<1>5. PICK x : runs' = Append(runs, x) /\ x.finished = FALSE
  <2>1. PICK from : runs' = Append(runs, [started |-> clock, finished |-> FALSE, resumed |-> from, walked |-> 0, errors |-> 0])
    BY DEF Sc!StartScan
  <2>. QED
    BY <2>1
<1>6. DOMAIN runs' = DOMAIN runs \cup {n} /\ runs'[n] = x /\ \A r \in DOMAIN runs : runs'[r] = runs[r]
  <2>1. PICK S : S = Rows(runs) \cup {x}
    OBVIOUS
  <2>2. runs \in Seq(S) /\ x \in S
    BY <2>1 DEF ScanInv, ScanTypes
  <2>. QED
    BY <1>1, <1>2, <1>5, <2>2
<1>7. Sc!Subtree \subseteq Dir /\ Root \in Dir /\ Root \notin Sc!Subtree /\ Sc!Subtree' = Sc!Subtree /\ DirOf \in [Path -> Dir]
  <2>1. start.files \subseteq Path
    BY InventoryAssumption DEF ScanInv, ScanTypes, Sc!ScanAssumption
  <2>. QED
    BY <1>3, <2>1, InventoryAssumption DEF Sc!Subtree, Sc!ScanAssumption
<1>8. \A r \in Sc!Run, d \in Dir : <<r, d>> \in Sc!Walker /\ Sc!Main(r) = <<r, Root>>
  BY DEF Sc!Walker, Sc!Main
<1>9. \A r \in Sc!Run, d \in Dir : r # n => walk'[<<r, d>>] = walk[<<r, d>>]
  <2>1. SUFFICES ASSUME NEW r \in Sc!Run, NEW d \in Dir, r # n PROVE walk'[<<r, d>>] = walk[<<r, d>>]
    OBVIOUS
  <2>2. PICK v \in Sc!Walker : v = <<r, d>>
    BY <1>8
  <2>3. v # Sc!Main(n) /\ v[1] # n
    BY <2>1, <2>2 DEF Sc!Main
  <2>. QED
    BY <1>4, <2>2, <2>3
<1>10. \A d \in Dir : walk[<<n, d>>] = Sc!Off
  <2>1. SUFFICES ASSUME NEW d \in Dir PROVE walk[<<n, d>>] = Sc!Off
    OBVIOUS
  <2>2. PICK v \in Sc!Walker : v = <<n, d>>
    BY <1>2, <1>8
  <2>3. walk[v].step = "off"
    BY <1>2, <2>2 DEF ScanInv, WalkersHold
  <2>. QED
    BY <2>2, <2>3 DEF CoverInv, ScanGround, Orderly
(* Which directories the walkers of the new run have before them. *)
<1>11. PICK share : share = [d \in Dir |-> IF alone THEN (IF d = Root THEN Sc!Subtree \cup {Root} ELSE {})
                                           ELSE (IF d \in D \cup {Root} THEN {d} ELSE {})]
  OBVIOUS
<1>12. ASSUME NEW d \in Dir
       PROVE  /\ walk'[<<n, d>>].walked = 0 /\ walk'[<<n, d>>].errors = 0
              /\ walk'[<<n, d>>].todo = {} /\ walk'[<<n, d>>].stat = NoFile
              /\ walk'[<<n, d>>].step # "failed" /\ Orderly(<<n, d>>)' /\ DirsLeft(<<n, d>>)' = share[d]
  <2>1. PICK v \in Sc!Walker : v = <<n, d>>
    BY <1>2, <1>8
  <2>2. /\ Sc!Off.walked = 0 /\ Sc!Off.errors = 0 /\ Sc!Off.todo = {} /\ Sc!Off.stat = NoFile
        /\ Sc!Off.step = "off" /\ Sc!Off.dirs = {}
    BY DEF Sc!Off
  <2>3. \A E : /\ Sc!Begun(E).walked = 0 /\ Sc!Begun(E).errors = 0 /\ Sc!Begun(E).todo = {} /\ Sc!Begun(E).stat = NoFile
               /\ Sc!Begun(E).step = "walk" /\ Sc!Begun(E).dirs = E
    BY DEF Sc!Begun, Sc!Off
  <2>4. PICK o : o = [Sc!Off EXCEPT !.step = "wait"]
    OBVIOUS
  <2>5. o.walked = 0 /\ o.errors = 0 /\ o.todo = {} /\ o.stat = NoFile /\ o.step = "wait"
    BY <2>4 DEF Sc!Off
  <2>6. CASE d = Root /\ alone
    <3>1. walk'[v] = Sc!Begun(Sc!Subtree \cup {Root})
      BY <1>4, <2>1, <2>6 DEF Sc!Main
    <3>2. /\ walk'[v].walked = 0 /\ walk'[v].errors = 0 /\ walk'[v].todo = {} /\ walk'[v].stat = NoFile
          /\ walk'[v].step = "walk" /\ walk'[v].dirs = Sc!Subtree \cup {Root}
      BY <2>3, <3>1
    <3>. QED
      BY <1>11, <2>1, <2>6, <3>2 DEF Orderly, DirsLeft
  <2>7. CASE d = Root /\ ~alone
    <3>1. walk'[v] = o
      BY <1>4, <2>1, <2>4, <2>7 DEF Sc!Main
    <3>2. Orderly(v)'
      BY <2>4, <2>5, <3>1 DEF Orderly
    <3>. QED
      BY <1>11, <2>1, <2>5, <2>7, <3>1, <3>2 DEF DirsLeft
  <2>8. CASE d # Root /\ d \in D
    <3>0. ~alone
      BY <1>4, <2>8
    <3>1. v # Sc!Main(n) /\ v[1] = n /\ v[2] = d
      BY <2>1, <2>8 DEF Sc!Main
    <3>2. walk'[v] = Sc!Begun({d})
      BY <1>4, <2>8, <3>1
    <3>3. /\ walk'[v].walked = 0 /\ walk'[v].errors = 0 /\ walk'[v].todo = {} /\ walk'[v].stat = NoFile
          /\ walk'[v].step = "walk" /\ walk'[v].dirs = {d}
      BY <2>3, <3>2
    <3>. QED
      BY <1>11, <2>1, <2>8, <3>0, <3>3 DEF Orderly, DirsLeft
  <2>9. CASE d # Root /\ d \notin D
    <3>1. v # Sc!Main(n) /\ v[2] \notin D
      BY <2>1, <2>9 DEF Sc!Main
    <3>2. walk'[v] = Sc!Off
      BY <1>4, <1>10, <2>1, <3>1
    <3>. QED
      BY <1>11, <2>1, <2>2, <2>9, <3>2 DEF Orderly, DirsLeft
  <2>. QED
    BY <2>6, <2>7, <2>8, <2>9
<1>13. /\ \A d \in Dir : FilesLeft(<<n, d>>)' = {}
       /\ \A d \in Dir : \A p : Due(<<n, d>>, p)' <=> DirOf[p] \in share[d]
  BY <1>12 DEF FilesLeft, Due
<1>14. ASSUME NEW r \in Sc!Run, r # n, NEW d \in Dir
       PROVE  /\ DirsLeft(<<r, d>>)' = DirsLeft(<<r, d>>) /\ FilesLeft(<<r, d>>)' = FilesLeft(<<r, d>>)
              /\ \A p : Due(<<r, d>>, p)' <=> Due(<<r, d>>, p)
  BY <1>9, <1>14 DEF DirsLeft, FilesLeft, Due
<1>15. \A r \in Sc!Run : Found(r)' = Found(r)
  BY <1>3, FoundStays
<1>16. Found(n) = {}
  <2>1. SUFFICES ASSUME NEW c \in Found(n) PROVE FALSE
    OBVIOUS
  <2>2. c.run = n /\ (c \in claims \/ \E d \in Dir : c \in inserted[<<n, d>>])
    BY <2>1 DEF Found
  <2>3. ClaimHolds(c)
    BY <1>2, <1>8, <2>2 DEF ScanInv, ClaimsHold
  <2>. QED
    BY <1>2, <2>2, <2>3 DEF ClaimHolds
<1>24. PassedGrow /\ (D # {} => Sc!Below(Sc!Subtree \ D) \subseteq passed'[n])
  <2>1. DOMAIN passed = Sc!Run
    BY DEF CoverInv, ScanGround
  <2>2. CASE D \in {{}, Sc!Subtree}
    <3>1. UNCHANGED passed
      BY <2>2 DEF Sc!StartScan
    <3>2. D # {} => Sc!Below(Sc!Subtree \ D) = {}
      BY <2>2 DEF Sc!Below
    <3>. QED
      BY <3>1, <3>2, PassedStays
  <2>3. CASE D \notin {{}, Sc!Subtree}
    <3>1. PICK P : P = Sc!Below(Sc!Subtree \ D)
      OBVIOUS
    <3>2. passed' = [passed EXCEPT ![n] = @ \cup P]
      BY <1>1, <2>3, <3>1 DEF Sc!StartScan, Sc!Overlook
    <3>. QED
      BY <1>2, <2>1, <3>1, <3>2 DEF PassedGrow
  <2>. QED
    BY <2>2, <2>3
<1>17. /\ held'[n] = [p \in Path |-> {Sc!At(p)}] /\ \A r \in Sc!Run : r # n => held'[r] = held[r]
  BY <1>2, <1>3 DEF ScanInv, ScanTypes
<1>18. ScanGround'
  <2>1. \A p \in Path : file'[p] # NoFile => DirOf[p] \in Sc!Subtree' \cup {Root}
    BY <1>3, <1>7 DEF CoverInv, ScanGround
  <2>2. \A r \in DOMAIN runs' : \A p \in Path : held'[r][p] # {}
    BY <1>2, <1>6, <1>17 DEF CoverInv, ScanGround
  <2>3. ASSUME NEW w \in Sc!Walker PROVE Orderly(w)'
    <3>1. PICK r \in Sc!Run, d \in Dir : w = <<r, d>>
      BY DEF Sc!Walker
    <3>2. CASE r = n
      BY <1>12, <3>1, <3>2
    <3>3. CASE r # n
      <4>1. walk'[w] = walk[w]
        BY <1>9, <3>1, <3>3
      <4>2. Orderly(w)
        BY DEF CoverInv, ScanGround
      <4>. QED
        BY <4>1, <4>2 DEF Orderly, Sc!Exhausted
    <3>. QED
      BY <3>2, <3>3
  <2>4. ASSUME NEW r \in Sc!Run, walk'[Sc!Main(r)].step \in {"walk", "done"}, NEW d \in Dir \ {Root}
        PROVE  walk'[<<r, d>>].step # "failed"
    <3>1. CASE r = n
      BY <1>12, <3>1
    <3>2. CASE r # n
      <4>1. walk'[Sc!Main(r)] = walk[Sc!Main(r)] /\ walk'[<<r, d>>] = walk[<<r, d>>]
        BY <1>7, <1>8, <1>9, <3>2
      <4>. QED
        BY <2>4, <4>1 DEF CoverInv, ScanGround
    <3>. QED
      BY <3>1, <3>2
  <2>. QED
    BY <1>24, <2>1, <2>2, <2>3, <2>4 DEF ScanGround, Sc!Main, PassedGrow
<1>19. DueOnce'
  <2>1. ASSUME NEW v \in Sc!Walker
        PROVE  /\ walk'[v].stat # NoFile => walk'[v].stat.path \notin walk'[v].todo
               /\ \A p \in FilesLeft(v)' : DirOf[p] \notin DirsLeft(v)'
    <3>1. PICK r \in Sc!Run, d \in Dir : v = <<r, d>>
      BY DEF Sc!Walker
    <3>2. CASE r = n
      BY <1>12, <1>13, <3>1, <3>2
    <3>3. CASE r # n
      <4>1. walk'[v] = walk[v] /\ FilesLeft(v)' = FilesLeft(v) /\ DirsLeft(v)' = DirsLeft(v)
        BY <1>9, <1>14, <3>1, <3>3
      <4>. QED
        BY <4>1 DEF CoverInv, DueOnce
    <3>. QED
      BY <3>2, <3>3
  <2>2. ASSUME NEW r \in Sc!Run, NEW d \in Dir, NEW e \in Dir, NEW p \in Path, Due(<<r, d>>, p)', Due(<<r, e>>, p)'
        PROVE  d = e
    <3>1. CASE r = n
      BY <1>11, <1>13, <2>2, <3>1
    <3>2. CASE r # n
      BY <1>14, <2>2, <3>2 DEF CoverInv, DueOnce
    <3>. QED
      BY <3>1, <3>2
  <2>3. ASSUME NEW r \in Sc!Run, NEW d \in Dir, NEW c \in Found(r)' PROVE ~Due(<<r, d>>, c.path)'
    <3>1. r # n /\ c \in Found(r)
      BY <1>15, <1>16, <2>3
    <3>. QED
      BY <1>14, <3>1 DEF CoverInv, DueOnce
  <2>4. /\ \A w \in Sc!Walker : walk'[w].stat # NoFile => walk'[w].stat.path \notin walk'[w].todo
        /\ \A w \in Sc!Walker : \A p \in FilesLeft(w)' : DirOf[p] \notin DirsLeft(w)'
    BY <2>1
  <2>. QED
    BY <2>2, <2>3, <2>4 DEF DueOnce
<1>20. ASSUME NEW r \in Sc!Run, r # n
       PROVE  /\ Sc!Counts(r, "walked")' = Sc!Counts(r, "walked")
              /\ Sc!Counts(r, "errors")' = Sc!Counts(r, "errors")
  BY <1>9, <1>20, CountsStay
<1>21. ASSUME NEW r \in DOMAIN runs', runs'[r].finished PROVE Totalled(r)'
  <2>1. r \in DOMAIN runs /\ r # n /\ r \in Sc!Run /\ runs'[r] = runs[r]
    BY <1>2, <1>5, <1>6, <1>21
  <2>2. Totalled(r)
    BY <1>21, <2>1 DEF CoverInv
  <2>3. Sc!Total(r, "walked")' = Sc!Total(r, "walked") /\ Sc!Total(r, "errors")' = Sc!Total(r, "errors")
    BY <1>20, <2>1, TotalStays
  <2>. QED
    BY <2>1, <2>2, <2>3 DEF Totalled
<1>22. Balanced(n)'
  <2>1. Missed(n)' = {}
    <3>1. SUFFICES ASSUME NEW p \in Path, p \in Missed(n)' PROVE FALSE
      BY DEF Missed
    <3>2. /\ p \notin passed'[n] /\ \E c \in Sc!Content : held'[n][p] = {c}
          /\ \A d \in Dir : ~Due(<<n, d>>, p)'
      BY <3>1 DEF Missed
    <3>3. NoFile \notin Sc!Content
      BY InventoryAssumption DEF Sc!ScanAssumption, Sc!Content
    <3>4. file[p] # NoFile
      BY <1>17, <3>2, <3>3 DEF Sc!At
    <3>5. DirOf[p] \in Sc!Subtree \cup {Root} /\ DirOf[p] \in Dir
      BY <1>7, <3>4 DEF CoverInv, ScanGround
    <3>6. alone \/ DirOf[p] \in D \cup {Root}
      BY <1>4, <1>24, <3>2, <3>5 DEF Sc!Below
    <3>7. DirOf[p] \in share[Root] \/ DirOf[p] \in share[DirOf[p]]
      BY <1>7, <1>11, <3>5, <3>6
    <3>. QED
      BY <1>7, <1>13, <3>2, <3>5, <3>7
  <2>2. Sc!Counts(n, "walked")' = {} /\ Sc!Counts(n, "errors")' = {}
    <3>1. \A d \in Dir : walk'[<<n, d>>]["walked"] = 0 /\ walk'[<<n, d>>]["errors"] = 0
      BY <1>12
    <3>2. /\ \A d \in Dir : {d} \X (1..walk'[<<n, d>>]["walked"]) = {}
          /\ \A d \in Dir : {d} \X (1..walk'[<<n, d>>]["errors"]) = {}
      BY <3>1
    <3>. QED
      BY <3>2 DEF Sc!Counts
  <2>3. Found(n)' = {}
    BY <1>2, <1>15, <1>16
  <2>4. Cardinality({}) = 0 /\ IsFiniteSet({})
    BY FS_EmptySet
  <2>5. Sc!Total(n, "walked")' = 0 /\ Sc!Total(n, "errors")' = 0
    BY <2>2, <2>4 DEF Sc!Total, Sc!Cardinality, Cardinality
  <2>. QED
    BY <2>1, <2>2, <2>3, <2>4, <2>5 DEF Balanced
<1>23. ASSUME NEW r \in DOMAIN runs', ~GaveUp(r)' PROVE Balanced(r)'
  <2>1. CASE r = n
    BY <1>22, <2>1
  <2>2. CASE r # n
    <3>1. r \in DOMAIN runs /\ r \in Sc!Run
      BY <1>2, <1>6, <2>2
    <3>2. Balanced(r)
      BY <1>9, <1>23, <2>2, <3>1 DEF GaveUp, CoverInv
    <3>3. Missed(r)' \subseteq Missed(r)
      BY <1>14, <1>15, <1>17, <1>24, <2>2, <3>1 DEF Missed, PassedGrow
    <3>. QED
      BY <1>15, <1>20, <2>2, <3>1, <3>2, <3>3, BalanceStays
  <2>. QED
    BY <2>1, <2>2
<1>. QED
  BY <1>18, <1>19, <1>21, <1>23 DEF CoverInv

(* The walkers stand still, and paths may have held more. *)
LEMMA StillCovers ==
  ASSUME ScanInv, CoverInv, UNCHANGED <<start, runs, claims, inserted, walk, passed>>,
         \A p \in Path : file'[p] = file[p] \/ p \in Busy,
         \A r \in DOMAIN runs : \A p \in Path : held[r][p] \subseteq held'[r][p]
  PROVE  CoverInv'
<1>1. ScanGround'
  <2>1. ASSUME NEW p \in Path, file'[p] # NoFile PROVE DirOf[p] \in Sc!Subtree' \cup {Root}
    <3>1. Sc!Subtree' = Sc!Subtree /\ start \in Starts
      BY DEF Sc!Subtree, ScanInv, ScanTypes
    <3>2. CASE p \in Busy
      <4>1. DirOf[p] \in {DirOf[q] : q \in start.files} \cup {Root}
        BY <3>1, <3>2, InventoryAssumption DEF Sc!ScanAssumption
      <4>. QED
        BY <3>1, <4>1 DEF Sc!Subtree
    <3>3. CASE file'[p] = file[p]
      BY <2>1, <3>1, <3>3 DEF CoverInv, ScanGround
    <3>. QED
      BY <3>2, <3>3
  <2>2. \A r \in DOMAIN runs' : \A p \in Path : held'[r][p] # {}
    BY DEF CoverInv, ScanGround
  <2>3. \A w \in Sc!Walker : Orderly(w)'
    BY DEF CoverInv, ScanGround, Orderly, Sc!Exhausted
  <2>4. \A r \in Sc!Run : walk'[Sc!Main(r)].step \in {"walk", "done"} =>
          \A d \in Dir \ {Root} : walk'[<<r, d>>].step # "failed"
    BY DEF CoverInv, ScanGround
  <2>. QED
    BY <2>1, <2>2, <2>3, <2>4 DEF CoverInv, ScanGround, Sc!Main
<1>2. \A w : /\ DirsLeft(w)' = DirsLeft(w) /\ FilesLeft(w)' = FilesLeft(w)
             /\ \A p : Due(w, p)' <=> Due(w, p)
  BY DEF DirsLeft, FilesLeft, Due
<1>3. \A r : Found(r)' = Found(r)
  BY FoundStays
<1>4. DueOnce'
  <2>1. DueOnce
    BY DEF CoverInv
  <2>. QED
    BY <1>2, <1>3, <2>1 DEF DueOnce
<1>5. \A r : /\ Sc!Counts(r, "walked")' = Sc!Counts(r, "walked")
             /\ Sc!Counts(r, "errors")' = Sc!Counts(r, "errors")
  BY CountsStay
<1>6. ASSUME NEW r \in DOMAIN runs', runs'[r].finished PROVE Totalled(r)'
  <2>1. Totalled(r)
    BY <1>6 DEF CoverInv
  <2>2. Sc!Total(r, "walked")' = Sc!Total(r, "walked") /\ Sc!Total(r, "errors")' = Sc!Total(r, "errors")
    BY <1>5, TotalStays
  <2>. QED
    BY <2>1, <2>2 DEF Totalled
<1>7. ASSUME NEW r \in DOMAIN runs', ~GaveUp(r)' PROVE Balanced(r)'
  <2>1. Balanced(r) /\ r \in DOMAIN runs
    BY <1>7 DEF CoverInv, GaveUp
  <2>2. ASSUME NEW p \in Path, NEW c, held'[r][p] = {c} PROVE held[r][p] = {c}
    <3>1. held[r][p] # {} /\ held[r][p] \subseteq {c}
      BY <2>1, <2>2 DEF CoverInv, ScanGround
    <3>. QED
      BY <3>1
  <2>3. Missed(r)' \subseteq Missed(r)
    BY <1>2, <1>3, <2>2 DEF Missed
  <2>. QED
    BY <1>3, <1>5, <2>1, <2>3, BalanceStays
<1>. QED
  BY <1>1, <1>4, <1>6, <1>7 DEF CoverInv

(* Other programs write a file, of a directory that the scans find. *)
LEMMA PutsCovers ==
  ASSUME ScanInv, CoverInv, NEW p \in Busy, NEW f, Sc!Puts(p, f)
  PROVE  CoverInv'
<1>1. UNCHANGED <<start, runs, claims, inserted, walk, passed>> /\ file' = [file EXCEPT ![p] = f]
  BY DEF Sc!Puts
<1>2. \A q \in Path : file'[q] = file[q] \/ q \in Busy
  BY <1>1 DEF ScanInv, ScanTypes
<1>3. PICK x : x = IF f = NoFile THEN NoFile ELSE f.data
  OBVIOUS
<1>4. held' = [r \in Sc!Run |-> IF Sc!UnderWay(r) THEN [held[r] EXCEPT ![p] = @ \cup {x}] ELSE held[r]]
  BY <1>3 DEF Sc!Puts
<1>5. ASSUME NEW r \in DOMAIN runs, NEW q \in Path PROVE held[r][q] \subseteq held'[r][q]
  <2>1. r \in Sc!Run /\ DOMAIN held[r] = Path
    BY RunsNumbered DEF ScanInv, ScanTypes
  <2>2. CASE Sc!UnderWay(r)
    <3>1. held'[r] = [held[r] EXCEPT ![p] = @ \cup {x}]
      BY <1>4, <2>1, <2>2
    <3>. QED
      BY <2>1, <3>1
  <2>3. CASE ~Sc!UnderWay(r)
    BY <1>4, <2>1, <2>3
  <2>. QED
    BY <2>2, <2>3
<1>. QED
  BY <1>1, <1>2, <1>5, StillCovers

LEMMA CoverInvInit == Sc!Init => CoverInv
<1>. SUFFICES ASSUME Sc!Init PROVE CoverInv
  OBVIOUS
<1>1. \A w \in Sc!Walker : walk[w] = Sc!Off /\ inserted[w] = {}
  BY DEF Sc!Init
<1>2. \A r \in Sc!Run, d \in Dir : <<r, d>> \in Sc!Walker /\ Sc!Main(r) \in Sc!Walker
  BY InventoryAssumption DEF Sc!Walker, Sc!Main, Sc!ScanAssumption
<1>3. \A w \in Sc!Walker : DirsLeft(w) = {} /\ FilesLeft(w) = {} /\ \A p : ~Due(w, p)
  BY <1>1 DEF DirsLeft, FilesLeft, Due, Sc!Off
<1>4. ScanGround
  <2>1. \A p \in Path : file[p] # NoFile => DirOf[p] \in Sc!Subtree \cup {Root}
    BY DEF Sc!Init, Sc!Subtree
  <2>2. DOMAIN runs = {}
    BY DEF Sc!Init
  <2>3. \A w \in Sc!Walker : Orderly(w) /\ walk[w].step = "off"
    BY <1>1 DEF Orderly, Sc!Off
  <2>4. DOMAIN passed = Sc!Run
    BY DEF Sc!Init
  <2>. QED
    BY <1>2, <2>1, <2>2, <2>3, <2>4 DEF ScanGround
<1>5. DueOnce
  <2>1. \A w \in Sc!Walker : walk[w].stat = NoFile
    BY <1>1 DEF Sc!Off
  <2>. QED
    BY <1>2, <1>3, <2>1 DEF DueOnce
<1>. QED
  BY <1>4, <1>5 DEF CoverInv, Sc!Init

LEMMA CoverInvNext == ScanInv /\ ScanInv' /\ CoverInv /\ [Sc!Next]_Sc!vars => CoverInv'
<1>. SUFFICES ASSUME ScanInv, ScanInv', CoverInv, [Sc!Next]_Sc!vars PROVE CoverInv'
  OBVIOUS
<1>1. ASSUME NEW D \in SUBSET Sc!Subtree, NEW c \in BOOLEAN, Sc!StartScan(D, c) PROVE CoverInv'
  BY <1>1, StartCovers
<1>2. ASSUME NEW w \in Sc!Walker, Sc!WalkerStep(w) PROVE CoverInv'
  <2>1. CASE Sc!LockTimeout(w)
    <3>1. PICK W : W = {w}
      OBVIOUS
    <3>2. Sc!Fails(W)
      BY <2>1, <3>1 DEF Sc!LockTimeout
    <3>. QED
      BY <3>2, FailsCovers
  <2>2. CASE Sc!ListDir(w) \/ Sc!PassDir(w)
    BY <2>2, ListCovers, PassDirCovers
  <2>3. CASE Sc!StatFile(w) \/ Sc!PassFile(w)
    BY <2>3, StatCovers, PassFileCovers
  <2>4. CASE Sc!ReuseClaim(w) \/ Sc!FastHash(w) \/ Sc!ArchiveHash(w) \/ Sc!ReadError(w)
    BY <2>4, WalkerStepCovers
  <2>5. CASE Sc!CommitBatch(w) \/ Sc!BumpTimeout(w)
    BY <2>5, CommitCovers, BumpCovers
  <2>. QED
    BY <1>2, <2>1, <2>2, <2>3, <2>4, <2>5 DEF Sc!WalkerStep
<1>3. ASSUME NEW r \in Sc!Run, Sc!Gather(r) PROVE CoverInv'
  BY <1>3, GatherCovers
<1>4. ASSUME NEW r \in Sc!Run, Sc!CloseRun(r) PROVE CoverInv'
  BY <1>4, CloseCovers
<1>5. ASSUME NEW r \in Sc!Run, Sc!Kill(r) PROVE CoverInv'
  <2>1. PICK W : Sc!Fails(W)
    BY <1>5 DEF Sc!Kill
  <2>. QED
    BY <2>1, FailsCovers
<1>6. ASSUME NEW p \in Busy, Sc!WriteFile(p) \/ Sc!DeleteFile(p) PROVE CoverInv'
  <2>1. PICK f : Sc!Puts(p, f)
    BY <1>6 DEF Sc!WriteFile, Sc!DeleteFile
  <2>. QED
    BY <2>1, PutsCovers
<1>7. CASE Sc!Tick \/ UNCHANGED Sc!vars
  <2>1. UNCHANGED <<file, start, runs, claims, inserted, walk, held, passed>>
    BY <1>7 DEF Sc!Tick, Sc!vars, Sc!history
  <2>. QED
    BY <2>1, StillCovers
<1>. QED
  BY <1>1, <1>2, <1>3, <1>4, <1>5, <1>6, <1>7 DEF Sc!Next

(* When a run is finished, all its walkers have ended well. *)
LEMMA FinishedIsCovered ==
  ASSUME ScanInv, CoverInv, NEW r \in DOMAIN runs, runs[r].finished
  PROVE  LET untouched == {p \in Path \ passed[r] : \E c \in Sc!Content : held[r][p] = {c}}
         IN /\ Sc!Cardinality({p \in untouched : \A c \in Sc!ClaimsOf(r) : c.path # p}) <= runs[r].errors
            /\ runs[r].walked = Sc!Cardinality(Sc!ClaimsOf(r)) + Sc!Total(r, "errors")
<1>1. r \in Sc!Run /\ walk[Sc!Main(r)].step = "done" /\ Sc!Main(r) = <<r, Root>> /\ Root \in Dir
  BY RunsNumbered, InventoryAssumption DEF ScanInv, WalkersHold, Sc!Main, Sc!ScanAssumption
<1>2. ASSUME NEW d \in Dir
      PROVE  walk[<<r, d>>].step # "failed" /\ inserted[<<r, d>>] = {} /\ \A p : ~Due(<<r, d>>, p)
  <2>1. PICK v \in Sc!Walker : v = <<r, d>>
    BY <1>1 DEF Sc!Walker
  <2>2. /\ walk[v].step # "failed" /\ walk[v].step # "wait"
        /\ walk[v].step \in {"off", "done"} \/ Sc!Walked(v)
    <3>1. CASE d = Root
      BY <1>1, <2>1, <3>1
    <3>2. CASE d # Root
      <4>1. Quiet(v) /\ walk[v].step # "failed"
        BY <1>1, <2>1, <3>2 DEF ScanInv, WalkersHold, CoverInv, ScanGround
      <4>2. walk[v].step # "wait"
        BY <2>1, <3>2 DEF ScanInv, WalkersHold
      <4>. QED
        BY <4>1, <4>2 DEF Quiet
    <3>. QED
      BY <3>1, <3>2
  <2>3. Sc!Exhausted(v)
    <3>1. Orderly(v)
      BY DEF CoverInv, ScanGround
    <3>2. CASE walk[v].step = "off"
      BY <3>1, <3>2 DEF Orderly, Sc!Off, Sc!Exhausted
    <3>3. CASE walk[v].step = "done"
      BY <3>1, <3>3 DEF Orderly
    <3>4. CASE Sc!Walked(v)
      BY <3>4 DEF Sc!Walked
    <3>. QED
      BY <2>2, <3>2, <3>3, <3>4
  <2>4. \A p : ~Due(v, p)
    BY <2>2, <2>3 DEF Due, DirsLeft, FilesLeft, Sc!Exhausted
  <2>5. inserted[v] = {}
    <3>1. SUFFICES ASSUME inserted[v] # {} PROVE FALSE
      OBVIOUS
    <3>2. walk[v].step = "walk" /\ walk[v].fresh > 0
      BY <3>1 DEF ScanInv, WalkersHold
    <3>3. walk[v].fresh = 0
      BY <2>2, <3>2 DEF Sc!Walked
    <3>. QED
      BY <3>2, <3>3
  <2>. QED
    BY <2>1, <2>2, <2>4, <2>5
<1>3. Found(r) = Sc!ClaimsOf(r)
  <2>1. claims \subseteq Sc!Claim
    BY DEF ScanInv, ScanTypes
  <2>. QED
    BY <1>2, <2>1 DEF Found, Sc!ClaimsOf
<1>4. Missed(r) = {p \in {q \in Path \ passed[r] : \E c \in Sc!Content : held[r][q] = {c}} : \A c \in Sc!ClaimsOf(r) : c.path # p}
  BY <1>2, <1>3 DEF Missed
<1>5. Balanced(r) /\ Totalled(r)
  BY <1>2 DEF CoverInv, GaveUp
<1>6. Cardinality(Missed(r)) <= runs[r].errors /\ runs[r].walked = Cardinality(Found(r)) + Sc!Total(r, "errors")
  BY <1>5 DEF Balanced, Totalled
<1>7. \A S : Sc!Cardinality(S) = Cardinality(S)
  BY DEF Sc!Cardinality, Cardinality
<1>. QED
  BY <1>3, <1>4, <1>6, <1>7

(* A finished run has a claim for every file that lay untouched below its     *)
(* root while it ran, but for those it passed over and as many as it counts   *)
(* errors, and its counters are those of its claims and errors, however many  *)
(* workers walked, whatever was killed, resumed or written meanwhile.         *)
THEOREM FinishedRunsCover == InventorySpec => []FinishedCovers
<1>1. ScanInv /\ CoverInv => FinishedCovers
  BY FinishedIsCovered DEF FinishedCovers, Sc!FinishedCovers
<1>2. Sc!Spec => [](ScanInv /\ CoverInv)
  BY ScanInvInit, ScanInvNext, CoverInvInit, CoverInvNext, PTL DEF Sc!Spec
<1>. QED
  BY <1>1, <1>2, EachAlone, PTL

-----------------------------------------------------------------------------
(* Enrichment: what is committed is whole, and labels are kept. *)

CountField == {"read", "hashed", "skipped", "errors"}
Import == [run : En!RunId \cup {Nothing}, next : Nat \ {0}, batch : Nat, counts : [CountField -> Nat]]
Database == [runs : [En!RunId -> En!Run \cup {Nothing}],
             claims : [En!Row \X En!RunId -> En!Claim \cup {Nothing}],
             rows : SUBSET En!Content, vecs : SUBSET En!Content]

EnrichTypes ==
  /\ db \in Database /\ holder \in Importer \cup {Nothing}
  /\ imports \in [Importer -> Import]
  /\ \A i \in Importer : imports[i].run = Nothing => imports[i].next = 1 /\ imports[i].counts = En!Counts
  /\ holder # Nothing => tx \in Database /\ holder \notin ended /\ imports[holder].run # Nothing

(* What was selected exists, and goes on existing.                            *)
Selections ==
  /\ DOMAIN listed = Classifier \cup Embedder
  /\ \A c \in Classifier : listed[c] # Nothing => \A k \in listed[c] :
       k \in En!Row \X En!RunId /\ db.claims[k] # Nothing
  /\ \A e \in Embedder : listed[e] # Nothing => listed[e] \in [had : SUBSET En!Content, left : SUBSET En!Content]

(* The claims of run n in the database d.                                     *)
Of(d, n) == {k \in En!Row \X {n} : d.claims[k] # Nothing}

(* The counts c are those of an import that has looked at read rows.          *)
AddsUp(c, d, n, read) ==
  c.hashed = Cardinality(Of(d, n)) /\ c.read = read /\ c.read = c.hashed + c.skipped + c.errors

RunWhole(d, n) ==
  IF d.runs[n] = Nothing THEN Of(d, n) = {}
  ELSE /\ d.runs[n].by \notin DryRun
       /\ \A k \in Of(d, n) : d.claims[k].by = d.runs[n].by
       /\ d.runs[n].finished => AddsUp(d.runs[n].counts, d, n, Len(OldRows))
AllWhole(d) == \A n \in En!RunId : RunWhole(d, n)

Vectors == db.vecs \subseteq db.rows /\ db.rows \ db.vecs \subseteq unvectored

(* The open batch t of run n only adds to d, and only to its run.             *)
Adds(t, d, n) ==
  /\ t.rows = d.rows /\ t.vecs = d.vecs
  /\ \A m \in En!RunId : m # n => t.runs[m] = d.runs[m]
  /\ d.runs[n] # Nothing => t.runs[n].by = d.runs[n].by
  /\ \A k \in En!Row \X En!RunId : d.claims[k] # Nothing \/ k[2] # n => t.claims[k] = d.claims[k]

(* Import i, at j, is in an open run of its own of the database d that it     *)
(* sees, has a claim there for each row it counted as hashed, and has none    *)
(* for a row that it has yet to read.                                         *)
Underway(d, i, j) ==
  /\ d.runs[j.run] # Nothing /\ d.runs[j.run].by = i /\ ~d.runs[j.run].finished
  /\ \A r \in En!Row : r >= j.next => d.claims[<<r, j.run>>] = Nothing
  /\ j.next <= Len(OldRows) + 1 /\ AddsUp(j.counts, d, j.run, j.next - 1)

Real == Importer \ DryRun

EnrichInv ==
  /\ EnrichTypes /\ Selections /\ Vectors /\ AllWhole(db)
  /\ holder \in Real => AllWhole(tx) /\ Adds(tx, db, imports[holder].run)
  /\ \A i \in Real : i \notin ended /\ imports[i].run # Nothing => Underway(En!View(i), i, imports[i])

(* What the assumption says of enrichment.                                    *)
LEMMA EnrichConstants ==
  /\ OldRows \in Seq({OldRows[i] : i \in DOMAIN OldRows}) /\ Len(OldRows) \in Nat
  /\ En!Row = 1..Len(OldRows) /\ En!RunId = 1..MaxImports /\ MaxImports \in Nat
  /\ DryRun \subseteq Importer /\ Importer \cap (Classifier \cup Embedder) = {} /\ Classifier \cap Embedder = {}
  /\ Relabel \subseteq Classifier /\ BatchSize \in Nat \ {0}
  /\ Nothing \notin Importer \cup Classifier \cup Embedder \cup En!RunId \cup En!Claim \cup En!Run
<1>1. OldRows \in Seq({OldRows[i] : i \in DOMAIN OldRows})
  BY InventoryAssumption DEF En!EnrichmentAssumption, En!Row
<1>2. PICK S : S = {OldRows[i] : i \in DOMAIN OldRows}
  OBVIOUS
<1>3. OldRows \in Seq(S)
  BY <1>1, <1>2
<1>4. DOMAIN OldRows = 1..Len(OldRows) /\ Len(OldRows) \in Nat
  BY <1>3
<1>5. /\ DryRun \subseteq Importer /\ Importer \cap (Classifier \cup Embedder) = {} /\ Classifier \cap Embedder = {}
      /\ Relabel \subseteq Classifier /\ BatchSize \in Nat \ {0} /\ MaxImports \in Nat
      /\ Nothing \notin Importer \cup Classifier \cup Embedder \cup En!RunId \cup En!Claim \cup En!Run
  BY InventoryAssumption DEF En!EnrichmentAssumption
<1>. QED
  BY <1>1, <1>4, <1>5 DEF En!Row, En!RunId

(* The parts of a database.                                                   *)
LEMMA Parts ==
  ASSUME NEW d \in Database
  PROVE  /\ DOMAIN d = {"runs", "claims", "rows", "vecs"}
         /\ d.runs \in [En!RunId -> En!Run \cup {Nothing}]
         /\ d.claims \in [En!Row \X En!RunId -> En!Claim \cup {Nothing}]
         /\ d.rows \subseteq En!Content /\ d.vecs \subseteq En!Content
BY DEF Database

(* The claims of a run are finitely many, and the same in databases that have *)
(* claims at the same places.                                                 *)
LEMMA ClaimsOfRun ==
  ASSUME NEW d, NEW n
  PROVE  /\ IsFiniteSet(Of(d, n)) /\ Cardinality(Of(d, n)) \in Nat
         /\ \A k \in Of(d, n) : \E r \in En!Row : k = <<r, n>> /\ d.claims[<<r, n>>] # Nothing
         /\ \A r \in En!Row : d.claims[<<r, n>>] # Nothing => <<r, n>> \in Of(d, n)
<1>1. IsFiniteSet(En!Row)
  BY EnrichConstants, FS_Interval
<1>2. IsFiniteSet({n})
  BY FS_Singleton
<1>3. IsFiniteSet(En!Row \X {n})
  BY <1>1, <1>2, FS_Product
<1>4. Of(d, n) \subseteq En!Row \X {n}
  BY DEF Of
<1>5. IsFiniteSet(Of(d, n))
  BY <1>3, <1>4, FS_Subset
<1>6. Cardinality(Of(d, n)) \in Nat
  BY <1>5, FS_CardinalityType
<1>7. ASSUME NEW k \in Of(d, n) PROVE \E r \in En!Row : k = <<r, n>> /\ d.claims[<<r, n>>] # Nothing
  <2>1. k \in En!Row \X {n} /\ d.claims[k] # Nothing
    BY DEF Of
  <2>2. PICK r \in En!Row, m \in {n} : k = <<r, m>>
    BY <2>1
  <2>. QED
    BY <2>1, <2>2
<1>8. ASSUME NEW r \in En!Row, d.claims[<<r, n>>] # Nothing PROVE <<r, n>> \in Of(d, n)
  BY <1>8 DEF Of
<1>9. \A k \in Of(d, n) : \E r \in En!Row : k = <<r, n>> /\ d.claims[<<r, n>>] # Nothing
  BY <1>7
<1>10. \A r \in En!Row : d.claims[<<r, n>>] # Nothing => <<r, n>> \in Of(d, n)
  BY <1>8
<1>. QED
  BY ONLY <1>5, <1>6, <1>9, <1>10

LEMMA SameClaims ==
  ASSUME NEW d, NEW t, NEW n, \A r \in En!Row : t.claims[<<r, n>>] = Nothing <=> d.claims[<<r, n>>] = Nothing
  PROVE  Of(t, n) = Of(d, n)
BY DEF Of

(* An import stays underway in a database that has the same of its run.       *)
LEMMA UnderwayStays ==
  ASSUME NEW d, NEW t, NEW i, NEW j \in Import, Underway(d, i, j), t.runs[j.run] = d.runs[j.run],
         \A r \in En!Row : t.claims[<<r, j.run>>] = Nothing <=> d.claims[<<r, j.run>>] = Nothing
  PROVE  Underway(t, i, j)
<1>1. Of(t, j.run) = Of(d, j.run)
  BY SameClaims
<1>. QED
  BY <1>1 DEF Underway, AddsUp

LEMMA RunWholeStays ==
  ASSUME NEW d, NEW t, NEW n, RunWhole(d, n), t.runs[n] = d.runs[n],
         \A r \in En!Row : /\ t.claims[<<r, n>>] = Nothing <=> d.claims[<<r, n>>] = Nothing
                           /\ d.claims[<<r, n>>] # Nothing => t.claims[<<r, n>>].by = d.claims[<<r, n>>].by
  PROVE  RunWhole(t, n)
<1>1. Of(t, n) = Of(d, n)
  BY SameClaims
<1>2. ASSUME NEW k \in Of(t, n) PROVE t.claims[k].by = d.claims[k].by
  <2>1. PICK r \in En!Row : k = <<r, n>> /\ t.claims[<<r, n>>] # Nothing
    BY ClaimsOfRun
  <2>. QED
    BY <2>1
<1>. QED
  BY <1>1, <1>2 DEF RunWhole, AddsUp

(* What an import sees that may write.                                        *)
LEMMA Sight ==
  ASSUME EnrichInv, NEW i \in Importer, En!MayWrite(i)
  PROVE  /\ En!View(i) \in Database /\ imports[i] \in Import
         /\ i \in Real /\ imports[i].run # Nothing =>
              AllWhole(En!View(i)) /\ Adds(En!View(i), db, imports[i].run) /\ Underway(En!View(i), i, imports[i])
<1>1. i # Nothing /\ holder \in {Nothing, i} /\ i \notin ended /\ imports[i] \in Import
  BY EnrichConstants DEF En!MayWrite, EnrichInv, EnrichTypes
<1>2. CASE holder = i
  BY <1>1, <1>2 DEF EnrichInv, EnrichTypes, En!View, Real
<1>3. CASE holder = Nothing
  <2>1. En!View(i) = db
    BY <1>1, <1>3 DEF En!View
  <2>2. \A n : Adds(db, db, n)
    BY DEF Adds
  <2>. QED
    BY <1>1, <2>1, <2>2 DEF EnrichInv, EnrichTypes
<1>. QED
  BY <1>1, <1>2, <1>3

(* A step in which only import i, which may write, goes on to j.              *)
Advances(i, j) ==
  /\ imports' \in [Importer -> Import] /\ imports'[i] = j
  /\ \A k \in Importer \ {i} : imports'[k] = imports[k]

(* An import goes on with its batch open.                                     *)
LEMMA HoldKeeps ==
  ASSUME EnrichInv, NEW i \in Importer, En!MayWrite(i), NEW j \in Import, Advances(i, j), j.run # Nothing,
         NEW v \in Database, En!Hold(i, v), UNCHANGED <<listed, unvectored, ended>>,
         i \in Real => AllWhole(v) /\ Adds(v, db, j.run) /\ Underway(v, i, j)
  PROVE  EnrichInv'
<1>1. /\ db' = db /\ holder' = i /\ tx' = v /\ i # Nothing /\ holder \in {Nothing, i} /\ i \notin ended
      /\ listed' = listed /\ unvectored' = unvectored /\ ended' = ended
  BY EnrichConstants DEF En!Hold, En!MayWrite
<1>2. EnrichTypes'
  BY <1>1 DEF EnrichInv, EnrichTypes, Advances
<1>3. Selections' /\ Vectors' /\ AllWhole(db)'
  <2>1. Selections'
    BY <1>1 DEF EnrichInv, Selections
  <2>2. Vectors'
    BY <1>1 DEF EnrichInv, Vectors
  <2>3. AllWhole(db)'
    BY <1>1 DEF EnrichInv
  <2>. QED
    BY <2>1, <2>2, <2>3
<1>4. (holder \in Real => AllWhole(tx) /\ Adds(tx, db, imports[holder].run))'
  <2>1. SUFFICES ASSUME i \in Real PROVE AllWhole(v) /\ Adds(v, db, j.run)
    BY <1>1 DEF Advances, AllWhole, RunWhole, Of, AddsUp, Adds
  <2>. QED
    BY <2>1
<1>5. ASSUME NEW k \in Real, k \notin ended, imports'[k].run # Nothing
      PROVE  Underway(En!View(k), k, imports[k])'
  <2>1. CASE k = i
    BY <1>1, <1>5, <2>1 DEF En!View, Underway, Of, AddsUp, Advances
  <2>2. CASE k # i
    <3>1. k \in Importer /\ imports'[k] = imports[k] /\ En!View(k) = db /\ En!View(k)' = db
      BY <1>1, <1>5, <2>2, EnrichConstants DEF Real, Advances, En!View
    <3>2. Underway(db, k, imports[k])
      BY <1>5, <3>1 DEF EnrichInv
    <3>. QED
      BY <3>1, <3>2 DEF Underway, Of, AddsUp
  <2>. QED
    BY <2>1, <2>2
<1>. QED
  BY <1>1, <1>2, <1>3, <1>4, <1>5 DEF EnrichInv

(* An import commits, or rolls back, its batch.                               *)
LEMMA BatchEndKeeps ==
  ASSUME EnrichInv, NEW i \in Importer, En!MayWrite(i), NEW j \in Import, Advances(i, j),
         j.run # Nothing, j.run = imports[i].run,
         NEW v \in Database, En!Commit(v), UNCHANGED <<listed, unvectored>>, ended' \in {ended, ended \cup {i}},
         i \notin Real => v = db,
         i \in Real => /\ AllWhole(v) /\ Adds(v, db, j.run) /\ v.runs[j.run] # Nothing /\ v.runs[j.run].by = i
                       /\ i \notin ended' => Underway(v, i, j)
  PROVE  EnrichInv'
<1>1. /\ db' = v /\ holder' = Nothing /\ i # Nothing /\ holder \in {Nothing, i} /\ i \notin ended
      /\ listed' = listed /\ unvectored' = unvectored /\ Nothing \notin Real /\ Real \subseteq Importer
  BY EnrichConstants DEF En!Commit, En!MayWrite, Real
<1>2. EnrichTypes'
  BY <1>1 DEF EnrichInv, EnrichTypes, Advances
<1>3. AllWhole(db)'
  BY <1>1 DEF EnrichInv
<1>4. \A k \in En!Row \X En!RunId : db.claims[k] # Nothing => v.claims[k] # Nothing
  BY DEF Adds
<1>5. Selections'
  <2>1. \A c \in Classifier : listed'[c] # Nothing => \A k \in listed'[c] :
            k \in En!Row \X En!RunId /\ db'.claims[k] # Nothing
    BY <1>1, <1>4 DEF EnrichInv, Selections
  <2>. QED
    BY <1>1, <2>1 DEF EnrichInv, Selections
<1>6. Vectors'
  BY <1>1 DEF EnrichInv, Vectors, Adds
<1>7. ASSUME NEW k \in Real, k \notin ended', imports'[k].run # Nothing
      PROVE  Underway(En!View(k), k, imports[k])'
  <2>0. k # Nothing /\ k \in Importer /\ En!View(k)' = v
    BY <1>1 DEF En!View
  <2>1. CASE k = i
    BY <1>1, <1>7, <2>0, <2>1 DEF Advances
  <2>2. CASE k # i
    <3>1. imports'[k] = imports[k] /\ En!View(k) = db /\ k \notin ended
      BY <1>1, <1>7, <2>0, <2>2 DEF Advances, En!View
    <3>2. Underway(db, k, imports[k]) /\ imports[k] \in Import
      BY <1>7, <2>0, <3>1 DEF EnrichInv, EnrichTypes
    <3>3. imports[k].run \in En!RunId
      BY <1>7, <3>1, <3>2 DEF Import
    <3>4. CASE v = db
      BY <2>0, <3>1, <3>2, <3>4
    <3>5. CASE v # db
      <4>1. i \in Real
        BY <3>5
      <4>2. imports[k].run # j.run
        BY <2>2, <3>2, <4>1 DEF Underway, Adds
      <4>3. v.runs[imports[k].run] = db.runs[imports[k].run]
        BY <3>3, <4>1, <4>2 DEF Adds
      <4>4. \A r \in En!Row : v.claims[<<r, imports[k].run>>] = db.claims[<<r, imports[k].run>>]
        BY <3>3, <4>1, <4>2 DEF Adds
      <4>5. Underway(v, k, imports[k])
        BY <3>2, <4>3, <4>4, UnderwayStays
      <4>. QED
        BY <2>0, <3>1, <4>5
    <3>. QED
      BY <3>4, <3>5
  <2>. QED
    BY <2>1, <2>2
<1>. QED
  BY <1>1, <1>2, <1>3, <1>5, <1>6, <1>7 DEF EnrichInv

LEMMA EnrichInvInit == En!Init => EnrichInv
<1>. SUFFICES ASSUME En!Init PROVE EnrichInv
  OBVIOUS
<1>1. db.runs = [n \in En!RunId |-> Nothing] /\ db.claims = [k \in En!Row \X En!RunId |-> Nothing]
      /\ db.rows = {} /\ db.vecs = {}
  BY DEF En!Init
<1>2. db \in Database
  BY <1>1 DEF En!Init, Database
<1>3. imports \in [Importer -> Import] /\ \A i \in Importer : imports[i].run = Nothing
  BY DEF En!Init, En!Counts, Import, CountField
<1>4. EnrichTypes
  BY <1>2, <1>3 DEF En!Init, EnrichTypes
<1>5. Selections
  BY DEF En!Init, Selections
<1>6. Vectors
  BY <1>1 DEF Vectors
<1>7. ASSUME NEW n \in En!RunId PROVE RunWhole(db, n)
  <2>1. db.runs[n] = Nothing /\ \A r \in En!Row : db.claims[<<r, n>>] = Nothing
    BY <1>1
  <2>2. Of(db, n) = {}
    BY <2>1 DEF Of
  <2>. QED
    BY <2>1, <2>2 DEF RunWhole
<1>8. holder \notin Real
  BY EnrichConstants DEF En!Init, Real
<1>. QED
  BY <1>3, <1>4, <1>5, <1>6, <1>7, <1>8 DEF EnrichInv, AllWhole, Real

(* The database d with x in the place of its run n.                           *)
SetRun(d, n, x) == [d EXCEPT !.runs[n] = x]
LEMMA WithRun ==
  ASSUME NEW d \in Database, NEW n \in En!RunId, NEW x \in En!Run, NEW v, v = SetRun(d, n, x)
  PROVE  /\ v \in Database /\ v.runs[n] = x /\ \A m \in En!RunId \ {n} : v.runs[m] = d.runs[m]
         /\ v.claims = d.claims /\ v.rows = d.rows /\ v.vecs = d.vecs
<1>1. PICK f : f = [d.runs EXCEPT ![n] = x]
  OBVIOUS
<1>2. /\ f \in [En!RunId -> En!Run \cup {Nothing}] /\ f[n] = x
      /\ \A m \in En!RunId \ {n} : f[m] = d.runs[m]
  BY <1>1, Parts
<1>3. v = [d EXCEPT !.runs = f]
  BY <1>1 DEF SetRun
<1>4. v.runs = f /\ v.claims = d.claims /\ v.rows = d.rows /\ v.vecs = d.vecs
  BY <1>3, Parts
<1>5. v \in Database
  BY <1>2, <1>3, Parts DEF Database
<1>. QED
  BY <1>2, <1>4, <1>5

LEMMA StartImportKeeps ==
  ASSUME EnrichInv, NEW i \in Importer, En!StartImport(i)
  PROVE  EnrichInv'
<1>1. PICK n \in En!RunId :
        /\ db.runs[n] = Nothing /\ imports' = [imports EXCEPT ![i].run = n]
        /\ En!Hold(i, [db EXCEPT !.runs[n] = [by |-> i, finished |-> FALSE, counts |-> En!Counts]])
  BY DEF En!StartImport
<1>2. PICK x : x = [by |-> i, finished |-> FALSE, counts |-> En!Counts]
  OBVIOUS
<1>3. PICK v : v = SetRun(db, n, x)
  OBVIOUS
<1>4. PICK j : j = [imports[i] EXCEPT !.run = n]
  OBVIOUS
<1>5. /\ En!MayWrite(i) /\ imports[i].run = Nothing /\ UNCHANGED <<listed, unvectored, ended>>
      /\ db \in Database /\ imports \in [Importer -> Import]
      /\ imports[i].next = 1 /\ imports[i].counts = En!Counts
  BY DEF En!StartImport, EnrichInv, EnrichTypes
<1>6. x \in En!Run /\ x # Nothing
  <2>1. x \in En!Run
    BY <1>2 DEF En!Run, En!Counts
  <2>. QED
    BY <2>1, EnrichConstants
<1>7. /\ v \in Database /\ v.runs[n] = x /\ \A m \in En!RunId \ {n} : v.runs[m] = db.runs[m]
      /\ v.claims = db.claims /\ v.rows = db.rows /\ v.vecs = db.vecs
  BY <1>3, <1>5, <1>6, WithRun
<1>8. /\ j \in Import /\ j.run = n /\ j.next = 1 /\ j.counts = En!Counts /\ n # Nothing
  BY <1>4, <1>5, EnrichConstants DEF Import
<1>9. Advances(i, j)
  BY <1>1, <1>4, <1>5, <1>8 DEF Advances
<1>10. En!Hold(i, v)
  BY <1>1, <1>2, <1>3 DEF SetRun
<1>11. ASSUME i \in Real PROVE AllWhole(v) /\ Adds(v, db, j.run) /\ Underway(v, i, j)
  <2>1. Of(db, n) = {} /\ Of(v, n) = Of(db, n)
    BY <1>1, <1>7 DEF EnrichInv, AllWhole, RunWhole, Of
  <2>2. ASSUME NEW r \in En!Row PROVE v.claims[<<r, n>>] = Nothing
    BY <2>1, <1>7, ClaimsOfRun
  <2>3. RunWhole(v, n)
    BY <1>2, <1>6, <1>7, <1>11, <2>1 DEF RunWhole, Real
  <2>4. ASSUME NEW m \in En!RunId, m # n PROVE RunWhole(v, m)
    <3>1. RunWhole(db, m)
      BY DEF EnrichInv, AllWhole
    <3>2. v.runs[m] = db.runs[m]
      BY <1>7, <2>4
    <3>. QED
      BY <1>7, <3>1, <3>2, RunWholeStays
  <2>5. Adds(v, db, n)
    BY <1>1, <1>7 DEF Adds
  <2>6. Cardinality(Of(v, n)) = 0
    BY <2>1, FS_EmptySet
  <2>7. Underway(v, i, j)
    BY <1>2, <1>6, <1>7, <1>8, <2>2, <2>6, EnrichConstants DEF Underway, AddsUp, En!Counts
  <2>. QED
    BY <1>8, <2>3, <2>4, <2>5, <2>7 DEF AllWhole
<1>. QED
  BY <1>5, <1>7, <1>8, <1>9, <1>10, <1>11, HoldKeeps

(* A row is counted as what it was.                                           *)
LEMMA CountedIs ==
  ASSUME NEW j \in Import, NEW what \in {"hashed", "skipped", "error"}, NEW y, y = En!Counted(j, what)
  PROVE  /\ y \in Import /\ y.run = j.run /\ y.batch = j.batch /\ y.next = j.next + 1
         /\ y.counts.read = j.counts.read + 1
         /\ y.counts.hashed = IF what = "hashed" THEN j.counts.hashed + 1 ELSE j.counts.hashed
         /\ y.counts.skipped = IF what = "skipped" THEN j.counts.skipped + 1 ELSE j.counts.skipped
         /\ y.counts.errors = IF what = "error" THEN j.counts.errors + 1 ELSE j.counts.errors
<1>1. /\ DOMAIN j = {"run", "next", "batch", "counts"} /\ j.counts \in [CountField -> Nat]
      /\ j.run \in En!RunId \cup {Nothing} /\ j.next \in Nat \ {0} /\ j.batch \in Nat
  BY DEF Import
<1>2. PICK c : c = [f \in CountField |->
                      IF f = "read" THEN j.counts.read + 1
                      ELSE IF (f = "hashed" /\ what = "hashed") \/ (f = "skipped" /\ what = "skipped")
                              \/ (f = "errors" /\ what = "error") THEN j.counts[f] + 1 ELSE j.counts[f]]
  OBVIOUS
<1>3. c \in [CountField -> Nat]
  BY <1>1, <1>2 DEF CountField
<1>4. y = [run |-> j.run, next |-> j.next + 1, batch |-> j.batch, counts |-> c]
  BY <1>1, <1>2 DEF En!Counted, Import, CountField
<1>5. y \in Import
  BY <1>1, <1>3, <1>4 DEF Import
<1>6. y.run = j.run /\ y.batch = j.batch /\ y.next = j.next + 1 /\ y.counts = c
  BY <1>4
<1>7. /\ c.read = j.counts.read + 1
      /\ c.hashed = IF what = "hashed" THEN j.counts.hashed + 1 ELSE j.counts.hashed
      /\ c.skipped = IF what = "skipped" THEN j.counts.skipped + 1 ELSE j.counts.skipped
      /\ c.errors = IF what = "error" THEN j.counts.errors + 1 ELSE j.counts.errors
  BY <1>2 DEF CountField
<1>. QED
  BY <1>5, <1>6, <1>7

LEMMA UnderwayNext ==
  ASSUME NEW d, NEW i, NEW j \in Import, Underway(d, i, j), j.next <= Len(OldRows),
         NEW what \in {"skipped", "error"}, NEW y, y = En!Counted(j, what)
  PROVE  Underway(d, i, y)
<1>1. /\ y \in Import /\ y.run = j.run /\ y.next = j.next + 1 /\ y.counts.read = j.counts.read + 1
      /\ y.counts.hashed = j.counts.hashed
      /\ y.counts.skipped = IF what = "skipped" THEN j.counts.skipped + 1 ELSE j.counts.skipped
      /\ y.counts.errors = IF what = "error" THEN j.counts.errors + 1 ELSE j.counts.errors
  BY CountedIs
<1>2. j.next \in Nat /\ j.counts \in [CountField -> Nat] /\ Len(OldRows) \in Nat
  BY EnrichConstants DEF Import
<1>3. {j.counts.read, j.counts.hashed, j.counts.skipped, j.counts.errors} \subseteq Nat
  BY <1>2 DEF CountField
<1>4. AddsUp(y.counts, d, y.run, y.next - 1)
  <2>1. /\ j.counts.hashed = Cardinality(Of(d, j.run)) /\ j.counts.read = j.next - 1
        /\ j.counts.read = j.counts.hashed + j.counts.skipped + j.counts.errors
    BY DEF Underway, AddsUp
  <2>2. y.counts.hashed = Cardinality(Of(d, y.run))
    BY <1>1, <2>1
  <2>3. y.counts.read = y.next - 1
    BY <1>1, <1>2, <2>1
  <2>4. y.counts.read = y.counts.hashed + y.counts.skipped + y.counts.errors
    <3>1. CASE what = "skipped"
      BY <1>1, <1>3, <2>1, <3>1
    <3>2. CASE what = "error"
      BY <1>1, <1>3, <2>1, <3>2
    <3>. QED
      BY <3>1, <3>2
  <2>. QED
    BY <2>2, <2>3, <2>4 DEF AddsUp
<1>5. \A r \in En!Row : r >= y.next => d.claims[<<r, y.run>>] = Nothing
  BY <1>1, <1>2, EnrichConstants DEF Underway
<1>. QED
  BY <1>1, <1>2, <1>4, <1>5 DEF Underway

LEMMA PassOverKeeps ==
  ASSUME EnrichInv, NEW i \in Importer, En!PassOver(i)
  PROVE  EnrichInv'
<1>1. /\ En!Reading(i) /\ i \notin ended /\ UNCHANGED <<db, tx, holder, listed, unvectored, ended>>
      /\ imports \in [Importer -> Import] /\ imports[i].run # Nothing /\ imports[i].next <= Len(OldRows)
  BY DEF En!PassOver, En!Reading, EnrichInv, EnrichTypes
<1>2. PICK what \in {"skipped", "error"} : imports' = [imports EXCEPT ![i] = En!Counted(@, what)]
  BY DEF En!PassOver
<1>3. PICK y : y = En!Counted(imports[i], what)
  OBVIOUS
<1>4. y \in Import /\ y.run = imports[i].run
  BY <1>1, <1>3, CountedIs
<1>5. Advances(i, y)
  BY <1>1, <1>2, <1>3, <1>4 DEF Advances
<1>6. \A k \in Importer : imports'[k].run = imports[k].run
  BY <1>4, <1>5 DEF Advances
<1>7. EnrichTypes'
  BY <1>1, <1>4, <1>5, <1>6 DEF EnrichInv, EnrichTypes, Advances
<1>8. Selections'
  BY <1>1 DEF EnrichInv, Selections
<1>9. Vectors'
  BY <1>1 DEF EnrichInv, Vectors
<1>10. AllWhole(db)'
  BY <1>1 DEF EnrichInv
<1>11. holder' \in Real => AllWhole(tx') /\ Adds(tx', db', imports'[holder'].run)
  BY <1>1, <1>6 DEF EnrichInv, Real
<1>12. ASSUME NEW k \in Real, k \notin ended', imports'[k].run # Nothing
       PROVE  Underway(En!View(k), k, imports[k])'
  <2>1. k \in Importer /\ En!View(k)' = En!View(k) /\ Underway(En!View(k), k, imports[k])
    BY <1>1, <1>6, <1>12 DEF Real, En!View, EnrichInv
  <2>2. CASE k = i
    <3>1. Underway(En!View(k), k, y)
      BY <1>1, <1>3, <2>1, <2>2, UnderwayNext
    <3>. QED
      BY <1>5, <2>1, <2>2, <3>1 DEF Advances
  <2>3. CASE k # i
    BY <1>5, <2>1, <2>3 DEF Advances
  <2>. QED
    BY <2>2, <2>3
<1>. QED
  BY <1>7, <1>8, <1>9, <1>10, <1>11, <1>12 DEF EnrichInv

(* The database d with the claim x at k.                                      *)
SetClaim(d, k, x) == [d EXCEPT !.claims[k] = x]
Slot == En!Row \X En!RunId
LEMMA WithClaim ==
  ASSUME NEW d \in Database, NEW k \in Slot, NEW x \in En!Claim, NEW v, v = SetClaim(d, k, x)
  PROVE  /\ v \in Database /\ v.claims[k] = x /\ \A m \in Slot \ {k} : v.claims[m] = d.claims[m]
         /\ v.runs = d.runs /\ v.rows = d.rows /\ v.vecs = d.vecs
<1>1. PICK f : f = [d.claims EXCEPT ![k] = x]
  OBVIOUS
<1>2. /\ f \in [Slot -> En!Claim \cup {Nothing}] /\ f[k] = x
      /\ \A m \in Slot \ {k} : f[m] = d.claims[m]
  BY <1>1, Parts DEF Slot
<1>3. v = [d EXCEPT !.claims = f]
  BY <1>1 DEF SetClaim
<1>4. v.claims = f /\ v.runs = d.runs /\ v.rows = d.rows /\ v.vecs = d.vecs
  BY <1>3, Parts
<1>5. v \in Database
  BY <1>2, <1>3, Parts DEF Database, Slot
<1>. QED
  BY <1>2, <1>4, <1>5

(* A claim that the import counts keeps the database whole.                   *)
LEMMA ClaimAdded ==
  ASSUME NEW d \in Database, NEW i \in Real, NEW j \in Import, j.run \in En!RunId, j.next \in En!Row,
         AllWhole(d), Underway(d, i, j), NEW x \in En!Claim, x.by = i,
         NEW v, v = SetClaim(d, <<j.next, j.run>>, x),
         NEW y \in Import, y.run = j.run, y.next = j.next + 1, y.counts.read = j.counts.read + 1,
         y.counts.hashed = j.counts.hashed + 1, y.counts.skipped = j.counts.skipped, y.counts.errors = j.counts.errors
  PROVE  AllWhole(v) /\ Underway(v, i, y) /\ v.runs = d.runs
         /\ (Adds(d, db, j.run) => Adds(v, db, j.run))
<1>1. PICK n \in En!RunId : n = j.run
  OBVIOUS
<1>2. PICK s \in En!Row : s = j.next
  OBVIOUS
<1>3. PICK k \in Slot : k = <<s, n>>
  BY DEF Slot
<1>4. /\ v \in Database /\ v.claims[k] = x /\ \A m \in Slot \ {k} : v.claims[m] = d.claims[m]
      /\ v.runs = d.runs /\ v.rows = d.rows /\ v.vecs = d.vecs
  <2>1. v = SetClaim(d, k, x)
    BY <1>1, <1>2, <1>3
  <2>2. d \in Database /\ k \in Slot /\ x \in En!Claim
    OBVIOUS
  <2>. QED
    BY ONLY <2>1, <2>2, WithClaim
<1>5. x # Nothing /\ d.claims[k] = Nothing /\ s \in Nat /\ s <= Len(OldRows) /\ Len(OldRows) \in Nat
  BY <1>1, <1>2, <1>3, EnrichConstants DEF Underway
<1>6. Of(v, n) = Of(d, n) \cup {k} /\ k \notin Of(d, n)
  <2>1. k \in En!Row \X {n}
    BY <1>3
  <2>2. \A m \in En!Row \X {n} : m \in En!Row \X En!RunId
    BY <1>1
  <2>. QED
    BY <1>4, <1>5, <2>1, <2>2 DEF Of, Slot
<1>7. Cardinality(Of(v, n)) = Cardinality(Of(d, n)) + 1 /\ Cardinality(Of(d, n)) \in Nat
  BY <1>6, ClaimsOfRun, FS_AddElement
<1>8. ASSUME NEW m \in En!RunId PROVE RunWhole(v, m)
  <2>0. RunWhole(d, m)
    BY DEF AllWhole
  <2>1. CASE m # n
    <3>1. \A r \in En!Row : v.claims[<<r, m>>] = d.claims[<<r, m>>]
      BY <1>3, <1>4, <2>1 DEF Slot
    <3>. QED
      BY <1>4, <2>0, <3>1, RunWholeStays
  <2>2. CASE m = n
    <3>1. d.runs[n] # Nothing /\ d.runs[n].by = i /\ ~d.runs[n].finished /\ i \notin DryRun
      BY <1>1 DEF Underway, Real
    <3>2. ASSUME NEW z \in Of(v, n) PROVE v.claims[z].by = i
      <4>1. CASE z = k
        BY <1>4, <4>1
      <4>2. CASE z # k
        <5>1. z \in Of(d, n)
          BY <1>6, <4>2
        <5>2. v.claims[z] = d.claims[z]
          BY <1>1, <1>4, <4>2, <5>1 DEF Of, Slot
        <5>. QED
          BY <2>0, <2>2, <3>1, <5>1, <5>2 DEF RunWhole
      <4>. QED
        BY <4>1, <4>2
    <3>. QED
      BY <1>4, <2>2, <3>1, <3>2 DEF RunWhole
  <2>. QED
    BY <2>1, <2>2
<1>9. Underway(v, i, y)
  <2>1. /\ j.next \in Nat /\ j.counts \in [CountField -> Nat]
        /\ {j.counts.read, j.counts.hashed, j.counts.skipped, j.counts.errors} \subseteq Nat
    BY DEF Import, CountField
  <2>2. AddsUp(y.counts, v, n, y.next - 1)
    <3>1. /\ j.counts.hashed = Cardinality(Of(d, n)) /\ j.counts.read = j.next - 1
          /\ j.counts.read = j.counts.hashed + j.counts.skipped + j.counts.errors
      BY <1>1 DEF Underway, AddsUp
    <3>2. y.counts.hashed = Cardinality(Of(v, n))
      BY <1>7, <3>1
    <3>3. y.counts.read = y.next - 1 /\ y.counts.read = y.counts.hashed + y.counts.skipped + y.counts.errors
      BY <2>1, <3>1
    <3>. QED
      BY <3>2, <3>3 DEF AddsUp
  <2>3. ASSUME NEW r \in En!Row, r >= y.next PROVE v.claims[<<r, n>>] = Nothing
    <3>0. r \in Nat
      BY EnrichConstants
    <3>1. r # s /\ r >= j.next
      BY <1>2, <2>1, <2>3, <3>0
    <3>. QED
      BY <1>1, <1>3, <1>4, <3>1 DEF Underway, Slot
  <2>. QED
    BY <1>1, <1>2, <1>4, <1>5, <2>2, <2>3 DEF Underway
<1>10. ASSUME Adds(d, db, n) PROVE Adds(v, db, n)
  <2>1. ASSUME NEW m \in En!Row \X En!RunId, db.claims[m] # Nothing \/ m[2] # n PROVE v.claims[m] = db.claims[m]
    <3>1. m # k
      BY <1>3, <1>5, <1>10, <2>1 DEF Adds, Slot
    <3>. QED
      BY <1>4, <1>10, <2>1, <3>1 DEF Adds, Slot
  <2>. QED
    BY <1>4, <1>10, <2>1 DEF Adds
<1>. QED
  BY <1>1, <1>4, <1>8, <1>9, <1>10 DEF AllWhole

LEMMA ImportRowKeeps ==
  ASSUME EnrichInv, NEW i \in Importer, En!ImportRow(i)
  PROVE  EnrichInv'
<1>1. PICK j : j = imports[i]
  OBVIOUS
<1>2. PICK v : v = En!View(i)
  OBVIOUS
<1>3. PICK x : x = [by |-> i, label |-> [domain |-> OldRows[j.next].domain, classification |-> Nothing]]
  OBVIOUS
<1>4. PICK t : t = SetClaim(v, <<j.next, j.run>>, x)
  OBVIOUS
<1>5. PICK full \in BOOLEAN : full = (j.batch + 1 = BatchSize)
  OBVIOUS
<1>6. /\ En!Reading(i) /\ En!MayWrite(i) /\ UNCHANGED <<listed, unvectored, ended>>
      /\ En!Inserts(v, j.run, j.next) =>
           /\ imports' = [imports EXCEPT ![i] =
                            [En!Counted(j, "hashed") EXCEPT !.batch = IF full THEN 0 ELSE @ + 1]]
           /\ full => En!EndBatch(i, t)
           /\ ~full => En!Hold(i, t)
      /\ ~En!Inserts(v, j.run, j.next) =>
           /\ imports' = [imports EXCEPT ![i] = En!Counted(j, "skipped")] /\ En!Hold(i, v)
  BY <1>1, <1>2, <1>3, <1>4, <1>5 DEF En!ImportRow, SetClaim
<1>7. /\ v \in Database /\ j \in Import /\ imports \in [Importer -> Import]
      /\ i \in Real /\ j.run # Nothing => AllWhole(v) /\ Adds(v, db, j.run) /\ Underway(v, i, j)
  BY <1>1, <1>2, <1>6, Sight DEF EnrichInv, EnrichTypes
<1>8. j.run # Nothing /\ j.run \in En!RunId /\ j.next \in 1..Len(OldRows) /\ j.next \in En!Row /\ j.next <= Len(OldRows)
  BY <1>1, <1>6, <1>7, EnrichConstants DEF En!Reading, Import
<1>9. x \in En!Claim /\ x.by = i
  <2>1. OldRows[j.next].domain \in En!Label /\ Nothing \in En!Label
    BY <1>8 DEF En!Label
  <2>. QED
    BY <1>3, <2>1 DEF En!Claim, En!Field
<1>10. t \in Database
  <2>1. PICK k \in Slot : k = <<j.next, j.run>>
    BY <1>8 DEF Slot
  <2>2. t = SetClaim(v, k, x) /\ v \in Database /\ k \in Slot /\ x \in En!Claim
    BY <1>4, <1>7, <1>9, <2>1
  <2>. QED
    BY ONLY <2>2, WithClaim
<1>11. CASE ~En!Inserts(v, j.run, j.next)
  <2>1. PICK y : y = En!Counted(j, "skipped")
    OBVIOUS
  <2>2. y \in Import /\ y.run = j.run
    BY <1>7, <2>1, CountedIs
  <2>3. Advances(i, y)
    BY <1>6, <1>7, <1>11, <2>1, <2>2 DEF Advances
  <2>4. i \in Real => AllWhole(v) /\ Adds(v, db, y.run) /\ Underway(v, i, y)
    BY <1>7, <1>8, <2>1, <2>2, UnderwayNext
  <2>. QED
    BY <1>6, <1>7, <1>8, <1>11, <2>2, <2>3, <2>4, HoldKeeps
<1>12. CASE En!Inserts(v, j.run, j.next)
  <2>1. PICK z : z = En!Counted(j, "hashed")
    OBVIOUS
  <2>2. /\ z \in Import /\ z.run = j.run /\ z.next = j.next + 1 /\ z.batch = j.batch
        /\ z.counts.read = j.counts.read + 1 /\ z.counts.hashed = j.counts.hashed + 1
        /\ z.counts.skipped = j.counts.skipped /\ z.counts.errors = j.counts.errors
    BY <1>7, <2>1, CountedIs
  <2>3. PICK b \in Nat : b = IF full THEN 0 ELSE j.batch + 1
    BY <1>7 DEF Import
  <2>4. PICK y : y = [z EXCEPT !.batch = b]
    OBVIOUS
  <2>5. /\ y \in Import /\ y.run = j.run /\ y.next = j.next + 1 /\ y.counts = z.counts
    BY <2>2, <2>3, <2>4 DEF Import
  <2>6. imports' = [imports EXCEPT ![i] = y]
    BY <1>6, <1>12, <2>1, <2>2, <2>3, <2>4
  <2>7. Advances(i, y)
    BY <1>7, <2>5, <2>6 DEF Advances
  <2>8. i \in Real => /\ AllWhole(t) /\ Underway(t, i, y) /\ t.runs = v.runs /\ Adds(t, db, y.run)
                      /\ v.runs[j.run] # Nothing /\ v.runs[j.run].by = i
    <3>1. ASSUME i \in Real
          PROVE  AllWhole(t) /\ Underway(t, i, y) /\ t.runs = v.runs /\ (Adds(v, db, j.run) => Adds(t, db, j.run))
      BY <1>4, <1>7, <1>8, <1>9, <2>2, <2>5, <3>1, ClaimAdded
    <3>. QED
      BY <1>7, <1>8, <2>5, <3>1 DEF Underway
  <2>9. CASE ~full
    BY <1>6, <1>8, <1>10, <1>12, <2>5, <2>7, <2>8, <2>9, HoldKeeps
  <2>10. CASE full
    <3>1. PICK w : w = IF i \in DryRun THEN db ELSE t
      OBVIOUS
    <3>2. En!Commit(w)
      BY <1>6, <1>12, <2>10, <3>1 DEF En!EndBatch
    <3>3. w \in Database /\ (i \notin Real => w = db) /\ (i \in Real => w = t)
      BY <1>10, <3>1 DEF Real, EnrichInv, EnrichTypes
    <3>. QED
      BY <1>1, <1>6, <1>8, <2>5, <2>7, <2>8, <3>2, <3>3, BatchEndKeeps
  <2>. QED
    BY <2>9, <2>10
<1>. QED
  BY <1>11, <1>12

LEMMA FinishImportKeeps ==
  ASSUME EnrichInv, NEW i \in Importer, En!FinishImport(i)
  PROVE  EnrichInv'
<1>1. PICK j : j = imports[i]
  OBVIOUS
<1>2. PICK v : v = En!View(i)
  OBVIOUS
<1>3. PICK z : z = [v.runs[j.run] EXCEPT !.finished = TRUE, !.counts = j.counts]
  OBVIOUS
<1>4. PICK t : t = IF v.runs[j.run] = Nothing THEN v ELSE SetRun(v, j.run, z)
  OBVIOUS
<1>5. PICK w : w = IF i \in DryRun THEN db ELSE t
  OBVIOUS
<1>6. /\ j.run # Nothing /\ ~En!Reading(i) /\ En!MayWrite(i) /\ ended' = ended \cup {i}
      /\ UNCHANGED <<imports, listed, unvectored>>
  BY <1>1 DEF En!FinishImport
<1>7. En!Commit(w)
  <2>1. [v EXCEPT !.runs[j.run] = [@ EXCEPT !.finished = TRUE, !.counts = j.counts]] = SetRun(v, j.run, z)
    BY <1>2, <1>3, <1>6, Sight, Parts DEF SetRun
  <2>. QED
    BY <1>1, <1>2, <1>4, <1>5, <2>1 DEF En!FinishImport
<1>8. /\ v \in Database /\ j \in Import /\ imports \in [Importer -> Import]
      /\ i \in Real => AllWhole(v) /\ Adds(v, db, j.run) /\ Underway(v, i, j)
  BY <1>1, <1>2, <1>6, Sight DEF EnrichInv, EnrichTypes
<1>9. j.run \in En!RunId /\ j.counts \in [CountField -> Nat]
  BY <1>6, <1>8 DEF Import
<1>10. Advances(i, j)
  BY <1>1, <1>6, <1>8 DEF Advances
<1>11. ASSUME i \in Real
       PROVE  t \in Database /\ AllWhole(t) /\ Adds(t, db, j.run) /\ t.runs[j.run] # Nothing /\ t.runs[j.run].by = i
  <2>1. PICK n \in En!RunId : n = j.run
    BY <1>9
  <2>2. v.runs[n] # Nothing /\ v.runs[n].by = i /\ v.runs[n] \in En!Run
    BY <1>8, <1>11, <2>1, Parts DEF Underway
  <2>3. z = [by |-> i, finished |-> TRUE, counts |-> j.counts]
    BY <1>3, <2>1, <2>2 DEF En!Run
  <2>4. z \in En!Run
    BY <1>9, <2>3 DEF En!Run, CountField
  <2>5. z # Nothing /\ z.by = i /\ z.counts = j.counts
    BY <2>3, <2>4, EnrichConstants
  <2>6. t = SetRun(v, n, z)
    BY <1>4, <2>1, <2>2
  <2>7. /\ t \in Database /\ t.runs[n] = z /\ \A m \in En!RunId \ {n} : t.runs[m] = v.runs[m]
        /\ t.claims = v.claims /\ t.rows = v.rows /\ t.vecs = v.vecs
    BY <1>8, <2>4, <2>6, WithRun
  <2>8. RunWhole(t, n)
    <3>1. j.next = Len(OldRows) + 1 /\ AddsUp(j.counts, v, n, j.next - 1)
      BY <1>1, <1>6, <1>8, <1>11, <2>1, EnrichConstants DEF Underway, En!Reading, Import
    <3>2. Of(t, n) = Of(v, n)
      BY <2>7 DEF Of
    <3>3. AddsUp(z.counts, t, n, Len(OldRows))
      BY <2>5, <3>1, <3>2, EnrichConstants DEF AddsUp
    <3>4. \A k \in Of(t, n) : t.claims[k].by = i
      BY <1>8, <1>11, <2>2, <2>7, <3>2 DEF AllWhole, RunWhole
    <3>. QED
      BY <1>11, <2>5, <2>7, <3>3, <3>4 DEF RunWhole, Real
  <2>9. ASSUME NEW m \in En!RunId, m # n PROVE RunWhole(t, m)
    <3>1. RunWhole(v, m) /\ t.runs[m] = v.runs[m]
      BY <1>8, <1>11, <2>7, <2>9 DEF AllWhole
    <3>. QED
      BY <2>7, <3>1, RunWholeStays
  <2>10. Adds(t, db, n)
    BY <1>8, <1>11, <2>1, <2>2, <2>5, <2>7 DEF Adds
  <2>. QED
    BY <2>1, <2>5, <2>7, <2>8, <2>9, <2>10 DEF AllWhole
<1>12. w \in Database /\ (i \notin Real => w = db) /\ (i \in Real => w = t)
  BY <1>5, <1>11 DEF Real, EnrichInv, EnrichTypes
<1>13. i \in ended'
  BY <1>6
<1>. QED
  BY <1>1, <1>6, <1>7, <1>8, <1>10, <1>11, <1>12, <1>13, BatchEndKeeps

(* What is left of the invariant when no import does anything, and when       *)
(* somebody else commits.                                                     *)
ImportsHold ==
  /\ holder \in Real => AllWhole(tx) /\ Adds(tx, db, imports[holder].run)
  /\ \A i \in Real : i \notin ended /\ imports[i].run # Nothing => Underway(En!View(i), i, imports[i])

LEMMA ImportsRest ==
  ASSUME EnrichInv, UNCHANGED <<db, tx, holder, imports>>, ended \subseteq ended',
         holder # Nothing => holder \notin ended'
  PROVE  EnrichTypes' /\ AllWhole(db)' /\ ImportsHold'
<1>1. EnrichTypes'
  BY DEF EnrichInv, EnrichTypes
<1>2. AllWhole(db)'
  BY DEF EnrichInv
<1>3. \A i : En!View(i)' = En!View(i)
  BY DEF En!View
<1>4. (holder \in Real => AllWhole(tx) /\ Adds(tx, db, imports[holder].run))'
  BY DEF EnrichInv
<1>5. ASSUME NEW i \in Real, i \notin ended', imports'[i].run # Nothing PROVE Underway(En!View(i), i, imports[i])'
  BY <1>3, <1>5 DEF EnrichInv
<1>. QED
  BY <1>1, <1>2, <1>4, <1>5 DEF ImportsHold

LEMMA CommitRest ==
  ASSUME EnrichInv, NEW v \in Database, En!Commit(v), UNCHANGED imports, ended \subseteq ended',
         holder = Nothing \/ holder \in ended', v.runs = db.runs,
         \A k \in Slot : /\ v.claims[k] = Nothing <=> db.claims[k] = Nothing
                         /\ db.claims[k] # Nothing => v.claims[k].by = db.claims[k].by
  PROVE  EnrichTypes' /\ AllWhole(db)' /\ ImportsHold'
<1>1. db' = v /\ holder' = Nothing /\ imports' = imports /\ Nothing \notin Real
  BY EnrichConstants DEF En!Commit, Real
<1>2. EnrichTypes'
  BY <1>1 DEF EnrichInv, EnrichTypes
<1>3. ASSUME NEW n \in En!RunId PROVE RunWhole(v, n)
  <2>1. RunWhole(db, n)
    BY DEF EnrichInv, AllWhole
  <2>2. \A r \in En!Row : /\ v.claims[<<r, n>>] = Nothing <=> db.claims[<<r, n>>] = Nothing
                          /\ db.claims[<<r, n>>] # Nothing => v.claims[<<r, n>>].by = db.claims[<<r, n>>].by
    BY DEF Slot
  <2>. QED
    BY <2>1, <2>2, RunWholeStays
<1>4. AllWhole(db)'
  BY <1>1, <1>3 DEF AllWhole
<1>5. ASSUME NEW i \in Real, i \notin ended', imports'[i].run # Nothing PROVE Underway(En!View(i), i, imports[i])'
  <2>1. i # Nothing /\ i # holder /\ i \in Importer /\ i \notin ended /\ imports[i].run # Nothing
    BY <1>1, <1>5 DEF Real
  <2>2. En!View(i) = db /\ En!View(i)' = v
    BY <1>1, <2>1 DEF En!View
  <2>3. Underway(db, i, imports[i]) /\ imports[i] \in Import
    BY <2>1, <2>2 DEF EnrichInv, EnrichTypes
  <2>4. imports[i].run \in En!RunId
    BY <2>1, <2>3 DEF Import
  <2>5. \A r \in En!Row : v.claims[<<r, imports[i].run>>] = Nothing <=> db.claims[<<r, imports[i].run>>] = Nothing
    BY <2>4 DEF Slot
  <2>6. Underway(v, i, imports[i])
    BY <2>3, <2>5, UnderwayStays
  <2>. QED
    BY <1>1, <2>2, <2>6
<1>. QED
  BY <1>1, <1>2, <1>4, <1>5 DEF ImportsHold

LEMMA SelectKeeps ==
  ASSUME EnrichInv, NEW c \in Classifier, En!Select(c)
  PROVE  EnrichInv'
<1>1. UNCHANGED <<db, tx, holder, imports, unvectored, ended>>
  BY DEF En!Select
<1>2. holder # Nothing => holder \notin ended'
  BY <1>1, EnrichConstants DEF EnrichInv, EnrichTypes, En!Select
<1>3. EnrichTypes' /\ AllWhole(db)' /\ ImportsHold'
  BY <1>1, <1>2, ImportsRest
<1>4. PICK S : S = {k \in En!Row \X En!RunId : db.claims[k] # Nothing
                      /\ (c \in Relabel \/ \E f \in En!Field : db.claims[k].label[f] = Nothing)}
  OBVIOUS
<1>5. listed' = [listed EXCEPT ![c] = S] /\ \A k \in S : k \in En!Row \X En!RunId /\ db.claims[k] # Nothing
  BY <1>4 DEF En!Select
<1>6. DOMAIN listed = Classifier \cup Embedder
  BY DEF EnrichInv, Selections
<1>7. listed'[c] = S /\ DOMAIN listed' = DOMAIN listed /\ \A d \in DOMAIN listed : d # c => listed'[d] = listed[d]
  BY <1>5, <1>6
<1>8. ASSUME NEW d \in Classifier, listed'[d] # Nothing, NEW k \in listed'[d]
      PROVE  k \in En!Row \X En!RunId /\ db'.claims[k] # Nothing
  BY <1>1, <1>5, <1>6, <1>7, <1>8 DEF EnrichInv, Selections
<1>9. ASSUME NEW e \in Embedder, listed'[e] # Nothing
      PROVE  listed'[e] \in [had : SUBSET En!Content, left : SUBSET En!Content]
  <2>1. e # c
    BY EnrichConstants
  <2>. QED
    BY <1>6, <1>7, <1>9, <2>1 DEF EnrichInv, Selections
<1>10. Selections'
  BY <1>6, <1>7, <1>8, <1>9 DEF Selections
<1>11. Vectors'
  BY <1>1 DEF EnrichInv, Vectors
<1>. QED
  BY <1>3, <1>10, <1>11 DEF EnrichInv, ImportsHold

LEMMA ClassifyKeeps ==
  ASSUME EnrichInv, NEW c \in Classifier, En!Classify(c)
  PROVE  /\ EnrichInv'
         /\ \A k \in Slot : db.claims[k] # Nothing =>
              \A f \in En!Field : \/ db'.claims[k].label[f] = db.claims[k].label[f]
                                  \/ db.claims[k].label[f] = Nothing
                                  \/ c \in Relabel /\ db'.claims[k].label[f] = Policy[c][f]
<1>1. PICK g : g = [k \in En!Row \X En!RunId |->
                      LET claim == db.claims[k] IN
                      IF k \in listed[c] THEN [claim EXCEPT !.label = En!Labeled(c, @)] ELSE claim]
  OBVIOUS
<1>2. PICK v : v = [db EXCEPT !.claims = g]
  OBVIOUS
<1>3. /\ En!MayWrite(c) /\ listed[c] # Nothing /\ En!Commit(v) /\ ended' = ended \cup {c}
      /\ UNCHANGED <<imports, listed, unvectored>> /\ db \in Database
  BY <1>1, <1>2 DEF En!Classify, EnrichInv, EnrichTypes
<1>4. v.claims = g /\ v.runs = db.runs /\ v.rows = db.rows /\ v.vecs = db.vecs
  BY <1>2, <1>3, Parts
<1>5. ASSUME NEW k \in Slot
      PROVE  /\ g[k] \in En!Claim \cup {Nothing} /\ (g[k] = Nothing <=> db.claims[k] = Nothing)
             /\ db.claims[k] # Nothing => /\ g[k].by = db.claims[k].by
                                          /\ g[k].label \in {db.claims[k].label, En!Labeled(c, db.claims[k].label)}
  <2>0. db.claims[k] \in En!Claim \cup {Nothing}
    BY <1>3, Parts DEF Slot
  <2>1. CASE k \notin listed[c]
    BY <1>1, <2>0, <2>1 DEF Slot
  <2>2. CASE k \in listed[c]
    <3>1. PICK x \in En!Claim : x = db.claims[k]
      BY <1>3, <2>0, <2>2 DEF EnrichInv, Selections
    <3>2. PICK l : l = En!Labeled(c, x.label)
      OBVIOUS
    <3>3. x.label \in [En!Field -> En!Label] /\ x.by \in Importer
      BY DEF En!Claim
    <3>4. \A f \in En!Field : Policy[c][f] \in En!Label
      BY DEF En!Label
    <3>5. l \in [En!Field -> En!Label]
      BY <3>2, <3>3, <3>4 DEF En!Labeled
    <3>6. g[k] = [by |-> x.by, label |-> l]
      BY <1>1, <2>2, <3>1, <3>2 DEF Slot, En!Claim
    <3>7. g[k] \in En!Claim
      BY <3>3, <3>5, <3>6 DEF En!Claim
    <3>8. g[k] # Nothing /\ x # Nothing
      BY <3>7, EnrichConstants
    <3>. QED
      BY <3>1, <3>2, <3>6, <3>7, <3>8
  <2>. QED
    BY <2>1, <2>2
<1>6. v \in Database
  <2>1. g \in [En!Row \X En!RunId -> En!Claim \cup {Nothing}]
    BY <1>1, <1>5 DEF Slot
  <2>. QED
    BY <1>2, <1>3, <2>1, Parts DEF Database
<1>7. c # Nothing /\ c \notin Importer /\ holder = Nothing
  BY <1>3, EnrichConstants DEF En!MayWrite, EnrichInv, EnrichTypes
<1>8. \A k \in Slot : /\ v.claims[k] = Nothing <=> db.claims[k] = Nothing
                      /\ db.claims[k] # Nothing => v.claims[k].by = db.claims[k].by
  BY <1>4, <1>5
<1>9. EnrichTypes' /\ AllWhole(db)' /\ ImportsHold'
  BY <1>3, <1>4, <1>6, <1>7, <1>8, CommitRest
<1>10. db' = v
  BY <1>3 DEF En!Commit
<1>11. Selections'
  <2>1. \A d \in Classifier : listed'[d] # Nothing => \A k \in listed'[d] :
           k \in En!Row \X En!RunId /\ db'.claims[k] # Nothing
    BY <1>3, <1>8, <1>10 DEF EnrichInv, Selections, Slot
  <2>. QED
    BY <1>3, <2>1 DEF EnrichInv, Selections
<1>12. Vectors'
  BY <1>3, <1>4, <1>10 DEF EnrichInv, Vectors
<1>13. ASSUME NEW k \in Slot, db.claims[k] # Nothing, NEW f \in En!Field
       PROVE  \/ db'.claims[k].label[f] = db.claims[k].label[f]
              \/ db.claims[k].label[f] = Nothing
              \/ c \in Relabel /\ db'.claims[k].label[f] = Policy[c][f]
  <2>1. db'.claims[k].label \in {db.claims[k].label, En!Labeled(c, db.claims[k].label)}
    BY <1>4, <1>5, <1>10, <1>13
  <2>. QED
    BY <2>1 DEF En!Labeled
<1>. QED
  BY <1>9, <1>11, <1>12, <1>13 DEF EnrichInv, ImportsHold

LEMMA SelectContentsKeeps ==
  ASSUME EnrichInv, NEW e \in Embedder, En!SelectContents(e) \/ En!WaitTooLong(e)
  PROVE  EnrichInv'
<1>1. UNCHANGED <<db, tx, holder, imports, unvectored, ended>>
  BY DEF En!SelectContents, En!WaitTooLong
<1>2. holder # Nothing => holder \notin ended'
  BY <1>1 DEF EnrichInv, EnrichTypes
<1>3. EnrichTypes' /\ AllWhole(db)' /\ ImportsHold'
  BY <1>1, <1>2, ImportsRest
<1>4. DOMAIN listed = Classifier \cup Embedder
  BY DEF EnrichInv, Selections
<1>5. PICK s : /\ listed' = [listed EXCEPT ![e] = s]
               /\ s \in [had : SUBSET En!Content, left : SUBSET En!Content]
  <2>1. CASE En!SelectContents(e)
    <3>1. PICK all \in BOOLEAN :
            listed' = [listed EXCEPT ![e] =
              [had |-> db.rows,
               left |-> {x \in En!Content : (all \/ x \notin db.rows)
                          /\ \E k \in En!Row \X En!RunId : db.claims[k] # Nothing /\ OldRows[k[1]].content = x}]]
      BY <2>1 DEF En!SelectContents
    <3>2. PICK L \in SUBSET En!Content : L = {x \in En!Content : (all \/ x \notin db.rows)
                          /\ \E k \in En!Row \X En!RunId : db.claims[k] # Nothing /\ OldRows[k[1]].content = x}
      OBVIOUS
    <3>3. db.rows \in SUBSET En!Content
      BY Parts DEF EnrichInv, EnrichTypes
    <3>4. PICK s : s = [had |-> db.rows, left |-> L]
      OBVIOUS
    <3>5. s \in [had : SUBSET En!Content, left : SUBSET En!Content]
      BY <3>3, <3>4
    <3>6. listed' = [listed EXCEPT ![e] = s]
      BY <3>1, <3>2, <3>4
    <3>. QED
      BY <3>5, <3>6
  <2>2. CASE En!WaitTooLong(e)
    <3>1. PICK x \in listed[e].left : listed' = [listed EXCEPT ![e].left = @ \ {x}]
      BY <2>2 DEF En!WaitTooLong
    <3>2. listed[e] \in [had : SUBSET En!Content, left : SUBSET En!Content]
      BY <2>2 DEF En!WaitTooLong, EnrichInv, Selections
    <3>3. PICK s : s = [listed[e] EXCEPT !.left = @ \ {x}]
      OBVIOUS
    <3>4. s \in [had : SUBSET En!Content, left : SUBSET En!Content]
      BY <3>2, <3>3
    <3>5. listed' = [listed EXCEPT ![e] = s]
      BY <3>1, <3>3
    <3>. QED
      BY <3>4, <3>5
  <2>. QED
    BY <2>1, <2>2
<1>6. listed'[e] = s /\ DOMAIN listed' = DOMAIN listed /\ \A d \in DOMAIN listed : d # e => listed'[d] = listed[d]
  BY <1>4, <1>5
<1>7. ASSUME NEW d \in Classifier, listed'[d] # Nothing, NEW k \in listed'[d]
      PROVE  k \in En!Row \X En!RunId /\ db'.claims[k] # Nothing
  <2>1. d # e
    BY EnrichConstants
  <2>. QED
    BY <1>1, <1>4, <1>6, <1>7, <2>1 DEF EnrichInv, Selections
<1>8. ASSUME NEW d \in Embedder, listed'[d] # Nothing
      PROVE  listed'[d] \in [had : SUBSET En!Content, left : SUBSET En!Content]
  BY <1>4, <1>5, <1>6, <1>8 DEF EnrichInv, Selections
<1>9. Selections'
  BY <1>4, <1>6, <1>7, <1>8 DEF Selections
<1>10. Vectors'
  BY <1>1 DEF EnrichInv, Vectors
<1>. QED
  BY <1>3, <1>9, <1>10 DEF EnrichInv, ImportsHold

LEMMA EmbedKeeps ==
  ASSUME EnrichInv, NEW e \in Embedder, En!Embed(e)
  PROVE  EnrichInv' /\ db'.claims = db.claims
<1>1. PICK L : L = listed[e].left
  OBVIOUS
<1>2. PICK done \in SUBSET L, bad \in SUBSET L :
        /\ En!Commit([db EXCEPT !.rows = @ \cup done, !.vecs = (@ \ done) \cup (done \ bad)])
        /\ unvectored' = (unvectored \ done) \cup (bad \cap done)
  <2>1. PICK late \in SUBSET {x \in L : x \in db.rows /\ x \notin listed[e].had}, bad \in SUBSET L :
          /\ En!Commit([db EXCEPT !.rows = @ \cup (L \ late), !.vecs = (@ \ (L \ late)) \cup ((L \ late) \ bad)])
          /\ unvectored' = (unvectored \ (L \ late)) \cup (bad \cap (L \ late))
    BY <1>1 DEF En!Embed
  <2>2. PICK done \in SUBSET L : done = L \ late
    OBVIOUS
  <2>. QED
    BY <2>1, <2>2
<1>3. PICK v : v = [db EXCEPT !.rows = @ \cup done, !.vecs = (@ \ done) \cup (done \ bad)]
  OBVIOUS
<1>4. /\ En!MayWrite(e) /\ listed[e] # Nothing /\ En!Commit(v) /\ ended' = ended \cup {e}
      /\ UNCHANGED <<imports, listed>> /\ db \in Database /\ L \subseteq En!Content
  BY <1>1, <1>2, <1>3 DEF En!Embed, EnrichInv, EnrichTypes, Selections
<1>5. /\ v.claims = db.claims /\ v.runs = db.runs /\ v.rows = db.rows \cup done
      /\ v.vecs = (db.vecs \ done) \cup (done \ bad)
  BY <1>3, <1>4, Parts
<1>6. v \in Database
  <2>1. v = [runs |-> v.runs, claims |-> v.claims, rows |-> v.rows, vecs |-> v.vecs]
    BY <1>3, <1>4 DEF Database
  <2>2. v.rows \subseteq En!Content /\ v.vecs \subseteq En!Content
    BY <1>4, <1>5, Parts
  <2>3. v.runs \in [En!RunId -> En!Run \cup {Nothing}] /\ v.claims \in [En!Row \X En!RunId -> En!Claim \cup {Nothing}]
    BY <1>4, <1>5, Parts
  <2>. QED
    BY <2>1, <2>2, <2>3 DEF Database
<1>7. e # Nothing /\ e \notin Importer /\ holder = Nothing
  BY <1>4, EnrichConstants DEF En!MayWrite, EnrichInv, EnrichTypes
<1>8. EnrichTypes' /\ AllWhole(db)' /\ ImportsHold'
  BY <1>4, <1>5, <1>6, <1>7, CommitRest
<1>9. db' = v
  BY <1>4 DEF En!Commit
<1>10. Selections'
  BY <1>4, <1>5, <1>9 DEF EnrichInv, Selections
<1>11. Vectors'
  BY <1>2, <1>5, <1>9 DEF EnrichInv, Vectors
<1>. QED
  BY <1>5, <1>8, <1>9, <1>10, <1>11 DEF EnrichInv, ImportsHold

LEMMA DieKeeps ==
  ASSUME EnrichInv, NEW p \in Importer \cup Classifier \cup Embedder, En!Die(p)
  PROVE  EnrichInv' /\ db' = db
<1>1. /\ ended' = ended \cup {p} /\ UNCHANGED <<imports, listed, unvectored>> /\ db \in Database
      /\ holder = p => En!Commit(db)
      /\ holder # p => UNCHANGED <<db, tx, holder>>
  BY DEF En!Die, EnrichInv, EnrichTypes
<1>2. db' = db
  BY <1>1 DEF En!Commit
<1>3. Selections' /\ Vectors'
  BY <1>1, <1>2 DEF EnrichInv, Selections, Vectors
<1>4. EnrichTypes' /\ AllWhole(db)' /\ ImportsHold'
  <2>1. CASE holder = p
    BY <1>1, <2>1, CommitRest
  <2>2. CASE holder # p
    <3>1. holder # Nothing => holder \notin ended'
      BY <1>1, <2>2 DEF EnrichInv, EnrichTypes
    <3>. QED
      BY <1>1, <2>2, <3>1, ImportsRest
  <2>. QED
    BY <2>1, <2>2
<1>. QED
  BY <1>2, <1>3, <1>4 DEF EnrichInv, ImportsHold

(* What an import commits only adds claims.                                   *)
LEMMA ImportKeepsClaims ==
  ASSUME EnrichInv, NEW i \in Importer, En!ImportRow(i) \/ En!FinishImport(i), NEW k \in Slot, db.claims[k] # Nothing
  PROVE  db'.claims[k] = db.claims[k]
<1>1. PICK j : j = imports[i]
  OBVIOUS
<1>2. PICK v : v = En!View(i)
  OBVIOUS
<1>3. /\ En!MayWrite(i) /\ v \in Database /\ j \in Import /\ j.run # Nothing
      /\ i \in Real => Adds(v, db, j.run) /\ Underway(v, i, j)
  BY <1>1, <1>2, Sight DEF En!ImportRow, En!FinishImport, En!Reading
<1>4. PICK r \in En!Row, n \in En!RunId : k = <<r, n>>
  BY DEF Slot
<1>5. CASE En!FinishImport(i)
  <2>1. PICK c : c = IF v.runs[j.run] = Nothing THEN v
                     ELSE [v EXCEPT !.runs[j.run] = [@ EXCEPT !.finished = TRUE, !.counts = j.counts]]
    OBVIOUS
  <2>2. c.claims = v.claims
    BY <1>3, <2>1, Parts
  <2>3. db' = IF i \in DryRun THEN db ELSE c
    BY <1>1, <1>2, <1>5, <2>1 DEF En!FinishImport, En!Commit
  <2>4. CASE i \in DryRun
    BY <2>3, <2>4
  <2>5. CASE i \notin DryRun
    BY <1>3, <2>2, <2>3, <2>5 DEF Adds, Real, Slot
  <2>. QED
    BY <2>4, <2>5
<1>6. CASE En!ImportRow(i)
  <2>1. PICK x : x = [by |-> i, label |-> [domain |-> OldRows[j.next].domain, classification |-> Nothing]]
    OBVIOUS
  <2>2. PICK t : t = [v EXCEPT !.claims[<<j.next, j.run>>] = x]
    OBVIOUS
  <2>3. db' = db \/ (i \notin DryRun /\ db' = t)
    BY <1>1, <1>2, <1>6, <2>1, <2>2 DEF En!ImportRow, En!EndBatch, En!Commit, En!Hold
  <2>4. ASSUME i \notin DryRun PROVE t.claims[k] = db.claims[k]
    <3>1. v.claims[k] = db.claims[k]
      BY <1>3, <2>4 DEF Adds, Real, Slot
    <3>2. k # <<j.next, j.run>>
      <4>1. ASSUME k = <<j.next, j.run>> PROVE FALSE
        <5>1. r = j.next /\ n = j.run /\ r \in Nat
          BY <1>4, <4>1, EnrichConstants
        <5>2. v.claims[<<r, j.run>>] = Nothing
          BY <1>3, <2>4, <5>1 DEF Underway, Real
        <5>. QED
          BY <1>4, <3>1, <5>1, <5>2
      <4>. QED
        BY <4>1
    <3>3. t.claims = [v.claims EXCEPT ![<<j.next, j.run>>] = x]
      BY <1>3, <2>2, Parts
    <3>4. v.claims \in [Slot -> En!Claim \cup {Nothing}]
      BY <1>3, Parts DEF Slot
    <3>. QED
      BY <3>1, <3>2, <3>3, <3>4
  <2>. QED
    BY <2>3, <2>4
<1>. QED
  BY <1>5, <1>6

(* What a step may do to a label.                                             *)
LabelKept(k, f) ==
  db.claims[k] # Nothing =>
    \/ db.claims[k].label[f] \in {Nothing, db'.claims[k].label[f]}
    \/ \E c \in Relabel \cap (ended' \ ended) : db'.claims[k].label[f] = Policy[c][f]

LEMMA EnrichInvNext ==
  EnrichInv /\ [En!Next]_En!vars =>
    EnrichInv' /\ \A k \in En!Row \X En!RunId : \A f \in En!Field : LabelKept(k, f)
<1>. SUFFICES ASSUME EnrichInv, [En!Next]_En!vars
              PROVE  EnrichInv' /\ \A k \in En!Row \X En!RunId : \A f \in En!Field : LabelKept(k, f)
  OBVIOUS
<1>1. ASSUME \A k \in Slot : db.claims[k] # Nothing => db'.claims[k] = db.claims[k]
      PROVE  \A k \in En!Row \X En!RunId : \A f \in En!Field : LabelKept(k, f)
  BY <1>1 DEF LabelKept, Slot
<1>2. ASSUME NEW i \in Importer, En!StartImport(i) \/ En!PassOver(i) \/ En!ImportRow(i) \/ En!FinishImport(i)
      PROVE  EnrichInv' /\ \A k \in Slot : db.claims[k] # Nothing => db'.claims[k] = db.claims[k]
  <2>1. EnrichInv'
    BY <1>2, StartImportKeeps, PassOverKeeps, ImportRowKeeps, FinishImportKeeps
  <2>2. CASE En!StartImport(i) \/ En!PassOver(i)
    BY <2>1, <2>2 DEF En!StartImport, En!PassOver, En!Hold
  <2>3. CASE En!ImportRow(i) \/ En!FinishImport(i)
    BY <1>2, <2>1, <2>3, ImportKeepsClaims
  <2>. QED
    BY <1>2, <2>2, <2>3
<1>3. ASSUME NEW c \in Classifier, En!Select(c)
      PROVE  EnrichInv' /\ db' = db
  BY <1>3, SelectKeeps DEF En!Select
<1>4. ASSUME NEW c \in Classifier, En!Classify(c)
      PROVE  EnrichInv' /\ \A k \in En!Row \X En!RunId : \A f \in En!Field : LabelKept(k, f)
  <2>1. /\ EnrichInv'
        /\ \A k \in Slot : db.claims[k] # Nothing =>
             \A f \in En!Field : \/ db'.claims[k].label[f] = db.claims[k].label[f]
                                 \/ db.claims[k].label[f] = Nothing
                                 \/ c \in Relabel /\ db'.claims[k].label[f] = Policy[c][f]
    BY <1>4, ClassifyKeeps
  <2>2. c \in ended' \ ended
    BY <1>4 DEF En!Classify, En!MayWrite
  <2>. QED
    BY <2>1, <2>2 DEF LabelKept, Slot
<1>5. ASSUME NEW e \in Embedder, En!SelectContents(e) \/ En!WaitTooLong(e)
      PROVE  EnrichInv' /\ db' = db
  BY <1>5, SelectContentsKeeps DEF En!SelectContents, En!WaitTooLong
<1>6. ASSUME NEW e \in Embedder, En!Embed(e)
      PROVE  EnrichInv' /\ db'.claims = db.claims
  BY <1>6, EmbedKeeps
<1>7. ASSUME NEW p \in Importer \cup Classifier \cup Embedder, En!Die(p)
      PROVE  EnrichInv' /\ db' = db
  BY <1>7, DieKeeps
<1>8. CASE UNCHANGED En!vars
  <2>1. db' = db /\ tx' = tx /\ holder' = holder /\ imports' = imports /\ listed' = listed /\ unvectored' = unvectored
        /\ ended' = ended
    BY <1>8 DEF En!vars
  <2>2. EnrichTypes' /\ AllWhole(db)' /\ ImportsHold'
    BY <2>1, ImportsRest DEF EnrichInv, EnrichTypes
  <2>3. Selections' /\ Vectors'
    BY <2>1 DEF EnrichInv, Selections, Vectors
  <2>. QED
    BY <1>1, <2>1, <2>2, <2>3 DEF EnrichInv, ImportsHold
<1>. QED
  BY <1>1, <1>2, <1>3, <1>4, <1>5, <1>6, <1>7, <1>8 DEF En!Next

(* However runs are killed and rolled back: a committed claim has its run,    *)
(* none is of a dry run, a finished run adds up, and a content without a      *)
(* vector failed to get one.                                                  *)
THEOREM CommitsAreWhole == InventorySpec => []CommittedWhole
<1>1. EnrichInv => En!CommittedWhole
  <2>. SUFFICES ASSUME EnrichInv PROVE En!CommittedWhole
    OBVIOUS
  <2>1. ASSUME NEW n \in En!RunId PROVE RunWhole(db, n)
    BY DEF EnrichInv, AllWhole
  <2>2. db.vecs \subseteq db.rows /\ db.rows \ db.vecs \subseteq unvectored
    BY DEF EnrichInv, Vectors
  <2>. QED
    BY <2>1, <2>2 DEF En!CommittedWhole, RunWhole, AddsUp, Of, Cardinality, En!Cardinality
<1>2. EnrichInv /\ [En!Next]_En!vars => EnrichInv'
  BY EnrichInvNext
<1>3. En!Spec => []En!CommittedWhole
  BY <1>1, <1>2, EnrichInvInit, PTL DEF En!Spec
<1>4. En!CommittedWhole => CommittedWhole
  BY DEF CommittedWhole
<1>. QED
  BY <1>3, <1>4, EachAlone, PTL

(* A label once given is changed only by a run that labels all again.         *)
THEOREM LabelsStay == InventorySpec => LabelsKept
<1>1. EnrichInv /\ [En!Next]_En!vars =>
        [\A k \in En!Row \X En!RunId : \A f \in En!Field :
           db.claims[k] # Nothing => LET old == db.claims[k].label[f] IN
             \/ old \in {Nothing, db'.claims[k].label[f]}
             \/ \E c \in Relabel \cap (ended' \ ended) : db'.claims[k].label[f] = Policy[c][f]]_En!vars
  BY EnrichInvNext DEF LabelKept
<1>2. EnrichInv /\ [En!Next]_En!vars => EnrichInv'
  BY EnrichInvNext
<1>3. En!Spec => []EnrichInv
  BY <1>2, EnrichInvInit, PTL DEF En!Spec
<1>4. En!Spec => En!LabelsKept
  BY <1>1, <1>3, PTL DEF En!Spec, En!LabelsKept
<1>. QED
  BY <1>4, EachAlone, PTL DEF LabelsKept
=============================================================================
