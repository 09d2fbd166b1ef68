---------------------------- MODULE ExportProofs ----------------------------
(* Proofs about module Export, for any number of exports, of database changes *)
(* and of kills.                                                              *)
EXTENDS Export, TLAPS

-----------------------------------------------------------------------------
(* A manifest names a snapshot that was taken; a body is that snapshot or     *)
(* cannot be read; and who has a file open that was never mixed is alone with *)
(* it, and the manifest is of its snapshot.                                   *)
Attested ==
  /\ \A e \in Exporter : step[e] # "ready" => snap[e] \in taken
  /\ \A e \in Exporter : step[e] = "packing" => opened[e] \in Exporter /\ man[opened[e]] \in taken
  /\ \A f \in Exporter : body[f] \in {man[f], Bad}
  /\ \A f \in {partial, target} \ {NoFile} : man[f] \in taken
  /\ \A e \in Exporter : step[e] = "packing" /\ opened[e] \notin mixed =>
       /\ man[opened[e]] = snap[e]
       /\ \A o \in Exporter : step[o] = "packing" /\ opened[o] = opened[e] => o = e

(* The two names are of different files, and of none that is still to come.   *)
Named ==
  /\ partial # NoFile => partial # target
  /\ \A e \in Exporter : step[e] \in {"ready", "snapped"} => e \notin {partial, target}

(* While exports do not overlap, the partial is the one export's own, and     *)
(* whole once it is packed.                                                   *)
Alone ==
  ~shared =>
    /\ \A e, o \in Exporter : Under(e) /\ Under(o) => e = o
    /\ \A e \in Exporter : step[e] = "packing" => opened[e] = partial /\ opened[e] \notin mixed
    /\ \A e \in Exporter : step[e] \in {"packed", "clearing"} =>
         partial # NoFile /\ body[partial] = man[partial]
    /\ target # NoFile => body[target] = man[target]

(* A recorded export is missing only while, or after, another replaced it.    *)
Replaced ==
  audited # {} /\ target = NoFile => \E e \in Exporter : step[e] \in {"clearing", "dead"}

IInv == TypeOK /\ Attested /\ Named /\ Alone /\ Replaced

Act(e) ==
  \/ Snapshot(e) \/ OpenPartial(e) \/ ClosePartial(e) \/ ClearTarget(e)
  \/ RenamePartial(e) \/ CleanUp(e) \/ RecordExport(e) \/ Kill(e) \/ Raises(e)

-----------------------------------------------------------------------------
(* The invariant holds at first. *)
LEMMA InitInv == ASSUME ExportAssumption, Init PROVE IInv
<1>0. MaxWrites \in Nat /\ MaxKills \in Nat /\ NoFile \notin Exporter
  BY DEF ExportAssumption
<1>1. TypeOK
  <2>1. live \in 0..MaxWrites /\ kills \in Nat
    BY <1>0 DEF Init
  <2>2. snap \in [Exporter -> 0..MaxWrites] /\ man \in [Exporter -> 0..MaxWrites]
    BY <1>0 DEF Init
  <2>3. step \in [Exporter -> Step] /\ opened \in [Exporter -> Exporter \cup {NoFile}]
    BY DEF Init, Step
  <2>4. body \in [Exporter -> 0..MaxWrites \cup {Bad}]
    BY DEF Init
  <2>. QED BY <2>1, <2>2, <2>3, <2>4 DEF Init, TypeOK
<1>2. Attested /\ Named /\ Alone /\ Replaced
  BY DEF ExportAssumption, Init, Attested, Named, Alone, Replaced, Under, Step, Writers
<1>. QED BY <1>1, <1>2 DEF IInv

(* Every step keeps the types. *)
LEMMA NextTypes ==
  ASSUME ExportAssumption, TypeOK, [Next]_vars
  PROVE  TypeOK'
<1>0. MaxWrites \in Nat
  BY DEF ExportAssumption
<1>1. CASE ChangeDatabase
  BY <1>0, <1>1 DEF ChangeDatabase, TypeOK, places, files
<1>2. ASSUME NEW e \in Exporter, Act(e) PROVE TypeOK'
  <2>1. CASE Snapshot(e)
    BY <2>1 DEF Snapshot, TypeOK, places, files, Go, Step, Under
  <2>2. CASE OpenPartial(e)
    <3> DEFINE f == IF partial = NoFile THEN e ELSE partial
    <3>1. f \in Exporter /\ snap[e] \in 0..MaxWrites
      BY DEF TypeOK
    <3>2. /\ partial' = f /\ opened' = [opened EXCEPT ![e] = f]
          /\ man' = [man EXCEPT ![f] = snap[e]] /\ body' = [body EXCEPT ![f] = Bad]
          /\ mixed' = IF Writers(f) = {} THEN mixed \ {f} ELSE mixed \cup {f}
          /\ step' = [step EXCEPT ![e] = "packing"]
          /\ UNCHANGED <<live, taken, snap, target, audited, kills, shared>>
      BY <2>2 DEF OpenPartial, OpenAs, Go
    <3> HIDE DEF f
    <3>. QED BY <3>1, <3>2 DEF TypeOK, Step
  <2>3. CASE ClosePartial(e)
    <3>1. (IF opened[e] \in mixed THEN Bad ELSE snap[e]) \in 0..MaxWrites \cup {Bad}
      BY DEF TypeOK
    <3>. QED BY <2>3, <3>1 DEF ClosePartial, TypeOK, places, Go, Step
  <2>4. CASE ClearTarget(e)
    BY <2>4 DEF ClearTarget, TypeOK, files, Go, Step
  <2>5. CASE RenamePartial(e)
    BY <2>5 DEF RenamePartial, TypeOK, files, places, Go, Step
  <2>6. CASE CleanUp(e)
    BY <2>6 DEF CleanUp, TypeOK, files, Go, Step
  <2>7. CASE RecordExport(e)
    BY <2>7 DEF RecordExport, TypeOK, files, places, Go, Step
  <2>8. CASE Kill(e)
    BY <2>8 DEF Kill, TypeOK, files, places, Go, Step
  <2>9. CASE Raises(e)
    BY <2>9 DEF Raises, TypeOK, files, Go, Step
  <2>. QED BY <1>2, <2>1, <2>2, <2>3, <2>4, <2>5, <2>6, <2>7, <2>8, <2>9 DEF Act
<1>3. CASE UNCHANGED vars
  BY <1>3 DEF vars, TypeOK
<1>. QED BY <1>1, <1>2, <1>3 DEF Next, Act

(* What OpenPartial does, for the file it takes. *)
LEMMA Opened ==
  ASSUME TypeOK, NEW e \in Exporter, OpenPartial(e)
  PROVE  \E f \in Exporter :
           /\ f = IF partial = NoFile THEN e ELSE partial
           /\ step[e] = "snapped" /\ step' = [step EXCEPT ![e] = "packing"]
           /\ partial' = f /\ opened' = [opened EXCEPT ![e] = f]
           /\ man' = [man EXCEPT ![f] = snap[e]] /\ body' = [body EXCEPT ![f] = Bad]
           /\ mixed' = IF Writers(f) = {} THEN mixed \ {f} ELSE mixed \cup {f}
           /\ UNCHANGED <<live, taken, snap, target, audited, kills, shared>>
<1> DEFINE f == IF partial = NoFile THEN e ELSE partial
<1>1. f \in Exporter
  BY DEF TypeOK
<1>. QED BY <1>1 DEF OpenPartial, OpenAs, Go

(* A step of an export is at one place only: the others stay where they are.  *)
LEMMA OthersStay ==
  ASSUME TypeOK, NEW e \in Exporter, Act(e)
  PROVE  /\ \A o \in Exporter \ {e} : step'[o] = step[o] /\ snap'[o] = snap[o] /\ opened'[o] = opened[o]
         /\ step'[e] # "ready"
BY DEF TypeOK, Act, Snapshot, OpenPartial, OpenAs, ClosePartial, ClearTarget, RenamePartial,
       CleanUp, RecordExport, Kill, Raises, Go

(* The two names stay apart. *)
LEMMA NextNamed ==
  ASSUME ExportAssumption, TypeOK, Named, [Next]_vars
  PROVE  Named'
<1>1. CASE ChangeDatabase
  BY <1>1 DEF ChangeDatabase, Named, places
<1>2. ASSUME NEW e \in Exporter, Act(e) PROVE Named'
  <2>0. \A o \in Exporter \ {e} : step'[o] = step[o]
    BY <1>2, OthersStay
  <2>1. CASE Snapshot(e)
    BY <2>0, <2>1 DEF Snapshot, Named, places, TypeOK, Go
  <2>2. CASE OpenPartial(e)
    BY <2>0, <2>2, Opened DEF Named, TypeOK, ExportAssumption
  <2>3. CASE ClosePartial(e) \/ RecordExport(e) \/ Kill(e)
    BY <2>0, <2>3 DEF ClosePartial, RecordExport, Kill, Named, places, TypeOK, Go
  <2>4. CASE ClearTarget(e) \/ CleanUp(e) \/ Raises(e) \/ RenamePartial(e)
    <3>1. /\ partial' \in {partial, NoFile} /\ target' \in {partial, target, NoFile}
          /\ partial' # NoFile => target' # partial
          /\ step'[e] \notin {"ready", "snapped"}
      BY <2>4 DEF ClearTarget, CleanUp, Raises, RenamePartial, Named, places, TypeOK, Go
    <3>. QED BY <2>0, <3>1 DEF Named, ExportAssumption, TypeOK
  <2>. QED BY <1>2, <2>1, <2>2, <2>3, <2>4 DEF Act
<1>3. CASE UNCHANGED vars
  BY <1>3 DEF vars, Named
<1>. QED BY <1>1, <1>2, <1>3 DEF Next, Act

(* What is in the files stays attested. *)
LEMMA NextAttested ==
  ASSUME ExportAssumption, TypeOK, Attested, [Next]_vars
  PROVE  Attested'
<1>1. CASE ChangeDatabase
  BY <1>1 DEF ChangeDatabase, Attested, places, files, Writers
<1>2. ASSUME NEW e \in Exporter, Act(e) PROVE Attested'
  <2>0. \A o \in Exporter \ {e} : step'[o] = step[o] /\ snap'[o] = snap[o] /\ opened'[o] = opened[o]
    BY <1>2, OthersStay
  <2>1. CASE Snapshot(e)
    <3>1. /\ taken' = taken \cup {live} /\ snap'[e] = live /\ step'[e] = "snapped" /\ step[e] = "ready"
          /\ UNCHANGED <<opened, partial, target, man, body, mixed>>
      BY <2>1 DEF Snapshot, TypeOK, places, files, Go
    <3>. QED BY <2>0, <3>1 DEF Attested
  <2>2. CASE OpenPartial(e)
    <3>1. PICK f \in Exporter :
            /\ f = IF partial = NoFile THEN e ELSE partial
            /\ step[e] = "snapped" /\ step' = [step EXCEPT ![e] = "packing"]
            /\ partial' = f /\ opened' = [opened EXCEPT ![e] = f]
            /\ man' = [man EXCEPT ![f] = snap[e]] /\ body' = [body EXCEPT ![f] = Bad]
            /\ mixed' = IF Writers(f) = {} THEN mixed \ {f} ELSE mixed \cup {f}
            /\ UNCHANGED <<live, taken, snap, target, audited, kills, shared>>
      BY <2>2, Opened
    <3>2. snap[e] \in taken /\ step'[e] = "packing" /\ opened'[e] = f /\ man'[f] = snap[e] /\ body'[f] = Bad
      BY <3>1 DEF Attested, TypeOK
    <3>3. \A g \in Exporter \ {f} : man'[g] = man[g] /\ body'[g] = body[g] /\ (g \in mixed' <=> g \in mixed)
      BY <3>1 DEF TypeOK
    <3>4. \A o \in Exporter : step'[o] # "ready" => snap'[o] \in taken'
      BY <2>0, <3>1, <3>2 DEF Attested
    <3>5. \A o \in Exporter : step'[o] = "packing" => opened'[o] \in Exporter /\ man'[opened'[o]] \in taken'
      BY <2>0, <3>1, <3>2, <3>3 DEF Attested
    <3>6. \A g \in Exporter : body'[g] \in {man'[g], Bad}
      BY <3>2, <3>3 DEF Attested
    <3>7. \A g \in {partial', target'} \ {NoFile} : man'[g] \in taken'
      BY <3>1, <3>2, <3>3 DEF Attested, TypeOK
    <3>8. ASSUME NEW o \in Exporter, step'[o] = "packing", opened'[o] \notin mixed'
          PROVE  /\ man'[opened'[o]] = snap'[o]
                 /\ \A q \in Exporter : step'[q] = "packing" /\ opened'[q] = opened'[o] => q = o
      <4>1. CASE opened'[o] = f
        <5>1. \A q \in Exporter : ~(step[q] = "packing" /\ opened[q] = f)
          BY <3>1, <3>8, <4>1 DEF Writers
        <5>. QED BY <2>0, <3>1, <3>2, <3>8, <4>1, <5>1
      <4>2. CASE opened'[o] # f
        <5>1. o # e /\ opened'[o] = opened[o] /\ step[o] = "packing" /\ snap'[o] = snap[o]
          BY <2>0, <3>2, <3>8, <4>2
        <5>2. opened[o] \in Exporter \ {f} /\ opened[o] \notin mixed
          BY <3>3, <3>8, <4>2, <5>1 DEF Attested
        <5>3. /\ man[opened[o]] = snap[o]
              /\ \A q \in Exporter : step[q] = "packing" /\ opened[q] = opened[o] => q = o
          BY <5>1, <5>2 DEF Attested
        <5>. QED BY <2>0, <3>2, <3>3, <4>2, <5>1, <5>2, <5>3
      <4>. QED BY <4>1, <4>2
    <3>. QED BY <3>4, <3>5, <3>6, <3>7, <3>8 DEF Attested
  <2>3. CASE ClosePartial(e)
    <3>1. /\ step[e] = "packing" /\ step' = [step EXCEPT ![e] = "packed"]
          /\ body' = [body EXCEPT ![opened[e]] = IF opened[e] \in mixed THEN Bad ELSE snap[e]]
          /\ UNCHANGED <<taken, snap, opened, partial, target, man, mixed>>
      BY <2>3 DEF ClosePartial, Go, places
    <3>2. opened[e] \in Exporter /\ (opened[e] \in mixed \/ snap[e] = man[opened[e]])
      BY <3>1 DEF Attested
    <3>3. \A g \in Exporter : body'[g] \in {man'[g], Bad}
      BY <3>1, <3>2 DEF Attested, TypeOK
    <3>4. ASSUME NEW o \in Exporter, step'[o] = "packing", opened'[o] \notin mixed'
          PROVE  /\ man'[opened'[o]] = snap'[o]
                 /\ \A q \in Exporter : step'[q] = "packing" /\ opened'[q] = opened'[o] => q = o
      <4>1. o # e /\ step[o] = "packing"
        BY <2>0, <3>1, <3>4 DEF TypeOK
      <4>2. /\ man[opened[o]] = snap[o]
            /\ \A q \in Exporter : step[q] = "packing" /\ opened[q] = opened[o] => q = o
        BY <3>1, <3>4, <4>1 DEF Attested
      <4>. QED BY <2>0, <3>1, <4>1, <4>2 DEF TypeOK
    <3>5. /\ \A o \in Exporter : step'[o] # "ready" => snap'[o] \in taken'
          /\ \A o \in Exporter : step'[o] = "packing" => opened'[o] \in Exporter /\ man'[opened'[o]] \in taken'
      BY <2>0, <3>1 DEF Attested, TypeOK
    <3>. QED BY <3>1, <3>3, <3>4, <3>5 DEF Attested
  <2>4. CASE ~(Snapshot(e) \/ OpenPartial(e) \/ ClosePartial(e))
    <3>1. /\ step[e] # "ready" /\ step'[e] # "packing"
          /\ {partial', target'} \subseteq {partial, target, NoFile}
          /\ UNCHANGED <<taken, snap, opened, man, body, mixed>>
      BY <1>2, <2>4 DEF Act, ClearTarget, RenamePartial, CleanUp, RecordExport, Kill, Raises,
                        TypeOK, files, places, Go, Under, Step
    <3>2. ASSUME NEW o \in Exporter, step'[o] = "packing", opened'[o] \notin mixed'
          PROVE  /\ man'[opened'[o]] = snap'[o]
                 /\ \A q \in Exporter : step'[q] = "packing" /\ opened'[q] = opened'[o] => q = o
      <4>1. o # e /\ step[o] = "packing"
        BY <2>0, <3>1, <3>2
      <4>2. /\ man[opened[o]] = snap[o]
            /\ \A q \in Exporter : step[q] = "packing" /\ opened[q] = opened[o] => q = o
        BY <3>1, <3>2, <4>1 DEF Attested
      <4>. QED BY <2>0, <3>1, <4>1, <4>2
    <3>3. /\ \A o \in Exporter : step'[o] # "ready" => snap'[o] \in taken'
          /\ \A o \in Exporter : step'[o] = "packing" => opened'[o] \in Exporter /\ man'[opened'[o]] \in taken'
      BY <2>0, <3>1 DEF Attested
    <3>. QED BY <3>1, <3>2, <3>3 DEF Attested
  <2>. QED BY <2>1, <2>2, <2>3, <2>4
<1>3. CASE UNCHANGED vars
  BY <1>3 DEF vars, Attested, Writers
<1>. QED BY <1>1, <1>2, <1>3 DEF Next, Act

(* While one export works at a time, what it packs and publishes is whole. *)
LEMMA NextAlone ==
  ASSUME ExportAssumption, TypeOK, Attested, Named, Alone, [Next]_vars
  PROVE  Alone'
<1>1. CASE ChangeDatabase
  BY <1>1 DEF ChangeDatabase, Alone, Under, places, files
<1>2. ASSUME NEW e \in Exporter, Act(e), ~shared' PROVE Alone'
  <2>0. /\ \A o \in Exporter \ {e} : step'[o] = step[o] /\ snap'[o] = snap[o] /\ opened'[o] = opened[o]
        /\ step'[e] # "ready"
    BY <1>2, OthersStay
  <2>1. CASE Snapshot(e)
    <3>1. /\ step[e] = "ready" /\ step'[e] = "snapped" /\ ~shared
          /\ \A o \in Exporter \ {e} : ~Under(o)
          /\ UNCHANGED <<opened, partial, target, man, body, mixed>>
      BY <1>2, <2>1 DEF Snapshot, TypeOK, places, files, Go
    <3>2. \A o \in Exporter \ {e} : step'[o] \in {"ready", "done", "dead"}
      BY <2>0, <3>1 DEF Under, TypeOK
    <3>. QED BY <3>1, <3>2 DEF Alone, Under
  <2>2. CASE ~Snapshot(e)
    <3>1. ~shared /\ Under(e) /\ step[e] \in Step
      BY <1>2, <2>2 DEF Act, OpenPartial, OpenAs, ClosePartial, ClearTarget, RenamePartial, CleanUp,
                        RecordExport, Kill, Raises, Under, Step, TypeOK
    <3>2. \A o \in Exporter \ {e} : step'[o] = step[o] /\ step[o] \in {"ready", "done", "dead"}
      BY <2>0, <3>1 DEF Alone, Under, TypeOK
    <3>3. \A o, q \in Exporter : Under(o)' /\ Under(q)' => o = q
      BY <3>2 DEF Under
    <3>4. CASE OpenPartial(e)
      <4>1. PICK f \in Exporter :
              /\ f = IF partial = NoFile THEN e ELSE partial
              /\ step[e] = "snapped" /\ step' = [step EXCEPT ![e] = "packing"]
              /\ partial' = f /\ opened' = [opened EXCEPT ![e] = f]
              /\ man' = [man EXCEPT ![f] = snap[e]] /\ body' = [body EXCEPT ![f] = Bad]
              /\ mixed' = IF Writers(f) = {} THEN mixed \ {f} ELSE mixed \cup {f}
              /\ UNCHANGED <<live, taken, snap, target, audited, kills, shared>>
        BY <3>4, Opened
      <4>2. Writers(f) = {}
        BY <3>2, <4>1 DEF Writers
      <4>3. f # target
        BY <4>1 DEF Named, ExportAssumption
      <4>. QED BY <3>1, <3>2, <3>3, <4>1, <4>2, <4>3 DEF Alone, TypeOK
    <3>5. CASE ClosePartial(e)
      <4>1. /\ step[e] = "packing" /\ step'[e] = "packed"
            /\ body' = [body EXCEPT ![opened[e]] = IF opened[e] \in mixed THEN Bad ELSE snap[e]]
            /\ UNCHANGED <<opened, partial, target, man, mixed>>
        BY <3>5 DEF ClosePartial, Go, places, TypeOK
      <4>2. opened[e] = partial /\ partial \in Exporter /\ partial \notin mixed /\ man[partial] = snap[e]
        BY <3>1, <4>1 DEF Alone, Attested
      <4>3. partial # target /\ body'[partial] = man'[partial]
        BY <4>1, <4>2 DEF Named, TypeOK, ExportAssumption
      <4>4. target # NoFile => body'[target] = man'[target]
        BY <3>1, <4>1, <4>2, <4>3 DEF Alone, TypeOK
      <4>. QED BY <3>2, <3>3, <4>1, <4>2, <4>3, <4>4 DEF Alone, ExportAssumption
    <3>6. CASE ClearTarget(e)
      <4>1. step[e] = "packed" /\ step'[e] = "clearing" /\ target' = NoFile
            /\ UNCHANGED <<opened, partial, man, body, mixed>>
        BY <3>6 DEF ClearTarget, Go, files, TypeOK
      <4>. QED BY <3>1, <3>2, <3>3, <4>1 DEF Alone
    <3>7. CASE RenamePartial(e)
      <4>1. /\ step[e] = "clearing" /\ step'[e] \in {"dead", "renamed"}
            /\ target' \in {target, partial} /\ UNCHANGED <<man, body>>
        BY <3>7 DEF RenamePartial, Go, files, places, TypeOK
      <4>. QED BY <3>1, <3>2, <3>3, <4>1 DEF Alone
    <3>8. CASE CleanUp(e) \/ RecordExport(e) \/ Kill(e) \/ Raises(e)
      <4>1. step'[e] \in {"published", "done", "dead"} /\ UNCHANGED <<target, man, body>>
        BY <3>8 DEF CleanUp, RecordExport, Kill, Raises, Go, files, places, TypeOK
      <4>. QED BY <3>1, <3>2, <3>3, <4>1 DEF Alone
    <3>. QED BY <1>2, <2>2, <3>4, <3>5, <3>6, <3>7, <3>8 DEF Act
  <2>. QED BY <2>1, <2>2
<1>3. CASE UNCHANGED vars
  BY <1>3 DEF vars, Alone, Under
<1>. QED BY <1>1, <1>2, <1>3 DEF Next, Act, Alone

(* An export that finds no target ends, and one that clears it goes on.       *)
LEMMA NextReplaced ==
  ASSUME ExportAssumption, TypeOK, Replaced, [Next]_vars
  PROVE  Replaced'
<1>1. CASE ChangeDatabase
  BY <1>1 DEF ChangeDatabase, Replaced, places
<1>2. ASSUME NEW e \in Exporter, Act(e), audited' # {}, target' = NoFile
      PROVE  \E o \in Exporter : step'[o] \in {"clearing", "dead"}
  <2>0. \A o \in Exporter \ {e} : step'[o] = step[o]
    BY <1>2, OthersStay
  <2>1. CASE step'[e] \in {"clearing", "dead"}
    BY <2>1
  <2>2. CASE step'[e] \notin {"clearing", "dead"}
    <3>1. /\ target = NoFile /\ audited # {} /\ step[e] \notin {"clearing", "dead"}
      BY <1>2, <2>2 DEF Act, Snapshot, OpenPartial, OpenAs, ClosePartial, ClearTarget, RenamePartial,
                        CleanUp, RecordExport, Kill, Raises, TypeOK, places, Go
    <3>. QED BY <2>0, <3>1 DEF Replaced
  <2>. QED BY <2>1, <2>2
<1>3. CASE UNCHANGED vars
  BY <1>3 DEF vars, Replaced
<1>. QED BY <1>1, <1>2, <1>3 DEF Next, Act, Replaced

-----------------------------------------------------------------------------
(* The inductive invariant: the types, what files hold, that the names are of *)
(* different files, and what one export at a time can rely on.                *)
THEOREM Inductive == ASSUME ExportAssumption PROVE Spec => []IInv
<1>1. Init => IInv
  BY InitInv
<1>2. IInv /\ [Next]_vars => IInv'
  BY NextTypes, NextAttested, NextNamed, NextAlone, NextReplaced DEF IInv
<1>. QED BY <1>1, <1>2, PTL DEF Spec

(* Every state is well typed (Export.TypeOK). *)
THEOREM TypeCorrect == ASSUME ExportAssumption PROVE Spec => []TypeOK
<1>1. IInv => TypeOK
  BY DEF IInv
<1>. QED BY <1>1, Inductive, PTL

(* exporter.py: while exports of a target do not overlap, a reader never sees *)
(* a partial envelope, and a recorded export is there or being replaced.      *)
THEOREM PublishesWhole == ASSUME ExportAssumption PROVE Spec => []NeverPartial
<1>1. IInv => NeverPartial
  BY DEF IInv, Alone, Replaced, NeverPartial
<1>. QED BY <1>1, Inductive, PTL

-----------------------------------------------------------------------------
(* Every step of an export is one of a publisher, or changes nothing that a   *)
(* reader sees.                                                               *)
LEMMA NextPublishes ==
  ASSUME ExportAssumption, TypeOK, Attested, Attested', TypeOK', [Next]_vars
  PROVE  [Abstract!PublisherNext]_<<taken, Published>>
<1>1. CASE \E e \in Exporter : Snapshot(e)
  <2>1. PICK e \in Exporter : Snapshot(e)
    BY <1>1
  <2>2. Abstract!Snapshot(live) /\ live \in 0..MaxWrites
    BY <2>1 DEF Snapshot, Abstract!Snapshot, Published, places, files, TypeOK
  <2>. QED BY <2>2 DEF Abstract!PublisherNext
<1>2. CASE UNCHANGED <<taken, target>> /\ target # NoFile
  <2>1. man'[target] \in taken' /\ body'[target] \in {man'[target], Bad} /\ man'[target] \in 0..MaxWrites
    BY <1>2 DEF Attested, TypeOK
  <2>2. Published' = [man |-> man'[target], body |-> body'[target]]
    BY <1>2 DEF Published
  <2>3. Abstract!Publish(man'[target], man'[target]) \/ Abstract!Publish(man'[target], Bad)
    BY <1>2, <2>1, <2>2 DEF Abstract!Publish
  <2>. QED BY <2>1, <2>3 DEF Abstract!PublisherNext
<1>3. CASE UNCHANGED <<taken, target>> /\ target = NoFile
  BY <1>3 DEF Published
<1>4. CASE UNCHANGED taken /\ target' = NoFile
  BY <1>4 DEF Published, NoEnvelope, Abstract!Withdraw, Abstract!PublisherNext
<1>5. CASE UNCHANGED <<taken, man, body>> /\ target' = partial /\ partial # NoFile
  <2>1. man[partial] \in taken /\ body[partial] \in {man[partial], Bad} /\ man[partial] \in 0..MaxWrites
    BY <1>5 DEF Attested, TypeOK
  <2>2. Published' = [man |-> man[partial], body |-> body[partial]]
    BY <1>5 DEF Published
  <2>3. Abstract!Publish(man[partial], man[partial]) \/ Abstract!Publish(man[partial], Bad)
    BY <1>5, <2>1, <2>2 DEF Abstract!Publish
  <2>. QED BY <2>1, <2>3 DEF Abstract!PublisherNext
<1>6. (\E e \in Exporter : Snapshot(e)) \/ UNCHANGED <<taken, target>> \/ (UNCHANGED taken /\ target' = NoFile)
      \/ (UNCHANGED <<taken, man, body>> /\ target' = partial /\ partial # NoFile)
  BY DEF Next, vars, ChangeDatabase, OpenPartial, OpenAs, ClosePartial, ClearTarget, RenamePartial,
         CleanUp, RecordExport, Kill, Raises, places, files
<1>. QED BY <1>1, <1>2, <1>3, <1>4, <1>5, <1>6

(* Readers may assume Publisher of a host, whoever exports at once and        *)
(* wherever an export is killed: exporter.py never publishes an envelope with *)
(* another snapshot's payload than its manifest names.                        *)
THEOREM Refines == ASSUME ExportAssumption PROVE Spec => ImplementsPublisher
<1>1. Init => Abstract!PublisherInit
  BY DEF Init, Abstract!PublisherInit, Published, NoEnvelope
<1>2. IInv /\ IInv' /\ [Next]_vars => [Abstract!PublisherNext]_<<taken, Published>>
  BY NextPublishes DEF IInv
<1>. QED BY <1>1, <1>2, Inductive, PTL DEF Spec, ImplementsPublisher, Abstract!PublisherSpec
=============================================================================
