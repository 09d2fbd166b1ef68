------------------------------ MODULE PlansProofs ------------------------------
(* Proofs about the components of module Plans, for any parameters.           *)
EXTENDS Plans, FiniteSetTheorems, SequenceTheorems, WellFoundedInduction, TLAPS

-----------------------------------------------------------------------------
(* A set of numbers has a least one. *)
LEMMA NatLeast ==
  ASSUME NEW T \in SUBSET Nat, T # {}
  PROVE  \E x \in T : \A y \in T : x <= y
<1>. DEFINE R == OpToRel(<, Nat)
<1>1. IsWellFoundedOn(R, Nat)
  BY NatLessThanWellFounded
<1>2. PICK x \in T : \A y \in T : <<y, x>> \notin R
  <2>. HIDE DEF R
  <2>. QED
    BY <1>1, WFMin
<1>3. \A y \in T : ~(y < x)
  BY <1>2 DEF OpToRel
<1>. QED
  BY <1>3

(* Dedup counts what it holds one of. *)
LEMMA DedupOne == De!Cardinality({}) <= 1 /\ \A x : De!Cardinality({x}) <= 1
<1>1. \A S : De!Cardinality(S) = Cardinality(S)
  BY DEF De!Cardinality, Cardinality
<1>2. Cardinality({}) = 0 /\ \A x : Cardinality({x}) = 1
  BY FS_EmptySet, FS_Singleton
<1>. QED
  BY <1>1, <1>2

-----------------------------------------------------------------------------
(* What an apply holds: rows are only at work in one that runs. *)
DedupJobOK(j) ==
  /\ j \in De!Job /\ De!Cardinality(j.row) <= 1
  /\ j.plan = 0 => j.todo = {} /\ j.row = {}

DedupTypeOK == De!TypeOK /\ DedupJobOK(applying)

(* The types of Dedup hold at first. *)
LEMMA DedupTypesInit == De!Init => DedupTypeOK
<1>. SUFFICES ASSUME De!Init PROVE DedupTypeOK
  OBVIOUS
<1>. USE PlansAssumption DEF De!DedupAssumption
<1>1. disk \in [De!Place -> Hashed \cup {NoFile}]
  BY DEF De!Init, De!Place
<1>2. table \in Seq(De!Claim) /\ Len(table) <= MaxClaims
  BY DEF De!Init
<1>3. manifests \in Seq(SUBSET De!ManifestRow) /\ Len(manifests) <= MaxPlans
  BY DEF De!Init
<1>4. DedupJobOK(applying)
  BY DedupOne DEF De!Init, De!NoJob, De!Job, DedupJobOK
<1>5. reading \in SUBSET De!Claim /\ De!Cardinality(reading) <= 1
  BY DedupOne DEF De!Init
<1>6. QED
  BY <1>1, <1>2, <1>3, <1>4, <1>5 DEF De!Init, De!TypeOK, DedupTypeOK, DedupJobOK

(* What a plan lists are rows of claims. *)
LEMMA DedupManifest ==
  ASSUME table \in Seq(De!Claim), NEW scope, NEW biased
  PROVE  De!Manifest(scope, biased) \subseteq De!ManifestRow
<1>. SUFFICES ASSUME NEW c \in Hashed, NEW r \in De!RowsOf(c, scope, biased),
                     r.action \in {"stash", "retire_direct"}
              PROVE  r \in De!ManifestRow
  BY DEF De!Manifest
<1>1. PICK i \in De!Group(c, scope) :
        r = [pid |-> c, from |-> table[i].at, action |-> Action[table[i].at.name]]
  BY DEF De!RowsOf
<1>2. table[i] \in De!Claim
  BY DEF De!Group
<1>3. table[i].at \in De!Place /\ r.action = Action[table[i].at.name]
  BY <1>1, <1>2 DEF De!Claim
<1>. QED
  BY <1>1, <1>3 DEF De!ManifestRow

(* Every step of Dedup keeps its types. *)
LEMMA DedupTypes == DedupTypeOK /\ [De!Next]_De!vars => DedupTypeOK'
<1>. SUFFICES ASSUME DedupTypeOK, [De!Next]_De!vars PROVE DedupTypeOK'
  OBVIOUS
<1>. USE PlansAssumption DEF De!DedupAssumption, De!TypeOK, DedupTypeOK
<1>1. ASSUME NEW l \in De!Place, De!ReadFile(l) PROVE DedupTypeOK'
  <2>1. reading' \in SUBSET De!Claim
    BY <1>1 DEF De!ReadFile, De!Claim
  <2>2. retired' \subseteq retired /\ late' \subseteq late
    BY <1>1 DEF De!ReadFile
  <2>. QED
    BY <1>1, <2>1, <2>2, DedupOne DEF De!ReadFile
<1>2. CASE De!InsertClaim
  <2>1. table' \in Seq(De!Claim) /\ Len(table') <= MaxClaims /\ retired' \subseteq retired
    BY <1>2 DEF De!InsertClaim
  <2>. QED
    BY <1>2, <2>1, DedupOne DEF De!InsertClaim
<1>3. ASSUME NEW scope \in Scopes, NEW biased \in Bias, De!Plan(scope, biased) PROVE DedupTypeOK'
  <2>1. manifests' \in Seq(SUBSET De!ManifestRow) /\ Len(manifests') <= MaxPlans
    BY <1>3, DedupManifest DEF De!Plan
  <2>. QED
    BY <1>3, <2>1 DEF De!Plan, De!history
<1>4. ASSUME NEW k \in 1..Len(manifests), NEW verify \in BOOLEAN, De!StartApply(k, verify) PROVE DedupTypeOK'
  <2>1. manifests[k] \subseteq De!ManifestRow /\ k \in 1..MaxPlans
    OBVIOUS
  <2>2. applying' = [plan |-> k, verify |-> verify, todo |-> manifests[k], row |-> {}, flips |-> {}, stashed |-> {}]
    BY <1>4 DEF De!StartApply, De!NoJob
  <2>3. DedupJobOK(applying')
    BY <2>1, <2>2, DedupOne DEF De!Job, DedupJobOK
  <2>. QED
    BY <1>4, <2>3 DEF De!StartApply, De!history, DedupJobOK
<1>5. ASSUME NEW r \in applying.todo, De!CheckRow(r) PROVE DedupTypeOK'
  <2>1. DedupJobOK(applying')
    BY <1>5, DedupOne DEF De!CheckRow, De!Job, DedupJobOK
  <2>. QED
    BY <1>5, <2>1 DEF De!CheckRow, De!history, DedupJobOK
<1>6. ASSUME NEW r \in applying.todo \cup applying.row, De!SkipRow(r) PROVE DedupTypeOK'
  <2>1. DedupJobOK(applying')
    BY <1>6, DedupOne DEF De!SkipRow, De!Job, DedupJobOK
  <2>. QED
    BY <1>6, <2>1 DEF De!SkipRow, De!history, DedupJobOK
<1>7. ASSUME NEW r \in applying.row, De!StashRow(r) PROVE DedupTypeOK'
  <2>1. r \in De!ManifestRow /\ applying.plan \in 1..MaxPlans
    BY DEF De!Job, DedupJobOK
  <2>2. [run |-> applying.plan, from |-> r.from, pid |-> r.pid] \in De!Entry
    BY <2>1 DEF De!Entry, De!ManifestRow
  <2>3. DedupJobOK(applying')
    BY <1>7, <2>1, <2>2, DedupOne DEF De!StashRow, De!Job, DedupJobOK
  <2>4. disk' \in [De!Place -> Hashed \cup {NoFile}]
    BY <1>7, <2>1 DEF De!StashRow, De!ManifestRow
  <2>. QED
    BY <1>7, <2>3, <2>4 DEF De!StashRow, De!history, DedupJobOK
<1>8. ASSUME NEW r \in applying.row, De!RetireRow(r) PROVE DedupTypeOK'
  <2>1. DedupJobOK(applying')
    BY <1>8, DedupOne DEF De!RetireRow, De!Job, DedupJobOK
  <2>2. disk' \in [De!Place -> Hashed \cup {NoFile}]
    BY <1>8 DEF De!RetireRow
  <2>3. late' \in SUBSET (Hashed \X De!Place)
    BY <1>8 DEF De!RetireRow, De!Claim
  <2>. QED
    BY <1>8, <2>1, <2>2, <2>3 DEF De!RetireRow, DedupJobOK
<1>9. CASE De!EndApply
  <2>1. DedupJobOK(applying')
    BY <1>9, DedupOne DEF De!EndApply, De!NoJob, De!Job, DedupJobOK
  <2>2. ASSUME NEW i \in 1..Len(table) PROVE De!Flipped(applying.flips)[i] \in De!Claim
    <3>1. table[i] \in De!Claim /\ i \in DOMAIN table
      OBVIOUS
    <3>2. De!Flipped(applying.flips)[i] =
            [table[i] EXCEPT !.current =
               @ /\ \A r \in applying.flips : r.pid # table[i].pid \/ r.from # table[i].at]
      BY <3>1, Zenon DEF De!Flipped
    <3>. QED
      BY <3>1, <3>2 DEF De!Claim
  <2>3. table' \in Seq(De!Claim) /\ Len(table') = Len(table)
    <3>1. DOMAIN De!Flipped(applying.flips) = 1..Len(table)
      BY DEF De!Flipped
    <3>2. De!Flipped(applying.flips) \in [1..Len(table) -> De!Claim]
      BY <2>2, <3>1 DEF De!Flipped
    <3>3. table' = De!Flipped(applying.flips)
      BY <1>9 DEF De!EndApply
    <3>. HIDE DEF De!TypeOK, DedupTypeOK
    <3>. QED
      BY <3>2, <3>3, LenProperties
  <2>4. entries' \in SUBSET De!Entry /\ retired' \in SUBSET (Hashed \X De!Place)
    BY <1>9 DEF De!EndApply, De!Job, De!ManifestRow
  <2>. QED
    BY <1>9, <2>1, <2>3, <2>4 DEF De!EndApply, DedupJobOK
<1>10. CASE De!Abort
  <2>1. DedupJobOK(applying')
    BY <1>10, DedupOne DEF De!Abort, De!NoJob, De!Job, DedupJobOK
  <2>. QED
    BY <1>10, <2>1 DEF De!Abort, De!history, DedupJobOK
<1>11. ASSUME NEW e \in entries, De!Finalize(e) \/ De!Restore(e) PROVE DedupTypeOK'
  <2>1. De!Stashed(e.run, e.from) \in De!Place
    BY DEF De!Entry, De!Stashed, De!Place
  <2>2. disk' \in [De!Place -> Hashed \cup {NoFile}]
    BY <1>11, <2>1 DEF De!Finalize, De!Restore
  <2>. QED
    BY <1>11, <2>2 DEF De!Finalize, De!Restore, De!history
<1>12. ASSUME NEW p \in Places, NEW c \in Hashed \cup {NoFile}, De!Write(p, c) PROVE DedupTypeOK'
  <2>1. De!Live(p) \in De!Place
    BY DEF De!Live, De!Place
  <2>2. disk' \in [De!Place -> Hashed \cup {NoFile}] /\ touched' \subseteq Hashed
    BY <1>12, <2>1 DEF De!Write
  <2>. QED
    BY <1>12, <2>2 DEF De!Write
<1>13. CASE UNCHANGED De!vars
  BY <1>13 DEF De!vars, De!history
<1>14. De!Next \/ UNCHANGED De!vars
  OBVIOUS
<1>. HIDE DEF De!TypeOK, DedupTypeOK
<1>. QED
  BY <1>1, <1>2, <1>3, <1>4, <1>5, <1>6, <1>7, <1>8, <1>9, <1>10, <1>11, <1>12, <1>13, <1>14 DEF De!Next

DedupInv == DedupTypeOK /\ De!RetiredNotCurrent

(* Dedup's invariant holds at first, and every step keeps it. *)
LEMMA DedupInductive ==
  /\ De!Init => DedupInv
  /\ DedupInv /\ [De!Next]_De!vars => DedupInv'
<1>1. De!Init => DedupInv
  BY DedupTypesInit DEF De!Init, DedupInv, De!RetiredNotCurrent
<1>2. ASSUME DedupInv, [De!Next]_De!vars PROVE De!RetiredNotCurrent'
  <2>. USE DEF De!RetiredNotCurrent
  <2>1. table \in Seq(De!Claim) /\ reading \in SUBSET De!Claim
    BY <1>2 DEF DedupInv, DedupTypeOK, De!TypeOK
  <2>2. CASE De!InsertClaim
    <3>1. PICK c \in reading : /\ table' = Append(table, c) /\ late' = late
                                /\ retired' = retired \ ({<<c.pid, c.at>>} \ late)
      BY <2>2 DEF De!InsertClaim
    <3>2. table' \in Seq(De!Claim) /\ Len(table') = Len(table) + 1 /\ table'[Len(table) + 1] = c
          /\ \A i \in 1..Len(table) : table'[i] = table[i]
      BY <2>1, <3>1
    <3>3. ASSUME NEW i \in 1..Len(table'), table'[i].current
          PROVE  <<table'[i].pid, table'[i].at>> \notin retired' \ late'
      <4>1. CASE i = Len(table) + 1
        BY <4>1, <3>1, <3>2
      <4>2. CASE i \in 1..Len(table)
        BY <4>2, <3>1, <3>2, <3>3, <1>2, <2>1 DEF DedupInv
      <4>. QED
        BY <4>1, <4>2, <3>2, <2>1
    <3>. QED
      BY <3>2, <3>3
  <2>3. CASE De!EndApply
    <3>1. DOMAIN table' = DOMAIN table
      BY <2>3 DEF De!EndApply, De!Flipped
    <3>2. ASSUME NEW i \in DOMAIN table, table'[i].current
          PROVE  <<table'[i].pid, table'[i].at>> \notin retired' \ late'
      <4>1. table[i] \in De!Claim
        BY <2>1
      <4>2. table'[i] = [table[i] EXCEPT !.current =
                           @ /\ \A r \in applying.flips : r.pid # table[i].pid \/ r.from # table[i].at]
        BY <2>3, Zenon DEF De!EndApply, De!Flipped
      <4>3. table'[i].pid = table[i].pid /\ table'[i].at = table[i].at
            /\ (table'[i].current <=>
                  table[i].current /\ \A r \in applying.flips : r.pid # table[i].pid \/ r.from # table[i].at)
        BY <4>1, <4>2 DEF De!Claim
      <4>4. <<table[i].pid, table[i].at>> \notin retired \ late
        BY <1>2, <3>2, <4>3 DEF DedupInv
      <4>5. \A r \in applying.flips : <<r.pid, r.from>> # <<table[i].pid, table[i].at>>
        BY <3>2, <4>3
      <4>6. retired' = retired \cup {<<r.pid, r.from>> : r \in applying.flips} /\ late' = late
        BY <2>3 DEF De!EndApply
      <4>. QED
        BY <4>3, <4>4, <4>5, <4>6
    <3>. QED
      BY <3>1, <3>2
  <2>4. CASE table' = table /\ retired' \ late' \subseteq retired \ late
    BY <2>4, <1>2 DEF DedupInv
  <2>a. ASSUME NEW l \in De!Place, De!ReadFile(l) PROVE table' = table /\ retired' \ late' \subseteq retired \ late
    BY <2>a DEF De!ReadFile
  <2>b. ASSUME NEW r \in applying.row, De!RetireRow(r) PROVE table' = table /\ retired' \ late' \subseteq retired \ late
    BY <2>b DEF De!RetireRow
  <2>5. De!Next => \/ De!InsertClaim
                   \/ De!EndApply
                   \/ table' = table /\ retired' \ late' \subseteq retired \ late
    BY <2>a, <2>b DEF De!Next, De!Plan, De!StartApply, De!CheckRow, De!SkipRow, De!StashRow,
           De!Abort, De!Finalize, De!Restore, De!Write, De!history
  <2>6. UNCHANGED De!vars => UNCHANGED <<table, retired, late>>
    BY DEF De!vars, De!history
  <2>. QED
    BY <1>2, <2>2, <2>3, <2>4, <2>5, <2>6
<1>. QED
  BY <1>1, <1>2, DedupTypes DEF DedupInv

-----------------------------------------------------------------------------
(* No plan tells recovered copies from others: no policy in use asks for it,  *)
(* or no path is recovered.                                                   *)
Unbiased == TRUE \notin Bias \/ Recovered = {}

(* The rows of the plans written. *)
DedupListed == UNION {manifests[k] : k \in DOMAIN manifests}

(* All that was claimed or read at a place is this content. *)
DedupOwn(c, l) ==
  /\ \A i \in DOMAIN table : table[i].at = l => table[i].pid = c
  /\ \A r \in reading : r.at = l => r.pid = c

(* The copy that is kept of a content: the best current claim, of a file in   *)
(* place that no plan, old or new, has a row for.                             *)
DedupKept(c, i) ==
  /\ i \in DOMAIN table /\ table[i].current /\ table[i].pid = c
  /\ table[i].at.stash = 0 /\ disk[table[i].at] = c
  /\ DedupOwn(c, table[i].at)
  /\ \A r \in DedupListed : r.from # table[i].at
  /\ \A j \in DOMAIN table :
       table[j].current /\ table[j].pid = c =>
         \/ Priority[table[i].at.name] < Priority[table[j].at.name]
         \/ (Priority[table[i].at.name] = Priority[table[j].at.name] /\ i <= j)

(* A copy is kept, on a tier as good as that of n. *)
DedupNear(c, n) == \E i \in DOMAIN table : DedupKept(c, i) /\ Priority[table[i].at.name] <= Priority[n]

(* Of a content no other program touched: one copy is kept once it is claimed.*)
(* Any other copy is no better, or Steward knows nothing else at its place.   *)
(* What was read is there still or no better, and a row's file is no better.  *)
DedupClaimed(c) == \A i \in DOMAIN table : table[i].pid = c => \E k \in DOMAIN table : DedupKept(c, k)
DedupOthers(c) ==
  \A l \in De!Place : disk[l] = c => DedupNear(c, l.name) \/ (l.stash = 0 /\ DedupOwn(c, l))
DedupRead(c) == \A r \in reading : r.pid = c => disk[r.at] = c \/ DedupNear(c, r.at.name)
DedupPlanned(c) == \A r \in DedupListed : r.pid = c => DedupNear(c, r.from.name)

DedupCopies ==
  \A c \in Hashed \ touched : DedupClaimed(c) /\ DedupOthers(c) /\ DedupRead(c) /\ DedupPlanned(c)

(* A row is of a claim, and an apply holds rows of plans. *)
DedupRows ==
  /\ \A r \in DedupListed : \E i \in DOMAIN table : table[i].pid = r.pid /\ table[i].at = r.from
  /\ applying.todo \cup applying.row \cup applying.flips \subseteq DedupListed
  /\ \A r \in reading : r.current

DedupSafe == DedupCopies /\ DedupRows

(* What the types say of a claim. *)
LEMMA DedupClaimTypes ==
  ASSUME DedupTypeOK, NEW i \in DOMAIN table
  PROVE  /\ i \in Nat /\ table[i].pid \in Hashed /\ table[i].at \in De!Place /\ table[i].at.name \in Places
         /\ Priority[table[i].at.name] \in Nat
<1>1. i \in Nat /\ table[i] \in De!Claim
  BY DEF DedupTypeOK, De!TypeOK
<1>2. table[i].at \in De!Place
  BY <1>1 DEF De!Claim
<1>3. table[i].at.name \in Places
  BY <1>2 DEF De!Place
<1>. QED
  BY <1>1, <1>2, <1>3, PlansAssumption DEF De!DedupAssumption, De!Claim

(* Without a bias, claims rank by tier and then by id. *)
LEMMA DedupRank ==
  ASSUME Unbiased, NEW biased \in Bias, NEW G, NEW i, NEW j
  PROVE  De!Outranks(i, j, biased /\ De!Mixed(G)) <=>
           \/ Priority[table[i].at.name] < Priority[table[j].at.name]
           \/ (Priority[table[i].at.name] = Priority[table[j].at.name] /\ i < j)
<1>1. \A n : ~((biased /\ De!Mixed(G)) /\ De!IsRecovered(table[n].at))
  BY PlansAssumption DEF De!DedupAssumption, Unbiased, De!IsRecovered
<1>. QED
  BY <1>1 DEF De!Outranks

(* The best claim of a group is its keeper. *)
LEMMA DedupKeeper ==
  ASSUME Unbiased, DedupTypeOK, NEW biased \in Bias, NEW scope, NEW c, NEW k,
         DedupKept(c, k), k \in De!Group(c, scope)
  PROVE  De!Keeper(De!Group(c, scope), biased) = k
<1>. DEFINE G == De!Group(c, scope)
            Best(m) == \A j \in G \ {m} : De!Outranks(m, j, biased /\ De!Mixed(G))
<1>0. k \in G /\ \A j \in G : /\ j \in DOMAIN table /\ j \in Nat /\ table[j].current /\ table[j].pid = c
                              /\ Priority[table[j].at.name] \in Nat
  BY DedupClaimTypes DEF De!Group
<1>1. Best(k)
  <2>. SUFFICES ASSUME NEW j \in G \ {k} PROVE De!Outranks(k, j, biased /\ De!Mixed(G))
    OBVIOUS
  <2>1. \/ Priority[table[k].at.name] < Priority[table[j].at.name]
        \/ (Priority[table[k].at.name] = Priority[table[j].at.name] /\ k <= j)
    BY <1>0 DEF DedupKept
  <2>. HIDE DEF G
  <2>2. k \in Nat /\ j \in Nat /\ j # k
    BY <1>0
  <2>3. \/ Priority[table[k].at.name] < Priority[table[j].at.name]
        \/ (Priority[table[k].at.name] = Priority[table[j].at.name] /\ k < j)
    BY <2>1, <2>2
  <2>4. De!Outranks(k, j, biased /\ De!Mixed(G)) <=>
          \/ Priority[table[k].at.name] < Priority[table[j].at.name]
          \/ (Priority[table[k].at.name] = Priority[table[j].at.name] /\ k < j)
    BY ONLY DedupRank, Unbiased, biased \in Bias
  <2>. QED
    BY <2>3, <2>4
<1>2. \A m \in G : Best(m) => m = k
  <2>. SUFFICES ASSUME NEW m \in G, Best(m), m # k PROVE FALSE
    OBVIOUS
  <2>1. De!Outranks(m, k, biased /\ De!Mixed(G)) /\ De!Outranks(k, m, biased /\ De!Mixed(G))
    BY <1>0, <1>1
  <2>2. k \in Nat /\ m \in Nat /\ Priority[table[k].at.name] \in Nat /\ Priority[table[m].at.name] \in Nat
    BY <1>0
  <2>. HIDE DEF G, Best
  <2>3. /\ \/ Priority[table[m].at.name] < Priority[table[k].at.name]
           \/ (Priority[table[m].at.name] = Priority[table[k].at.name] /\ m < k)
        /\ \/ Priority[table[k].at.name] < Priority[table[m].at.name]
           \/ (Priority[table[k].at.name] = Priority[table[m].at.name] /\ k < m)
    BY <2>1, DedupRank
  <2>. QED
    BY <2>2, <2>3
<1>3. De!Keeper(G, biased) = CHOOSE m \in G : Best(m)
  BY DEF De!Keeper
<1>. HIDE DEF Best, G
<1>4. (CHOOSE m \in G : Best(m)) = k
  BY <1>0, <1>1, <1>2
<1>. QED
  BY <1>3, <1>4 DEF G

(* A row of a new plan is no better than the copy that is kept, and elsewhere.*)
LEMMA DedupManifestRow ==
  ASSUME Unbiased, DedupTypeOK, NEW biased \in Bias, NEW scope \in Scopes, NEW r \in De!Manifest(scope, biased)
  PROVE  /\ \E i \in DOMAIN table : table[i].pid = r.pid /\ table[i].at = r.from
         /\ r.pid \in Hashed
         /\ \A k : DedupKept(r.pid, k) =>
              r.from # table[k].at /\ Priority[table[k].at.name] <= Priority[r.from.name]
<1>1. PICK c \in Hashed : r \in De!RowsOf(c, scope, biased)
  BY DEF De!Manifest
<1>2. PICK i \in De!Group(c, scope) :
        /\ table[i].at # table[De!Keeper(De!Group(c, scope), biased)].at
        /\ r = [pid |-> c, from |-> table[i].at, action |-> Action[table[i].at.name]]
  BY <1>1 DEF De!RowsOf
<1>3. i \in DOMAIN table /\ table[i].current /\ table[i].pid = c /\ table[i].at.name \in scope
  BY DEF De!Group
<1>4. r.pid = c /\ r.from = table[i].at
  BY <1>2
<1>5. ASSUME NEW k, DedupKept(c, k)
      PROVE  table[i].at # table[k].at /\ Priority[table[k].at.name] <= Priority[table[i].at.name]
  <2>1. k \in DOMAIN table /\ table[k].current /\ table[k].pid = c
        /\ (\/ Priority[table[k].at.name] < Priority[table[i].at.name]
            \/ (Priority[table[k].at.name] = Priority[table[i].at.name] /\ k <= i))
    BY <1>3, <1>5 DEF DedupKept
  <2>2. Priority[table[k].at.name] \in Nat /\ Priority[table[i].at.name] \in Nat
    BY <1>3, <2>1, DedupClaimTypes
  <2>3. ASSUME table[i].at = table[k].at PROVE FALSE
    <3>1. k \in De!Group(c, scope)
      BY <1>3, <2>1, <2>3 DEF De!Group
    <3>2. De!Keeper(De!Group(c, scope), biased) = k
      BY <1>5, <3>1, DedupKeeper
    <3>. QED
      BY <1>2, <2>3, <3>2
  <2>. QED
    BY <2>1, <2>2, <2>3
<1>. QED
  BY <1>3, <1>4, <1>5

(* What is best stays best while other programs keep off. *)
LEMMA DedupLastCopy == DedupTypeOK /\ DedupSafe => De!LastCopySafe
<1>. SUFFICES ASSUME DedupTypeOK, DedupSafe, NEW i \in DOMAIN table, table[i].pid \notin touched
              PROVE  \E p \in Places : disk[De!Live(p)] = table[i].pid
  BY DEF De!LastCopySafe
<1>1. table[i] \in De!Claim
  BY DEF DedupTypeOK, De!TypeOK
<1>2. PICK k \in DOMAIN table : DedupKept(table[i].pid, k)
  BY <1>1 DEF DedupSafe, DedupCopies, DedupClaimed, De!Claim
<1>3. table[k].at \in De!Place /\ table[k].at.stash = 0 /\ disk[table[k].at] = table[i].pid
  BY <1>2, DedupClaimTypes DEF DedupKept
<1>4. table[k].at = De!Live(table[k].at.name) /\ table[k].at.name \in Places
  BY <1>3 DEF De!Place, De!Live
<1>. QED
  BY <1>3, <1>4

LEMMA DedupSafeInit == De!Init => DedupSafe
<1>. SUFFICES ASSUME De!Init PROVE DedupSafe
  OBVIOUS
<1>1. DOMAIN table = {} /\ DedupListed = {} /\ reading = {}
  BY DEF De!Init, DedupListed
<1>2. \A l \in De!Place : disk[l] \in Hashed => l.stash = 0
  BY PlansAssumption DEF De!Init, De!DedupAssumption
<1>3. DedupRows
  BY <1>1 DEF DedupRows, De!Init, De!NoJob
<1>. QED
  BY <1>1, <1>2, <1>3 DEF DedupSafe, DedupCopies, DedupClaimed, DedupOthers, DedupRead, DedupPlanned, DedupOwn

(* Where the kept copy stays, all that was no better than it stays so. *)
LEMMA DedupStays ==
  ASSUME NEW c, \A i \in DOMAIN table : DedupKept(c, i) => DedupKept(c, i)' /\ table'[i].at = table[i].at
  PROVE  /\ \A n : DedupNear(c, n) => DedupNear(c, n)'
         /\ (\E i \in DOMAIN table : DedupKept(c, i)) => (\E i \in DOMAIN table : DedupKept(c, i))'
<1>1. \A i : DedupKept(c, i)' => i \in DOMAIN table'
  BY DEF DedupKept
<1>. QED
  BY <1>1 DEF DedupNear

(* A step that only moves files is safe when it leaves what is kept, and      *)
(* whatever it takes or adds is no better.                                    *)
LEMMA DedupMoves ==
  ASSUME DedupTypeOK, DedupCopies, UNCHANGED <<table, manifests, reading>>, touched \subseteq touched',
         NEW taken, NEW put,
         \A l \in De!Place : l \notin taken \cup put => disk'[l] = disk[l],
         \A c \in Hashed \ touched', i \in DOMAIN table :
           DedupKept(c, i) => table[i].at \notin taken \cup put,
         \A l \in taken : disk'[l] \notin Hashed,
         \A c \in Hashed \ touched' :
           /\ \A l \in taken \cup put : disk[l] = c => DedupNear(c, l.name)
           /\ \A l \in put : disk'[l] = c => DedupNear(c, l.name) \/ (l.stash = 0 /\ DedupOwn(c, l))
  PROVE  DedupCopies'
<1>. SUFFICES ASSUME NEW c \in Hashed \ touched'
              PROVE  DedupClaimed(c)' /\ DedupOthers(c)' /\ DedupRead(c)' /\ DedupPlanned(c)'
  BY DEF DedupCopies
<1>1. DedupClaimed(c) /\ DedupOthers(c) /\ DedupRead(c) /\ DedupPlanned(c)
  BY DEF DedupCopies
<1>2. DedupListed' = DedupListed
  BY DEF DedupListed
<1>3. \A l : DedupOwn(c, l)' <=> DedupOwn(c, l)
  BY DEF DedupOwn
<1>4. ASSUME NEW i \in DOMAIN table, DedupKept(c, i) PROVE DedupKept(c, i)' /\ table'[i].at = table[i].at
  <2>1. table[i].at \in De!Place
    BY DedupClaimTypes
  <2>2. disk'[table[i].at] = disk[table[i].at]
    BY <1>4, <2>1
  <2>. QED
    BY <1>2, <1>3, <1>4, <2>2 DEF DedupKept
<1>5. /\ \A n : DedupNear(c, n) => DedupNear(c, n)'
      /\ (\E i \in DOMAIN table : DedupKept(c, i)) => (\E i \in DOMAIN table : DedupKept(c, i))'
  BY <1>4, DedupStays
<1>6. DedupClaimed(c)'
  BY <1>1, <1>5 DEF DedupClaimed
<1>7. DedupOthers(c)'
  <2>. SUFFICES ASSUME NEW l \in De!Place, disk'[l] = c
                PROVE  DedupNear(c, l.name) \/ (l.stash = 0 /\ DedupOwn(c, l))
    BY <1>3, <1>5 DEF DedupOthers, De!Place
  <2>. QED
    BY <1>1 DEF DedupOthers
<1>8. DedupRead(c)'
  <2>. SUFFICES ASSUME NEW r \in reading, r.pid = c PROVE disk'[r.at] = c \/ DedupNear(c, r.at.name)
    BY <1>5 DEF DedupRead
  <2>1. r.at \in De!Place
    BY DEF DedupTypeOK, De!TypeOK, De!Claim
  <2>. QED
    BY <1>1, <2>1 DEF DedupRead
<1>9. DedupPlanned(c)'
  BY <1>1, <1>2, <1>5 DEF DedupPlanned
<1>. QED
  BY <1>6, <1>7, <1>8, <1>9

(* What a row or an entry of a stash takes is no better than what is kept. *)
LEMMA DedupTaken ==
  ASSUME DedupTypeOK, DedupSafe, NEW r \in applying.row
  PROVE  /\ r \in De!ManifestRow
         /\ \A c \in Hashed \ touched : /\ disk[r.from] = c => DedupNear(c, r.from.name)
                                        /\ \A i : DedupKept(c, i) => table[i].at # r.from
<1>1. r \in De!ManifestRow /\ r \in DedupListed /\ r.from \in De!Place
  BY DEF DedupTypeOK, DedupJobOK, De!Job, De!ManifestRow, DedupSafe, DedupRows
<1>. SUFFICES ASSUME NEW c \in Hashed \ touched
              PROVE  /\ disk[r.from] = c => DedupNear(c, r.from.name)
                     /\ \A i : DedupKept(c, i) => table[i].at # r.from
  BY <1>1
<1>2. ASSUME disk[r.from] = c PROVE DedupNear(c, r.from.name)
  <2>1. PICK i \in DOMAIN table : table[i].pid = r.pid /\ table[i].at = r.from
    BY <1>1 DEF DedupSafe, DedupRows
  <2>2. DedupOwn(c, r.from) => r.pid = c
    BY <2>1 DEF DedupOwn
  <2>3. DedupNear(c, r.from.name) \/ DedupOwn(c, r.from)
    BY <1>1, <1>2 DEF DedupSafe, DedupCopies, DedupOthers
  <2>. QED
    BY <1>1, <2>2, <2>3 DEF DedupSafe, DedupCopies, DedupPlanned
<1>. QED
  BY <1>1, <1>2 DEF DedupKept

(* A file is renamed into a stash, or unlinked. *)
LEMMA DedupTakes ==
  ASSUME DedupTypeOK, DedupSafe, NEW r \in applying.row, De!StashRow(r) \/ De!RetireRow(r)
  PROVE  DedupCopies'
<1>1. /\ r \in De!ManifestRow /\ r.from \in De!Place /\ r.from.name \in Places
      /\ \A c \in Hashed \ touched : /\ disk[r.from] = c => DedupNear(c, r.from.name)
                                     /\ \A i : DedupKept(c, i) => table[i].at # r.from
  BY DedupTaken DEF De!ManifestRow, De!Place
<1>2. UNCHANGED <<table, manifests, reading, touched>>
  BY DEF De!StashRow, De!RetireRow, De!history
<1>3. NoFile \notin Hashed /\ disk \in [De!Place -> Hashed \cup {NoFile}]
  BY PlansAssumption DEF De!DedupAssumption, DedupTypeOK, De!TypeOK
<1>4. CASE De!StashRow(r)
  <2>. DEFINE to == De!Stashed(applying.plan, r.from)
  <2>2. applying.plan \in 1..MaxPlans
    BY DEF DedupTypeOK, DedupJobOK, De!Job
  <2>3. to \in De!Place /\ to.stash # 0 /\ to.name = r.from.name
    BY <1>1, <2>2 DEF De!Stashed, De!Place
  <2>4. \A l \in De!Place : l \notin {r.from} \cup {to} => disk'[l] = disk[l]
    BY <1>3, <1>4 DEF De!StashRow
  <2>5. disk[r.from] # NoFile /\ disk' = [disk EXCEPT ![r.from] = NoFile, ![to] = disk[r.from]]
    BY <1>4 DEF De!StashRow
  <2>. HIDE DEF to
  <2>6. disk'[to] = disk[r.from] /\ (to # r.from => disk'[r.from] = NoFile)
    BY <1>1, <1>3, <2>3, <2>5
  <2>. DEFINE taken == {r.from} \ {to}
  <2>7. \A l \in De!Place : l \notin taken \cup {to} => disk'[l] = disk[l]
    BY <2>4
  <2>8. \A c \in Hashed \ touched', i \in DOMAIN table : DedupKept(c, i) => table[i].at \notin taken \cup {to}
    BY <1>1, <1>2, <2>3 DEF DedupKept
  <2>9. ASSUME NEW c \in Hashed \ touched'
        PROVE  /\ \A l \in taken \cup {to} : disk[l] = c => DedupNear(c, l.name)
               /\ \A l \in {to} : disk'[l] = c => DedupNear(c, l.name) \/ (l.stash = 0 /\ DedupOwn(c, l))
    <3>1. disk[to] = c => DedupNear(c, to.name)
      BY <1>2, <2>3 DEF DedupSafe, DedupCopies, DedupOthers
    <3>2. disk[r.from] = c => DedupNear(c, r.from.name) /\ DedupNear(c, to.name)
      BY <1>1, <1>2, <2>3
    <3>. QED
      BY <2>6, <3>1, <3>2
  <2>11. \A l \in taken : disk'[l] \notin Hashed
    BY <1>3, <2>6
  <2>10. touched \subseteq touched' /\ UNCHANGED <<table, manifests, reading>> /\ DedupCopies
    BY <1>2 DEF DedupSafe
  <2>. HIDE DEF taken
  <2>. QED
    BY <2>7, <2>8, <2>9, <2>10, <2>11, DedupMoves
<1>5. CASE De!RetireRow(r)
  <2>. DEFINE taken == {r.from}
              put == {}
  <2>1. disk' = [disk EXCEPT ![r.from] = NoFile]
    BY <1>5 DEF De!RetireRow
  <2>2. disk'[r.from] = NoFile /\ \A l \in De!Place : l \notin taken \cup put => disk'[l] = disk[l]
    BY <1>1, <1>3, <2>1
  <2>3. touched \subseteq touched' /\ UNCHANGED <<table, manifests, reading>> /\ DedupCopies
    BY <1>2 DEF DedupSafe
  <2>4. \A c \in Hashed \ touched', i \in DOMAIN table : DedupKept(c, i) => table[i].at \notin taken \cup put
    BY <1>1, <1>2
  <2>5. ASSUME NEW c \in Hashed \ touched'
        PROVE  /\ \A l \in taken \cup put : disk[l] = c => DedupNear(c, l.name)
               /\ \A l \in put : disk'[l] = c => DedupNear(c, l.name) \/ (l.stash = 0 /\ DedupOwn(c, l))
    <3>1. disk[r.from] = c => DedupNear(c, r.from.name)
      BY <1>1, <1>2
    <3>2. \A l \in taken \cup put : l = r.from
      OBVIOUS
    <3>. QED
      BY <3>1, <3>2, Zenon
  <2>6. \A l \in taken : disk'[l] \notin Hashed
    BY <1>3, <2>2
  <2>. HIDE DEF taken, put
  <2>. QED
    BY <2>2, <2>3, <2>4, <2>5, <2>6, DedupMoves
<1>. QED
  BY <1>4, <1>5

(* A stashed file is unlinked, or renamed to where it was. *)
LEMMA DedupReturns ==
  ASSUME DedupTypeOK, DedupSafe, NEW e \in entries, De!Finalize(e) \/ De!Restore(e)
  PROVE  DedupCopies'
<1>. DEFINE at == De!Stashed(e.run, e.from)
<1>1. e.from \in De!Place /\ e.from.name \in Places /\ at \in De!Place /\ at.stash # 0 /\ at.name = e.from.name
  BY DEF DedupTypeOK, De!TypeOK, De!Entry, De!Stashed, De!Place
<1>2. UNCHANGED <<table, manifests, reading, touched>>
  BY DEF De!Finalize, De!Restore, De!history
<1>3. NoFile \notin Hashed /\ disk \in [De!Place -> Hashed \cup {NoFile}]
  BY PlansAssumption DEF De!DedupAssumption, DedupTypeOK, De!TypeOK
<1>4. \/ disk' = [disk EXCEPT ![at] = NoFile]
      \/ disk[e.from] = NoFile /\ disk' = [disk EXCEPT ![e.from] = disk[at], ![at] = NoFile]
  BY DEF De!Finalize, De!Restore
<1>. HIDE DEF at
<1>5. touched \subseteq touched' /\ UNCHANGED <<table, manifests, reading>> /\ DedupCopies
  BY <1>2 DEF DedupSafe
<1>6. \A c \in Hashed \ touched : disk[at] = c => DedupNear(c, at.name)
  BY <1>1 DEF DedupSafe, DedupCopies, DedupOthers
<1>7. CASE disk' = [disk EXCEPT ![at] = NoFile]
  <2>. DEFINE taken == {at}
              put == {}
  <2>1. disk'[at] = NoFile /\ \A l \in De!Place : l \notin taken \cup put => disk'[l] = disk[l]
    BY <1>1, <1>3, <1>7
  <2>2. \A c \in Hashed \ touched', i \in DOMAIN table : DedupKept(c, i) => table[i].at \notin taken \cup put
    BY <1>1 DEF DedupKept
  <2>3. ASSUME NEW c \in Hashed \ touched'
        PROVE  /\ \A l \in taken \cup put : disk[l] = c => DedupNear(c, l.name)
               /\ \A l \in put : disk'[l] = c => DedupNear(c, l.name) \/ (l.stash = 0 /\ DedupOwn(c, l))
    <3>1. disk[at] = c => DedupNear(c, at.name)
      BY <1>2, <1>6
    <3>2. \A l \in taken \cup put : l = at
      OBVIOUS
    <3>. QED
      BY <3>1, <3>2, Zenon
  <2>4. \A l \in taken : disk'[l] \notin Hashed
    BY <1>3, <2>1
  <2>. HIDE DEF taken, put
  <2>. QED
    BY <1>5, <2>1, <2>2, <2>3, <2>4, DedupMoves
<1>8. CASE disk[e.from] = NoFile /\ disk' = [disk EXCEPT ![e.from] = disk[at], ![at] = NoFile]
  <2>. DEFINE put == {e.from} \ {at}
  <2>1. disk'[at] = NoFile /\ (e.from # at => disk'[e.from] = disk[at])
        /\ \A l \in De!Place : l \notin {at} \cup put => disk'[l] = disk[l]
    BY <1>1, <1>3, <1>8
  <2>2. \A c \in Hashed \ touched', i \in DOMAIN table : DedupKept(c, i) => table[i].at \notin {at} \cup put
    BY <1>1, <1>3, <1>8 DEF DedupKept
  <2>3. ASSUME NEW c \in Hashed \ touched'
        PROVE  /\ \A l \in {at} \cup put : disk[l] = c => DedupNear(c, l.name)
               /\ \A l \in put : disk'[l] = c => DedupNear(c, l.name) \/ (l.stash = 0 /\ DedupOwn(c, l))
    <3>1. disk[at] = c => DedupNear(c, at.name) /\ DedupNear(c, e.from.name)
      BY <1>1, <1>2, <1>6
    <3>2. disk[e.from] # c
      BY <1>3, <1>8
    <3>. QED
      BY <2>1, <3>1, <3>2
  <2>4. \A l \in {at} : disk'[l] \notin Hashed
    BY <1>3, <2>1
  <2>. HIDE DEF put
  <2>. QED
    BY <1>5, <2>1, <2>2, <2>3, <2>4, DedupMoves
<1>. QED
  BY <1>4, <1>7, <1>8

(* Another program writes: what it takes a copy of, or puts over a claim, is  *)
(* touched from then on.                                                      *)
LEMMA DedupWrites ==
  ASSUME DedupTypeOK, DedupSafe, NEW p \in Places, NEW b \in Hashed \cup {NoFile}, De!Write(p, b)
  PROVE  DedupCopies'
<1>. DEFINE at == De!Live(p)
<1>1. at \in De!Place /\ at.stash = 0
  BY DEF De!Live, De!Place
<1>2. /\ UNCHANGED <<table, manifests, reading>> /\ disk' = [disk EXCEPT ![at] = b]
      /\ touched' = touched \cup ({disk[at]} \ {NoFile})
                      \cup (IF De!IsClaimed(at) \/ \E r \in reading : r.at = at THEN {b} \ {NoFile} ELSE {})
  BY DEF De!Write
<1>. HIDE DEF at
<1>3. NoFile \notin Hashed /\ disk \in [De!Place -> Hashed \cup {NoFile}]
  BY PlansAssumption DEF De!DedupAssumption, DedupTypeOK, De!TypeOK
<1>4. touched \subseteq touched' /\ UNCHANGED <<table, manifests, reading>> /\ DedupCopies
  BY <1>2 DEF DedupSafe
<1>. DEFINE taken == {}
            put == {at}
<1>5. disk'[at] = b /\ \A l \in De!Place : l \notin taken \cup put => disk'[l] = disk[l]
  BY <1>1, <1>2, <1>3
<1>6. \A c \in Hashed \ touched' : disk[at] # c
  BY <1>2, <1>3
<1>7. \A c \in Hashed \ touched', i \in DOMAIN table : DedupKept(c, i) => table[i].at \notin taken \cup put
  BY <1>6 DEF DedupKept
<1>8. ASSUME NEW c \in Hashed \ touched'
      PROVE  /\ \A l \in taken \cup put : disk[l] = c => DedupNear(c, l.name)
             /\ \A l \in put : disk'[l] = c => DedupNear(c, l.name) \/ (l.stash = 0 /\ DedupOwn(c, l))
  <2>1. b = c => DedupOwn(c, at)
    <3>. SUFFICES ASSUME b = c PROVE DedupOwn(c, at)
      OBVIOUS
    <3>1. ~(De!IsClaimed(at) \/ \E r \in reading : r.at = at)
      BY <1>2, <1>3
    <3>. QED
      BY <3>1 DEF De!IsClaimed, DedupOwn
  <2>2. \A l \in taken \cup put : l = at
    OBVIOUS
  <2>3. disk[at] # c /\ disk'[at] = b
    BY <1>5, <1>6
  <2>. QED
    BY <1>1, <2>1, <2>2, <2>3
<1>9. \A l \in taken : disk'[l] \notin Hashed
  OBVIOUS
<1>. HIDE DEF taken, put
<1>. QED
  BY <1>4, <1>5, <1>7, <1>8, <1>9, DedupMoves

(* The scanner reads a file. *)
LEMMA DedupReads ==
  ASSUME DedupTypeOK, DedupSafe, NEW p \in De!Place, De!ReadFile(p)
  PROVE  DedupSafe'
<1>1. /\ UNCHANGED <<disk, table, manifests, applying, touched>>
      /\ reading = {} /\ reading' = {[pid |-> disk[p], at |-> p, current |-> TRUE]}
  BY DEF De!ReadFile, De!history
<1>2. DedupListed' = DedupListed
  BY <1>1 DEF DedupListed
<1>3. DedupRows'
  BY <1>1, <1>2 DEF DedupSafe, DedupRows
<1>. SUFFICES ASSUME NEW c \in Hashed \ touched
              PROVE  DedupClaimed(c)' /\ DedupOthers(c)' /\ DedupRead(c)' /\ DedupPlanned(c)'
  BY <1>1, <1>3 DEF DedupSafe, DedupCopies
<1>4. DedupClaimed(c) /\ DedupOthers(c) /\ DedupRead(c) /\ DedupPlanned(c)
  BY DEF DedupSafe, DedupCopies
<1>5. ASSUME NEW l, disk[l] = c, DedupOwn(c, l) PROVE DedupOwn(c, l)'
  <2>1. ASSUME NEW r \in reading', r.at = l PROVE r.pid = c
    BY <1>1, <1>5, <2>1
  <2>. QED
    BY <1>1, <1>5, <2>1 DEF DedupOwn
<1>6. ASSUME NEW i \in DOMAIN table, DedupKept(c, i) PROVE DedupKept(c, i)' /\ table'[i].at = table[i].at
  <2>1. DedupOwn(c, table[i].at)'
    BY <1>1, <1>5, <1>6 DEF DedupKept
  <2>. QED
    BY <1>1, <1>2, <1>6, <2>1 DEF DedupKept
<1>7. /\ \A n : DedupNear(c, n) => DedupNear(c, n)'
      /\ (\E i \in DOMAIN table : DedupKept(c, i)) => (\E i \in DOMAIN table : DedupKept(c, i))'
  BY <1>6, DedupStays
<1>8. DedupClaimed(c)'
  BY <1>1, <1>4, <1>7 DEF DedupClaimed
<1>9. DedupOthers(c)'
  <2>. SUFFICES ASSUME NEW l \in De!Place, disk'[l] = c
                PROVE  DedupNear(c, l.name)' \/ (l.stash = 0 /\ DedupOwn(c, l)')
    BY DEF DedupOthers, De!Place
  <2>. QED
    BY <1>1, <1>4, <1>5, <1>7 DEF DedupOthers
<1>10. DedupRead(c)'
  BY <1>1 DEF DedupRead
<1>11. DedupPlanned(c)'
  BY <1>2, <1>4, <1>7 DEF DedupPlanned
<1>. QED
  BY <1>8, <1>9, <1>10, <1>11

(* A plan is written. *)
LEMMA DedupPlans ==
  ASSUME Unbiased, DedupTypeOK, DedupSafe, NEW scope \in Scopes, NEW biased \in Bias, De!Plan(scope, biased)
  PROVE  DedupSafe'
<1>1. /\ UNCHANGED <<disk, table, reading, applying, touched>>
      /\ manifests' = Append(manifests, De!Manifest(scope, biased))
  BY DEF De!Plan, De!history
<1>2. DedupListed' = DedupListed \cup De!Manifest(scope, biased)
  <2>1. manifests \in Seq(SUBSET De!ManifestRow)
    BY DEF DedupTypeOK, De!TypeOK
  <2>2. DOMAIN manifests' = DOMAIN manifests \cup {Len(manifests) + 1}
    BY <1>1, <2>1
  <2>3. /\ \A k \in DOMAIN manifests : manifests'[k] = manifests[k]
        /\ manifests'[Len(manifests) + 1] = De!Manifest(scope, biased)
    BY <1>1, <2>1
  <2>. QED
    BY <2>2, <2>3 DEF DedupListed
<1>3. \A r \in De!Manifest(scope, biased) :
        /\ \E i \in DOMAIN table : table[i].pid = r.pid /\ table[i].at = r.from
        /\ r.pid \in Hashed
        /\ \A k : DedupKept(r.pid, k) =>
             r.from # table[k].at /\ Priority[table[k].at.name] <= Priority[r.from.name]
  BY DedupManifestRow
<1>. HIDE DEF De!Manifest
<1>4. DedupRows'
  <2>1. \A r \in DedupListed' : \E i \in DOMAIN table' : table'[i].pid = r.pid /\ table'[i].at = r.from
    BY <1>1, <1>2, <1>3 DEF DedupSafe, DedupRows
  <2>. QED
    BY <1>1, <1>2, <2>1 DEF DedupSafe, DedupRows
<1>. SUFFICES ASSUME NEW c \in Hashed \ touched
              PROVE  DedupClaimed(c)' /\ DedupOthers(c)' /\ DedupRead(c)' /\ DedupPlanned(c)'
  BY <1>1, <1>4 DEF DedupSafe, DedupCopies
<1>5. DedupClaimed(c) /\ DedupOthers(c) /\ DedupRead(c) /\ DedupPlanned(c)
  BY DEF DedupSafe, DedupCopies
<1>6. \A l : DedupOwn(c, l)' <=> DedupOwn(c, l)
  BY <1>1 DEF DedupOwn
<1>7. ASSUME NEW i \in DOMAIN table, DedupKept(c, i) PROVE DedupKept(c, i)' /\ table'[i].at = table[i].at
  <2>1. ASSUME NEW r \in De!Manifest(scope, biased), r.from = table[i].at PROVE FALSE
    <3>1. PICK j \in DOMAIN table : table[j].pid = r.pid /\ table[j].at = r.from
      BY <1>3
    <3>2. r.pid = c
      BY <1>7, <2>1, <3>1 DEF DedupKept, DedupOwn
    <3>. QED
      BY <1>3, <1>7, <2>1, <3>2
  <2>2. \A r \in DedupListed' : r.from # table[i].at
    BY <1>2, <1>7, <2>1 DEF DedupKept
  <2>. QED
    BY <1>1, <1>6, <1>7, <2>2 DEF DedupKept
<1>8. /\ \A n : DedupNear(c, n) => DedupNear(c, n)'
      /\ (\E i \in DOMAIN table : DedupKept(c, i)) => (\E i \in DOMAIN table : DedupKept(c, i))'
  BY <1>7, DedupStays
<1>9. DedupClaimed(c)'
  BY <1>1, <1>5, <1>8 DEF DedupClaimed
<1>10. DedupOthers(c)'
  <2>. SUFFICES ASSUME NEW l \in De!Place, disk'[l] = c
                PROVE  DedupNear(c, l.name)' \/ (l.stash = 0 /\ DedupOwn(c, l)')
    BY DEF DedupOthers, De!Place
  <2>. QED
    BY <1>1, <1>5, <1>6, <1>8 DEF DedupOthers
<1>11. DedupRead(c)'
  <2>. SUFFICES ASSUME NEW r \in reading, r.pid = c PROVE disk[r.at] = c \/ DedupNear(c, r.at.name)'
    BY <1>1 DEF DedupRead
  <2>. QED
    BY <1>5, <1>8 DEF DedupRead
<1>12. DedupPlanned(c)'
  <2>. SUFFICES ASSUME NEW r \in DedupListed', r.pid = c PROVE DedupNear(c, r.from.name)'
    BY DEF DedupPlanned
  <2>1. CASE r \in DedupListed
    BY <1>5, <1>8, <2>1 DEF DedupPlanned
  <2>2. CASE r \in De!Manifest(scope, biased)
    <3>1. PICK k \in DOMAIN table : DedupKept(c, k)
      BY <1>3, <1>5, <2>2 DEF DedupClaimed
    <3>2. DedupNear(c, r.from.name)
      BY <1>3, <2>2, <3>1 DEF DedupNear
    <3>. QED
      BY <1>8, <3>2
  <2>. QED
    BY <1>2, <2>1, <2>2
<1>. QED
  BY <1>9, <1>10, <1>11, <1>12

(* The scanner inserts a claim: it becomes the kept copy when it is better,   *)
(* and no other program touched the content.                                  *)
LEMMA DedupInserts == DedupTypeOK /\ DedupSafe /\ De!InsertClaim => DedupSafe'
<1>. SUFFICES ASSUME DedupTypeOK, DedupSafe, De!InsertClaim PROVE DedupSafe'
  OBVIOUS
<1>0. PICK n : n = Len(table) + 1
  OBVIOUS
<1>1. PICK r \in reading : table' = Append(table, r)
  BY DEF De!InsertClaim
<1>2. reading' = {} /\ UNCHANGED <<disk, manifests, applying, touched>>
  BY DEF De!InsertClaim
<1>3. table \in Seq(De!Claim) /\ r \in De!Claim
  BY DEF DedupTypeOK, De!TypeOK
<1>4. /\ n \in Nat /\ n \notin DOMAIN table
      /\ DOMAIN table' = DOMAIN table \cup {n}
      /\ table'[n] = r /\ \A i \in DOMAIN table : table'[i] = table[i] /\ i < n /\ i \in Nat
  BY <1>0, <1>1, <1>3
<1>5. r.current /\ r.at \in De!Place /\ r.at.name \in Places
  BY <1>3 DEF DedupSafe, DedupRows, De!Claim, De!Place
<1>6. \A m \in Places : Priority[m] \in Nat
  BY PlansAssumption DEF De!DedupAssumption
<1>7. DedupListed' = DedupListed /\ DedupListed \subseteq De!ManifestRow
  BY <1>2 DEF DedupListed, DedupTypeOK, De!TypeOK
<1>8. DedupRows'
  <2>1. \A p \in DedupListed' : \E i \in DOMAIN table' : table'[i].pid = p.pid /\ table'[i].at = p.from
    BY <1>4, <1>7 DEF DedupSafe, DedupRows
  <2>. QED
    BY <1>2, <1>7, <2>1 DEF DedupSafe, DedupRows
<1>. SUFFICES ASSUME NEW c \in Hashed \ touched
              PROVE  DedupClaimed(c)' /\ DedupOthers(c)' /\ DedupRead(c)' /\ DedupPlanned(c)'
  BY <1>2, <1>8 DEF DedupSafe, DedupCopies
<1>9. DedupClaimed(c) /\ DedupOthers(c) /\ DedupRead(c) /\ DedupPlanned(c)
  BY DEF DedupSafe, DedupCopies
<1>10. ASSUME NEW l, DedupOwn(c, l) PROVE DedupOwn(c, l)'
  BY <1>2, <1>4, <1>10 DEF DedupOwn
<1>11. /\ \A i \in DOMAIN table : DedupKept(c, i) =>
            \A j \in DOMAIN table : table[j].current /\ table[j].pid = c =>
              Priority[table[i].at.name] <= Priority[table[j].at.name]
       /\ \A i \in DOMAIN table : table[i].at.name \in Places
  BY <1>6, DedupClaimTypes DEF DedupKept
<1>12. ASSUME NEW i \in DOMAIN table, DedupKept(c, i), r.pid = c => Priority[table[i].at.name] <= Priority[r.at.name]
       PROVE  DedupKept(c, i)'
  <2>1. i \in DOMAIN table' /\ table'[i] = table[i] /\ DedupOwn(c, table[i].at)'
    BY <1>4, <1>10, <1>12 DEF DedupKept
  <2>2. ASSUME NEW j \in DOMAIN table', table'[j].current, table'[j].pid = c
        PROVE  \/ Priority[table'[i].at.name] < Priority[table'[j].at.name]
               \/ (Priority[table'[i].at.name] = Priority[table'[j].at.name] /\ i <= j)
    <3>1. CASE j \in DOMAIN table
      BY <1>4, <1>12, <2>1, <2>2, <3>1 DEF DedupKept
    <3>2. CASE j = n
      <4>1. Priority[table[i].at.name] \in Nat /\ Priority[r.at.name] \in Nat
        BY <1>5, <1>6, <1>11
      <4>. QED
        BY <1>4, <1>12, <2>1, <2>2, <3>2, <4>1
    <3>. QED
      BY <1>4, <3>1, <3>2
  <2>. QED
    BY <1>2, <1>7, <1>12, <2>1, <2>2 DEF DedupKept
<1>13. CASE r.pid = c => DedupNear(c, r.at.name)
  <2>1. ASSUME NEW i \in DOMAIN table, DedupKept(c, i) PROVE DedupKept(c, i)' /\ table'[i].at = table[i].at
    <3>1. ASSUME r.pid = c PROVE Priority[table[i].at.name] <= Priority[r.at.name]
      <4>1. PICK k \in DOMAIN table : DedupKept(c, k) /\ Priority[table[k].at.name] <= Priority[r.at.name]
        BY <1>13, <3>1 DEF DedupNear
      <4>2. Priority[table[i].at.name] <= Priority[table[k].at.name]
        BY <1>11, <2>1, <4>1 DEF DedupKept
      <4>3. Priority[table[i].at.name] \in Nat /\ Priority[table[k].at.name] \in Nat /\ Priority[r.at.name] \in Nat
        BY <1>5, <1>6, <1>11
      <4>. QED
        BY <4>1, <4>2, <4>3
    <3>. QED
      BY <1>4, <1>12, <2>1, <3>1
  <2>2. /\ \A m : DedupNear(c, m) => DedupNear(c, m)'
        /\ (\E i \in DOMAIN table : DedupKept(c, i)) => (\E i \in DOMAIN table : DedupKept(c, i))'
    BY <2>1, DedupStays
  <2>3. DedupClaimed(c)'
    <3>1. ASSUME NEW i \in DOMAIN table', table'[i].pid = c PROVE \E k \in DOMAIN table : DedupKept(c, k)
      BY <1>4, <1>9, <1>13, <3>1 DEF DedupClaimed, DedupNear
    <3>. QED
      BY <2>2, <3>1 DEF DedupClaimed
  <2>4. DedupOthers(c)'
    <3>. SUFFICES ASSUME NEW l \in De!Place, disk'[l] = c
                  PROVE  DedupNear(c, l.name)' \/ (l.stash = 0 /\ DedupOwn(c, l)')
      BY DEF DedupOthers, De!Place
    <3>. QED
      BY <1>2, <1>9, <1>10, <2>2 DEF DedupOthers
  <2>5. DedupRead(c)' /\ DedupPlanned(c)'
    BY <1>2, <1>7, <1>9, <2>2 DEF DedupRead, DedupPlanned
  <2>. QED
    BY <2>3, <2>4, <2>5
<1>14. CASE r.pid = c /\ ~DedupNear(c, r.at.name)
  <2>1. \A k \in DOMAIN table : DedupKept(c, k) => Priority[r.at.name] < Priority[table[k].at.name]
    <3>. SUFFICES ASSUME NEW k \in DOMAIN table, DedupKept(c, k) PROVE Priority[r.at.name] < Priority[table[k].at.name]
      OBVIOUS
    <3>1. ~(Priority[table[k].at.name] <= Priority[r.at.name])
      BY <1>14 DEF DedupNear
    <3>2. Priority[table[k].at.name] \in Nat /\ Priority[r.at.name] \in Nat
      BY <1>5, <1>6, <1>11
    <3>. QED
      BY <3>1, <3>2
  <2>2. disk[r.at] = c
    BY <1>9, <1>14 DEF DedupRead
  <2>3. r.at.stash = 0 /\ DedupOwn(c, r.at)
    BY <1>5, <1>9, <1>14, <2>2 DEF DedupOthers
  <2>4. ASSUME NEW p \in DedupListed, p.from = r.at PROVE FALSE
    <3>1. PICK i \in DOMAIN table : table[i].pid = p.pid /\ table[i].at = p.from
      BY DEF DedupSafe, DedupRows
    <3>2. p.pid = c
      BY <2>3, <2>4, <3>1 DEF DedupOwn
    <3>. QED
      BY <1>9, <1>14, <2>4, <3>2 DEF DedupPlanned
  <2>5. ASSUME NEW j \in DOMAIN table', table'[j].current, table'[j].pid = c
        PROVE  \/ Priority[r.at.name] < Priority[table'[j].at.name]
               \/ (Priority[r.at.name] = Priority[table'[j].at.name] /\ n <= j)
    <3>1. CASE j \in DOMAIN table
      <4>1. PICK k \in DOMAIN table : DedupKept(c, k)
        BY <1>4, <1>9, <2>5, <3>1 DEF DedupClaimed
      <4>2. Priority[r.at.name] < Priority[table[k].at.name]
        BY <2>1, <4>1
      <4>3. Priority[table[k].at.name] <= Priority[table[j].at.name]
        BY <1>4, <1>11, <2>5, <3>1, <4>1
      <4>4. Priority[table[j].at.name] \in Nat /\ Priority[table[k].at.name] \in Nat /\ Priority[r.at.name] \in Nat
        BY <1>5, <1>6, <1>11, <3>1
      <4>. QED
        BY <1>4, <3>1, <4>2, <4>3, <4>4
    <3>2. CASE j = n
      BY <1>4, <3>2
    <3>. QED
      BY <1>4, <3>1, <3>2
  <2>6. DedupKept(c, n)'
    <3>1. n \in DOMAIN table' /\ table'[n] = r /\ DedupOwn(c, r.at)'
      BY <1>4, <1>10, <2>3
    <3>2. \A p \in DedupListed' : p.from # r.at
      BY <1>7, <2>4
    <3>3. disk'[r.at] = c
      BY <1>2, <2>2
    <3>. QED
      BY <1>5, <1>14, <2>3, <2>5, <3>1, <3>2, <3>3 DEF DedupKept
  <2>7. ASSUME NEW m \in Places, DedupNear(c, m) PROVE DedupNear(c, m)'
    <3>1. PICK k \in DOMAIN table : DedupKept(c, k) /\ Priority[table[k].at.name] <= Priority[m]
      BY <2>7 DEF DedupNear
    <3>2. Priority[r.at.name] < Priority[table[k].at.name]
      BY <2>1, <3>1
    <3>3. Priority[table[k].at.name] \in Nat /\ Priority[m] \in Nat /\ Priority[r.at.name] \in Nat
      BY <1>5, <1>6, <1>11
    <3>4. Priority[r.at.name] <= Priority[m]
      BY <3>1, <3>2, <3>3
    <3>. QED
      BY <1>4, <2>6, <3>4 DEF DedupNear
  <2>8. DedupClaimed(c)'
    BY <1>4, <2>6 DEF DedupClaimed
  <2>9. DedupOthers(c)'
    <3>. SUFFICES ASSUME NEW l \in De!Place, disk'[l] = c
                  PROVE  DedupNear(c, l.name)' \/ (l.stash = 0 /\ DedupOwn(c, l)')
      BY DEF DedupOthers, De!Place
    <3>1. l.name \in Places
      BY DEF De!Place
    <3>. QED
      BY <1>2, <1>9, <1>10, <2>7, <3>1 DEF DedupOthers
  <2>10. DedupPlanned(c)'
    <3>1. \A p \in DedupListed : p.from.name \in Places
      BY <1>7 DEF De!ManifestRow, De!Place
    <3>. QED
      BY <1>7, <1>9, <2>7, <3>1 DEF DedupPlanned
  <2>. QED
    BY <1>2, <2>8, <2>9, <2>10 DEF DedupRead
<1>. QED
  BY <1>13, <1>14

(* An apply ends: claims of what it retired are no longer current. *)
LEMMA DedupEnds == DedupTypeOK /\ DedupSafe /\ De!EndApply => DedupSafe'
<1>. SUFFICES ASSUME DedupTypeOK, DedupSafe, De!EndApply PROVE DedupSafe'
  OBVIOUS
<1>1. /\ UNCHANGED <<disk, manifests, reading, touched>>
      /\ table' = De!Flipped(applying.flips) /\ applying' = De!NoJob
  BY DEF De!EndApply
<1>2. DOMAIN table' = DOMAIN table
  BY <1>1 DEF De!Flipped
<1>3. ASSUME NEW i \in DOMAIN table
      PROVE  /\ table'[i].pid = table[i].pid /\ table'[i].at = table[i].at
             /\ table'[i].current <=>
                  table[i].current /\ \A r \in applying.flips : r.pid # table[i].pid \/ r.from # table[i].at
  <2>1. table[i] \in De!Claim
    BY DEF DedupTypeOK, De!TypeOK
  <2>2. table'[i] = [table[i] EXCEPT !.current =
                       @ /\ \A r \in applying.flips : r.pid # table[i].pid \/ r.from # table[i].at]
    BY <1>1, Zenon DEF De!Flipped
  <2>. QED
    BY <2>1, <2>2 DEF De!Claim
<1>4. DedupListed' = DedupListed /\ applying.flips \subseteq DedupListed
  BY <1>1 DEF DedupListed, DedupSafe, DedupRows
<1>5. DedupRows'
  <2>1. \A r \in DedupListed' : \E i \in DOMAIN table' : table'[i].pid = r.pid /\ table'[i].at = r.from
    BY <1>2, <1>3, <1>4 DEF DedupSafe, DedupRows
  <2>. QED
    BY <1>1, <1>4, <2>1 DEF DedupSafe, DedupRows, De!NoJob
<1>. SUFFICES ASSUME NEW c \in Hashed \ touched
              PROVE  DedupClaimed(c)' /\ DedupOthers(c)' /\ DedupRead(c)' /\ DedupPlanned(c)'
  BY <1>1, <1>5 DEF DedupSafe, DedupCopies
<1>6. DedupClaimed(c) /\ DedupOthers(c) /\ DedupRead(c) /\ DedupPlanned(c)
  BY DEF DedupSafe, DedupCopies
<1>7. ASSUME NEW l, DedupOwn(c, l) PROVE DedupOwn(c, l)'
  BY <1>1, <1>2, <1>3, <1>7 DEF DedupOwn
<1>8. ASSUME NEW i \in DOMAIN table, DedupKept(c, i) PROVE DedupKept(c, i)' /\ table'[i].at = table[i].at
  <2>1. table'[i].current
    BY <1>3, <1>4, <1>8 DEF DedupKept
  <2>2. DedupOwn(c, table[i].at)'
    <3>1. PICK l : l = table[i].at
      OBVIOUS
    <3>2. DedupOwn(c, l)'
      BY <1>7, <1>8, <3>1 DEF DedupKept
    <3>3. table'[i].at = l
      BY <1>3, <3>1
    <3>. QED
      BY <3>2, <3>3 DEF DedupOwn
  <2>3. ASSUME NEW j \in DOMAIN table', table'[j].current, table'[j].pid = c
        PROVE  \/ Priority[table'[i].at.name] < Priority[table'[j].at.name]
               \/ (Priority[table'[i].at.name] = Priority[table'[j].at.name] /\ i <= j)
    BY <1>2, <1>3, <1>8, <2>3 DEF DedupKept
  <2>. QED
    BY <1>1, <1>2, <1>3, <1>4, <1>8, <2>1, <2>2, <2>3 DEF DedupKept
<1>9. /\ \A n : DedupNear(c, n) => DedupNear(c, n)'
      /\ (\E i \in DOMAIN table : DedupKept(c, i)) => (\E i \in DOMAIN table : DedupKept(c, i))'
  BY <1>8, DedupStays
<1>10. DedupClaimed(c)'
  BY <1>2, <1>3, <1>6, <1>9 DEF DedupClaimed
<1>11. DedupOthers(c)'
  <2>. SUFFICES ASSUME NEW l \in De!Place, disk'[l] = c
                PROVE  DedupNear(c, l.name)' \/ (l.stash = 0 /\ DedupOwn(c, l)')
    BY DEF DedupOthers, De!Place
  <2>. QED
    BY <1>1, <1>6, <1>7, <1>9 DEF DedupOthers
<1>12. DedupRead(c)' /\ DedupPlanned(c)'
  <2>. SUFFICES ASSUME NEW r \in reading, r.pid = c PROVE disk'[r.at] = c \/ DedupNear(c, r.at.name)'
    BY <1>1, <1>4, <1>6, <1>9 DEF DedupRead, DedupPlanned
  <2>. QED
    BY <1>1, <1>6, <1>9 DEF DedupRead
<1>. QED
  BY <1>10, <1>11, <1>12

(* Every step of Dedup keeps what is kept. *)
LEMMA DedupSafeStep ==
  ASSUME Unbiased, DedupTypeOK, DedupSafe, [De!Next]_De!vars
  PROVE  DedupSafe'
<1>1. ASSUME DedupCopies', UNCHANGED <<table, manifests, reading>>,
             applying'.todo \cup applying'.row \cup applying'.flips \subseteq DedupListed
      PROVE  DedupSafe'
  <2>1. DedupListed' = DedupListed
    BY <1>1 DEF DedupListed
  <2>. QED
    BY <1>1, <2>1 DEF DedupSafe, DedupRows
<1>2. applying \in De!Job /\ applying.todo \cup applying.row \cup applying.flips \subseteq DedupListed
  BY DEF DedupTypeOK, DedupJobOK, DedupSafe, DedupRows
<1>3. ASSUME UNCHANGED <<disk, table, manifests, reading, touched>>,
             applying'.todo \cup applying'.row \cup applying'.flips \subseteq DedupListed
      PROVE  DedupSafe'
  <2>1. DedupListed' = DedupListed
    BY <1>3 DEF DedupListed
  <2>2. \A c, l : DedupOwn(c, l)' <=> DedupOwn(c, l)
    BY <1>3 DEF DedupOwn
  <2>3. \A c, i : DedupKept(c, i)' <=> DedupKept(c, i)
    BY <1>3, <2>1, <2>2 DEF DedupKept
  <2>4. \A c, n : DedupNear(c, n)' <=> DedupNear(c, n)
    BY <1>3, <2>3 DEF DedupNear
  <2>5. ASSUME NEW c \in Hashed \ touched PROVE DedupClaimed(c)' /\ DedupOthers(c)' /\ DedupRead(c)' /\ DedupPlanned(c)'
    <3>1. DedupClaimed(c) /\ DedupOthers(c) /\ DedupRead(c) /\ DedupPlanned(c)
      BY DEF DedupSafe, DedupCopies
    <3>2. DedupClaimed(c)' /\ DedupRead(c)' /\ DedupPlanned(c)'
      BY <1>3, <2>1, <2>3, <2>4, <3>1 DEF DedupClaimed, DedupRead, DedupPlanned
    <3>3. DedupOthers(c)'
      <4>. SUFFICES ASSUME NEW l \in De!Place, disk'[l] = c
                    PROVE  DedupNear(c, l.name)' \/ (l.stash = 0 /\ DedupOwn(c, l)')
        BY DEF DedupOthers, De!Place
      <4>. QED
        BY <1>3, <2>2, <2>4, <3>1 DEF DedupOthers
    <3>. QED
      BY <3>2, <3>3
  <2>. QED
    BY <1>1, <1>3, <2>5 DEF DedupCopies
<1>4. ASSUME NEW l \in De!Place, De!ReadFile(l) PROVE DedupSafe'
  BY <1>4, DedupReads
<1>5. CASE De!InsertClaim
  BY <1>5, DedupInserts
<1>6. ASSUME NEW scope \in Scopes, NEW biased \in Bias, De!Plan(scope, biased) PROVE DedupSafe'
  BY <1>6, DedupPlans
<1>7. ASSUME NEW k \in 1..Len(manifests), NEW verify \in BOOLEAN, De!StartApply(k, verify) PROVE DedupSafe'
  <2>1. applying' = [plan |-> k, verify |-> verify, todo |-> manifests[k], row |-> {}, flips |-> {}, stashed |-> {}]
    BY <1>7 DEF De!StartApply, De!NoJob
  <2>2. manifests[k] \subseteq DedupListed
    BY DEF DedupListed, DedupTypeOK, De!TypeOK
  <2>3. applying'.todo \cup applying'.row \cup applying'.flips \subseteq DedupListed
    BY <2>1, <2>2
  <2>4. UNCHANGED <<disk, table, manifests, reading, touched>>
    BY <1>7 DEF De!StartApply, De!history
  <2>. QED
    BY <1>3, <2>3, <2>4
<1>8. ASSUME NEW r \in applying.todo, De!CheckRow(r) PROVE DedupSafe'
  <2>1. applying'.todo \cup applying'.row \cup applying'.flips \subseteq DedupListed
    BY <1>2, <1>8 DEF De!CheckRow, De!Job
  <2>. QED
    BY <1>3, <1>8, <2>1 DEF De!CheckRow, De!history
<1>9. ASSUME NEW r \in applying.todo \cup applying.row, De!SkipRow(r) PROVE DedupSafe'
  <2>1. applying'.todo \cup applying'.row \cup applying'.flips \subseteq DedupListed
    BY <1>2, <1>9 DEF De!SkipRow, De!Job
  <2>. QED
    BY <1>3, <1>9, <2>1 DEF De!SkipRow, De!history
<1>10. ASSUME NEW r \in applying.row, De!StashRow(r) \/ De!RetireRow(r) PROVE DedupSafe'
  <2>1. applying'.todo \cup applying'.row \cup applying'.flips \subseteq DedupListed
    <3>1. applying'.todo = applying.todo /\ applying'.row = {}
      BY <1>2, <1>10 DEF De!StashRow, De!RetireRow, De!Job
    <3>2. applying'.flips \subseteq applying.flips \cup {r}
      <4>1. CASE De!StashRow(r)
        BY <1>2, <4>1 DEF De!StashRow, De!Job
      <4>2. CASE De!RetireRow(r)
        BY <1>2, <4>2 DEF De!RetireRow, De!Job
      <4>. QED
        BY <1>10, <4>1, <4>2
    <3>. QED
      BY <1>2, <3>1, <3>2
  <2>2. UNCHANGED <<table, manifests, reading>>
    BY <1>10 DEF De!StashRow, De!RetireRow
  <2>. QED
    BY <1>1, <1>10, <2>1, <2>2, DedupTakes
<1>11. CASE De!EndApply
  BY <1>11, DedupEnds
<1>12. CASE De!Abort
  BY <1>3, <1>12 DEF De!Abort, De!history, De!NoJob
<1>13. ASSUME NEW e \in entries, De!Finalize(e) \/ De!Restore(e) PROVE DedupSafe'
  <2>1. UNCHANGED <<table, manifests, reading, applying>>
    BY <1>13 DEF De!Finalize, De!Restore
  <2>. QED
    BY <1>1, <1>2, <1>13, <2>1, DedupReturns
<1>14. ASSUME NEW p \in Places, NEW c \in Hashed \cup {NoFile}, De!Write(p, c) PROVE DedupSafe'
  <2>1. UNCHANGED <<table, manifests, reading, applying>>
    BY <1>14 DEF De!Write
  <2>. QED
    BY <1>1, <1>2, <1>14, <2>1, DedupWrites
<1>15. CASE UNCHANGED De!vars
  BY <1>2, <1>3, <1>15 DEF De!vars, De!history
<1>. QED
  BY <1>4, <1>5, <1>6, <1>7, <1>8, <1>9, <1>10, <1>11, <1>12, <1>13, <1>14, <1>15 DEF De!Next

-----------------------------------------------------------------------------
(* The filters and the applies of CloudRetire, at each of their steps. *)
CloudFilter ==
  [at : {"idle"}]
  \cup [at : {"probe"}, left : SUBSET Cl!Row, kept : SUBSET Cl!Row, saw : SUBSET Cl!Row]
  \cup [at : {"mount"}, left : SUBSET Cl!Row, kept : SUBSET Cl!Row, saw : SUBSET Cl!Row,
        row : Cl!Row, store : {"yes", "no", "error"}]
CloudJob ==
  [at : {"idle"}]
  \cup [at : {"row"}, left : SUBSET Cl!Row, preferMount : BOOLEAN, verify : BOOLEAN, dual : BOOLEAN]
  \cup [at : {"unlink"}, left : SUBSET Cl!Row, preferMount : BOOLEAN, verify : BOOLEAN, dual : BOOLEAN,
        row : Cl!Row, seen : BOOLEAN]

CloudTypes ==
  /\ forms \in [Cl!Path -> Bytes \cup {NoFile}]
  /\ current \in Seq(Cl!Claim)
  /\ {list, bucket, both} \subseteq SUBSET Cl!Row
  /\ sieve \in CloudFilter /\ deleting \in CloudJob

(* A filter keeps what it saw on both sides; an apply and a filter exclude    *)
(* each other; a file that is about to be deleted, was verified and not       *)
(* written since is what its row names.                                       *)
CloudKeeps ==
  /\ bucket \subseteq both
  /\ sieve.at # "idle" => sieve.kept \subseteq sieve.saw
  /\ sieve.at = "idle" \/ deleting.at = "idle"
  /\ deleting.at = "idle" => removed = {}
  /\ deleting.at # "idle" /\ deleting.dual => deleting.left \subseteq both
  /\ deleting.at = "unlink" =>
       /\ deleting.row \in deleting.left
       /\ deleting.verify /\ deleting.seen =>
            forms[Cl!UnlinkPath(deleting.row, deleting.preferMount)] = deleting.row.content

CloudInv == CloudTypes /\ CloudKeeps /\ Cl!RemovedKnowingly

(* Every path a row is deleted at is a path. *)
LEMMA CloudUnlinkPath ==
  ASSUME NEW row \in Cl!Row, NEW preferMount \in BOOLEAN
  PROVE  Cl!UnlinkPath(row, preferMount) \in Cl!Path
BY DEF Cl!UnlinkPath, Cl!Row, Cl!Path, Cl!Form

(* Plans and seeds list rows of claims. *)
LEMMA CloudLists ==
  ASSUME current \in Seq(Cl!Claim), NEW roots
  PROVE  /\ Cl!Duplicates(roots) \subseteq Cl!Row
         /\ {[path |-> current[i].path, content |-> current[i].content, keeper |-> Cl!NoKeeper] :
               i \in Cl!Current(roots)} \subseteq Cl!Row
<1>1. \A i \in Cl!Current(roots) : i \in DOMAIN current /\ current[i].path \in Cl!Path /\ current[i].content \in Bytes
  <2>1. \A i \in DOMAIN current : current[i] \in Cl!Claim
    OBVIOUS
  <2>. QED
    BY <2>1 DEF Cl!Current, Cl!Claim
<1>2. {[path |-> current[i].path, content |-> current[i].content, keeper |-> Cl!NoKeeper] :
               i \in Cl!Current(roots)} \subseteq Cl!Row
  BY <1>1 DEF Cl!Row
<1>3. ASSUME NEW c \in Bytes, NEW i \in Cl!Group(c, roots)
      PROVE  [path |-> current[i].path, content |-> c, keeper |-> current[Cl!Oldest(Cl!Group(c, roots))].path] \in Cl!Row
  <2>1. Cl!Group(c, roots) \subseteq Cl!Current(roots)
    BY DEF Cl!Group
  <2>2. Cl!Oldest(Cl!Group(c, roots)) \in Cl!Group(c, roots)
    <3>. DEFINE G == Cl!Group(c, roots)
    <3>1. G \subseteq Nat /\ G # {}
      BY <1>3, <2>1 DEF Cl!Current
    <3>2. \E k \in G : \A j \in G : k <= j
      <4>. HIDE DEF G
      <4>. QED
        BY <3>1, NatLeast
    <3>. QED
      BY <3>2 DEF Cl!Oldest
  <2>. QED
    BY <1>1, <1>3, <2>1, <2>2 DEF Cl!Row
<1>. QED
  BY <1>2, <1>3 DEF Cl!Duplicates

LEMMA CloudInit == Cl!Init => CloudInv
<1>. SUFFICES ASSUME Cl!Init PROVE CloudInv
  OBVIOUS
<1>1. forms \in [Cl!Path -> Bytes \cup {NoFile}]
  BY PlansAssumption DEF Cl!CloudAssumption, Cl!Init, Cl!Path
<1>2. current \in Seq(Cl!Claim) /\ {list, bucket, both} \subseteq SUBSET Cl!Row
  BY DEF Cl!Init
<1>3. sieve \in CloudFilter /\ deleting \in CloudJob
  BY DEF Cl!Init, Cl!Idle, CloudFilter, CloudJob
<1>4. CloudKeeps /\ Cl!RemovedKnowingly
  BY DEF Cl!Init, Cl!Idle, CloudKeeps, Cl!RemovedKnowingly
<1>. QED
  BY <1>1, <1>2, <1>3, <1>4 DEF CloudInv, CloudTypes

(* What another program writes only touches the note that nobody has. *)
LEMMA CloudTouches ==
  ASSUME CloudInv, NEW p \in Cl!Path, NEW c \in Bytes \cup {NoFile},
         forms' = [forms EXCEPT ![p] = c], Cl!Touches(p),
         UNCHANGED <<current, list, bucket, both, sieve, removed>>
  PROVE  CloudInv'
<1>. USE DEF CloudInv
<1>1. forms' \in [Cl!Path -> Bytes \cup {NoFile}]
  BY DEF CloudTypes
<1>2. \/ deleting' = deleting
      \/ /\ deleting.at = "unlink" /\ Cl!UnlinkPath(deleting.row, deleting.preferMount) = p
         /\ deleting' = [deleting EXCEPT !.seen = FALSE]
  BY DEF Cl!Touches, Cl!At
<1>3. deleting' \in CloudJob
  BY <1>2 DEF CloudTypes, CloudJob
<1>4. CASE deleting.at = "unlink"
  <2>1. /\ deleting'.at = "unlink" /\ deleting'.row = deleting.row /\ deleting'.left = deleting.left
        /\ deleting'.verify = deleting.verify /\ deleting'.preferMount = deleting.preferMount
        /\ deleting'.dual = deleting.dual
        /\ deleting'.seen => deleting.seen /\ Cl!UnlinkPath(deleting.row, deleting.preferMount) # p
    BY <1>2, <1>4 DEF CloudTypes, CloudJob, Cl!Touches, Cl!At
  <2>2. deleting.row \in Cl!Row /\ deleting.preferMount \in BOOLEAN
    BY <1>4 DEF CloudTypes, CloudJob
  <2>3. Cl!UnlinkPath(deleting.row, deleting.preferMount) \in Cl!Path
    BY <2>2, CloudUnlinkPath
  <2>4. deleting'.verify /\ deleting'.seen =>
          forms'[Cl!UnlinkPath(deleting'.row, deleting'.preferMount)] = deleting'.row.content
    BY <1>4, <2>1, <2>3 DEF CloudKeeps, CloudTypes
  <2>5. CloudKeeps'
    BY <1>4, <2>1, <2>4 DEF CloudKeeps
  <2>. QED
    BY <1>1, <1>3, <2>5 DEF CloudTypes, Cl!RemovedKnowingly
<1>5. CASE deleting.at # "unlink"
  BY <1>1, <1>2, <1>3, <1>5 DEF CloudTypes, CloudKeeps, Cl!RemovedKnowingly
<1>. QED
  BY <1>4, <1>5

LEMMA CloudStep == CloudInv /\ [Cl!Next]_Cl!vars => CloudInv'
<1>. SUFFICES ASSUME CloudInv, [Cl!Next]_Cl!vars PROVE CloudInv'
  OBVIOUS
<1>. USE DEF CloudInv, Cl!inventory, Cl!listing, Cl!applying, Cl!AtRest, Cl!At, Cl!Filtering, Cl!Idle
<1>1. ASSUME NEW p \in Cl!Path, Cl!Scan(p) PROVE CloudInv'
  <2>1. [path |-> p, content |-> forms[p], current |-> TRUE] \in Cl!Claim
    BY <1>1 DEF Cl!Scan, Cl!There, Cl!Claim, CloudTypes
  <2>2. current' \in Seq(Cl!Claim)
    BY <1>1, <2>1 DEF Cl!Scan, CloudTypes
  <2>. QED
    BY <1>1, <2>2 DEF Cl!Scan, CloudTypes, CloudKeeps, Cl!RemovedKnowingly
<1>2. ASSUME NEW roots \in SUBSET Cl!Form \ {{}}, Cl!Plan(roots) \/ Cl!Seed(roots) PROVE CloudInv'
  <2>1. list' \subseteq Cl!Row
    BY <1>2, CloudLists DEF Cl!Plan, Cl!Seed, CloudTypes
  <2>. QED
    BY <1>2, <2>1 DEF Cl!Plan, Cl!Seed, CloudTypes, CloudKeeps, Cl!RemovedKnowingly
<1>3. CASE Cl!StartFilter
  <2>1. sieve' = [at |-> "probe", left |-> list, kept |-> {}, saw |-> {}]
    BY <1>3 DEF Cl!StartFilter, Cl!Probing
  <2>2. sieve' \in CloudFilter
    BY <2>1 DEF CloudFilter, CloudTypes
  <2>. QED
    BY <1>3, <2>1, <2>2 DEF Cl!StartFilter, CloudTypes, CloudKeeps, Cl!RemovedKnowingly
<1>4. CASE Cl!ProbeStore
  <2>1. PICK row \in sieve.left, near \in {"yes", "no", "error"} :
          sieve' = [at |-> "mount", left |-> sieve.left \ {row}, kept |-> sieve.kept, saw |-> sieve.saw,
                    row |-> row, store |-> near]
    BY <1>4 DEF Cl!ProbeStore
  <2>2. sieve.left \subseteq Cl!Row /\ sieve.kept \subseteq Cl!Row /\ sieve.saw \subseteq Cl!Row
    BY <1>4 DEF Cl!ProbeStore, CloudTypes, CloudFilter
  <2>3. sieve' \in CloudFilter
    BY <2>1, <2>2 DEF CloudFilter
  <2>. QED
    BY <1>4, <2>1, <2>3 DEF Cl!ProbeStore, CloudTypes, CloudKeeps, Cl!RemovedKnowingly
<1>5. CASE Cl!ProbeMount
  <2>. DEFINE row == sieve.row
              there == Cl!There(<<"mount", row.path[2]>>)
  <2>1. PICK mount \in {IF there THEN "yes" ELSE "no", "error"} :
          sieve' = [at |-> "probe", left |-> sieve.left,
                    kept |-> IF Cl!PresenceKind(row.path[2], sieve.store, mount) = "dual"
                             THEN sieve.kept \cup {row} ELSE sieve.kept,
                    saw |-> IF there /\ sieve.store = "yes" THEN sieve.saw \cup {row} ELSE sieve.saw]
    BY <1>5 DEF Cl!ProbeMount, Cl!Probing
  <2>2. row \in Cl!Row /\ sieve.store \in {"yes", "no", "error"}
        /\ sieve.left \subseteq Cl!Row /\ sieve.kept \subseteq Cl!Row /\ sieve.saw \subseteq Cl!Row
    BY <1>5 DEF Cl!ProbeMount, CloudTypes, CloudFilter
  <2>3. Cl!PresenceKind(row.path[2], sieve.store, mount) = "dual" => there /\ sieve.store = "yes"
    BY <2>2 DEF Cl!PresenceKind
  <2>4. sieve' \in CloudFilter
    BY <2>1, <2>2 DEF CloudFilter
  <2>5. sieve'.kept \subseteq sieve'.saw
    BY <1>5, <2>1, <2>3 DEF CloudKeeps, Cl!ProbeMount
  <2>. QED
    BY <1>5, <2>1, <2>4, <2>5 DEF Cl!ProbeMount, CloudTypes, CloudKeeps, Cl!RemovedKnowingly
<1>6. CASE Cl!WriteFiltered
  <2>1. sieve.kept \subseteq sieve.saw /\ sieve.kept \subseteq Cl!Row /\ sieve.saw \subseteq Cl!Row
    BY <1>6 DEF Cl!WriteFiltered, CloudTypes, CloudFilter, CloudKeeps
  <2>2. sieve' \in CloudFilter /\ sieve'.at = "idle"
    BY <1>6 DEF Cl!WriteFiltered, CloudFilter
  <2>3. deleting.at = "idle" /\ removed = {}
    BY <1>6 DEF Cl!WriteFiltered, CloudKeeps
  <2>. QED
    BY <1>6, <2>1, <2>2, <2>3 DEF Cl!WriteFiltered, CloudTypes, CloudKeeps, Cl!RemovedKnowingly
<1>7. ASSUME NEW preferMount \in BOOLEAN, NEW verify \in BOOLEAN, NEW dual \in BOOLEAN,
             Cl!StartApply(preferMount, verify, dual)
      PROVE  CloudInv'
  <2>1. deleting' = [at |-> "row", left |-> IF dual THEN bucket ELSE list,
                     preferMount |-> preferMount, verify |-> verify, dual |-> dual]
    BY <1>7 DEF Cl!StartApply
  <2>2. deleting' \in CloudJob
    BY <2>1 DEF CloudJob, CloudTypes
  <2>. QED
    BY <1>7, <2>1, <2>2 DEF Cl!StartApply, CloudTypes, CloudKeeps, Cl!RemovedKnowingly
<1>8. CASE Cl!CheckRow
  <2>. DEFINE over(row) == [at |-> "row", left |-> deleting.left \ {row}, preferMount |-> deleting.preferMount,
                            verify |-> deleting.verify, dual |-> deleting.dual]
              check(row) == [at |-> "unlink", left |-> deleting.left, preferMount |-> deleting.preferMount,
                             verify |-> deleting.verify, dual |-> deleting.dual, row |-> row, seen |-> TRUE]
  <2>1. PICK row \in deleting.left :
          \/ /\ deleting' = check(row)
             /\ deleting.verify => forms[Cl!UnlinkPath(row, deleting.preferMount)] = row.content
          \/ deleting' = over(row)
    BY <1>8 DEF Cl!CheckRow, Cl!Over, Cl!VerifyPath
  <2>2. deleting.left \subseteq Cl!Row /\ {deleting.preferMount, deleting.verify, deleting.dual} \subseteq BOOLEAN
    BY <1>8 DEF Cl!CheckRow, CloudTypes, CloudJob
  <2>3. over(row) \in CloudJob /\ check(row) \in CloudJob
    BY <2>2 DEF CloudJob
  <2>4. UNCHANGED <<forms, current, list, sieve, bucket, both, removed>>
    BY <1>8 DEF Cl!CheckRow
  <2>5. CloudKeeps'
    BY <1>8, <2>1, <2>4 DEF Cl!CheckRow, CloudKeeps
  <2>. QED
    BY <2>1, <2>3, <2>4, <2>5 DEF CloudTypes, Cl!RemovedKnowingly
<1>9. CASE Cl!UnlinkRow
  <2>. DEFINE to == Cl!UnlinkPath(deleting.row, deleting.preferMount)
  <2>1. /\ deleting.row \in Cl!Row /\ deleting.left \subseteq Cl!Row
        /\ {deleting.preferMount, deleting.verify, deleting.dual} \subseteq BOOLEAN
    BY <1>9 DEF Cl!UnlinkRow, CloudTypes, CloudJob
  <2>2. deleting' = [at |-> "row", left |-> deleting.left \ {deleting.row}, preferMount |-> deleting.preferMount,
                     verify |-> deleting.verify, dual |-> deleting.dual]
    BY <1>9 DEF Cl!UnlinkRow, Cl!Over
  <2>3. deleting' \in CloudJob
    BY <2>1, <2>2 DEF CloudJob
  <2>4. forms' \in [Cl!Path -> Bytes \cup {NoFile}]
    BY <1>9 DEF Cl!UnlinkRow, CloudTypes
  <2>5. \/ removed' = removed
        \/ removed' = removed \cup {[row |-> deleting.row, removed |-> to, verified |-> deleting.verify,
                                     held |-> forms[to], seen |-> deleting.seen, dual |-> deleting.dual]}
    BY <1>9 DEF Cl!UnlinkRow
  <2>6. /\ deleting.verify /\ deleting.seen => forms[to] = deleting.row.content
        /\ deleting.dual => deleting.row \in both
    BY <1>9 DEF Cl!UnlinkRow, CloudKeeps
  <2>7. UNCHANGED <<current, list, sieve, bucket, both>>
    BY <1>9 DEF Cl!UnlinkRow
  <2>8. Cl!RemovedKnowingly'
    BY <2>5, <2>6, <2>7 DEF Cl!RemovedKnowingly
  <2>9. CloudKeeps'
    BY <1>9, <2>2, <2>7 DEF Cl!UnlinkRow, CloudKeeps
  <2>. QED
    BY <2>3, <2>4, <2>7, <2>8, <2>9 DEF CloudTypes
<1>10. CASE Cl!EndApply
  <2>1. ASSUME NEW i \in DOMAIN current PROVE current'[i] \in Cl!Claim
    <3>1. current[i] \in Cl!Claim
      BY DEF CloudTypes
    <3>2. current'[i] \in {current[i], [current[i] EXCEPT !.current = FALSE]}
      BY <1>10 DEF Cl!EndApply
    <3>. QED
      BY <3>1, <3>2 DEF Cl!Claim
  <2>2. current' \in Seq(Cl!Claim)
    <3>1. DOMAIN current = 1..Len(current) /\ Len(current) \in Nat
      BY DEF CloudTypes
    <3>2. current' \in [1..Len(current) -> Cl!Claim]
      BY <1>10, <2>1, <3>1 DEF Cl!EndApply
    <3>. QED
      BY <3>1, <3>2
  <2>3. deleting' \in CloudJob /\ deleting'.at = "idle"
    BY <1>10 DEF Cl!EndApply, CloudJob
  <2>. QED
    BY <1>10, <2>2, <2>3 DEF Cl!EndApply, CloudTypes, CloudKeeps, Cl!RemovedKnowingly
<1>11. CASE Cl!Abort
  <2>1. deleting' \in CloudJob /\ deleting'.at = "idle"
    BY <1>11 DEF Cl!Abort, CloudJob
  <2>. QED
    BY <1>11, <2>1 DEF Cl!Abort, CloudTypes, CloudKeeps, Cl!RemovedKnowingly
<1>12. ASSUME NEW r \in Rel, Cl!Propagate(r) PROVE CloudInv'
  <2>1. <<"store", r>> \in Cl!Path /\ <<"mount", r>> \in Cl!Path
    BY DEF Cl!Path, Cl!Form
  <2>2. forms[<<"mount", r>>] \in Bytes \cup {NoFile}
    BY <2>1 DEF CloudTypes
  <2>. QED
    BY <1>12, <2>1, <2>2, CloudTouches DEF Cl!Propagate
<1>13. ASSUME NEW p \in Cl!Path, NEW c \in Bytes \cup {NoFile}, Cl!Write(p, c) PROVE CloudInv'
  BY <1>13, CloudTouches DEF Cl!Write
<1>14. CASE UNCHANGED Cl!vars
  BY <1>14 DEF Cl!vars, CloudTypes, CloudKeeps, Cl!RemovedKnowingly
<1>. QED
  <2>. HIDE DEF CloudInv
  <2>. QED
    BY <1>1, <1>2, <1>3, <1>4, <1>5, <1>6, <1>7, <1>8, <1>9, <1>10, <1>11, <1>12, <1>13, <1>14 DEF Cl!Next

-----------------------------------------------------------------------------
(* The commands of Backlog, at each of their steps. *)
BacklogCommand ==
  [op : {"idle"}]
  \cup [op : {"prune"}, todo : SUBSET PlanIds]
  \cup [op : {"refresh"}, at : {"read"}, plan : PlanIds]
  \cup [op : {"refresh"}, at : {"audit"}, plan : PlanIds, rec : Bl!Record]
  \cup [op : {"register", "refresh"}, at : {"truncate", "fill", "index"}, plan : PlanIds, rec : Bl!Record]

BacklogTypes ==
  /\ digest \in [PlanIds -> Bl!Digest]
  /\ summary \in [PlanIds -> Bl!Record \cup {None, Torn}]
  /\ index \in [PlanIds -> Bl!Record \cup {None}]
  /\ audit \in [PlanIds -> SUBSET {"apply_start", "apply_end", "apply_rejected"}]
  /\ cmd \in [Proc -> BacklogCommand]
  /\ now \in 0..MaxClock

Carries(q) == cmd[q].op \in {"register", "refresh"} /\ cmd[q].at # "read"
Writing(q, p) == Carries(q) /\ cmd[q].at # "audit" /\ cmd[q].plan = p

(* What a command is about to write as applied was applied.                   *)
BacklogHonest == \A q \in Proc : Carries(q) /\ cmd[q].rec.status = "applied" => "apply_end" \in audit[cmd[q].plan]

(* Commands that did not overlap: the one that runs, what it has written, and *)
(* what the others left.                                                      *)
BacklogSettled ==
  /\ \A q, o \in Proc : cmd[q] # Bl!Idle /\ cmd[o] # Bl!Idle => q = o
  /\ \A p \in PlanIds : summary[p] # None => p \in dir
  /\ \A q \in Proc : Carries(q) =>
       /\ cmd[q].at \in {"audit", "truncate"} => cmd[q].plan \in dir
       /\ cmd[q].at = "fill" => summary[cmd[q].plan] = Torn
       /\ cmd[q].at = "index" => summary[cmd[q].plan] = cmd[q].rec
  /\ \A p \in PlanIds :
       (\A q \in Proc : Writing(q, p) => cmd[q].at = "truncate") =>
         (summary[p] # None => summary[p] # Torn /\ Bl!Compact(summary[p]) = index[p])
  /\ \A p \in PlanIds : p \in told /\ "apply_end" \in audit[p] =>
       /\ \A q \in Proc : Writing(q, p) => cmd[q].rec.status = "applied"
       /\ (\A q \in Proc : ~Writing(q, p)) => index[p] \in Bl!Record /\ index[p].status = "applied"

BacklogInv ==
  /\ BacklogTypes /\ Bl!AppliedWasApplied /\ BacklogHonest
  /\ upset \in BOOLEAN /\ (upset \/ BacklogSettled)

LEMMA BacklogInit == Bl!Init => BacklogInv
<1>. SUFFICES ASSUME Bl!Init PROVE BacklogInv
  OBVIOUS
<1>. USE PlansAssumption DEF Bl!BacklogAssumption, Bl!Init
<1>1. digest \in [PlanIds -> Bl!Digest] /\ now \in 0..MaxClock
  BY DEF Bl!Digest
<1>2. /\ summary \in [PlanIds -> Bl!Record \cup {None, Torn}]
      /\ index \in [PlanIds -> Bl!Record \cup {None}]
      /\ audit \in [PlanIds -> SUBSET {"apply_start", "apply_end", "apply_rejected"}]
  OBVIOUS
<1>3. cmd \in [Proc -> BacklogCommand] /\ \A q \in Proc : cmd[q] = Bl!Idle /\ cmd[q].op = "idle"
  BY DEF BacklogCommand, Bl!Idle
<1>4. Bl!AppliedWasApplied
  BY DEF Bl!AppliedWasApplied
<1>5. BacklogHonest
  BY <1>3 DEF BacklogHonest, Carries
<1>6. upset \in BOOLEAN /\ BacklogSettled
  BY <1>3 DEF BacklogSettled, Carries, Writing
<1>. QED
  BY <1>1, <1>2, <1>3, <1>4, <1>5, <1>6 DEF BacklogInv, BacklogTypes

(* What blocks a plan are reasons, and a record with them is one. *)
LEMMA BacklogReasons ==
  ASSUME NEW p \in PlanIds, NEW present, NEW dry, NEW filtered, NEW sampled, NEW probed \in SUBSET Bl!Reason
  PROVE  Bl!BlockedReasons(p, present, dry, filtered, sampled, probed) \subseteq Bl!Reason
BY DEF Bl!BlockedReasons, Bl!Reason, Bl!Hard

(* A process takes a step and the others stay. *)
LEMMA BacklogMove ==
  ASSUME BacklogTypes, NEW q \in Proc, NEW c \in BacklogCommand, cmd' = [cmd EXCEPT ![q] = c]
  PROVE  /\ cmd' \in [Proc -> BacklogCommand] /\ cmd'[q] = c
         /\ \A o \in Proc \ {q} : cmd'[o] = cmd[o]
BY DEF BacklogTypes

(* Unless commands overlap, the others are idle. *)
LEMMA BacklogAlone ==
  ASSUME BacklogInv, NEW q \in Proc, NEW c \in BacklogCommand, cmd' = [cmd EXCEPT ![q] = c], ~upset',
         (cmd[q] # Bl!Idle /\ upset' = upset) \/ Bl!Begin(q, c)
  PROVE  /\ BacklogSettled
         /\ \A o \in Proc \ {q} : cmd[o] = Bl!Idle /\ cmd'[o] = Bl!Idle /\ ~Carries(o) /\ ~Carries(o)'
         /\ \A o \in Proc, r \in Proc : cmd'[o] # Bl!Idle /\ cmd'[r] # Bl!Idle => o = r
<1>1. ~upset /\ BacklogSettled
  BY DEF BacklogInv, Bl!Begin
<1>2. \A o \in Proc \ {q} : cmd[o] = Bl!Idle /\ cmd'[o] = cmd[o]
  BY <1>1, BacklogMove DEF BacklogInv, BacklogSettled, Bl!Begin
<1>. QED
  BY <1>1, <1>2 DEF Carries, Bl!Idle

(* The steps that change no record on disk and no audit row, and after which  *)
(* a command carries what it carried or nothing.                              *)
LEMMA BacklogStays ==
  ASSUME BacklogInv, NEW q \in Proc, NEW c \in BacklogCommand, cmd' = [cmd EXCEPT ![q] = c],
         c.op \in {"register", "refresh"} => c.at = "read",
         UNCHANGED <<digest, summary, index, audit, told>>, now' = now, dir \subseteq dir', upset' \in BOOLEAN,
         (cmd[q] # Bl!Idle /\ ~Writing(q, cmd[q].plan) /\ upset' = upset) \/ Bl!Begin(q, c)
  PROVE  BacklogInv'
<1>1. BacklogTypes'
  BY BacklogMove DEF BacklogInv, BacklogTypes
<1>2. Bl!AppliedWasApplied'
  BY DEF BacklogInv, Bl!AppliedWasApplied
<1>3. ~Carries(q)' /\ cmd'[q] = c /\ \A o \in Proc \ {q} : cmd'[o] = cmd[o]
  BY BacklogMove DEF BacklogInv, Carries
<1>4. BacklogHonest'
  BY <1>3 DEF BacklogInv, BacklogHonest, Carries
<1>5. ASSUME ~upset' PROVE BacklogSettled'
  <2>1. /\ BacklogSettled
        /\ \A o \in Proc \ {q} : ~Carries(o) /\ ~Carries(o)'
        /\ \A o \in Proc, r \in Proc : cmd'[o] # Bl!Idle /\ cmd'[r] # Bl!Idle => o = r
    BY <1>5, BacklogAlone
  <2>2. /\ \A o \in Proc : ~Carries(o)'
        /\ \A o \in Proc, p \in PlanIds : ~Writing(o, p)' /\ ~Writing(o, p)
    <3>1. \A p \in PlanIds : ~Writing(q, p)
      BY DEF Bl!Begin, Bl!Idle, Writing, Carries
    <3>. QED
      BY <1>3, <2>1, <3>1 DEF Writing
  <2>3. \A p \in PlanIds : summary[p] # None => p \in dir'
    BY <2>1 DEF BacklogSettled
  <2>4. ASSUME NEW p \in PlanIds
        PROVE  /\ summary[p] # None => summary[p] # Torn /\ Bl!Compact(summary[p]) = index[p]
               /\ p \in told /\ "apply_end" \in audit[p] => index[p] \in Bl!Record /\ index[p].status = "applied"
    BY <2>1, <2>2 DEF BacklogSettled
  <2>5. \A o, r \in Proc : cmd'[o] # Bl!Idle /\ cmd'[r] # Bl!Idle => o = r
    BY <2>1
  <2>. QED
    BY <2>2, <2>3, <2>4, <2>5 DEF BacklogSettled
<1>. QED
  BY <1>1, <1>2, <1>4, <1>5 DEF BacklogInv

LEMMA BacklogStep == BacklogInv /\ [Bl!Next]_Bl!vars => BacklogInv'
<1>. SUFFICES ASSUME BacklogInv, [Bl!Next]_Bl!vars PROVE BacklogInv'
  OBVIOUS
<1>. USE DEF Bl!sidecars, Bl!log, Bl!Go, Bl!Event, Bl!At
<1>0. BacklogTypes
  BY DEF BacklogInv
<1>1. ASSUME NEW q \in Proc, NEW p \in PlanIds, Bl!Register(q, p) PROVE BacklogInv'
  <2>1. PICK rec : /\ Bl!Begin(q, [op |-> "register", at |-> "truncate", plan |-> p, rec |-> rec])
                   /\ rec.status \in {"blocked", "registered"} /\ rec \in Bl!Record
    <3>. DEFINE reasons == Bl!BlockedReasons(p, TRUE, "none", p \in filter, TRUE, Probed[p])
                rec == [status |-> IF reasons \cap Bl!Hard # {} THEN "blocked" ELSE "registered",
                        reasons |-> reasons, dry |-> "none", created |-> now]
    <3>1. Probed[p] \subseteq Bl!Reason
      BY PlansAssumption DEF Bl!BacklogAssumption, Bl!Reason
    <3>2. reasons \subseteq Bl!Reason
      BY <3>1, BacklogReasons
    <3>3. rec \in Bl!Record
      <4>. HIDE DEF reasons
      <4>. QED
        BY <1>0, <3>2 DEF Bl!Record, Bl!Status, Bl!Digest, BacklogTypes
    <3>4. Bl!Begin(q, [op |-> "register", at |-> "truncate", plan |-> p, rec |-> rec])
      BY <1>1 DEF Bl!Register
    <3>5. rec.status \in {"blocked", "registered"}
      OBVIOUS
    <3>. HIDE DEF rec
    <3>. QED
      BY <3>3, <3>4, <3>5
  <2>. DEFINE c == [op |-> "register", at |-> "truncate", plan |-> p, rec |-> rec]
  <2>2. c \in BacklogCommand
    BY <2>1 DEF BacklogCommand
  <2>3. /\ cmd' = [cmd EXCEPT ![q] = c] /\ now' = now /\ dir' = dir \cup {p} /\ told' = told \ {p}
        /\ UNCHANGED <<digest, summary, index, audit>>
    BY <1>1, <2>1 DEF Bl!Register, Bl!Begin
  <2>4. cmd'[q] = c /\ \A o \in Proc \ {q} : cmd'[o] = cmd[o]
    BY <1>0, <2>2, <2>3, BacklogMove
  <2>5. BacklogTypes'
    BY <1>0, <2>2, <2>3, BacklogMove DEF BacklogTypes
  <2>6. Bl!AppliedWasApplied' /\ BacklogHonest'
    BY <2>1, <2>3, <2>4 DEF BacklogInv, Bl!AppliedWasApplied, BacklogHonest, Carries
  <2>7. upset' \in BOOLEAN
    BY <2>1 DEF Bl!Begin, BacklogInv
  <2>8. ASSUME ~upset' PROVE BacklogSettled'
    <3>1. /\ BacklogSettled
          /\ \A o \in Proc \ {q} : ~Carries(o) /\ ~Carries(o)'
          /\ \A o \in Proc, r \in Proc : cmd'[o] # Bl!Idle /\ cmd'[r] # Bl!Idle => o = r
      BY <2>1, <2>2, <2>3, <2>8, BacklogAlone
    <3>2. \A o \in Proc, r \in PlanIds : ~Writing(o, r) /\ (Writing(o, r)' => o = q /\ r = p)
      BY <2>1, <2>4, <3>1 DEF Writing, Carries, Bl!Begin, Bl!Idle
    <3>3. /\ \A o \in Proc : Carries(o)' => o = q
          /\ cmd'[q].at = "truncate" /\ cmd'[q].plan = p
      BY <2>4, <3>1
    <3>4. \A r \in PlanIds :
            /\ summary[r] # None => r \in dir'
            /\ summary[r] # None => summary[r] # Torn /\ Bl!Compact(summary[r]) = index[r]
            /\ r \in told' /\ "apply_end" \in audit[r] =>
                 r # p /\ index[r] \in Bl!Record /\ index[r].status = "applied"
      BY <2>3, <3>1, <3>2 DEF BacklogSettled
    <3>5. \A o, r \in Proc : cmd'[o] # Bl!Idle /\ cmd'[r] # Bl!Idle => o = r
      BY <3>1
    <3>6. p \in dir'
      BY <2>3
    <3>. QED
      BY <2>3, <3>2, <3>3, <3>4, <3>5, <3>6 DEF BacklogSettled
  <2>. QED
    BY <2>5, <2>6, <2>7, <2>8 DEF BacklogInv
<1>2. ASSUME NEW q \in Proc, NEW p \in PlanIds, Bl!StartRefresh(q, p) \/ Bl!AttachFilter(q, p) PROVE BacklogInv'
  <2>. DEFINE c == [op |-> "refresh", at |-> "read", plan |-> p]
  <2>1. c \in BacklogCommand
    BY DEF BacklogCommand
  <2>2. Bl!Begin(q, c) /\ UNCHANGED <<digest, summary, index, audit, told, dir>>
    BY <1>2 DEF Bl!StartRefresh, Bl!AttachFilter
  <2>3. cmd' = [cmd EXCEPT ![q] = c] /\ now' = now /\ upset' \in BOOLEAN
    BY <2>2 DEF Bl!Begin, BacklogInv
  <2>. QED
    BY <2>1, <2>2, <2>3, BacklogStays
<1>3. ASSUME NEW q \in Proc, Bl!StartPrune(q) PROVE BacklogInv'
  <2>. DEFINE c == [op |-> "prune",
                    todo |-> {p \in PlanIds : Bl!Listed(p) # None /\ Bl!Listed(p).created + KeepDays < now}]
  <2>1. c \in BacklogCommand
    BY DEF BacklogCommand
  <2>2. Bl!Begin(q, c) /\ UNCHANGED <<digest, summary, index, audit, told, dir>>
    BY <1>3 DEF Bl!StartPrune
  <2>3. cmd' = [cmd EXCEPT ![q] = c] /\ now' = now /\ upset' \in BOOLEAN
    BY <2>2 DEF Bl!Begin, BacklogInv
  <2>4. c.op = "prune"
    OBVIOUS
  <2>. HIDE DEF c
  <2>. QED
    BY <2>1, <2>2, <2>3, <2>4, BacklogStays
<1>4. ASSUME NEW q \in Proc, Bl!EndPrune(q) PROVE BacklogInv'
  <2>1. Bl!Idle \in BacklogCommand /\ Bl!Idle.op = "idle" /\ cmd[q] # Bl!Idle /\ ~Writing(q, cmd[q].plan)
    BY <1>4 DEF BacklogCommand, Bl!Idle, Bl!EndPrune, Writing, Carries
  <2>2. cmd' = [cmd EXCEPT ![q] = Bl!Idle] /\ now' = now /\ upset' = upset
        /\ UNCHANGED <<digest, summary, index, audit, told, dir>>
    BY <1>4 DEF Bl!EndPrune
  <2>3. upset' \in BOOLEAN
    BY <2>2 DEF BacklogInv
  <2>. QED
    BY <2>1, <2>2, <2>3, BacklogStays
<1>5. ASSUME NEW q \in Proc, NEW p \in PlanIds, Bl!RemoveDir(q, p) PROVE BacklogInv'
  <2>. DEFINE c == [cmd[q] EXCEPT !.todo = @ \ {p}]
  <2>1. c \in BacklogCommand /\ c.op = "prune" /\ cmd[q] # Bl!Idle
    BY <1>0, <1>5 DEF BacklogCommand, BacklogTypes, Bl!RemoveDir, Bl!Idle
  <2>2. /\ cmd' = [cmd EXCEPT ![q] = c] /\ now' = now /\ upset' = upset /\ dir' = dir \ {p}
        /\ digest' = [digest EXCEPT ![p] = "none"] /\ summary' = [summary EXCEPT ![p] = None]
        /\ UNCHANGED <<index, audit, told>>
    BY <1>5 DEF Bl!RemoveDir
  <2>. HIDE DEF c
  <2>3. cmd'[q] = c /\ \A o \in Proc \ {q} : cmd'[o] = cmd[o]
    BY <1>0, <2>1, <2>2, BacklogMove
  <2>4. BacklogTypes'
    BY <1>0, <2>1, <2>2, BacklogMove DEF BacklogTypes, Bl!Digest
  <2>5. None \notin Bl!Record
    BY PlansAssumption DEF Bl!BacklogAssumption
  <2>6. Bl!AppliedWasApplied' /\ BacklogHonest'
    BY <1>0, <2>1, <2>2, <2>3, <2>5 DEF BacklogInv, BacklogTypes, Bl!AppliedWasApplied, BacklogHonest, Carries
  <2>7. ASSUME ~upset' PROVE BacklogSettled'
    <3>1. /\ BacklogSettled
          /\ \A o \in Proc \ {q} : ~Carries(o) /\ ~Carries(o)'
          /\ \A o \in Proc, r \in Proc : cmd'[o] # Bl!Idle /\ cmd'[r] # Bl!Idle => o = r
      BY <2>1, <2>2, <2>7, BacklogAlone
    <3>2. \A o \in Proc : ~Carries(o) /\ ~Carries(o)'
      BY <1>5, <2>1, <2>3, <3>1 DEF Carries, Bl!RemoveDir
    <3>3. \A r \in PlanIds :
            /\ summary'[r] # None => r \in dir'
            /\ summary'[r] # None => summary'[r] # Torn /\ Bl!Compact(summary'[r]) = index'[r]
            /\ r \in told' /\ "apply_end" \in audit'[r] => index'[r] \in Bl!Record /\ index'[r].status = "applied"
      BY <1>0, <2>2, <3>1, <3>2 DEF BacklogTypes, BacklogSettled, Writing
    <3>4. \A o, r \in Proc : cmd'[o] # Bl!Idle /\ cmd'[r] # Bl!Idle => o = r
      BY <3>1
    <3>. QED
      BY <3>2, <3>3, <3>4 DEF BacklogSettled, Writing, Bl!Compact
  <2>. QED
    BY <2>2, <2>4, <2>6, <2>7 DEF BacklogInv
<1>6. ASSUME NEW q \in Proc, Bl!ReadRecord(q) PROVE BacklogInv'
  <2>. DEFINE p == cmd[q].plan
              old == Bl!Shown(p)
              dry == IF digest[p] # "none" THEN digest[p] ELSE old.dry
              reasons == Bl!BlockedReasons(p, p \in tsv, dry, p \in filter, FALSE, {})
              status == IF reasons \cap Bl!Hard # {} THEN "blocked"
                        ELSE IF dry = "ok" THEN "dry_run_ok"
                        ELSE IF dry = "failed" THEN "dry_run_failed" ELSE old.status
              rec == [old EXCEPT !.status = status, !.reasons = reasons, !.dry = dry]
              c == [op |-> "refresh", at |-> "audit", plan |-> p, rec |-> rec]
  <2>1. p \in PlanIds /\ cmd[q] # Bl!Idle /\ ~Carries(q) /\ ~Writing(q, p)
    BY <1>0, <1>6 DEF Bl!ReadRecord, BacklogTypes, BacklogCommand, Carries, Writing, Bl!Idle
  <2>2. now' = now /\ upset' = upset /\ UNCHANGED <<dir, digest, summary, index, audit, told>>
    BY <1>6 DEF Bl!ReadRecord
  <2>3. upset' \in BOOLEAN
    BY <2>2 DEF BacklogInv
  <2>4. CASE old = None
    <3>1. cmd' = [cmd EXCEPT ![q] = Bl!Idle]
      BY <1>6, <2>4 DEF Bl!ReadRecord
    <3>2. Bl!Idle \in BacklogCommand /\ Bl!Idle.op = "idle"
      BY DEF BacklogCommand, Bl!Idle
    <3>. QED
      BY <2>1, <2>2, <2>3, <3>1, <3>2, BacklogStays
  <2>5. CASE old # None
    <3>1. cmd' = [cmd EXCEPT ![q] = c]
      BY <1>6, <2>5 DEF Bl!ReadRecord
    <3>2. old \in Bl!Record /\ summary[p] = old
      BY <1>0, <2>1, <2>5 DEF Bl!Shown, BacklogTypes
    <3>3. reasons \subseteq Bl!Reason
      BY <2>1, BacklogReasons
    <3>4. dry \in Bl!Digest
      BY <1>0, <2>1, <3>2 DEF BacklogTypes, Bl!Record
    <3>5. status \in Bl!Status /\ (status = "applied" => old.status = "applied")
      BY <3>2 DEF Bl!Status, Bl!Record
    <3>. HIDE DEF reasons, dry, status
    <3>6. rec \in Bl!Record /\ rec.status = status
      BY <3>2, <3>3, <3>4, <3>5 DEF Bl!Record
    <3>7. c \in BacklogCommand
      BY <2>1, <3>6 DEF BacklogCommand
    <3>8. rec.status = "applied" => "apply_end" \in audit[p]
      BY <2>1, <3>2, <3>5, <3>6 DEF BacklogInv, Bl!AppliedWasApplied
    <3>. HIDE DEF rec, old
    <3>9. cmd'[q] = c /\ \A o \in Proc \ {q} : cmd'[o] = cmd[o]
      BY <1>0, <3>1, <3>7, BacklogMove
    <3>10. BacklogTypes'
      BY <1>0, <2>2, <3>1, <3>7, BacklogMove DEF BacklogTypes
    <3>11. Bl!AppliedWasApplied' /\ BacklogHonest'
      BY <2>2, <3>8, <3>9 DEF BacklogInv, Bl!AppliedWasApplied, BacklogHonest, Carries
    <3>12. ASSUME ~upset' PROVE BacklogSettled'
      <4>1. /\ BacklogSettled
            /\ \A o \in Proc \ {q} : ~Carries(o) /\ ~Carries(o)'
            /\ \A o \in Proc, r \in Proc : cmd'[o] # Bl!Idle /\ cmd'[r] # Bl!Idle => o = r
        BY <2>1, <2>2, <3>1, <3>7, <3>12, BacklogAlone
      <4>2. cmd'[q].at = "audit" /\ cmd'[q].plan = p
        BY <3>9
      <4>3. /\ \A o \in Proc : Carries(o)' => o = q
            /\ \A o \in Proc, r \in PlanIds : ~Writing(o, r) /\ ~Writing(o, r)'
        BY <2>1, <4>1, <4>2 DEF Writing
      <4>4. \A r \in PlanIds :
              /\ summary[r] # None => r \in dir
              /\ summary[r] # None => summary[r] # Torn /\ Bl!Compact(summary[r]) = index[r]
              /\ r \in told /\ "apply_end" \in audit[r] => index[r] \in Bl!Record /\ index[r].status = "applied"
        BY <4>1, <4>3 DEF BacklogSettled
      <4>5. p \in dir
        BY <2>1, <2>5, <3>2, <4>4
      <4>6. \A o, r \in Proc : cmd'[o] # Bl!Idle /\ cmd'[r] # Bl!Idle => o = r
        BY <4>1
      <4>. HIDE DEF p
      <4>. QED
        BY <2>2, <4>2, <4>3, <4>4, <4>5, <4>6 DEF BacklogSettled
    <3>. QED
      BY <2>3, <3>10, <3>11, <3>12 DEF BacklogInv
  <2>. QED
    BY <2>4, <2>5
<1>7. ASSUME NEW q \in Proc, Bl!ReadAudit(q) PROVE BacklogInv'
  <2>. DEFINE p == cmd[q].plan
              status == Bl!StatusFromAudit(p, cmd[q].rec.status)
              c == [cmd[q] EXCEPT !.at = "truncate", !.rec.status = status]
  <2>1. /\ p \in PlanIds /\ cmd[q] # Bl!Idle /\ Carries(q) /\ cmd[q].at = "audit"
        /\ cmd[q].op = "refresh" /\ cmd[q].rec \in Bl!Record
        /\ cmd[q] \in [op : {"refresh"}, at : {"audit"}, plan : PlanIds, rec : Bl!Record]
    BY <1>0, <1>7 DEF Bl!ReadAudit, BacklogTypes, BacklogCommand, Carries, Bl!Idle
  <2>2. /\ cmd' = [cmd EXCEPT ![q] = c] /\ now' = now /\ upset' = upset
        /\ told' = IF audit[p] # {} THEN told \cup {p} ELSE told
        /\ UNCHANGED <<dir, digest, summary, index, audit>>
    BY <1>7 DEF Bl!ReadAudit
  <2>3. status \in Bl!Status /\ (status = "applied" => "apply_end" \in audit[p])
        /\ ("apply_end" \in audit[p] => status = "applied")
    BY <2>1 DEF Bl!StatusFromAudit, Bl!Status, Bl!Record, BacklogInv, BacklogHonest
  <2>. HIDE DEF status
  <2>4. c.rec \in Bl!Record /\ c.rec.status = status /\ c.plan = p /\ c.at = "truncate" /\ c.op = "refresh"
        /\ c \in BacklogCommand
    BY <2>1, <2>3 DEF BacklogCommand, Bl!Record
  <2>. HIDE DEF c
  <2>5. cmd'[q] = c /\ \A o \in Proc \ {q} : cmd'[o] = cmd[o]
    BY <1>0, <2>2, <2>4, BacklogMove
  <2>6. BacklogTypes'
    BY <1>0, <2>2, <2>4, BacklogMove DEF BacklogTypes
  <2>7. Bl!AppliedWasApplied' /\ BacklogHonest'
    BY <2>2, <2>3, <2>4, <2>5 DEF BacklogInv, Bl!AppliedWasApplied, BacklogHonest, Carries
  <2>8. ASSUME ~upset' PROVE BacklogSettled'
    <3>1. /\ BacklogSettled
          /\ \A o \in Proc \ {q} : ~Carries(o) /\ ~Carries(o)'
          /\ \A o \in Proc, r \in Proc : cmd'[o] # Bl!Idle /\ cmd'[r] # Bl!Idle => o = r
      BY <2>1, <2>2, <2>4, <2>8, BacklogAlone
    <3>2. /\ \A o \in Proc : Carries(o)' => o = q
          /\ \A o \in Proc, r \in PlanIds : ~Writing(o, r) /\ (Writing(o, r)' => o = q /\ r = p)
          /\ cmd'[q].at = "truncate" /\ cmd'[q].plan = p
      BY <2>1, <2>4, <2>5, <3>1 DEF Writing
    <3>3. \A r \in PlanIds :
            /\ summary[r] # None => r \in dir
            /\ summary[r] # None => summary[r] # Torn /\ Bl!Compact(summary[r]) = index[r]
            /\ r \in told /\ "apply_end" \in audit[r] => index[r] \in Bl!Record /\ index[r].status = "applied"
      BY <3>1, <3>2 DEF BacklogSettled
    <3>4. p \in dir
      BY <2>1, <3>1 DEF BacklogSettled
    <3>5. \A o, r \in Proc : cmd'[o] # Bl!Idle /\ cmd'[r] # Bl!Idle => o = r
      BY <3>1
    <3>6. Writing(q, p)'
      BY <2>4, <2>5 DEF Writing, Carries
    <3>7. \A r \in PlanIds : r \in told' /\ "apply_end" \in audit'[r] =>
            /\ \A o \in Proc : Writing(o, r)' => cmd'[o].rec.status = "applied"
            /\ (\A o \in Proc : ~Writing(o, r)') => index'[r] \in Bl!Record /\ index'[r].status = "applied"
      BY <2>2, <2>3, <2>4, <2>5, <3>2, <3>3, <3>6
    <3>. HIDE DEF p
    <3>. QED
      BY <2>2, <3>2, <3>3, <3>4, <3>5, <3>7 DEF BacklogSettled
  <2>9. upset' \in BOOLEAN
    BY <2>2 DEF BacklogInv
  <2>. QED
    BY <2>6, <2>7, <2>8, <2>9 DEF BacklogInv
<1>8. ASSUME NEW q \in Proc, Bl!AuditUnread(q) PROVE BacklogInv'
  <2>. DEFINE c == [cmd[q] EXCEPT !.at = "truncate"]
  <2>1. c.rec = cmd[q].rec /\ c.plan = cmd[q].plan /\ Carries(q) /\ c \in BacklogCommand
    BY <1>0, <1>8 DEF Bl!AuditUnread, BacklogTypes, BacklogCommand, Carries
  <2>2. /\ cmd' = [cmd EXCEPT ![q] = c] /\ now' = now /\ upset' = TRUE
        /\ UNCHANGED <<dir, digest, summary, index, audit>>
    BY <1>8 DEF Bl!AuditUnread
  <2>. HIDE DEF c
  <2>3. cmd'[q] = c /\ \A o \in Proc \ {q} : cmd'[o] = cmd[o]
    BY <1>0, <2>1, <2>2, BacklogMove
  <2>4. BacklogTypes'
    BY <1>0, <2>1, <2>2, BacklogMove DEF BacklogTypes
  <2>5. Bl!AppliedWasApplied' /\ BacklogHonest'
    BY <2>1, <2>2, <2>3 DEF BacklogInv, Bl!AppliedWasApplied, BacklogHonest, Carries
  <2>. QED
    BY <2>2, <2>4, <2>5 DEF BacklogInv
<1>9. ASSUME NEW q \in Proc, Bl!Kill(q) PROVE BacklogInv'
  <2>1. Bl!Idle \in BacklogCommand /\ Bl!Idle.op = "idle"
    BY DEF BacklogCommand, Bl!Idle
  <2>2. /\ cmd' = [cmd EXCEPT ![q] = Bl!Idle] /\ now' = now /\ upset' = TRUE
        /\ UNCHANGED <<dir, digest, summary, index, audit>>
    BY <1>9 DEF Bl!Kill
  <2>3. cmd'[q] = Bl!Idle /\ \A o \in Proc \ {q} : cmd'[o] = cmd[o]
    BY <1>0, <2>1, <2>2, BacklogMove
  <2>4. BacklogTypes'
    BY <1>0, <2>1, <2>2, BacklogMove DEF BacklogTypes
  <2>5. Bl!AppliedWasApplied' /\ BacklogHonest'
    BY <2>1, <2>2, <2>3 DEF BacklogInv, Bl!AppliedWasApplied, BacklogHonest, Carries
  <2>. QED
    BY <2>2, <2>4, <2>5 DEF BacklogInv
<1>10. ASSUME NEW q \in Proc, Bl!Truncate(q) PROVE BacklogInv'
  <2>. DEFINE p == cmd[q].plan
              c == [cmd[q] EXCEPT !.at = "fill"]
  <2>1. /\ p \in PlanIds /\ cmd[q] # Bl!Idle /\ Carries(q) /\ cmd[q].at = "truncate" /\ Writing(q, p)
        /\ cmd[q].rec \in Bl!Record
    BY <1>0, <1>10 DEF Bl!Truncate, BacklogTypes, BacklogCommand, Carries, Writing, Bl!Idle
  <2>2. now' = now /\ upset' = upset /\ UNCHANGED <<dir, digest, index, audit, told>> /\ upset' \in BOOLEAN
    BY <1>10 DEF Bl!Truncate, BacklogInv
  <2>3. CASE p \in dir
    <3>1. cmd' = [cmd EXCEPT ![q] = c] /\ summary' = [summary EXCEPT ![p] = Torn]
      BY <1>10, <2>3 DEF Bl!Truncate
    <3>2. c \in BacklogCommand /\ c.at = "fill" /\ c.plan = p /\ c.rec = cmd[q].rec /\ c.op = cmd[q].op
      BY <1>0, <2>1 DEF BacklogTypes, BacklogCommand, Carries
    <3>. HIDE DEF c
    <3>3. cmd'[q] = c /\ \A o \in Proc \ {q} : cmd'[o] = cmd[o]
      BY <1>0, <3>1, <3>2, BacklogMove
    <3>4. BacklogTypes'
      BY <1>0, <2>2, <3>1, <3>2, BacklogMove DEF BacklogTypes
    <3>5. Torn \notin Bl!Record
      BY PlansAssumption DEF Bl!BacklogAssumption
    <3>6. Bl!AppliedWasApplied' /\ BacklogHonest'
      BY <1>0, <2>1, <2>2, <3>1, <3>2, <3>3, <3>5
      DEF BacklogInv, BacklogTypes, Bl!AppliedWasApplied, BacklogHonest, Carries
    <3>7. ASSUME ~upset' PROVE BacklogSettled'
      <4>1. /\ BacklogSettled
            /\ \A o \in Proc \ {q} : ~Carries(o) /\ ~Carries(o)'
            /\ \A o \in Proc, r \in Proc : cmd'[o] # Bl!Idle /\ cmd'[r] # Bl!Idle => o = r
        BY <2>1, <2>2, <3>1, <3>2, <3>7, BacklogAlone
      <4>2. /\ \A o \in Proc : (Carries(o)' => o = q) /\ (Carries(o) => o = q)
            /\ \A o \in Proc, r \in PlanIds : (Writing(o, r)' => o = q /\ r = p) /\ (Writing(o, r) => o = q /\ r = p)
            /\ cmd'[q].at = "fill" /\ cmd'[q].plan = p /\ cmd'[q].rec = cmd[q].rec /\ Writing(q, p)'
        BY <2>1, <3>2, <3>3, <4>1 DEF Writing, Carries
      <4>3. \A r \in PlanIds :
              /\ summary'[r] # None => r \in dir
              /\ r # p /\ summary'[r] # None => summary'[r] # Torn /\ Bl!Compact(summary'[r]) = index[r]
              /\ r # p /\ r \in told /\ "apply_end" \in audit[r] => index[r] \in Bl!Record /\ index[r].status = "applied"
        BY <1>0, <2>3, <3>1, <4>1, <4>2 DEF BacklogSettled, BacklogTypes
      <4>4. p \in told /\ "apply_end" \in audit[p] => cmd[q].rec.status = "applied"
        BY <2>1, <4>1 DEF BacklogSettled
      <4>5. \A o, r \in Proc : cmd'[o] # Bl!Idle /\ cmd'[r] # Bl!Idle => o = r
        BY <4>1
      <4>6. summary'[p] = Torn
        BY <1>0, <2>1, <3>1 DEF BacklogTypes
      <4>7. \A r \in PlanIds : (\A o \in Proc : Writing(o, r)' => cmd'[o].at = "truncate") =>
              (summary'[r] # None => summary'[r] # Torn /\ Bl!Compact(summary'[r]) = index'[r])
        BY <2>2, <4>2, <4>3
      <4>8. \A r \in PlanIds : r \in told' /\ "apply_end" \in audit'[r] =>
            /\ \A o \in Proc : Writing(o, r)' => cmd'[o].rec.status = "applied"
            /\ (\A o \in Proc : ~Writing(o, r)') => index'[r] \in Bl!Record /\ index'[r].status = "applied"
        BY <2>2, <4>2, <4>3, <4>4
      <4>. HIDE DEF p
      <4>. QED
        BY <2>2, <4>2, <4>3, <4>5, <4>6, <4>7, <4>8 DEF BacklogSettled, Bl!Compact
    <3>. QED
      BY <2>2, <3>4, <3>6, <3>7 DEF BacklogInv
  <2>4. CASE p \notin dir
    <3>1. cmd' = [cmd EXCEPT ![q] = Bl!Idle] /\ summary' = summary
      BY <1>10, <2>4 DEF Bl!Truncate
    <3>2. Bl!Idle \in BacklogCommand /\ Bl!Idle.op = "idle"
      BY DEF BacklogCommand, Bl!Idle
    <3>3. cmd'[q] = Bl!Idle /\ \A o \in Proc \ {q} : cmd'[o] = cmd[o]
      BY <1>0, <3>1, <3>2, BacklogMove
    <3>4. BacklogTypes'
      BY <1>0, <2>2, <3>1, <3>2, BacklogMove DEF BacklogTypes
    <3>5. Bl!AppliedWasApplied' /\ BacklogHonest'
      BY <2>2, <3>1, <3>2, <3>3 DEF BacklogInv, Bl!AppliedWasApplied, BacklogHonest, Carries
    <3>6. upset
      BY <2>1, <2>4 DEF BacklogInv, BacklogSettled
    <3>. QED
      BY <2>2, <3>4, <3>5, <3>6 DEF BacklogInv
  <2>. QED
    BY <2>3, <2>4
<1>11. ASSUME NEW q \in Proc, Bl!Fill(q) PROVE BacklogInv'
  <2>. DEFINE p == cmd[q].plan
              c == [cmd[q] EXCEPT !.at = "index"]
  <2>1. /\ p \in PlanIds /\ cmd[q] # Bl!Idle /\ Carries(q) /\ cmd[q].at = "fill" /\ Writing(q, p)
        /\ cmd[q].rec \in Bl!Record
    BY <1>0, <1>11 DEF Bl!Fill, BacklogTypes, BacklogCommand, Carries, Writing, Bl!Idle
  <2>2. /\ cmd' = [cmd EXCEPT ![q] = c] /\ now' = now /\ upset' = upset /\ upset' \in BOOLEAN
        /\ UNCHANGED <<dir, digest, index, audit, told>>
    BY <1>11 DEF Bl!Fill, BacklogInv
  <2>3. {Torn, None} \cap Bl!Record = {} /\ Torn # None
    BY PlansAssumption DEF Bl!BacklogAssumption
  <2>4. PICK s \in {None, Torn, cmd[q].rec} :
          summary' = [summary EXCEPT ![p] = s] /\ (summary[p] = Torn => s = cmd[q].rec)
    <3>1. summary[p] \in Bl!Record \cup {None, Torn}
      BY <1>0, <2>1 DEF BacklogTypes
    <3>. QED
      BY <1>11, <2>3, <3>1 DEF Bl!Fill
  <2>5. c \in BacklogCommand /\ c.at = "index" /\ c.plan = p /\ c.rec = cmd[q].rec /\ c.op = cmd[q].op
    BY <1>0, <2>1 DEF BacklogTypes, BacklogCommand, Carries
  <2>. HIDE DEF c
  <2>6. cmd'[q] = c /\ \A o \in Proc \ {q} : cmd'[o] = cmd[o]
    BY <1>0, <2>2, <2>5, BacklogMove
  <2>7. BacklogTypes'
    BY <1>0, <2>1, <2>2, <2>4, <2>5, BacklogMove DEF BacklogTypes
  <2>8. Bl!AppliedWasApplied' /\ BacklogHonest'
    BY <1>0, <2>1, <2>2, <2>3, <2>4, <2>5, <2>6
    DEF BacklogInv, BacklogTypes, Bl!AppliedWasApplied, BacklogHonest, Carries
  <2>9. ASSUME ~upset' PROVE BacklogSettled'
    <3>1. /\ BacklogSettled
          /\ \A o \in Proc \ {q} : ~Carries(o) /\ ~Carries(o)'
          /\ \A o \in Proc, r \in Proc : cmd'[o] # Bl!Idle /\ cmd'[r] # Bl!Idle => o = r
      BY <2>1, <2>2, <2>5, <2>9, BacklogAlone
    <3>2. /\ \A o \in Proc : (Carries(o)' => o = q) /\ (Carries(o) => o = q)
          /\ \A o \in Proc, r \in PlanIds : (Writing(o, r)' => o = q /\ r = p) /\ (Writing(o, r) => o = q /\ r = p)
          /\ cmd'[q].at = "index" /\ cmd'[q].plan = p /\ cmd'[q].rec = cmd[q].rec /\ Writing(q, p)'
      BY <2>1, <2>5, <2>6, <3>1 DEF Writing, Carries
    <3>3. summary[p] = Torn /\ summary'[p] = cmd[q].rec /\ p \in dir
      BY <1>0, <2>1, <2>3, <2>4, <3>1 DEF BacklogSettled, BacklogTypes
    <3>4. \A r \in PlanIds :
            /\ summary'[r] # None => r \in dir
            /\ r # p /\ summary'[r] # None => summary'[r] # Torn /\ Bl!Compact(summary'[r]) = index[r]
            /\ r # p /\ r \in told /\ "apply_end" \in audit[r] => index[r] \in Bl!Record /\ index[r].status = "applied"
      BY <1>0, <2>4, <3>1, <3>2, <3>3 DEF BacklogSettled, BacklogTypes
    <3>5. p \in told /\ "apply_end" \in audit[p] => cmd[q].rec.status = "applied"
      BY <2>1, <3>1 DEF BacklogSettled
    <3>6. \A o, r \in Proc : cmd'[o] # Bl!Idle /\ cmd'[r] # Bl!Idle => o = r
      BY <3>1
    <3>7. \A r \in PlanIds : (\A o \in Proc : Writing(o, r)' => cmd'[o].at = "truncate") =>
            (summary'[r] # None => summary'[r] # Torn /\ Bl!Compact(summary'[r]) = index'[r])
      BY <2>2, <3>2, <3>4
    <3>8. \A r \in PlanIds : r \in told' /\ "apply_end" \in audit'[r] =>
          /\ \A o \in Proc : Writing(o, r)' => cmd'[o].rec.status = "applied"
          /\ (\A o \in Proc : ~Writing(o, r)') => index'[r] \in Bl!Record /\ index'[r].status = "applied"
      BY <2>2, <3>2, <3>4, <3>5
    <3>. HIDE DEF p
    <3>. QED
      BY <2>2, <3>2, <3>3, <3>4, <3>6, <3>7, <3>8 DEF BacklogSettled, Bl!Compact
  <2>. QED
    BY <2>2, <2>7, <2>8, <2>9 DEF BacklogInv
<1>12. ASSUME NEW q \in Proc, Bl!AppendIndex(q) PROVE BacklogInv'
  <2>. DEFINE p == cmd[q].plan
              compact == Bl!Compact(cmd[q].rec)
  <2>1. /\ p \in PlanIds /\ cmd[q] # Bl!Idle /\ Carries(q) /\ cmd[q].at = "index" /\ Writing(q, p)
        /\ cmd[q].rec \in Bl!Record
    BY <1>0, <1>12 DEF Bl!AppendIndex, BacklogTypes, BacklogCommand, Carries, Writing, Bl!Idle
  <2>2. /\ cmd' = [cmd EXCEPT ![q] = Bl!Idle] /\ index' = [index EXCEPT ![p] = compact]
        /\ now' = now /\ upset' = upset /\ upset' \in BOOLEAN
        /\ UNCHANGED <<dir, digest, summary, audit, told>>
    BY <1>12 DEF Bl!AppendIndex, BacklogInv
  <2>3. compact \in Bl!Record /\ compact.status = cmd[q].rec.status
    BY <2>1 DEF Bl!Compact, Bl!Record, Bl!Digest
  <2>4. Bl!Idle \in BacklogCommand /\ Bl!Idle.op = "idle"
    BY DEF BacklogCommand, Bl!Idle
  <2>. HIDE DEF compact
  <2>5. cmd'[q] = Bl!Idle /\ \A o \in Proc \ {q} : cmd'[o] = cmd[o]
    BY <1>0, <2>2, <2>4, BacklogMove
  <2>6. BacklogTypes'
    BY <1>0, <2>1, <2>2, <2>3, <2>4, BacklogMove DEF BacklogTypes
  <2>7. Bl!AppliedWasApplied' /\ BacklogHonest'
    BY <1>0, <2>1, <2>2, <2>3, <2>4, <2>5
    DEF BacklogInv, BacklogTypes, Bl!AppliedWasApplied, BacklogHonest, Carries
  <2>8. ASSUME ~upset' PROVE BacklogSettled'
    <3>1. /\ BacklogSettled
          /\ \A o \in Proc \ {q} : ~Carries(o) /\ ~Carries(o)'
          /\ \A o \in Proc, r \in Proc : cmd'[o] # Bl!Idle /\ cmd'[r] # Bl!Idle => o = r
      BY <2>1, <2>2, <2>4, <2>8, BacklogAlone
    <3>2. /\ \A o \in Proc : ~Carries(o)' /\ (Carries(o) => o = q)
          /\ \A o \in Proc, r \in PlanIds : ~Writing(o, r)' /\ (Writing(o, r) => o = q /\ r = p)
      BY <2>1, <2>4, <2>5, <3>1 DEF Writing, Carries
    <3>3. summary[p] = cmd[q].rec /\ index'[p] = compact /\ \A r \in PlanIds \ {p} : index'[r] = index[r]
      BY <1>0, <2>1, <2>2, <3>1 DEF BacklogSettled, BacklogTypes
    <3>4. p \in told /\ "apply_end" \in audit[p] => cmd[q].rec.status = "applied"
      BY <2>1, <3>1 DEF BacklogSettled
    <3>5. summary[p] # Torn /\ compact = Bl!Compact(summary[p])
      BY <2>1, <3>3, PlansAssumption DEF Bl!BacklogAssumption, compact
    <3>6. \A r \in PlanIds :
            /\ summary[r] # None => r \in dir
            /\ summary[r] # None => summary[r] # Torn /\ Bl!Compact(summary[r]) = index'[r]
            /\ r \in told /\ "apply_end" \in audit[r] => index'[r] \in Bl!Record /\ index'[r].status = "applied"
      BY <2>3, <3>1, <3>2, <3>3, <3>4, <3>5 DEF BacklogSettled
    <3>7. \A o, r \in Proc : cmd'[o] # Bl!Idle /\ cmd'[r] # Bl!Idle => o = r
      BY <3>1
    <3>. QED
      BY <2>2, <3>2, <3>6, <3>7 DEF BacklogSettled
  <2>. QED
    BY <2>2, <2>6, <2>7, <2>8 DEF BacklogInv
<1>13. ASSUME UNCHANGED <<cmd, dir, summary, index, upset>>,
              digest' \in [PlanIds -> Bl!Digest], now' \in 0..MaxClock, told' \subseteq told,
              audit' \in [PlanIds -> SUBSET {"apply_start", "apply_end", "apply_rejected"}],
              \A p \in PlanIds : /\ audit[p] \subseteq audit'[p]
                                 /\ p \in told' /\ "apply_end" \in audit'[p] => "apply_end" \in audit[p]
       PROVE  BacklogInv'
  <2>1. BacklogTypes'
    BY <1>0, <1>13 DEF BacklogTypes
  <2>2. Bl!AppliedWasApplied'
    BY <1>13 DEF BacklogInv, Bl!AppliedWasApplied
  <2>3. \A o \in Proc : (Carries(o)' <=> Carries(o)) /\ (Carries(o) => cmd[o].plan \in PlanIds)
    BY <1>0, <1>13 DEF Carries, BacklogTypes, BacklogCommand
  <2>4. BacklogHonest'
    BY <1>13, <2>3 DEF BacklogInv, BacklogHonest
  <2>5. \A o \in Proc, p \in PlanIds : Writing(o, p)' <=> Writing(o, p)
    BY <1>13, <2>3 DEF Writing
  <2>6. ASSUME ~upset' PROVE BacklogSettled'
    <3>1. BacklogSettled
      BY <1>13, <2>6 DEF BacklogInv
    <3>2. \A p \in PlanIds : p \in told' /\ "apply_end" \in audit'[p] => p \in told /\ "apply_end" \in audit[p]
      BY <1>13
    <3>. QED
      BY <1>13, <2>3, <2>5, <3>1, <3>2 DEF BacklogSettled, Bl!Compact
  <2>. QED
    BY <1>13, <2>1, <2>2, <2>4, <2>6 DEF BacklogInv
<1>14. ASSUME NEW p \in PlanIds, NEW d \in Bl!Digest, Bl!WriteDigest(p, d) PROVE BacklogInv'
  BY <1>0, <1>13, <1>14 DEF Bl!WriteDigest, BacklogTypes
<1>15. ASSUME NEW p \in PlanIds, NEW n, Bl!Apply(p, n) PROVE BacklogInv'
  <2>1. audit' = [audit EXCEPT ![p] = @ \cup {"apply_start", "apply_end"}] /\ told' = told \ {p}
        /\ UNCHANGED <<cmd, dir, digest, summary, index, upset, now>>
    BY <1>15 DEF Bl!Apply
  <2>. QED
    BY <1>0, <1>13, <2>1 DEF BacklogTypes
<1>16. ASSUME NEW p \in PlanIds, Bl!RejectApply(p) PROVE BacklogInv'
  <2>1. audit' = [audit EXCEPT ![p] = @ \cup {"apply_rejected"}]
        /\ UNCHANGED <<cmd, dir, digest, summary, index, upset, now, told>>
    BY <1>16 DEF Bl!RejectApply
  <2>. QED
    BY <1>0, <1>13, <2>1 DEF BacklogTypes
<1>17. ASSUME NEW p \in PlanIds, Bl!LoseManifest(p) PROVE BacklogInv'
  BY <1>0, <1>13, <1>17 DEF Bl!LoseManifest, BacklogTypes
<1>18. CASE Bl!Tick
  <2>1. now' \in 0..MaxClock
    BY <1>0, <1>18, PlansAssumption DEF Bl!Tick, BacklogTypes, Bl!BacklogAssumption
  <2>. QED
    BY <1>0, <1>13, <1>18, <2>1 DEF Bl!Tick, BacklogTypes
<1>19. CASE UNCHANGED Bl!vars
  BY <1>0, <1>13, <1>19 DEF Bl!vars, BacklogTypes
<1>. QED
  BY <1>1, <1>2, <1>3, <1>4, <1>5, <1>6, <1>7, <1>8, <1>9, <1>10, <1>11, <1>12, <1>14, <1>15, <1>16, <1>17,
     <1>18, <1>19 DEF Bl!Next

(* The listing agrees when no command runs. *)
LEMMA BacklogListing == BacklogInv => Bl!ListingSettles
<1>. SUFFICES ASSUME BacklogInv, Bl!Quiet, ~upset, NEW p \in PlanIds
              PROVE  /\ summary[p] # None => summary[p] # Torn /\ Bl!Compact(summary[p]) = index[p]
                     /\ p \in told /\ "apply_end" \in audit[p] => Bl!Listed(p).status = "applied"
  BY DEF Bl!ListingSettles
<1>1. \A q \in Proc : ~Writing(q, p)
  BY DEF Bl!Quiet, Bl!Idle, Writing, Carries
<1>2. summary[p] # None => summary[p] # Torn /\ Bl!Compact(summary[p]) = index[p]
  BY <1>1 DEF BacklogInv, BacklogSettled
<1>3. p \in told /\ "apply_end" \in audit[p] => index[p] \in Bl!Record /\ index[p].status = "applied"
  BY <1>1 DEF BacklogInv, BacklogSettled
<1>4. summary[p] \in Bl!Record => Bl!Compact(summary[p]).status = summary[p].status
  BY DEF Bl!Compact, Bl!Record
<1>. QED
  BY <1>2, <1>3, <1>4 DEF BacklogInv, BacklogTypes, Bl!Listed, Bl!Shown

-----------------------------------------------------------------------------
(* The applies of Promote, at each of their steps. *)
PromoteJob ==
  [at : {"idle"}]
  \cup [at : {"row", "present", "other", "open", "copy", "rename", "renamed"}, rows : Seq(Pr!ManifestRow),
        seen : BOOLEAN, read : SUBSET (Bytes \cup {Gone})]

PromoteTypes ==
  /\ file \in [Pr!Path -> Bytes \cup {Gone}]
  /\ inflight \in [Dest -> Bytes \cup {Bad, Gone}]
  /\ claims \subseteq Pr!Path \X Bytes
  /\ plans \subseteq SUBSET Pr!ManifestRow
  /\ job \in PromoteJob
  /\ pend \cup log \subseteq Pr!AuditRow
  /\ writes \in Nat /\ deaths \in Nat

(* What an audit row says, unless another program has written the file since. *)
Found(r) ==
  /\ r.action \in {"promote_committed", "promote_skipped"} /\ r.seen => file[DestOf[r.source]] = r.content
  /\ r.action = "nas_manifest_exported" =>
       [action |-> "nas_manifest", source |-> r.source, content |-> r.content] \in export

(* At each step of a promote: what apply knows of the destination and of the  *)
(* copy.  Nothing it has recorded for that destination counts any more.       *)
PromoteKnows ==
  /\ job.at \notin {"idle", "row"} => job.rows # << >> /\ Pr!Row.action = "promote"
  /\ job.at \in {"present", "renamed"} /\ job.seen => file[Pr!To] = Pr!Row.content
  /\ job.at = "rename" => inflight[Pr!To] = Pr!Row.content
  /\ job.at \in {"open", "copy", "rename"} =>
       /\ job.seen => file[Pr!To] = Gone
       /\ \A r \in pend \cup log :
            r.action \in {"promote_committed", "promote_skipped"} /\ DestOf[r.source] = Pr!To => ~r.seen
  /\ deaths = 0 => \A d \in Dest : inflight[d] # Gone => job.at \in {"copy", "rename"} /\ d = Pr!To

PromoteInv == PromoteTypes /\ PromoteKnows /\ \A r \in pend \cup log : Found(r)

LEMMA PromoteInit == Pr!Init => PromoteInv
<1>. SUFFICES ASSUME Pr!Init PROVE PromoteInv
  OBVIOUS
<1>. USE PlansAssumption DEF Pr!PromoteAssumption, Pr!Init, Pr!Idle
<1>1. PromoteTypes
  BY DEF PromoteTypes, PromoteJob, Pr!Path
<1>2. PromoteKnows
  BY DEF PromoteKnows
<1>. QED
  BY <1>1, <1>2 DEF PromoteInv

(* The row an apply is at. *)
LEMMA PromoteRow ==
  ASSUME PromoteTypes, job.at # "idle", job.rows # << >>
  PROVE  /\ Pr!Row \in Pr!ManifestRow /\ Pr!To \in Dest /\ Pr!To \in Pr!Path /\ Pr!Row.source \in Pr!Path
         /\ Pr!Row.source \in Source /\ Pr!Row.content \in Bytes
         /\ Tail(job.rows) \in Seq(Pr!ManifestRow)
         /\ job \in [at : {"row", "present", "other", "open", "copy", "rename", "renamed"},
                     rows : Seq(Pr!ManifestRow), seen : BOOLEAN, read : SUBSET (Bytes \cup {Gone})]
<1>1. job \in [at : {"row", "present", "other", "open", "copy", "rename", "renamed"},
               rows : Seq(Pr!ManifestRow), seen : BOOLEAN, read : SUBSET (Bytes \cup {Gone})]
  BY DEF PromoteTypes, PromoteJob
<1>2. Pr!Row \in Pr!ManifestRow /\ Tail(job.rows) \in Seq(Pr!ManifestRow)
  BY <1>1 DEF Pr!Row
<1>. QED
  BY <1>1, <1>2, PlansAssumption DEF Pr!ManifestRow, Pr!To, Pr!Path, Pr!PromoteAssumption

(* A row ends: nothing on disk has changed for what was recorded before.      *)
LEMMA PromoteEndsRow ==
  ASSUME PromoteInv, job.at # "idle", job.rows # << >>,
         job' = [job EXCEPT !.rows = Tail(@), !.at = "row"],
         pend' \subseteq pend \cup Pr!AuditRow, \A r \in pend' \ pend : Found(r)',
         UNCHANGED <<file, claims, plans, log>>, export \subseteq export', {writes', deaths'} \subseteq Nat,
         inflight' \in [Dest -> Bytes \cup {Bad, Gone}], deaths' = 0 => deaths = 0 /\ \A d \in Dest : inflight'[d] = Gone
  PROVE  PromoteInv'
<1>1. job' \in PromoteJob /\ job'.at = "row"
  BY PromoteRow DEF PromoteInv, PromoteJob
<1>2. PromoteTypes'
  BY <1>1 DEF PromoteInv, PromoteTypes
<1>3. PromoteKnows'
  BY <1>1 DEF PromoteKnows
<1>4. \A r \in (pend \cup log)' : Found(r)'
  BY DEF PromoteInv, Found
<1>. QED
  BY <1>2, <1>3, <1>4 DEF PromoteInv

(* An apply ends or dies. *)
LEMMA PromoteEndsApply ==
  ASSUME PromoteInv, job' = Pr!Idle, (pend \cup log)' \subseteq pend \cup log,
         UNCHANGED <<file, export, claims, plans>>, {writes', deaths'} \subseteq Nat,
         inflight' \in [Dest -> Bytes \cup {Bad, Gone}], deaths' = 0 => deaths = 0 /\ \A d \in Dest : inflight'[d] = Gone
  PROVE  PromoteInv'
<1>1. job' \in PromoteJob /\ job'.at = "idle"
  BY DEF PromoteJob, Pr!Idle
<1>2. PromoteTypes'
  BY <1>1 DEF PromoteInv, PromoteTypes
<1>3. PromoteKnows'
  BY <1>1 DEF PromoteKnows
<1>4. \A r \in (pend \cup log)' : Found(r)'
  BY DEF PromoteInv, Found
<1>. QED
  BY <1>2, <1>3, <1>4 DEF PromoteInv

(* Outside a copy, and until a first fault, no .inflight file lies about. *)
LEMMA PromoteNoInflight ==
  ASSUME PromoteInv, job.at \notin {"copy", "rename"}, deaths = 0
  PROVE  \A d \in Dest : inflight[d] = Gone
BY DEF PromoteInv, PromoteKnows

LEMMA PromoteStep == PromoteInv /\ [Pr!Next]_Pr!vars => PromoteInv'
<1>. SUFFICES ASSUME PromoteInv, [Pr!Next]_Pr!vars PROVE PromoteInv'
  OBVIOUS
<1>0. PromoteTypes /\ PromoteKnows /\ \A r \in pend \cup log : Found(r)
  BY DEF PromoteInv
<1>t. deaths \in Nat /\ inflight \in [Dest -> Bytes \cup {Bad, Gone}] /\ job \in PromoteJob
  BY <1>0 DEF PromoteTypes
<1>w. writes' \in Nat
  <2>1. writes \in Nat
    BY <1>0 DEF PromoteTypes
  <2>2. writes' = writes \/ writes' = writes + 1
    BY DEF Pr!Next, Pr!Scan, Pr!Plan, Pr!StartApply, Pr!EndApply, Pr!CheckDest, Pr!RecordPresent, Pr!OpenInflight,
       Pr!Copy, Pr!RenameInflight, Pr!RecordPromoted, Pr!ExportRow, Pr!Fails, Pr!Kill, Pr!Write, Pr!outside, Pr!vars
  <2>. QED
    BY <2>1, <2>2
<1>a. /\ Source \cap Dest = {} /\ DestOf \in [Source -> Dest] /\ {Bad, Gone} \cap Bytes = {} /\ Bad # Gone
      /\ Dest \subseteq Pr!Path /\ Source \subseteq Pr!Path
  BY PlansAssumption DEF Pr!PromoteAssumption, Pr!Path
<1>1. ASSUME UNCHANGED <<Pr!disk, job, pend, log, deaths>>, claims' \subseteq Pr!Path \X Bytes,
             plans' \subseteq SUBSET Pr!ManifestRow
      PROVE  PromoteInv'
  <2>1. PromoteTypes'
    BY <1>w, <1>0, <1>1 DEF PromoteTypes, Pr!disk
  <2>2. PromoteKnows'
    BY <1>0, <1>1 DEF PromoteKnows, Pr!disk, Pr!Row, Pr!To
  <2>3. \A r \in (pend \cup log)' : Found(r)'
    BY <1>0, <1>1 DEF Found, Pr!disk
  <2>. QED
    BY <2>1, <2>2, <2>3 DEF PromoteInv
<1>2. CASE Pr!Scan
  <2>1. claims' \subseteq Pr!Path \X Bytes
    BY <1>0, <1>2, <1>a DEF Pr!Scan, PromoteTypes
  <2>. QED
    BY <1>1, <1>2, <1>0, <2>1 DEF Pr!Scan, PromoteTypes
<1>3. CASE Pr!Plan
  <2>1. plans' \subseteq SUBSET Pr!ManifestRow
    <3>1. CASE \E pick \in [Pr!BackupOnly -> Source] :
               plans' = plans \cup {{[action |-> "promote", source |-> pick[c], content |-> c] : c \in Pr!BackupOnly}}
      BY <1>0, <3>1 DEF PromoteTypes, Pr!ManifestRow, Pr!RowKind, Pr!BackupOnly
    <3>2. CASE plans' = plans \cup
               {{[action |-> "nas_manifest", source |-> k[1], content |-> k[2]] :
                   k \in {k \in claims : k[1] \in Source /\ \E d \in Dest : <<d, k[2]>> \in claims}}}
      BY <1>0, <3>2 DEF PromoteTypes, Pr!ManifestRow, Pr!RowKind
    <3>. QED
      BY <1>3, <3>1, <3>2 DEF Pr!Plan
  <2>. QED
    BY <1>1, <1>3, <1>0, <2>1 DEF Pr!Plan, PromoteTypes

<1>4. CASE Pr!StartApply
  <2>1. PICK m \in plans \ {{}} : \E rows \in Pr!SeqOf(m, Pr!Cardinality(m)) :
              Pr!ToSet(rows) = m /\ job' = [at |-> "row", rows |-> rows, seen |-> TRUE, read |-> {}]
    BY <1>4 DEF Pr!StartApply
  <2>2. PICK rows \in Pr!SeqOf(m, Pr!Cardinality(m)) :
              Pr!ToSet(rows) = m /\ job' = [at |-> "row", rows |-> rows, seen |-> TRUE, read |-> {}]
    BY <2>1
  <2>3. rows \in Seq(Pr!ManifestRow)
    BY <1>0, <2>1, <2>2 DEF PromoteTypes, Pr!SeqOf, Pr!ToSet
  <2>4. job' \in PromoteJob /\ job'.at = "row"
    BY <2>2, <2>3 DEF PromoteJob
  <2>5. job.at = "idle" /\ UNCHANGED <<file, inflight, export, claims, plans, pend, log, deaths>>
    BY <1>4 DEF Pr!StartApply, Pr!At, Pr!disk, Pr!outside
  <2>6. PromoteTypes'
    BY <1>w, <1>0, <2>4, <2>5 DEF PromoteTypes
  <2>7. PromoteKnows'
    BY <1>0, <2>4, <2>5 DEF PromoteKnows
  <2>8. \A r \in (pend \cup log)' : Found(r)'
    BY <1>0, <2>5 DEF Found
  <2>. QED
    BY <2>6, <2>7, <2>8 DEF PromoteInv
<1>5. CASE Pr!EndApply
  BY <1>5, <1>t, PromoteEndsApply, PromoteNoInflight, <1>w DEF Pr!EndApply, Pr!At, Pr!disk, Pr!outside
<1>6. CASE Pr!Kill
  BY <1>6, <1>t, <1>w, PromoteEndsApply DEF Pr!Kill, Pr!disk, Pr!outside
<1>7. CASE Pr!ExportRow
  <2>1. PICK r : r = [action |-> "nas_manifest_exported", source |-> Pr!Row.source, content |-> Pr!Row.content, seen |-> job.seen]
    OBVIOUS
  <2>2. /\ job.at = "row" /\ job.rows # << >> /\ Pr!Row.action = "nas_manifest" /\ pend' = pend \cup {r}
        /\ job' = [job EXCEPT !.rows = Tail(@), !.at = "row"] /\ export' = export \cup {Pr!Row}
        /\ UNCHANGED <<file, inflight, log, claims, plans, deaths>>
    BY <1>7, <2>1 DEF Pr!ExportRow, Pr!At, Pr!Records, Pr!outside
  <2>3. Pr!Row \in Pr!ManifestRow /\ job.seen \in BOOLEAN /\ Pr!Row.source \in Source /\ Pr!Row.content \in Bytes
    BY <1>0, <2>2, PromoteRow
  <2>4. r \in Pr!AuditRow
    BY <2>1, <2>3 DEF Pr!AuditRow, Pr!Outcome
  <2>5. Pr!Row = [action |-> "nas_manifest", source |-> r.source, content |-> r.content]
    BY <2>1, <2>2, <2>3 DEF Pr!ManifestRow
  <2>6. Found(r)'
    BY <2>1, <2>2, <2>5 DEF Found
  <2>7. deaths = 0 => \A d \in Dest : inflight[d] = Gone
    BY <2>2, PromoteNoInflight
  <2>. QED
    BY <2>2, <2>4, <2>6, <2>7, <1>t, PromoteEndsRow, <1>w
<1>8. CASE Pr!RecordPresent
  <2>1. PICK a \in {"promote_skipped", "promote_mismatch"} :
           /\ (a = "promote_skipped" /\ job.at = "present") \/ (a = "promote_mismatch" /\ job.at = "other")
           /\ Pr!Records(a)
    BY <1>8 DEF Pr!RecordPresent, Pr!At
  <2>2. PICK r : r = [action |-> a, source |-> Pr!Row.source, content |-> Pr!Row.content, seen |-> job.seen]
    OBVIOUS
  <2>3. /\ pend' = pend \cup {r} /\ job' = [job EXCEPT !.rows = Tail(@), !.at = "row"]
        /\ UNCHANGED <<file, inflight, export, log, claims, plans, deaths>>
    BY <1>8, <2>1, <2>2 DEF Pr!RecordPresent, Pr!Records, Pr!disk, Pr!outside
  <2>4. job.rows # << >>
    BY <1>0, <2>1 DEF PromoteKnows
  <2>5. job.seen \in BOOLEAN /\ Pr!Row.source \in Source /\ Pr!Row.content \in Bytes
    BY <1>0, <2>1, <2>4, PromoteRow
  <2>6. r \in Pr!AuditRow
    BY <2>1, <2>2, <2>5 DEF Pr!AuditRow, Pr!Outcome
  <2>7. Found(r)'
    BY <1>0, <2>1, <2>2, <2>3 DEF Found, PromoteKnows, Pr!To
  <2>8. deaths = 0 => \A d \in Dest : inflight[d] = Gone
    BY <2>1, PromoteNoInflight
  <2>. QED
    BY <2>1, <2>3, <2>4, <2>6, <2>7, <2>8, <1>t, PromoteEndsRow, <1>w
<1>9. CASE Pr!RecordPromoted
  <2>1. PICK r : r = [action |-> "promote_committed", source |-> Pr!Row.source, content |-> Pr!Row.content, seen |-> job.seen]
    OBVIOUS
  <2>2. /\ job.at = "renamed" /\ pend' = pend \cup {r} /\ job' = [job EXCEPT !.rows = Tail(@), !.at = "row"]
        /\ UNCHANGED <<file, inflight, export, log, claims, plans, deaths>>
    BY <1>9, <2>1 DEF Pr!RecordPromoted, Pr!At, Pr!Records, Pr!disk, Pr!outside
  <2>3. job.rows # << >>
    BY <1>0, <2>2 DEF PromoteKnows
  <2>4. job.seen \in BOOLEAN /\ Pr!Row.source \in Source /\ Pr!Row.content \in Bytes
    BY <1>0, <2>2, <2>3, PromoteRow
  <2>5. r \in Pr!AuditRow
    BY <2>1, <2>4 DEF Pr!AuditRow, Pr!Outcome
  <2>6. Found(r)'
    BY <1>0, <2>1, <2>2 DEF Found, PromoteKnows, Pr!To
  <2>7. deaths = 0 => \A d \in Dest : inflight[d] = Gone
    BY <2>2, PromoteNoInflight
  <2>. QED
    BY <2>2, <2>3, <2>5, <2>6, <2>7, <1>t, PromoteEndsRow, <1>w

<1>10. CASE Pr!Fails
  <2>1. /\ job.at \in {"open", "copy", "rename"} /\ deaths' \in Nat /\ (deaths' = 0 => deaths = 0)
        /\ inflight' = [inflight EXCEPT ![Pr!To] = Gone]
        /\ UNCHANGED <<file, export, log, claims, plans>>
        /\ \/ pend' = pend /\ job' = [job EXCEPT !.rows = Tail(@), !.at = "row"]
           \/ job' = Pr!Idle /\ pend' = {}
    BY <1>10, <1>t DEF Pr!Fails, Pr!Skips, Pr!outside
  <2>2. job.rows # << >>
    BY <1>0, <2>1 DEF PromoteKnows
  <2>3. Pr!To \in Dest
    BY <1>0, <2>1, <2>2, PromoteRow
  <2>4. inflight' \in [Dest -> Bytes \cup {Bad, Gone}]
    BY <1>t, <2>1, <2>3
  <2>5. deaths' = 0 => deaths = 0 /\ \A d \in Dest : inflight'[d] = Gone
    BY <1>0, <1>t, <2>1, <2>3 DEF PromoteKnows
  <2>6. CASE pend' = pend /\ job' = [job EXCEPT !.rows = Tail(@), !.at = "row"]
    BY <2>1, <2>2, <2>4, <2>5, <2>6, PromoteEndsRow, <1>w
  <2>7. CASE job' = Pr!Idle /\ pend' = {}
    BY <2>1, <2>4, <2>5, <2>7, PromoteEndsApply, <1>w
  <2>. QED
    BY <2>1, <2>6, <2>7
<1>11. CASE Pr!CheckDest
  <2>1. /\ job.at = "row" /\ job.rows # << >> /\ Pr!Row.action = "promote"
        /\ UNCHANGED <<file, inflight, export, log, claims, plans, deaths, pend>>
    BY <1>11 DEF Pr!CheckDest, Pr!At, Pr!disk, Pr!outside, Pr!Skips
  <2>2. Pr!To \in Dest /\ Pr!Row \in Pr!ManifestRow /\ Pr!To \in Pr!Path
    BY <1>0, <2>1, PromoteRow
  <2>3. job \in [at : {"row", "present", "other", "open", "copy", "rename", "renamed"},
                 rows : Seq(Pr!ManifestRow), seen : BOOLEAN, read : SUBSET (Bytes \cup {Gone})]
    BY <1>0, <2>1, PromoteRow
  <2>4. deaths = 0 => \A d \in Dest : inflight[d] = Gone
    BY <2>1, PromoteNoInflight
  <2>5. CASE file[Pr!Row.source] = Gone
    <3>1. pend' = pend /\ job' = [job EXCEPT !.rows = Tail(@), !.at = "row"]
      BY <1>11, <2>5 DEF Pr!CheckDest, Pr!Skips
    <3>. QED
      BY <2>1, <2>4, <3>1, <1>t, PromoteEndsRow, <1>w
  <2>6. CASE file[Pr!Row.source] # Gone
    <3>1. PICK at \in {"open", "present", "other"} :
            /\ job' = [job EXCEPT !.seen = TRUE, !.at = at]
            /\ (at = "open" => file[Pr!To] = Gone) /\ (at = "present" => file[Pr!To] = Pr!Row.content)
      BY <1>11, <2>6 DEF Pr!CheckDest
    <3>2. job' = [at |-> at, rows |-> job.rows, seen |-> TRUE, read |-> job.read]
      BY <2>3, <3>1
    <3>3. job' \in PromoteJob
      BY <2>3, <3>2 DEF PromoteJob
    <3>4. PromoteTypes'
      BY <1>w, <1>0, <2>1, <3>3 DEF PromoteTypes
    <3>5. Pr!Row' = Pr!Row /\ Pr!To' = Pr!To
      BY <3>2 DEF Pr!Row, Pr!To
    <3>6. at = "open" => \A r \in pend \cup log :
            r.action \in {"promote_committed", "promote_skipped"} /\ DestOf[r.source] = Pr!To => ~r.seen
      <4>. SUFFICES ASSUME at = "open", NEW r \in pend \cup log, DestOf[r.source] = Pr!To, r.seen,
                           r.action \in {"promote_committed", "promote_skipped"}
                    PROVE  FALSE
        BY <1>0 DEF PromoteTypes, Pr!AuditRow
      <4>1. r \in Pr!AuditRow
        BY <1>0 DEF PromoteTypes
      <4>2. file[Pr!To] = r.content
        BY <1>0, <4>1 DEF Found
      <4>3. r.content \in Bytes
        BY <4>1 DEF Pr!AuditRow
      <4>. QED
        BY <4>2, <4>3, <3>1, <1>a
    <3>7. PromoteKnows'
      BY <2>1, <2>4, <3>1, <3>2, <3>5, <3>6 DEF PromoteKnows
    <3>8. \A r \in (pend \cup log)' : Found(r)'
      BY <1>0, <2>1 DEF Found
    <3>. QED
      BY <3>4, <3>7, <3>8 DEF PromoteInv
  <2>. QED
    BY <2>5, <2>6
<1>12. CASE Pr!OpenInflight
  <2>1. /\ job.at = "open" /\ UNCHANGED <<file, export, log, claims, plans, deaths, pend>>
        /\ inflight' = [inflight EXCEPT ![Pr!To] = Bad]
        /\ job' = [job EXCEPT !.at = "copy", !.read = {file[Pr!Row.source]}]
    BY <1>12 DEF Pr!OpenInflight, Pr!At, Pr!outside
  <2>2. job.rows # << >> /\ Pr!Row.action = "promote"
    BY <1>0, <2>1 DEF PromoteKnows
  <2>3. Pr!To \in Dest /\ Pr!Row.source \in Pr!Path
    BY <1>0, <2>1, <2>2, PromoteRow
  <2>4. job \in [at : {"row", "present", "other", "open", "copy", "rename", "renamed"},
                 rows : Seq(Pr!ManifestRow), seen : BOOLEAN, read : SUBSET (Bytes \cup {Gone})]
    BY <1>0, <2>1, <2>2, PromoteRow
  <2>5. job' = [at |-> "copy", rows |-> job.rows, seen |-> job.seen, read |-> {file[Pr!Row.source]}]
    BY <2>1, <2>4
  <2>6. file[Pr!Row.source] \in Bytes \cup {Gone}
    BY <1>0, <2>3 DEF PromoteTypes
  <2>7. job' \in PromoteJob
    BY <2>4, <2>5, <2>6 DEF PromoteJob
  <2>8. inflight' \in [Dest -> Bytes \cup {Bad, Gone}]
    BY <1>t, <2>1, <2>3
  <2>9. PromoteTypes'
    BY <1>w, <1>0, <2>1, <2>7, <2>8 DEF PromoteTypes
  <2>10. Pr!Row' = Pr!Row /\ Pr!To' = Pr!To
    BY <2>5 DEF Pr!Row, Pr!To
  <2>11. deaths = 0 => \A d \in Dest : inflight'[d] # Gone => d = Pr!To
    BY <2>1, <1>t, PromoteNoInflight
  <2>12. PromoteKnows'
    BY <1>0, <2>1, <2>2, <2>5, <2>10, <2>11 DEF PromoteKnows
  <2>13. \A r \in (pend \cup log)' : Found(r)'
    BY <1>0, <2>1 DEF Found
  <2>. QED
    BY <2>9, <2>12, <2>13 DEF PromoteInv
<1>13. CASE Pr!Copy
  <2>1. PICK c \in Bytes \cup {Bad, Gone} :
          /\ c # Gone
          /\ IF Pr!Verified(c)
             THEN inflight' = [inflight EXCEPT ![Pr!To] = c] /\ Pr!Goes("rename") /\ UNCHANGED pend
             ELSE inflight' = [inflight EXCEPT ![Pr!To] = Gone] /\ Pr!Records("promote_mismatch")
    <3>1. job.at = "copy"
      BY <1>13 DEF Pr!Copy, Pr!At
    <3>2. job.read \subseteq Bytes \cup {Gone}
      BY <1>t, <3>1 DEF PromoteJob
    <3>. QED
      BY <1>13, <3>2 DEF Pr!Copy
  <2>2. job.at = "copy" /\ UNCHANGED <<file, export, log, claims, plans, deaths>>
    BY <1>13 DEF Pr!Copy, Pr!At, Pr!outside
  <2>3. job.rows # << >> /\ Pr!Row.action = "promote"
    BY <1>0, <2>2 DEF PromoteKnows
  <2>4. Pr!To \in Dest /\ Pr!Row \in Pr!ManifestRow /\ Pr!Row.source \in Source /\ Pr!Row.content \in Bytes
    BY <1>0, <2>2, <2>3, PromoteRow
  <2>5. job \in [at : {"row", "present", "other", "open", "copy", "rename", "renamed"},
                 rows : Seq(Pr!ManifestRow), seen : BOOLEAN, read : SUBSET (Bytes \cup {Gone})]
    BY <1>0, <2>2, <2>3, PromoteRow
  <2>6. CASE Pr!Verified(c)
    <3>1. c = Pr!Row.content /\ inflight' = [inflight EXCEPT ![Pr!To] = c] /\ pend' = pend
          /\ job' = [job EXCEPT !.at = "rename"]
      BY <2>1, <2>6 DEF Pr!Verified, Pr!Goes
    <3>2. job' = [at |-> "rename", rows |-> job.rows, seen |-> job.seen, read |-> job.read]
      BY <2>5, <3>1
    <3>3. job' \in PromoteJob
      BY <2>5, <3>2 DEF PromoteJob
    <3>4. inflight' \in [Dest -> Bytes \cup {Bad, Gone}]
      BY <1>t, <2>4, <3>1
    <3>5. PromoteTypes'
      BY <1>w, <1>0, <2>2, <3>1, <3>3, <3>4 DEF PromoteTypes
    <3>6. Pr!Row' = Pr!Row /\ Pr!To' = Pr!To
      BY <3>2 DEF Pr!Row, Pr!To
    <3>7. deaths = 0 => \A d \in Dest : inflight'[d] # Gone => d = Pr!To
      BY <1>0, <1>t, <2>2, <3>1 DEF PromoteKnows
    <3>8. inflight'[Pr!To] = Pr!Row.content
      BY <1>t, <2>4, <3>1
    <3>9. PromoteKnows'
      BY <1>0, <2>2, <2>3, <3>1, <3>2, <3>6, <3>7, <3>8 DEF PromoteKnows
    <3>10. \A r \in (pend \cup log)' : Found(r)'
      BY <1>0, <2>2, <3>1 DEF Found
    <3>. QED
      BY <3>5, <3>9, <3>10 DEF PromoteInv
  <2>7. CASE ~Pr!Verified(c)
    <3>1. PICK r : r = [action |-> "promote_mismatch", source |-> Pr!Row.source, content |-> Pr!Row.content, seen |-> job.seen]
      OBVIOUS
    <3>2. /\ pend' = pend \cup {r} /\ job' = [job EXCEPT !.rows = Tail(@), !.at = "row"]
          /\ inflight' = [inflight EXCEPT ![Pr!To] = Gone]
      BY <2>1, <2>7, <3>1 DEF Pr!Records
    <3>3. job.seen \in BOOLEAN
      BY <2>5
    <3>4. r \in Pr!AuditRow /\ Found(r)'
      BY <2>4, <3>1, <3>3 DEF Pr!AuditRow, Pr!Outcome, Found
    <3>5. inflight' \in [Dest -> Bytes \cup {Bad, Gone}]
      BY <1>t, <2>4, <3>2
    <3>6. deaths = 0 => \A d \in Dest : inflight'[d] = Gone
      BY <1>0, <1>t, <2>4, <3>2 DEF PromoteKnows
    <3>. QED
      BY <2>2, <2>3, <3>2, <3>4, <3>5, <3>6, <1>t, PromoteEndsRow, <1>w
  <2>. QED
    BY <2>6, <2>7

<1>14. CASE Pr!RenameInflight
  <2>1. /\ job.at = "rename" /\ UNCHANGED <<export, log, claims, plans, deaths, pend>>
        /\ file' = [file EXCEPT ![Pr!To] = inflight[Pr!To]]
        /\ inflight' = [inflight EXCEPT ![Pr!To] = Gone]
        /\ job' = [job EXCEPT !.at = "renamed", !.seen = TRUE]
    BY <1>14 DEF Pr!RenameInflight, Pr!At, Pr!outside
  <2>2. job.rows # << >> /\ Pr!Row.action = "promote" /\ inflight[Pr!To] = Pr!Row.content
    BY <1>0, <2>1 DEF PromoteKnows
  <2>3. Pr!To \in Dest /\ Pr!To \in Pr!Path /\ Pr!Row \in Pr!ManifestRow /\ Pr!Row.content \in Bytes
    BY <1>0, <2>1, <2>2, PromoteRow
  <2>4. job \in [at : {"row", "present", "other", "open", "copy", "rename", "renamed"},
                 rows : Seq(Pr!ManifestRow), seen : BOOLEAN, read : SUBSET (Bytes \cup {Gone})]
    BY <1>0, <2>1, <2>2, PromoteRow
  <2>5. job' = [at |-> "renamed", rows |-> job.rows, seen |-> TRUE, read |-> job.read]
    BY <2>1, <2>4
  <2>6. job' \in PromoteJob
    BY <2>4, <2>5 DEF PromoteJob
  <2>7. inflight' \in [Dest -> Bytes \cup {Bad, Gone}] /\ file' \in [Pr!Path -> Bytes \cup {Gone}]
    BY <1>0, <1>t, <2>1, <2>2, <2>3 DEF PromoteTypes
  <2>8. PromoteTypes'
    BY <1>w, <1>0, <2>1, <2>6, <2>7 DEF PromoteTypes
  <2>9. Pr!Row' = Pr!Row /\ Pr!To' = Pr!To
    BY <2>5 DEF Pr!Row, Pr!To
  <2>10. deaths = 0 => \A d \in Dest : inflight'[d] = Gone
    BY <1>0, <1>t, <2>1, <2>3 DEF PromoteKnows
  <2>11. file'[Pr!To] = Pr!Row.content
    BY <1>0, <2>1, <2>2, <2>3 DEF PromoteTypes
  <2>12. PromoteKnows'
    BY <2>1, <2>2, <2>5, <2>9, <2>10, <2>11 DEF PromoteKnows
  <2>13. ASSUME NEW r \in (pend \cup log)' PROVE Found(r)'
    <3>1. r \in Pr!AuditRow /\ DestOf[r.source] \in Pr!Path /\ Found(r)
      BY <1>0, <1>a, <2>1, <2>13 DEF PromoteTypes, Pr!AuditRow
    <3>2. r.action \in {"promote_committed", "promote_skipped"} /\ r.seen => DestOf[r.source] # Pr!To
      BY <1>0, <2>1, <2>13 DEF PromoteKnows
    <3>3. r.action \in {"promote_committed", "promote_skipped"} /\ r.seen => file'[DestOf[r.source]] = file[DestOf[r.source]]
      BY <1>0, <2>1, <3>1, <3>2 DEF PromoteTypes
    <3>. QED
      BY <2>1, <3>1, <3>3 DEF Found
  <2>. QED
    BY <2>8, <2>12, <2>13 DEF PromoteInv
<1>15. CASE \E p \in Pr!Path, c \in Bytes \cup {Gone} : Pr!Write(p, c)
  <2>1. PICK p \in Pr!Path, c \in Bytes \cup {Gone} : Pr!Write(p, c)
    BY <1>15
  <2>. DEFINE touch(r) == IF DestOf[r.source] = p THEN [r EXCEPT !.seen = FALSE] ELSE r
  <2>2. /\ file' = [file EXCEPT ![p] = c] /\ UNCHANGED <<inflight, export, claims, plans, deaths>>
        /\ (pend \cup log)' = {touch(r) : r \in pend \cup log}
        /\ job' = IF job = Pr!Idle \/ job.rows = << >> THEN job
            ELSE [job EXCEPT !.seen = @ /\ Pr!To # p,
                             !.read = IF Pr!At("copy") /\ Pr!Row.source = p THEN @ \cup {c} ELSE @]
    BY <2>1 DEF Pr!Write
  <2>3. ASSUME NEW r \in pend \cup log
        PROVE  /\ touch(r) \in Pr!AuditRow /\ touch(r).action = r.action /\ touch(r).source = r.source
               /\ touch(r).content = r.content
               /\ touch(r).seen => r.seen /\ DestOf[r.source] # p
    <3>1. r \in Pr!AuditRow
      BY <1>0 DEF PromoteTypes
    <3>2. CASE DestOf[r.source] = p
      <4>1. touch(r) = [action |-> r.action, source |-> r.source, content |-> r.content, seen |-> FALSE]
        BY <3>1, <3>2 DEF Pr!AuditRow
      <4>. HIDE DEF touch
      <4>. QED
        BY <3>1, <4>1 DEF Pr!AuditRow
    <3>3. CASE DestOf[r.source] # p
      BY <3>1, <3>3
    <3>. QED
      BY <3>2, <3>3
  <2>. HIDE DEF touch
  <2>4. (pend \cup log)' \subseteq Pr!AuditRow
    BY <2>2, <2>3
  <2>5. file' \in [Pr!Path -> Bytes \cup {Gone}] /\ \A q \in Pr!Path : q # p => file'[q] = file[q]
    BY <1>0, <2>2 DEF PromoteTypes
  <2>6. ASSUME NEW s \in (pend \cup log)' PROVE Found(s)'
    <3>1. PICK r \in pend \cup log : s = touch(r)
      BY <2>2
    <3>2. r \in Pr!AuditRow /\ DestOf[r.source] \in Pr!Path /\ Found(r)
      BY <1>0, <1>a DEF PromoteTypes, Pr!AuditRow
    <3>. QED
      BY <2>2, <2>3, <2>5, <3>1, <3>2 DEF Found
  <2>7. ASSUME NEW d \in Dest,
               \A r \in pend \cup log :
                 r.action \in {"promote_committed", "promote_skipped"} /\ DestOf[r.source] = d => ~r.seen
        PROVE  \A s \in (pend \cup log)' :
                 s.action \in {"promote_committed", "promote_skipped"} /\ DestOf[s.source] = d => ~s.seen
    BY <2>2, <2>3, <2>7
  <2>8. CASE job = Pr!Idle \/ job.rows = << >>
    <3>1. UNCHANGED job /\ job.at \in {"idle", "row"}
      BY <1>0, <2>2, <2>8 DEF PromoteKnows, Pr!Idle
    <3>2. PromoteTypes'
      BY <1>w, <1>0, <2>2, <2>4, <2>5, <3>1 DEF PromoteTypes
    <3>3. PromoteKnows'
      BY <1>0, <2>2, <3>1 DEF PromoteKnows
    <3>. QED
      BY <2>6, <3>2, <3>3 DEF PromoteInv
  <2>9. CASE job # Pr!Idle /\ job.rows # << >>
    <3>1. job.at # "idle"
      BY <1>t, <2>9 DEF PromoteJob, Pr!Idle
    <3>2. Pr!To \in Dest /\ Pr!To \in Pr!Path
      BY <1>0, <2>9, <3>1, PromoteRow
    <3>3. job \in [at : {"row", "present", "other", "open", "copy", "rename", "renamed"},
                   rows : Seq(Pr!ManifestRow), seen : BOOLEAN, read : SUBSET (Bytes \cup {Gone})]
      BY <1>0, <2>9, <3>1, PromoteRow
    <3>4. PICK read \in SUBSET (Bytes \cup {Gone}) :
            job' = [at |-> job.at, rows |-> job.rows, seen |-> job.seen /\ Pr!To # p, read |-> read]
      BY <2>2, <2>9, <3>3, ZenonT(20)
    <3>5. job' \in PromoteJob
      BY <3>3, <3>4 DEF PromoteJob
    <3>6. PromoteTypes'
      BY <1>w, <1>0, <2>2, <2>4, <2>5, <3>5 DEF PromoteTypes
    <3>7. Pr!Row' = Pr!Row /\ Pr!To' = Pr!To /\ job'.at = job.at /\ job'.rows = job.rows
          /\ (job'.seen => job.seen /\ Pr!To # p)
      BY <3>4 DEF Pr!Row, Pr!To
    <3>8. job'.seen => file'[Pr!To] = file[Pr!To]
      BY <2>5, <3>2, <3>7
    <3>9. PromoteKnows'
      BY <1>0, <2>2, <2>7, <3>2, <3>7, <3>8 DEF PromoteKnows
    <3>. QED
      BY <2>6, <3>6, <3>9 DEF PromoteInv
  <2>. QED
    BY <2>8, <2>9
<1>16. CASE UNCHANGED Pr!vars
  BY <1>1, <1>0, <1>16 DEF Pr!vars, Pr!disk, PromoteTypes
<1>. QED
  BY <1>2, <1>3, <1>4, <1>5, <1>6, <1>7, <1>8, <1>9, <1>10, <1>11, <1>12, <1>13, <1>14, <1>15, <1>16 DEF Pr!Next

(* The property of Promote.                                                   *)
LEMMA PromoteRecorded == PromoteInv => Pr!RecordedIsThere
BY DEF PromoteInv, PromoteKnows, PromoteTypes, Found, Pr!RecordedIsThere, Pr!Idle

(* Nothing of others at a destination is replaced unless it came after the    *)
(* destination was found free.                                                *)
LEMMA PromoteOverwrites ==
  PromoteInv /\ [Pr!Next]_Pr!vars =>
    [\A d \in Dest : writes' = writes /\ file[d] # Gone /\ file'[d] # file[d] => ~job.seen]_Pr!vars
<1>. SUFFICES ASSUME PromoteInv, Pr!Next, NEW d \in Dest, writes' = writes, file[d] # Gone, file'[d] # file[d], job.seen
              PROVE  FALSE
  OBVIOUS
<1>0. PromoteTypes /\ PromoteKnows /\ Dest \subseteq Pr!Path
  BY DEF PromoteInv, Pr!Path
<1>1. CASE Pr!RenameInflight
  <2>1. job.at = "rename" /\ file' = [file EXCEPT ![Pr!To] = inflight[Pr!To]]
    BY <1>1 DEF Pr!RenameInflight, Pr!At
  <2>2. job.rows # << >> /\ file[Pr!To] = Gone
    BY <1>0, <2>1 DEF PromoteKnows
  <2>. QED
    BY <1>0, <2>1, <2>2 DEF PromoteTypes
<1>2. CASE \E p \in Pr!Path, c \in Bytes \cup {Gone} : Pr!Write(p, c)
  <2>1. writes' = writes + 1
    BY <1>2 DEF Pr!Write
  <2>2. writes \in Nat
    BY <1>0 DEF PromoteTypes
  <2>. QED
    BY <2>1, <2>2
<1>3. CASE UNCHANGED file
  BY <1>3
<1>. QED
  BY <1>1, <1>2, <1>3 DEF Pr!Next, Pr!Scan, Pr!Plan, Pr!StartApply, Pr!EndApply, Pr!CheckDest, Pr!RecordPresent, Pr!OpenInflight,
       Pr!Copy, Pr!RecordPromoted, Pr!ExportRow, Pr!Fails, Pr!Kill, Pr!disk

-----------------------------------------------------------------------------
(* The whole composition: a component's state is touched by its own steps.    *)
PlansInv == BacklogInv /\ PromoteInv /\ DedupInv /\ CloudInv

LEMMA PlansSteps ==
  [PlansNext]_<<subject, vars, backlogVars, promoteVars, dedupVars, cloudVars>> =>
    /\ [Bl!Next]_Bl!vars /\ [Pr!Next]_Pr!vars /\ [De!Next]_De!vars /\ [Cl!Next]_Cl!vars
<1>1. UNCHANGED backlogVars => UNCHANGED Bl!vars
  BY DEF backlogVars, Bl!vars
<1>2. UNCHANGED promoteVars => UNCHANGED Pr!vars
  BY DEF promoteVars, Pr!vars
<1>3. UNCHANGED dedupVars => UNCHANGED De!vars
  BY DEF dedupVars, De!vars, De!history
<1>4. UNCHANGED cloudVars => UNCHANGED Cl!vars
  BY DEF cloudVars, Cl!vars
<1>. QED
  BY <1>1, <1>2, <1>3, <1>4 DEF PlansNext

(* The inductive invariants of backlog, promote, dedup and cloud retire hold  *)
(* together, for every apply, fault and write of others.                      *)
THEOREM PlansInvariant == PlansSpec => []PlansInv
<1>1. PlansInit => PlansInv
  BY BacklogInit, PromoteInit, DedupInductive, CloudInit DEF PlansInit, PlansInv
<1>2. PlansInv /\ [PlansNext]_<<subject, vars, backlogVars, promoteVars, dedupVars, cloudVars>> => PlansInv'
  BY PlansSteps, BacklogStep, PromoteStep, DedupInductive, CloudStep DEF PlansInv
<1>. QED
  BY <1>1, <1>2, PTL DEF PlansSpec

(* A plan that the backlog lists as applied has an apply_end in the audit.    *)
THEOREM AppliedWasAppliedHolds == PlansSpec => []AppliedWasApplied
<1>1. PlansInv => AppliedWasApplied
  BY DEF PlansInv, BacklogInv, AppliedWasApplied
<1>. QED
  BY <1>1, PlansInvariant, PTL

(* The listing of the backlog agrees with the record of each plan's last      *)
(* refresh when no other writer of the index interfered.                      *)
THEOREM ListingSettlesHolds == PlansSpec => []ListingSettles
<1>1. PlansInv => ListingSettles
  BY BacklogListing DEF PlansInv, ListingSettles
<1>. QED
  BY <1>1, PlansInvariant, PTL

(* What the audit log says was promoted, or found in place, is on disk.       *)
THEOREM RecordedIsThereHolds == PlansSpec => []RecordedIsThere
<1>1. PlansInv => RecordedIsThere
  BY PromoteRecorded DEF PlansInv, RecordedIsThere
<1>. QED
  BY <1>1, PlansInvariant, PTL

(* Promote replaces no file at a destination that it could have seen.         *)
THEOREM NeverOverwritesHolds == PlansSpec => NeverOverwrites
<1>1. PlansInv /\ [PlansNext]_<<subject, vars, backlogVars, promoteVars, dedupVars, cloudVars>> =>
        [\A d \in Dest : writes' = writes /\ file[d] # Gone /\ file'[d] # file[d] => ~job.seen]_Pr!vars
  BY PlansSteps, PromoteOverwrites DEF PlansInv
<1>. QED
  BY <1>1, PlansInvariant, PTL DEF PlansSpec, NeverOverwrites, Pr!NeverOverwrites

(* A path whose retire is recorded carries no current claim until a scan      *)
(* finds a file there again.                                                  *)
THEOREM RetiredNotCurrentHolds == PlansSpec => []RetiredNotCurrent
<1>1. PlansInv => RetiredNotCurrent
  BY DEF PlansInv, DedupInv, RetiredNotCurrent
<1>. QED
  BY <1>1, PlansInvariant, PTL

(* A file that cloud retire removed is one its row names, with the content    *)
(* the row's kept copy had.                                                   *)
THEOREM RemovedKnowinglyHolds == PlansSpec => []RemovedKnowingly
<1>1. PlansInv => RemovedKnowingly
  BY DEF PlansInv, CloudInv, RemovedKnowingly
<1>. QED
  BY <1>1, PlansInvariant, PTL

(* A content Steward claimed and no other program touched keeps a copy in     *)
(* place, whatever is planned, applied, interrupted, finalized or restored,   *)
(* as long as no policy prefers copies that are not recovered ones.           *)
THEOREM LastCopySafeHolds ==
  ASSUME Unbiased
  PROVE  PlansSpec => []LastCopySafe
<1>1. PlansInit => PlansInv /\ DedupSafe
  BY BacklogInit, PromoteInit, DedupInductive, DedupSafeInit, CloudInit DEF PlansInit, PlansInv
<1>2. PlansInv /\ DedupSafe /\ [PlansNext]_<<subject, vars, backlogVars, promoteVars, dedupVars, cloudVars>>
        => PlansInv' /\ DedupSafe'
  BY PlansSteps, BacklogStep, PromoteStep, DedupInductive, DedupSafeStep, CloudStep DEF PlansInv, DedupInv
<1>3. PlansInv /\ DedupSafe => LastCopySafe
  BY DedupLastCopy DEF PlansInv, DedupInv, LastCopySafe
<1>. QED
  BY <1>1, <1>2, <1>3, PTL DEF PlansSpec
=============================================================================
