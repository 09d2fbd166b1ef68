-------------------------- MODULE AuditChainProofs --------------------------
(* Proofs about AuditChain, for any set of connections and any log length.   *)
EXTENDS AuditChain, TLAPS

-----------------------------------------------------------------------------
(* Sequence facts. *)

(* Appending a row to a sequence of rows gives one whose last hash is its.   *)
LEMMA LastAppend ==
  ASSUME NEW s \in Seq(Row), NEW r \in Row
  PROVE  /\ Append(s, r) \in Seq(Row)
         /\ LastRowHash(Append(s, r)) = r.hash
BY DEF LastRowHash

(* The last hash of a log is a digest. *)
LEMMA LastType ==
  ASSUME NEW s \in Seq(Row)
  PROVE  LastRowHash(s) \in Digest
<1>1. CASE s = << >>
  BY <1>1, AuditAssumption DEF LastRowHash
<1>2. CASE s # << >>
  <2>1. Len(s) \in 1..Len(s)
    BY <1>2
  <2>2. s[Len(s)] \in Row
    BY <2>1
  <2> QED BY <1>2, <2>2 DEF LastRowHash, Row
<1> QED BY <1>1, <1>2

(* A view is the committed log followed by the rows its connection added;    *)
(* adding one more row to those adds it to the view.                         *)
LEMMA ViewAppend ==
  ASSUME NEW s \in Seq(Row), NEW t \in Seq(Row), NEW r \in Row
  PROVE  /\ s \o t \in Seq(Row)
         /\ s \o Append(t, r) = Append(s \o t, r)
         /\ s \o << >> = s
OBVIOUS

-----------------------------------------------------------------------------
(* Type correctness and the write lock. *)

(* append, commit and rollback keep every variable of its type. *)
THEOREM TypeCorrect == Spec => []TypeOK
<1>1. Init => TypeOK
  BY DEF Init, TypeOK
<1>2. TypeOK /\ [Next]_vars => TypeOK'
  <2> SUFFICES ASSUME TypeOK, [Next]_vars PROVE TypeOK'
    OBVIOUS
  <2> USE DEF TypeOK
  <2>1. ASSUME NEW c \in Conn, WriteData(c) PROVE TypeOK'
    BY <2>1 DEF WriteData
  <2>2. ASSUME NEW c \in Conn, ReadTip(c) PROVE TypeOK'
    <3>1. View(c) \in Seq(Row)
      BY DEF View
    <3>2. LastRowHash(View(c)) \in Digest
      BY <3>1, LastType
    <3> QED BY <2>2, <3>2 DEF ReadTip
  <2>3. ASSUME NEW c \in Conn, InsertRow(c) PROVE TypeOK'
    <3>1. NewRow(tip[c], c) \in Row
      BY <2>3, AuditAssumption DEF InsertRow, NewRow, Row
    <3> QED BY <2>3, <3>1 DEF InsertRow
  <2>4. ASSUME NEW c \in Conn, Commit(c) PROVE TypeOK'
    BY <2>4 DEF Commit
  <2>5. ASSUME NEW c \in Conn, Abort(c) PROVE TypeOK'
    BY <2>5 DEF Abort
  <2>6. CASE UNCHANGED vars
    BY <2>6 DEF vars
  <2> QED BY <2>1, <2>2, <2>3, <2>4, <2>5, <2>6 DEF Next
<1> QED BY <1>1, <1>2, PTL DEF Spec

(* At most one connection has uncommitted rows: the one that holds the lock. *)
THEOREM SingleWriter == Spec => []OneWriter
<1>1. Init => OneWriter
  BY DEF Init, OneWriter
<1>2. TypeOK /\ OneWriter /\ [Next]_vars => OneWriter'
  <2> SUFFICES ASSUME TypeOK, OneWriter, [Next]_vars PROVE OneWriter'
    OBVIOUS
  <2> USE DEF TypeOK, OneWriter
  <2>1. ASSUME NEW c \in Conn, WriteData(c) PROVE OneWriter'
    BY <2>1, AuditAssumption DEF WriteData
  <2>2. ASSUME NEW c \in Conn, ReadTip(c) PROVE OneWriter'
    BY <2>2 DEF ReadTip
  <2>3. ASSUME NEW c \in Conn, InsertRow(c) PROVE OneWriter'
    BY <2>3, AuditAssumption DEF InsertRow
  <2>4. ASSUME NEW c \in Conn, Commit(c) PROVE OneWriter'
    BY <2>4 DEF Commit
  <2>5. ASSUME NEW c \in Conn, Abort(c) PROVE OneWriter'
    BY <2>5 DEF Abort
  <2>6. CASE UNCHANGED vars
    BY <2>6 DEF vars
  <2> QED BY <2>1, <2>2, <2>3, <2>4, <2>5, <2>6 DEF Next
<1> QED BY <1>1, <1>2, TypeCorrect, PTL DEF Spec

-----------------------------------------------------------------------------
(* The chain.  The invariant is about what each connection sees: the         *)
(* committed log and its own rows.                                           *)

(* Rows appended under the lock name their predecessor. *)
Chained(s) == \A i \in 1..Len(s) : s[i].actor \in DataFirst => Names(s, i)

(* Every row is hashed and names genesis or an earlier row. *)
RootedSeq(s) ==
  \A i \in 1..Len(s) :
    /\ Hashed(s, i)
    /\ \/ s[i].prev = Genesis
       \/ \E j \in 1..(i - 1) : s[j].hash = s[i].prev

(* h is a hash a row may be chained to. *)
Known(s, h) == h = Genesis \/ \E j \in 1..Len(s) : s[j].hash = h

(* The hash a connection has read is that of a row it still sees, and of the *)
(* last one if it read under the lock.                                       *)
TipInv(c) ==
  tip[c] # None =>
    /\ Known(View(c), tip[c])
    /\ c \in DataFirst => writer = c /\ tip[c] = LastRowHash(View(c))

IInv ==
  /\ TypeOK
  /\ OneWriter
  /\ \A c \in Conn : Chained(View(c)) /\ RootedSeq(View(c)) /\ TipInv(c)

(* The last hash of a log is one its rows may be chained to. *)
LEMMA LastKnown ==
  ASSUME NEW s \in Seq(Row)
  PROVE  Known(s, LastRowHash(s))
<1>1. CASE s = << >>
  BY <1>1 DEF Known, LastRowHash
<1>2. CASE s # << >>
  <2>1. Len(s) \in 1..Len(s)
    BY <1>2
  <2> QED BY <1>2, <2>1 DEF Known, LastRowHash
<1> QED BY <1>1, <1>2

(* A row keeps its place and its predecessor when another row is added. *)
LEMMA AppendKeeps ==
  ASSUME NEW s \in Seq(Row), NEW r \in Row, NEW i \in 1..Len(s)
  PROVE  /\ Append(s, r)[i] = s[i]
         /\ Names(Append(s, r), i) <=> Names(s, i)
         /\ Hashed(Append(s, r), i) <=> Hashed(s, i)
BY DEF Names, Hashed

(* Adding a row to a rooted log, chained to a hash of the log, keeps it      *)
(* rooted.                                                                   *)
LEMMA RootedAppend ==
  ASSUME NEW s \in Seq(Row), NEW h \in Digest, NEW c \in Conn,
         RootedSeq(s), Known(s, h), NewRow(h, c) \in Row
  PROVE  RootedSeq(Append(s, NewRow(h, c)))
<1> DEFINE r == NewRow(h, c)
           t == Append(s, r)
<1>1. Len(t) = Len(s) + 1 /\ t[Len(s) + 1] = r
  OBVIOUS
<1> SUFFICES ASSUME NEW i \in 1..Len(t)
             PROVE  /\ Hashed(t, i)
                    /\ \/ t[i].prev = Genesis
                       \/ \E j \in 1..(i - 1) : t[j].hash = t[i].prev
  BY DEF RootedSeq
<1>2. CASE i \in 1..Len(s)
  <2>1. Hashed(t, i)
    BY <1>2, AppendKeeps DEF RootedSeq
  <2>2. CASE s[i].prev = Genesis
    BY <1>2, <2>1, <2>2, AppendKeeps
  <2>3. ASSUME NEW j \in 1..(i - 1), s[j].hash = s[i].prev
        PROVE  t[j].hash = t[i].prev
    BY <1>2, <2>3, AppendKeeps
  <2> QED BY <1>2, <2>1, <2>2, <2>3 DEF RootedSeq
<1>3. CASE i = Len(s) + 1
  <2>1. Hashed(t, i)
    BY <1>1, <1>3 DEF Hashed, NewRow
  <2>2. t[i].prev = h
    BY <1>1, <1>3 DEF NewRow
  <2>3. ASSUME NEW j \in 1..Len(s), s[j].hash = h
        PROVE  j \in 1..(i - 1) /\ t[j].hash = t[i].prev
    BY <1>3, <2>2, <2>3, AppendKeeps
  <2> QED BY <2>1, <2>2, <2>3 DEF Known
<1> QED BY <1>1, <1>2, <1>3

(* Adding a row keeps a log chained when the row is not one of a locked      *)
(* connection or names the last row.                                         *)
LEMMA ChainedAppend ==
  ASSUME NEW s \in Seq(Row), NEW h \in Digest, NEW c \in Conn,
         Chained(s), NewRow(h, c) \in Row, c \in DataFirst => h = LastRowHash(s)
  PROVE  Chained(Append(s, NewRow(h, c)))
<1> DEFINE r == NewRow(h, c)
           t == Append(s, r)
<1>1. Len(t) = Len(s) + 1 /\ t[Len(s) + 1] = r
  OBVIOUS
<1> SUFFICES ASSUME NEW i \in 1..Len(t), t[i].actor \in DataFirst
             PROVE  Names(t, i)
  BY DEF Chained
<1>2. CASE i \in 1..Len(s)
  BY <1>2, AppendKeeps DEF Chained
<1>3. CASE i = Len(s) + 1
  <2>1. r.actor = c /\ r.prev = h
    BY DEF NewRow
  <2>2. t[i].prev = LastRowHash(s)
    BY <1>1, <1>3, <2>1
  <2>3. CASE s = << >>
    BY <1>3, <2>2, <2>3 DEF Names, LastRowHash
  <2>4. CASE s # << >>
    <3>1. Len(s) \in 1..Len(s) /\ i # 1 /\ i - 1 = Len(s)
      BY <1>3, <2>4
    <3>2. t[i - 1] = s[Len(s)]
      BY <3>1, AppendKeeps
    <3> QED BY <2>2, <2>4, <3>1, <3>2 DEF Names, LastRowHash
  <2> QED BY <2>3, <2>4
<1> QED BY <1>1, <1>2, <1>3

(* What holds of a whole view holds of the committed rows it begins with,    *)
(* and a hash known to those is known to the view.                           *)
LEMMA PrefixKeeps ==
  ASSUME NEW s \in Seq(Row), NEW t \in Seq(Row)
  PROVE  /\ Chained(s \o t) => Chained(s)
         /\ RootedSeq(s \o t) => RootedSeq(s)
         /\ \A h \in Digest : Known(s, h) => Known(s \o t, h)
<1> DEFINE u == s \o t
<1>1. u \in Seq(Row) /\ Len(u) = Len(s) + Len(t) /\ Len(s) \in Nat /\ Len(t) \in Nat
  OBVIOUS
<1>2. \A i \in 1..Len(s) : u[i] = s[i] /\ i \in 1..Len(u)
  BY <1>1
<1> HIDE DEF u
<1>3. ASSUME NEW i \in 1..Len(s)
      PROVE  /\ Names(u, i) <=> Names(s, i)
             /\ Hashed(u, i) <=> Hashed(s, i)
             /\ u[i].actor = s[i].actor /\ u[i].prev = s[i].prev
  <2>1. CASE i = 1
    BY <1>2, <2>1 DEF Names, Hashed
  <2>2. CASE i # 1
    <3>1. i - 1 \in 1..Len(s)
      BY <1>1, <2>2
    <3> QED BY <1>2, <2>2, <3>1 DEF Names, Hashed
  <2> QED BY <2>1, <2>2
<1>4. Chained(u) => Chained(s)
  BY <1>2, <1>3 DEF Chained
<1>5. ASSUME RootedSeq(u), NEW i \in 1..Len(s)
      PROVE  /\ Hashed(s, i)
             /\ \/ s[i].prev = Genesis
                \/ \E j \in 1..(i - 1) : s[j].hash = s[i].prev
  <2>1. /\ Hashed(u, i)
        /\ \/ u[i].prev = Genesis
           \/ \E j \in 1..(i - 1) : u[j].hash = u[i].prev
    BY <1>2, <1>5 DEF RootedSeq
  <2>2. ASSUME NEW j \in 1..(i - 1) PROVE u[j].hash = s[j].hash
    <3>1. j \in 1..Len(s)
      BY <1>1
    <3> QED BY <1>2, <3>1
  <2> QED BY <1>3, <2>1, <2>2
<1>6. ASSUME NEW h \in Digest, Known(s, h) PROVE Known(u, h)
  BY <1>2, <1>6 DEF Known
<1>7. RootedSeq(u) => RootedSeq(s)
  BY <1>5 DEF RootedSeq
<1> QED BY <1>4, <1>6, <1>7 DEF u

(* An empty log, with no transaction open, satisfies the invariant. *)
LEMMA InitInv == Init => IInv
<1> SUFFICES ASSUME Init PROVE IInv
  OBVIOUS
<1>1. TypeOK /\ OneWriter
  BY DEF Init, TypeOK, OneWriter
<1>2. ASSUME NEW c \in Conn PROVE View(c) = << >> /\ tip[c] = None
  BY DEF Init, View
<1>3. ASSUME NEW c \in Conn PROVE Chained(View(c)) /\ RootedSeq(View(c))
  BY <1>2 DEF Chained, RootedSeq
<1> QED BY <1>1, <1>2, <1>3 DEF IInv, TipInv

(* Every step of every connection preserves the invariant. *)
LEMMA NextInv ==
  ASSUME IInv, [Next]_vars, TypeOK', OneWriter'
  PROVE  IInv'
<1> USE DEF IInv, TypeOK
<1>0. ASSUME NEW d \in Conn PROVE View(d) \in Seq(Row)
  BY DEF View
<1>1. ASSUME NEW c \in Conn, WriteData(c) PROVE IInv'
  <2>1. ASSUME NEW d \in Conn
        PROVE  View(d)' = View(d) /\ (writer = d => writer' = d)
    BY <1>1, AuditAssumption DEF WriteData, View
  <2>2. ASSUME NEW d \in Conn PROVE TipInv(d)'
    BY <1>1, <2>1 DEF WriteData, TipInv
  <2>3. ASSUME NEW d \in Conn PROVE Chained(View(d))' /\ RootedSeq(View(d))'
    BY <2>1 DEF Chained, RootedSeq
  <2> QED BY <2>2, <2>3
<1>2. ASSUME NEW c \in Conn, ReadTip(c) PROVE IInv'
  <2>1. ASSUME NEW d \in Conn PROVE View(d)' = View(d) /\ writer' = writer
    BY <1>2 DEF ReadTip, View
  <2>2. Known(View(c), LastRowHash(View(c)))
    BY <1>0, LastKnown
  <2>3. ASSUME NEW d \in Conn PROVE TipInv(d)'
    <3>1. CASE d = c
      <4>1. tip'[c] = LastRowHash(View(c))
        BY <1>2 DEF ReadTip
      <4> QED BY <1>2, <3>1, <2>1, <2>2, <4>1 DEF ReadTip, TipInv
    <3>2. CASE d # c
      <4>1. tip'[d] = tip[d]
        BY <1>2, <3>2 DEF ReadTip
      <4> QED BY <2>1, <4>1 DEF TipInv
    <3> QED BY <3>1, <3>2
  <2>4. ASSUME NEW d \in Conn PROVE Chained(View(d))' /\ RootedSeq(View(d))'
    BY <2>1 DEF Chained, RootedSeq
  <2> QED BY <2>3, <2>4
<1>3. ASSUME NEW c \in Conn, InsertRow(c) PROVE IInv'
  <2> DEFINE r == NewRow(tip[c], c)
  <2>1. tip[c] \in Digest /\ r \in Row
    BY <1>3, AuditAssumption DEF InsertRow, NewRow, Row
  <2>2. View(c)' = Append(View(c), r)
    <3>1. View(c)' = log \o Append(pend[c], r)
      BY <1>3 DEF InsertRow, View
    <3>2. log \o Append(pend[c], r) = Append(log \o pend[c], r)
      BY <2>1, ViewAppend
    <3> QED BY <3>1, <3>2 DEF View
  <2>3. ASSUME NEW d \in Conn, d # c
        PROVE  View(d)' = View(d) /\ tip'[d] = tip[d] /\ (writer = d => writer' = d)
    BY <1>3, <2>3, AuditAssumption DEF InsertRow, View
  <2>4. TipInv(c)
    OBVIOUS
  <2>5. RootedSeq(View(c))'
    <3>1. Known(View(c), tip[c])
      BY <1>3, <2>4 DEF InsertRow, TipInv
    <3> HIDE DEF r
    <3>2. RootedSeq(Append(View(c), NewRow(tip[c], c)))
      BY <1>0, <2>1, <3>1, RootedAppend DEF r
    <3> QED BY <2>2, <3>2 DEF r, RootedSeq
  <2>6. Chained(View(c))'
    <3>1. c \in DataFirst => tip[c] = LastRowHash(View(c))
      BY <1>3, <2>4 DEF InsertRow, TipInv
    <3>2. Chained(Append(View(c), NewRow(tip[c], c)))
      BY <1>0, <2>1, <3>1, ChainedAppend
    <3> QED BY <2>2, <3>2 DEF Chained
  <2>7. TipInv(c)'
    BY <1>3 DEF InsertRow, TipInv
  <2>8. ASSUME NEW d \in Conn, d # c PROVE TipInv(d)'
    BY <2>3, <2>8 DEF TipInv
  <2>9. ASSUME NEW d \in Conn PROVE Chained(View(d))' /\ RootedSeq(View(d))'
    <3>1. CASE d = c
      BY <2>5, <2>6, <3>1
    <3>2. CASE d # c
      <4>1. View(d)' = View(d)
        BY <2>3, <3>2
      <4> QED BY <4>1 DEF Chained, RootedSeq
    <3> QED BY <3>1, <3>2
  <2> QED BY <2>7, <2>8, <2>9
<1>4. ASSUME NEW c \in Conn, Commit(c) PROVE IInv'
  <2>1. ASSUME NEW d \in Conn PROVE View(d)' = View(c)
    <3>1. pend'[d] = << >>
      BY <1>4 DEF Commit, OneWriter
    <3>2. log' = View(c) /\ log' \in Seq(Row)
      BY <1>4 DEF Commit, View
    <3>3. log' \o << >> = log'
      BY <3>2
    <3> QED BY <3>1, <3>2, <3>3 DEF View
  <2>2. ASSUME NEW d \in Conn, tip'[d] # None
        PROVE  /\ d # c /\ d \notin DataFirst
               /\ Known(View(c), tip[d])
    <3>1. d # c /\ tip'[d] = tip[d]
      BY <1>4, <2>2 DEF Commit
    <3>2. pend[d] = << >> /\ writer # d
      BY <1>4, <3>1 DEF Commit, OneWriter
    <3>3. View(d) = log
      BY <3>2 DEF View
    <3>4. Known(log, tip[d])
      BY <2>2, <3>1, <3>3 DEF TipInv
    <3>5. Known(log \o pend[c], tip[d])
      <4>1. tip[d] \in Digest
        BY <2>2, <3>1
      <4> QED BY <3>4, <4>1, PrefixKeeps
    <3> QED BY <2>2, <3>1, <3>2, <3>5 DEF View, TipInv
  <2>3. ASSUME NEW d \in Conn PROVE TipInv(d)'
    <3>1. ASSUME tip'[d] # None PROVE Known(View(d), tip[d])'
      BY <1>4, <2>1, <2>2, <3>1 DEF Commit, Known
    <3> QED BY <2>2, <3>1 DEF TipInv
  <2>4. ASSUME NEW d \in Conn PROVE Chained(View(d))' /\ RootedSeq(View(d))'
    BY <2>1 DEF Chained, RootedSeq
  <2> QED BY <2>3, <2>4
<1>5. ASSUME NEW c \in Conn, Abort(c) PROVE IInv'
  <2>1. ASSUME NEW d \in Conn, d # c
        PROVE  View(d)' = View(d) /\ tip'[d] = tip[d] /\ (writer = d => writer' = d)
    BY <1>5, <2>1 DEF Abort, View
  <2>2. View(c)' = log /\ tip'[c] = None
    BY <1>5 DEF Abort, View
  <2>3. Chained(log) /\ RootedSeq(log)
    <3>1. Chained(log \o pend[c]) /\ RootedSeq(log \o pend[c])
      BY DEF View
    <3> QED BY <3>1, PrefixKeeps
  <2>4. ASSUME NEW d \in Conn
        PROVE  Chained(View(d))' /\ RootedSeq(View(d))' /\ TipInv(d)'
    <3>1. CASE d = c
      <4>1. Chained(View(c))' /\ RootedSeq(View(c))'
        BY <2>2, <2>3 DEF Chained, RootedSeq
      <4> QED BY <2>2, <3>1, <4>1 DEF TipInv
    <3>2. CASE d # c
      <4>1. View(d)' = View(d) /\ tip'[d] = tip[d] /\ (writer = d => writer' = d)
        BY <2>1, <3>2
      <4>2. Chained(View(d))' /\ RootedSeq(View(d))'
        BY <4>1 DEF Chained, RootedSeq
      <4>3. TipInv(d)'
        BY <4>1 DEF TipInv
      <4> QED BY <4>2, <4>3
    <3> QED BY <3>1, <3>2
  <2> QED BY <2>4
<1>6. CASE UNCHANGED vars
  <2>1. ASSUME NEW d \in Conn PROVE View(d)' = View(d)
    BY <1>6 DEF vars, View
  <2>2. ASSUME NEW d \in Conn PROVE Chained(View(d))' /\ RootedSeq(View(d))'
    BY <2>1 DEF Chained, RootedSeq
  <2>3. ASSUME NEW d \in Conn PROVE TipInv(d)'
    BY <1>6, <2>1 DEF vars, TipInv
  <2> QED BY <2>2, <2>3
<1> QED BY <1>1, <1>2, <1>3, <1>4, <1>5, <1>6 DEF Next

(* The invariant holds in every state of every interleaving of append()s. *)
THEOREM Inductive == Spec => []IInv
<1>1. IInv /\ TypeOK' /\ OneWriter' /\ [Next]_vars => IInv'
  BY NextInv
<1> QED BY InitInv, <1>1, TypeCorrect, SingleWriter, PTL DEF Spec

(* A scan's rows always name their predecessor, however many other           *)
(* connections append beside it (walker.py, "The audit chain stays linear    *)
(* because only the parent writes audit rows").                              *)
THEOREM ScansNeverFork == Spec => []LockedAppendsChain
<1>1. IInv => LockedAppendsChain
  <2> SUFFICES ASSUME IInv PROVE Chained(log)
    BY DEF LockedAppendsChain, Chained
  <2>1. CASE Conn = {}
    <3>1. \A r \in Row : FALSE
      BY <2>1 DEF Row
    <3>2. \A i \in 1..Len(log) : log[i] \in Row
      BY DEF IInv, TypeOK
    <3> QED BY <3>1, <3>2 DEF Chained
  <2>2. ASSUME NEW c \in Conn PROVE Chained(log)
    <3>1. log \in Seq(Row) /\ pend[c] \in Seq(Row) /\ Chained(log \o pend[c])
      BY DEF IInv, TypeOK, View
    <3> QED BY <3>1, PrefixKeeps
  <2> QED BY <2>1, <2>2
<1> QED BY <1>1, Inductive, PTL

(* When every connection writes data before its first append, the chain is   *)
(* intact: what connect.py expects of "WAL's serialised-writer model".       *)
THEOREM IntactUnderLock == ASSUME DataFirst = Conn PROVE Spec => []ChainIntact
<1>1. IInv => ChainIntact
  <2> SUFFICES ASSUME IInv, NEW i \in 1..Len(log)
               PROVE  Names(log, i) /\ Hashed(log, i)
    BY DEF ChainIntact, VerifyChain
  <2>1. log[i] \in Row
    BY DEF IInv, TypeOK
  <2>2. PICK c \in Conn : c = log[i].actor
    BY <2>1 DEF Row
  <2>3. log \in Seq(Row) /\ pend[c] \in Seq(Row)
    BY DEF IInv, TypeOK
  <2>4. Chained(log \o pend[c]) /\ RootedSeq(log \o pend[c])
    BY DEF IInv, View
  <2>5. Chained(log) /\ RootedSeq(log)
    BY <2>3, <2>4, PrefixKeeps
  <2> QED BY <2>2, <2>5, DataFirst = Conn DEF Chained, RootedSeq
<1> QED BY <1>1, Inductive, PTL

(* Even when append() races with itself the log is a tree of true histories: *)
(* no committed row is chained to a row that was rolled back.                *)
THEOREM NothingDangles == Spec => []Rooted
<1>1. IInv => Rooted
  <2> SUFFICES ASSUME IInv PROVE RootedSeq(log)
    BY DEF Rooted, RootedSeq
  <2>1. CASE Conn = {}
    <3>1. \A r \in Row : FALSE
      BY <2>1 DEF Row
    <3>2. \A i \in 1..Len(log) : log[i] \in Row
      BY DEF IInv, TypeOK
    <3> QED BY <3>1, <3>2 DEF RootedSeq
  <2>2. ASSUME NEW c \in Conn PROVE RootedSeq(log)
    <3>1. log \in Seq(Row) /\ pend[c] \in Seq(Row) /\ RootedSeq(log \o pend[c])
      BY DEF IInv, TypeOK, View
    <3> QED BY <3>1, PrefixKeeps
  <2> QED BY <2>1, <2>2
<1> QED BY <1>1, Inductive, PTL

-----------------------------------------------------------------------------
(* Transactions.                                                             *)

(* The rows of a transaction are its connection's and each is chained to the *)
(* one before it; the tip read inside a transaction is its last row's.       *)
PendInv(c) ==
  /\ \A i \in 1..Len(pend[c]) : pend[c][i].actor = c
  /\ \A i \in 2..Len(pend[c]) : pend[c][i].prev = pend[c][i - 1].hash
  /\ pend[c] # << >> /\ tip[c] # None => tip[c] = pend[c][Len(pend[c])].hash

TxInv == \A c \in Conn : PendInv(c)

(* What a connection sees ends with the last row of its transaction.         *)
LEMMA LastOfView ==
  ASSUME NEW s \in Seq(Row), NEW t \in Seq(Row), t # << >>
  PROVE  LastRowHash(s \o t) = t[Len(t)].hash
<1>1. Len(s \o t) = Len(s) + Len(t) /\ Len(t) \in 1..Len(t)
  OBVIOUS
<1>2. (s \o t)[Len(s) + Len(t)] = t[Len(t)]
  BY <1>1
<1>3. s \o t # << >>
  BY <1>1
<1> QED BY <1>1, <1>2, <1>3 DEF LastRowHash

(* Transactions stay chains: in every step of every connection.              *)
LEMMA TxNext ==
  ASSUME TypeOK, TxInv, [Next]_vars
  PROVE  TxInv'
<1> USE DEF TypeOK
<1>1. ASSUME NEW c \in Conn, WriteData(c) PROVE TxInv'
  BY <1>1 DEF WriteData, TxInv, PendInv
<1>2. ASSUME NEW c \in Conn, ReadTip(c) PROVE TxInv'
  <2>1. ASSUME NEW d \in Conn, pend[d] # << >>, tip'[d] # None
        PROVE  tip'[d] = pend[d][Len(pend[d])].hash
    <3>1. CASE d = c
      <4>1. LastRowHash(View(c)) = pend[c][Len(pend[c])].hash
        BY <2>1, <3>1, LastOfView DEF View
      <4> QED BY <1>2, <3>1, <4>1 DEF ReadTip
    <3>2. CASE d # c
      BY <1>2, <2>1, <3>2 DEF ReadTip, TxInv, PendInv
    <3> QED BY <3>1, <3>2
  <2>2. pend' = pend
    BY <1>2 DEF ReadTip
  <2> QED BY <2>1, <2>2 DEF TxInv, PendInv
<1>3. ASSUME NEW c \in Conn, InsertRow(c) PROVE TxInv'
  <2>1. PICK r : r = NewRow(tip[c], c)
    OBVIOUS
  <2>2. /\ r.actor = c /\ r.prev = tip[c]
        /\ pend'[c] = Append(pend[c], r) /\ tip'[c] = None /\ tip[c] # None
    BY <1>3, <2>1 DEF InsertRow, NewRow
  <2>3. PICK n \in Nat : n = Len(pend[c])
    OBVIOUS
  <2>4. /\ Len(pend'[c]) = n + 1 /\ pend'[c][n + 1] = r
        /\ \A i \in 1..n : pend'[c][i] = pend[c][i]
    BY <2>2, <2>3
  <2>5. PendInv(c)
    BY DEF TxInv
  <2>6. \A i \in 1..(n + 1) : pend'[c][i].actor = c
    BY <2>2, <2>3, <2>4, <2>5 DEF PendInv
  <2>7. ASSUME NEW i \in 2..(n + 1) PROVE pend'[c][i].prev = pend'[c][i - 1].hash
    <3>1. CASE i \in 2..n
      <4>1. i \in 1..n /\ i - 1 \in 1..n
        BY <3>1
      <4>2. pend[c][i].prev = pend[c][i - 1].hash
        BY <2>3, <2>5, <3>1 DEF PendInv
      <4> QED BY <2>4, <4>1, <4>2
    <3>2. CASE i = n + 1
      <4>1. n \in 1..n /\ i - 1 = n /\ pend[c] # << >>
        BY <2>3, <2>7, <3>2
      <4>2. tip[c] = pend[c][n].hash
        BY <2>2, <2>3, <2>5, <4>1 DEF PendInv
      <4> QED BY <2>2, <2>4, <3>2, <4>1, <4>2
    <3> QED BY <2>3, <3>1, <3>2
  <2>8. PendInv(c)'
    BY <2>2, <2>4, <2>6, <2>7 DEF PendInv
  <2>9. ASSUME NEW d \in Conn, d # c PROVE PendInv(d)'
    <3>1. pend'[d] = pend[d] /\ tip'[d] = tip[d]
      BY <1>3, <2>9 DEF InsertRow
    <3> QED BY <3>1 DEF TxInv, PendInv
  <2> QED BY <2>8, <2>9 DEF TxInv
<1>4. ASSUME NEW c \in Conn, Commit(c) PROVE TxInv'
  <2>1. ASSUME NEW d \in Conn PROVE PendInv(d)'
    <3>1. CASE d = c
      <4>1. pend'[d] = << >>
        BY <1>4, <3>1 DEF Commit
      <4> QED BY <4>1 DEF PendInv
    <3>2. CASE d # c
      <4>1. pend'[d] = pend[d] /\ tip'[d] = tip[d]
        BY <1>4, <3>2 DEF Commit
      <4> QED BY <4>1 DEF TxInv, PendInv
    <3> QED BY <3>1, <3>2
  <2> QED BY <2>1 DEF TxInv
<1>5. ASSUME NEW c \in Conn, Abort(c) PROVE TxInv'
  <2>1. ASSUME NEW d \in Conn PROVE PendInv(d)'
    <3>1. CASE d = c
      <4>1. pend'[d] = << >>
        BY <1>5, <3>1 DEF Abort
      <4> QED BY <4>1 DEF PendInv
    <3>2. CASE d # c
      <4>1. pend'[d] = pend[d] /\ tip'[d] = tip[d]
        BY <1>5, <3>2 DEF Abort
      <4> QED BY <4>1 DEF TxInv, PendInv
    <3> QED BY <3>1, <3>2
  <2> QED BY <2>1 DEF TxInv
<1>6. CASE UNCHANGED vars
  BY <1>6 DEF vars, TxInv, PendInv
<1> QED BY <1>1, <1>2, <1>3, <1>4, <1>5, <1>6 DEF Next

(* A commit publishes one chain of one connection, which continues from a    *)
(* row the readers see: its rows were chained to each other as they were     *)
(* inserted, and the first to a hash that is still known.                    *)
LEMMA CommitPublishes ==
  ASSUME IInv, TxInv, NEW c \in Conn, Commit(c), log' # log
  PROVE  Abstract!Publish
<1>1. PICK s \in Seq(Row), t \in Seq(Row) : s = log /\ t = pend[c]
  BY DEF IInv, TypeOK
<1>2. log' = s \o t
  BY <1>1 DEF Commit
<1>3. t # << >>
  BY <1>1, <1>2
<1>4. PICK n \in Nat, m \in Nat : n = Len(s) /\ m = Len(t)
  OBVIOUS
<1>5. /\ log' \in Seq(Row) /\ Len(log') = n + m /\ m >= 1
      /\ \A i \in 1..n : log'[i] = s[i]
      /\ \A i \in 1..m : log'[n + i] = t[i]
  BY <1>2, <1>3, <1>4
<1>6. /\ \A i \in 1..m : t[i].actor = c
      /\ \A i \in 2..m : t[i].prev = t[i - 1].hash
  BY <1>1, <1>4 DEF TxInv, PendInv
<1>7. RootedSeq(log')
  BY <1>1, <1>2 DEF IInv, View, RootedSeq
<1>8. \A i \in 1..(n + m) :
        /\ log'[i].hash = Hash(log'[i].prev, log'[i].actor)
        /\ log'[i].prev = Genesis \/ \E j \in 1..(i - 1) : log'[j].hash = log'[i].prev
  BY <1>5, <1>7 DEF RootedSeq, Hashed
<1>9. log'[n + 1].prev \in Abstract!Seen
  <2>1. n + 1 \in 1..(n + m) /\ (n + 1) - 1 = n
    BY <1>5
  <2>2. log'[n + 1].prev = Genesis \/ \E j \in 1..n : log'[j].hash = log'[n + 1].prev
    BY <1>8, <2>1
  <2>3. log'[n + 1].prev = Genesis \/ \E j \in 1..n : s[j].hash = log'[n + 1].prev
    BY <1>5, <2>2
  <2> QED BY <1>1, <1>4, <2>3 DEF Abstract!Seen
<1>10. ASSUME NEW i \in (n + 1)..(n + m)
       PROVE  /\ log'[i].actor = log'[n + 1].actor
              /\ log'[i].hash = Hash(log'[i].prev, log'[i].actor)
              /\ i > n + 1 => log'[i].prev = log'[i - 1].hash
  <2>1. i \in 1..(n + m) /\ i - n \in 1..m /\ 1 \in 1..m /\ n + (i - n) = i
    BY <1>5
  <2>2. log'[i] = t[i - n] /\ log'[n + 1] = t[1]
    BY <1>5, <2>1
  <2>3. log'[i].actor = log'[n + 1].actor
    BY <1>6, <2>1, <2>2
  <2>4. ASSUME i > n + 1 PROVE log'[i].prev = log'[i - 1].hash
    <3>1. (i - n) \in 2..m /\ (i - n) - 1 \in 1..m /\ n + ((i - n) - 1) = i - 1
      BY <2>1, <2>4
    <3>2. t[i - n].prev = t[(i - n) - 1].hash
      BY <1>6, <3>1
    <3>3. log'[i - 1] = t[(i - n) - 1]
      BY <1>5, <3>1
    <3> QED BY <2>2, <3>2, <3>3
  <2> QED BY <1>8, <2>1, <2>3, <2>4
<1>11. Len(log) = n /\ Len(log) < Len(log') /\ \A i \in 1..Len(log) : log'[i] = log[i]
  BY <1>1, <1>4, <1>5
<1> QED BY <1>5, <1>9, <1>10, <1>11 DEF Abstract!Publish

(* The SQLite-backed log implements the one its readers are promised: rows   *)
(* arrive in whole transactions, each one chain that continues from a row    *)
(* already there, also when append() races with itself and transactions are  *)
(* rolled back in between.                                                   *)
THEOREM Refines == Spec => AppendOnly
<1>1. Init => Abstract!Init
  BY DEF Init, Abstract!Init
<1>2. Init => TxInv
  <2> SUFFICES ASSUME Init, NEW c \in Conn PROVE PendInv(c)
    BY DEF TxInv
  <2>1. pend[c] = << >>
    BY DEF Init
  <2> QED BY <2>1 DEF PendInv
<1>3. TypeOK /\ TxInv /\ [Next]_vars => TxInv'
  BY TxNext
<1>4. IInv /\ TxInv /\ [Next]_vars => [Abstract!Publish]_log
  <2> SUFFICES ASSUME IInv, TxInv, [Next]_vars, log' # log PROVE Abstract!Publish
    OBVIOUS
  <2>1. PICK c \in Conn : Commit(c)
    BY DEF Next, vars, WriteData, ReadTip, InsertRow, Abort
  <2> QED BY <2>1, CommitPublishes
<1> QED BY <1>1, <1>2, <1>3, <1>4, TypeCorrect, Inductive, PTL DEF Spec, AppendOnly, Abstract!Spec
=============================================================================
