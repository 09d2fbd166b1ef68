----------------------------- MODULE AuditChain -----------------------------
(* The tamper-evident audit log: repo_audit.append on SQLite connections.    *)
(*                                                                           *)
(* A connection is one that infra/db/connect.py opens: WAL, one writer at a  *)
(* time, and Python's default isolation level, which opens the transaction   *)
(* at the first INSERT or UPDATE and not at a SELECT.  append() is therefore *)
(* two steps, the SELECT of the last row_hash and the INSERT, and only the   *)
(* second one takes the write lock.  Connections in DataFirst write some     *)
(* data row before their first append (a scan inserts its scan_runs row), so *)
(* they hold the lock when they read; the others (apply, the stash commands, *)
(* the MCP write marker) append first and read with no transaction open.     *)
EXTENDS Sequences, Naturals

CONSTANTS Conn,        \* database connections that write audit rows
          DataFirst,   \* those whose transactions begin with a data write
          Digest,      \* values of blake3
          Genesis,     \* prev_hash of the first row
          Hash(_, _),  \* compute_row_hash
          None,        \* "no connection", "no hash read"
          MaxRows      \* bound of the model: rows in the log and in one transaction

ASSUME AuditAssumption ==
  /\ DataFirst \subseteq Conn
  /\ None \notin Conn
  /\ None \notin Digest
  /\ Genesis \in Digest
  /\ MaxRows \in Nat
  /\ \A prev \in Digest, c \in Conn : Hash(prev, c) \in Digest

(* A row: the columns are abstracted to the actor that wrote it. *)
Row == [actor : Conn, prev : Digest, hash : Digest]

VARIABLES log,     \* committed rows of audit_log, in id order
          writer,  \* the connection that holds SQLite's write lock
          pend,    \* pend[c]: rows c inserted and has not committed
          tip      \* tip[c]: the row_hash c has read and not used yet

vars == <<log, writer, pend, tip>>

-----------------------------------------------------------------------------
LastRowHash(rows) == IF rows = << >> THEN Genesis ELSE rows[Len(rows)].hash

NewRow(prev, c) == [actor |-> c, prev |-> prev, hash |-> Hash(prev, c)]

(* What verify_chain asks of row i: it names the row before it and its own   *)
(* hash is the one its columns give.                                         *)
Names(rows, i) ==
  rows[i].prev = IF i = 1 THEN Genesis ELSE rows[i - 1].hash

Hashed(rows, i) == rows[i].hash = Hash(rows[i].prev, rows[i].actor)

VerifyChain(rows) == \A i \in 1..Len(rows) : Names(rows, i) /\ Hashed(rows, i)

(* Faulty variants: bugs of the code that the properties below must notice.  *)

\* append() reads the tip from the committed rows only.
ViewCommittedOnly(c) == log

\* A rolled back connection keeps the hash it read inside the transaction.
AbortKeepsTip(c) ==
  /\ writer = c
  /\ pend' = [pend EXCEPT ![c] = << >>]
  /\ writer' = None
  /\ UNCHANGED <<log, tip>>

-----------------------------------------------------------------------------
(* What a SELECT of c sees: the committed rows, and c's own when it writes.  *)
View(c) == log \o pend[c]

-----------------------------------------------------------------------------
Init ==
  /\ log = << >>
  /\ writer = None
  /\ pend = [c \in Conn |-> << >>]
  /\ tip = [c \in Conn |-> None]

(* The data write that opens a transaction: INSERT INTO scan_runs, UPSERT of *)
(* a permanode.                                                              *)
WriteData(c) ==
  /\ c \in DataFirst
  /\ writer = None
  /\ writer' = c
  /\ UNCHANGED <<log, pend, tip>>

(* _last_row_hash. *)
ReadTip(c) ==
  /\ c \in DataFirst => writer = c
  /\ tip[c] = None
  /\ tip' = [tip EXCEPT ![c] = LastRowHash(View(c))]
  /\ UNCHANGED <<log, writer, pend>>

(* The INSERT of append(): it waits for the write lock, and it uses the hash *)
(* read before the wait.                                                     *)
InsertRow(c) ==
  /\ tip[c] # None
  /\ writer \in {None, c}
  /\ Len(log) + Len(pend[c]) < MaxRows
  /\ writer' = c
  /\ pend' = [pend EXCEPT ![c] = Append(@, NewRow(tip[c], c))]
  /\ tip' = [tip EXCEPT ![c] = None]
  /\ UNCHANGED log

Commit(c) ==
  /\ writer = c
  /\ tip[c] = None
  /\ log' = log \o pend[c]
  /\ pend' = [pend EXCEPT ![c] = << >>]
  /\ writer' = None
  /\ UNCHANGED tip

(* A rollback (apply --dry-run), an exception before the commit, the 60 s    *)
(* busy timeout of a connection that waits for the lock, a killed process.   *)
Abort(c) ==
  /\ writer = c \/ tip[c] # None
  /\ pend' = [pend EXCEPT ![c] = << >>]
  /\ tip' = [tip EXCEPT ![c] = None]
  /\ writer' = IF writer = c THEN None ELSE writer
  /\ UNCHANGED log

Next ==
  \E c \in Conn :
    \/ WriteData(c)
    \/ ReadTip(c)
    \/ InsertRow(c)
    \/ Commit(c)
    \/ Abort(c)

Spec == Init /\ [][Next]_vars

-----------------------------------------------------------------------------
TypeOK ==
  /\ log \in Seq(Row)
  /\ writer \in Conn \cup {None}
  /\ pend \in [Conn -> Seq(Row)]
  /\ tip \in [Conn -> Digest \cup {None}]

(* Only the connection that holds the write lock has rows that are not       *)
(* committed (connect.py: "concurrent readers + a single writer").           *)
OneWriter == \A c \in Conn : pend[c] # << >> => writer = c

(* verify_chain (steward db verify) reports an intact chain.                 *)
ChainIntact == VerifyChain(log)

(* Whatever the interleaving, no row dangles: its hash is right and the      *)
(* prev_hash it carries is genesis or the row_hash of a row BEFORE it in the *)
(* log, so a log that fails verify_chain is a tree of true histories, never  *)
(* a row chained to something that was rolled back.                          *)
Rooted ==
  \A i \in 1..Len(log) :
    /\ Hashed(log, i)
    /\ \/ log[i].prev = Genesis
       \/ \E j \in 1..(i - 1) : log[j].hash = log[i].prev

(* A row appended by a connection that held the write lock when it read the  *)
(* tip names its predecessor: scans cannot fork the chain, whoever else      *)
(* races with them (walker.py: "The audit chain stays linear").              *)
LockedAppendsChain ==
  \A i \in 1..Len(log) : log[i].actor \in DataFirst => Names(log, i)

(* The log is an AuditLog: committed rows are never changed or removed (the  *)
(* triggers of 0001_initial), and a transaction arrives whole, as one chain  *)
(* that continues from a committed row: whoever raced with it for the tip,   *)
(* and whatever was rolled back in between.                                  *)
Abstract == INSTANCE AuditLog WITH rows <- log
AppendOnly == Abstract!Spec
=============================================================================
