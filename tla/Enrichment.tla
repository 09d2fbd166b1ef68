------------------------------ MODULE Enrichment ------------------------------
(* The passes that fill the inventory next to the scanner: import-legacy      *)
(* copies the rows of an older database in batches, classify labels claims by *)
(* a policy, embed stores a vector for every content.  They are processes of  *)
(* their own on one database, which has one writer at a time.                 *)
(*                                                                            *)
(* What a process does under the write lock up to its commit is one step,     *)
(* except for an import, which holds the lock through a batch.  Contents      *)
(* stand for permanodes; what a vector is computed from is left out.          *)
EXTENDS Naturals, Sequences, FiniteSets

CONSTANTS Source,      \* the rows of the older database, in order
          BatchSize,   \* claims between two commits of an import
          Importer, DryRun,        \* imports, those of them that are dry runs
          Classifier, Policy,      \* classify runs and what their policy says
          Relabel,     \* classify runs with reclassify_all
          Embedder,    \* embed runs
          MaxRuns,     \* bound: ids of scan_runs
          MaxFaults,   \* bound: kills, lock timeouts, vectors that fail
          None

Field == {"domain", "classification"}
Row == DOMAIN Source
RunId == 1..MaxRuns
Content == {Source[i].content : i \in Row}
Label == {None} \cup {Source[i].domain : i \in Row} \cup {Policy[c][f] : c \in Classifier, f \in Field}
Claim == [by : Importer, label : [Field -> Label]]
Run == [by : Importer, finished : BOOLEAN, counts : [{"read", "hashed", "skipped", "errors"} -> Nat]]

EnrichmentAssumption ==
  /\ BatchSize \in Nat \ {0} /\ {MaxRuns, MaxFaults} \subseteq Nat
  /\ DryRun \subseteq Importer /\ Relabel \subseteq Classifier
  /\ Importer \cap (Classifier \cup Embedder) = {} /\ Classifier \cap Embedder = {}
  /\ Source \in Seq({Source[i] : i \in Row})
  /\ \A i \in Row : Source[i].kind \in {"file", "member", "noise", "error"}
  /\ \A c \in Classifier : Field \subseteq DOMAIN Policy[c]
  /\ None \notin Importer \cup Classifier \cup Embedder \cup RunId \cup Claim \cup Run

VARIABLES db,       \* what is committed: runs, claims, embeddings, embeddings_vec
          tx,       \* the batch of the import that holds the write lock
          lock,     \* that import
          import,   \* import[i]: how far i is
          listed,   \* listed[p]: what a classify or embed run selected, once it has
          unvectored,  \* contents whose vector failed last
          ended, faults

vars == <<db, tx, lock, import, listed, unvectored, ended, faults>>

-----------------------------------------------------------------------------
Counts == [read |-> 0, hashed |-> 0, skipped |-> 0, errors |-> 0]
Init ==
  /\ db = [runs |-> [n \in RunId |-> None], claims |-> [k \in Row \X RunId |-> None],
           rows |-> {}, vecs |-> {}]
  /\ tx = None /\ lock = None /\ unvectored = {} /\ ended = {} /\ faults = 0
  /\ import = [i \in Importer |-> [run |-> None, next |-> 1, batch |-> 0, counts |-> Counts]]
  /\ listed = [p \in Classifier \cup Embedder |-> None]

(* What a process sees of the database.                                       *)
View(p) == IF lock = p THEN tx ELSE db
MayWrite(p) == lock \in {None, p} /\ p \notin ended
Hold(i, view) == lock' = i /\ tx' = view /\ UNCHANGED db
Commit(view) == db' = view /\ lock' = None /\ tx' = None

-----------------------------------------------------------------------------
(* import-legacy.                                                             *)
(* The scan_runs row and legacy_import_start.                                 *)
StartImport(i) ==
  /\ MayWrite(i) /\ lock = None /\ import[i].run = None
  /\ \E n \in RunId :
       /\ db.runs[n] = None /\ \A m \in 1..(n - 1) : db.runs[m] # None
       /\ import' = [import EXCEPT ![i].run = n]
       /\ Hold(i, [db EXCEPT !.runs[n] = [by |-> i, finished |-> FALSE, counts |-> Counts]])
  /\ UNCHANGED <<listed, unvectored, ended, faults>>

Reading(i) == import[i].run # None /\ import[i].next <= Len(Source)
Counted(j, what) ==
  [j EXCEPT !.next = @ + 1, !.counts.read = @ + 1, !.counts.hashed = IF what = "hashed" THEN @ + 1 ELSE @,
            !.counts.skipped = IF what = "skipped" THEN @ + 1 ELSE @,
            !.counts.errors = IF what = "error" THEN @ + 1 ELSE @]

(* A row without a hash, or of a path that is never wanted.                   *)
PassOver(i) ==
  LET kind == Source[import[i].next].kind IN
  /\ Reading(i) /\ i \notin ended /\ kind \in {"noise", "error"}
  /\ import' = [import EXCEPT ![i] = Counted(@, IF kind = "noise" THEN "skipped" ELSE kind)]
  /\ UNCHANGED <<db, tx, lock, listed, unvectored, ended, faults>>

(* The insert of a claim fails without its run, which a dry run has rolled    *)
(* back with its first batch, and for a member that the run has already.      *)
Inserts(view, run, next) ==
  /\ view.runs[run] # None
  /\ Source[next].kind = "member" =>
       \A j \in 1..(next - 1) : Source[j].path = Source[next].path => view.claims[<<j, run>>] = None

\* Fault: a full batch is committed by a dry run too.
EndBatchAlways(i, view) == Commit(view)

(* A full batch is committed; that of a dry run is rolled back.               *)
EndBatch(i, view) == Commit(IF i \in DryRun THEN db ELSE view)

ImportRow(i) ==
  LET j == import[i]
      row == Source[j.next]
      view == View(i)
      claim == [by |-> i, label |-> [domain |-> row.domain, classification |-> None]]
      full == j.batch + 1 = BatchSize
  IN  /\ Reading(i) /\ MayWrite(i) /\ row.kind \in {"file", "member"}
      /\ IF Inserts(view, j.run, j.next)
         THEN LET added == [view EXCEPT !.claims[<<j.next, j.run>>] = claim] IN
              /\ import' = [import EXCEPT ![i] = [Counted(j, "hashed") EXCEPT
                                                   !.batch = IF full THEN 0 ELSE @ + 1]]
              /\ IF full THEN EndBatch(i, added) ELSE Hold(i, added)
         ELSE import' = [import EXCEPT ![i] = Counted(j, "skipped")] /\ Hold(i, view)
      /\ UNCHANGED <<listed, unvectored, ended, faults>>

(* The run is finished with its counts; nothing of a dry run stays.           *)
FinishImport(i) ==
  LET j == import[i]
      view == View(i)
      closed == IF view.runs[j.run] = None THEN view
                ELSE [view EXCEPT !.runs[j.run] = [@ EXCEPT !.finished = TRUE, !.counts = j.counts]]
  IN  /\ j.run # None /\ ~Reading(i) /\ MayWrite(i)
      /\ ended' = ended \cup {i}
      /\ Commit(IF i \in DryRun THEN db ELSE closed)
      /\ UNCHANGED <<import, listed, unvectored, faults>>

-----------------------------------------------------------------------------
(* classify: select, then update what was selected and commit.                *)
Select(c) ==
  /\ c \notin ended /\ listed[c] = None
  /\ listed' = [listed EXCEPT ![c] =
       {k \in Row \X RunId : db.claims[k] # None
          /\ (c \in Relabel \/ \E f \in Field : db.claims[k].label[f] = None)}]
  /\ UNCHANGED <<db, tx, lock, import, unvectored, ended, faults>>

\* Fault: the updates trust the selection.
LabeledAnyway(c, label) ==
  [f \in Field |-> IF Policy[c][f] # None THEN Policy[c][f] ELSE label[f]]

(* A field is written if the policy says something, and it is NULL or all are *)
(* to be labelled again.                                                      *)
Labeled(c, label) ==
  [f \in Field |-> IF Policy[c][f] # None /\ (label[f] = None \/ c \in Relabel)
                   THEN Policy[c][f] ELSE label[f]]

Classify(c) ==
  /\ MayWrite(c) /\ listed[c] # None
  /\ Commit([db EXCEPT !.claims = [k \in Row \X RunId |->
       LET claim == db.claims[k] IN
       IF k \in listed[c] THEN [claim EXCEPT !.label = Labeled(c, @)] ELSE claim]])
  /\ ended' = ended \cup {c}
  /\ UNCHANGED <<import, listed, unvectored, faults>>

-----------------------------------------------------------------------------
(* embed.                                                                     *)
(* The contents without a row of this model, or every one of them.            *)
SelectContents(e) ==
  /\ e \notin ended /\ listed[e] = None
  /\ \E all \in BOOLEAN :
       listed' = [listed EXCEPT ![e] =
         [had |-> db.rows,
          left |-> {x \in Content : (all \/ x \notin db.rows)
                      /\ \E k \in Row \X RunId : db.claims[k] # None /\ Source[k[1]].content = x}]]
  /\ UNCHANGED <<db, tx, lock, import, unvectored, ended, faults>>

(* A write that waits too long for the lock counts as an error.               *)
WaitTooLong(e) ==
  /\ e \notin ended /\ listed[e] # None /\ lock # None /\ faults < MaxFaults
  /\ \E x \in listed[e].left : listed' = [listed EXCEPT ![e].left = @ \ {x}]
  /\ faults' = faults + 1
  /\ UNCHANGED <<db, tx, lock, import, unvectored, ended>>

(* The embeddings row is inserted, or kept if it was seen; its vector is      *)
(* deleted and inserted.  The first row was looked for before the wait for    *)
(* the lock: another run may have inserted it, and then this one fails.       *)
Embed(e) ==
  /\ MayWrite(e) /\ listed[e] # None
  /\ LET left == listed[e].left IN
     \E late \in SUBSET {x \in left : x \in db.rows /\ x \notin listed[e].had}, bad \in SUBSET left :
       /\ Cardinality(late) <= 1 /\ faults + Cardinality(bad) <= MaxFaults
       /\ faults' = faults + Cardinality(bad)
       /\ LET done == left \ late IN
          /\ Commit([db EXCEPT !.rows = @ \cup done, !.vecs = (@ \ done) \cup (done \ bad)])
          /\ unvectored' = (unvectored \ done) \cup (bad \cap done)
  /\ ended' = ended \cup {e}
  /\ UNCHANGED <<import, listed>>

-----------------------------------------------------------------------------
(* A process is killed, or gives up waiting for the lock: its batch is gone.  *)
Die(p) ==
  /\ p \notin ended /\ faults < MaxFaults
  /\ p \in Importer => import[p].run # None
  /\ faults' = faults + 1 /\ ended' = ended \cup {p}
  /\ IF lock = p THEN Commit(db) ELSE UNCHANGED <<db, tx, lock>>
  /\ UNCHANGED <<import, listed, unvectored>>

Next ==
  \/ \E i \in Importer : StartImport(i) \/ PassOver(i) \/ ImportRow(i) \/ FinishImport(i)
  \/ \E c \in Classifier : Select(c) \/ Classify(c)
  \/ \E e \in Embedder : SelectContents(e) \/ WaitTooLong(e) \/ Embed(e)
  \/ \E p \in Importer \cup Classifier \cup Embedder : Die(p)

Spec == Init /\ [][Next]_vars

-----------------------------------------------------------------------------
(* Whatever was killed and whoever else wrote: a committed claim has its run, *)
(* of the same import, and none is a dry run's, though its batches are rolled *)
(* back one by one; a finished run has counted every row of the source and    *)
(* has the claims it counts; a content without a vector failed to get one.    *)
CommittedWhole ==
  LET Of(n) == {k \in Row \X {n} : db.claims[k] # None} IN
  /\ \A n \in RunId : LET run == db.runs[n] IN
       IF run = None THEN Of(n) = {}
       ELSE /\ run.by \notin DryRun
            /\ \A k \in Of(n) : db.claims[k].by = run.by
            /\ run.finished => LET c == run.counts IN
                 /\ c.hashed = Cardinality(Of(n)) /\ c.read = Len(Source)
                 /\ c.read = c.hashed + c.skipped + c.errors
  /\ db.vecs \subseteq db.rows /\ db.rows \ db.vecs \subseteq unvectored

(* A label that an import or a run before it has given is changed only by a   *)
(* run that labels all again, however long ago the claim was selected.        *)
LabelsKept ==
  [][\A k \in Row \X RunId : \A f \in Field :
       db.claims[k] # None => LET old == db.claims[k].label[f] IN
         \/ old \in {None, db'.claims[k].label[f]}
         \/ \E c \in Relabel \cap (ended' \ ended) : db'.claims[k].label[f] = Policy[c][f]]_vars
=============================================================================
