------------------------------ MODULE PlanToken ------------------------------
(* Plan tokens of the MCP surface: apply_dry_run issues a token bound to the  *)
(* digest of the manifest, apply_execute validates it, applies the manifest   *)
(* and consumes it (ADR-0016).                                                *)
(*                                                                            *)
(* Several server processes share the token directory, the manifest and the   *)
(* inventory.  A call is a sequence of separate reads: the digest is taken    *)
(* from the file when the token is issued and again when it is validated, and *)
(* apply_manifest reads the file by itself, before one and after the other.   *)
(* One manifest path and one machine id are modelled; a digest stands for     *)
(* the content it is taken of.                                                *)
EXTENDS Sequences, Naturals, FiniteSets

CONSTANTS Agent,      \* MCP server processes
          Token,      \* token names, never issued twice
          Content,    \* contents the manifest file can have
          First,      \* its first content
          File,       \* source files of manifest rows
          Rows,       \* Rows[c]: the files of c's rows, in order
          Cap,        \* STEWARD_MCP_MAX_FILES_CAP
          TTL,        \* ttl_s
          MaxClock,   \* bound: time
          MaxEdits,   \* bound: changes of the manifest file
          MaxFaults,  \* bound: calls that die, and renames of a token that fail
          None        \* "no token", "no content", max_files of an unbounded dry run

ASSUME PlanTokenAssumption ==
  /\ First \in Content
  /\ Rows \in [Content -> Seq(File)]
  /\ None \notin Agent \cup Token \cup Content \cup Nat
  /\ \A c \in Content, m \in 1..Cap \cup {None} : None # [content |-> c, bound |-> m]
  /\ Cap \in Nat \ {0}
  /\ {TTL, MaxClock, MaxEdits, MaxFaults} \subseteq Nat

(* The fields of a PlanTokenRecord that validation looks at. *)
TokenRecord == [digest : Content, bound : 1..Cap \cup {None}, expires : Nat]

(* A call: content is what apply_manifest read, row its next row, applied its *)
(* rows_applied, max its max_files.                                           *)
Call == [step : {"idle", "dry_run", "valid", "invoked", "applying", "applied"},
         token : Token \cup {None}, max : 1..Cap \cup {None},
         content : Content \cup {None}, row : Nat \ {0}, applied : 0..Cap]

NoCall == [step |-> "idle", token |-> None, max |-> None,
           content |-> None, row |-> 1, applied |-> 0]

VARIABLES
  manifest,  \* the content of the manifest file
  store,     \* store[t]: the file of token t in mcp-plan-tokens, or None
  call,      \* call[a]: the tool call a serves
  lock,      \* the process in an apply transaction, which holds SQLite's write lock
  moved,     \* files some apply has moved
  clock, edits, faults,
  issued,    \* history: the content the dry run of t read and its max_files, or None
  loose,     \* history: tokens whose dry run overlapped an edit of the manifest
  swapped,   \* history: processes whose call overlapped an edit
  uses,      \* history: executions under t that moved a file
  disturbed  \* history: tokens validated for two executions at a time, or whose execution died

vars == <<manifest, store, call, lock, moved, clock, edits, faults,
          issued, loose, swapped, uses, disturbed>>
env == <<clock, edits, faults>>
history == <<issued, loose, uses, disturbed>>

-----------------------------------------------------------------------------
Step(a, s) == call[a].step = s

Return(a) ==
  /\ call' = [call EXCEPT ![a] = NoCall]
  /\ swapped' = swapped \ {a}

(* rows_errored of a dry run of content c with max_files m: a row whose file  *)
(* is gone, among those tried before m rows have applied.                     *)
DryRunErrors(c, m) ==
  LET good(k) == Cardinality({i \in 1..k : Rows[c][i] \notin moved})
  IN {i \in 1..Len(Rows[c]) :
        Rows[c][i] \in moved /\ (m # None => good(i - 1) < m)}

Init ==
  /\ manifest = First
  /\ store = [t \in Token |-> None]
  /\ call = [a \in Agent |-> NoCall]
  /\ lock = None
  /\ moved = {}
  /\ clock = 0 /\ edits = 0 /\ faults = 0
  /\ issued = [t \in Token |-> None]
  /\ loose = {} /\ swapped = {} /\ disturbed = {}
  /\ uses = [t \in Token |-> 0]

-----------------------------------------------------------------------------
(* apply_dry_run. *)

(* apply_manifest with dry_run: it reads the manifest, needs the write lock   *)
(* and rolls back.  With row errors no token is issued and the call is over.  *)
DryRun(a, m) ==
  /\ Step(a, "idle")
  /\ lock = None
  /\ DryRunErrors(manifest, m) = {}
  /\ call' = [call EXCEPT ![a] = [NoCall EXCEPT !.step = "dry_run", !.max = m,
                                               !.content = manifest]]
  /\ UNCHANGED <<manifest, store, lock, moved, env, swapped, history>>

(* issue_plan_token: the digest is that of the file as it is now. *)
IssueToken(a, t) ==
  /\ Step(a, "dry_run")
  /\ issued[t] = None
  /\ store' = [store EXCEPT ![t] = [digest |-> manifest, bound |-> call[a].max,
                                    expires |-> clock + TTL]]
  /\ issued' = [issued EXCEPT ![t] = [content |-> call[a].content, bound |-> call[a].max]]
  /\ loose' = IF a \in swapped THEN loose \cup {t} ELSE loose
  /\ Return(a)
  /\ UNCHANGED <<manifest, lock, moved, env, uses, disturbed>>

-----------------------------------------------------------------------------
(* apply_execute. *)

\* Fault: the digest is not compared.
AcceptsAnyContent(t, n) ==
  /\ store[t] # None
  /\ clock <= store[t].expires
  /\ store[t].bound # None => n <= store[t].bound

(* validate_plan_token, without the branch that unlinks. *)
Accepts(t, n) ==
  /\ store[t] # None
  /\ clock <= store[t].expires
  /\ store[t].digest = manifest
  /\ store[t].bound # None => n <= store[t].bound

Validate(a, t, n) ==
  /\ Step(a, "idle")
  /\ Accepts(t, n)
  /\ call' = [call EXCEPT ![a] = [NoCall EXCEPT !.step = "valid", !.token = t, !.max = n]]
  /\ disturbed' = IF \E b \in Agent : call[b].token = t
                  THEN disturbed \cup {t} ELSE disturbed
  /\ UNCHANGED <<manifest, store, lock, moved, env, swapped, issued, loose, uses>>

(* validate_plan_token of an expired token removes it and refuses. *)
Expire(a, t) ==
  /\ Step(a, "idle")
  /\ store[t] # None
  /\ clock > store[t].expires
  /\ store' = [store EXCEPT ![t] = None]
  /\ UNCHANGED <<manifest, call, lock, moved, env, swapped, history>>

(* record_mcp_write_invoked, a transaction of its own. *)
RecordInvoked(a) ==
  /\ Step(a, "valid")
  /\ lock = None
  /\ call' = [call EXCEPT ![a].step = "invoked"]
  /\ UNCHANGED <<manifest, store, lock, moved, env, swapped, issued, loose, uses, disturbed>>

\* Fault: a refused execution uses the token up.
RefuseConsumes(a) ==
  /\ Step(a, "invoked")
  /\ store' = [store EXCEPT ![call[a].token] = None]
  /\ Return(a)
  /\ UNCHANGED <<manifest, lock, moved, env, history>>

(* apply_manifest refuses at its preflight: the token stays. *)
Refuse(a) ==
  /\ Step(a, "invoked")
  /\ Return(a)
  /\ UNCHANGED <<manifest, store, lock, moved, env, history>>

(* apply_manifest reads the manifest; the apply_start row waits for the lock. *)
ReadManifest(a) ==
  /\ Step(a, "invoked")
  /\ call[a].content = None
  /\ call' = [call EXCEPT ![a].content = manifest]
  /\ UNCHANGED <<manifest, store, lock, moved, env, swapped, history>>

StartApply(a) ==
  /\ Step(a, "invoked")
  /\ call[a].content # None
  /\ lock = None
  /\ lock' = a
  /\ call' = [call EXCEPT ![a].step = "applying"]
  /\ UNCHANGED <<manifest, store, moved, env, swapped, history>>

MoreRows(a) == call[a].row <= Len(Rows[call[a].content]) /\ call[a].applied < call[a].max

(* A row applies when its file is there ... *)
ApplyRow(a) ==
  LET f == Rows[call[a].content][call[a].row]
  IN /\ Step(a, "applying") /\ MoreRows(a)
     /\ f \notin moved
     /\ moved' = moved \cup {f}
     /\ uses' = IF call[a].applied = 0
                THEN [uses EXCEPT ![call[a].token] = @ + 1] ELSE uses
     /\ call' = [call EXCEPT ![a].row = @ + 1, ![a].applied = @ + 1]
     /\ UNCHANGED <<manifest, store, lock, env, swapped, issued, loose, disturbed>>

(* ... and may be refused by its executor in any case (ManifestError,         *)
(* FPUnavailableError, TimeoutError).                                         *)
SkipRow(a) ==
  /\ Step(a, "applying") /\ MoreRows(a)
  /\ call' = [call EXCEPT ![a].row = @ + 1]
  /\ UNCHANGED <<manifest, store, lock, moved, env, swapped, history>>

EndApply(a) ==
  /\ Step(a, "applying") /\ ~MoreRows(a)
  /\ lock' = None
  /\ call' = [call EXCEPT ![a].step = "applied"]
  /\ UNCHANGED <<manifest, store, moved, env, swapped, history>>

\* Fault: the token is left where it is.
ConsumeKeeps(a) ==
  /\ Step(a, "applied")
  /\ Return(a)
  /\ UNCHANGED <<manifest, store, lock, moved, env, history>>

(* consume_plan_token; that the token is gone already is passed over. *)
Consume(a) ==
  /\ Step(a, "applied")
  /\ store' = [store EXCEPT ![call[a].token] = None]
  /\ Return(a)
  /\ UNCHANGED <<manifest, lock, moved, env, history>>

(* The call ends before the token is consumed: an OSError of a row, which     *)
(* apply_manifest does not catch, a rename of the token that fails, which     *)
(* apply_execute does not report, or the process is killed.                   *)
Die(a) ==
  /\ ~Step(a, "idle")
  /\ faults < MaxFaults
  /\ faults' = faults + 1
  /\ lock' = IF lock = a THEN None ELSE lock
  /\ disturbed' = disturbed \cup ({call[a].token} \ {None})
  /\ Return(a)
  /\ UNCHANGED <<manifest, store, moved, clock, edits, issued, loose, uses>>

-----------------------------------------------------------------------------
(* The manifest file is written again. *)
Edit(c) ==
  /\ edits < MaxEdits
  /\ c # manifest
  /\ edits' = edits + 1
  /\ manifest' = c
  /\ swapped' = swapped \cup {a \in Agent : ~Step(a, "idle")}
  /\ UNCHANGED <<store, call, lock, moved, clock, faults, history>>

Tick ==
  /\ clock < MaxClock
  /\ clock' = clock + 1
  /\ UNCHANGED <<manifest, store, call, lock, moved, edits, faults, swapped, history>>

Next ==
  \/ \E a \in Agent :
       \/ \E m \in 1..Cap \cup {None} : DryRun(a, m)
       \/ \E t \in Token : IssueToken(a, t) \/ Expire(a, t)
       \/ \E t \in Token, n \in 1..Cap : Validate(a, t, n)
       \/ RecordInvoked(a) \/ Refuse(a) \/ ReadManifest(a) \/ StartApply(a)
       \/ ApplyRow(a) \/ SkipRow(a) \/ EndApply(a) \/ Consume(a) \/ Die(a)
  \/ \E c \in Content : Edit(c)
  \/ Tick

Spec == Init /\ [][Next]_vars

-----------------------------------------------------------------------------
TypeOK ==
  /\ manifest \in Content
  /\ store \in [Token -> TokenRecord \cup {None}]
  /\ call \in [Agent -> Call]
  /\ lock \in Agent \cup {None}
  /\ moved \subseteq File
  /\ clock \in 0..MaxClock /\ edits \in 0..MaxEdits /\ faults \in 0..MaxFaults
  /\ issued \in [Token -> [content : Content, bound : 1..Cap \cup {None}] \cup {None}]
  /\ loose \subseteq Token /\ disturbed \subseteq Token /\ swapped \subseteq Agent
  /\ uses \in [Token -> Nat]

Executing(a) == call[a].step \in {"applying", "applied"}

(* What an execution applies is what the dry run of its token looked at, as   *)
(* long as nobody writes the manifest while the dry run or the execution is   *)
(* under way (ADR-0016, "Manifest content binding prevents stale or swapped   *)
(* plan files"), and never more rows than that dry run was bounded by, nor    *)
(* than the cap (ADR-0016, 3).                                                *)
AppliesWhatDryRunRead ==
  \A a \in Agent :
    Executing(a) =>
      /\ a \notin swapped /\ call[a].token \notin loose =>
           call[a].content = issued[call[a].token].content
      /\ call[a].applied <= Cap
      /\ issued[call[a].token].bound # None =>
           call[a].applied <= issued[call[a].token].bound

(* A token authorizes one execution that moves files, unless two executions   *)
(* were validated with it at a time or one of them died before the token was  *)
(* consumed: consume_plan_token comes after the apply (ADR-0016,              *)
(* "consume-on-use").                                                         *)
OneShotUndisturbed == \A t \in Token : t \in disturbed \/ uses[t] <= 1

(* A token leaves the store by expiry or by an execution that has ended its   *)
(* apply: refused and failed calls keep it (handlers.py, "Token not consumed  *)
(* - operator can retry after fixing attach state").                          *)
TokenKeptUntilApplied ==
  [][\A t \in Token :
       store[t] # None /\ store'[t] = None =>
         \/ clock > store[t].expires
         \/ \E a \in Agent : Step(a, "applied") /\ call[a].token = t]_vars

(* "plan_token authorizes one MCP apply_execute for this manifest digest"     *)
(* (apply_dry_run, note).                                                     *)
OneShot == \A t \in Token : uses[t] <= 1
=============================================================================
