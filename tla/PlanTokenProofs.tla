--------------------------- MODULE PlanTokenProofs ---------------------------
(* Proofs about module PlanToken, for any server processes, tokens, manifests *)
(* and bounds.                                                                *)
EXTENDS PlanToken, TLAPS

-----------------------------------------------------------------------------
(* What the fields of a call are at each of its steps.                        *)
Shaped(c) ==
  /\ c.step = "idle" => c.content = None
  /\ c.step \in {"idle", "dry_run"} => c.token = None
  /\ c.step \notin {"idle", "dry_run"} => c.token \in Token /\ c.max \in 1..Cap /\ c.applied <= c.max
  /\ c.step \in {"idle", "dry_run", "valid", "invoked"} => c.applied = 0
  /\ c.step \in {"dry_run", "applying", "applied"} => c.content \in Content

Calls == \A a \in Agent : Shaped(call[a])

(* A token in the store, or in a call, was issued, and to what the dry run    *)
(* was bound; a call that met no edit has read the manifest as it is now.     *)
Bound ==
  /\ \A t \in Token : store[t] # None =>
       /\ issued[t] # None /\ store[t].bound = issued[t].bound
       /\ t \notin loose => store[t].digest = issued[t].content
  /\ \A a \in Agent : call[a].token # None =>
       /\ issued[call[a].token] # None
       /\ issued[call[a].token].bound # None => call[a].max <= issued[call[a].token].bound
       /\ a \notin swapped /\ call[a].token \notin loose => issued[call[a].token].content = manifest
  /\ \A a \in Agent : a \notin swapped /\ call[a].content # None => call[a].content = manifest

(* A token that is not disturbed is in one call at most, and is used up when  *)
(* the call that has used it ends.                                            *)
Once ==
  /\ \A t \in Token : issued[t] = None => uses[t] = 0
  /\ \A t \in Token \ disturbed :
       /\ uses[t] <= 1
       /\ \A a, b \in Agent : call[a].token = t /\ call[b].token = t => a = b
       /\ \A a \in Agent : call[a].token = t /\ call[a].applied = 0 => uses[t] = 0
       /\ uses[t] > 0 /\ store[t] # None =>
            \E a \in Agent : call[a].token = t /\ call[a].applied > 0

IInv == TypeOK /\ Calls /\ Bound /\ Once

Act(a) ==
  \/ \E m \in 1..Cap \cup {None} : DryRun(a, m)
  \/ \E t \in Token : IssueToken(a, t) \/ Expire(a, t)
  \/ \E t \in Token, n \in 1..Cap : Validate(a, t, n)
  \/ RecordInvoked(a) \/ Refuse(a) \/ ReadManifest(a) \/ StartApply(a)
  \/ ApplyRow(a) \/ SkipRow(a) \/ EndApply(a) \/ Consume(a) \/ Die(a)

-----------------------------------------------------------------------------
(* The record of no call is a call. *)
LEMMA Idle == NoCall \in Call /\ Shaped(NoCall)
BY PlanTokenAssumption DEF NoCall, Call, Shaped

(* The invariant holds at first. *)
LEMMA InitInv == Init => IInv
<1>. SUFFICES ASSUME Init PROVE IInv
  OBVIOUS
<1>0. First \in Content /\ {MaxClock, MaxEdits, MaxFaults} \subseteq Nat
  BY PlanTokenAssumption
<1>1. TypeOK
  <2>1. clock \in 0..MaxClock /\ edits \in 0..MaxEdits /\ faults \in 0..MaxFaults
    BY <1>0 DEF Init
  <2>2. store \in [Token -> TokenRecord \cup {None}]
    BY DEF Init
  <2>3. issued \in [Token -> [content : Content, bound : 1..Cap \cup {None}] \cup {None}]
    BY DEF Init
  <2>4. call \in [Agent -> Call] /\ uses \in [Token -> Nat]
    BY Idle DEF Init
  <2>. QED BY <1>0, <2>1, <2>2, <2>3, <2>4 DEF Init, TypeOK
<1>2. Calls
  BY Idle DEF Init, Calls
<1>3. /\ \A t \in Token : store[t] = None /\ uses[t] = 0
      /\ \A a \in Agent : call[a].token = None /\ call[a].content = None
  BY DEF Init, NoCall
<1>4. None \notin Token
  BY PlanTokenAssumption
<1>5. Bound
  BY <1>3 DEF Bound
<1>6. Once
  BY <1>3, <1>4 DEF Once
<1>. QED BY <1>1, <1>2, <1>5, <1>6 DEF IInv

(* The call of one process changes, to one with the right fields.             *)
LEMMA NextCall ==
  ASSUME TypeOK, Calls, NEW a \in Agent, Act(a)
  PROVE  /\ \A b \in Agent \ {a} : call'[b] = call[b]
         /\ DOMAIN call' = Agent /\ call' = [b \in Agent |-> call'[b]]
         /\ call'[a] \in Call /\ Shaped(call'[a])
<1>0. call[a] \in Call /\ Shaped(call[a]) /\ Cap \in Nat \ {0} /\ call \in [Agent -> Call]
  BY PlanTokenAssumption DEF TypeOK, Calls
<1>1. CASE \E m \in 1..Cap \cup {None} : DryRun(a, m)
  <2>1. PICK m \in 1..Cap \cup {None} :
          call' = [call EXCEPT ![a] = [NoCall EXCEPT !.step = "dry_run", !.max = m, !.content = manifest]]
    BY <1>1 DEF DryRun
  <2>2. call'[a] = [step |-> "dry_run", token |-> None, max |-> m,
                    content |-> manifest, row |-> 1, applied |-> 0]
    BY <1>0, <2>1 DEF NoCall
  <2>3. manifest \in Content
    BY DEF TypeOK
  <2>4. call'[a] \in Call /\ Shaped(call'[a])
    BY <1>0, <2>2, <2>3 DEF Call, Shaped
  <2>. QED BY <1>0, <2>1, <2>4
<1>2. CASE \E t \in Token, n \in 1..Cap : Validate(a, t, n)
  <2>1. PICK t \in Token, n \in 1..Cap :
          call' = [call EXCEPT ![a] = [NoCall EXCEPT !.step = "valid", !.token = t, !.max = n]]
    BY <1>2 DEF Validate
  <2>2. call'[a] = [step |-> "valid", token |-> t, max |-> n,
                    content |-> None, row |-> 1, applied |-> 0]
    BY <1>0, <2>1 DEF NoCall
  <2>3. call'[a] \in Call /\ Shaped(call'[a])
    BY <1>0, <2>2 DEF Call, Shaped
  <2>. QED BY <1>0, <2>1, <2>3
<1>3. CASE (\E t \in Token : IssueToken(a, t)) \/ Refuse(a) \/ Consume(a) \/ Die(a)
  BY <1>0, <1>3, Idle DEF IssueToken, Refuse, Consume, Die, Return
<1>4. CASE \E t \in Token : Expire(a, t)
  BY <1>0, <1>4 DEF Expire
<1>5. CASE RecordInvoked(a)
  BY <1>0, <1>5 DEF RecordInvoked, Step, Call, Shaped
<1>6. CASE ReadManifest(a)
  BY <1>0, <1>6 DEF ReadManifest, Step, Call, Shaped, TypeOK
<1>7. CASE StartApply(a)
  BY <1>0, <1>7 DEF StartApply, Step, Call, Shaped
<1>8. CASE ApplyRow(a)
  <2>1. call' = [call EXCEPT ![a].row = @ + 1, ![a].applied = @ + 1]
        /\ call[a].step = "applying" /\ call[a].applied < call[a].max
    BY <1>8 DEF ApplyRow, Step, MoreRows
  <2>2. call[a].max \in 1..Cap /\ call[a].applied \in 0..Cap /\ call[a].row \in Nat \ {0}
    BY <1>0, <2>1 DEF Shaped, Call
  <2>3. call[a].applied + 1 \in 0..Cap /\ call[a].applied + 1 <= call[a].max
    BY <1>0, <2>1, <2>2
  <2>. QED BY <1>0, <2>1, <2>2, <2>3 DEF Call, Shaped
<1>9. CASE SkipRow(a) \/ EndApply(a)
  BY <1>0, <1>9 DEF SkipRow, EndApply, Step, Call, Shaped
<1>. QED BY <1>1, <1>2, <1>3, <1>4, <1>5, <1>6, <1>7, <1>8, <1>9 DEF Act

(* Every step is a step of one process, an edit, a tick or none.              *)
LEMMA Steps ==
  ASSUME [Next]_vars
  PROVE  (\E a \in Agent : Act(a)) \/ (\E c \in Content : Edit(c)) \/ Tick \/ UNCHANGED vars
BY DEF Next, Act

(* Every step keeps the types, and the fields of the calls. *)
LEMMA NextTypes ==
  ASSUME TypeOK, Calls, [Next]_vars
  PROVE  TypeOK' /\ Calls'
<1>0. {TTL, MaxClock, MaxEdits, MaxFaults} \subseteq Nat
  BY PlanTokenAssumption
<1>1. ASSUME NEW a \in Agent, Act(a) PROVE TypeOK' /\ Calls'
  <2>0. /\ \A b \in Agent \ {a} : call'[b] = call[b]
        /\ DOMAIN call' = Agent /\ call' = [b \in Agent |-> call'[b]]
        /\ call'[a] \in Call /\ Shaped(call'[a])
    BY <1>1, NextCall
  <2>1. call' \in [Agent -> Call] /\ Calls'
    <3>1. \A b \in Agent : call'[b] \in Call /\ Shaped(call'[b])
      BY <2>0 DEF TypeOK, Calls
    <3>. QED BY <2>0, <3>1 DEF Calls
  <2>2. CASE \E t \in Token : IssueToken(a, t)
    <3>1. PICK t \in Token : IssueToken(a, t)
      BY <2>2
    <3>2. manifest \in Content /\ call[a].content \in Content /\ call[a].max \in 1..Cap \cup {None}
          /\ clock + TTL \in Nat
      BY <1>0, <3>1 DEF IssueToken, Step, Calls, Shaped, TypeOK, Call
    <3>3. store' \in [Token -> TokenRecord \cup {None}]
      BY <3>1, <3>2 DEF IssueToken, TypeOK, TokenRecord
    <3>4. issued' \in [Token -> [content : Content, bound : 1..Cap \cup {None}] \cup {None}]
      BY <3>1, <3>2 DEF IssueToken, TypeOK
    <3>. QED BY <2>1, <3>1, <3>3, <3>4 DEF IssueToken, Return, env, TypeOK
  <2>3. CASE \E t \in Token, n \in 1..Cap : Validate(a, t, n)
    BY <2>1, <2>3 DEF Validate, env, TypeOK
  <2>4. CASE (\E t \in Token : Expire(a, t)) \/ Consume(a)
    BY <2>1, <2>4 DEF Expire, Consume, Return, env, history, TypeOK
  <2>5. CASE ApplyRow(a)
    <3>1. call[a].content \in Content /\ call[a].row \in 1..Len(Rows[call[a].content])
      BY <2>5, PlanTokenAssumption DEF ApplyRow, Step, MoreRows, Calls, Shaped, TypeOK, Call
    <3>2. Rows[call[a].content][call[a].row] \in File
      BY <3>1, PlanTokenAssumption
    <3>3. moved' \subseteq File
      BY <2>5, <3>2 DEF ApplyRow, TypeOK
    <3>4. uses' \in [Token -> Nat]
      <4>1. uses' = uses \/ uses' = [uses EXCEPT ![call[a].token] = @ + 1]
        BY <2>5 DEF ApplyRow
      <4>2. uses \in [Token -> Nat] /\ \A n \in Nat : n + 1 \in Nat
        BY DEF TypeOK
      <4>. QED BY <4>1, <4>2
    <3>. QED BY <2>1, <2>5, <3>3, <3>4 DEF ApplyRow, env, TypeOK
  <2>6. CASE Die(a)
    <3>1. faults' \in 0..MaxFaults /\ lock' \in Agent \cup {None} /\ swapped' \subseteq Agent
      BY <1>0, <2>6 DEF Die, Return, TypeOK
    <3>2. disturbed' \subseteq Token
      BY <2>6 DEF Die, TypeOK, Call
    <3>. QED BY <2>1, <2>6, <3>1, <3>2 DEF Die, TypeOK
  <2>7. CASE (\E m \in 1..Cap \cup {None} : DryRun(a, m)) \/ RecordInvoked(a) \/ Refuse(a)
             \/ ReadManifest(a) \/ StartApply(a) \/ SkipRow(a) \/ EndApply(a)
    BY <2>1, <2>7 DEF DryRun, RecordInvoked, Refuse, ReadManifest, StartApply, SkipRow, EndApply,
                      Return, env, history, TypeOK
  <2>. QED BY <1>1, <2>2, <2>3, <2>4, <2>5, <2>6, <2>7 DEF Act
<1>2. ASSUME NEW c \in Content, Edit(c) PROVE TypeOK' /\ Calls'
  BY <1>0, <1>2 DEF Edit, history, TypeOK, Calls
<1>3. CASE Tick
  BY <1>0, <1>3 DEF Tick, history, TypeOK, Calls
<1>4. CASE UNCHANGED vars
  BY <1>4 DEF vars, TypeOK, Calls
<1>. QED BY <1>1, <1>2, <1>3, <1>4, Steps

(* A token stays bound to what its dry run read. *)
LEMMA NextBound ==
  ASSUME TypeOK, Calls, Bound, [Next]_vars
  PROVE  Bound'
<1>1. ASSUME NEW a \in Agent, Act(a) PROVE Bound'
  <2>0. /\ \A b \in Agent \ {a} : call'[b] = call[b]
        /\ call[a] \in Call /\ Shaped(call[a]) /\ call \in [Agent -> Call]
    BY <1>1, NextCall DEF TypeOK, Calls
  <2>1. CASE \E m \in 1..Cap \cup {None} : DryRun(a, m)
    <3>1. /\ call'[a].token = None /\ call'[a].content = manifest
          /\ UNCHANGED <<manifest, store, issued, loose, swapped>>
      BY <2>0, <2>1 DEF DryRun, NoCall, history
    <3>. QED BY <2>0, <3>1 DEF Bound
  <2>2. CASE \E t \in Token : IssueToken(a, t)
    <3>1. PICK t \in Token : IssueToken(a, t)
      BY <2>2
    <3>2. /\ issued[t] = None /\ call[a].content \in Content /\ call[a].max \in 1..Cap \cup {None}
          /\ store' = [store EXCEPT ![t] = [digest |-> manifest, bound |-> call[a].max,
                                            expires |-> clock + TTL]]
          /\ issued' = [issued EXCEPT ![t] = [content |-> call[a].content, bound |-> call[a].max]]
          /\ loose' = IF a \in swapped THEN loose \cup {t} ELSE loose
          /\ call'[a] = NoCall /\ swapped' = swapped \ {a} /\ manifest' = manifest
      BY <2>0, <3>1 DEF IssueToken, Return, Step, Shaped, Call
    <3>3. issued'[t] = [content |-> call[a].content, bound |-> call[a].max] /\ issued'[t] # None
      <4>1. issued'[t] = [content |-> call[a].content, bound |-> call[a].max]
        BY <3>2 DEF TypeOK
      <4>2. None # [content |-> call[a].content, bound |-> call[a].max]
        BY <3>2, PlanTokenAssumption
      <4>. QED BY <4>1, <4>2
    <3>4. store'[t].bound = issued'[t].bound /\ store'[t].digest = manifest
      BY <3>2, <3>3 DEF TypeOK
    <3>5. t \notin loose' => manifest = issued'[t].content
      <4>1. t \notin loose' => a \notin swapped
        BY <3>2
      <4>2. a \notin swapped => call[a].content = manifest
        BY <3>2, PlanTokenAssumption DEF Bound
      <4>3. issued'[t].content = call[a].content
        BY <3>3
      <4>. QED BY <4>1, <4>2, <4>3
    <3>6. \A u \in Token \ {t} : store'[u] = store[u] /\ issued'[u] = issued[u] /\ (u \in loose' <=> u \in loose)
      BY <3>2 DEF TypeOK
    <3>7. \A b \in Agent \ {a} : call[b].token # t /\ (b \in swapped' <=> b \in swapped)
      BY <3>2, PlanTokenAssumption DEF Bound
    <3>8. call'[a].token = None /\ call'[a].content = None
      BY <3>2 DEF NoCall
    <3>9. \A b \in Agent \ {a} : call[b].token # None => call[b].token \in Token \ {t}
      BY <3>7 DEF TypeOK, Call
    <3>10. \A u \in Token : store'[u] # None =>
             /\ issued'[u] # None /\ store'[u].bound = issued'[u].bound
             /\ u \notin loose' => store'[u].digest = issued'[u].content
      BY <3>3, <3>4, <3>5, <3>6 DEF Bound
    <3>11. \A b \in Agent : call'[b].token # None =>
             /\ issued'[call'[b].token] # None
             /\ issued'[call'[b].token].bound # None => call'[b].max <= issued'[call'[b].token].bound
             /\ b \notin swapped' /\ call'[b].token \notin loose' => issued'[call'[b].token].content = manifest'
      BY <2>0, <3>2, <3>6, <3>7, <3>8, <3>9 DEF Bound
    <3>12. \A b \in Agent : b \notin swapped' /\ call'[b].content # None => call'[b].content = manifest'
      BY <2>0, <3>2, <3>7, <3>8 DEF Bound
    <3>. QED BY <3>10, <3>11, <3>12 DEF Bound
  <2>3. CASE \E t \in Token, n \in 1..Cap : Validate(a, t, n)
    <3>1. PICK t \in Token, n \in 1..Cap : Validate(a, t, n)
      BY <2>3
    <3>2. /\ store[t] # None /\ store[t].digest = manifest /\ (store[t].bound # None => n <= store[t].bound)
          /\ call'[a].token = t /\ call'[a].max = n /\ call'[a].content = None
          /\ UNCHANGED <<manifest, store, issued, loose, swapped>>
      BY <2>0, <3>1 DEF Validate, Accepts, NoCall
    <3>. QED BY <2>0, <3>2 DEF Bound
  <2>4. CASE (\E t \in Token : Expire(a, t)) \/ Refuse(a) \/ Consume(a) \/ Die(a)
    <3>1. /\ call'[a] \in {call[a], NoCall} /\ swapped' \in {swapped, swapped \ {a}}
          /\ call'[a] = NoCall \/ swapped' = swapped
          /\ \A u \in Token : store'[u] \in {store[u], None}
          /\ UNCHANGED <<manifest, issued, loose>>
      BY <2>0, <2>4 DEF Expire, Refuse, Consume, Die, Return, history, TypeOK
    <3>2. NoCall.token = None /\ NoCall.content = None
      BY DEF NoCall
    <3>. QED BY <2>0, <3>1, <3>2 DEF Bound
  <2>5. CASE RecordInvoked(a) \/ ReadManifest(a) \/ StartApply(a) \/ ApplyRow(a) \/ SkipRow(a) \/ EndApply(a)
    <3>1. /\ call'[a].token = call[a].token /\ call'[a].max = call[a].max
          /\ call'[a].content \in {call[a].content, manifest}
          /\ UNCHANGED <<manifest, store, issued, loose, swapped>>
      BY <2>0, <2>5 DEF RecordInvoked, ReadManifest, StartApply, ApplyRow, SkipRow, EndApply, history, Call
    <3>. QED BY <2>0, <3>1 DEF Bound
  <2>. QED BY <1>1, <2>1, <2>2, <2>3, <2>4, <2>5 DEF Act
<1>2. ASSUME NEW c \in Content, Edit(c) PROVE Bound'
  <2>1. /\ UNCHANGED <<store, call, issued, loose>> /\ swapped' = swapped \cup {a \in Agent : call[a].step # "idle"}
    BY <1>2 DEF Edit, history, Step
  <2>2. \A a \in Agent : a \notin swapped' => call[a].token = None /\ call[a].content = None
    BY <2>1 DEF Calls, Shaped
  <2>. QED BY <2>1, <2>2 DEF Bound
<1>3. CASE Tick \/ UNCHANGED vars
  BY <1>3 DEF Tick, history, vars, Bound
<1>. QED BY <1>1, <1>2, <1>3, Steps

(* A token is used once, while it is not disturbed. *)
LEMMA NextOnce ==
  ASSUME TypeOK, Calls, Bound, Once, [Next]_vars
  PROVE  Once'
<1>0. None \notin Token /\ \A t \in Token : uses[t] \in Nat
  BY PlanTokenAssumption DEF TypeOK
<1>1. ASSUME NEW a \in Agent, Act(a) PROVE Once'
  <2>0. /\ \A b \in Agent \ {a} : call'[b] = call[b]
        /\ call[a] \in Call /\ Shaped(call[a]) /\ call \in [Agent -> Call]
    BY <1>1, NextCall DEF TypeOK, Calls
  <2>1. CASE \E m \in 1..Cap \cup {None} : DryRun(a, m)
    <3>1. /\ call'[a].token = None /\ call[a].token = None
          /\ UNCHANGED <<store, issued, uses, disturbed>>
      BY <2>0, <2>1 DEF DryRun, Step, NoCall, Shaped, history
    <3>. QED BY <1>0, <2>0, <3>1 DEF Once
  <2>2. CASE \E t \in Token : IssueToken(a, t)
    <3>1. PICK t \in Token : IssueToken(a, t)
      BY <2>2
    <3>2. /\ issued[t] = None /\ call[a].token = None /\ call'[a].token = None
          /\ \A u \in Token \ {t} : store'[u] = store[u] /\ issued'[u] = issued[u]
          /\ uses' = uses /\ disturbed' = disturbed
      BY <2>0, <3>1 DEF IssueToken, Return, NoCall, Step, Shaped, TypeOK
    <3>3. uses[t] = 0 /\ \A b \in Agent : call[b].token # t
      BY <1>0, <3>2 DEF Once, Bound
    <3>4. \A u \in Token : issued'[u] = None => uses'[u] = 0
      BY <3>2, <3>3 DEF Once
    <3>5. \A b \in Agent : call'[b].token = call[b].token /\ (call'[b].token # None => call'[b] = call[b])
      BY <2>0, <3>2
    <3>. QED BY <1>0, <3>2, <3>3, <3>4, <3>5 DEF Once
  <2>3. CASE \E t \in Token, n \in 1..Cap : Validate(a, t, n)
    <3>1. PICK t \in Token, n \in 1..Cap : Validate(a, t, n)
      BY <2>3
    <3>2. /\ store[t] # None /\ call'[a].token = t /\ call'[a].applied = 0 /\ call[a].token = None
          /\ disturbed' = IF \E b \in Agent : call[b].token = t THEN disturbed \cup {t} ELSE disturbed
          /\ UNCHANGED <<store, issued, uses>>
      BY <2>0, <3>1 DEF Validate, Accepts, Step, NoCall, Shaped
    <3>3. ASSUME NEW u \in Token \ disturbed'
          PROVE  /\ uses'[u] <= 1
                 /\ \A b, c \in Agent : call'[b].token = u /\ call'[c].token = u => b = c
                 /\ \A b \in Agent : call'[b].token = u /\ call'[b].applied = 0 => uses'[u] = 0
                 /\ uses'[u] > 0 /\ store'[u] # None =>
                      \E b \in Agent : call'[b].token = u /\ call'[b].applied > 0
      <4>0. u \in Token \ disturbed /\ uses'[u] = uses[u] /\ uses[u] \in Nat /\ store'[u] = store[u]
        BY <1>0, <3>2, <3>3
      <4>1. CASE u = t
        <5>1. \A b \in Agent : call[b].token # t
          BY <3>2, <3>3, <4>1
        <5>2. uses[t] = 0
          BY <3>2, <4>0, <4>1, <5>1 DEF Once
        <5>. QED BY <2>0, <3>2, <4>0, <4>1, <5>1, <5>2
      <4>2. CASE u # t
        <5>1. call'[a].token # u /\ call[a].token # u
          BY <1>0, <3>2, <4>2
        <5>. QED BY <2>0, <4>0, <5>1 DEF Once
      <4>. QED BY <4>1, <4>2
    <3>. QED BY <3>2, <3>3 DEF Once
  <2>4. CASE \E t \in Token : Expire(a, t)
    <3>1. /\ UNCHANGED <<call, issued, uses, disturbed>> /\ \A u \in Token : store'[u] \in {store[u], None}
      BY <2>4 DEF Expire, history, TypeOK
    <3>. QED BY <3>1 DEF Once
  <2>5. CASE Refuse(a)
    <3>1. call'[a].token = None /\ call[a].applied = 0 /\ UNCHANGED <<store, issued, uses, disturbed>>
      BY <2>0, <2>5 DEF Refuse, Return, NoCall, Step, Shaped, history
    <3>. QED BY <1>0, <2>0, <3>1 DEF Once
  <2>6. CASE Consume(a)
    <3>1. /\ call'[a].token = None /\ UNCHANGED <<issued, uses, disturbed>>
          /\ store'[call[a].token] = None /\ \A u \in Token : u # call[a].token => store'[u] = store[u]
      BY <2>0, <2>6 DEF Consume, Return, NoCall, Step, Shaped, history, TypeOK
    <3>. QED BY <1>0, <2>0, <3>1 DEF Once
  <2>7. CASE Die(a)
    <3>1. /\ call'[a].token = None /\ UNCHANGED <<store, issued, uses>>
          /\ disturbed' = disturbed \cup ({call[a].token} \ {None})
      BY <2>0, <2>7 DEF Die, Return, NoCall
    <3>2. \A u \in Token \ disturbed' : u \in Token \ disturbed /\ call[a].token # u
      BY <1>0, <3>1
    <3>. QED BY <1>0, <2>0, <3>1, <3>2 DEF Once
  <2>8. CASE ApplyRow(a)
    <3> DEFINE s == call[a].token
    <3>1. /\ call[a].applied \in Nat /\ call'[a].token = s /\ call'[a].applied = call[a].applied + 1
          /\ s \in Token
          /\ uses' = IF call[a].applied = 0 THEN [uses EXCEPT ![s] = @ + 1] ELSE uses
          /\ UNCHANGED <<store, issued, disturbed>>
      BY <2>0, <2>8 DEF ApplyRow, Step, Shaped, Call
    <3>2. issued[s] # None
      BY <1>0, <3>1 DEF Bound
    <3>3. \A u \in Token : u # s => uses'[u] = uses[u]
      BY <3>1 DEF TypeOK
    <3>4. uses'[s] = IF call[a].applied = 0 THEN uses[s] + 1 ELSE uses[s]
      BY <3>1 DEF TypeOK
    <3> HIDE DEF s
    <3>5. ASSUME NEW u \in Token \ disturbed'
          PROVE  /\ uses'[u] <= 1
                 /\ \A b, c \in Agent : call'[b].token = u /\ call'[c].token = u => b = c
                 /\ \A b \in Agent : call'[b].token = u /\ call'[b].applied = 0 => uses'[u] = 0
                 /\ uses'[u] > 0 /\ store'[u] # None =>
                      \E b \in Agent : call'[b].token = u /\ call'[b].applied > 0
      <4>0. u \in Token \ disturbed /\ uses[u] \in Nat /\ \A b \in Agent : call'[b].token = call[b].token
        BY <1>0, <2>0, <3>1, <3>5 DEF s
      <4>1. CASE u = s
        <5>1. call[a].token = u /\ (call[a].applied = 0 => uses[u] = 0) /\ uses[u] <= 1
          BY <4>0, <4>1 DEF s, Once
        <5>2. uses'[u] <= 1
          BY <3>4, <4>0, <4>1, <5>1
        <5>3. \A b \in Agent : call'[b].token = u => b = a
          BY <4>0, <5>1 DEF Once
        <5>4. call'[a].token = u /\ call'[a].applied > 0
          BY <3>1, <4>1
        <5>. QED BY <3>1, <5>2, <5>3, <5>4
      <4>2. CASE u # s
        <5>1. call[a].token # u /\ call'[a].token # u /\ uses'[u] = uses[u] /\ store'[u] = store[u]
          BY <3>1, <3>3, <4>2 DEF s
        <5>. QED BY <2>0, <4>0, <5>1 DEF Once
      <4>. QED BY <4>1, <4>2
    <3>6. \A u \in Token : issued'[u] = None => uses'[u] = 0
      BY <3>1, <3>2, <3>3 DEF Once
    <3>. QED BY <3>1, <3>5, <3>6 DEF Once
  <2>9. CASE RecordInvoked(a) \/ ReadManifest(a) \/ StartApply(a) \/ SkipRow(a) \/ EndApply(a)
    <3>1. /\ call'[a].token = call[a].token /\ call'[a].applied = call[a].applied
          /\ UNCHANGED <<store, issued, uses, disturbed>>
      BY <2>0, <2>9 DEF RecordInvoked, ReadManifest, StartApply, SkipRow, EndApply, history, Call
    <3>2. \A b \in Agent : call'[b].token = call[b].token /\ call'[b].applied = call[b].applied
      BY <2>0, <3>1
    <3>. QED BY <3>1, <3>2 DEF Once
  <2>. QED BY <1>1, <2>1, <2>2, <2>3, <2>4, <2>5, <2>6, <2>7, <2>8, <2>9 DEF Act
<1>2. ASSUME NEW c \in Content, Edit(c) PROVE Once'
  BY <1>2 DEF Edit, history, Once
<1>3. CASE Tick \/ UNCHANGED vars
  BY <1>3 DEF Tick, history, vars, Once
<1>. QED BY <1>1, <1>2, <1>3, Steps

-----------------------------------------------------------------------------
(* The inductive invariant: the types, the fields of calls, what a token is   *)
(* bound to, and its one use.                                                 *)
THEOREM Inductive == Spec => []IInv
<1>1. IInv /\ [Next]_vars => IInv'
  BY NextTypes, NextBound, NextOnce DEF IInv
<1>. QED BY <1>1, InitInv, PTL DEF Spec

(* Every state is well typed (PlanToken.TypeOK). *)
THEOREM TypeCorrect == Spec => []TypeOK
<1>1. IInv => TypeOK
  BY DEF IInv
<1>. QED BY <1>1, Inductive, PTL

(* ADR-0016: an execution that meets no edit applies the content its token's  *)
(* dry run read, and none moves more files than dry run and cap allow.        *)
THEOREM AppliesBound == Spec => []AppliesWhatDryRunRead
<1>1. IInv => AppliesWhatDryRunRead
  <2>. SUFFICES ASSUME IInv, NEW a \in Agent, Executing(a)
                PROVE  /\ a \notin swapped /\ call[a].token \notin loose =>
                            call[a].content = issued[call[a].token].content
                       /\ call[a].applied <= Cap
                       /\ issued[call[a].token].bound # None =>
                            call[a].applied <= issued[call[a].token].bound
    BY DEF AppliesWhatDryRunRead
  <2>1. call[a].token \in Token /\ call[a].content \in Content /\ call[a].max \in 1..Cap
        /\ call[a].applied \in 0..Cap /\ call[a].applied <= call[a].max
    BY DEF IInv, Calls, Shaped, Executing, TypeOK, Call
  <2>2. call[a].token # None /\ call[a].content # None /\ Cap \in Nat
    BY <2>1, PlanTokenAssumption
  <2>3. a \notin swapped /\ call[a].token \notin loose => call[a].content = issued[call[a].token].content
    BY <2>2 DEF IInv, Bound
  <2>4. issued[call[a].token].bound # None =>
          /\ call[a].max <= issued[call[a].token].bound
          /\ issued[call[a].token].bound \in 1..Cap
    <3>1. issued[call[a].token] \in [content : Content, bound : 1..Cap \cup {None}]
      BY <2>1, <2>2 DEF IInv, Bound, TypeOK
    <3>. QED BY <2>2, <3>1 DEF IInv, Bound
  <2>5. issued[call[a].token].bound # None => call[a].applied <= issued[call[a].token].bound
    BY <2>1, <2>2, <2>4
  <2>. QED BY <2>1, <2>2, <2>3, <2>5
<1>. QED BY <1>1, Inductive, PTL

(* ADR-0016, consume-on-use: a token moves files in one execution at most,    *)
(* unless executions of it overlapped or one died.                            *)
THEOREM UsedOnce == Spec => []OneShotUndisturbed
<1>1. IInv => OneShotUndisturbed
  BY DEF IInv, Once, OneShotUndisturbed
<1>. QED BY <1>1, Inductive, PTL

(* handlers.py: a token leaves the store when it has expired or when an apply *)
(* under it has ended, and never because a call was refused or has failed.    *)
THEOREM KeptUntilApplied == Spec => TokenKeptUntilApplied
<1> DEFINE Kept == \A t \in Token :
                     store[t] # None /\ store'[t] = None =>
                       \/ clock > store[t].expires
                       \/ \E a \in Agent : Step(a, "applied") /\ call[a].token = t
<1>1. IInv /\ [Next]_vars => [Kept]_vars
  <2>. SUFFICES ASSUME IInv, [Next]_vars, NEW t \in Token, store[t] # None, store'[t] = None
                PROVE  \/ clock > store[t].expires
                       \/ \E a \in Agent : Step(a, "applied") /\ call[a].token = t
    OBVIOUS
  <2>1. ASSUME NEW a \in Agent, Act(a)
        PROVE  \/ clock > store[t].expires
               \/ \E b \in Agent : Step(b, "applied") /\ call[b].token = t
    <3>1. CASE \E u \in Token : IssueToken(a, u)
      <4>1. PICK u \in Token : IssueToken(a, u)
        BY <3>1
      <4>2. issued[u] = None /\ \A v \in Token \ {u} : store'[v] = store[v]
        BY <4>1 DEF IssueToken, IInv, TypeOK
      <4>3. u # t
        BY <4>2 DEF IInv, Bound
      <4>. QED BY <4>2, <4>3
    <3>2. CASE \E u \in Token : Expire(a, u)
      BY <3>2 DEF Expire, IInv, TypeOK
    <3>3. CASE Consume(a)
      BY <3>3 DEF Consume, IInv, TypeOK
    <3>4. CASE UNCHANGED store
      BY <3>4
    <3>. QED BY <2>1, <3>1, <3>2, <3>3, <3>4 DEF Act, DryRun, Validate, RecordInvoked, Refuse, ReadManifest,
                                                StartApply, ApplyRow, SkipRow, EndApply, Die
  <2>2. CASE (\E c \in Content : Edit(c)) \/ Tick \/ UNCHANGED vars
    BY <2>2 DEF Edit, Tick, vars
  <2>. QED BY <2>1, <2>2, Steps
<1>. QED BY <1>1, Inductive, PTL DEF Spec, TokenKeptUntilApplied
=============================================================================
