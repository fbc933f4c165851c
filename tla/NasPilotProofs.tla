--------------------------- MODULE NasPilotProofs ---------------------------
(***************************************************************************)
(* The safety of the pilot on the NAS, for any number of watchers, any     *)
(* window, any numbers of restarts and rotations: one run, one completion, *)
(* types, and the reach of a rotated token.                                *)
(*                                                                         *)
(* The inductive invariant PilotInv says what each watcher, each request   *)
(* and each answer implies about the row of the task and the token files.  *)
(***************************************************************************)
EXTENDS NasPilot, TaskApiProofs

\* The principal of the watcher.
nas == "svc-hermes-nas"

\* Where a watcher can be, and where it works on a task it has claimed.
Places == {"boot", "claim", "read", "check", "probe", "sleep", "exited", "finished"}
Working == {"check", "probe", "sleep"}

\* The row: before the only claim, after it, and once the receipt is in.
RowOK ==
  /\ status[pilot] \in {"absent", "ready", "claimed", "recovery_required", "done"}
  /\ status[pilot] \in {"absent", "ready"} => attempts[pilot] = 0 /\ owner[pilot] = None
  /\ status[pilot] \notin {"absent", "ready"} => attempts[pilot] = 1
  /\ receipts[pilot] = IF status[pilot] = "done" THEN <<"completed">> ELSE <<>>
  /\ status[pilot] = "done" => left = 0

\* A file has no token or one of its principal, numbered by a rotation begun.
FilesOK ==
  /\ files = [p \in {"svc-panda-orchestrator", nas} |-> files[p]]
  /\ \A p \in DOMAIN files :
       files[p] # NoToken => \E n \in 0..rotations : files[p] = Token(p, n)

\* A request, and what its answer means.
RequestOK(q) ==
  /\ q \in Call
  /\ q.kind = "claim" /\ q.code = 200 => owner[pilot] = q.by
  /\ q.mine => owner[pilot] = q.by
  /\ q.kind = "submit_receipt" => left = 0
  /\ q.kind = "submit_receipt" /\ q.code = 200 =>
       status[pilot] = "done" /\ owner[pilot] = q.by

\* The token of a process that runs, older than a file that is being replaced.
TokenOK(w) ==
  /\ token[w] # NoToken =>
       \E n \in 0..rotations :
         token[w] = Token(nas, n) /\ (files[nas] = NoToken => n < rotations)
  /\ pc[w] \notin {"boot", "exited"} => token[w] # NoToken

\* The request of a watcher belongs to its life and to the place it waits at.
CallOK(w) ==
  call[w] # None =>
    /\ RequestOK(call[w])
    /\ call[w].by = w /\ call[w].run = restarts[w] /\ call[w].token = token[w]
    /\ \/ pc[w] = "claim" /\ call[w].kind = "claim"
       \/ pc[w] = "read" /\ call[w].kind = "get_task"
       \/ pc[w] = "check" /\ call[w].kind \in {"heartbeat", "submit_receipt"}

\* Once a report has gone out under a replaced token, the process gets no
\* further than its next request.
StaleOK(w) ==
  /\ stale[w] \in {0, 1}
  /\ stale[w] = 1 /\ pc[w] \notin {"boot", "exited"} =>
       /\ token[w] # files[nas] /\ pc[w] \in {"check", "sleep"}
       /\ call[w] # None => ~call[w].admitted /\ call[w].code # 200

\* Everything about one watcher.
WatcherOK(w) ==
  /\ pc[w] \in Places /\ restarts[w] \in 0..MaxRestarts[w]
  /\ pc[w] \in Working => owner[pilot] = w
  /\ pc[w] = "finished" => status[pilot] = "done" /\ owner[pilot] = w
  /\ TokenOK(w) /\ CallOK(w) /\ StaleOK(w)

\* What a dead process left behind is of an earlier life, or of the one that
\* has just ended.
StrayOK(q) ==
  /\ RequestOK(q) /\ q.code = 0
  /\ q.run <= restarts[q.by]
  /\ q.run = restarts[q.by] => pc[q.by] = "exited"

\* Each life has left one request behind at most.
StraysOK ==
  /\ \A q \in strays : StrayOK(q)
  /\ \A q, r \in strays : q.by = r.by /\ q.run = r.run => q = r

\* The variables of the watchers are functions.
Shape(f) == f = [w \in Workers |-> f[w]]
Shapes == Shape(pc) /\ Shape(token) /\ Shape(restarts) /\ Shape(call) /\ Shape(stale)

\* What does not belong to a single watcher.
Globals ==
  /\ TypeOK /\ RowOK /\ FilesOK
  /\ left \in 0..Window /\ rotations \in 0..MaxRotations

\* The inductive invariant.
PilotInv ==
  /\ Globals /\ Shapes /\ StraysOK
  /\ \A w \in Workers : WatcherOK(w)

-----------------------------------------------------------------------------
\* The assumptions on the constants of the pilot.
LEMMA PilotConstants ==
  /\ pilot \in Tasks /\ ApprovalRequired[pilot] = {}
  /\ MaxRestarts \in [Workers -> Nat]
  /\ Window \in Nat /\ MaxRotations \in Nat
  /\ None \notin Workers
BY PilotAssumption, Constants

\* The HTTP status of the middleware, and that nobody but the holder of the
\* token in the file of the NAS worker may claim, beat or answer.
LEMMA Authentic ==
  ASSUME FilesOK, NEW supplied, NEW scope
  PROVE  /\ authenticate(files, supplied, scope) \in {200, 401, 403, 500}
         /\ /\ authenticate(files, supplied, scope) = 200
            /\ scope \in {"tasks:claim", "tasks:heartbeat", "tasks:receipt"}
            => supplied = files[nas] /\ files[nas] # NoToken
<1> DEFINE deciding == {i \in DOMAIN Principals : files[Principals[i]] \in {NoToken, supplied}}
           least == CHOOSE i \in deciding : \A j \in deciding : i <= j
           first == Principals[least]
<1>1. /\ DOMAIN Principals = {1, 2}
      /\ Principals[1] = "svc-panda-orchestrator" /\ Principals[2] = nas
  BY DEF Principals, nas
<1>2. authenticate(files, supplied, scope) =
        CASE deciding = {} -> 401
          [] deciding # {} /\ files[first] = NoToken -> 500
          [] deciding # {} /\ files[first] # NoToken ->
               IF scope \in Scopes(first) THEN 200 ELSE 403
  BY DEF authenticate
<1>3. CASE deciding = {}
  <2>1. authenticate(files, supplied, scope) = 401
    BY <1>2, <1>3
  <2> QED
    BY <2>1
<1>4. CASE deciding # {}
  <2>1. \E i \in deciding : \A j \in deciding : i <= j
    BY <1>1, <1>4
  <2>2. least \in deciding
    BY <2>1
  <2>3. first \in {"svc-panda-orchestrator", nas} /\ files[first] \in {NoToken, supplied}
    BY <1>1, <2>2
  <2> HIDE DEF first
  <2>4. CASE files[first] = NoToken
    BY <1>2, <1>4, <2>4
  <2>5. CASE files[first] # NoToken
    <3>1. authenticate(files, supplied, scope) = IF scope \in Scopes(first) THEN 200 ELSE 403
      BY <1>2, <1>4, <2>5
    <3>2. /\ scope \in {"tasks:claim", "tasks:heartbeat", "tasks:receipt"}
          /\ scope \in Scopes(first)
          => first = nas
      BY <2>3 DEF Scopes, nas
    <3> QED
      BY <2>3, <2>5, <3>1, <3>2
  <2> QED
    BY <2>4, <2>5
<1> QED
  BY <1>3, <1>4

-----------------------------------------------------------------------------
\* A token is none other than itself.
LEMMA Tokens ==
  \A p, q, n, m : /\ Token(p, n) # NoToken
                  /\ Token(p, n) = Token(q, m) => p = q /\ n = m
BY DEF Token, NoToken

\* What a step of the pilot does to the store.
StoreStep ==
  \/ CreateTask(pilot)
  \/ \E w \in Workers : Take(w) \/ Beat(w) \/ (left = 0 /\ Complete(w))
  \/ ExpireLeases
  \/ Tick
  \/ UNCHANGED vars

\* What no step takes back: the owner, the end of the task, and of the window.
Onward ==
  /\ \A w \in Workers : owner[pilot] = w => owner'[pilot] = w
  /\ status[pilot] = "done" => status'[pilot] = "done"
  /\ left = 0 => left' = 0

\* The pilot uses the store only as the API lets it.
LEMMA StoreStepIsApi == StoreStep => [ApiNext]_vars
<1> SUFFICES ASSUME StoreStep
             PROVE  [ApiNext]_vars
  OBVIOUS
<1> USE PilotConstants
<1>1. CASE CreateTask(pilot)
  BY <1>1 DEF ApiNext
<1>2. ASSUME NEW w \in Workers, Take(w) \/ Beat(w)
      PROVE  ApiNext
  BY <1>2 DEF Take, Beat, ApiNext
<1>3. ASSUME NEW w \in Workers, Complete(w)
      PROVE  ApiNext
  BY <1>3 DEF Complete, ApiNext, Outcomes
<1>4. CASE ExpireLeases \/ Tick \/ UNCHANGED vars
  BY <1>4 DEF ApiNext
<1> QED
  BY <1>1, <1>2, <1>3, <1>4 DEF StoreStep

\* Claiming makes the worker the owner of a task that had none.
LEMMA TakeRow ==
  ASSUME TypeOK, RowOK, NEW w \in Workers, Take(w), left' = left
  PROVE  RowOK' /\ Onward /\ owner'[pilot] = w
BY PilotConstants DEF Take, Claim, Claimable, evidenceVars, TypeOK, RowOK, Onward

\* A receipt ends the task of its owner.
LEMMA CompleteRow ==
  ASSUME TypeOK, RowOK, NEW w \in Workers, Complete(w), left = 0, left' = left
  PROVE  RowOK' /\ Onward /\ status'[pilot] = "done" /\ owner'[pilot] = w
<1>1. ReceiptTarget(pilot, "completed") = "done"
  BY PilotConstants DEF ReceiptTarget
<1>2. /\ status[pilot] \in ExecutionStates /\ owner[pilot] = w
      /\ UNCHANGED <<owner, attempts>>
      /\ status' = [status EXCEPT ![pilot] = "done"]
      /\ receipts' = [receipts EXCEPT ![pilot] = Append(@, "completed")]
  BY <1>1 DEF Complete, SubmitReceipt, MayAnswer, SetStatus
<1>3. receipts[pilot] = <<>> /\ attempts[pilot] = 1
  BY <1>2 DEF RowOK, ExecutionStates
<1>4. receipts'[pilot] = <<"completed">> /\ status'[pilot] = "done"
  BY <1>2, <1>3, PilotConstants DEF TypeOK
<1> QED
  BY <1>2, <1>3, <1>4 DEF RowOK, Onward

\* No step of the store takes anything back.
LEMMA RowStep ==
  ASSUME TypeOK, RowOK, StoreStep, left = 0 => left' = 0, left' = left \/ Tick
  PROVE  RowOK' /\ Onward
<1> USE PilotConstants DEF TypeOK, RowOK, Onward
<1>1. CASE CreateTask(pilot)
  BY <1>1 DEF CreateTask, KeyTaken, Exists, evidenceVars
<1>2. ASSUME NEW w \in Workers, Take(w)
      PROVE  RowOK' /\ Onward
  <2>1. CASE left' = left
    BY <1>2, <2>1, TakeRow
  <2>2. CASE Tick
    BY <1>2, <2>2 DEF Take, Claim, Claimable, Tick, evidenceVars
  <2> QED
    BY <2>1, <2>2
<1>3. ASSUME NEW w \in Workers, Beat(w)
      PROVE  RowOK' /\ Onward
  BY <1>3 DEF Beat, Heartbeat, evidenceVars
<1>4. ASSUME NEW w \in Workers, left = 0, Complete(w)
      PROVE  RowOK' /\ Onward
  BY <1>4, CompleteRow
<1>5. CASE ExpireLeases
  BY <1>5 DEF ExpireLeases, Lapsed, ExecutionStates
<1>6. CASE Tick \/ UNCHANGED vars
  BY <1>6 DEF Tick, vars, taskVars, evidenceVars
<1> QED
  BY <1>1, <1>2, <1>3, <1>4, <1>5, <1>6 DEF StoreStep

\* A request under way is one of a watcher or one that nobody waits for.
LEMMA Waiting ==
  ASSUME PilotInv, NEW q \in UnderWay
  PROVE  /\ q \in Call /\ RequestOK(q) /\ q.code = 0
         /\ q \notin strays => call[q.by] = q /\ q # None
BY DEF PilotInv, UnderWay, StraysOK, StrayOK, RequestOK, WatcherOK, CallOK

\* Every step of the pilot is one of the store, and the window only closes.
LEMMA StoreSteps ==
  ASSUME PilotInv, [PilotNext]_pilotVars
  PROVE  /\ StoreStep
         /\ left' \in 0..Window
         /\ left = 0 => left' = 0
         /\ left' = left \/ Tick
<1>0. left \in 0..Window /\ Window \in Nat
  BY PilotConstants DEF PilotInv, Globals
<1>1. CASE Seed \/ Sweep
  BY <1>0, <1>1 DEF Seed, Sweep, StoreStep
<1>2. CASE Clock
  BY <1>0, <1>2 DEF Clock, StoreStep, Greater
<1>3. ASSUME NEW q \in UnderWay, Authenticate(q)
      PROVE  UNCHANGED vars /\ left' = left
  BY <1>3 DEF Authenticate
<1>4. ASSUME NEW q \in UnderWay, Handle(q)
      PROVE  StoreStep /\ left' = left
  <2>1. q.by \in Workers /\ (q.kind = "submit_receipt" => left = 0)
    BY Waiting DEF RequestOK, Call
  <2> QED
    BY <1>4, <2>1 DEF Handle, Accepted, Refused, StoreStep
<1>5. ASSUME NEW w \in Workers, Step(w) \/ Fail(w)
      PROVE  UNCHANGED vars /\ left' = left
  BY <1>5 DEF Step, Boot, Send, Receive, Report, Restart, Fail
<1>6. ASSUME NEW q \in strays, Lose(q)
      PROVE  UNCHANGED vars /\ left' = left
  BY <1>6 DEF Lose
<1>7. ASSUME NEW p \in DOMAIN files, EmptyFile(p) \/ WriteFile(p)
      PROVE  UNCHANGED vars /\ left' = left
  BY <1>7 DEF EmptyFile, WriteFile
<1>8. ASSUME UNCHANGED pilotVars
      PROVE  UNCHANGED vars /\ left' = left
  BY <1>8 DEF pilotVars
<1>9. UNCHANGED vars => StoreStep
  BY DEF StoreStep
<1> QED
  BY <1>0, <1>1, <1>2, <1>3, <1>4, <1>5, <1>6, <1>7, <1>8, <1>9 DEF PilotNext, Serve

\* The row and the types of the store survive every step of the pilot.
LEMMA StoreKept ==
  ASSUME PilotInv, [PilotNext]_pilotVars
  PROVE  /\ TypeOK' /\ RowOK' /\ Onward
         /\ left' \in 0..Window
<1>1. TypeOK /\ RowOK
  BY DEF PilotInv, Globals
<1>2. [Next]_vars
  BY StoreSteps, StoreStepIsApi, ApiIsStore
<1> QED
  BY <1>1, <1>2, TypeStep, StoreSteps, RowStep

-----------------------------------------------------------------------------
\* What a request means stays true.
LEMMA RequestStays ==
  ASSUME Onward, NEW q, RequestOK(q)
  PROVE  RequestOK(q)'
BY DEF Onward, RequestOK, Call

\* A watcher that does nothing, while no token file changes.
LEMMA Bystander ==
  ASSUME Onward, NEW w \in Workers, WatcherOK(w),
         UNCHANGED <<pc[w], token[w], restarts[w], call[w], stale[w]>>,
         UNCHANGED <<files, rotations>>
  PROVE  WatcherOK(w)'
<1>1. CallOK(w)'
  BY RequestStays DEF WatcherOK, CallOK
<1>2. TokenOK(w)' /\ StaleOK(w)'
  BY DEF WatcherOK, TokenOK, StaleOK
<1> QED
  BY <1>1, <1>2 DEF WatcherOK, Onward

\* What a dead process left behind, while no process dies or starts.
LEMMA StraysStay ==
  ASSUME Onward, StraysOK, strays' \subseteq strays, restarts' = restarts,
         \A w \in Workers : pc[w] = "exited" => pc'[w] = "exited"
  PROVE  StraysOK'
<1>1. ASSUME NEW q \in strays'
      PROVE  StrayOK(q)'
  <2>1. StrayOK(q)
    BY <1>1 DEF StraysOK
  <2>2. RequestOK(q)'
    BY <2>1, RequestStays DEF StrayOK
  <2>3. q.by \in Workers
    BY <2>1 DEF StrayOK, RequestOK, Call
  <2> QED
    BY <2>1, <2>2, <2>3 DEF StrayOK
<1> QED
  BY <1>1 DEF StraysOK

-----------------------------------------------------------------------------
\* An answer is of the request it answers, and no token that has been replaced
\* gets a beat or a receipt through.
Answers(q, r) ==
  /\ r.by = q.by /\ r.run = q.run /\ r.kind = q.kind /\ r.token = q.token
  /\ /\ q.kind \in {"heartbeat", "submit_receipt"}
     /\ q.token # files[nas] /\ ~q.admitted
     => ~r.admitted /\ r.code # 200

\* A sound answer, or the API's taking note of a request, keeps the invariant.
LEMMA BecomesStep ==
  ASSUME PilotInv, Onward, NEW q \in UnderWay, NEW r,
         Becomes(q, r), Answers(q, r), RequestOK(r)',
         UNCHANGED <<files, rotations, pc, token, restarts, stale>>
  PROVE  StraysOK' /\ Shapes' /\ \A w \in Workers : WatcherOK(w)'
<1>0. /\ Shapes /\ StraysOK /\ \A w \in Workers : WatcherOK(w)
      /\ q.by \in Workers /\ (q \notin strays => call[q.by] = q)
  BY Waiting DEF PilotInv, Call
<1>1. CASE q \in strays
  <2>1. /\ strays' = (strays \ {q}) \cup (IF r.code = 0 THEN {r} ELSE {})
        /\ UNCHANGED call
    BY <1>1 DEF Becomes
  <2>2. \A w \in Workers : WatcherOK(w)'
    BY <1>0, <2>1, Bystander
  <2>3. r.code = 0 => StrayOK(r)'
    BY <1>0, <1>1 DEF StraysOK, StrayOK, Answers
  <2>4. ASSUME NEW x \in strays \ {q}
        PROVE  StrayOK(x)'
    <3>1. StrayOK(x)
      BY <1>0 DEF StraysOK
    <3> QED
      BY <3>1, RequestStays DEF StrayOK
  <2>5. StraysOK'
    <3>1. \A x \in strays' : StrayOK(x)'
      BY <2>1, <2>3, <2>4
    <3>2. \A x, y \in strays' : x.by = y.by /\ x.run = y.run => x = y
      <4>1. \A x, y \in strays : x.by = y.by /\ x.run = y.run => x = y
        BY <1>0 DEF StraysOK
      <4>2. \A x \in strays \ {q} : ~(x.by = r.by /\ x.run = r.run)
        BY <1>1, <4>1 DEF Answers
      <4> QED
        BY <2>1, <4>1, <4>2
    <3> QED
      BY <3>1, <3>2 DEF StraysOK
  <2> QED
    BY <1>0, <2>1, <2>2, <2>5 DEF Shapes, Shape
<1>2. CASE q \notin strays
  <2>1. call' = [call EXCEPT ![q.by] = r] /\ strays' = strays
    BY <1>2 DEF Becomes
  <2>2. call = [w \in Workers |-> call[w]]
    BY <1>0 DEF Shapes, Shape
  <2>3. StraysOK'
    BY <1>0, <2>1, StraysStay
  <2>4. ASSUME NEW w \in Workers
        PROVE  WatcherOK(w)'
    <3>1. CASE w # q.by
      BY <1>0, <2>1, <2>2, <3>1, Bystander
    <3>2. CASE w = q.by
      <4>1. call[w] = q /\ call'[w] = r /\ WatcherOK(w)
        BY <1>0, <1>2, <2>1, <2>2, <3>2
      <4>2. q # None
        BY <1>2, Waiting
      <4>3. CallOK(w)'
        BY <4>1, <4>2, <3>2 DEF WatcherOK, CallOK, Answers
      <4>4. TokenOK(w)' /\ StaleOK(w)'
        BY <4>1, <4>2 DEF WatcherOK, TokenOK, StaleOK, CallOK, Answers
      <4> QED
        BY <4>1, <4>3, <4>4 DEF WatcherOK, Onward
    <3> QED
      BY <3>1, <3>2
  <2>5. Shapes'
    BY <1>0, <2>1, <2>2 DEF Shapes, Shape
  <2> QED
    BY <2>3, <2>4, <2>5
<1> QED
  BY <1>1, <1>2

\* The type of a request, for any kinds, tokens and codes.
Requests(kinds, tokens, codes) ==
  [by : Workers, run : Nat, kind : kinds, token : tokens, admitted : BOOLEAN,
   code : codes, mine : BOOLEAN]

\* A request after its admission, an answer, or an answer to get_task.
Amended(q, r, c, m) ==
  \/ r = [q EXCEPT !.admitted = TRUE]
  \/ r = [q EXCEPT !.code = c]
  \/ r = [q EXCEPT !.code = c, !.mine = m]

\* What each of these changes.
Changes(q, r, c, m) ==
  /\ r.by = q.by /\ r.run = q.run /\ r.kind = q.kind /\ r.token = q.token
  /\ r = [q EXCEPT !.admitted = TRUE] => r.code = q.code /\ r.mine = q.mine
  /\ r = [q EXCEPT !.code = c] =>
       r.code = c /\ r.mine = q.mine /\ r.admitted = q.admitted
  /\ r = [q EXCEPT !.code = c, !.mine = m] => r.code = c /\ r.mine = m

\* Such a change leaves a request one, whatever values its fields range over,
LEMMA RecordChanges ==
  ASSUME NEW K, NEW T, NEW C, NEW q \in Requests(K, T, C),
         NEW c \in C, NEW m \in BOOLEAN, NEW r,
         Amended(q, r, c, m)
  PROVE  r \in Requests(K, T, C) /\ Changes(q, r, c, m)
<1> USE DEF Requests, Changes, Amended
<1>1. CASE r = [q EXCEPT !.admitted = TRUE]
  BY <1>1
<1>2. CASE r = [q EXCEPT !.code = c]
  BY <1>2
<1>3. CASE r = [q EXCEPT !.code = c, !.mine = m]
  BY <1>3
<1> QED
  BY <1>1, <1>2, <1>3

\* in particular for the values that Call gives them.
LEMMA RequestChanges ==
  ASSUME NEW q \in Call, NEW c \in {0, 200, 401, 403, 404, 409, 500},
         NEW m \in BOOLEAN, NEW r,
         Amended(q, r, c, m)
  PROVE  r \in Call /\ Changes(q, r, c, m)
<1> DEFINE K == {"claim", "get_task", "heartbeat", "submit_receipt"}
           T == {Token("svc-hermes-nas", n) : n \in 0..MaxRotations}
           C == {0, 200, 401, 403, 404, 409, 500}
<1>1. Call = Requests(K, T, C) /\ c \in C
  BY DEF Call, Requests
<1> HIDE DEF K, T, C
<1>2. r \in Requests(K, T, C) /\ Changes(q, r, c, m)
  <2>1. q \in Requests(K, T, C)
    BY <1>1
  <2> QED
    BY <1>1, <2>1, RecordChanges
<1> QED
  BY <1>1, <1>2

\* The middleware admits a request, or answers it.
LEMMA AuthenticateStep ==
  ASSUME PilotInv, Onward, NEW q \in UnderWay, Authenticate(q)
  PROVE  StraysOK' /\ Shapes' /\ \A w \in Workers : WatcherOK(w)'
<1>1. /\ q \in Call /\ RequestOK(q) /\ RequestOK(q)' /\ q.code = 0
      /\ FilesOK
  BY Waiting, RequestStays DEF PilotInv, Globals
<1>2. PICK code \in {200, 401, 403, 500} :
        /\ code = authenticate(files, q.token, required_scope(q.kind))
        /\ q.kind \in {"claim", "heartbeat", "submit_receipt"} /\ code = 200
             => q.token = files[nas]
  <2>1. /\ required_scope("claim") = "tasks:claim"
        /\ required_scope("heartbeat") = "tasks:heartbeat"
        /\ required_scope("submit_receipt") = "tasks:receipt"
    BY DEF required_scope
  <2> QED
    BY <1>1, <2>1, Authentic
<1> DEFINE admitted == [q EXCEPT !.admitted = TRUE]
           answered == [q EXCEPT !.code = code]
<1>3. PICK r : r = IF code = 200 THEN admitted ELSE answered
  <2> HIDE DEF admitted, answered
  <2> QED
    OBVIOUS
<1>4. Becomes(q, r) /\ UNCHANGED <<files, rotations, pc, token, restarts, stale>>
  BY <1>2, <1>3 DEF Authenticate
<1>a. /\ r \in Call /\ r.mine = q.mine /\ (r.code = 200 => q.code = 200)
      /\ r.by = q.by /\ r.run = q.run /\ r.kind = q.kind /\ r.token = q.token
      /\ code # 200 => r.admitted = q.admitted /\ r.code = code
  <2> PICK any \in BOOLEAN : TRUE
    OBVIOUS
  <2>1. CASE code = 200
    <3>1. r = admitted
      BY <1>3, <2>1
    <3>2. Amended(q, r, code, any)
      BY <3>1 DEF Amended
    <3>3. r \in Call /\ Changes(q, r, code, any)
      BY <1>1, <3>2, RequestChanges
    <3> QED
      BY <2>1, <3>1, <3>3 DEF Changes
  <2>2. CASE code # 200
    <3>1. r = answered
      BY <1>3, <2>2
    <3>2. Amended(q, r, code, any)
      BY <3>1 DEF Amended
    <3>3. r \in Call /\ Changes(q, r, code, any)
      BY <1>1, <3>2, RequestChanges
    <3> QED
      BY <2>2, <3>1, <3>3 DEF Changes
  <2> QED
    BY <2>1, <2>2
<1>5. Answers(q, r)
  BY <1>1, <1>2, <1>a DEF Answers
<1>6. RequestOK(r)'
  BY <1>1, <1>a DEF RequestOK
<1> QED
  BY <1>4, <1>5, <1>6, BecomesStep

\* The handler answers a request that was admitted.
LEMMA HandleStep ==
  ASSUME PilotInv, Onward, NEW q \in UnderWay, Handle(q)
  PROVE  StraysOK' /\ Shapes' /\ \A w \in Workers : WatcherOK(w)'
<1>1. /\ q \in Call /\ RequestOK(q) /\ RequestOK(q)' /\ q.code = 0
      /\ q.admitted /\ q.by \in Workers
      /\ TypeOK /\ RowOK
      /\ UNCHANGED <<left, files, rotations, pc, token, restarts, stale>>
  BY Waiting, RequestStays DEF PilotInv, Globals, Handle, Call
<1>2. CASE Accepted(q) /\ Becomes(q, [q EXCEPT !.code = 200])
  <2> DEFINE r == [q EXCEPT !.code = 200]
  <2>1. q.kind = "claim" => owner'[pilot] = q.by
    BY <1>1, <1>2, TakeRow DEF Accepted
  <2>2. q.kind = "submit_receipt" => status'[pilot] = "done" /\ owner'[pilot] = q.by
    BY <1>1, <1>2, CompleteRow DEF Accepted, RequestOK
  <2>3. Answers(q, r)
    BY <1>1 DEF Answers, Call
  <2>4. RequestOK(r)'
    BY <1>1, <2>1, <2>2 DEF RequestOK, Call
  <2> QED
    BY <1>1, <1>2, <2>3, <2>4, BecomesStep
<1>3. CASE Refused(q) /\ Becomes(q, [q EXCEPT !.code = 409])
  <2> DEFINE r == [q EXCEPT !.code = 409]
  <2>1. Answers(q, r)
    BY <1>1 DEF Answers, Call
  <2>2. RequestOK(r)'
    BY <1>1 DEF RequestOK, Call
  <2> QED
    BY <1>1, <1>3, <2>1, <2>2, BecomesStep
<1>4. CASE /\ q.kind = "get_task"
           /\ Becomes(q, [q EXCEPT
                !.code = IF Exists(pilot) THEN 200 ELSE 404,
                !.mine = owner[pilot] = q.by /\ status[pilot] \in ExecutionStates])
  <2>1. PICK found \in BOOLEAN :
          found <=> owner[pilot] = q.by /\ status[pilot] \in ExecutionStates
    OBVIOUS
  <2>2. PICK code \in {200, 404} : code = IF Exists(pilot) THEN 200 ELSE 404
    OBVIOUS
  <2>3. PICK r : r = [q EXCEPT !.code = code, !.mine = found]
    OBVIOUS
  <2>4. Becomes(q, r)
    BY <1>4, <2>1, <2>2, <2>3
  <2>a. /\ r \in Call /\ r.mine = found
        /\ r.by = q.by /\ r.run = q.run /\ r.kind = q.kind /\ r.token = q.token
    <3>1. Amended(q, r, code, found)
      BY <2>3 DEF Amended
    <3>2. r \in Call /\ Changes(q, r, code, found)
      BY <1>1, <3>1, RequestChanges
    <3> QED
      BY <2>3, <3>2 DEF Changes
  <2>5. Answers(q, r)
    BY <1>1, <1>4, <2>a DEF Answers
  <2>6. RequestOK(r)'
    BY <1>1, <1>4, <2>1, <2>a DEF RequestOK, Onward
  <2> QED
    BY <1>1, <2>4, <2>5, <2>6, BecomesStep
<1> QED
  BY <1>2, <1>3, <1>4 DEF Handle

-----------------------------------------------------------------------------
\* Everything about the watchers and what they left behind.
WatchersOK == StraysOK /\ Shapes /\ \A w \in Workers : WatcherOK(w)

\* It suffices to look at the watcher that takes a step.
LEMMA OneWatcher ==
  ASSUME PilotInv, Onward, NEW w \in Workers, WatcherOK(w)', StraysOK', Shapes',
         UNCHANGED <<files, rotations>>,
         \A v \in Workers \ {w} :
           UNCHANGED <<pc[v], token[v], restarts[v], call[v], stale[v]>>
  PROVE  WatchersOK'
<1>1. ASSUME NEW v \in Workers \ {w}
      PROVE  WatcherOK(v)'
  BY <1>1, Bystander DEF PilotInv
<1> QED
  BY <1>1 DEF WatchersOK

\* A started process has read its token and asks for nothing yet.
LEMMA BootStep ==
  ASSUME PilotInv, Onward, NEW w \in Workers, Boot(w)
  PROVE  WatchersOK'
<1>1. /\ Shapes /\ StraysOK /\ WatcherOK(w) /\ FilesOK
      /\ pc[w] = "boot" /\ call[w] = None
  BY DEF PilotInv, Globals, Boot, WatcherOK, CallOK
<1>2. /\ pc' = [pc EXCEPT ![w] = IF files[nas] = NoToken THEN "exited" ELSE "claim"]
      /\ token' = [token EXCEPT ![w] = files[nas]]
      /\ stale' = [stale EXCEPT ![w] = 0]
      /\ UNCHANGED <<left, files, rotations, restarts, call, strays>>
  BY DEF Boot, nas
<1>3. /\ pc'[w] = IF files[nas] = NoToken THEN "exited" ELSE "claim"
      /\ token'[w] = files[nas] /\ stale'[w] = 0 /\ Shapes'
      /\ \A v \in Workers \ {w} :
           pc'[v] = pc[v] /\ token'[v] = token[v] /\ stale'[v] = stale[v]
  BY <1>1, <1>2 DEF Shapes, Shape
<1>4. TokenOK(w)'
  BY <1>1, <1>2, <1>3 DEF TokenOK, FilesOK
<1>5. WatcherOK(w)'
  BY <1>1, <1>2, <1>3, <1>4 DEF WatcherOK, CallOK, StaleOK, Places, Working
<1>6. StraysOK'
  BY <1>1, <1>2, <1>3, StraysStay
<1> QED
  BY <1>2, <1>3, <1>5, <1>6, OneWatcher

\* A new request is of this process, and a receipt goes out after the window.
LEMMA SendStep ==
  ASSUME PilotInv, Onward, NEW w \in Workers, Send(w)
  PROVE  WatchersOK'
<1>1. /\ Shapes /\ StraysOK /\ WatcherOK(w)
      /\ pc[w] \in {"claim", "read", "check"} /\ call[w] = None
      /\ left \in Nat /\ rotations \in 0..MaxRotations
      /\ UNCHANGED <<left, files, rotations, pc, token, restarts, strays, stale>>
  BY PilotConstants DEF PilotInv, Globals, Send
<1>2. PICK r : /\ call' = [call EXCEPT ![w] = r]
               /\ r = [by |-> w, run |-> restarts[w], kind |-> Wanted(w),
                       token |-> token[w], admitted |-> FALSE, code |-> 0, mine |-> FALSE]
  BY DEF Send
<1>3. /\ Wanted(w) \in {"claim", "get_task", "heartbeat", "submit_receipt"}
      /\ Wanted(w) = "submit_receipt" => left = 0
      /\ pc[w] = "claim" => Wanted(w) = "claim"
      /\ pc[w] = "read" => Wanted(w) = "get_task"
      /\ pc[w] = "check" => Wanted(w) \in {"heartbeat", "submit_receipt"}
  BY <1>1 DEF Wanted
<1>4. r \in Call
  <2>1. PICK n \in 0..rotations : token[w] = Token("svc-hermes-nas", n)
    BY <1>1 DEF WatcherOK, TokenOK, nas
  <2>2. token[w] \in {Token("svc-hermes-nas", m) : m \in 0..MaxRotations}
    BY <1>1, <2>1, PilotConstants
  <2>3. restarts[w] \in Nat
    BY <1>1, PilotConstants DEF WatcherOK
  <2> QED
    BY <1>2, <1>3, <2>2, <2>3 DEF Call
<1>5. RequestOK(r)'
  BY <1>1, <1>2, <1>3, <1>4 DEF RequestOK, Call
<1>6. /\ call'[w] = r /\ Shapes'
      /\ \A v \in Workers \ {w} : call'[v] = call[v]
  BY <1>1, <1>2 DEF Shapes, Shape
<1>7. CallOK(w)'
  BY <1>1, <1>2, <1>3, <1>5, <1>6 DEF CallOK
<1>8. TokenOK(w)' /\ StaleOK(w)'
  BY <1>1, <1>2, <1>6 DEF WatcherOK, TokenOK, StaleOK
<1>9. WatcherOK(w)'
  BY <1>1, <1>7, <1>8 DEF WatcherOK, Onward
<1>10. StraysOK'
  BY <1>1, StraysStay
<1> QED
  BY <1>1, <1>6, <1>9, <1>10, OneWatcher

\* An answer leads a watcher to work on the task only if it owns it.
LEMMA ReceiveStep ==
  ASSUME PilotInv, Onward, NEW w \in Workers, Receive(w)
  PROVE  WatchersOK'
<1>1. /\ Shapes /\ StraysOK /\ WatcherOK(w) /\ RequestOK(call[w])
      /\ call[w] # None
      /\ UNCHANGED <<vars, left, files, rotations, token, restarts, strays, stale>>
  BY DEF PilotInv, Receive, WatcherOK, CallOK
<1>2. /\ pc' = [pc EXCEPT ![w] = NextPc(call[w])]
      /\ call' = [call EXCEPT ![w] = None]
      /\ UNCHANGED <<status, owner>>
  BY DEF Receive, vars, taskVars
<1>3. /\ pc'[w] = NextPc(call[w]) /\ call'[w] = None /\ Shapes'
      /\ \A v \in Workers \ {w} : pc'[v] = pc[v] /\ call'[v] = call[v]
  BY <1>1, <1>2 DEF Shapes, Shape
<1>4. /\ call[w].by = w
      /\ \/ pc[w] = "claim" /\ call[w].kind = "claim"
         \/ pc[w] = "read" /\ call[w].kind = "get_task"
         \/ pc[w] = "check" /\ call[w].kind \in {"heartbeat", "submit_receipt"}
  BY <1>1 DEF WatcherOK, CallOK
<1>5. /\ NextPc(call[w]) \in {"check", "read", "probe", "finished", "exited"}
      /\ NextPc(call[w]) \in {"check", "probe"} => owner[pilot] = w
      /\ NextPc(call[w]) = "finished" => status[pilot] = "done" /\ owner[pilot] = w
      /\ pc[w] = "check" /\ call[w].code # 200 => NextPc(call[w]) = "exited"
  BY <1>1, <1>4 DEF NextPc, RequestOK, WatcherOK, Working
<1>6. TokenOK(w)'
  BY <1>1, <1>3, <1>4 DEF WatcherOK, TokenOK
<1>7. StaleOK(w)'
  BY <1>1, <1>3, <1>4, <1>5 DEF WatcherOK, StaleOK
<1>8. WatcherOK(w)'
  BY <1>1, <1>2, <1>3, <1>5, <1>6, <1>7 DEF WatcherOK, CallOK, Places, Working
<1>9. pc[w] # "exited"
  BY <1>4
<1>10. StraysOK'
  BY <1>1, <1>3, <1>9, StraysStay
<1> QED
  BY <1>1, <1>3, <1>8, <1>10, OneWatcher

\* The first report under a replaced token is the last.
LEMMA ReportStep ==
  ASSUME PilotInv, Onward, NEW w \in Workers, Report(w)
  PROVE  WatchersOK'
<1>1. /\ Shapes /\ StraysOK /\ WatcherOK(w)
      /\ pc[w] = "probe" /\ call[w] = None /\ stale[w] = 0
      /\ UNCHANGED <<vars, left, files, rotations, token, restarts, call, strays>>
  BY DEF PilotInv, Report, WatcherOK, CallOK, StaleOK
<1>2. /\ pc' = [pc EXCEPT ![w] = "sleep"]
      /\ stale' = [stale EXCEPT ![w] = IF token[w] = files[nas] THEN @ ELSE @ + 1]
  BY DEF Report, nas
<1>3. /\ pc'[w] = "sleep" /\ stale'[w] = IF token[w] = files[nas] THEN 0 ELSE 1
      /\ Shapes'
      /\ \A v \in Workers \ {w} : pc'[v] = pc[v] /\ stale'[v] = stale[v]
  <2>1. PICK n \in {0, 1} : n = IF token[w] = files[nas] THEN 0 ELSE 1
    OBVIOUS
  <2>2. stale' = [stale EXCEPT ![w] = n]
    BY <1>1, <1>2, <2>1
  <2> QED
    BY <1>1, <1>2, <2>1, <2>2 DEF Shapes, Shape
<1>4. TokenOK(w)' /\ StaleOK(w)' /\ CallOK(w)'
  BY <1>1, <1>3 DEF WatcherOK, TokenOK, StaleOK, CallOK
<1>5. WatcherOK(w)'
  BY <1>1, <1>3, <1>4 DEF WatcherOK, Onward, Places, Working
<1>6. StraysOK'
  BY <1>1, <1>3, StraysStay
<1> QED
  BY <1>1, <1>3, <1>5, <1>6, OneWatcher

\* A process that ends leaves one request at most behind, the first of its life.
LEMMA FailStep ==
  ASSUME PilotInv, Onward, NEW w \in Workers, Fail(w)
  PROVE  WatchersOK'
<1>1. /\ Shapes /\ StraysOK /\ WatcherOK(w)
      /\ pc[w] \notin {"exited", "finished"}
      /\ UNCHANGED <<vars, left, files, rotations, token, restarts, stale>>
  BY DEF PilotInv, Fail
<1>2. /\ pc' = [pc EXCEPT ![w] = "exited"]
      /\ call' = [call EXCEPT ![w] = None]
      /\ strays' = IF call[w] # None /\ call[w].code = 0
                   THEN strays \cup {call[w]} ELSE strays
  BY DEF Fail, Abandon
<1>3. /\ pc'[w] = "exited" /\ call'[w] = None /\ Shapes'
      /\ \A v \in Workers \ {w} : pc'[v] = pc[v] /\ call'[v] = call[v]
  BY <1>1, <1>2 DEF Shapes, Shape
<1>4. TokenOK(w)' /\ StaleOK(w)' /\ CallOK(w)'
  BY <1>1, <1>3 DEF WatcherOK, TokenOK, StaleOK, CallOK
<1>5. WatcherOK(w)'
  BY <1>1, <1>3, <1>4 DEF WatcherOK, Places, Working
<1>6. ASSUME NEW q \in strays
      PROVE  StrayOK(q)' /\ ~(q.by = w /\ q.run = restarts[w])
  <2>1. StrayOK(q) /\ q.by \in Workers
    BY <1>1 DEF StraysOK, StrayOK, RequestOK, Call
  <2>2. RequestOK(q)'
    BY <2>1, RequestStays DEF StrayOK
  <2> QED
    BY <1>1, <1>3, <2>1, <2>2 DEF StrayOK
<1>7. CASE call[w] # None /\ call[w].code = 0
  <2>1. /\ strays' = strays \cup {call[w]} /\ RequestOK(call[w])
        /\ call[w].by = w /\ call[w].run = restarts[w]
    BY <1>1, <1>2, <1>7 DEF WatcherOK, CallOK
  <2>2. PICK q : q = call[w]
    OBVIOUS
  <2>3. StrayOK(q)'
    <3>1. RequestOK(q)'
      BY <2>1, <2>2, RequestStays
    <3>2. restarts[w] \in Nat
      BY <1>1, PilotConstants DEF WatcherOK
    <3> QED
      BY <1>1, <1>3, <1>7, <2>1, <2>2, <3>1, <3>2 DEF StrayOK
  <2>4. \A x \in strays' : StrayOK(x)'
    BY <1>6, <2>1, <2>2, <2>3
  <2>5. \A x, y \in strays' : x.by = y.by /\ x.run = y.run => x = y
    <3>1. \A x, y \in strays : x.by = y.by /\ x.run = y.run => x = y
      BY <1>1 DEF StraysOK
    <3> QED
      BY <1>6, <2>1, <2>2, <3>1
  <2>6. StraysOK'
    BY <2>4, <2>5 DEF StraysOK
  <2> QED
    BY <1>1, <1>3, <1>5, <2>6, OneWatcher
<1>8. CASE ~(call[w] # None /\ call[w].code = 0)
  <2>1. strays' = strays
    BY <1>2, <1>8
  <2>2. StraysOK'
    BY <1>1, <1>3, <2>1, StraysStay
  <2> QED
    BY <1>1, <1>3, <1>5, <2>2, OneWatcher
<1> QED
  BY <1>7, <1>8

\* A new life: what is left behind belongs to the lives before.
LEMMA RestartStep ==
  ASSUME PilotInv, Onward, NEW w \in Workers, Restart(w)
  PROVE  WatchersOK'
<1>1. /\ Shapes /\ StraysOK /\ WatcherOK(w)
      /\ pc[w] = "exited" /\ call[w] = None
      /\ restarts[w] \in Nat /\ restarts[w] + 1 \in 0..MaxRestarts[w]
      /\ UNCHANGED <<vars, left, files, rotations, token, call, strays, stale>>
  BY PilotConstants DEF PilotInv, Restart, WatcherOK, CallOK
<1>2. /\ pc' = [pc EXCEPT ![w] = "boot"]
      /\ restarts' = [restarts EXCEPT ![w] = @ + 1]
  BY DEF Restart
<1>3. /\ pc'[w] = "boot" /\ restarts'[w] = restarts[w] + 1 /\ Shapes'
      /\ \A v \in Workers \ {w} : pc'[v] = pc[v] /\ restarts'[v] = restarts[v]
  BY <1>1, <1>2 DEF Shapes, Shape
<1>4. TokenOK(w)' /\ StaleOK(w)' /\ CallOK(w)'
  BY <1>1, <1>3 DEF WatcherOK, TokenOK, StaleOK, CallOK
<1>5. WatcherOK(w)'
  BY <1>1, <1>3, <1>4 DEF WatcherOK, Places, Working
<1>6. ASSUME NEW q \in strays
      PROVE  StrayOK(q)'
  <2>1. StrayOK(q) /\ q.by \in Workers /\ q.run \in Nat
    BY <1>1 DEF StraysOK, StrayOK, RequestOK, Call
  <2>2. RequestOK(q)'
    BY <2>1, RequestStays DEF StrayOK
  <2> QED
    BY <1>1, <1>3, <2>1, <2>2 DEF StrayOK
<1>7. StraysOK'
  BY <1>1, <1>6 DEF StraysOK
<1> QED
  BY <1>1, <1>3, <1>5, <1>7, OneWatcher

-----------------------------------------------------------------------------
\* A token file is emptied: a token read before is older than the next.
LEMMA EmptyFileStep ==
  ASSUME PilotInv, Onward, NEW p \in DOMAIN files, EmptyFile(p)
  PROVE  WatchersOK' /\ FilesOK' /\ rotations' \in 0..MaxRotations
<1>1. /\ Shapes /\ StraysOK /\ FilesOK
      /\ rotations \in Nat /\ rotations' = rotations + 1
      /\ rotations + 1 \in 0..MaxRotations
      /\ files[p] # NoToken /\ files' = [files EXCEPT ![p] = NoToken]
      /\ UNCHANGED <<left, pc, token, restarts, call, stale, strays>>
  BY PilotConstants DEF PilotInv, Globals, EmptyFile, watcherVars
<1>2. /\ files'[p] = NoToken /\ DOMAIN files' = DOMAIN files
      /\ nas \in DOMAIN files
      /\ \A o \in DOMAIN files \ {p} : files'[o] = files[o]
  BY <1>1 DEF FilesOK
<1>3. FilesOK'
  BY <1>1, <1>2 DEF FilesOK
<1>4. ASSUME NEW w \in Workers
      PROVE  WatcherOK(w)'
  <2>1. WatcherOK(w)
    BY DEF PilotInv
  <2>2. CallOK(w)'
    BY <1>1, <2>1, RequestStays DEF WatcherOK, CallOK
  <2>3. TokenOK(w)'
    <3>1. CASE token[w] = NoToken
      BY <1>1, <2>1, <3>1 DEF WatcherOK, TokenOK
    <3>2. CASE token[w] # NoToken
      <4>1. PICK n \in 0..rotations : token[w] = Token(nas, n)
        BY <2>1, <3>2 DEF WatcherOK, TokenOK
      <4>2. n \in 0..rotations' /\ n < rotations'
        BY <1>1
      <4> QED
        BY <1>1, <2>1, <4>1, <4>2 DEF WatcherOK, TokenOK
    <3> QED
      BY <3>1, <3>2
  <2>4. StaleOK(w)'
    BY <1>1, <1>2, <2>1 DEF WatcherOK, StaleOK, TokenOK
  <2> QED
    BY <1>1, <2>1, <2>2, <2>3, <2>4 DEF WatcherOK, Onward
<1>5. StraysOK' /\ Shapes'
  BY <1>1, StraysStay DEF Shapes, Shape
<1> QED
  BY <1>1, <1>3, <1>4, <1>5 DEF WatchersOK

\* A token file is written: no process has the new token yet.
LEMMA WriteFileStep ==
  ASSUME PilotInv, Onward, NEW p \in DOMAIN files, WriteFile(p)
  PROVE  WatchersOK' /\ FilesOK' /\ rotations' \in 0..MaxRotations
<1>1. /\ Shapes /\ StraysOK /\ FilesOK
      /\ rotations \in Nat /\ rotations \in 0..MaxRotations
      /\ files[p] = NoToken /\ files' = [files EXCEPT ![p] = Token(p, rotations)]
      /\ UNCHANGED <<left, rotations, pc, token, restarts, call, stale, strays>>
  BY PilotConstants DEF PilotInv, Globals, WriteFile, watcherVars
<1>2. /\ files'[p] = Token(p, rotations) /\ DOMAIN files' = DOMAIN files
      /\ nas \in DOMAIN files
      /\ \A o \in DOMAIN files \ {p} : files'[o] = files[o]
  BY <1>1 DEF FilesOK
<1>3. FilesOK'
  <2>1. ASSUME NEW o \in DOMAIN files, files'[o] # NoToken
        PROVE  \E n \in 0..rotations' : files'[o] = Token(o, n)
    <3>1. CASE o = p
      BY <1>1, <1>2, <3>1
    <3>2. CASE o # p
      BY <1>1, <1>2, <2>1, <3>2 DEF FilesOK
    <3> QED
      BY <3>1, <3>2
  <2>2. files' = [o \in {"svc-panda-orchestrator", nas} |-> files'[o]]
    BY <1>1, <1>2 DEF FilesOK
  <2> QED
    BY <1>2, <2>1, <2>2 DEF FilesOK
<1>4. ASSUME NEW w \in Workers
      PROVE  WatcherOK(w)'
  <2>1. WatcherOK(w)
    BY DEF PilotInv
  <2>2. CallOK(w)'
    BY <1>1, <2>1, RequestStays DEF WatcherOK, CallOK
  <2>3. /\ token[w] # NoToken => /\ \E n \in 0..rotations : token[w] = Token(nas, n)
                                 /\ p = nas => token[w] # files'[nas]
        /\ files'[nas] = NoToken => files[nas] = NoToken
    <3>1. CASE token[w] = NoToken
      BY <1>1, <1>2, <3>1, Tokens
    <3>2. CASE token[w] # NoToken
      <4>1. PICK n \in 0..rotations : /\ token[w] = Token(nas, n)
                                      /\ files[nas] = NoToken => n < rotations
        BY <2>1, <3>2 DEF WatcherOK, TokenOK
      <4>2. p = nas => Token(nas, n) # Token(nas, rotations)
        BY <1>1, <4>1, Tokens
      <4> QED
        BY <1>1, <1>2, <4>1, <4>2, Tokens
    <3> QED
      BY <3>1, <3>2
  <2>4. TokenOK(w)'
    BY <1>1, <2>1, <2>3 DEF WatcherOK, TokenOK
  <2>5. StaleOK(w)'
    BY <1>1, <1>2, <2>1, <2>3 DEF WatcherOK, StaleOK, TokenOK
  <2> QED
    BY <1>1, <2>1, <2>2, <2>4, <2>5 DEF WatcherOK, Onward
<1>5. StraysOK' /\ Shapes'
  BY <1>1, StraysStay DEF Shapes, Shape
<1> QED
  BY <1>1, <1>3, <1>4, <1>5 DEF WatchersOK

\* Time wakes the sleepers.
LEMMA ClockStep ==
  ASSUME PilotInv, Onward, Clock
  PROVE  WatchersOK'
<1>1. /\ Shapes /\ StraysOK
      /\ pc' = [w \in Workers |-> IF pc[w] = "sleep" THEN "check" ELSE pc[w]]
      /\ UNCHANGED <<files, rotations, token, restarts, call, strays, stale>>
  BY DEF PilotInv, Clock
<1>2. ASSUME NEW w \in Workers
      PROVE  WatcherOK(w)'
  <2>1. WatcherOK(w) /\ pc'[w] = IF pc[w] = "sleep" THEN "check" ELSE pc[w]
    BY <1>1 DEF PilotInv
  <2>2. CallOK(w)'
    BY <1>1, <2>1, RequestStays DEF WatcherOK, CallOK
  <2>3. TokenOK(w)'
    BY <1>1, <2>1 DEF WatcherOK, TokenOK
  <2>4. StaleOK(w)'
    BY <1>1, <2>1 DEF WatcherOK, StaleOK, CallOK
  <2> QED
    BY <1>1, <2>1, <2>2, <2>3, <2>4 DEF WatcherOK, Onward, Places, Working
<1>3. Shapes'
  BY <1>1 DEF Shapes, Shape
<1>4. StraysOK'
  BY <1>1, StraysStay
<1> QED
  BY <1>2, <1>3, <1>4 DEF WatchersOK

\* The rest: no watcher moves.
LEMMA QuietStep ==
  ASSUME PilotInv, Onward, strays' \subseteq strays,
         UNCHANGED <<files, rotations, pc, token, restarts, call, stale>>
  PROVE  WatchersOK'
<1>1. Shapes /\ StraysOK /\ \A w \in Workers : WatcherOK(w)
  BY DEF PilotInv
<1>2. \A w \in Workers : WatcherOK(w)'
  BY <1>1, Bystander
<1>3. StraysOK' /\ Shapes'
  BY <1>1, StraysStay DEF Shapes, Shape
<1> QED
  BY <1>2, <1>3 DEF WatchersOK

-----------------------------------------------------------------------------
\* The pilot starts in the invariant.
LEMMA InitInv == PilotInit => PilotInv
<1> SUFFICES ASSUME PilotInit
             PROVE  PilotInv
  OBVIOUS
<1>1. TypeOK
  BY InitType DEF PilotInit
<1>2. RowOK
  BY PilotConstants DEF PilotInit, Init, RowOK
<1>3. FilesOK
  BY DEF PilotInit, FilesOK, nas
<1>4. left \in 0..Window /\ rotations \in 0..MaxRotations
  BY PilotConstants DEF PilotInit
<1>5. StraysOK /\ Shapes
  BY DEF PilotInit, StraysOK, Shapes, Shape
<1>6. ASSUME NEW w \in Workers
      PROVE  WatcherOK(w)
  BY PilotConstants DEF PilotInit, WatcherOK, TokenOK, CallOK, StaleOK, Places, Working
<1> QED
  BY <1>1, <1>2, <1>3, <1>4, <1>5, <1>6 DEF PilotInv, Globals

\* Every step keeps the invariant.
LEMMA InvStep == PilotInv /\ [PilotNext]_pilotVars => PilotInv'
<1> SUFFICES ASSUME PilotInv, [PilotNext]_pilotVars
             PROVE  PilotInv'
  OBVIOUS
<1> DEFINE Kept == WatchersOK' /\ FilesOK' /\ rotations' \in 0..MaxRotations
<1>1. Onward /\ TypeOK' /\ RowOK' /\ left' \in 0..Window
  BY StoreKept
<1>2. UNCHANGED <<files, rotations>> => FilesOK' /\ rotations' \in 0..MaxRotations
  BY DEF PilotInv, Globals, FilesOK
<1>3. CASE Seed \/ Sweep \/ UNCHANGED pilotVars
  <2>1. UNCHANGED <<files, rotations, pc, token, restarts, call, stale, strays>>
    BY <1>3 DEF Seed, Sweep, pilotVars, watcherVars
  <2> QED
    BY <1>1, <1>2, <2>1, QuietStep DEF PilotInv, Globals, WatchersOK
<1>4. CASE Clock
  BY <1>1, <1>2, <1>4, ClockStep DEF Clock, PilotInv, Globals, WatchersOK
<1>5. ASSUME NEW q \in UnderWay, Authenticate(q) \/ Handle(q)
      PROVE  Kept
  <2>1. UNCHANGED <<files, rotations>>
    BY <1>5 DEF Authenticate, Handle
  <2> QED
    BY <1>1, <1>2, <1>5, <2>1, AuthenticateStep, HandleStep DEF WatchersOK
<1>6. ASSUME NEW w \in Workers, Step(w) \/ Fail(w)
      PROVE  Kept
  <2>1. UNCHANGED <<files, rotations>>
    BY <1>6 DEF Step, Boot, Send, Receive, Report, Restart, Fail
  <2> QED
    BY <1>1, <1>2, <1>6, <2>1, BootStep, SendStep, ReceiveStep, ReportStep,
       RestartStep, FailStep
    DEF Step
<1>7. ASSUME NEW q \in strays, Lose(q)
      PROVE  Kept
  <2>1. /\ strays' \subseteq strays
        /\ UNCHANGED <<files, rotations, pc, token, restarts, call, stale>>
    BY <1>7 DEF Lose, watcherVars
  <2> QED
    BY <1>1, <1>2, <2>1, QuietStep
<1>8. ASSUME NEW p \in DOMAIN files, EmptyFile(p) \/ WriteFile(p)
      PROVE  Kept
  BY <1>1, <1>8, EmptyFileStep, WriteFileStep
<1>9. Kept => PilotInv'
  BY <1>1 DEF PilotInv, Globals, WatchersOK
<1> HIDE DEF Kept
<1> QED
  BY <1>3, <1>4, <1>5, <1>6, <1>7, <1>8, <1>9 DEF PilotNext, Serve

\* So the invariant holds throughout.
LEMMA PilotInvariant == PilotSpec => []PilotInv
BY InitInv, InvStep, PTL DEF PilotSpec

\* The pilot is a client of the store like any other: it uses it as the API
\* lets it, and the promises of the store to the API's users hold for it.
THEOREM PilotUsesApi == PilotSpec => ApiSpec /\ ImplementsAuthority
<1>1. PilotInit => Init
  BY DEF PilotInit
<1>2. PilotInv /\ [PilotNext]_pilotVars => [ApiNext]_vars
  BY StoreSteps, StoreStepIsApi
<1>3. PilotSpec => ApiSpec
  BY <1>1, <1>2, PilotInvariant, PTL DEF PilotSpec, ApiSpec
<1> QED
  BY <1>3, StoreImplementsAuthority, PTL

\* The types of the pilot: a process waits only where it has asked, and a dead
\* process leaves one request per life at most.
THEOREM PilotTypes == PilotSpec => []PilotTypeOK
<1>1. PilotInv => PilotTypeOK
  BY DEF PilotInv, Globals, PilotTypeOK, WatcherOK, CallOK, RequestOK, Places,
         StraysOK, StrayOK
<1> QED
  BY <1>1, PilotInvariant, PTL

\* The task runs once, and whoever beats and reports owns it.
THEOREM RunsOnce == PilotSpec => []OneRun
<1>1. PilotInv => OneRun
  BY DEF PilotInv, Globals, OneRun, RowOK, WatcherOK, Working
<1> QED
  BY <1>1, PilotInvariant, PTL

\* A watcher that ends with success has completed the task, after the window.
THEOREM CompletesReally == PilotSpec => []CompletionIsReal
<1>1. PilotInv => CompletionIsReal
  BY DEF PilotInv, Globals, CompletionIsReal, RowOK, WatcherOK
<1> QED
  BY <1>1, PilotInvariant, PTL

\* A replaced token gets at most one more report through.
THEOREM RevokesInTime == PilotSpec => []RevocationBites
<1>1. PilotInv => RevocationBites
  BY DEF PilotInv, RevocationBites, WatcherOK, StaleOK
<1> QED
  BY <1>1, PilotInvariant, PTL

=============================================================================
