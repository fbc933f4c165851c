-------------------------- MODULE TxnRecordProofs --------------------------
(***************************************************************************)
(* What the commits of TxnStore make of the rows, receipts, dead letters,  *)
(* recovery cards and circuits.  By the invariant of TxnStoreProofs a call *)
(* decides on the row as it is, so each commit moves its task by one of    *)
(* nine moves, whatever else is under way; the theorems follow from them.  *)
(***************************************************************************)
EXTENDS TxnStoreProofs

\* No receipt, dead letter or recovery card is added.
KeepsRecords(t) ==
  /\ receipts'[t] = receipts[t]
  /\ deadLetters'[t] = deadLetters[t] /\ recoveryCards'[t] = recoveryCards[t]
  /\ cleared'[t] = cleared[t]

\* The nine moves.  The step is about something else;
Rests(t) == rows'[t] = rows[t] /\ asked'[t] = asked[t] /\ KeepsRecords(t)

\* create_task;
Created(t) ==
  /\ rows[t].status = "absent"
  /\ rows'[t] = [rows[t] EXCEPT !.status = "ready"]
  /\ asked'[t] = asked[t] /\ KeepsRecords(t)

\* claim, by the connection that ends in this step;
Claimed(t) ==
  /\ rows[t].status = "ready"
  /\ \E x \in Txns :
       /\ txn[x].kind = "claim" /\ txn[x].task = t /\ txn[x].worker \in Workers
       /\ txn'[x] = Idle
       /\ rows'[t] = [status |-> "claimed", owner |-> txn[x].worker,
                      attempts |-> rows[t].attempts + 1, leased |-> TRUE]
  /\ asked'[t] = asked[t] /\ KeepsRecords(t)

\* report_failure, decided on the row as it is;
Reported(t) ==
  /\ rows[t].status \in ExecutionStates
  /\ asked'[t] = asked[t] /\ receipts'[t] = receipts[t]
  /\ \E r : LET target == FailureTarget(t, rows[t], r)
            IN  /\ rows'[t] = Leave(rows[t], target)
                /\ deadLetters'[t] = IF target = "failed" THEN deadLetters[t] + 1
                                                          ELSE deadLetters[t]
                /\ recoveryCards'[t] = IF target = "recovery_required"
                                       THEN recoveryCards[t] + 1 ELSE recoveryCards[t]
                /\ cleared'[t] = IF r.side = "unknown" THEN cleared[t] ELSE cleared[t] + 1

\* submit_receipt;
Submitted(t) ==
  /\ rows[t].status \in ExecutionStates
  /\ \E w \in Workers, outcome \in Outcomes :
       /\ rows'[t] = Leave(rows[t], ReceiptTarget(t, outcome))
       /\ receipts'[t] = Append(receipts[t], [worker |-> w, outcome |-> outcome])
  /\ asked'[t] = asked[t]
  /\ deadLetters'[t] = deadLetters[t] /\ recoveryCards'[t] = recoveryCards[t]
  /\ cleared'[t] = cleared[t]

\* request_approval;
Requested(t) ==
  /\ rows[t].status = "review"
  /\ rows'[t] = Leave(rows[t], "awaiting_approval")
  /\ asked'[t] = "requested" /\ KeepsRecords(t)

\* decide_approval;
Decided(t) ==
  /\ asked[t] = "requested"
  /\ \E decision \in Decisions :
       /\ asked'[t] = decision
       /\ rows'[t] = Leave(rows[t], IF decision = "approved" THEN "done" ELSE "blocked")
  /\ KeepsRecords(t)

\* expire_leases;
Expired(t) ==
  /\ rows[t].status \in ExecutionStates
  /\ rows'[t] = [rows[t] EXCEPT !.status = "recovery_required"]
  /\ asked'[t] = asked[t] /\ receipts'[t] = receipts[t]
  /\ deadLetters'[t] = deadLetters[t] /\ recoveryCards'[t] = recoveryCards[t] + 1
  /\ cleared'[t] = cleared[t]

\* release_due_retries.
Released(t) ==
  /\ rows[t].status = "retry_wait"
  /\ rows'[t] = [rows[t] EXCEPT !.status = "ready", !.owner = None]
  /\ asked'[t] = asked[t] /\ KeepsRecords(t)

\* What a step does to a task.
Moved(t) ==
  \/ Rests(t) \/ Created(t) \/ Claimed(t) \/ Reported(t) \/ Submitted(t)
  \/ Requested(t) \/ Decided(t) \/ Expired(t) \/ Released(t)

\* Only a review may become an approval request.
LEMMA ReviewOnly ==
  ASSUME NEW s \in TaskStatus, "awaiting_approval" \in TRANSITIONS[s]
  PROVE  s = "review"
BY DEF TRANSITIONS, TaskStatus

\* A call writes one row only.
LEMMA OthersRest ==
  ASSUME TypeOK, NEW t \in Tasks, NEW u \in Tasks \ {t},
         \E row : rows' = [rows EXCEPT ![t] = row],
         asked' = asked \/ \E a : asked' = [asked EXCEPT ![t] = a],
         receipts' = receipts \/ \E s : receipts' = [receipts EXCEPT ![t] = s],
         deadLetters' = deadLetters \/ \E n : deadLetters' = [deadLetters EXCEPT ![t] = n],
         recoveryCards' = recoveryCards
           \/ \E n : recoveryCards' = [recoveryCards EXCEPT ![t] = n],
         cleared' = cleared \/ \E n : cleared' = [cleared EXCEPT ![t] = n]
  PROVE  Moved(u)
<1>1. /\ rows'[u] = rows[u] /\ asked'[u] = asked[u] /\ receipts'[u] = receipts[u]
      /\ deadLetters'[u] = deadLetters[u] /\ recoveryCards'[u] = recoveryCards[u]
      /\ cleared'[u] = cleared[u]
  BY DEF TypeOK
<1> QED
  BY <1>1 DEF Moved, Rests, KeepsRecords

\* The checks of a call have passed on the row as it is.
LEMMA Passed ==
  ASSUME IInv, NEW x \in Txns, NEW kind \in Calls, Ready(x, kind)
  PROVE  LET t == txn[x].task
             row == rows[t]
         IN  /\ t \in Tasks /\ txn[x].seen = row /\ row \in Rows
             /\ row.status \in TaskStatus
             /\ kind = "claim" => row.status = "ready" /\ txn[x].worker \in Workers
             /\ kind \in CircuitUsers => row.status \in ExecutionStates
             /\ kind = "submit_receipt" => txn[x].worker \in Workers
             /\ kind = "request_approval" => row.status = "review"
             /\ kind = "decide_approval" => asked[t] = "requested"
<1> DEFINE t == txn[x].task
           row == rows[t]
<1>1. /\ t \in Tasks /\ txn[x].seen = row /\ row \in Rows /\ Exists(t)
      /\ CallOK(x) /\ ~Refused(x) /\ txn[x].kind = kind /\ txn[x].want = <<>>
  BY AtReady DEF IInv, Ready
<1>2. row.status \in TaskStatus /\ row # None
  BY <1>1, TxnConstants DEF Rows, Exists
<1>3. CASE kind = "claim"
  BY <1>1, <1>2, <1>3 DEF Refused, Claimable, CallOK, CircuitUsers
<1>4. CASE kind \in CircuitUsers
  BY <1>1, <1>2, <1>4 DEF Refused, Answerable, CallOK, CircuitUsers
<1>5. CASE kind = "request_approval"
  BY <1>1, <1>2, <1>5, ReviewOnly DEF Refused, CircuitUsers
<1>6. CASE kind = "decide_approval"
  <2>1. locks[Approval(t)] = x
    BY <1>1, <1>6, Lists DEF CallOK, Decides
  <2> QED
    BY <1>1, <1>2, <1>6, <2>1 DEF Refused, Holds, CircuitUsers
<1>7. CASE kind = "heartbeat"
  BY <1>1, <1>2, <1>7 DEF CircuitUsers
<1> QED
  BY <1>3, <1>4, <1>5, <1>6, <1>7 DEF Calls, CircuitUsers

\* A failure report moves its task and no other.
LEMMA FailTaskMoves ==
  ASSUME IInv, NEW x \in Txns, Ready(x, "report_failure"), NEW r,
         FailTask(txn[x].task, txn[x].seen, r), UNCHANGED <<asked, receipts>>,
         NEW u \in Tasks
  PROVE  Moved(u)
<1> DEFINE t == txn[x].task
           target == FailureTarget(t, rows[t], r)
<1>1. /\ t \in Tasks /\ txn[x].seen = rows[t] /\ rows[t].status \in ExecutionStates
      /\ TypeOK
  BY Passed DEF Calls, CircuitUsers, IInv
<1>2. /\ rows' = [rows EXCEPT ![t] = Leave(rows[t], target)]
      /\ deadLetters' = [deadLetters EXCEPT
           ![t] = IF target = "failed" THEN deadLetters[t] + 1 ELSE deadLetters[t]]
      /\ recoveryCards' = [recoveryCards EXCEPT
           ![t] = IF target = "recovery_required" THEN recoveryCards[t] + 1
                                                  ELSE recoveryCards[t]]
      /\ cleared' = [cleared EXCEPT
           ![t] = IF r.side = "unknown" THEN cleared[t] ELSE cleared[t] + 1]
  BY <1>1 DEF FailTask, TypeOK
<1>3. CASE u = t
  BY <1>1, <1>2, <1>3 DEF Moved, Reported, TypeOK
<1>4. CASE u # t
  BY <1>1, <1>2, <1>4, OthersRest
<1> QED
  BY <1>3, <1>4

\* Each commit moves each task by one of the moves.
LEMMA CommitMoves ==
  ASSUME IInv, NEW x \in Txns, Commit(x), NEW u \in Tasks
  PROVE  Moved(u)
<1> DEFINE t == txn[x].task
<1>0. TypeOK /\ DbType
  BY TypeParts DEF IInv
<1>1. CASE CommitClaim(x)
  <2>1. /\ t \in Tasks /\ rows[t].status = "ready" /\ txn[x].worker \in Workers
    BY <1>1, Passed DEF CommitClaim, Calls
  <2>a. txn[x].kind = "claim" /\ txn'[x] = Idle
    BY <1>0, <1>1, EndEffect DEF CommitClaim, Ready
  <2>2. /\ rows' = [rows EXCEPT
                      ![t] = [status |-> "claimed", owner |-> txn[x].worker,
                              attempts |-> rows[t].attempts + 1, leased |-> TRUE]]
        /\ UNCHANGED <<asked, receipts, deadLetters, recoveryCards, cleared>>
    BY <1>0, <1>1, <2>1 DEF CommitClaim, DbType
  <2>3. CASE u = t
    BY <1>0, <2>1, <2>2, <2>3, <2>a DEF Moved, Claimed, KeepsRecords, DbType
  <2> QED
    BY <1>0, <2>1, <2>2, <2>3, OthersRest
<1>2. CASE CommitHeartbeat(x)
  BY <1>2 DEF CommitHeartbeat, Moved, Rests, KeepsRecords
<1>3. ASSUME NEW r \in Reports, CommitFailure(x, r)
      PROVE  Moved(u)
  BY <1>3, FailTaskMoves DEF CommitFailure
<1>4. CASE CommitCircuitFailure(x)
  BY <1>4, FailTaskMoves DEF CommitCircuitFailure
<1>5. ASSUME NEW outcome \in Outcomes, CommitReceipt(x, outcome)
      PROVE  Moved(u)
  <2> DEFINE receipt == [worker |-> txn[x].worker, outcome |-> outcome]
  <2>1. /\ t \in Tasks /\ rows[t].status \in ExecutionStates /\ txn[x].worker \in Workers
        /\ txn[x].seen = rows[t]
    BY <1>5, Passed DEF CommitReceipt, Calls, CircuitUsers
  <2>2. /\ rows' = [rows EXCEPT ![t] = Leave(rows[t], ReceiptTarget(t, outcome))]
        /\ receipts' = [receipts EXCEPT ![t] = Append(receipts[t], receipt)]
        /\ UNCHANGED <<asked, deadLetters, recoveryCards, cleared>>
    BY <1>0, <1>5, <2>1 DEF CommitReceipt, DbType
  <2>3. CASE u = t
    BY <1>0, <2>1, <2>2, <2>3 DEF Moved, Submitted, DbType
  <2> QED
    BY <1>0, <2>1, <2>2, <2>3, OthersRest
<1>6. CASE CommitRequest(x)
  <2>1. t \in Tasks /\ rows[t].status = "review" /\ txn[x].seen = rows[t]
    BY <1>6, Passed DEF CommitRequest, Calls
  <2>2. /\ rows' = [rows EXCEPT ![t] = Leave(rows[t], "awaiting_approval")]
        /\ asked' = [asked EXCEPT ![t] = "requested"]
        /\ UNCHANGED <<receipts, deadLetters, recoveryCards, cleared>>
    BY <1>6, <2>1 DEF CommitRequest
  <2>3. CASE u = t
    BY <1>0, <2>1, <2>2, <2>3 DEF Moved, Requested, KeepsRecords, DbType
  <2> QED
    BY <1>0, <2>1, <2>2, <2>3, OthersRest
<1>7. ASSUME NEW decision \in Decisions, CommitDecision(x, decision)
      PROVE  Moved(u)
  <2> DEFINE target == IF decision = "approved" THEN "done" ELSE "blocked"
  <2>1. t \in Tasks /\ asked[t] = "requested" /\ txn[x].seen = rows[t]
    BY <1>7, Passed DEF CommitDecision, Calls
  <2>2. /\ rows' = [rows EXCEPT ![t] = Leave(rows[t], target)]
        /\ asked' = [asked EXCEPT ![t] = decision]
        /\ UNCHANGED <<receipts, deadLetters, recoveryCards, cleared>>
    BY <1>7, <2>1 DEF CommitDecision
  <2>3. CASE u = t
    BY <1>0, <2>1, <2>2, <2>3 DEF Moved, Decided, KeepsRecords, DbType
  <2> QED
    BY <1>0, <2>1, <2>2, <2>3, OthersRest
<1>8. CASE CommitExpiry(x)
  <2>1. txn[x].kind = "expire_leases"
    BY <1>8 DEF CommitExpiry, Ready
  <2>2. \A v \in txn[x].took : rows[v].status \in ExecutionStates
    BY <1>0, <2>1, TookLocked DEF Swept, Sweeps, IInv
  <2> QED
    BY <1>0, <1>8, <2>2
    DEF CommitExpiry, Moved, Rests, Expired, KeepsRecords, DbType
<1>9. CASE CommitRelease(x)
  <2>1. txn[x].kind = "release_due_retries"
    BY <1>9 DEF CommitRelease, Ready
  <2>2. \A v \in txn[x].took : rows[v].status = "retry_wait"
    BY <1>0, <2>1, TookLocked DEF Swept, Sweeps, IInv
  <2> QED
    BY <1>0, <1>9, <2>2
    DEF CommitRelease, Moved, Rests, Released, KeepsRecords, DbType
<1> QED
  BY <1>1, <1>2, <1>3, <1>4, <1>5, <1>6, <1>7, <1>8, <1>9 DEF Commit

\* Every step moves every task by one of the moves.
LEMMA StepMoves ==
  ASSUME IInv, [Next]_vars, NEW u \in Tasks
  PROVE  Moved(u)
<1> DEFINE Quiet == UNCHANGED <<rows, asked, receipts, deadLetters, recoveryCards,
                              cleared>>
<1>1. CASE Quiet
  BY <1>1 DEF Moved, Rests, KeepsRecords
<1>2. ASSUME NEW t \in Tasks, CreateTask(t)
      PROVE  Moved(u)
  <2>1. /\ rows[t].status = "absent"
        /\ rows' = [rows EXCEPT ![t] = [rows[t] EXCEPT !.status = "ready"]]
        /\ UNCHANGED <<asked, receipts, deadLetters, recoveryCards, cleared>> /\ TypeOK
    BY <1>2 DEF CreateTask, Exists, IInv, TypeOK
  <2>2. CASE u = t
    BY <2>1, <2>2 DEF Moved, Created, KeepsRecords, TypeOK
  <2> QED
    BY <2>1, <2>2, OthersRest
<1>3. ASSUME NEW x \in Txns, Commit(x)
      PROVE  Moved(u)
  BY <1>3, CommitMoves
<1>4. CASE \E t \in Tasks : Lapse(t)
  BY <1>1, <1>4 DEF Lapse
<1>5. CASE \E k \in Routes : CoolDown(k)
  BY <1>1, <1>5 DEF CoolDown
<1>6. ASSUME NEW x \in Txns, Begin(x)
      PROVE  Moved(u)
  <2>1. UNCHANGED db
    BY <1>6 DEF Begin, BeginClaim, BeginHeartbeat, BeginAnswer, BeginRequest,
                BeginDecision, BeginSweep, Start, ReadReceipts
  <2> QED
    BY <1>1, <2>1 DEF db
<1>7. ASSUME NEW x \in Txns,
             \/ Acquire(x) \/ Refuse(x) \/ Abort(x) \/ WantClosing(x)
             \/ \E r \in Reports : WantCircuit(x, r)
             \/ ReadFlow(x) \/ ReadRisks(x)
      PROVE  Moved(u)
  <2>1. UNCHANGED db
    BY <1>7 DEF Acquire, Refuse, Abort, WantClosing, WantCircuit, ReadFlow, ReadRisks
  <2> QED
    BY <1>1, <2>1 DEF db
<1>8. CASE UNCHANGED vars
  BY <1>1, <1>8 DEF vars, db
<1> QED
  BY <1>2, <1>3, <1>4, <1>5, <1>6, <1>7, <1>8 DEF Next

-----------------------------------------------------------------------------
(* The records that go with a status.                                      *)

\* The statuses of a task whose worker has given its receipt.
Past == {"review", "awaiting_approval", "done", "failed", "blocked"}

\* What the attempts, cleared or not, and the approval of a task say about its
\* status.
Budgeted(t) ==
  /\ asked[t] = "requested" => rows[t].status = "awaiting_approval"
  /\ rows[t].status = "absent" => rows[t].attempts = 0 /\ rows[t].owner = None
  /\ rows[t].status \in {"ready", "retry_wait"} => rows[t].attempts < MaxAttempts[t]
  /\ rows[t].status \in {"absent", "ready", "retry_wait"} => cleared[t] = rows[t].attempts
  /\ rows[t].status \in ExecutionStates => cleared[t] + 1 = rows[t].attempts

\* A failed task without a receipt has a dead letter,
NoReceipt(t) ==
  /\ receipts[t] = <<>>
  /\ deadLetters[t] = IF rows[t].status = "failed" THEN 1 ELSE 0

\* and one with a receipt has none.
OneReceipt(t) ==
  /\ deadLetters[t] = 0 /\ rows[t].status \in Past
  /\ \E w \in Workers, outcome \in Outcomes :
       /\ receipts[t] = <<[worker |-> w, outcome |-> outcome]>>
       /\ outcome = "failed" <=> rows[t].status = "failed"

\* The records of a task go with its status.
Recorded(t) ==
  /\ recoveryCards[t] = IF rows[t].status = "recovery_required" THEN 1 ELSE 0
  /\ NoReceipt(t) \/ OneReceipt(t)

\* The inductive invariant of this module.
RecordInv == IInv /\ \A t \in Tasks : Budgeted(t) /\ Recorded(t)

\* The fields of a row after each move.
LEMMA MovedRow ==
  ASSUME IInv, NEW t \in Tasks
  PROVE  /\ Created(t) => /\ rows'[t].status = "ready" /\ rows'[t].owner = rows[t].owner
                          /\ rows'[t].attempts = rows[t].attempts
         /\ Claimed(t) => /\ rows'[t].status = "claimed" /\ rows'[t].owner \in Workers
                          /\ rows'[t].attempts = rows[t].attempts + 1
         /\ Reported(t) =>
              /\ rows'[t].owner = rows[t].owner /\ rows'[t].attempts = rows[t].attempts
              /\ rows'[t].status \in {"recovery_required", "retry_wait", "failed",
                                      "awaiting_decision", "blocked"}
              /\ rows'[t].status = "retry_wait" => rows[t].attempts < MaxAttempts[t]
              /\ deadLetters'[t] = IF rows'[t].status = "failed"
                                   THEN deadLetters[t] + 1 ELSE deadLetters[t]
              /\ recoveryCards'[t] = IF rows'[t].status = "recovery_required"
                                     THEN recoveryCards[t] + 1 ELSE recoveryCards[t]
              /\ cleared'[t] \in {cleared[t], cleared[t] + 1}
              /\ rows'[t].status = "retry_wait" => cleared'[t] = cleared[t] + 1
         /\ Submitted(t) =>
              /\ rows'[t].owner = rows[t].owner /\ rows'[t].attempts = rows[t].attempts
              /\ rows'[t].status \in {"review", "done", "failed", "blocked"}
              /\ \E w \in Workers, outcome \in Outcomes :
                   /\ receipts'[t] = Append(receipts[t], [worker |-> w, outcome |-> outcome])
                   /\ outcome = "failed" <=> rows'[t].status = "failed"
         /\ Requested(t) =>
              /\ rows'[t].owner = rows[t].owner /\ rows'[t].attempts = rows[t].attempts
              /\ rows'[t].status = "awaiting_approval"
         /\ Decided(t) =>
              /\ rows'[t].owner = rows[t].owner /\ rows'[t].attempts = rows[t].attempts
              /\ rows'[t].status \in {"done", "blocked"} /\ asked'[t] # "requested"
         /\ Expired(t) =>
              /\ rows'[t].owner = rows[t].owner /\ rows'[t].attempts = rows[t].attempts
              /\ rows'[t].status = "recovery_required"
         /\ Released(t) =>
              /\ rows'[t].owner = None /\ rows'[t].attempts = rows[t].attempts
              /\ rows'[t].status = "ready"
<1>0. rows[t] \in Rows
  BY DEF IInv, TypeOK
<1>1. /\ \A o : [rows[t] EXCEPT !.status = o].status = o
      /\ \A o : [rows[t] EXCEPT !.status = o].owner = rows[t].owner
      /\ \A o : [rows[t] EXCEPT !.status = o].attempts = rows[t].attempts
  BY <1>0 DEF Rows
<1>2. LET new == [rows[t] EXCEPT !.status = "ready", !.owner = None]
      IN  new.status = "ready" /\ new.owner = None /\ new.attempts = rows[t].attempts
  BY <1>0 DEF Rows
<1>3. \A target \in TaskStatus :
        /\ Leave(rows[t], target).status = target
        /\ Leave(rows[t], target).owner = rows[t].owner
        /\ Leave(rows[t], target).attempts = rows[t].attempts
  BY <1>0, LeaveType
<1>4. ASSUME Reported(t)
      PROVE  /\ rows'[t].owner = rows[t].owner /\ rows'[t].attempts = rows[t].attempts
             /\ rows'[t].status \in {"recovery_required", "retry_wait", "failed",
                                     "awaiting_decision", "blocked"}
             /\ rows'[t].status = "retry_wait" => rows[t].attempts < MaxAttempts[t]
             /\ deadLetters'[t] = IF rows'[t].status = "failed"
                                  THEN deadLetters[t] + 1 ELSE deadLetters[t]
             /\ recoveryCards'[t] = IF rows'[t].status = "recovery_required"
                                    THEN recoveryCards[t] + 1 ELSE recoveryCards[t]
             /\ cleared'[t] \in {cleared[t], cleared[t] + 1}
             /\ rows'[t].status = "retry_wait" => cleared'[t] = cleared[t] + 1
  <2>1. PICK r :
          LET target == FailureTarget(t, rows[t], r)
          IN  /\ rows'[t] = Leave(rows[t], target)
              /\ deadLetters'[t] = IF target = "failed" THEN deadLetters[t] + 1
                                                        ELSE deadLetters[t]
              /\ recoveryCards'[t] = IF target = "recovery_required"
                                     THEN recoveryCards[t] + 1 ELSE recoveryCards[t]
              /\ cleared'[t] = IF r.side = "unknown" THEN cleared[t] ELSE cleared[t] + 1
    BY <1>4 DEF Reported
  <2> DEFINE target == FailureTarget(t, rows[t], r)
  <2>2. /\ target \in {"recovery_required", "retry_wait", "failed",
                       "awaiting_decision", "blocked"}
        /\ target = "retry_wait" => rows[t].attempts < MaxAttempts[t] /\ r.side # "unknown"
    BY DEF FailureTarget, requires_recovery
  <2>3. target \in TaskStatus
    BY <2>2 DEF TaskStatus
  <2> HIDE DEF target
  <2>4. rows'[t] = Leave(rows[t], target)
    BY <2>1 DEF target
  <2>5. /\ rows'[t].status = target /\ rows'[t].owner = rows[t].owner
        /\ rows'[t].attempts = rows[t].attempts
    BY <1>3, <2>3, <2>4
  <2> QED
    BY <2>1, <2>2, <2>5 DEF target
<1>5. ASSUME Submitted(t)
      PROVE  /\ rows'[t].owner = rows[t].owner /\ rows'[t].attempts = rows[t].attempts
             /\ rows'[t].status \in {"review", "done", "failed", "blocked"}
             /\ \E w \in Workers, outcome \in Outcomes :
                  /\ receipts'[t] = Append(receipts[t], [worker |-> w, outcome |-> outcome])
                  /\ outcome = "failed" <=> rows'[t].status = "failed"
  <2>1. PICK w \in Workers, outcome \in Outcomes :
          /\ rows'[t] = Leave(rows[t], ReceiptTarget(t, outcome))
          /\ receipts'[t] = Append(receipts[t], [worker |-> w, outcome |-> outcome])
    BY <1>5 DEF Submitted
  <2>2. /\ ReceiptTarget(t, outcome) \in {"review", "done", "failed", "blocked"}
        /\ outcome = "failed" <=> ReceiptTarget(t, outcome) = "failed"
    BY DEF ReceiptTarget, Outcomes
  <2>3. ReceiptTarget(t, outcome) \in TaskStatus
    BY <2>2 DEF TaskStatus
  <2>4. /\ rows'[t].status = ReceiptTarget(t, outcome) /\ rows'[t].owner = rows[t].owner
        /\ rows'[t].attempts = rows[t].attempts
    BY <1>3, <2>1, <2>3
  <2> QED
    BY <2>1, <2>2, <2>4
<1>6. /\ "done" \in TaskStatus /\ "blocked" \in TaskStatus
      /\ "awaiting_approval" \in TaskStatus /\ "requested" \notin Decisions
  BY DEF TaskStatus, Decisions
<1>7. Created(t) => /\ rows'[t].status = "ready" /\ rows'[t].owner = rows[t].owner
                    /\ rows'[t].attempts = rows[t].attempts
  BY <1>1 DEF Created
<1>8. Claimed(t) => /\ rows'[t].status = "claimed" /\ rows'[t].owner \in Workers
                    /\ rows'[t].attempts = rows[t].attempts + 1
  BY DEF Claimed
<1>9. Requested(t) =>
        /\ rows'[t].owner = rows[t].owner /\ rows'[t].attempts = rows[t].attempts
        /\ rows'[t].status = "awaiting_approval"
  BY <1>3, <1>6 DEF Requested
<1>10. Decided(t) =>
         /\ rows'[t].owner = rows[t].owner /\ rows'[t].attempts = rows[t].attempts
         /\ rows'[t].status \in {"done", "blocked"} /\ asked'[t] # "requested"
  BY <1>3, <1>6 DEF Decided
<1>11. Expired(t) =>
         /\ rows'[t].owner = rows[t].owner /\ rows'[t].attempts = rows[t].attempts
         /\ rows'[t].status = "recovery_required"
  BY <1>1 DEF Expired
<1>12. Released(t) =>
         /\ rows'[t].owner = None /\ rows'[t].attempts = rows[t].attempts
         /\ rows'[t].status = "ready"
  BY <1>2 DEF Released
<1> QED
  BY <1>4, <1>5, <1>7, <1>8, <1>9, <1>10, <1>11, <1>12

\* The first receipt of a task.
LEMMA FirstReceipt == \A e : Append(<<>>, e) = <<e>> /\ <<e>> # <<>>
OBVIOUS

\* Each of the moves keeps it,
LEMMA RecordStep ==
  ASSUME RecordInv, [Next]_vars, NEW t \in Tasks
  PROVE  Budgeted(t)' /\ Recorded(t)'
<1>0. /\ IInv /\ Budgeted(t) /\ Recorded(t) /\ Moved(t)
      /\ rows[t] \in Rows /\ MaxAttempts[t] \in Nat \ {0}
      /\ deadLetters[t] \in Nat /\ recoveryCards[t] \in Nat
  BY StepMoves, TxnConstants DEF RecordInv, IInv, TypeOK
<1>1. rows[t].attempts \in Nat
  BY <1>0 DEF Rows
<1>c. cleared[t] \in Nat
  BY <1>0 DEF IInv, TypeOK
<1> USE DEF Budgeted, Recorded, NoReceipt, OneReceipt, KeepsRecords, Past
<1>2. CASE Rests(t)
  BY <1>0, <1>2 DEF Rests
<1>3. CASE Created(t)
  BY <1>0, <1>1, <1>c, <1>3, MovedRow DEF Created, ExecutionStates
<1>4. CASE Claimed(t)
  BY <1>0, <1>1, <1>c, <1>4, MovedRow DEF Claimed, ExecutionStates
<1>5. CASE Reported(t)
  <2>1. /\ receipts'[t] = <<>> /\ deadLetters[t] = 0 /\ recoveryCards[t] = 0
        /\ asked[t] # "requested" /\ asked'[t] = asked[t]
    BY <1>0, <1>5 DEF Reported, ExecutionStates
  <2>2. /\ rows'[t].attempts = rows[t].attempts
        /\ rows'[t].status \in {"recovery_required", "retry_wait", "failed",
                                "awaiting_decision", "blocked"}
        /\ rows'[t].status = "retry_wait" => rows[t].attempts < MaxAttempts[t]
        /\ deadLetters'[t] = IF rows'[t].status = "failed"
                             THEN deadLetters[t] + 1 ELSE deadLetters[t]
        /\ recoveryCards'[t] = IF rows'[t].status = "recovery_required"
                               THEN recoveryCards[t] + 1 ELSE recoveryCards[t]
        /\ rows'[t].status = "retry_wait" => cleared'[t] = cleared[t] + 1
    BY <1>0, <1>5, MovedRow
  <2>3. cleared[t] + 1 = rows[t].attempts
    BY <1>0, <1>5 DEF Reported
  <2> QED
    BY <2>1, <2>2, <2>3 DEF ExecutionStates
<1>6. CASE Submitted(t)
  <2>1. /\ receipts[t] = <<>> /\ deadLetters[t] = 0 /\ recoveryCards[t] = 0
        /\ deadLetters'[t] = 0 /\ recoveryCards'[t] = 0
        /\ asked[t] # "requested" /\ asked'[t] = asked[t]
    BY <1>0, <1>6 DEF Submitted, ExecutionStates
  <2>2. PICK w \in Workers, outcome \in Outcomes :
          /\ receipts'[t] = Append(receipts[t], [worker |-> w, outcome |-> outcome])
          /\ outcome = "failed" <=> rows'[t].status = "failed"
    BY <1>0, <1>6, MovedRow
  <2>3. rows'[t].status \in {"review", "done", "failed", "blocked"}
    BY <1>0, <1>6, MovedRow
  <2>4. receipts'[t] = <<[worker |-> w, outcome |-> outcome]>>
    BY <2>1, <2>2, FirstReceipt
  <2>5. OneReceipt(t)'
    BY <2>1, <2>2, <2>3, <2>4
  <2> QED
    BY <2>1, <2>3, <2>5 DEF ExecutionStates
<1>7. CASE Requested(t)
  BY <1>0, <1>7, MovedRow DEF Requested, ExecutionStates
<1>8. CASE Decided(t)
  BY ZenonT(60), <1>0, <1>8, MovedRow DEF Decided, ExecutionStates
<1>9. CASE Expired(t)
  BY <1>0, <1>9, MovedRow DEF Expired, ExecutionStates
<1>10. CASE Released(t)
  BY <1>0, <1>10, MovedRow DEF Released, ExecutionStates
<1> QED
  BY <1>0, <1>2, <1>3, <1>4, <1>5, <1>6, <1>7, <1>8, <1>9, <1>10 DEF Moved

\* and so it holds.
LEMMA RecordInvHolds == Spec => []RecordInv
<1>1. Init => \A t \in Tasks : Budgeted(t) /\ Recorded(t)
  <2> SUFFICES ASSUME Init, NEW t \in Tasks PROVE Budgeted(t) /\ Recorded(t)
    OBVIOUS
  <2>1. /\ rows[t].status = "absent" /\ rows[t].attempts = 0 /\ rows[t].owner = None
        /\ asked[t] = None /\ receipts[t] = <<>>
        /\ deadLetters[t] = 0 /\ recoveryCards[t] = 0 /\ cleared[t] = 0
    BY DEF Init, Absent
  <2> QED
    BY <2>1, TxnConstants DEF Budgeted, Recorded, NoReceipt, ExecutionStates
<1>2. IInv /\ IInv' /\ RecordInv /\ [Next]_vars => RecordInv'
  BY RecordStep DEF RecordInv
<1>3. Init /\ IInv => RecordInv
  BY <1>1 DEF RecordInv
<1> QED
  BY <1>2, <1>3, IInvHolds, PTL DEF Spec

-----------------------------------------------------------------------------
(* Theorems.                                                               *)

\* As many open recovery cards as tasks in recovery_required, and for each
\* failed task a dead letter or the receipt of a worker that gave up.
THEOREM FiguresAgree == Spec => []RiskFiguresAgree
<1>1. RecordInv => RiskFiguresAgree
  <2> SUFFICES ASSUME RecordInv, NEW t \in Tasks
               PROVE  /\ recoveryCards[t] = IF rows[t].status = "recovery_required"
                                            THEN 1 ELSE 0
                      /\ deadLetters[t] + Cardinality(Given(t, "failed"))
                           = IF rows[t].status = "failed" THEN 1 ELSE 0
    BY DEF RiskFiguresAgree
  <2>0. Recorded(t) /\ deadLetters[t] \in Nat
    BY DEF RecordInv, IInv, TypeOK
  <2>1. CASE NoReceipt(t)
    <3>1. Given(t, "failed") = {}
      BY <2>1 DEF NoReceipt, Given
    <3>2. Cardinality(Given(t, "failed")) = 0
      BY <3>1, FS_EmptySet
    <3> QED
      BY <2>0, <2>1, <3>2 DEF NoReceipt, Recorded
  <2>2. CASE OneReceipt(t)
    <3>1. PICK w \in Workers, outcome \in Outcomes :
            /\ receipts[t] = <<[worker |-> w, outcome |-> outcome]>>
            /\ outcome = "failed" <=> rows[t].status = "failed"
      BY <2>2 DEF OneReceipt
    <3>2. DOMAIN receipts[t] = {1} /\ receipts[t][1].outcome = outcome
      BY <3>1
    <3>3. CASE outcome = "failed"
      <4>1. Given(t, "failed") = {1}
        BY <3>2, <3>3 DEF Given
      <4>2. Cardinality({1}) = 1
        BY FS_Singleton
      <4> QED
        BY <2>0, <2>2, <3>1, <3>3, <4>1, <4>2 DEF OneReceipt, Recorded
    <3>4. CASE outcome # "failed"
      <4>1. Given(t, "failed") = {}
        BY <3>2, <3>4 DEF Given
      <4> QED
        BY <2>0, <2>2, <3>1, <3>4, <4>1, FS_EmptySet DEF OneReceipt, Recorded
    <3> QED
      BY <3>3, <3>4
  <2> QED
    BY <2>0, <2>1, <2>2 DEF Recorded
<1> QED
  BY <1>1, RecordInvHolds, PTL

\* A task with a receipt is neither claimed nor answered again.
LEMMA ReceiptEnds ==
  ASSUME RecordInv, [Next]_vars, NEW t \in Tasks, receipts[t] # <<>>
  PROVE  /\ rows'[t].status \in Past
         /\ receipts'[t] = receipts[t] /\ rows'[t].attempts = rows[t].attempts
<1>1. IInv /\ Budgeted(t) /\ rows[t].status \in Past /\ Moved(t)
  BY StepMoves DEF RecordInv, Recorded, NoReceipt, OneReceipt
<1> QED
  BY <1>1, MovedRow
  DEF Moved, Rests, Created, Claimed, Reported, Submitted, Requested, Decided, Expired,
      Released, KeepsRecords, Past, ExecutionStates

\* A figure about a receipt, once shown, stays.
THEOREM FiguresFixed == Spec => FiguresStay
<1>1. RecordInv /\ [Next]_vars =>
        [\A t \in Tasks : receipts[t] # <<>> =>
           receipts'[t] = receipts[t] /\ rows'[t].attempts = rows[t].attempts]_vars
  BY ReceiptEnds
<1> QED
  BY <1>1, RecordInvHolds, PTL DEF Spec, FiguresStay

\* What the statuses of the risk panel promise: nothing that runs leads away.
LEMMA RisksStay ==
  ASSUME RecordInv, [Next]_vars, NEW t \in Tasks,
         rows[t].status \in {"blocked", "failed", "recovery_required"}
  PROVE  rows'[t].status = rows[t].status
<1>1. IInv /\ Budgeted(t) /\ Moved(t)
  BY StepMoves DEF RecordInv
<1> QED
  BY <1>1 DEF Moved, Rests, Created, Claimed, Reported, Submitted, Requested, Decided,
              Expired, Released, Budgeted, ExecutionStates

-----------------------------------------------------------------------------
(* The panels of the cockpit, and the circuits.                            *)

\* A connection goes on with what it does.
Carries(y) ==
  /\ txn'[y].kind = txn[y].kind /\ txn'[y].task = txn[y].task
  /\ txn'[y].shown = txn[y].shown /\ (txn[y].overtaken => txn'[y].overtaken)

\* What a step makes of a connection.
ConnStep(y) ==
  \/ txn'[y].kind = "idle"
  \/ Carries(y)
  \/ /\ txn'[y].kind \in (Calls \cup Sweeps) \ {"claim"} /\ UNCHANGED db
  \/ /\ txn'[y].kind = "claim" /\ UNCHANGED db
     /\ txn'[y].task \in Tasks /\ RouteOpen(txn'[y].task)
  \/ txn'[y].kind = "flow" /\ txn'[y].shown = QualityPanel /\ UNCHANGED db
  \/ txn'[y].kind = "risks" /\ txn'[y].shown = FlowPanel /\ UNCHANGED db

\* The start of a call or a sweep is one of the steps,
LEMMA StartSteps ==
  ASSUME TypeOK, NEW x \in Txns, NEW y \in Txns, NEW kind \in Calls \cup Sweeps,
         NEW t \in Tasks \cup {None}, NEW w \in Workers \cup {None},
         NEW want, Start(x, kind, t, w, want),
         kind = "claim" => t \in Tasks /\ RouteOpen(t)
  PROVE  ConnStep(y)
<1>1. UNCHANGED db /\ txn' = [txn EXCEPT ![x] = [Idle EXCEPT !.kind = kind, !.task = t,
                                                  !.worker = w, !.want = want]]
  BY DEF Start
<1>2. /\ [Idle EXCEPT !.kind = kind, !.task = t, !.worker = w, !.want = want].kind = kind
      /\ [Idle EXCEPT !.kind = kind, !.task = t, !.worker = w, !.want = want].task = t
  BY DEF Idle
<1>3. txn'[x].kind = kind /\ txn'[x].task = t /\ (y # x => txn'[y] = txn[y])
  BY <1>1, <1>2, TxnType
<1>4. CASE y = x
  BY <1>1, <1>3, <1>4 DEF ConnStep
<1>5. CASE y # x
  BY <1>3, <1>5 DEF ConnStep, Carries
<1> QED
  BY <1>4, <1>5

\* and so is everything else that happens to a connection.
LEMMA ConnSteps ==
  ASSUME IInv, [Next]_vars, NEW y \in Txns
  PROVE  ConnStep(y)
<1>0. TypeOK /\ \A x \in Txns : txn[x] \in Conn
  BY TxnType DEF IInv
<1>1. ASSUME txn' = txn
      PROVE  ConnStep(y)
  BY <1>1 DEF ConnStep, Carries
<1>2. ASSUME NEW x \in Txns, Begin(x)
      PROVE  ConnStep(y)
  <2>1. ASSUME NEW t \in Tasks, NEW w \in Workers, BeginClaim(x, t, w)
        PROVE  ConnStep(y)
    BY <1>0, <2>1, StartSteps DEF BeginClaim, Calls
  <2>2. ASSUME NEW t \in Tasks, NEW w \in Workers, BeginHeartbeat(x, t, w)
        PROVE  ConnStep(y)
    BY <1>0, <2>2, StartSteps DEF BeginHeartbeat, Calls
  <2>3. ASSUME NEW t \in Tasks, NEW w \in Workers, NEW kind \in CircuitUsers,
               BeginAnswer(x, kind, t, w)
        PROVE  ConnStep(y)
    BY <1>0, <2>3, StartSteps DEF BeginAnswer, Calls, CircuitUsers
  <2>4. ASSUME NEW t \in Tasks, BeginRequest(x, t) \/ BeginDecision(x, t)
        PROVE  ConnStep(y)
    BY <1>0, <2>4, StartSteps DEF BeginRequest, BeginDecision, Calls
  <2>5. ASSUME NEW kind \in Sweeps, BeginSweep(x, kind)
        PROVE  ConnStep(y)
    <3>1. PICK want : Start(x, kind, None, None, want)
      BY <2>5 DEF BeginSweep
    <3> QED
      BY <1>0, <3>1, StartSteps DEF Sweeps
  <2>6. CASE ReadReceipts(x)
    <3> DEFINE new == [Idle EXCEPT !.kind = "flow", !.shown = QualityPanel]
    <3>1. UNCHANGED db /\ txn' = [txn EXCEPT ![x] = new]
      BY <2>6 DEF ReadReceipts
    <3>2. new.kind = "flow" /\ new.shown = QualityPanel
      BY DEF Idle
    <3> HIDE DEF new
    <3>3. txn'[x] = new /\ (y # x => txn'[y] = txn[y])
      BY <1>0, <3>1, TxnType
    <3> QED
      BY <3>1, <3>2, <3>3 DEF ConnStep, Carries
  <2> QED
    BY <1>2, <2>1, <2>2, <2>3, <2>4, <2>5, <2>6 DEF Begin, CircuitUsers
<1>3. ASSUME NEW x \in Txns, End(x)
      PROVE  ConnStep(y)
  <2>1. txn'[x] = Idle /\ (y # x => txn'[y] = txn[y])
    BY <1>0, <1>3, EndEffect
  <2> QED
    BY <2>1, IdleType DEF ConnStep, Carries
<1>4. ASSUME NEW x \in Txns, Acquire(x)
      PROVE  ConnStep(y)
  <2> DEFINE l == Head(txn[x].want)
             want == Tail(txn[x].want)
             seen == IF txn[x].kind \in Calls /\ l[1] = "task"
                     THEN rows[l[2]] ELSE txn[x].seen
             took == IF txn[x].kind \in Sweeps /\ Rechecked(txn[x].kind, l[2])
                     THEN txn[x].took \cup {l[2]} ELSE txn[x].took
             count == IF l[1] = "circuit" THEN FailureCount(l[2]) ELSE txn[x].count
  <2>1. /\ txn'[x] = [txn[x] EXCEPT !.want = want, !.seen = seen, !.count = count,
                                    !.took = took]
        /\ \A z \in Txns \ {x} : txn'[z] = txn[z]
    BY <1>0, <1>4, AcquireEffect
  <2> HIDE DEF want, seen, took, count
  <2>2. LET new == [txn[x] EXCEPT !.want = want, !.seen = seen, !.count = count,
                                  !.took = took]
        IN  /\ new.kind = txn[x].kind /\ new.task = txn[x].task
            /\ new.shown = txn[x].shown /\ new.overtaken = txn[x].overtaken
    BY <1>0 DEF Conn
  <2>3. CASE y = x
    BY <1>0, <2>1, <2>2, <2>3 DEF ConnStep, Carries
  <2>4. CASE y # x
    BY <2>1, <2>4 DEF ConnStep, Carries
  <2> QED
    BY <2>3, <2>4
<1>5. ASSUME NEW x \in Txns, WantClosing(x) \/ \E r \in Reports : WantCircuit(x, r)
      PROVE  ConnStep(y)
  <2>1. PICK want, pending :
          txn' = [txn EXCEPT ![x] = [txn[x] EXCEPT !.pending = pending, !.want = want]]
    <3>1. CASE WantClosing(x)
      <4>1. txn' = [txn EXCEPT ![x] = [txn[x] EXCEPT !.pending = txn[x].pending,
                                         !.want = <<Circuit(Route[txn[x].task])>>]]
        BY <1>0, <3>1, TxnType DEF WantClosing, Conn
      <4> QED
        BY <4>1
    <3>2. CASE \E r \in Reports : WantCircuit(x, r)
      BY <1>0, <3>2, TxnType DEF WantCircuit, Conn
    <3> QED
      BY <1>5, <3>1, <3>2
  <2>2. LET new == [txn[x] EXCEPT !.pending = pending, !.want = want]
        IN  /\ new.kind = txn[x].kind /\ new.task = txn[x].task
            /\ new.shown = txn[x].shown /\ new.overtaken = txn[x].overtaken
    BY <1>0 DEF Conn
  <2>3. CASE y = x
    BY <1>0, <2>1, <2>2, <2>3, TxnType DEF ConnStep, Carries
  <2>4. CASE y # x
    BY <1>0, <2>1, <2>4, TxnType DEF ConnStep, Carries
  <2> QED
    BY <2>3, <2>4
<1>6. ASSUME NEW x \in Txns, ReadFlow(x)
      PROVE  ConnStep(y)
  <2> DEFINE new == [txn[x] EXCEPT !.kind = "risks", !.shown = FlowPanel]
  <2>1. UNCHANGED db /\ txn' = [txn EXCEPT ![x] = new]
    BY <1>0, <1>6, TxnType DEF ReadFlow, Conn
  <2>2. new.kind = "risks" /\ new.shown = FlowPanel
    BY <1>0 DEF Conn
  <2> HIDE DEF new
  <2>3. txn'[x] = new /\ (y # x => txn'[y] = txn[y])
    BY <1>0, <2>1, TxnType
  <2> QED
    BY <2>1, <2>2, <2>3 DEF ConnStep, Carries
<1>7. ASSUME NEW x \in Txns, CommitCircuitFailure(x)
      PROVE  ConnStep(y)
  <2> DEFINE k == Route[txn[x].task]
  <2>1. Overtake(k, x) \/ txn' = [txn EXCEPT ![x] = Idle]
    BY <1>7 DEF CommitCircuitFailure
  <2>2. txn'[y] \in {Idle, txn[y], [txn[y] EXCEPT !.overtaken = TRUE]}
    BY <1>0, <2>1, TxnType DEF Overtake
  <2> QED
    BY <1>0, <2>2, IdleType DEF ConnStep, Carries, Conn
<1>8. ASSUME NEW x \in Txns, Commit(x)
      PROVE  ConnStep(y)
  <2>1. CASE CommitCircuitFailure(x)
    BY <1>7, <2>1
  <2>2. CASE End(x)
    BY <1>3, <2>2
  <2> QED
    BY <1>8, <2>1, <2>2
    DEF Commit, CommitClaim, CommitHeartbeat, CommitFailure, CommitReceipt,
        CommitRequest, CommitDecision, CommitExpiry, CommitRelease
<1>9. CASE \/ \E t \in Tasks : CreateTask(t) \/ Lapse(t)
           \/ \E k \in Routes : CoolDown(k)
           \/ UNCHANGED vars
  BY <1>1, <1>9 DEF CreateTask, Lapse, CoolDown, vars
<1> QED
  BY <1>2, <1>3, <1>4, <1>5, <1>6, <1>8, <1>9
  DEF Next, Refuse, Abort, ReadRisks

\* What a panel has shown is still so.
ShownIsSo ==
  \A x \in Txns :
    /\ txn[x].kind = "flow" => \A t \in txn[x].shown : rows[t].status \in Past
    /\ txn[x].kind = "risks" => txn[x].shown \subseteq FlowPanel

\* No step takes it back before the next panel is read.
LEMMA ShownHolds == Spec => []ShownIsSo
<1>1. Init => ShownIsSo
  BY IdleType DEF Init, ShownIsSo
<1>2. RecordInv /\ ShownIsSo /\ [Next]_vars => ShownIsSo'
  <2> SUFFICES ASSUME RecordInv, ShownIsSo, [Next]_vars, NEW x \in Txns
               PROVE  /\ txn'[x].kind = "flow" => \A t \in txn'[x].shown : rows'[t].status \in Past
                      /\ txn'[x].kind = "risks" => txn'[x].shown \subseteq FlowPanel'
    BY DEF ShownIsSo, Past
  <2>0. IInv /\ ConnStep(x) /\ txn[x] \in Conn
    BY ConnSteps, TxnType DEF RecordInv, IInv
  <2>1. ASSUME NEW t \in Tasks, receipts[t] # <<>>
        PROVE  rows[t].status \in Past
    BY <2>1 DEF RecordInv, Recorded, NoReceipt, OneReceipt
  <2>2. ASSUME NEW t \in Tasks, rows[t].status \in Past
        PROVE  rows'[t].status \in Past
    <3>1. Budgeted(t) /\ Moved(t) /\ IInv
      BY StepMoves DEF RecordInv
    <3> QED
      BY <2>2, <3>1, MovedRow
      DEF Moved, Rests, Created, Claimed, Reported, Submitted, Requested, Decided, Expired,
          Released, Past, ExecutionStates
  <2>3. CASE Carries(x)
    <3>1. CASE txn'[x].kind = "flow"
      <4>1. txn[x].kind = "flow" /\ txn'[x].shown = txn[x].shown /\ txn[x].shown \subseteq Tasks
        BY <2>0, <2>3, <3>1 DEF Carries, Conn
      <4>2. \A t \in txn[x].shown : rows[t].status \in Past
        BY <4>1 DEF ShownIsSo, Past
      <4> QED
        BY <2>2, <3>1, <4>1, <4>2
    <3>2. CASE txn'[x].kind = "risks"
      <4>1. txn[x].kind = "risks" /\ txn'[x].shown = txn[x].shown
        BY <2>3, <3>2 DEF Carries
      <4>2. \A t \in txn[x].shown :
              t \in Tasks /\ rows[t].status \in {"blocked", "failed", "recovery_required"}
        BY <4>1 DEF ShownIsSo, FlowPanel
      <4>3. \A t \in txn[x].shown : rows'[t].status = rows[t].status
        BY <4>2, RisksStay
      <4> QED
        BY <3>2, <4>1, <4>2, <4>3 DEF FlowPanel
    <3> QED
      BY <3>1, <3>2
  <2>4. CASE txn'[x].kind = "flow" /\ txn'[x].shown = QualityPanel /\ UNCHANGED db
    BY <2>1, <2>4 DEF QualityPanel, db
  <2>5. CASE txn'[x].kind = "risks" /\ txn'[x].shown = FlowPanel /\ UNCHANGED db
    BY <2>5 DEF FlowPanel, db
  <2>6. CASE txn'[x].kind \notin {"flow", "risks"}
    BY <2>6
  <2> QED
    BY <2>0, <2>3, <2>4, <2>5, <2>6 DEF ConnStep, Calls, Sweeps
<1> QED
  BY <1>1, <1>2, RecordInvHolds, PTL DEF Spec

\* The cockpit does not contradict itself, but for the evidence tasks that the
\* risk panel leaves out.
THEOREM PanelsAgree == Spec => []CockpitPanelsAgree
<1>1. ShownIsSo => CockpitPanelsAgree
  BY DEF ShownIsSo, CockpitPanelsAgree, RiskPanel, Past
<1> QED
  BY <1>1, ShownHolds, PTL

\* What a step makes of the circuit k.
CircuitStep(k) ==
  \/ circuits'[k] = circuits[k] /\ failed'[k] = failed[k]
  \/ /\ circuits[k] # None /\ circuits'[k] = [circuits[k] EXCEPT !.cooling = FALSE]
     /\ failed'[k] = failed[k]
  \/ /\ circuits'[k] = [state |-> "closed", failures |-> 0, cooling |-> FALSE]
     /\ failed'[k] = 0
     /\ \E x \in Txns : locks[Circuit(k)] = x /\ txn'[x] = Idle
  \/ \E x \in Txns :
       /\ Ready(x, "report_failure") /\ txn[x].pending # None
       /\ Route[txn[x].task] = k /\ txn'[x] = Idle
       /\ circuits'[k] = Counted(txn[x].count) /\ failed'[k] = failed[k] + 1
       /\ Counted(txn[x].count).state = "open" =>
            \A y \in Txns : txn'[y].kind = "claim" /\ Route[txn'[y].task] = k
                              => txn'[y].overtaken

\* Every step of the store is one of these to a circuit.
LEMMA CircuitSteps ==
  ASSUME IInv, [Next]_vars, NEW k \in Routes
  PROVE  CircuitStep(k)
<1>0. /\ TypeOK /\ DbType /\ \A x \in Txns : txn[x] \in Conn
      /\ circuits \in [Routes -> {None} \cup CircuitRows] /\ failed \in [Routes -> Nat]
  BY TypeParts, TxnType DEF IInv, DbType
<1>1. CASE UNCHANGED <<circuits, failed>>
  BY <1>1 DEF CircuitStep
<1>2. ASSUME NEW j \in Routes, CoolDown(j)
      PROVE  CircuitStep(k)
  <2>1. /\ circuits[j] # None /\ failed' = failed
        /\ circuits' = [circuits EXCEPT ![j] = [circuits[j] EXCEPT !.cooling = FALSE]]
    BY <1>0, <1>2 DEF CoolDown
  <2>2. CASE j = k
    BY <1>0, <2>1, <2>2 DEF CircuitStep
  <2>3. CASE j # k
    BY <1>0, <2>1, <2>3 DEF CircuitStep
  <2> QED
    BY <2>2, <2>3
<1>3. ASSUME NEW x \in Txns, NEW outcome \in Outcomes, CommitReceipt(x, outcome)
      PROVE  CircuitStep(k)
  <2> DEFINE j == Route[txn[x].task]
             closed == [state |-> "closed", failures |-> 0, cooling |-> FALSE]
  <2>0. txn'[x] = Idle
    BY <1>0, <1>3, EndEffect DEF CommitReceipt
  <2>1. \/ UNCHANGED <<circuits, failed>>
        \/ /\ circuits' = [circuits EXCEPT ![j] = closed] /\ failed' = [failed EXCEPT ![j] = 0]
           /\ locks[Circuit(j)] = x
    BY <1>3 DEF CommitReceipt, Holds
  <2> HIDE DEF j, closed
  <2>2. \/ UNCHANGED <<circuits, failed>>
        \/ circuits'[k] = circuits[k] /\ failed'[k] = failed[k]
        \/ circuits'[k] = closed /\ failed'[k] = 0 /\ locks[Circuit(k)] = x
    BY <1>0, <2>1
  <2> QED
    BY <2>0, <2>2 DEF CircuitStep, closed
<1>4. ASSUME NEW x \in Txns, CommitCircuitFailure(x)
      PROVE  CircuitStep(k)
  <2> DEFINE j == Route[txn[x].task]
             row == Counted(txn[x].count)
  <2>1. /\ circuits' = [circuits EXCEPT ![j] = row]
        /\ failed' = [failed EXCEPT ![j] = failed[j] + 1]
        /\ row.state = "open" => Overtake(j, x)
        /\ Ready(x, "report_failure") /\ txn[x].pending # None
    BY <1>4 DEF CommitCircuitFailure
  <2>0. txn'[x] = Idle
    BY <1>0, <1>4, CircuitFailureEffect
  <2> HIDE DEF row
  <2>2. CASE j # k
    BY <1>0, <2>1, <2>2 DEF CircuitStep
  <2>3. CASE j = k
    <3>1. circuits'[k] = row /\ failed'[k] = failed[k] + 1
      BY <1>0, <2>1, <2>3
    <3>2. ASSUME row.state = "open", NEW y \in Txns,
                 txn'[y].kind = "claim", Route[txn'[y].task] = k
          PROVE  txn'[y].overtaken
      <4>1. txn' = [z \in Txns |->
                      IF z = x THEN Idle
                      ELSE IF /\ txn[z].kind = "claim"
                              /\ Route[txn[z].task] = k
                           THEN [txn[z] EXCEPT !.overtaken = TRUE]
                           ELSE txn[z]]
        BY <2>1, <2>3, <3>2 DEF Overtake
      <4>2. y # x
        BY <3>2, <4>1, IdleType
      <4>3. txn'[y] \in {txn[y], [txn[y] EXCEPT !.overtaken = TRUE]}
        BY <4>1, <4>2
      <4>4. txn[y].kind = "claim" /\ Route[txn[y].task] = k
        BY <1>0, <3>2, <4>3 DEF Conn
      <4> QED
        BY <1>0, <4>1, <4>2, <4>4 DEF Conn
    <3> QED
      BY <2>0, <2>1, <2>3, <3>1, <3>2 DEF CircuitStep, row
  <2> QED
    BY <2>2, <2>3
<1>5. ASSUME NEW x \in Txns, Commit(x)
      PROVE  CircuitStep(k)
  BY <1>1, <1>3, <1>4, <1>5
  DEF Commit, CommitClaim, CommitHeartbeat, CommitFailure,
      CommitRequest, CommitDecision, CommitExpiry, CommitRelease
<1>6. ASSUME NEW x \in Txns, Begin(x)
      PROVE  CircuitStep(k)
  <2>1. UNCHANGED <<db, failed>>
    BY <1>6 DEF Begin, BeginClaim, BeginHeartbeat, BeginAnswer, BeginRequest,
                BeginDecision, BeginSweep, Start, ReadReceipts
  <2> QED
    BY <1>1, <2>1 DEF db
<1>7. ASSUME NEW x \in Txns,
             \/ Acquire(x) \/ Refuse(x) \/ Abort(x) \/ WantClosing(x)
             \/ \E r \in Reports : WantCircuit(x, r)
             \/ ReadFlow(x) \/ ReadRisks(x)
      PROVE  CircuitStep(k)
  <2>1. UNCHANGED <<db, failed>>
    BY <1>7 DEF Acquire, Refuse, Abort, WantClosing, WantCircuit, ReadFlow, ReadRisks
  <2> QED
    BY <1>1, <2>1 DEF db
<1>8. CASE \/ \E t \in Tasks : CreateTask(t) \/ Lapse(t)
           \/ UNCHANGED vars
  BY <1>1, <1>8 DEF CreateTask, Lapse, vars, db
<1> QED
  BY <1>2, <1>5, <1>6, <1>7, <1>8 DEF Next

\* A connection goes on, with the same locks,
Same(x) == Alike(x) /\ \A l \in Locks : (locks'[l] = x) <=> (locks[l] = x)

\* or has nothing to count, or asks for the circuit, or takes a lock.
Pursuit(x) ==
  \/ txn'[x].kind # "report_failure" \/ txn'[x].pending = None
  \/ txn'[x].want = <<Circuit(Route[txn'[x].task])>>
  \/ Acquire(x)
  \/ Same(x)

\* Nothing else happens to a connection.
LEMMA Pursuits ==
  ASSUME IInv, [Next]_vars, NEW x \in Txns
  PROVE  Pursuit(x)
<1>0. TypeOK /\ (\A y \in Txns : txn[y] \in Conn) /\ txn \in [Txns -> Conn] /\ x # None
  BY TxnType, TxnConstants DEF IInv
<1>1. ASSUME txn'[x] = txn[x], locks' = locks
      PROVE  Pursuit(x)
  BY <1>1 DEF Pursuit, Same, Alike
<1>2. ASSUME NEW y \in Txns, Begin(y)
      PROVE  Pursuit(x)
  <2>1. ASSUME NEW kind, NEW t, NEW w, NEW want, Start(y, kind, t, w, want)
        PROVE  Pursuit(x)
    <3> DEFINE new == [Idle EXCEPT !.kind = kind, !.task = t, !.worker = w, !.want = want]
    <3>1. txn' = [txn EXCEPT ![y] = new] /\ locks' = locks
      BY <2>1 DEF Start
    <3>2. new.pending = None
      BY DEF Idle
    <3> HIDE DEF new
    <3>3. CASE x = y
      BY <1>0, <3>1, <3>2, <3>3 DEF Pursuit
    <3>4. CASE x # y
      BY <1>0, <1>1, <3>1, <3>4
    <3> QED
      BY <3>3, <3>4
  <2>2. CASE ReadReceipts(y)
    <3> DEFINE new == [Idle EXCEPT !.kind = "flow", !.shown = QualityPanel]
    <3>1. txn' = [txn EXCEPT ![y] = new] /\ locks' = locks
      BY <2>2 DEF ReadReceipts
    <3>2. new.pending = None
      BY DEF Idle
    <3> HIDE DEF new
    <3>3. CASE x = y
      BY <1>0, <3>1, <3>2, <3>3 DEF Pursuit
    <3>4. CASE x # y
      BY <1>0, <1>1, <3>1, <3>4
    <3> QED
      BY <3>3, <3>4
  <2>3. ReadReceipts(y) \/ \E kind, t, w, want : Start(y, kind, t, w, want)
    BY <1>2 DEF Begin, BeginClaim, BeginHeartbeat, BeginAnswer, BeginRequest,
                BeginDecision, BeginSweep
  <2> QED
    BY <2>1, <2>2, <2>3
<1>3. ASSUME NEW y \in Txns, End(y) \/ CommitCircuitFailure(y)
      PROVE  Pursuit(x)
  <2>1. /\ \A l \in Locks : locks'[l] = IF locks[l] = y THEN None ELSE locks[l]
        /\ txn'[y] = Idle /\ (x # y => Alike(x))
    BY <1>0, <1>3, EndEffect, CircuitFailureEffect DEF Alike
  <2> QED
    BY <1>0, <2>1, IdleType DEF Pursuit, Same
<1>4. ASSUME NEW y \in Txns, Acquire(y)
      PROVE  Pursuit(x)
  <2>1. CASE x = y
    BY <1>4, <2>1 DEF Pursuit
  <2>2. CASE x # y
    <3> DEFINE l == Head(txn[y].want)
    <3>1. /\ l \in Locks /\ locks[l] = None /\ txn'[x] = txn[x]
          /\ \A m \in Locks : locks'[m] = IF m = l THEN y ELSE locks[m]
      BY <1>0, <1>4, <2>2, AcquireEffect
    <3> QED
      BY <1>0, <2>2, <3>1 DEF Pursuit, Same, Alike
  <2> QED
    BY <2>1, <2>2
<1>5. ASSUME NEW y \in Txns, WantClosing(y) \/ \E r \in Reports : WantCircuit(y, r)
      PROVE  Pursuit(x)
  <2> DEFINE want == <<Circuit(Route[txn[y].task])>>
  <2>1. locks' = locks
    BY <1>5 DEF WantClosing, WantCircuit
  <2>2. PICK pending : txn' = [txn EXCEPT ![y] = [txn[y] EXCEPT !.pending = pending,
                                                               !.want = want]]
    <3>1. CASE WantClosing(y)
      <4>1. txn' = [txn EXCEPT ![y] = [txn[y] EXCEPT !.pending = txn[y].pending,
                                                     !.want = want]]
        BY <1>0, <3>1 DEF WantClosing, Conn
      <4> QED
        BY <4>1
    <3>2. CASE \E r \in Reports : WantCircuit(y, r)
      BY <1>0, <3>2 DEF WantCircuit, Conn
    <3> QED
      BY <1>5, <3>1, <3>2
  <2> DEFINE new == [txn[y] EXCEPT !.pending = pending, !.want = want]
  <2>3. new.task = txn[y].task /\ new.want = want
    BY <1>0 DEF Conn
  <2>4. CASE x = y
    BY <1>0, <2>2, <2>3, <2>4 DEF Pursuit
  <2>5. CASE x # y
    BY <1>0, <1>1, <2>1, <2>2, <2>5
  <2> QED
    BY <2>4, <2>5
<1>6. ASSUME NEW y \in Txns, ReadFlow(y)
      PROVE  Pursuit(x)
  <2> DEFINE new == [txn[y] EXCEPT !.kind = "risks", !.shown = FlowPanel]
  <2>1. txn' = [txn EXCEPT ![y] = new] /\ locks' = locks
    BY <1>0, <1>6 DEF ReadFlow, Conn
  <2>2. new.kind = "risks"
    BY <1>0 DEF Conn
  <2> HIDE DEF new
  <2>3. CASE x = y
    BY <1>0, <2>1, <2>2, <2>3 DEF Pursuit
  <2>4. CASE x # y
    BY <1>0, <1>1, <2>1, <2>4
  <2> QED
    BY <2>3, <2>4
<1>7. ASSUME NEW y \in Txns, Commit(y)
      PROVE  Pursuit(x)
  <2>1. End(y) \/ CommitCircuitFailure(y)
    BY <1>7
    DEF Commit, CommitClaim, CommitHeartbeat, CommitFailure, CommitReceipt,
        CommitRequest, CommitDecision, CommitExpiry, CommitRelease
  <2> QED
    BY <1>3, <2>1
<1>8. CASE \/ \E t \in Tasks : CreateTask(t) \/ Lapse(t)
           \/ \E k \in Routes : CoolDown(k)
           \/ UNCHANGED vars
  BY <1>1, <1>8 DEF CreateTask, Lapse, CoolDown, vars
<1> QED
  BY <1>2, <1>3, <1>4, <1>5, <1>6, <1>7, <1>8
  DEF Next, Refuse, Abort, ReadRisks

\* A report that is to be counted waits for the lock of its circuit, or holds
\* it and knows the count.
Counting(x) ==
  LET k == Route[txn[x].task]
  IN  txn[x].kind = "report_failure" /\ txn[x].pending # None =>
        \/ txn[x].want = <<Circuit(k)>>
        \/ /\ txn[x].want = <<>> /\ locks[Circuit(k)] = x
           /\ txn[x].count = FailureCount(k)

\* Only who holds a circuit changes its count, and is done then.
LEMMA CountIsLocked ==
  ASSUME IInv, \A x \in Txns : Counting(x), [Next]_vars, NEW k \in Routes
  PROVE  \/ FailureCount(k)' = FailureCount(k)
         \/ \E y \in Txns : locks[Circuit(k)] = y /\ txn'[y] = Idle
<1>1. CircuitStep(k) /\ circuits[k] \in {None} \cup CircuitRows
  BY CircuitSteps DEF IInv, TypeOK
<1>2. CASE circuits'[k] = circuits[k]
  BY <1>2 DEF FailureCount
<1>3. CASE circuits[k] # None /\ circuits'[k] = [circuits[k] EXCEPT !.cooling = FALSE]
  <2>1. circuits[k] \in CircuitRows
    BY <1>1, <1>3
  <2>2. /\ [circuits[k] EXCEPT !.cooling = FALSE] \in CircuitRows
        /\ [circuits[k] EXCEPT !.cooling = FALSE].failures = circuits[k].failures
    BY <2>1 DEF CircuitRows
  <2> QED
    BY <1>3, <2>2, TxnConstants DEF FailureCount
<1>4. ASSUME NEW x \in Txns, Ready(x, "report_failure"), txn[x].pending # None,
             Route[txn[x].task] = k, txn'[x] = Idle
      PROVE  locks[Circuit(k)] = x
  BY <1>4, Lists DEF Counting, Ready
<1> QED
  BY <1>1, <1>2, <1>3, <1>4 DEF CircuitStep

\* The count a report works with is the count of the circuit until it commits.
LEMMA CountingHolds == Spec => []\A x \in Txns : Counting(x)
<1>1. Init => \A x \in Txns : Counting(x)
  BY IdleType DEF Init, Counting
<1>2. IInv /\ (\A x \in Txns : Counting(x)) /\ [Next]_vars
        => (\A x \in Txns : Counting(x))'
  <2> SUFFICES ASSUME IInv, \A x \in Txns : Counting(x), [Next]_vars, NEW x \in Txns,
                      txn'[x].kind = "report_failure", txn'[x].pending # None
               PROVE  Counting(x)'
    BY DEF Counting
  <2> DEFINE k == Route[txn[x].task]
  <2>0. Counting(x) /\ Pursuit(x) /\ txn[x] \in Conn /\ TypeOK
    BY Pursuits, TxnType DEF IInv
  <2>1. CASE txn'[x].want = <<Circuit(Route[txn'[x].task])>>
    BY <2>1 DEF Counting
  <2>2. CASE Acquire(x)
    <3> DEFINE l == Head(txn[x].want)
               want == Tail(txn[x].want)
               seen == IF txn[x].kind \in Calls /\ l[1] = "task"
                       THEN rows[l[2]] ELSE txn[x].seen
               took == IF txn[x].kind \in Sweeps /\ Rechecked(txn[x].kind, l[2])
                       THEN txn[x].took \cup {l[2]} ELSE txn[x].took
               count == IF l[1] = "circuit" THEN FailureCount(l[2]) ELSE txn[x].count
    <3>1. /\ txn'[x] = [txn[x] EXCEPT !.want = want, !.seen = seen, !.count = count,
                                      !.took = took]
          /\ txn[x].want # <<>> /\ l \in Locks
          /\ \A m \in Locks : locks'[m] = IF m = l THEN x ELSE locks[m]
          /\ circuits' = circuits
      BY <2>0, <2>2, AcquireEffect DEF Acquire, db
    <3> HIDE DEF want, seen, took, count
    <3>2. /\ txn'[x].kind = txn[x].kind /\ txn'[x].task = txn[x].task
          /\ txn'[x].pending = txn[x].pending /\ txn'[x].want = want
          /\ txn'[x].count = count
      BY <2>0, <3>1 DEF Conn
    <3>3. txn[x].want = <<Circuit(k)>>
      BY <2>0, <3>1, <3>2 DEF Counting
    <3>4. l = Circuit(k) /\ want = <<>>
      BY <3>3, Lists DEF want
    <3>5. count = FailureCount(k)
      BY <3>4 DEF count, Circuit
    <3> QED
      BY <3>1, <3>2, <3>4, <3>5 DEF Counting, FailureCount
  <2>3. CASE Same(x)
    <3>1. /\ txn[x].kind = "report_failure" /\ txn[x].pending # None
          /\ txn'[x].task = txn[x].task /\ txn'[x].want = txn[x].want
          /\ txn'[x].count = txn[x].count
      BY <2>3 DEF Same, Alike
    <3>2. k \in Routes /\ Circuit(k) \in Locks
      <4>1. CallOK(x)
        BY <3>1 DEF IInv, Disciplined, ConnOK, Calls
      <4> QED
        BY <4>1, TxnConstants, LockKinds DEF CallOK
    <3>3. CASE txn[x].want = <<Circuit(k)>>
      BY <3>1, <3>3 DEF Counting
    <3>4. CASE /\ txn[x].want = <<>> /\ locks[Circuit(k)] = x
               /\ txn[x].count = FailureCount(k)
      <4>1. PICK j \in Routes : j = k
        BY <3>2
      <4>2. txn'[x] # Idle
        BY IdleType
      <4>3. FailureCount(j)' = FailureCount(j)
        BY <3>4, <4>1, <4>2, CountIsLocked
      <4>4. locks'[Circuit(k)] = x
        BY <2>3, <3>2, <3>4 DEF Same
      <4> QED
        BY <3>1, <3>4, <4>1, <4>3, <4>4 DEF Counting, FailureCount
    <3> QED
      BY <2>0, <3>1, <3>3, <3>4 DEF Counting
  <2> QED
    BY <2>0, <2>1, <2>2, <2>3 DEF Pursuit
<1> QED
  BY <1>1, <1>2, IInvHolds, PTL DEF Spec

\* Failures that workers report at the same time all count: each was counted
\* under the lock of its circuit, so none overwrites another.
THEOREM FailuresCount == Spec => []CircuitCountsFailures
<1> DEFINE AllCounting == \A x \in Txns : Counting(x)
<1>1. Init => CircuitCountsFailures
  BY DEF Init, CircuitCountsFailures, FailureCount
<1>2. IInv /\ AllCounting /\ CircuitCountsFailures /\ [Next]_vars => CircuitCountsFailures'
  <2> SUFFICES ASSUME IInv, AllCounting, CircuitCountsFailures, [Next]_vars, NEW k \in Routes
               PROVE  failed'[k] = FailureCount(k)'
    BY DEF CircuitCountsFailures
  <2>1. /\ CircuitStep(k) /\ circuits[k] \in {None} \cup CircuitRows
        /\ failed[k] = FailureCount(k) /\ FailureCount(k) \in Nat
    BY CircuitSteps, CountType DEF IInv, TypeOK, CircuitCountsFailures
  <2>2. CASE circuits'[k] = circuits[k] /\ failed'[k] = failed[k]
    BY <2>1, <2>2 DEF FailureCount
  <2>3. CASE /\ circuits[k] # None /\ failed'[k] = failed[k]
             /\ circuits'[k] = [circuits[k] EXCEPT !.cooling = FALSE]
    <3>1. circuits[k] \in CircuitRows
      BY <2>1, <2>3
    <3>2. /\ [circuits[k] EXCEPT !.cooling = FALSE] \in CircuitRows
          /\ [circuits[k] EXCEPT !.cooling = FALSE].failures = circuits[k].failures
      BY <3>1 DEF CircuitRows
    <3> QED
      BY <2>1, <2>3, <3>2, TxnConstants DEF FailureCount
  <2>4. CASE /\ circuits'[k] = [state |-> "closed", failures |-> 0, cooling |-> FALSE]
             /\ failed'[k] = 0
    <3>1. [state |-> "closed", failures |-> 0, cooling |-> FALSE] \in CircuitRows
      BY DEF CircuitRows
    <3> QED
      BY <2>4, <3>1, TxnConstants DEF FailureCount
  <2>5. ASSUME NEW x \in Txns, Ready(x, "report_failure"), txn[x].pending # None,
               Route[txn[x].task] = k,
               circuits'[k] = Counted(txn[x].count), failed'[k] = failed[k] + 1
        PROVE  failed'[k] = FailureCount(k)'
    <3>1. txn[x].count = FailureCount(k)
      BY <2>5, Lists DEF Counting, Ready
    <3>2. /\ Counted(FailureCount(k)) \in CircuitRows
          /\ Counted(FailureCount(k)).failures = FailureCount(k) + 1
      BY <2>1, CountedType
    <3>3. circuits'[k] \in CircuitRows /\ circuits'[k].failures = FailureCount(k) + 1
      BY <2>5, <3>1, <3>2
    <3>4. FailureCount(k)' = circuits'[k].failures
      BY <3>3, TxnConstants DEF FailureCount
    <3> QED
      BY <2>1, <2>5, <3>3, <3>4
  <2> QED
    BY <2>1, <2>2, <2>3, <2>4, <2>5 DEF CircuitStep
<1> QED
  BY <1>1, <1>2, IInvHolds, CountingHolds, PTL DEF Spec

\* A claim that waits although the circuit is open was overtaken by it.
Overtaken ==
  \A x \in Txns :
    txn[x].kind = "claim" /\ txn[x].task \in Tasks /\ Cooling(txn[x].task)
      => txn[x].overtaken

\* Opening a circuit marks the claims that wait, and no claim starts while it cools.
LEMMA OvertakenHolds == Spec => []Overtaken
<1>1. Init => Overtaken
  BY IdleType DEF Init, Overtaken
<1>2. IInv /\ Overtaken /\ [Next]_vars => Overtaken'
  <2> SUFFICES ASSUME IInv, Overtaken, [Next]_vars, NEW x \in Txns,
                      txn'[x].kind = "claim", txn'[x].task \in Tasks,
                      Cooling(txn[x].task)'
               PROVE  txn'[x].overtaken
    BY DEF Overtaken
  <2> DEFINE t == txn'[x].task
             k == Route[t]
  <2>0. /\ ConnStep(x) /\ k \in Routes /\ CircuitStep(k) /\ txn[x] \in Conn
        /\ circuits[k] \in {None} \cup CircuitRows
        /\ circuits'[k] # None /\ circuits'[k].state = "open" /\ circuits'[k].cooling
    BY ConnSteps, CircuitSteps, TxnConstants, TxnType DEF IInv, TypeOK, Cooling
  <2>1. CASE UNCHANGED db /\ RouteOpen(t)
    BY <2>0, <2>1 DEF RouteOpen, Cooling, db
  <2>2. CASE Carries(x)
    <3>1. CASE Cooling(t)
      BY <2>2, <3>1 DEF Carries, Overtaken
    <3>2. CASE ~Cooling(t)
      <4>1. circuits'[k] # circuits[k]
        BY <2>0, <3>2 DEF Cooling
      <4>2. ~(/\ circuits[k] # None
              /\ circuits'[k] = [circuits[k] EXCEPT !.cooling = FALSE])
        BY <2>0 DEF CircuitRows
      <4>3. circuits'[k] # [state |-> "closed", failures |-> 0, cooling |-> FALSE]
        BY <2>0
      <4>4. PICK z \in Txns :
              /\ circuits'[k] = Counted(txn[z].count)
              /\ Counted(txn[z].count).state = "open" =>
                   \A y \in Txns : txn'[y].kind = "claim" /\ Route[txn'[y].task] = k
                                     => txn'[y].overtaken
        BY <2>0, <4>1, <4>2, <4>3 DEF CircuitStep
      <4> QED
        BY <2>0, <4>4
    <3> QED
      BY <3>1, <3>2
  <2> QED
    BY <2>0, <2>1, <2>2 DEF ConnStep
<1> QED
  BY <1>1, <1>2, IInvHolds, PTL DEF Spec

\* Only a claim that was waiting when the circuit opened goes through.
THEOREM EarlyClaimsOnly == Spec => OnlyEarlyClaimsPass
<1>1. IInv /\ Overtaken /\ [Next]_vars =>
        [\A t \in Tasks :
           rows'[t].attempts > rows[t].attempts /\ Cooling(t)
             => \E x \in Txns : txn[x].kind = "claim" /\ txn[x].task = t
                                /\ txn[x].overtaken /\ txn'[x] = Idle]_vars
  <2> SUFFICES ASSUME IInv, Overtaken, [Next]_vars, NEW t \in Tasks,
                      rows'[t].attempts > rows[t].attempts, Cooling(t)
               PROVE  \E x \in Txns : txn[x].kind = "claim" /\ txn[x].task = t
                                      /\ txn[x].overtaken /\ txn'[x] = Idle
    OBVIOUS
  <2>1. Moved(t) /\ rows[t].attempts \in Nat
    BY StepMoves DEF IInv, TypeOK, Rows
  <2>2. Claimed(t)
    BY <2>1, MovedRow DEF Moved, Rests
  <2>3. PICK x \in Txns : txn[x].kind = "claim" /\ txn[x].task = t /\ txn'[x] = Idle
    BY <2>2 DEF Claimed
  <2> QED
    BY <2>3 DEF Overtaken
<1> QED
  BY <1>1, OvertakenHolds, IInvHolds, PTL DEF Spec, OnlyEarlyClaimsPass

-----------------------------------------------------------------------------
(* What the transactions commit implements TaskAuthority.                  *)

LEMMA RowPhase ==
  ASSUME NEW row \in Rows
  PROVE  PhaseOf(row.status) \in Authority!Phases
BY DEF PhaseOf, Authority!Phases, Rows, TaskStatus, ExecutionStates

\* Each move is a step of the abstract specification.
LEMMA MoveIsStep ==
  ASSUME RecordInv, [Next]_vars, NEW t \in Tasks
  PROVE  LET from == PhaseOf(rows[t].status)
             to == PhaseOf(rows'[t].status)
             stay == rows'[t].owner = rows[t].owner /\ rows'[t].attempts = rows[t].attempts
             keep == stay /\ cleared'[t] = cleared[t]
         IN  \/ from = "absent" /\ to = "open" /\ keep
             \/ /\ from = "open" /\ to = "held" /\ rows[t].attempts < MaxAttempts[t]
                /\ cleared[t] = rows[t].attempts
                /\ rows'[t].owner \in Workers /\ rows'[t].attempts = rows[t].attempts + 1
                /\ cleared'[t] = cleared[t]
             \/ /\ from = "held" /\ to = "waiting" /\ rows[t].attempts < MaxAttempts[t]
                /\ stay /\ cleared'[t] = cleared[t] + 1
             \/ /\ from = "waiting" /\ to = "open" /\ cleared'[t] = cleared[t]
                /\ rows'[t].owner = None /\ rows'[t].attempts = rows[t].attempts
             \/ /\ from = "held" /\ to \in {"judged", "uncertain", "stopped", "done"}
                /\ stay /\ cleared'[t] \in {cleared[t], cleared[t] + 1}
             \/ from = "judged" /\ to \in {"stopped", "done"} /\ keep
             \/ to = from /\ keep
<1>0. IInv /\ Budgeted(t) /\ Moved(t)
  BY StepMoves DEF RecordInv
<1> USE DEF PhaseOf, ExecutionStates, KeepsRecords
<1>1. CASE Rests(t)
  BY <1>1 DEF Rests
<1>2. CASE Created(t)
  BY <1>0, <1>2, MovedRow DEF Created
<1>3. CASE Claimed(t)
  BY <1>0, <1>3, MovedRow DEF Claimed, Budgeted
<1>4. CASE Reported(t)
  BY <1>0, <1>4, MovedRow DEF Reported
<1>5. CASE Submitted(t)
  BY <1>0, <1>5, MovedRow DEF Submitted
<1>6. CASE Requested(t)
  BY <1>0, <1>6, MovedRow DEF Requested
<1>7. CASE Decided(t)
  BY <1>0, <1>7, MovedRow DEF Decided, Budgeted
<1>8. CASE Expired(t)
  BY <1>0, <1>8, MovedRow DEF Expired
<1>9. CASE Released(t)
  BY <1>0, <1>9, MovedRow DEF Released
<1> QED
  BY <1>0, <1>1, <1>2, <1>3, <1>4, <1>5, <1>6, <1>7, <1>8, <1>9 DEF Moved

\* However the statements interleave, a task is held by one worker, runs at
\* most as often as its card allows and only after its earlier runs have been
\* cleared, and is final when the promise says so.
THEOREM TxnsImplementAuthority == Spec => ImplementsAuthority
<1> DEFINE phase == [t \in Tasks |-> PhaseOf(rows[t].status)]
           holder == [t \in Tasks |-> rows[t].owner]
           runs == [t \in Tasks |-> rows[t].attempts]
<1>1. Init => Authority!Init
  <2> SUFFICES ASSUME Init PROVE Authority!Init
    OBVIOUS
  <2>1. PhaseOf("absent") = "absent"
    BY DEF PhaseOf, ExecutionStates
  <2>2. \A t \in Tasks : /\ rows[t].status = "absent" /\ rows[t].owner = None
                         /\ rows[t].attempts = 0
    BY DEF Init, Absent
  <2>3. /\ phase = [t \in Tasks |-> "absent"] /\ holder = [t \in Tasks |-> None]
        /\ runs = [t \in Tasks |-> 0]
    BY <2>1, <2>2
  <2>4. cleared = [t \in Tasks |-> 0]
    BY DEF Init
  <2> QED
    BY <2>3, <2>4 DEF Authority!Init
<1>2. RecordInv /\ RecordInv' /\ [Next]_vars => [Authority!Next]_<<phase, holder, runs, cleared>>
  <2> SUFFICES ASSUME RecordInv, RecordInv', [Next]_vars
               PROVE  Authority!Next
    OBVIOUS
  <2>1. \A t \in Tasks : rows'[t] \in Rows
    BY DEF RecordInv, IInv, TypeOK
  <2>2. phase' \in [Tasks -> Authority!Phases]
    BY <2>1, RowPhase
  <2>3. holder' \in [Tasks -> Workers \cup {None}] /\ runs' \in [Tasks -> Nat]
    BY <2>1 DEF Rows
  <2>c. cleared' \in [Tasks -> Nat]
    BY DEF RecordInv, IInv, TypeOK
  <2>4. ASSUME NEW t \in Tasks
        PROVE  Authority!Step(t)
    <3>1. /\ phase[t] = PhaseOf(rows[t].status) /\ phase'[t] = PhaseOf(rows'[t].status)
          /\ holder[t] = rows[t].owner /\ holder'[t] = rows'[t].owner
          /\ runs[t] = rows[t].attempts /\ runs'[t] = rows'[t].attempts
      OBVIOUS
    <3> QED
      BY <3>1, MoveIsStep DEF Authority!Step, Authority!Admit,
         Authority!Take, Authority!Yield, Authority!Reopen, Authority!Settle,
         Authority!Judge, Authority!Rest, Authority!Keep
  <2> QED
    BY <2>2, <2>3, <2>c, <2>4 DEF Authority!Next
<1> QED
  BY <1>1, <1>2, RecordInvHolds, PTL DEF Spec, ImplementsAuthority, Authority!Spec

=============================================================================
