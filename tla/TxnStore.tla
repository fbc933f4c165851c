------------------------------ MODULE TxnStore ------------------------------
(***************************************************************************)
(* The store method by method and statement by statement: what PostgreSQL  *)
(* does at its default isolation level, read committed, when the methods   *)
(* of src/harness/store.py and the cockpit's reads run at the same time.   *)
(*                                                                         *)
(* Every statement sees what is committed when it starts.  SELECT ... FOR  *)
(* UPDATE waits for the lock of a row and returns its newest version.  A   *)
(* conditional UPDATE picks rows by what it saw when it started, waits for *)
(* their locks, and tests its condition again on the newest version of the *)
(* row, but not what its subquery found in another table.  Locks are held  *)
(* to the end of the transaction, when all its writes appear at once.      *)
(*                                                                         *)
(* Time is reduced to what the statements ask: whether a lease is over and *)
(* whether a circuit is cooling.  A retry may be due at any time, and a    *)
(* sweep that has waited for a row looks at the lease as it is then: now() *)
(* is the start of its transaction, so the code would leave a lease that   *)
(* was renewed and ran out again meanwhile to the next sweep.              *)
(***************************************************************************)
EXTENDS Contracts, Resilience, Sequences, FiniteSets

CONSTANTS
  Tasks, Workers, Routes,
  Route,             \* circuit_key of a card
  MaxAttempts,       \* card.budget.max_attempts
  ApprovalRequired,  \* card.approval_required is not empty
  EvidenceTasks,     \* card.projection_kind is evidence, not operational
  Reports,           \* the failure reports workers send
  Txns,              \* connections
  None

\* agent_tasks, as far as the statements tell the rows apart.
Rows == [status : TaskStatus \cup {"absent"}, owner : Workers \cup {None},
         attempts : Nat, leased : BOOLEAN]

\* circuit_breakers; cooling: next_attempt_at lies ahead.
CircuitRows == [state : {"closed", "open"}, failures : Nat, cooling : BOOLEAN]

ASSUME TxnAssumption ==
  /\ Route \in [Tasks -> Routes]
  /\ MaxAttempts \in [Tasks -> Nat \ {0}]
  /\ ApprovalRequired \in [Tasks -> BOOLEAN]
  /\ EvidenceTasks \subseteq Tasks
  /\ Reports \subseteq FailureReports({r.retryAfter : r \in Reports})
  /\ None \notin Workers \cup Txns \cup Reports
  /\ None \notin Rows /\ None \notin CircuitRows /\ None # "requested"
  /\ IsFiniteSet(Tasks)

VARIABLES
  rows,          \* committed agent_tasks: status, owner, attempts, leased
  over,          \* the tasks whose lease is over
  circuits,      \* committed circuit_breakers, None where there is no row
  asked,         \* the status of the approval of each task, None without one
  receipts,      \* committed routing_receipts: who sent which outcome
  deadLetters, recoveryCards, \* numbers of rows
  cleared,       \* number of failure_classified events that leave no side effect open
  locks,         \* the transaction that holds a row, or None
  txn,           \* what each connection is doing
  failed         \* failures committed on a route since its circuit closed

db == <<rows, over, circuits, asked, receipts, deadLetters, recoveryCards,
        cleared>>
vars == <<db, locks, txn, failed>>

-----------------------------------------------------------------------------
(* Rows, locks and transactions.                                           *)

Approval(t) == <<"approval", t>>
Task(t) == <<"task", t>>
Circuit(k) == <<"circuit", k>>

Locks == {Approval(t) : t \in Tasks} \cup {Task(t) : t \in Tasks}
           \cup {Circuit(k) : k \in Routes}

Absent == [status |-> "absent", owner |-> None, attempts |-> 0, leased |-> FALSE]

Sweeps == {"expire_leases", "release_due_retries"}

\* The cockpit, named by the statement that comes next.
Reads == {"flow", "risks"}

Calls == {"claim", "heartbeat", "report_failure", "submit_receipt",
          "request_approval", "decide_approval"}

\* A connection between two transactions.  want: the locks still to come, in
\* order; seen: the row as read under its lock; pending: the report whose
\* circuit comes next; count: failure_count as it found it there; took: the
\* rows a sweep changes; shown: what the last statement of the cockpit showed;
\* overtaken: a circuit has opened since the statement looked at it.
Idle == [kind |-> "idle", task |-> None, worker |-> None, want |-> <<>>,
         seen |-> None, pending |-> None, count |-> 0, took |-> {},
         shown |-> {}, overtaken |-> FALSE]

Holds(x, l) == locks[l] = x

\* Faulty: SELECT without FOR UPDATE.
GrantNothing(x, l) == locks

\* Faulty: failure_count is read first and written later, without a lock.
GrantRowsOnly(x, l) == IF l[1] = "circuit" THEN locks ELSE [locks EXCEPT ![l] = x]

Grant(x, l) == [locks EXCEPT ![l] = x]

\* The transaction is over.
End(x) ==
  /\ locks' = [l \in Locks |-> IF locks[l] = x THEN None ELSE locks[l]]
  /\ txn' = [txn EXCEPT ![x] = Idle]

-----------------------------------------------------------------------------
(* The conditions of the statements.                                       *)

Exists(t) == rows[t].status # "absent"

Cooling(t) ==
  LET row == circuits[Route[t]]
  IN  row # None /\ row.state = "open" /\ row.cooling

\* Faulty: the circuit is not asked.
RouteOpenAlways(t) == TRUE

\* The subquery on circuit_breakers.
RouteOpen(t) == ~Cooling(t)

\* claim, as to the row: a task that is ready, its old lease gone or over.
Claimable(t, row) == row.status = "ready" /\ (row.leased => t \in over)

\* heartbeat, as to the row; a lease that was live when the transaction began
\* is live for it to the end.
Beatable(row, w) ==
  row.owner = w /\ row.status \in ExecutionStates /\ row.leased

\* Faulty: any answer of the owner counts.
AnswerableByOwner(row, w) == row.owner = w

\* The checks of report_failure and submit_receipt.
Answerable(row, w) == row.owner = w /\ row.status \in ExecutionStates

\* Faulty: what waits for its recovery is released like a retry.
SweptRecovery(kind, t) ==
  IF kind = "expire_leases"
  THEN rows[t].status \in ExecutionStates /\ rows[t].leased /\ t \in over
  ELSE rows[t].status \in {"retry_wait", "recovery_required"}

\* The WHERE clauses of the two sweeps, as to the row.
Swept(kind, t) ==
  IF kind = "expire_leases"
  THEN rows[t].status \in ExecutionStates /\ rows[t].leased /\ t \in over
  ELSE rows[t].status = "retry_wait"

\* Faulty: the rows the statement saw at its start are changed unseen.
RecheckedNever(kind, t) == TRUE

\* The condition of an UPDATE, tested again on the locked row.
Rechecked(kind, t) == Swept(kind, t)

\* Faulty: report_failure records the circuit failure first.
LockPlanCrossed(kind, t) ==
  CASE kind = "decide_approval" -> <<Approval(t), Task(t)>>
    [] kind = "report_failure"  -> <<Circuit(Route[t]), Task(t)>>
    [] OTHER                    -> <<Task(t)>>

\* The rows a method locks before it decides anything, in order.
LockPlan(kind, t) ==
  IF kind = "decide_approval" THEN <<Approval(t), Task(t)>> ELSE <<Task(t)>>

-----------------------------------------------------------------------------
Init ==
  /\ rows = [t \in Tasks |-> Absent]
  /\ over = {}
  /\ circuits = [k \in Routes |-> None]
  /\ asked = [t \in Tasks |-> None]
  /\ receipts = [t \in Tasks |-> <<>>]
  /\ deadLetters = [t \in Tasks |-> 0]
  /\ recoveryCards = [t \in Tasks |-> 0]
  /\ cleared = [t \in Tasks |-> 0]
  /\ locks = [l \in Locks |-> None]
  /\ txn = [x \in Txns |-> Idle]
  /\ failed = [k \in Routes |-> 0]

\* create_task is one INSERT.
CreateTask(t) ==
  /\ ~Exists(t)
  /\ rows' = [rows EXCEPT ![t].status = "ready"]
  /\ UNCHANGED <<over, circuits, asked, receipts, deadLetters, recoveryCards,
                 cleared, locks, txn, failed>>

Start(x, kind, t, w, want) ==
  /\ txn[x] = Idle
  /\ txn' = [txn EXCEPT ![x] = [Idle EXCEPT !.kind = kind, !.task = t,
                                            !.worker = w, !.want = want]]
  /\ UNCHANGED <<db, locks, failed>>

\* A conditional UPDATE that finds nothing ends at once and waits for nobody.
BeginClaim(x, t, w) ==
  /\ Claimable(t, rows[t]) /\ RouteOpen(t)
  /\ Start(x, "claim", t, w, LockPlan("claim", t))

BeginHeartbeat(x, t, w) ==
  /\ Beatable(rows[t], w) /\ t \notin over
  /\ Start(x, "heartbeat", t, w, LockPlan("heartbeat", t))

\* report_failure and submit_receipt, from anybody, for any task.
BeginAnswer(x, kind, t, w) ==
  /\ Exists(t)
  /\ Start(x, kind, t, w, LockPlan(kind, t))

BeginRequest(x, t) ==
  /\ Exists(t)
  /\ Start(x, "request_approval", t, None, LockPlan("request_approval", t))

BeginDecision(x, t) ==
  /\ asked[t] # None
  /\ Start(x, "decide_approval", t, None, LockPlan("decide_approval", t))

\* A sweep locks the rows it found one after the other, in the order of the
\* scan, which differs from scan to scan as row versions move.
BeginSweep(x, kind) ==
  \E due \in SUBSET {t \in Tasks :
                       /\ Swept(kind, t)
                       /\ kind = "release_due_retries" => RouteOpen(t)} \ {{}} :
    \E order \in [1..Cardinality(due) -> due] :
      /\ \A i, j \in DOMAIN order : order[i] = order[j] => i = j
      /\ Start(x, kind, None, None, [i \in DOMAIN order |-> Task(order[i])])

\* The checks a method makes under its locks and raises on.
Refused(x) ==
  LET t == txn[x].task
      row == txn[x].seen
  IN  CASE txn[x].kind = "claim" -> row # None /\ ~Claimable(t, row)
        [] txn[x].kind = "heartbeat" -> row # None /\ ~Beatable(row, txn[x].worker)
        [] txn[x].kind \in {"report_failure", "submit_receipt"} ->
             row # None /\ ~Answerable(row, txn[x].worker)
        [] txn[x].kind = "request_approval" ->
             row # None /\ "awaiting_approval" \notin TRANSITIONS[row.status]
        [] txn[x].kind = "decide_approval" ->
             \/ Holds(x, Approval(t)) /\ asked[t] # "requested"
             \/ row # None /\ ~({"done", "blocked"} \subseteq TRANSITIONS[row.status])
        [] OTHER -> FALSE

\* failure_count of a route, 0 without a row.
FailureCount(k) == IF circuits[k] = None THEN 0 ELSE circuits[k].failures

\* The next lock is free: the transaction takes it and reads the row.
Acquire(x) ==
  LET l == Head(txn[x].want)
  IN  /\ txn[x].want # <<>> /\ locks[l] = None /\ ~Refused(x)
      /\ locks' = Grant(x, l)
      /\ txn' = [txn EXCEPT
           ![x].want = Tail(@),
           ![x].seen = IF txn[x].kind \in Calls /\ l[1] = "task"
                       THEN rows[l[2]] ELSE @,
           ![x].count = IF l[1] = "circuit" THEN FailureCount(l[2]) ELSE @,
           ![x].took = IF txn[x].kind \in Sweeps /\ Rechecked(txn[x].kind, l[2])
                       THEN @ \cup {l[2]} ELSE @]
      /\ UNCHANGED <<db, failed>>

\* The method raises, or its UPDATE found nothing after all.
Refuse(x) ==
  /\ Refused(x)
  /\ End(x)
  /\ UNCHANGED <<db, failed>>

\* The connection is lost, or the database ends a deadlock with this one.
Abort(x) ==
  /\ txn[x] # Idle
  /\ End(x)
  /\ UNCHANGED <<db, failed>>

\* All locks are held and no check has failed.
Ready(x, kind) == txn[x].kind = kind /\ txn[x].want = <<>> /\ ~Refused(x)

-----------------------------------------------------------------------------
(* Commits.                                                                *)

\* Claims that passed the circuit of route k before it opened.
Overtake(k, x) ==
  txn' = [y \in Txns |->
            IF y = x THEN Idle
            ELSE IF /\ txn[y].kind = "claim"
                    /\ Route[txn[y].task] = k
                 THEN [txn[y] EXCEPT !.overtaken = TRUE]
                 ELSE txn[y]]

CommitClaim(x) ==
  LET t == txn[x].task
  IN  /\ Ready(x, "claim")
      /\ rows' = [rows EXCEPT
                    ![t] = [status |-> "claimed", owner |-> txn[x].worker,
                            attempts |-> @.attempts + 1, leased |-> TRUE]]
      /\ over' = over \ {t}
      /\ End(x)
      /\ UNCHANGED <<circuits, asked, receipts, deadLetters,
                     recoveryCards, cleared, failed>>

CommitHeartbeat(x) ==
  /\ Ready(x, "heartbeat")
  /\ over' = over \ {txn[x].task}
  /\ End(x)
  /\ UNCHANGED <<rows, circuits, asked, receipts, deadLetters,
                 recoveryCards, cleared, failed>>

\* Leaving the execution states gives up the lease.
Leave(row, target) == [row EXCEPT !.status = target, !.leased = FALSE]

HitsCircuit(r) ==
  r.class \in CIRCUIT_FAILURES /\ ~requires_recovery(r.class, r.side)

\* Where a failure report leads, given the row it is decided on.
FailureTarget(t, row, r) ==
  CASE requires_recovery(r.class, r.side) -> "recovery_required"
    [] ~requires_recovery(r.class, r.side) /\ r.class \in RETRYABLE_FAILURES ->
         IF row.attempts < MaxAttempts[t] THEN "retry_wait" ELSE "failed"
    [] ~requires_recovery(r.class, r.side) /\ r.class = "quota_exhausted" ->
         "awaiting_decision"
    [] ~requires_recovery(r.class, r.side) /\ r.class = "policy_violation" ->
         "blocked"
    [] OTHER -> "failed"

\* A report that counts for the circuit needs the lock of its row as well.
WantCircuit(x, r) ==
  /\ Ready(x, "report_failure") /\ txn[x].pending = None
  /\ HitsCircuit(r)
  /\ txn' = [txn EXCEPT ![x].pending = r,
                        ![x].want = <<Circuit(Route[txn[x].task])>>]
  /\ UNCHANGED <<db, locks, failed>>

\* What a report does to its task.
FailTask(t, row, r) ==
  LET target == FailureTarget(t, row, r)
  IN  /\ rows' = [rows EXCEPT ![t] = Leave(row, target)]
      /\ over' = over \ {t}
      /\ deadLetters' = [deadLetters EXCEPT ![t] = IF target = "failed" THEN @ + 1 ELSE @]
      /\ recoveryCards' = [recoveryCards EXCEPT
                             ![t] = IF target = "recovery_required" THEN @ + 1 ELSE @]
      /\ cleared' = [cleared EXCEPT ![t] = IF r.side = "unknown" THEN @ ELSE @ + 1]

CommitFailure(x, r) ==
  /\ Ready(x, "report_failure") /\ txn[x].pending = None
  /\ ~HitsCircuit(r)
  /\ FailTask(txn[x].task, txn[x].seen, r)
  /\ End(x)
  /\ UNCHANGED <<circuits, asked, receipts, failed>>

\* Faulty: a state the other statements do not know.
CountedHalfOpen(count) ==
  LET failures == count + 1
  IN  [state |-> IF failures < CIRCUIT_FAILURE_THRESHOLD THEN "closed" ELSE "half_open",
       failures |-> failures, cooling |-> failures >= CIRCUIT_FAILURE_THRESHOLD]

\* INSERT ... ON CONFLICT DO UPDATE, and the UPDATE at the threshold.
Counted(count) ==
  LET failures == count + 1
  IN  IF failures < CIRCUIT_FAILURE_THRESHOLD
      THEN [state |-> "closed", failures |-> failures, cooling |-> FALSE]
      ELSE [state |-> "open", failures |-> failures, cooling |-> TRUE]

CommitCircuitFailure(x) ==
  LET t == txn[x].task
      k == Route[t]
  IN  /\ Ready(x, "report_failure") /\ txn[x].pending # None
      /\ FailTask(t, txn[x].seen, txn[x].pending)
      /\ circuits' = [circuits EXCEPT ![k] = Counted(txn[x].count)]
      /\ failed' = [failed EXCEPT ![k] = @ + 1]
      /\ locks' = [l \in Locks |-> IF locks[l] = x THEN None ELSE locks[l]]
      /\ IF Counted(txn[x].count).state = "open"
         THEN Overtake(k, x)
         ELSE txn' = [txn EXCEPT ![x] = Idle]
      /\ UNCHANGED <<asked, receipts>>

ReceiptTarget(t, outcome) ==
  CASE outcome = "completed" -> IF ApprovalRequired[t] THEN "review" ELSE "done"
    [] outcome = "failed"  -> "failed"
    [] outcome = "blocked" -> "blocked"

\* The last statement of a receipt that leads to review: it closes the
\* circuit if it sees a row for it.
WantClosing(x) ==
  LET k == Route[txn[x].task]
  IN  /\ Ready(x, "submit_receipt") /\ ~Holds(x, Circuit(k))
      /\ ApprovalRequired[txn[x].task] /\ circuits[k] # None
      /\ txn' = [txn EXCEPT ![x].want = <<Circuit(k)>>]
      /\ UNCHANGED <<db, locks, failed>>

CommitReceipt(x, outcome) ==
  LET t == txn[x].task
      k == Route[t]
      closes == Holds(x, Circuit(k))
      target == ReceiptTarget(t, outcome)
  IN  /\ Ready(x, "submit_receipt")
      /\ closes => target = "review"
      /\ ~closes /\ target = "review" => circuits[k] = None
      /\ rows' = [rows EXCEPT ![t] = Leave(txn[x].seen, target)]
      /\ over' = over \ {t}
      /\ receipts' = [receipts EXCEPT
                        ![t] = Append(@, [worker |-> txn[x].worker, outcome |-> outcome])]
      /\ circuits' = IF closes
                     THEN [circuits EXCEPT ![k] = [state |-> "closed", failures |-> 0,
                                                   cooling |-> FALSE]]
                     ELSE circuits
      /\ failed' = IF closes THEN [failed EXCEPT ![k] = 0] ELSE failed
      /\ End(x)
      /\ UNCHANGED <<asked, deadLetters, recoveryCards, cleared>>

CommitRequest(x) ==
  LET t == txn[x].task
  IN  /\ Ready(x, "request_approval")
      /\ rows' = [rows EXCEPT ![t] = Leave(txn[x].seen, "awaiting_approval")]
      /\ asked' = [asked EXCEPT ![t] = "requested"]
      /\ End(x)
      /\ UNCHANGED <<over, circuits, receipts, deadLetters,
                     recoveryCards, cleared, failed>>

CommitDecision(x, decision) ==
  LET t == txn[x].task
  IN  /\ Ready(x, "decide_approval")
      /\ asked' = [asked EXCEPT ![t] = decision]
      /\ rows' = [rows EXCEPT
                    ![t] = Leave(txn[x].seen, IF decision = "approved" THEN "done"
                                                                       ELSE "blocked")]
      /\ End(x)
      /\ UNCHANGED <<over, circuits, receipts, deadLetters,
                     recoveryCards, cleared, failed>>

CommitExpiry(x) ==
  LET took == txn[x].took
  IN  /\ Ready(x, "expire_leases")
      /\ rows' = [t \in Tasks |-> IF t \in took
                                  THEN [rows[t] EXCEPT !.status = "recovery_required"]
                                  ELSE rows[t]]
      /\ recoveryCards' = [t \in Tasks |-> IF t \in took THEN recoveryCards[t] + 1
                                                         ELSE recoveryCards[t]]
      /\ End(x)
      /\ UNCHANGED <<over, circuits, asked, receipts, deadLetters, cleared, failed>>

CommitRelease(x) ==
  LET took == txn[x].took
  IN  /\ Ready(x, "release_due_retries")
      /\ rows' = [t \in Tasks |->
                    IF t \in took
                    THEN [rows[t] EXCEPT !.status = "ready", !.owner = None]
                    ELSE rows[t]]
      /\ End(x)
      /\ UNCHANGED <<over, circuits, asked, receipts, deadLetters,
                     recoveryCards, cleared, failed>>

-----------------------------------------------------------------------------
(* The cockpit: one transaction, a snapshot for each statement.            *)

\* The tasks the flow panel counts as blocked, failed or recovery_required.
FlowPanel == {t \in Tasks : rows[t].status \in {"blocked", "failed", "recovery_required"}}

\* The tasks behind blocked_count, failed_count and recovery_count of the risk
\* panel: operational ones only.
RiskPanel == FlowPanel \ EvidenceTasks

\* The tasks behind the receipts of the quality and cost panels.
QualityPanel == {t \in Tasks : receipts[t] # <<>>}

\* build_cockpit_snapshot reads the receipts,
ReadReceipts(x) ==
  /\ txn[x] = Idle
  /\ txn' = [txn EXCEPT ![x] = [Idle EXCEPT !.kind = "flow", !.shown = QualityPanel]]
  /\ UNCHANGED <<db, locks, failed>>

\* then the status counts of the flow panel,
ReadFlow(x) ==
  /\ txn[x].kind = "flow"
  /\ txn' = [txn EXCEPT ![x].kind = "risks", ![x].shown = FlowPanel]
  /\ UNCHANGED <<db, locks, failed>>

\* and last the risk summary.
ReadRisks(x) ==
  /\ txn[x].kind = "risks"
  /\ End(x)
  /\ UNCHANGED <<db, failed>>

-----------------------------------------------------------------------------
\* External: time goes by.
Lapse(t) ==
  /\ rows[t].leased /\ t \notin over
  /\ over' = over \cup {t}
  /\ UNCHANGED <<rows, circuits, asked, receipts, deadLetters, recoveryCards,
                 cleared, locks, txn, failed>>

CoolDown(k) ==
  /\ circuits[k] # None /\ circuits[k].cooling
  /\ circuits' = [circuits EXCEPT ![k].cooling = FALSE]
  /\ UNCHANGED <<rows, over, asked, receipts, deadLetters, recoveryCards,
                 cleared, locks, txn, failed>>

Begin(x) ==
  \/ \E t \in Tasks, w \in Workers :
       \/ BeginClaim(x, t, w)
       \/ BeginHeartbeat(x, t, w)
       \/ BeginAnswer(x, "report_failure", t, w)
       \/ BeginAnswer(x, "submit_receipt", t, w)
  \/ \E t \in Tasks : BeginRequest(x, t) \/ BeginDecision(x, t)
  \/ \E kind \in Sweeps : BeginSweep(x, kind)
  \/ ReadReceipts(x)

Commit(x) ==
  \/ CommitClaim(x)
  \/ CommitHeartbeat(x)
  \/ \E r \in Reports : CommitFailure(x, r)
  \/ CommitCircuitFailure(x)
  \/ \E outcome \in Outcomes : CommitReceipt(x, outcome)
  \/ CommitRequest(x)
  \/ \E decision \in Decisions : CommitDecision(x, decision)
  \/ CommitExpiry(x)
  \/ CommitRelease(x)

Next ==
  \/ \E t \in Tasks : CreateTask(t) \/ Lapse(t)
  \/ \E k \in Routes : CoolDown(k)
  \/ \E x \in Txns :
       \/ Begin(x)
       \/ Acquire(x) \/ Refuse(x) \/ Abort(x)
       \/ \E r \in Reports : WantCircuit(x, r)
       \/ WantClosing(x)
       \/ Commit(x)
       \/ ReadFlow(x) \/ ReadRisks(x)

Spec == Init /\ [][Next]_vars

-----------------------------------------------------------------------------
(* Properties.                                                             *)

\* Every variable has its type.
TypeOK ==
  /\ rows \in [Tasks -> Rows]
  /\ over \subseteq Tasks
  /\ circuits \in [Routes -> {None} \cup CircuitRows]
  /\ asked \in [Tasks -> {None, "requested"} \cup Decisions]
  /\ receipts \in [Tasks -> Seq([worker : Workers, outcome : Outcomes])]
  /\ deadLetters \in [Tasks -> Nat] /\ recoveryCards \in [Tasks -> Nat]
  /\ cleared \in [Tasks -> Nat]
  /\ locks \in [Locks -> Txns \cup {None}]
  /\ txn \in [Txns -> [kind : {"idle"} \cup Reads \cup Calls \cup Sweeps,
                       task : Tasks \cup {None}, worker : Workers \cup {None},
                       want : Seq(Locks), seen : Rows \cup {None},
                       pending : {None} \cup Reports, count : Nat,
                       took : SUBSET Tasks, shown : SUBSET Tasks,
                       overtaken : BOOLEAN]]
  /\ failed \in [Routes -> Nat]

Blocked(x) ==
  txn[x].want # <<>> /\ locks[Head(txn[x].want)] # None /\ ~Refused(x)

\* Transactions that wait for each other, directly or in a circle.
Deadlocked(D) ==
  D # {} /\ \A x \in D : Blocked(x) /\ locks[Head(txn[x].want)] \in D

\* Approvals are locked before tasks and tasks before circuits, whatever the
\* method: no worker and no approver is ever caught in a deadlock unless two
\* maintenance sweeps have run into each other.
OnlySweepsDeadlock ==
  \A D \in SUBSET Txns : Deadlocked(D) =>
    \E x, y \in D : x # y /\ txn[x].kind \in Sweeps /\ txn[y].kind \in Sweeps

\* What a method read and checked under its lock is still so when it writes,
\* and a sweep changes only rows that still are as its condition says: a task
\* whose heartbeat was accepted in the meantime is not swept.
ReadsStayTrue ==
  \A x \in Txns :
    /\ txn[x].seen # None => txn[x].seen = rows[txn[x].task]
    /\ \A t \in txn[x].took : Swept(txn[x].kind, t)

\* Failures that workers report at the same time all count: none overwrites
\* another, and none revives a count that a completed task has reset.
CircuitCountsFailures == \A k \in Routes : failed[k] = FailureCount(k)

Given(t, outcome) == {i \in DOMAIN receipts[t] : receipts[t][i].outcome = outcome}

\* The figures of the risk panel come from one statement, so they agree: as
\* many open recovery cards as tasks in recovery_required, and each failed
\* task has either a dead letter or the receipt of a worker that gave up.
RiskFiguresAgree ==
  \A t \in Tasks :
    /\ recoveryCards[t] = IF rows[t].status = "recovery_required" THEN 1 ELSE 0
    /\ deadLetters[t] + Cardinality(Given(t, "failed"))
         = IF rows[t].status = "failed" THEN 1 ELSE 0

\* The panels of one cockpit come from different states of the database, and
\* still do not contradict each other: whatever has a receipt in the quality
\* panel is past its execution in the flow panel, and a task that the flow panel
\* counts as blocked, failed or recovering is in the risk panel, unless it is an
\* evidence task, which that panel leaves out on purpose.
CockpitPanelsAgree ==
  \A x \in Txns :
    /\ txn[x].kind = "flow" => \A t \in txn[x].shown :
         rows[t].status \in {"review", "awaiting_approval", "done", "failed", "blocked"}
    /\ txn[x].kind = "risks" => txn[x].shown \subseteq RiskPanel \cup EvidenceTasks

\* A metric about a receipt, once shown, stays: the task has no second
\* receipt, and its attempt_count, which the metrics join to the old receipt,
\* does not move any more.
FiguresStay ==
  [][\A t \in Tasks : receipts[t] # <<>> =>
       receipts'[t] = receipts[t] /\ rows'[t].attempts = rows[t].attempts]_vars

\* claim looks at the circuit without a lock, so one may go through after the
\* circuit has opened; but only one that was already waiting when it opened.
OnlyEarlyClaimsPass ==
  [][\A t \in Tasks :
       rows'[t].attempts > rows[t].attempts /\ Cooling(t)
         => \E x \in Txns : txn[x].kind = "claim" /\ txn[x].task = t
                            /\ txn[x].overtaken /\ txn'[x] = Idle]_vars

Authority == INSTANCE TaskAuthority
  WITH phase <- [t \in Tasks |-> PhaseOf(rows[t].status)],
       holder <- [t \in Tasks |-> rows[t].owner],
       runs <- [t \in Tasks |-> rows[t].attempts], Budget <- MaxAttempts

\* However the statements of different methods interleave, what they commit
\* keeps the promise of TaskAuthority.
ImplementsAuthority == Authority!Spec

=============================================================================
