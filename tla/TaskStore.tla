----------------------------- MODULE TaskStore -----------------------------
(***************************************************************************)
(* The PostgreSQL state store (src/harness/store.py): tasks, their claims  *)
(* and leases, failure handling with retries and circuit breakers, result  *)
(* receipts and approvals.                                                 *)
(*                                                                         *)
(* One action is one store method, that is one committed transaction: the  *)
(* methods that change a task lock its row (FOR UPDATE) or change it by one *)
(* conditional UPDATE, and a method that raises rolls back.  A call that   *)
(* is refused changes at most the audit trail (heartbeat_rejected and      *)
(* receipt_rejected events) and is a stuttering step here.                 *)
(*                                                                         *)
(* Time stamps are represented by the time left until them, in ticks.      *)
(***************************************************************************)
EXTENDS Contracts, Resilience, Sequences, FiniteSets

CONSTANTS
  Tasks,             \* task cards a client may submit, by task_id
  Workers,           \* values of owner_instance
  Routes,            \* values of circuit_key
  Actions,           \* actions an approval can be asked for
  Keys,              \* values of idempotency_key
  IdempotencyKey,    \* card.idempotency_key
  Route,             \* "route:" followed by the first entry of default_route
  MaxAttempts,       \* card.budget.max_attempts
  ApprovalRequired,  \* card.approval_required
  LeaseMinutes,      \* lease lengths workers ask for, in ticks; any integer
  RetryAfterSeconds, \* retry_after_seconds of reports, 0 when not given
  MaxInterventions,  \* bound: direct transition() calls per task
  None               \* SQL NULL

ASSUME StoreAssumption ==
  /\ IdempotencyKey \in [Tasks -> Keys]
  /\ Route \in [Tasks -> Routes]
  /\ MaxAttempts \in [Tasks -> Nat \ {0}]
  /\ ApprovalRequired \in [Tasks -> SUBSET Actions]
  /\ LeaseMinutes \subseteq Int
  /\ RetryAfterSeconds \subseteq Nat
  /\ MaxInterventions \in Nat
  /\ None \notin Workers \cup Int

VARIABLES
  status,        \* agent_tasks.status, "absent" where there is no row
  owner,         \* agent_tasks.owner_instance
  lease,         \* lease_expires_at - now(); -1: in the past
  attempts,      \* agent_tasks.attempt_count
  retryIn,       \* next_attempt_at - now(); 0: now or in the past
  circuit,       \* circuit_breakers rows; a missing row reads as closed
  approvals,     \* the approvals rows of each task, oldest first
  receipts,      \* the outcomes in routing_receipts, oldest first
  deadLetters,   \* number of dead_letters rows
  recoveryCards, \* number of recovery_cards rows
  cleared,       \* number of failure_classified events that tell of no, or of a
                 \* confirmed absent, side effect
  logged,        \* the status a reader of agent_events arrives at
  interventions  \* number of direct transition() calls, a history variable

taskVars == <<status, owner, lease, attempts, retryIn>>
evidenceVars == <<approvals, receipts, deadLetters, recoveryCards, cleared>>
vars == <<taskVars, circuit, evidenceVars, logged, interventions>>

-----------------------------------------------------------------------------
(* Helpers.                                                                *)

Exists(t) == status[t] # "absent"

ClosedCircuit == [state |-> "closed", failures |-> 0, openFor |-> 0]

\* Faulty: an open circuit blocks its route whether or not the cooldown is over.
CoolingForever(route) == circuit[route].state = "open"

\* The circuit gate of claim and release_due_retries.
Cooling(route) == circuit[route].state = "open" /\ circuit[route].openFor > 0

\* Faulty: the circuit opens one failure late.
AfterFailureLate(row) ==
  IF row.failures < CIRCUIT_FAILURE_THRESHOLD
  THEN [row EXCEPT !.failures = @ + 1]
  ELSE [state |-> "open", failures |-> row.failures + 1,
        openFor |-> CIRCUIT_COOLDOWN_SECONDS]

\* Faulty: a state the rest of the store does not know.
AfterFailureHalfOpen(row) ==
  IF row.failures + 1 < CIRCUIT_FAILURE_THRESHOLD
  THEN [row EXCEPT !.failures = @ + 1]
  ELSE [state |-> "half_open", failures |-> row.failures + 1,
        openFor |-> CIRCUIT_COOLDOWN_SECONDS]

\* Row of the circuit after one more failure.
AfterFailure(row) ==
  IF row.failures + 1 < CIRCUIT_FAILURE_THRESHOLD
  THEN [row EXCEPT !.failures = @ + 1]
  ELSE [state |-> "open", failures |-> row.failures + 1,
        openFor |-> CIRCUIT_COOLDOWN_SECONDS]

\* The circuits after a failure of class that task t reported.
RecordCircuitFailure(t, class) ==
  IF class \in CIRCUIT_FAILURES
  THEN [circuit EXCEPT ![Route[t]] = AfterFailure(@)]
  ELSE circuit

\* Faulty: the circuit as it was before the failure decides.
RetryDelayStale(t, r, circuits) ==
  LET delay == retry_delay_seconds(r.class, attempts[t], r.retryAfter)
  IN  IF r.class \in CIRCUIT_FAILURES /\ circuit[Route[t]].state = "open"
      THEN Greater(delay, CIRCUIT_COOLDOWN_SECONDS)
      ELSE delay

\* How long a retry waits, given the circuits as the failure left them.
RetryDelay(t, r, circuits) ==
  LET delay == retry_delay_seconds(r.class, attempts[t], r.retryAfter)
  IN  IF r.class \in CIRCUIT_FAILURES /\ circuits[Route[t]].state = "open"
      THEN Greater(delay, CIRCUIT_COOLDOWN_SECONDS)
      ELSE delay

\* Faulty: any status may be set.
SetStatusUnchecked(t, expected, target) ==
  /\ status' = [status EXCEPT ![t] = target]
  /\ lease' = IF target \in ExecutionStates
              THEN lease ELSE [lease EXCEPT ![t] = None]

\* Faulty: the lease survives the execution.
SetStatusKeepingLease(t, expected, target) ==
  /\ target \in TRANSITIONS[expected]
  /\ status' = [status EXCEPT ![t] = target]
  /\ lease' = lease

\* A status change through the table; leaving the execution states gives up
\* the lease.
SetStatus(t, expected, target) ==
  /\ target \in TRANSITIONS[expected]
  /\ status' = [status EXCEPT ![t] = target]
  /\ lease' = IF target \in ExecutionStates
              THEN lease ELSE [lease EXCEPT ![t] = None]

\* What one event tells a reader of the trace about the status of its task.
Replay(s, e) ==
  CASE e.type = "task_created"          -> "ready"
    [] e.type = "task_claimed"          -> "claimed"
    [] e.type = "recovery_card_created" -> "recovery_required"
    [] e.type = "retry_scheduled"       -> "retry_wait"
    [] e.type = "retry_released"        -> "ready"
    [] e.type = "dead_letter_created"   -> "failed"
    [] e.type = "approval_requested"    -> "awaiting_approval"
    [] e.type = "receipt_accepted"      -> e.status
    [] e.type = "status_changed"        -> e.to
    [] e.type = "approval_decided" ->
         IF e.decision = "approved" THEN "done" ELSE "blocked"
    [] e.type = "failure_classified" ->
         IF requires_recovery(e.class, e.side) THEN s
         ELSE CASE e.class = "quota_exhausted"  -> "awaiting_decision"
                [] e.class = "policy_violation" -> "blocked"
                [] OTHER                        -> s
    [] OTHER -> s

Log(t, e) == logged' = [logged EXCEPT ![t] = Replay(@, e)]

\* report_failure writes failure_classified and then what it led to.
Classified(r) == [type |-> "failure_classified", class |-> r.class, side |-> r.side]

\* Faulty: only the classification is written.
LogFailureHalf(t, r, e) ==
  logged' = [logged EXCEPT ![t] = Replay(@, Classified(r))]

LogFailure(t, r, e) ==
  logged' = [logged EXCEPT ![t] = Replay(Replay(@, Classified(r)), e)]

-----------------------------------------------------------------------------
Init ==
  /\ status = [t \in Tasks |-> "absent"]
  /\ owner = [t \in Tasks |-> None]
  /\ lease = [t \in Tasks |-> None]
  /\ attempts = [t \in Tasks |-> 0]
  /\ retryIn = [t \in Tasks |-> None]
  /\ circuit = [k \in Routes |-> ClosedCircuit]
  /\ approvals = [t \in Tasks |-> <<>>]
  /\ receipts = [t \in Tasks |-> <<>>]
  /\ deadLetters = [t \in Tasks |-> 0]
  /\ recoveryCards = [t \in Tasks |-> 0]
  /\ cleared = [t \in Tasks |-> 0]
  /\ logged = [t \in Tasks |-> "absent"]
  /\ interventions = [t \in Tasks |-> 0]

\* A row with the idempotency key of the card exists.
KeyTaken(t) == \E u \in Tasks : Exists(u) /\ IdempotencyKey[u] = IdempotencyKey[t]

\* create_task: a second card with the same idempotency key (or the same
\* card again) returns the existing task and changes nothing.
CreateTask(t) ==
  /\ ~KeyTaken(t)
  /\ status' = [status EXCEPT ![t] = "ready"]
  /\ Log(t, [type |-> "task_created"])
  /\ UNCHANGED <<owner, lease, attempts, retryIn, circuit, evidenceVars,
                 interventions>>

\* The condition of the UPDATE in claim.
Claimable(t) ==
  /\ status[t] = "ready"
  /\ lease[t] # None => lease[t] < 0
  /\ ~Cooling(Route[t])

\* lease_expires_at, minutes from now: at once over if the number is negative.
LeaseOf(minutes) == Greater(minutes, -1)

\* claim: the conditional UPDATE that makes a worker the owner.
Claim(t, w, minutes) ==
  /\ Claimable(t)
  /\ status' = [status EXCEPT ![t] = "claimed"]
  /\ owner' = [owner EXCEPT ![t] = w]
  /\ lease' = [lease EXCEPT ![t] = LeaseOf(minutes)]
  /\ attempts' = [attempts EXCEPT ![t] = @ + 1]
  /\ Log(t, [type |-> "task_claimed"])
  /\ UNCHANGED <<retryIn, circuit, evidenceVars, interventions>>

\* Faulty: the owner may renew a lease that is over.
HoldsLeaseOfOld(t, w) == owner[t] = w /\ status[t] \in ExecutionStates

\* The condition of the UPDATE in heartbeat.
HoldsLease(t, w) ==
  /\ owner[t] = w
  /\ status[t] \in ExecutionStates
  /\ lease[t] # None /\ lease[t] > 0

\* heartbeat: only the owner of a live lease extends it.
Heartbeat(t, w, minutes) ==
  /\ HoldsLease(t, w)
  /\ lease' = [lease EXCEPT ![t] = LeaseOf(minutes)]
  /\ UNCHANGED <<status, owner, attempts, retryIn, circuit, evidenceVars,
                 logged, interventions>>

\* Faulty: a claimed task that never started is not swept.
LapsedStarted == {t \in Tasks : /\ status[t] = "in_progress"
                                /\ lease[t] # None /\ lease[t] < 0}

\* Faulty: a task that was swept before is swept again.
LapsedAgain == {t \in Tasks : /\ status[t] \in ExecutionStates \cup {"recovery_required"}
                              /\ lease[t] # None /\ lease[t] < 0}

\* The tasks whose lease is over while they run.
Lapsed == {t \in Tasks : /\ status[t] \in ExecutionStates
                         /\ lease[t] # None /\ lease[t] < 0}

\* expire_leases: every lapsed execution ends in recovery_required with a
\* recovery card.  Owner and lease stay in the row.
ExpireLeases ==
  /\ Lapsed # {}
  /\ status' = [t \in Tasks |-> IF t \in Lapsed THEN "recovery_required"
                                                ELSE status[t]]
  /\ recoveryCards' = [t \in Tasks |-> IF t \in Lapsed
                                       THEN recoveryCards[t] + 1
                                       ELSE recoveryCards[t]]
  /\ logged' = [t \in Tasks |->
                  IF t \in Lapsed
                  THEN Replay(Replay(logged[t], [type |-> "lease_expired"]),
                              [type |-> "recovery_card_created"])
                  ELSE logged[t]]
  /\ UNCHANGED <<owner, lease, attempts, retryIn, circuit, approvals,
                 receipts, deadLetters, cleared, interventions>>

-----------------------------------------------------------------------------
(* report_failure, one definition per outcome.                             *)

\* An unknown side effect: never retried, a recovery card instead.
RequireRecovery(t, r) ==
  /\ requires_recovery(r.class, r.side)
  /\ SetStatus(t, status[t], "recovery_required")
  /\ recoveryCards' = [recoveryCards EXCEPT ![t] = @ + 1]
  /\ LogFailure(t, r, [type |-> "recovery_card_created"])
  /\ UNCHANGED <<retryIn, circuit, deadLetters>>

\* Faulty: off by one.
AttemptsLeftLate(t) == attempts[t] <= MaxAttempts[t]

AttemptsLeft(t) == attempts[t] < MaxAttempts[t]

\* A retryable class with attempts left.
ScheduleRetry(t, r) ==
  LET circuits == RecordCircuitFailure(t, r.class)
  IN  /\ ~requires_recovery(r.class, r.side)
      /\ r.class \in RETRYABLE_FAILURES
      /\ AttemptsLeft(t)
      /\ circuit' = circuits
      /\ SetStatus(t, status[t], "retry_wait")
      /\ retryIn' = [retryIn EXCEPT ![t] = RetryDelay(t, r, circuits)]
      /\ LogFailure(t, r, [type |-> "retry_scheduled"])
      /\ UNCHANGED <<deadLetters, recoveryCards>>

\* A retryable class with no attempts left: a dead letter.
ExhaustRetries(t, r) ==
  /\ ~requires_recovery(r.class, r.side)
  /\ r.class \in RETRYABLE_FAILURES
  /\ ~AttemptsLeft(t)
  /\ circuit' = RecordCircuitFailure(t, r.class)
  /\ SetStatus(t, status[t], "failed")
  /\ deadLetters' = [deadLetters EXCEPT ![t] = @ + 1]
  /\ LogFailure(t, r, [type |-> "dead_letter_created"])
  /\ UNCHANGED <<retryIn, recoveryCards>>

\* Exhausted quota and policy violations stop the task for a human.
StopForHuman(t, r, class, target) ==
  /\ ~requires_recovery(r.class, r.side)
  /\ r.class = class
  /\ SetStatus(t, status[t], target)
  /\ Log(t, Classified(r))
  /\ UNCHANGED <<retryIn, circuit, deadLetters, recoveryCards>>

\* The remaining class, permanent: a dead letter.
FailPermanently(t, r) ==
  /\ ~requires_recovery(r.class, r.side)
  /\ r.class = "permanent"
  /\ SetStatus(t, status[t], "failed")
  /\ deadLetters' = [deadLetters EXCEPT ![t] = @ + 1]
  /\ LogFailure(t, r, [type |-> "dead_letter_created"])
  /\ UNCHANGED <<retryIn, circuit, recoveryCards>>

\* What report_failure and submit_receipt ask of the row: the owner answers.
\* Whether the lease is still valid is not asked.
MayAnswer(t, w) ==
  /\ Exists(t)
  /\ owner[t] = w
  /\ status[t] \in ExecutionStates

\* report_failure: from the owner of the row only.
ReportFailure(t, w, r) ==
  /\ MayAnswer(t, w)
  /\ \/ RequireRecovery(t, r)
     \/ ScheduleRetry(t, r)
     \/ ExhaustRetries(t, r)
     \/ StopForHuman(t, r, "quota_exhausted", "awaiting_decision")
     \/ StopForHuman(t, r, "policy_violation", "blocked")
     \/ FailPermanently(t, r)
  /\ cleared' = [cleared EXCEPT ![t] = IF r.side = "unknown" THEN @ ELSE @ + 1]
  /\ UNCHANGED <<owner, attempts, approvals, receipts, interventions>>

-----------------------------------------------------------------------------
\* The retries whose time has come and whose route is not cooling.
Due == {t \in Tasks : /\ status[t] = "retry_wait"
                      /\ retryIn[t] # None /\ retryIn[t] = 0
                      /\ ~Cooling(Route[t])}

\* release_due_retries: all due retries become ready, without an owner.
ReleaseDueRetries ==
  /\ Due # {}
  /\ status' = [t \in Tasks |-> IF t \in Due THEN "ready" ELSE status[t]]
  /\ retryIn' = [t \in Tasks |-> IF t \in Due THEN None ELSE retryIn[t]]
  /\ owner' = [t \in Tasks |-> IF t \in Due THEN None ELSE owner[t]]
  /\ logged' = [t \in Tasks |->
                  IF t \in Due
                  THEN Replay(logged[t], [type |-> "retry_released"])
                  ELSE logged[t]]
  /\ UNCHANGED <<lease, attempts, circuit, evidenceVars, interventions>>

\* Faulty: completed work is done, whatever the card requires.
ReceiptTargetNoReview(t, outcome) ==
  CASE outcome = "completed" -> "done"
    [] outcome = "failed"    -> "failed"
    [] outcome = "blocked"   -> "blocked"

\* Faulty: a blocked worker fails the task.
ReceiptTargetBlockedFails(t, outcome) ==
  IF outcome = "completed"
  THEN IF ApprovalRequired[t] # {} THEN "review" ELSE "done"
  ELSE "failed"

\* The status a receipt with this outcome leads to.
ReceiptTarget(t, outcome) ==
  CASE outcome = "completed" ->
         IF ApprovalRequired[t] # {} THEN "review" ELSE "done"
    [] outcome = "failed"  -> "failed"
    [] outcome = "blocked" -> "blocked"

\* submit_receipt: from the owner of the row only, lease valid or not.  A
\* claimed task passes through in_progress in the same transaction.  A
\* completed task that goes to review closes the circuit of its route.
SubmitReceipt(t, w, outcome) ==
  LET target == ReceiptTarget(t, outcome)
  IN  /\ MayAnswer(t, w)
      /\ status[t] = "claimed" => "in_progress" \in TRANSITIONS["claimed"]
      /\ SetStatus(t, "in_progress", target)
      /\ receipts' = [receipts EXCEPT ![t] = Append(@, outcome)]
      /\ circuit' = IF target = "review"
                    THEN [circuit EXCEPT ![Route[t]] = ClosedCircuit]
                    ELSE circuit
      /\ Log(t, [type |-> "receipt_accepted", status |-> target])
      /\ UNCHANGED <<owner, attempts, retryIn, approvals, deadLetters,
                     recoveryCards, cleared, interventions>>

\* request_approval: for any action the caller names.
RequestApproval(t, action) ==
  /\ Exists(t)
  /\ SetStatus(t, status[t], "awaiting_approval")
  /\ approvals' = [approvals EXCEPT ![t] =
                     Append(@, [action |-> action, status |-> "requested"])]
  /\ Log(t, [type |-> "approval_requested"])
  /\ UNCHANGED <<owner, attempts, retryIn, circuit, receipts, deadLetters,
                 recoveryCards, cleared, interventions>>

\* decide_approval, for the i-th approval of the task.
DecideApproval(t, i, decision) ==
  /\ approvals[t][i].status = "requested"
  /\ Exists(t)
  /\ approvals' = [approvals EXCEPT ![t][i].status = decision]
  /\ SetStatus(t, status[t], IF decision = "approved" THEN "done"
                                                      ELSE "blocked")
  /\ Log(t, [type |-> "approval_decided", decision |-> decision])
  /\ UNCHANGED <<owner, attempts, retryIn, circuit, receipts, deadLetters,
                 recoveryCards, cleared, interventions>>

\* transition: a direct status change, for which the API has no route.
Transition(t, target) ==
  /\ Exists(t)
  /\ interventions[t] < MaxInterventions
  /\ interventions' = [interventions EXCEPT ![t] = @ + 1]
  /\ SetStatus(t, status[t], target)
  /\ Log(t, [type |-> "status_changed", to |-> target])
  /\ UNCHANGED <<owner, attempts, retryIn, circuit, evidenceVars>>

\* External: the clock of the database.
Tick ==
  /\ lease' = [t \in Tasks |-> IF lease[t] = None THEN None
                               ELSE Greater(lease[t] - 1, -1)]
  /\ retryIn' = [t \in Tasks |-> IF retryIn[t] = None THEN None
                                 ELSE Greater(retryIn[t] - 1, 0)]
  /\ circuit' = [k \in Routes |->
                   [circuit[k] EXCEPT !.openFor = Greater(@ - 1, 0)]]
  /\ UNCHANGED <<status, owner, attempts, evidenceVars, logged,
                 interventions>>

-----------------------------------------------------------------------------
\* What workers, approvers and the maintenance calls of the API can do.
ApiNext ==
  \/ \E t \in Tasks : CreateTask(t)
  \/ \E t \in Tasks, w \in Workers, m \in LeaseMinutes : Claim(t, w, m)
  \/ \E t \in Tasks, w \in Workers, m \in LeaseMinutes : Heartbeat(t, w, m)
  \/ \E t \in Tasks, w \in Workers, r \in FailureReports(RetryAfterSeconds) :
       ReportFailure(t, w, r)
  \/ \E t \in Tasks, w \in Workers, o \in Outcomes : SubmitReceipt(t, w, o)
  \/ \E t \in Tasks, a \in Actions : RequestApproval(t, a)
  \/ \E t \in Tasks : \E i \in DOMAIN approvals[t], d \in Decisions :
       DecideApproval(t, i, d)
  \/ ExpireLeases
  \/ ReleaseDueRetries
  \/ Tick

\* Everything the store offers, transition() included.
Next == ApiNext \/ \E t \in Tasks, target \in TaskStatus : Transition(t, target)

ApiSpec == Init /\ [][ApiNext]_vars
Spec == Init /\ [][Next]_vars

\* Someone keeps calling the two maintenance routes; workers owe nothing.
MaintenanceFairness ==
  WF_vars(Tick) /\ WF_vars(ExpireLeases) /\ WF_vars(ReleaseDueRetries)
FairApiSpec == ApiSpec /\ MaintenanceFairness

-----------------------------------------------------------------------------
(* Properties of the store under any use, direct transitions included.     *)

\* Every variable has its type.
TypeOK ==
  /\ status \in [Tasks -> TaskStatus \cup {"absent"}]
  /\ owner \in [Tasks -> Workers \cup {None}]
  /\ lease \in [Tasks -> {None, -1} \cup Nat]
  /\ attempts \in [Tasks -> Nat]
  /\ retryIn \in [Tasks -> {None} \cup Nat]
  /\ circuit \in [Routes -> [state : {"closed", "open"}, failures : Nat,
                             openFor : Nat]]
  /\ approvals \in [Tasks -> Seq([action : Actions,
                                  status : {"requested"} \cup Decisions])]
  /\ receipts \in [Tasks -> Seq(Outcomes)]
  /\ deadLetters \in [Tasks -> Nat]
  /\ recoveryCards \in [Tasks -> Nat]
  /\ cleared \in [Tasks -> Nat]
  /\ logged \in [Tasks -> TaskStatus \cup {"absent"}]
  /\ interventions \in [Tasks -> 0..MaxInterventions]

\* Claiming and failure handling together keep a task within its budget of
\* attempts, although claim never looks at the budget: a task that waits to
\* be claimed has an attempt left, and every attempt beyond the budget was
\* let in by a direct transition of that task.
RetryBudget ==
  \A t \in Tasks :
    /\ attempts[t] <= MaxAttempts[t] + interventions[t]
    /\ status[t] \in {"ready", "retry_wait"}
         => attempts[t] < MaxAttempts[t] + interventions[t]

\* The trail is complete: the events of a task, replayed in order, give the
\* status in its row, whichever methods were called and in whichever order.
LogDeterminesStatus == logged = status

\* Every committed status change follows the transition table, bulk updates
\* and the two steps inside submit_receipt included.
FollowsTable(t) ==
  \/ status'[t] = status[t]
  \/ status[t] = "absent" /\ status'[t] = "ready"
  \/ status[t] # "absent" /\ status'[t] \in TRANSITIONS[status[t]]
  \/ status[t] = "claimed" /\ status'[t] \in TRANSITIONS["in_progress"]

StatusFollowsTable == [][\A t \in Tasks : FollowsTable(t)]_vars

\* A circuit is open exactly when it has seen the threshold of failures since
\* it was last closed, and only an open one has a cooldown running.
CircuitConsistent ==
  \A k \in Routes :
    /\ circuit[k].state = "open"
         <=> circuit[k].failures >= CIRCUIT_FAILURE_THRESHOLD
    /\ circuit[k].openFor > 0 => circuit[k].state = "open"

-----------------------------------------------------------------------------
(* Properties of the store as the API uses it.                             *)

\* A running task has an owner and a deadline, and a task nobody runs that
\* can be claimed again has no deadline left over from an earlier run.
LeaseDiscipline ==
  \A t \in Tasks :
    /\ status[t] \in ExecutionStates => owner[t] # None /\ lease[t] # None
    /\ status[t] \in {"ready", "retry_wait"} => lease[t] = None
    /\ retryIn[t] # None <=> status[t] = "retry_wait"

\* Whoever finds a task in recovery_required finds one recovery card for it,
\* however often leases are swept, and no other task has one.
RecoveryCardsMatchStatus ==
  \A t \in Tasks :
    recoveryCards[t] = IF status[t] = "recovery_required" THEN 1 ELSE 0

Count(outcomes, outcome) ==
  Cardinality({i \in DOMAIN outcomes : outcomes[i] = outcome})

\* Every failed task is accounted for exactly once: by a dead letter or by
\* the receipt of a worker that gave up.
FailureAccounting ==
  \A t \in Tasks :
    deadLetters[t] + Count(receipts[t], "failed")
      = IF status[t] = "failed" THEN 1 ELSE 0

Approvals(t, decision) ==
  {i \in DOMAIN approvals[t] : approvals[t][i].status = decision}

\* A task that needs an approval is only done once one was given, and there
\* is an open question exactly while the task awaits the answer.
ApprovalGate ==
  \A t \in Tasks :
    /\ status[t] = "done" /\ ApprovalRequired[t] # {}
         => Approvals(t, "approved") # {}
    /\ Approvals(t, "requested") # {} <=> status[t] = "awaiting_approval"

\* A retry that a failing route causes is not due before the cooldown its own
\* failure started is over.
WaitsOut(t) ==
  /\ status[t] \in ExecutionStates
  /\ status'[t] = "retry_wait"
  /\ circuit'[Route[t]].failures > circuit[Route[t]].failures
  => retryIn'[t] >= circuit'[Route[t]].openFor

RetryWaitsOutCircuit == [][\A t \in Tasks : WaitsOut(t)]_vars

Authority == INSTANCE TaskAuthority
  WITH phase <- [t \in Tasks |-> PhaseOf(status[t])],
       holder <- owner, runs <- attempts, Budget <- MaxAttempts

\* The store implements the promise of TaskAuthority: one holder, a bounded
\* number of runs, and no run after a rejection, after a sweep, or after a
\* report that leaves it open whether the run had a side effect.
ImplementsAuthority == Authority!Spec

\* What can become of a task whose lease is over: it stays as it is, without a
\* live lease; a sweep takes it; or its own worker answers late.
LapseEnds(t) ==
  \/ /\ UNCHANGED <<status[t], owner[t], attempts[t]>>
     /\ lease'[t] # None /\ lease'[t] < 0
  \/ status'[t] = "recovery_required" /\ UNCHANGED <<owner[t], attempts[t]>>
  \/ \E w \in Workers :
       /\ owner[t] = w
       /\ \/ \E r \in FailureReports(RetryAfterSeconds) : ReportFailure(t, w, r)
          \/ \E o \in Outcomes : SubmitReceipt(t, w, o)

\* How far the promise of README.md about lapsed claims holds: nobody revives
\* one, takes it over or answers in its worker's place, and unless that worker
\* answers before the sweep, it ends in recovery_required.
LapsedOnlyAnswered == [][\A t \in Lapsed : LapseEnds(t)]_vars

-----------------------------------------------------------------------------
(* What the documentation says and the code does not do.                   *)

\* README.md and tests/test_store.py, on claims that outlive their lease: they
\* end in recovery_required and are not rerun.  submit_receipt and
\* report_failure do not look at the lease, so a late answer that comes before
\* the sweep takes another way.
LapsedClaimEndsInRecovery ==
  [][\A t \in Lapsed : status'[t] \in {status[t], "recovery_required"}]_vars

\* The agent policy: the actions a task class lists need an approval.
\* request_approval takes any action, and its approval ends the task.
RequiredActionsApproved ==
  \A t \in Tasks : status[t] = "done" =>
    \A a \in ApprovalRequired[t] :
      \E i \in Approvals(t, "approved") : approvals[t][i].action = a

-----------------------------------------------------------------------------
(* Liveness, given the maintenance calls.                                  *)

\* A scheduled retry does leave retry_wait, even when other failures on its
\* route reopen the circuit while it waits.
RetriesAreReleased ==
  \A t \in Tasks : status[t] = "retry_wait" ~> status[t] # "retry_wait"

Beats(t) == \E w \in Workers, m \in LeaseMinutes : Heartbeat(t, w, m)

\* A task does not stay with a worker that has gone silent: it leaves the
\* execution states again and again, or its owner sends heartbeats forever.
SilenceEndsExecution ==
  \A t \in Tasks : \/ []<>(status[t] \notin ExecutionStates)
                   \/ []<><<Beats(t)>>_vars

=============================================================================
