-------------------------- MODULE TaskStoreProofs --------------------------
(***************************************************************************)
(* Theorems about TaskStore, for any set of cards, workers and routes and  *)
(* any tuning constants.                                                    *)
(***************************************************************************)
EXTENDS TaskStore, FiniteSetTheorems, TLAPS

\* The assumptions on the constants, one fact at a time.
LEMMA Constants ==
  /\ Route \in [Tasks -> Routes]
  /\ MaxAttempts \in [Tasks -> Nat \ {0}]
  /\ \A m \in LeaseMinutes : m \in Int
  /\ \A d \in RetryAfterSeconds : d \in Nat
  /\ MaxInterventions \in Nat
  /\ None \notin Workers /\ None \notin Int
  /\ BASE_BACKOFF_SECONDS \in Nat /\ MAX_BACKOFF_SECONDS \in Nat
  /\ CIRCUIT_COOLDOWN_SECONDS \in Nat \ {0}
  /\ CIRCUIT_FAILURE_THRESHOLD \in Nat \ {0}
BY StoreAssumption, ResilienceAssumption
   DEF StoreAssumption, ResilienceAssumption

\* An element of a sequence, and the sequence with that element replaced.
LEMMA SeqElement ==
  ASSUME NEW S, NEW s \in Seq(S), NEW i \in DOMAIN s
  PROVE  s[i] \in S /\ \A e \in S : [s EXCEPT ![i] = e] \in Seq(S)
OBVIOUS

\* The table only leads to statuses.
LEMMA TableTargets ==
  ASSUME NEW s \in TaskStatus
  PROVE  TRANSITIONS[s] \subseteq TaskStatus
BY DEF TRANSITIONS, TaskStatus

\* What SetStatus leaves behind.
LEMMA SetStatusType ==
  ASSUME TypeOK, NEW t \in Tasks, NEW expected \in TaskStatus, NEW target,
         SetStatus(t, expected, target)
  PROVE  /\ target \in TaskStatus
         /\ status' \in [Tasks -> TaskStatus \cup {"absent"}]
         /\ lease' \in [Tasks -> {None, -1} \cup Nat]
<1>1. target \in TaskStatus
  BY TableTargets DEF SetStatus
<1> QED
  BY <1>1 DEF SetStatus, TypeOK

\* A circuit row stays a circuit row.
LEMMA CircuitType ==
  ASSUME TypeOK, NEW t \in Tasks, NEW class
  PROVE  RecordCircuitFailure(t, class) \in
           [Routes -> [state : {"closed", "open"}, failures : Nat, openFor : Nat]]
<1> DEFINE Row == [state : {"closed", "open"}, failures : Nat, openFor : Nat]
<1>1. ASSUME NEW row \in Row
      PROVE  AfterFailure(row) \in Row
  BY Constants DEF AfterFailure
<1>2. Route[t] \in Routes /\ circuit \in [Routes -> Row]
  BY Constants DEF TypeOK
<1> QED
  BY <1>1, <1>2 DEF RecordCircuitFailure

\* A power of two is the number of subsets of a range, hence positive and
\* larger for a larger range.
LEMMA PowerOfTwo ==
  ASSUME NEW m \in Nat
  PROVE  /\ 2^m \in Nat \ {0}
         /\ \A n \in 0..m : 2^n <= 2^m
<1>1. ASSUME NEW n \in Nat
      PROVE  IsFiniteSet(SUBSET (1..n)) /\ Cardinality(SUBSET (1..n)) = 2^n
  <2>1. IsFiniteSet(1..n) /\ Cardinality(1..n) = n
    BY FS_Interval
  <2> QED
    BY <2>1, FS_SUBSET
<1> DEFINE Subsets(n) == SUBSET (1..n)
<1>a. IsFiniteSet(Subsets(m)) /\ Cardinality(Subsets(m)) = 2^m
  BY <1>1
<1>2. 2^m \in Nat \ {0}
  <2>1. Cardinality(Subsets(m)) \in Nat /\ Subsets(m) # {}
    BY <1>a, FS_CardinalityType
  <2>2. Cardinality(Subsets(m)) # 0
    <3> HIDE DEF Subsets
    <3> QED
      BY <1>a, <2>1, FS_EmptySet
  <2> QED
    BY <1>a, <2>1, <2>2
<1>3. ASSUME NEW n \in 0..m
      PROVE  2^n <= 2^m
  <2>1. Subsets(n) \in SUBSET Subsets(m)
    OBVIOUS
  <2>2. n \in Nat
    OBVIOUS
  <2>3. Cardinality(Subsets(n)) = 2^n
    BY <1>1, <2>2
  <2> HIDE DEF Subsets
  <2> QED
    BY <1>a, <2>1, <2>3, FS_Subset
<1> QED
  BY <1>2, <1>3

\* The backoff of a class other than rate_limited.
Backoff(attempt) ==
  Lesser(BASE_BACKOFF_SECONDS * 2^Greater(attempt - 1, 0), MAX_BACKOFF_SECONDS)

\* A product with a positive number is at least the number and grows with
\* the other factor.
LEMMA Products ==
  ASSUME NEW b \in Nat \ {0}, NEW x \in Nat \ {0}, NEW y \in Nat, x <= y
  PROVE  b * x \in Nat \ {0} /\ b * x <= b * y
OBVIOUS

\* A delay is never 0, so a retry is never due at once; no backoff is over the
\* bound but that of a rate limit, which waits as long as it was told; and a
\* later attempt never waits less than an earlier one.
THEOREM BackoffBounded ==
  ASSUME NEW class, NEW attempt \in Nat, NEW retryAfter \in Nat
  PROVE  LET delay == retry_delay_seconds(class, attempt, retryAfter)
         IN  /\ delay \in Nat \ {0}
             /\ \/ delay <= MAX_BACKOFF_SECONDS
                \/ class = "rate_limited" /\ delay = retryAfter
             /\ class = "rate_limited" => delay >= retryAfter
             /\ \A earlier \in 0..attempt :
                  retry_delay_seconds(class, earlier, retryAfter) <= delay
<1> DEFINE Shift(n) == Greater(n - 1, 0)
<1>0. /\ BASE_BACKOFF_SECONDS \in Nat \ {0}
      /\ MAX_BACKOFF_SECONDS \in Nat \ {0}
  BY ResilienceAssumption
<1>1. ASSUME NEW n \in 0..attempt
      PROVE  /\ Shift(n) \in Nat /\ Shift(n) <= Shift(attempt)
             /\ Shift(attempt) \in Nat
  BY DEF Greater
<1>2. ASSUME NEW n \in 0..attempt
      PROVE  /\ Backoff(n) \in 1..MAX_BACKOFF_SECONDS
             /\ Backoff(n) <= Backoff(attempt)
  <2>1. /\ 2^Shift(n) \in Nat \ {0} /\ 2^Shift(attempt) \in Nat
        /\ 2^Shift(n) <= 2^Shift(attempt)
    <3>1. Shift(n) \in 0..Shift(attempt)
      BY <1>1
    <3> HIDE DEF Shift
    <3> QED
      BY <1>1, <3>1, PowerOfTwo
  <2> DEFINE x == 2^Shift(n)
             y == 2^Shift(attempt)
  <2>2. /\ BASE_BACKOFF_SECONDS * x \in Nat \ {0}
        /\ BASE_BACKOFF_SECONDS * x <= BASE_BACKOFF_SECONDS * y
        /\ BASE_BACKOFF_SECONDS * y \in Nat
    <3> HIDE DEF x, y
    <3>1. x \in Nat \ {0} /\ y \in Nat \ {0} /\ x <= y
      BY <2>1 DEF x, y
    <3> QED
      BY <1>0, <3>1, Products
  <2>3. /\ Backoff(n) = Lesser(BASE_BACKOFF_SECONDS * x, MAX_BACKOFF_SECONDS)
        /\ Backoff(attempt) = Lesser(BASE_BACKOFF_SECONDS * y, MAX_BACKOFF_SECONDS)
    BY DEF Backoff
  <2> HIDE DEF x, y
  <2> QED
    BY <1>0, <2>2, <2>3 DEF Lesser
<1>3. \A n \in 0..attempt :
        retry_delay_seconds(class, n, retryAfter)
          = IF class = "rate_limited" THEN Greater(Backoff(n), retryAfter) ELSE Backoff(n)
  BY DEF retry_delay_seconds, Backoff
<1> DEFINE Delay(n) == retry_delay_seconds(class, n, retryAfter)
<1>4. attempt \in 0..attempt
  OBVIOUS
<1>5. ASSUME NEW n \in 0..attempt
      PROVE  Delay(n) <= Delay(attempt)
  BY <1>0, <1>2, <1>3, <1>4, <1>5 DEF Greater
<1>6. /\ Delay(attempt) \in Nat \ {0}
      /\ \/ Delay(attempt) <= MAX_BACKOFF_SECONDS
         \/ class = "rate_limited" /\ Delay(attempt) = retryAfter
      /\ class = "rate_limited" => Delay(attempt) >= retryAfter
  BY <1>0, <1>2, <1>3, <1>4 DEF Greater
<1> HIDE DEF Delay
<1> QED
  BY <1>5, <1>6 DEF Delay

\* A retry is due after a number of ticks.
LEMMA DelayType ==
  ASSUME TypeOK, NEW t \in Tasks, NEW r \in FailureReports(RetryAfterSeconds),
         NEW circuits
  PROVE  RetryDelay(t, r, circuits) \in Nat
<1>1. attempts[t] \in Nat
  BY DEF TypeOK
<1>2. r.retryAfter \in Nat
  <2>1. r.retryAfter \in RetryAfterSeconds
    BY DEF FailureReports
  <2> QED
    BY <2>1, Constants
<1>3. retry_delay_seconds(r.class, attempts[t], r.retryAfter) \in Nat
  BY <1>1, <1>2, BackoffBounded
<1> QED
  BY <1>3, Constants DEF RetryDelay, Greater

\* The store starts out well-typed.
LEMMA InitType == Init => TypeOK
BY Constants DEF Init, TypeOK, ClosedCircuit


\* What a failure report leaves behind, whichever way it goes.
LEMMA FailureType ==
  ASSUME TypeOK, NEW t \in Tasks, NEW w \in Workers,
         NEW r \in FailureReports(RetryAfterSeconds), ReportFailure(t, w, r)
  PROVE  TypeOK'
<1>0. status[t] \in TaskStatus
  BY DEF ReportFailure, MayAnswer, TypeOK, ExecutionStates, TaskStatus
<1>1. /\ UNCHANGED <<owner, attempts, approvals, receipts, interventions>>
      /\ cleared' \in [Tasks -> Nat]
  BY DEF ReportFailure, TypeOK
<1>2. CASE RequireRecovery(t, r)
  <2>1. SetStatus(t, status[t], "recovery_required")
    BY <1>2 DEF RequireRecovery
  <2>2. logged' \in [Tasks -> TaskStatus \cup {"absent"}]
    BY <1>2 DEF RequireRecovery, LogFailure, Replay, TypeOK, TaskStatus
  <2>3. recoveryCards' \in [Tasks -> Nat]
    BY <1>2 DEF RequireRecovery, TypeOK
  <2>4. /\ status' \in [Tasks -> TaskStatus \cup {"absent"}]
        /\ lease' \in [Tasks -> {None, -1} \cup Nat]
    BY <1>0, <2>1, SetStatusType
  <2> QED
    BY <1>0, <1>1, <1>2, <2>2, <2>3, <2>4 DEF RequireRecovery, TypeOK
<1>3. CASE ScheduleRetry(t, r)
  <2>1. SetStatus(t, status[t], "retry_wait")
    BY <1>3 DEF ScheduleRetry
  <2>2. logged' \in [Tasks -> TaskStatus \cup {"absent"}]
    BY <1>3 DEF ScheduleRetry, LogFailure, Replay, TypeOK, TaskStatus
  <2>3. retryIn' \in [Tasks -> {None} \cup Nat]
    BY <1>3, DelayType DEF ScheduleRetry, TypeOK
  <2> QED
    BY <1>0, <1>1, <1>3, <2>1, <2>2, <2>3, SetStatusType, CircuitType
    DEF ScheduleRetry, TypeOK
<1>4. CASE ExhaustRetries(t, r)
  <2>1. SetStatus(t, status[t], "failed")
    BY <1>4 DEF ExhaustRetries
  <2>2. logged' \in [Tasks -> TaskStatus \cup {"absent"}]
    BY <1>4 DEF ExhaustRetries, LogFailure, Replay, TypeOK, TaskStatus
  <2>3. deadLetters' \in [Tasks -> Nat]
    BY <1>4 DEF ExhaustRetries, TypeOK
  <2>4. /\ status' \in [Tasks -> TaskStatus \cup {"absent"}]
        /\ lease' \in [Tasks -> {None, -1} \cup Nat]
    BY <1>0, <2>1, SetStatusType
  <2> QED
    BY <1>0, <1>1, <1>4, <2>2, <2>3, <2>4, CircuitType
    DEF ExhaustRetries, TypeOK
<1>5. ASSUME NEW class, NEW target, StopForHuman(t, r, class, target)
      PROVE  TypeOK'
  <2>1. SetStatus(t, status[t], target)
    BY <1>5 DEF StopForHuman
  <2>2. logged' \in [Tasks -> TaskStatus \cup {"absent"}]
    BY <1>5 DEF StopForHuman, Log, Classified, Replay, TypeOK, TaskStatus
  <2> QED
    BY <1>0, <1>1, <1>5, <2>1, <2>2, SetStatusType DEF StopForHuman, TypeOK
<1>6. CASE FailPermanently(t, r)
  <2>1. SetStatus(t, status[t], "failed")
    BY <1>6 DEF FailPermanently
  <2>2. logged' \in [Tasks -> TaskStatus \cup {"absent"}]
    BY <1>6 DEF FailPermanently, LogFailure, Replay, TypeOK, TaskStatus
  <2>3. deadLetters' \in [Tasks -> Nat]
    BY <1>6 DEF FailPermanently, TypeOK
  <2>4. /\ status' \in [Tasks -> TaskStatus \cup {"absent"}]
        /\ lease' \in [Tasks -> {None, -1} \cup Nat]
    BY <1>0, <2>1, SetStatusType
  <2> QED
    BY <1>0, <1>1, <1>6, <2>2, <2>3, <2>4 DEF FailPermanently, TypeOK
<1> QED
  BY <1>2, <1>3, <1>4, <1>5, <1>6 DEF ReportFailure

\* A lease of any length is a number of ticks, or over.
LEMMA LeaseType == \A m \in LeaseMinutes : LeaseOf(m) \in {-1} \cup Nat
BY Constants DEF LeaseOf, Greater

\* Every step keeps the types.
LEMMA TypeStep == TypeOK /\ [Next]_vars => TypeOK'
<1> SUFFICES ASSUME TypeOK, [Next]_vars
             PROVE  TypeOK'
  OBVIOUS
<1>1. ASSUME NEW t \in Tasks, CreateTask(t)
      PROVE  TypeOK'
  BY <1>1 DEF CreateTask, Log, Replay, TypeOK, TaskStatus, evidenceVars
<1>2. ASSUME NEW t \in Tasks, NEW w \in Workers, NEW m \in LeaseMinutes,
             Claim(t, w, m)
      PROVE  TypeOK'
  <2>1. lease' \in [Tasks -> {None, -1} \cup Nat]
    BY <1>2, LeaseType DEF Claim, TypeOK
  <2>2. logged' \in [Tasks -> TaskStatus \cup {"absent"}]
    BY <1>2 DEF Claim, Log, Replay, TypeOK, TaskStatus
  <2>3. attempts' \in [Tasks -> Nat]
    BY <1>2 DEF Claim, TypeOK
  <2> QED
    BY <1>2, <2>1, <2>2, <2>3 DEF Claim, TypeOK, TaskStatus, evidenceVars
<1>3. ASSUME NEW t \in Tasks, NEW w \in Workers, NEW m \in LeaseMinutes,
             Heartbeat(t, w, m)
      PROVE  TypeOK'
  BY <1>3, LeaseType DEF Heartbeat, TypeOK, evidenceVars
<1>4. ASSUME NEW t \in Tasks, NEW w \in Workers,
             NEW r \in FailureReports(RetryAfterSeconds), ReportFailure(t, w, r)
      PROVE  TypeOK'
  BY <1>4, FailureType
<1>5. ASSUME NEW t \in Tasks, NEW w \in Workers, NEW o \in Outcomes,
             SubmitReceipt(t, w, o)
      PROVE  TypeOK'
  <2> DEFINE target == ReceiptTarget(t, o)
  <2>1. SetStatus(t, "in_progress", target)
    BY <1>5 DEF SubmitReceipt
  <2>2. target \in TaskStatus
    BY <2>1, TableTargets DEF SetStatus, TaskStatus
  <2>3. /\ status' \in [Tasks -> TaskStatus \cup {"absent"}]
        /\ lease' \in [Tasks -> {None, -1} \cup Nat]
    BY <2>1, SetStatusType DEF TaskStatus
  <2>4. logged' \in [Tasks -> TaskStatus \cup {"absent"}]
    BY <1>5, <2>2 DEF SubmitReceipt, Log, Replay, TypeOK
  <2>5. receipts' \in [Tasks -> Seq(Outcomes)]
    BY <1>5 DEF SubmitReceipt, TypeOK
  <2>6. circuit' \in [Routes -> [state : {"closed", "open"}, failures : Nat,
                                 openFor : Nat]]
    BY <1>5 DEF SubmitReceipt, TypeOK, ClosedCircuit
  <2> QED
    BY <1>5, <2>3, <2>4, <2>5, <2>6 DEF SubmitReceipt, TypeOK
<1>6. ASSUME NEW t \in Tasks, NEW a \in Actions, RequestApproval(t, a)
      PROVE  TypeOK'
  <2>1. /\ status' \in [Tasks -> TaskStatus \cup {"absent"}]
        /\ lease' \in [Tasks -> {None, -1} \cup Nat]
    BY <1>6, SetStatusType DEF RequestApproval, Exists, TypeOK
  <2>2. logged' \in [Tasks -> TaskStatus \cup {"absent"}]
    BY <1>6 DEF RequestApproval, Log, Replay, TypeOK, TaskStatus
  <2>3. approvals' \in [Tasks -> Seq([action : Actions,
                                      status : {"requested"} \cup Decisions])]
    <3> DEFINE Row == [action : Actions, status : {"requested"} \cup Decisions]
    <3>1. [action |-> a, status |-> "requested"] \in Row
      OBVIOUS
    <3>2. approvals[t] \in Seq(Row)
      BY DEF TypeOK
    <3>3. Append(approvals[t], [action |-> a, status |-> "requested"]) \in Seq(Row)
      BY <3>1, <3>2
    <3> QED
      BY <1>6, <3>3 DEF RequestApproval, TypeOK
  <2> QED
    BY <1>6, <2>1, <2>2, <2>3 DEF RequestApproval, TypeOK
<1>7. ASSUME NEW t \in Tasks, NEW i \in DOMAIN approvals[t],
             NEW d \in Decisions, DecideApproval(t, i, d)
      PROVE  TypeOK'
  <2>1. /\ status' \in [Tasks -> TaskStatus \cup {"absent"}]
        /\ lease' \in [Tasks -> {None, -1} \cup Nat]
    BY <1>7, SetStatusType DEF DecideApproval, Exists, TypeOK
  <2>2. logged' \in [Tasks -> TaskStatus \cup {"absent"}]
    BY <1>7 DEF DecideApproval, Log, Replay, TypeOK, TaskStatus
  <2>3. approvals' \in [Tasks -> Seq([action : Actions,
                                      status : {"requested"} \cup Decisions])]
    <3> DEFINE Row == [action : Actions, status : {"requested"} \cup Decisions]
               decided == [approvals[t] EXCEPT ![i].status = d]
    <3>1. approvals[t] \in Seq(Row)
      BY DEF TypeOK
    <3>2. approvals[t][i] \in Row
      BY <3>1, SeqElement
    <3>3. [approvals[t][i] EXCEPT !.status = d] \in Row
      BY <3>2
    <3>4. decided \in Seq(Row)
      BY <3>1, <3>3, SeqElement
    <3>5. approvals' = [approvals EXCEPT ![t] = decided]
      BY <1>7 DEF DecideApproval, TypeOK
    <3> QED
      BY <3>4, <3>5 DEF TypeOK
  <2> QED
    BY <1>7, <2>1, <2>2, <2>3 DEF DecideApproval, TypeOK
<1>8. CASE ExpireLeases
  <2>1. status' \in [Tasks -> TaskStatus \cup {"absent"}]
    BY <1>8 DEF ExpireLeases, TypeOK, TaskStatus
  <2>2. recoveryCards' \in [Tasks -> Nat]
    BY <1>8 DEF ExpireLeases, TypeOK
  <2>3. logged' \in [Tasks -> TaskStatus \cup {"absent"}]
    BY <1>8 DEF ExpireLeases, Replay, TypeOK, TaskStatus
  <2> QED
    BY <1>8, <2>1, <2>2, <2>3 DEF ExpireLeases, TypeOK
<1>9. CASE ReleaseDueRetries
  BY <1>9 DEF ReleaseDueRetries, Replay, TypeOK, TaskStatus, evidenceVars
<1>10. CASE Tick
  <2>1. lease' \in [Tasks -> {None, -1} \cup Nat]
    <3>1. \A x \in {-1} \cup Nat : Greater(x - 1, -1) \in {-1} \cup Nat
      BY DEF Greater
    <3> QED
      BY <1>10, <3>1 DEF Tick, TypeOK
  <2>2. retryIn' \in [Tasks -> {None} \cup Nat]
    BY <1>10 DEF Tick, TypeOK, Greater
  <2>3. circuit' \in [Routes -> [state : {"closed", "open"}, failures : Nat,
                                 openFor : Nat]]
    <3> DEFINE Row == [state : {"closed", "open"}, failures : Nat, openFor : Nat]
    <3>1. \A row \in Row : [row EXCEPT !.openFor = Greater(@ - 1, 0)] \in Row
      BY DEF Greater
    <3>2. circuit \in [Routes -> Row]
      BY DEF TypeOK
    <3> QED
      BY <1>10, <3>1, <3>2 DEF Tick
  <2> QED
    BY <1>10, <2>1, <2>2, <2>3 DEF Tick, TypeOK, evidenceVars
<1>11. ASSUME NEW t \in Tasks, NEW target \in TaskStatus, Transition(t, target)
       PROVE  TypeOK'
  <2>1. /\ status' \in [Tasks -> TaskStatus \cup {"absent"}]
        /\ lease' \in [Tasks -> {None, -1} \cup Nat]
    BY <1>11, SetStatusType DEF Transition, Exists, TypeOK
  <2>2. logged' \in [Tasks -> TaskStatus \cup {"absent"}]
    BY <1>11 DEF Transition, Log, Replay, TypeOK, TaskStatus
  <2>3. interventions' \in [Tasks -> 0..MaxInterventions]
    BY <1>11, Constants DEF Transition, TypeOK
  <2> QED
    BY <1>11, <2>1, <2>2, <2>3 DEF Transition, TypeOK, evidenceVars
<1>12. CASE UNCHANGED vars
  BY <1>12 DEF vars, taskVars, evidenceVars, TypeOK
<1> QED
  BY <1>1, <1>2, <1>3, <1>4, <1>5, <1>6, <1>7, <1>8, <1>9, <1>10, <1>11, <1>12
  DEF Next, ApiNext

\* The type invariant, under any use of the store.
THEOREM TypeInvariant == Spec => []TypeOK
<1>1. Init => TypeOK
  BY InitType
<1>2. TypeOK /\ [Next]_vars => TypeOK'
  BY TypeStep
<1> QED
  BY <1>1, <1>2, PTL DEF Spec

-----------------------------------------------------------------------------
\* What a failure report does to the status and to the trail.
LEMMA FailureEffect ==
  ASSUME TypeOK, NEW t \in Tasks, NEW w \in Workers,
         NEW r \in FailureReports(RetryAfterSeconds), ReportFailure(t, w, r)
  PROVE  \E target \in {"recovery_required", "retry_wait", "failed",
                        "awaiting_decision", "blocked"} :
           /\ target \in TRANSITIONS[status[t]]
           /\ status' = [status EXCEPT ![t] = target]
           /\ logged' = [logged EXCEPT ![t] = target]
           /\ target = "retry_wait" => attempts[t] < MaxAttempts[t] /\ r.side # "unknown"
<1> USE DEF SetStatus, LogFailure, Replay
<1>1. CASE RequireRecovery(t, r)
  BY <1>1 DEF RequireRecovery
<1>2. CASE ScheduleRetry(t, r)
  BY <1>2 DEF ScheduleRetry, AttemptsLeft, requires_recovery
<1>3. CASE ExhaustRetries(t, r)
  BY <1>3 DEF ExhaustRetries
<1>4. CASE StopForHuman(t, r, "quota_exhausted", "awaiting_decision")
  BY <1>4 DEF StopForHuman, Log, Classified
<1>5. CASE StopForHuman(t, r, "policy_violation", "blocked")
  BY <1>5 DEF StopForHuman, Log, Classified
<1>6. CASE FailPermanently(t, r)
  BY <1>6 DEF FailPermanently
<1> QED
  BY <1>1, <1>2, <1>3, <1>4, <1>5, <1>6 DEF ReportFailure

\* Each method writes the event that tells its status change.
LEMMA LogStep == TypeOK /\ LogDeterminesStatus /\ [Next]_vars => LogDeterminesStatus'
<1> SUFFICES ASSUME TypeOK, LogDeterminesStatus, [Next]_vars
             PROVE  LogDeterminesStatus'
  OBVIOUS
<1>1. ASSUME NEW t \in Tasks, CreateTask(t)
      PROVE  LogDeterminesStatus'
  BY <1>1 DEF CreateTask, Log, Replay, TypeOK, LogDeterminesStatus
<1>2. ASSUME NEW t \in Tasks, NEW w \in Workers, NEW m \in LeaseMinutes,
             Claim(t, w, m)
      PROVE  LogDeterminesStatus'
  BY <1>2 DEF Claim, Log, Replay, TypeOK, LogDeterminesStatus
<1>3. ASSUME NEW t \in Tasks, NEW w \in Workers, NEW m \in LeaseMinutes,
             Heartbeat(t, w, m)
      PROVE  LogDeterminesStatus'
  BY <1>3 DEF Heartbeat, LogDeterminesStatus
<1>4. ASSUME NEW t \in Tasks, NEW w \in Workers,
             NEW r \in FailureReports(RetryAfterSeconds), ReportFailure(t, w, r)
      PROVE  LogDeterminesStatus'
  <2>1. PICK target \in {"recovery_required", "retry_wait", "failed",
                         "awaiting_decision", "blocked"} :
          /\ status' = [status EXCEPT ![t] = target]
          /\ logged' = [logged EXCEPT ![t] = target]
    BY <1>4, FailureEffect
  <2> QED
    BY <2>1 DEF TypeOK, LogDeterminesStatus
<1>5. ASSUME NEW t \in Tasks, NEW w \in Workers, NEW o \in Outcomes,
             SubmitReceipt(t, w, o)
      PROVE  LogDeterminesStatus'
  BY <1>5 DEF SubmitReceipt, SetStatus, Log, Replay, TypeOK, LogDeterminesStatus
<1>6. ASSUME NEW t \in Tasks, NEW a \in Actions, RequestApproval(t, a)
      PROVE  LogDeterminesStatus'
  BY <1>6 DEF RequestApproval, SetStatus, Log, Replay, TypeOK, LogDeterminesStatus
<1>7. ASSUME NEW t \in Tasks, NEW i \in DOMAIN approvals[t],
             NEW d \in Decisions, DecideApproval(t, i, d)
      PROVE  LogDeterminesStatus'
  BY <1>7 DEF DecideApproval, SetStatus, Log, Replay, TypeOK, LogDeterminesStatus
<1>8. CASE ExpireLeases
  BY <1>8 DEF ExpireLeases, Replay, TypeOK, LogDeterminesStatus
<1>9. CASE ReleaseDueRetries
  BY <1>9 DEF ReleaseDueRetries, Replay, TypeOK, LogDeterminesStatus
<1>10. CASE Tick
  BY <1>10 DEF Tick, LogDeterminesStatus
<1>11. ASSUME NEW t \in Tasks, NEW target \in TaskStatus, Transition(t, target)
       PROVE  LogDeterminesStatus'
  BY <1>11 DEF Transition, SetStatus, Log, Replay, TypeOK, LogDeterminesStatus
<1>12. CASE UNCHANGED vars
  BY <1>12 DEF vars, taskVars, LogDeterminesStatus
<1> QED
  BY <1>1, <1>2, <1>3, <1>4, <1>5, <1>6, <1>7, <1>8, <1>9, <1>10, <1>11, <1>12
  DEF Next, ApiNext

\* The event trail alone gives the status of every task, for any number of
\* tasks and workers and any sequence of calls, transition() included.
THEOREM LogCorrect == Spec => []LogDeterminesStatus
<1>1. Init => LogDeterminesStatus
  BY DEF Init, LogDeterminesStatus
<1>2. LogDeterminesStatus /\ TypeOK /\ [Next]_vars => LogDeterminesStatus'
  BY LogStep
<1> QED
  BY <1>1, <1>2, TypeInvariant, PTL DEF Spec

-----------------------------------------------------------------------------
\* The rows of the table that the direct updates of claim, expire_leases and
\* release_due_retries rely on.
LEMMA TableRows ==
  /\ "claimed" \in TRANSITIONS["ready"]
  /\ "ready" \in TRANSITIONS["retry_wait"]
  /\ \A s \in ExecutionStates : "recovery_required" \in TRANSITIONS[s]
BY DEF TRANSITIONS, TaskStatus, ExecutionStates

\* Each step of each method is a move of the table.
LEMMA TableStep == TypeOK /\ [Next]_vars => \A u \in Tasks : FollowsTable(u)
<1> SUFFICES ASSUME TypeOK, [Next]_vars, NEW u \in Tasks
             PROVE  FollowsTable(u)
  OBVIOUS
<1>0. status \in [Tasks -> TaskStatus \cup {"absent"}]
  BY DEF TypeOK
<1>1. ASSUME NEW t \in Tasks, CreateTask(t)
      PROVE  FollowsTable(u)
  BY <1>0, <1>1 DEF CreateTask, KeyTaken, Exists, FollowsTable
<1>2. ASSUME NEW t \in Tasks, NEW w \in Workers, NEW m \in LeaseMinutes,
             Claim(t, w, m)
      PROVE  FollowsTable(u)
  BY <1>0, <1>2, TableRows DEF Claim, Claimable, FollowsTable
<1>3. ASSUME NEW t \in Tasks, NEW w \in Workers, NEW m \in LeaseMinutes,
             Heartbeat(t, w, m)
      PROVE  FollowsTable(u)
  BY <1>3 DEF Heartbeat, FollowsTable
<1>4. ASSUME NEW t \in Tasks, NEW w \in Workers,
             NEW r \in FailureReports(RetryAfterSeconds), ReportFailure(t, w, r)
      PROVE  FollowsTable(u)
  BY <1>0, <1>4, FailureEffect DEF ReportFailure, MayAnswer, ExecutionStates, FollowsTable
<1>5. ASSUME NEW t \in Tasks, NEW w \in Workers, NEW o \in Outcomes,
             SubmitReceipt(t, w, o)
      PROVE  FollowsTable(u)
  BY <1>0, <1>5 DEF SubmitReceipt, MayAnswer, ExecutionStates, SetStatus, FollowsTable
<1>6. ASSUME NEW t \in Tasks, NEW a \in Actions, RequestApproval(t, a)
      PROVE  FollowsTable(u)
  BY <1>0, <1>6 DEF RequestApproval, Exists, SetStatus, FollowsTable
<1>7. ASSUME NEW t \in Tasks, NEW i \in DOMAIN approvals[t],
             NEW d \in Decisions, DecideApproval(t, i, d)
      PROVE  FollowsTable(u)
  BY <1>0, <1>7 DEF DecideApproval, Exists, SetStatus, FollowsTable
<1>8. CASE ExpireLeases
  BY <1>0, <1>8, TableRows DEF ExpireLeases, Lapsed, ExecutionStates, FollowsTable
<1>9. CASE ReleaseDueRetries
  BY <1>0, <1>9, TableRows DEF ReleaseDueRetries, Due, FollowsTable
<1>10. CASE Tick
  BY <1>10 DEF Tick, FollowsTable
<1>11. ASSUME NEW t \in Tasks, NEW target \in TaskStatus, Transition(t, target)
       PROVE  FollowsTable(u)
  BY <1>0, <1>11 DEF Transition, Exists, SetStatus, FollowsTable
<1>12. CASE UNCHANGED vars
  BY <1>12 DEF vars, taskVars, FollowsTable
<1> QED
  BY <1>1, <1>2, <1>3, <1>4, <1>5, <1>6, <1>7, <1>8, <1>9, <1>10, <1>11, <1>12
  DEF Next, ApiNext

\* No method, the bulk updates included, ever commits a status change that
\* the transition table does not have.
THEOREM TableRespected == Spec => StatusFollowsTable
<1>1. TypeOK /\ [Next]_vars => [\A t \in Tasks : FollowsTable(t)]_vars
  BY TableStep
<1> QED
  BY <1>1, TypeInvariant, PTL DEF Spec, StatusFollowsTable

-----------------------------------------------------------------------------
\* The inductive form of RetryBudget: a card without a row has used nothing.
Budgeted ==
  /\ RetryBudget
  /\ \A t \in Tasks : status[t] = "absent" => attempts[t] = 0

\* Claims spend what failure handling has left over, transitions add one.
LEMMA BudgetStep == TypeOK /\ Budgeted /\ [Next]_vars => Budgeted'
<1> SUFFICES ASSUME TypeOK, Budgeted, [Next]_vars
             PROVE  Budgeted'
  OBVIOUS
<1>0. /\ status \in [Tasks -> TaskStatus \cup {"absent"}]
      /\ attempts \in [Tasks -> Nat]
      /\ interventions \in [Tasks -> Nat]
      /\ MaxAttempts \in [Tasks -> Nat \ {0}]
  BY Constants DEF TypeOK
<1>1. ASSUME NEW t \in Tasks, CreateTask(t)
      PROVE  Budgeted'
  BY <1>0, <1>1 DEF CreateTask, KeyTaken, Exists, Budgeted, RetryBudget
<1>2. ASSUME NEW t \in Tasks, NEW w \in Workers, NEW m \in LeaseMinutes,
             Claim(t, w, m)
      PROVE  Budgeted'
  BY <1>0, <1>2 DEF Claim, Claimable, Budgeted, RetryBudget
<1>3. ASSUME NEW t \in Tasks, NEW w \in Workers, NEW m \in LeaseMinutes,
             Heartbeat(t, w, m)
      PROVE  Budgeted'
  BY <1>0, <1>3 DEF Heartbeat, Budgeted, RetryBudget
<1>4. ASSUME NEW t \in Tasks, NEW w \in Workers,
             NEW r \in FailureReports(RetryAfterSeconds), ReportFailure(t, w, r)
      PROVE  Budgeted'
  <2>1. UNCHANGED <<attempts, interventions>>
    BY <1>4 DEF ReportFailure
  <2>2. PICK target \in {"recovery_required", "retry_wait", "failed",
                         "awaiting_decision", "blocked"} :
          /\ status' = [status EXCEPT ![t] = target]
          /\ target = "retry_wait" => attempts[t] < MaxAttempts[t]
    BY <1>4, FailureEffect
  <2> QED
    BY <1>0, <2>1, <2>2 DEF Budgeted, RetryBudget
<1>5. ASSUME NEW t \in Tasks, NEW w \in Workers, NEW o \in Outcomes,
             SubmitReceipt(t, w, o)
      PROVE  Budgeted'
  <2>1. ReceiptTarget(t, o) \in {"review", "done", "failed", "blocked"}
    BY DEF ReceiptTarget, Outcomes
  <2> QED
    BY <1>0, <1>5, <2>1 DEF SubmitReceipt, SetStatus, Budgeted, RetryBudget
<1>6. ASSUME NEW t \in Tasks, NEW a \in Actions, RequestApproval(t, a)
      PROVE  Budgeted'
  BY <1>0, <1>6 DEF RequestApproval, SetStatus, Budgeted, RetryBudget
<1>7. ASSUME NEW t \in Tasks, NEW i \in DOMAIN approvals[t],
             NEW d \in Decisions, DecideApproval(t, i, d)
      PROVE  Budgeted'
  BY <1>0, <1>7 DEF DecideApproval, SetStatus, Budgeted, RetryBudget
<1>8. CASE ExpireLeases
  BY <1>0, <1>8 DEF ExpireLeases, Lapsed, Budgeted, RetryBudget
<1>9. CASE ReleaseDueRetries
  BY <1>0, <1>9 DEF ReleaseDueRetries, Due, Budgeted, RetryBudget
<1>10. CASE Tick
  BY <1>0, <1>10 DEF Tick, Budgeted, RetryBudget
<1>11. ASSUME NEW t \in Tasks, NEW target \in TaskStatus, Transition(t, target)
       PROVE  Budgeted'
  <2>1. /\ status' = [status EXCEPT ![t] = target]
        /\ interventions' = [interventions EXCEPT ![t] = @ + 1]
        /\ attempts' = attempts
        /\ target # "absent"
    BY <1>11 DEF Transition, SetStatus, TaskStatus
  <2>2. ASSUME NEW u \in Tasks
        PROVE  /\ attempts[u] < MaxAttempts[u] + interventions'[u] \/ u # t
               /\ attempts[u] <= MaxAttempts[u] + interventions'[u]
    BY <1>0, <2>1 DEF Budgeted, RetryBudget
  <2> QED
    BY <1>0, <2>1, <2>2 DEF Budgeted, RetryBudget
<1>12. CASE UNCHANGED vars
  BY <1>0, <1>12 DEF vars, taskVars, Budgeted, RetryBudget
<1> QED
  BY <1>1, <1>2, <1>3, <1>4, <1>5, <1>6, <1>7, <1>8, <1>9, <1>10, <1>11, <1>12
  DEF Next, ApiNext

\* No task starts more often than its card allows, unless an operator put it
\* back with transition(), and then once more per intervention at most.
THEOREM BudgetRespected == Spec => []RetryBudget
<1>1. Init => Budgeted
  BY Constants DEF Init, Budgeted, RetryBudget
<1>2. Budgeted /\ TypeOK /\ [Next]_vars => Budgeted'
  BY BudgetStep
<1>3. Budgeted => RetryBudget
  BY DEF Budgeted
<1> QED
  BY <1>1, <1>2, <1>3, TypeInvariant, PTL DEF Spec

-----------------------------------------------------------------------------
\* One more failure keeps the state of a circuit and its count in agreement.
LEMMA CircuitFailure ==
  ASSUME TypeOK, CircuitConsistent, NEW t \in Tasks, NEW class,
         circuit' = RecordCircuitFailure(t, class)
  PROVE  CircuitConsistent'
<1> DEFINE Row == [state : {"closed", "open"}, failures : Nat, openFor : Nat]
           Agrees(row) == /\ row.state = "open"
                               <=> row.failures >= CIRCUIT_FAILURE_THRESHOLD
                          /\ row.openFor > 0 => row.state = "open"
<1>1. ASSUME NEW row \in Row, Agrees(row)
      PROVE  Agrees(AfterFailure(row))
  BY <1>1, Constants DEF AfterFailure
<1>2. Route[t] \in Routes /\ circuit \in [Routes -> Row]
  BY Constants DEF TypeOK
<1>3. \A k \in Routes : Agrees(circuit[k])
  BY DEF CircuitConsistent
<1>4. \A k \in Routes : circuit'[k] = circuit[k] \/ circuit'[k] = AfterFailure(circuit[k])
  BY <1>2 DEF RecordCircuitFailure
<1>5. \A k \in Routes : Agrees(circuit'[k])
  BY <1>1, <1>2, <1>3, <1>4
<1> QED
  BY <1>5 DEF CircuitConsistent

\* Failures, successes and the clock are all that touches a circuit.
LEMMA CircuitStep == TypeOK /\ CircuitConsistent /\ [Next]_vars => CircuitConsistent'
<1> SUFFICES ASSUME TypeOK, CircuitConsistent, [Next]_vars
             PROVE  CircuitConsistent'
  OBVIOUS
<1>1. CASE UNCHANGED circuit
  BY <1>1 DEF CircuitConsistent
<1>2. ASSUME NEW t \in Tasks, NEW w \in Workers,
             NEW r \in FailureReports(RetryAfterSeconds), ReportFailure(t, w, r)
      PROVE  CircuitConsistent'
  <2>1. UNCHANGED circuit \/ circuit' = RecordCircuitFailure(t, r.class)
    BY <1>2 DEF ReportFailure, RequireRecovery, ScheduleRetry, ExhaustRetries,
                StopForHuman, FailPermanently
  <2> QED
    BY <1>1, <2>1, CircuitFailure
<1>3. ASSUME NEW t \in Tasks, NEW w \in Workers, NEW o \in Outcomes,
             SubmitReceipt(t, w, o)
      PROVE  CircuitConsistent'
  <2>1. \A k \in Routes : circuit'[k] = circuit[k] \/ circuit'[k] = ClosedCircuit
    BY <1>3 DEF SubmitReceipt, TypeOK
  <2> QED
    BY <2>1, Constants DEF CircuitConsistent, ClosedCircuit
<1>4. CASE Tick
  <2>1. \A k \in Routes : /\ circuit'[k].state = circuit[k].state
                          /\ circuit'[k].failures = circuit[k].failures
                          /\ circuit'[k].openFor > 0 => circuit[k].openFor > 0
    BY <1>4 DEF Tick, TypeOK, Greater
  <2> QED
    BY <2>1 DEF CircuitConsistent
<1>5. ASSUME NEW t \in Tasks, CreateTask(t)
      PROVE  CircuitConsistent'
  BY <1>1, <1>5 DEF CreateTask
<1>6. ASSUME NEW t \in Tasks, NEW w \in Workers, NEW m \in LeaseMinutes,
             Claim(t, w, m) \/ Heartbeat(t, w, m)
      PROVE  CircuitConsistent'
  BY <1>1, <1>6 DEF Claim, Heartbeat
<1>7. ASSUME NEW t \in Tasks, NEW a \in Actions, RequestApproval(t, a)
      PROVE  CircuitConsistent'
  BY <1>1, <1>7 DEF RequestApproval
<1>8. ASSUME NEW t \in Tasks, NEW i \in DOMAIN approvals[t],
             NEW d \in Decisions, DecideApproval(t, i, d)
      PROVE  CircuitConsistent'
  BY <1>1, <1>8 DEF DecideApproval
<1>9. CASE ExpireLeases \/ ReleaseDueRetries
  BY <1>1, <1>9 DEF ExpireLeases, ReleaseDueRetries
<1>10. ASSUME NEW t \in Tasks, NEW target \in TaskStatus, Transition(t, target)
       PROVE  CircuitConsistent'
  BY <1>1, <1>10 DEF Transition
<1>11. CASE UNCHANGED vars
  BY <1>1, <1>11 DEF vars
<1> QED
  BY <1>2, <1>3, <1>4, <1>5, <1>6, <1>7, <1>8, <1>9, <1>10, <1>11 DEF Next, ApiNext

\* A circuit is open exactly from the threshold on, whatever the order of
\* failures, successes and cooldowns on its route.
THEOREM CircuitRespected == Spec => []CircuitConsistent
<1>1. Init => CircuitConsistent
  BY Constants DEF Init, CircuitConsistent, ClosedCircuit
<1>2. CircuitConsistent /\ TypeOK /\ [Next]_vars => CircuitConsistent'
  BY CircuitStep
<1> QED
  BY <1>1, <1>2, TypeInvariant, PTL DEF Spec

-----------------------------------------------------------------------------
\* The retry that a failure schedules waits at least for the cooldown that is
\* left on its route once the failure is counted.
LEMMA DelayCovers ==
  ASSUME TypeOK, CircuitConsistent, NEW t \in Tasks,
         NEW r \in FailureReports(RetryAfterSeconds), r.class \in CIRCUIT_FAILURES
  PROVE  LET circuits == RecordCircuitFailure(t, r.class)
         IN  RetryDelay(t, r, circuits) >= circuits[Route[t]].openFor
<1> DEFINE row == circuit[Route[t]]
           after == AfterFailure(row)
           delay == retry_delay_seconds(r.class, attempts[t], r.retryAfter)
<1>1. /\ row \in [state : {"closed", "open"}, failures : Nat, openFor : Nat]
      /\ row.state = "open" <=> row.failures >= CIRCUIT_FAILURE_THRESHOLD
      /\ row.openFor > 0 => row.state = "open"
  BY Constants DEF TypeOK, CircuitConsistent
<1>2. RecordCircuitFailure(t, r.class)[Route[t]] = after
  BY Constants DEF RecordCircuitFailure, TypeOK
<1>3. delay \in Nat
  <2>1. attempts[t] \in Nat
    BY DEF TypeOK
  <2>2. r.retryAfter \in Nat
    BY Constants DEF FailureReports
  <2> QED
    BY <2>1, <2>2, BackoffBounded
<1>4. RetryDelay(t, r, RecordCircuitFailure(t, r.class))
        = IF after.state = "open" THEN Greater(delay, CIRCUIT_COOLDOWN_SECONDS) ELSE delay
  BY <1>2 DEF RetryDelay
<1> HIDE DEF row, delay
<1>5. CASE row.failures + 1 < CIRCUIT_FAILURE_THRESHOLD
  <2>1. after.state # "open" /\ after.openFor = 0
    BY <1>1, <1>5, Constants DEF AfterFailure
  <2> QED
    BY <1>2, <1>3, <1>4, <2>1
<1>6. CASE ~(row.failures + 1 < CIRCUIT_FAILURE_THRESHOLD)
  <2>1. after.state = "open" /\ after.openFor = CIRCUIT_COOLDOWN_SECONDS
    BY <1>1, <1>6, Constants DEF AfterFailure
  <2> QED
    BY <1>2, <1>3, <1>4, <2>1, Constants DEF Greater
<1> QED
  BY <1>5, <1>6

\* Only a failure report schedules a retry and counts a failure in one step.
LEMMA WaitStep ==
  ASSUME TypeOK, CircuitConsistent, [Next]_vars, NEW u \in Tasks
  PROVE  WaitsOut(u)
<1> SUFFICES ASSUME status[u] \in ExecutionStates, status'[u] = "retry_wait",
                    circuit'[Route[u]].failures > circuit[Route[u]].failures
             PROVE  retryIn'[u] >= circuit'[Route[u]].openFor
  BY DEF WaitsOut
<1>0. /\ status \in [Tasks -> TaskStatus \cup {"absent"}]
      /\ circuit[Route[u]].failures \in Nat
      /\ circuit' # circuit /\ status' # status
  BY Constants DEF TypeOK, ExecutionStates
<1>1. ASSUME NEW t \in Tasks, NEW w \in Workers,
             NEW r \in FailureReports(RetryAfterSeconds), ReportFailure(t, w, r)
      PROVE  retryIn'[u] >= circuit'[Route[u]].openFor
  <2>1. u = t
    BY <1>0, <1>1, FailureEffect DEF ExecutionStates
  <2>2. ScheduleRetry(t, r)
    BY <1>0, <1>1, <2>1 DEF ReportFailure, RequireRecovery, ExhaustRetries,
                            StopForHuman, FailPermanently, SetStatus
  <2>3. circuit' = RecordCircuitFailure(t, r.class) /\ r.class \in CIRCUIT_FAILURES
    BY <1>0, <2>2 DEF ScheduleRetry, RecordCircuitFailure
  <2>4. retryIn'[u] = RetryDelay(t, r, RecordCircuitFailure(t, r.class))
    BY <2>1, <2>2 DEF ScheduleRetry, TypeOK
  <2> QED
    BY <2>1, <2>3, <2>4, DelayCovers
<1>2. ASSUME NEW t \in Tasks, NEW w \in Workers, NEW o \in Outcomes,
             SubmitReceipt(t, w, o)
      PROVE  FALSE
  <2>1. circuit'[Route[u]] \in {circuit[Route[u]], ClosedCircuit}
    BY <1>2, Constants DEF SubmitReceipt, TypeOK
  <2> QED
    BY <1>0, <2>1 DEF ClosedCircuit
<1>3. ASSUME NEW t \in Tasks, CreateTask(t)
      PROVE  FALSE
  BY <1>0, <1>3 DEF CreateTask
<1>4. ASSUME NEW t \in Tasks, NEW w \in Workers, NEW m \in LeaseMinutes,
             Claim(t, w, m) \/ Heartbeat(t, w, m)
      PROVE  FALSE
  BY <1>0, <1>4 DEF Claim, Heartbeat
<1>5. ASSUME NEW t \in Tasks, NEW a \in Actions, RequestApproval(t, a)
      PROVE  FALSE
  BY <1>0, <1>5 DEF RequestApproval
<1>6. ASSUME NEW t \in Tasks, NEW i \in DOMAIN approvals[t],
             NEW d \in Decisions, DecideApproval(t, i, d)
      PROVE  FALSE
  BY <1>0, <1>6 DEF DecideApproval
<1>7. CASE ExpireLeases \/ ReleaseDueRetries
  BY <1>0, <1>7 DEF ExpireLeases, ReleaseDueRetries
<1>8. CASE Tick \/ UNCHANGED vars
  BY <1>0, <1>8 DEF Tick, vars, taskVars
<1>9. ASSUME NEW t \in Tasks, NEW target \in TaskStatus, Transition(t, target)
      PROVE  FALSE
  BY <1>0, <1>9 DEF Transition
<1> QED
  BY <1>1, <1>2, <1>3, <1>4, <1>5, <1>6, <1>7, <1>8, <1>9 DEF Next, ApiNext

\* A retry that a failing route causes never waits shorter than the cooldown
\* its own failure started, for any backoff, bound, cooldown and threshold.
THEOREM RetriesWaitOutCircuit == Spec => RetryWaitsOutCircuit
<1>1. TypeOK /\ CircuitConsistent /\ [Next]_vars => [\A t \in Tasks : WaitsOut(t)]_vars
  BY WaitStep
<1> QED
  BY <1>1, TypeInvariant, CircuitRespected, PTL DEF Spec, RetryWaitsOutCircuit

=============================================================================
