--------------------------- MODULE TaskApiProofs ---------------------------
(***************************************************************************)
(* Theorems about the store as the API uses it, without direct             *)
(* transitions: leases, recovery cards, approvals, and that the store      *)
(* implements TaskAuthority.                                               *)
(***************************************************************************)
EXTENDS TaskStoreProofs

\* Everything the API does is something the store offers.
LEMMA ApiIsStore == [ApiNext]_vars => [Next]_vars
BY DEF Next

\* So the invariants of the store hold under the API.
THEOREM ApiInherits == ApiSpec => [](TypeOK /\ RetryBudget)
<1>1. ApiSpec => Spec
  BY ApiIsStore, PTL DEF ApiSpec, Spec
<1> QED
  BY <1>1, TypeInvariant, BudgetRespected, PTL

-----------------------------------------------------------------------------
\* LeaseDiscipline holds for cards without a row as well: they have no lease.
Leased ==
  /\ LeaseDiscipline
  /\ \A t \in Tasks : status[t] = "absent" => lease[t] = None

\* What a failure report leaves behind besides the status.
LEMMA FailureLease ==
  ASSUME TypeOK, NEW t \in Tasks, NEW w \in Workers,
         NEW r \in FailureReports(RetryAfterSeconds), ReportFailure(t, w, r)
  PROVE  /\ lease' = [lease EXCEPT ![t] = None]
         /\ IF status'[t] = "retry_wait"
            THEN \E d \in Nat : retryIn' = [retryIn EXCEPT ![t] = d]
            ELSE retryIn' = retryIn
         /\ recoveryCards' = IF status'[t] = "recovery_required"
                             THEN [recoveryCards EXCEPT ![t] = @ + 1]
                             ELSE recoveryCards
<1> USE DEF SetStatus, ExecutionStates, TypeOK
<1>1. CASE RequireRecovery(t, r)
  BY <1>1 DEF RequireRecovery
<1>2. CASE ScheduleRetry(t, r)
  <2>1. RetryDelay(t, r, RecordCircuitFailure(t, r.class)) \in Nat
    BY DelayType
  <2> QED
    BY <1>2, <2>1 DEF ScheduleRetry
<1>3. CASE ExhaustRetries(t, r)
  BY <1>3 DEF ExhaustRetries
<1>4. CASE StopForHuman(t, r, "quota_exhausted", "awaiting_decision")
  BY <1>4 DEF StopForHuman
<1>5. CASE StopForHuman(t, r, "policy_violation", "blocked")
  BY <1>5 DEF StopForHuman
<1>6. CASE FailPermanently(t, r)
  BY <1>6 DEF FailPermanently
<1> QED
  BY <1>1, <1>2, <1>3, <1>4, <1>5, <1>6 DEF ReportFailure

\* Only a report that fails the task for good writes a dead letter.
LEMMA FailureLetter ==
  ASSUME TypeOK, NEW t \in Tasks, NEW w \in Workers,
         NEW r \in FailureReports(RetryAfterSeconds), ReportFailure(t, w, r)
  PROVE  deadLetters' = IF status'[t] = "failed" THEN [deadLetters EXCEPT ![t] = @ + 1]
                                                 ELSE deadLetters
<1> USE DEF SetStatus, TypeOK
<1>1. CASE RequireRecovery(t, r) \/ ScheduleRetry(t, r)
  BY <1>1 DEF RequireRecovery, ScheduleRetry
<1>2. CASE ExhaustRetries(t, r) \/ FailPermanently(t, r)
  BY <1>2 DEF ExhaustRetries, FailPermanently
<1>3. CASE \/ StopForHuman(t, r, "quota_exhausted", "awaiting_decision")
           \/ StopForHuman(t, r, "policy_violation", "blocked")
  BY <1>3 DEF StopForHuman
<1> QED
  BY <1>1, <1>2, <1>3 DEF ReportFailure

\* Each method hands the lease over or gives it up.
LEMMA LeaseStep == TypeOK /\ Leased /\ [ApiNext]_vars => Leased'
<1> SUFFICES ASSUME TypeOK, Leased, [ApiNext]_vars
             PROVE  Leased'
  OBVIOUS
<1> USE DEF Leased, LeaseDiscipline, ExecutionStates
<1>0. /\ status \in [Tasks -> TaskStatus \cup {"absent"}]
      /\ owner \in [Tasks -> Workers \cup {None}]
      /\ lease \in [Tasks -> {None, -1} \cup Nat]
      /\ retryIn \in [Tasks -> {None} \cup Nat]
      /\ None \notin Workers /\ None \notin Int
      /\ \A m \in LeaseMinutes : LeaseOf(m) \in {-1} \cup Nat
  BY Constants, LeaseType DEF TypeOK
<1>1. ASSUME NEW t \in Tasks, CreateTask(t)
      PROVE  Leased'
  BY <1>0, <1>1 DEF CreateTask, KeyTaken, Exists
<1>2. ASSUME NEW t \in Tasks, NEW w \in Workers, NEW m \in LeaseMinutes,
             Claim(t, w, m)
      PROVE  Leased'
  BY <1>0, <1>2 DEF Claim, Claimable
<1>3. ASSUME NEW t \in Tasks, NEW w \in Workers, NEW m \in LeaseMinutes,
             Heartbeat(t, w, m)
      PROVE  Leased'
  BY <1>0, <1>3 DEF Heartbeat, HoldsLease
<1>4. ASSUME NEW t \in Tasks, NEW w \in Workers,
             NEW r \in FailureReports(RetryAfterSeconds), ReportFailure(t, w, r)
      PROVE  Leased'
  <2>1. /\ owner' = owner
        /\ status[t] \in ExecutionStates
    BY <1>4 DEF ReportFailure, MayAnswer
  <2>2. PICK target \in {"recovery_required", "retry_wait", "failed",
                         "awaiting_decision", "blocked"} :
          status' = [status EXCEPT ![t] = target]
    BY <1>4, FailureEffect
  <2>3. lease' = [lease EXCEPT ![t] = None]
    BY <1>4, FailureLease
  <2>4. IF target = "retry_wait"
        THEN \E d \in Nat : retryIn' = [retryIn EXCEPT ![t] = d]
        ELSE retryIn' = retryIn
    BY <1>0, <1>4, <2>2, FailureLease
  <2> QED
    BY <1>0, <2>1, <2>2, <2>3, <2>4
<1>5. ASSUME NEW t \in Tasks, NEW w \in Workers, NEW o \in Outcomes,
             SubmitReceipt(t, w, o)
      PROVE  Leased'
  <2>1. ReceiptTarget(t, o) \in {"review", "done", "failed", "blocked"}
    BY DEF ReceiptTarget, Outcomes
  <2> QED
    BY <1>0, <1>5, <2>1 DEF SubmitReceipt, MayAnswer, SetStatus
<1>6. ASSUME NEW t \in Tasks, NEW a \in Actions, RequestApproval(t, a)
      PROVE  Leased'
  <2>1. status[t] = "review"
    BY <1>0, <1>6 DEF RequestApproval, SetStatus, Exists, TRANSITIONS, TaskStatus
  <2> QED
    BY <1>0, <1>6, <2>1 DEF RequestApproval, SetStatus
<1>7. ASSUME NEW t \in Tasks, NEW i \in DOMAIN approvals[t],
             NEW d \in Decisions, DecideApproval(t, i, d)
      PROVE  Leased'
  <2>1. status[t] # "retry_wait"
    BY <1>0, <1>7 DEF DecideApproval, SetStatus, TRANSITIONS, TaskStatus
  <2> QED
    BY <1>0, <1>7, <2>1 DEF DecideApproval, SetStatus
<1>8. CASE ExpireLeases
  BY <1>0, <1>8 DEF ExpireLeases, Lapsed
<1>9. CASE ReleaseDueRetries
  BY <1>0, <1>9 DEF ReleaseDueRetries, Due
<1>10. CASE Tick
  BY <1>0, <1>10 DEF Tick, Greater
<1>11. CASE UNCHANGED vars
  BY <1>11 DEF vars, taskVars
<1> QED
  BY <1>1, <1>2, <1>3, <1>4, <1>5, <1>6, <1>7, <1>8, <1>9, <1>10, <1>11
  DEF ApiNext

\* Under the API a running task has an owner and a deadline, and what waits to
\* run has no deadline left over.
THEOREM LeasesDisciplined == ApiSpec => []LeaseDiscipline
<1>1. Init => Leased
  BY DEF Init, Leased, LeaseDiscipline, ExecutionStates
<1>2. TypeOK /\ Leased /\ [ApiNext]_vars => Leased'
  BY LeaseStep
<1>3. Leased => LeaseDiscipline
  BY DEF Leased
<1> QED
  BY <1>1, <1>2, <1>3, ApiInherits, PTL DEF ApiSpec

-----------------------------------------------------------------------------
\* What one more approval row adds.
LEMMA ApprovalAdded ==
  ASSUME NEW S, NEW s \in Seq(S), NEW e
  PROVE  /\ DOMAIN Append(s, e) = DOMAIN s \cup {Len(s) + 1}
         /\ Len(s) + 1 \notin DOMAIN s
         /\ Append(s, e)[Len(s) + 1] = e
         /\ \A i \in DOMAIN s : Append(s, e)[i] = s[i]
OBVIOUS

\* The inductive form of ApprovalGate: at most one question is open, so the
\* answer to it leaves none.
Gated ==
  /\ ApprovalGate
  /\ \A t \in Tasks : \A i, j \in Approvals(t, "requested") : i = j

\* What Gated says of one task.
GatedTask(t) ==
  /\ status[t] = "done" /\ ApprovalRequired[t] # {}
       => Approvals(t, "approved") # {}
  /\ Approvals(t, "requested") # {} <=> status[t] = "awaiting_approval"
  /\ \A i, j \in Approvals(t, "requested") : i = j

\* Only the two approval methods touch approvals, and only a receipt without
\* required approvals or an approving answer makes a task done.
LEMMA GateStep == TypeOK /\ Gated /\ [ApiNext]_vars => Gated'
<1> SUFFICES ASSUME TypeOK, Gated, [ApiNext]_vars, NEW u \in Tasks
             PROVE  GatedTask(u)'
  BY DEF Gated, GatedTask, ApprovalGate
<1>0. /\ status \in [Tasks -> TaskStatus \cup {"absent"}]
      /\ approvals \in [Tasks -> Seq([action : Actions,
                                      status : {"requested"} \cup Decisions])]
      /\ GatedTask(u)
  BY DEF TypeOK, Gated, GatedTask, ApprovalGate
\* A step that opens or answers no question and leads neither into nor out of
\* the two statuses.
<1>a. ASSUME approvals' = approvals,
             status'[u] = "done" => status[u] = "done" \/ ApprovalRequired[u] = {},
             status'[u] = "awaiting_approval" <=> status[u] = "awaiting_approval"
      PROVE  GatedTask(u)'
  BY <1>0, <1>a DEF GatedTask, Approvals
<1>1. ASSUME NEW t \in Tasks, CreateTask(t)
      PROVE  GatedTask(u)'
  BY <1>0, <1>1, <1>a DEF CreateTask, KeyTaken, Exists, evidenceVars
<1>2. ASSUME NEW t \in Tasks, NEW w \in Workers, NEW m \in LeaseMinutes,
             Claim(t, w, m) \/ Heartbeat(t, w, m)
      PROVE  GatedTask(u)'
  BY <1>0, <1>2, <1>a DEF Claim, Claimable, Heartbeat, evidenceVars
<1>3. ASSUME NEW t \in Tasks, NEW w \in Workers,
             NEW r \in FailureReports(RetryAfterSeconds), ReportFailure(t, w, r)
      PROVE  GatedTask(u)'
  BY <1>0, <1>3, <1>a, FailureEffect DEF ReportFailure, MayAnswer, ExecutionStates
<1>4. ASSUME NEW t \in Tasks, NEW w \in Workers, NEW o \in Outcomes,
             SubmitReceipt(t, w, o)
      PROVE  GatedTask(u)'
  <2>1. /\ ReceiptTarget(t, o) \in {"review", "done", "failed", "blocked"}
        /\ ReceiptTarget(t, o) = "done" => ApprovalRequired[t] = {}
    BY DEF ReceiptTarget, Outcomes
  <2> QED
    BY <1>0, <1>4, <1>a, <2>1 DEF SubmitReceipt, MayAnswer, SetStatus, ExecutionStates
<1>5. ASSUME NEW t \in Tasks, NEW a \in Actions, RequestApproval(t, a)
      PROVE  GatedTask(u)'
  <2>1. status[t] = "review" /\ status' = [status EXCEPT ![t] = "awaiting_approval"]
    BY <1>0, <1>5 DEF RequestApproval, SetStatus, Exists, TRANSITIONS, TaskStatus
  <2>2. CASE u # t
    BY <1>0, <1>5, <2>1, <2>2 DEF RequestApproval, GatedTask, Approvals
  <2>3. CASE u = t
    <3> DEFINE e == [action |-> a, status |-> "requested"]
    <3>1. approvals'[u] = Append(approvals[u], e) /\ status'[u] = "awaiting_approval"
      BY <1>0, <1>5, <2>1, <2>3 DEF RequestApproval
    <3>2. Approvals(u, "requested") = {}
      BY <1>0, <2>1, <2>3 DEF GatedTask
    <3>3. Approvals(u, "requested")' = {Len(approvals[u]) + 1}
      BY <1>0, <3>1, <3>2, ApprovalAdded DEF Approvals
    <3> QED
      BY <3>1, <3>3 DEF GatedTask
  <2> QED
    BY <2>2, <2>3
<1>6. ASSUME NEW t \in Tasks, NEW i \in DOMAIN approvals[t],
             NEW d \in Decisions, DecideApproval(t, i, d)
      PROVE  GatedTask(u)'
  <2>1. /\ approvals' = [approvals EXCEPT ![t][i].status = d]
        /\ status' = [status EXCEPT ![t] = IF d = "approved" THEN "done" ELSE "blocked"]
        /\ approvals[t][i].status = "requested"
    BY <1>6 DEF DecideApproval, SetStatus
  <2>2. CASE u # t
    BY <1>0, <2>1, <2>2 DEF GatedTask, Approvals
  <2>3. CASE u = t
    <3>1. Approvals(u, "requested") = {i}
      BY <1>0, <1>6, <2>1, <2>3 DEF GatedTask, Approvals
    <3>2. /\ DOMAIN approvals'[u] = DOMAIN approvals[u]
          /\ approvals'[u][i].status = d
          /\ \A j \in DOMAIN approvals[u] : j # i => approvals'[u][j] = approvals[u][j]
      BY <1>0, <1>6, <2>1, <2>3
    <3>3. Approvals(u, "requested")' = {} /\ Approvals(u, d)' # {}
      BY <1>6, <2>3, <3>1, <3>2 DEF Approvals, Decisions
    <3>4. status'[u] = IF d = "approved" THEN "done" ELSE "blocked"
      BY <1>0, <2>1, <2>3
    <3> QED
      BY <3>3, <3>4 DEF GatedTask
  <2> QED
    BY <2>2, <2>3
<1>7. CASE ExpireLeases
  BY <1>0, <1>7, <1>a DEF ExpireLeases, Lapsed, ExecutionStates
<1>8. CASE ReleaseDueRetries
  BY <1>0, <1>8, <1>a DEF ReleaseDueRetries, Due, evidenceVars
<1>9. CASE Tick \/ UNCHANGED vars
  BY <1>9, <1>a DEF Tick, vars, taskVars, evidenceVars
<1> QED
  BY <1>1, <1>2, <1>3, <1>4, <1>5, <1>6, <1>7, <1>8, <1>9 DEF ApiNext

\* Under the API no task that needs an approval is done without one, and a
\* question is open exactly while its task awaits the answer.
THEOREM ApprovalsGate == ApiSpec => []ApprovalGate
<1>1. Init => Gated
  BY DEF Init, Gated, ApprovalGate, Approvals
<1>2. TypeOK /\ Gated /\ [ApiNext]_vars => Gated'
  BY GateStep
<1>3. Gated => ApprovalGate
  BY DEF Gated
<1> QED
  BY <1>1, <1>2, <1>3, ApiInherits, PTL DEF ApiSpec

-----------------------------------------------------------------------------
\* A recovery card is written when a task enters recovery_required, which no
\* method of the API leaves or enters twice.
LEMMA RecoveryStep ==
  TypeOK /\ Gated /\ RecoveryCardsMatchStatus /\ [ApiNext]_vars
    => RecoveryCardsMatchStatus'
<1> SUFFICES ASSUME TypeOK, Gated, RecoveryCardsMatchStatus, [ApiNext]_vars
             PROVE  RecoveryCardsMatchStatus'
  OBVIOUS
<1> USE DEF RecoveryCardsMatchStatus
<1>0. /\ status \in [Tasks -> TaskStatus \cup {"absent"}]
      /\ recoveryCards \in [Tasks -> Nat]
  BY DEF TypeOK
<1>1. ASSUME NEW t \in Tasks, CreateTask(t)
      PROVE  RecoveryCardsMatchStatus'
  BY <1>0, <1>1 DEF CreateTask, KeyTaken, Exists, evidenceVars
<1>2. ASSUME NEW t \in Tasks, NEW w \in Workers, NEW m \in LeaseMinutes,
             Claim(t, w, m) \/ Heartbeat(t, w, m)
      PROVE  RecoveryCardsMatchStatus'
  BY <1>0, <1>2 DEF Claim, Claimable, Heartbeat, evidenceVars
<1>3. ASSUME NEW t \in Tasks, NEW w \in Workers,
             NEW r \in FailureReports(RetryAfterSeconds), ReportFailure(t, w, r)
      PROVE  RecoveryCardsMatchStatus'
  <2>1. status[t] \in ExecutionStates
    BY <1>3 DEF ReportFailure, MayAnswer
  <2>2. PICK target \in {"recovery_required", "retry_wait", "failed",
                         "awaiting_decision", "blocked"} :
          status' = [status EXCEPT ![t] = target]
    BY <1>3, FailureEffect
  <2>3. recoveryCards' = IF target = "recovery_required"
                         THEN [recoveryCards EXCEPT ![t] = @ + 1]
                         ELSE recoveryCards
    BY <1>0, <1>3, <2>2, FailureLease
  <2> QED
    BY <1>0, <2>1, <2>2, <2>3 DEF ExecutionStates
<1>4. ASSUME NEW t \in Tasks, NEW w \in Workers, NEW o \in Outcomes,
             SubmitReceipt(t, w, o)
      PROVE  RecoveryCardsMatchStatus'
  <2>1. ReceiptTarget(t, o) \in {"review", "done", "failed", "blocked"}
    BY DEF ReceiptTarget, Outcomes
  <2> QED
    BY <1>0, <1>4, <2>1 DEF SubmitReceipt, MayAnswer, SetStatus, ExecutionStates
<1>5. ASSUME NEW t \in Tasks, NEW a \in Actions, RequestApproval(t, a)
      PROVE  RecoveryCardsMatchStatus'
  <2>1. status[t] = "review"
    BY <1>0, <1>5 DEF RequestApproval, SetStatus, Exists, TRANSITIONS, TaskStatus
  <2> QED
    BY <1>0, <1>5, <2>1 DEF RequestApproval, SetStatus
<1>6. ASSUME NEW t \in Tasks, NEW i \in DOMAIN approvals[t],
             NEW d \in Decisions, DecideApproval(t, i, d)
      PROVE  RecoveryCardsMatchStatus'
  <2>1. status[t] = "awaiting_approval"
    BY <1>6 DEF DecideApproval, Gated, ApprovalGate, Approvals
  <2> QED
    BY <1>0, <1>6, <2>1 DEF DecideApproval, SetStatus
<1>7. CASE ExpireLeases
  BY <1>0, <1>7 DEF ExpireLeases, Lapsed, ExecutionStates
<1>8. CASE ReleaseDueRetries
  BY <1>0, <1>8 DEF ReleaseDueRetries, Due, evidenceVars
<1>9. CASE Tick \/ UNCHANGED vars
  BY <1>9 DEF Tick, vars, taskVars, evidenceVars
<1> QED
  BY <1>1, <1>2, <1>3, <1>4, <1>5, <1>6, <1>7, <1>8, <1>9 DEF ApiNext

\* Under the API a task has one recovery card while it is in
\* recovery_required, however often it is swept, and none otherwise.
THEOREM RecoveryCardsMatch == ApiSpec => []RecoveryCardsMatchStatus
<1>1. Init => Gated /\ RecoveryCardsMatchStatus
  BY DEF Init, Gated, ApprovalGate, Approvals, RecoveryCardsMatchStatus
<1>2. TypeOK /\ Gated /\ [ApiNext]_vars => Gated'
  BY GateStep
<1>3. TypeOK /\ Gated /\ RecoveryCardsMatchStatus /\ [ApiNext]_vars
        => RecoveryCardsMatchStatus'
  BY RecoveryStep
<1> QED
  BY <1>1, <1>2, <1>3, ApiInherits, PTL DEF ApiSpec

-----------------------------------------------------------------------------
\* No other method reaches a lapsed task: a heartbeat wants a live lease, a
\* claim a ready task, and the rest other statuses.
LEMMA LapseStep ==
  ASSUME TypeOK, Gated, [ApiNext]_vars, NEW u \in Lapsed
  PROVE  LapseEnds(u)
<1>0. /\ status \in [Tasks -> TaskStatus \cup {"absent"}]
      /\ owner \in [Tasks -> Workers \cup {None}]
      /\ lease \in [Tasks -> {None, -1} \cup Nat]
      /\ attempts \in [Tasks -> Nat]
      /\ u \in Tasks /\ status[u] \in {"claimed", "in_progress"}
      /\ lease[u] # None /\ lease[u] < 0
      /\ None \notin Int
  BY Constants DEF TypeOK, Lapsed, ExecutionStates
\* A step that leaves the row of u alone.
<1>a. ASSUME UNCHANGED <<status[u], owner[u], attempts[u], lease[u]>>
      PROVE  LapseEnds(u)
  BY <1>0, <1>a DEF LapseEnds
<1>1. ASSUME NEW t \in Tasks, CreateTask(t)
      PROVE  LapseEnds(u)
  BY <1>0, <1>1, <1>a DEF CreateTask, KeyTaken, Exists
<1>2. ASSUME NEW t \in Tasks, NEW w \in Workers, NEW m \in LeaseMinutes,
             Claim(t, w, m)
      PROVE  LapseEnds(u)
  BY <1>0, <1>2, <1>a DEF Claim, Claimable
<1>3. ASSUME NEW t \in Tasks, NEW w \in Workers, NEW m \in LeaseMinutes,
             Heartbeat(t, w, m)
      PROVE  LapseEnds(u)
  BY <1>0, <1>3, <1>a DEF Heartbeat, HoldsLease
<1>4. ASSUME NEW t \in Tasks, NEW w \in Workers,
             NEW r \in FailureReports(RetryAfterSeconds), ReportFailure(t, w, r)
      PROVE  LapseEnds(u)
  <2>1. CASE u = t
    BY <1>4, <2>1 DEF LapseEnds, ReportFailure, MayAnswer
  <2>2. CASE u # t
    <3>1. UNCHANGED <<owner, attempts>>
      BY <1>4 DEF ReportFailure
    <3> QED
      BY <1>0, <1>4, <1>a, <2>2, <3>1, FailureEffect, FailureLease
  <2> QED
    BY <2>1, <2>2
<1>5. ASSUME NEW t \in Tasks, NEW w \in Workers, NEW o \in Outcomes,
             SubmitReceipt(t, w, o)
      PROVE  LapseEnds(u)
  <2>1. CASE u = t
    BY <1>5, <2>1 DEF LapseEnds, SubmitReceipt, MayAnswer
  <2>2. CASE u # t
    BY <1>0, <1>5, <1>a, <2>2 DEF SubmitReceipt, SetStatus
  <2> QED
    BY <2>1, <2>2
<1>6. ASSUME NEW t \in Tasks, NEW a \in Actions, RequestApproval(t, a)
      PROVE  LapseEnds(u)
  <2>1. status[t] = "review"
    BY <1>0, <1>6 DEF RequestApproval, SetStatus, Exists, TRANSITIONS, TaskStatus
  <2> QED
    BY <1>0, <1>6, <1>a, <2>1 DEF RequestApproval, SetStatus
<1>7. ASSUME NEW t \in Tasks, NEW i \in DOMAIN approvals[t],
             NEW d \in Decisions, DecideApproval(t, i, d)
      PROVE  LapseEnds(u)
  <2>1. status[t] = "awaiting_approval"
    BY <1>7 DEF DecideApproval, Gated, ApprovalGate, Approvals
  <2> QED
    BY <1>0, <1>7, <1>a, <2>1 DEF DecideApproval, SetStatus
<1>8. CASE ExpireLeases
  BY <1>0, <1>8 DEF ExpireLeases, LapseEnds
<1>9. CASE ReleaseDueRetries
  BY <1>0, <1>9, <1>a DEF ReleaseDueRetries, Due
<1>10. CASE Tick
  BY <1>0, <1>10 DEF Tick, Greater, LapseEnds
<1>11. CASE UNCHANGED vars
  BY <1>11, <1>a DEF vars, taskVars
<1> QED
  BY <1>1, <1>2, <1>3, <1>4, <1>5, <1>6, <1>7, <1>8, <1>9, <1>10, <1>11
  DEF ApiNext

\* How far the promise of README.md about lapsed claims does hold: no heartbeat
\* and no claim revives one, nobody else can answer for its worker, and unless
\* that worker answers before the sweep, it ends in recovery_required.
THEOREM LapsedNeverRevived == ApiSpec => LapsedOnlyAnswered
<1>1. Init => Gated
  BY DEF Init, Gated, ApprovalGate, Approvals
<1>2. TypeOK /\ Gated /\ [ApiNext]_vars => Gated'
  BY GateStep
<1>3. TypeOK /\ Gated /\ [ApiNext]_vars => [\A t \in Lapsed : LapseEnds(t)]_vars
  BY LapseStep
<1> QED
  BY <1>1, <1>2, <1>3, ApiInherits, PTL DEF ApiSpec, LapsedOnlyAnswered

-----------------------------------------------------------------------------
\* Count is a natural number.
LEMMA CountType ==
  ASSUME NEW s \in Seq(Outcomes), NEW o
  PROVE  /\ IsFiniteSet({i \in DOMAIN s : s[i] = o})
         /\ Count(s, o) \in Nat
<1> DEFINE Hits == {i \in DOMAIN s : s[i] = o}
<1>1. IsFiniteSet(1..Len(s))
  BY FS_Interval
<1>2. Hits \in SUBSET (1..Len(s))
  OBVIOUS
<1>3. IsFiniteSet(Hits)
  BY <1>1, <1>2, FS_Subset
<1> QED
  BY <1>3, FS_CardinalityType DEF Count

\* No outcomes, none that is o.
LEMMA CountEmpty ==
  ASSUME NEW o
  PROVE  Count(<<>>, o) = 0
<1>1. {i \in DOMAIN <<>> : <<>>[i] = o} = {}
  OBVIOUS
<1> QED
  BY <1>1, FS_EmptySet DEF Count

\* One more outcome counts once or not at all.
LEMMA CountAppend ==
  ASSUME NEW s \in Seq(Outcomes), NEW e \in Outcomes, NEW o
  PROVE  Count(Append(s, e), o) = Count(s, o) + (IF e = o THEN 1 ELSE 0)
<1> DEFINE n == Len(s) + 1
           Hits(x) == {i \in DOMAIN x : x[i] = o}
<1>1. Hits(Append(s, e)) = IF e = o THEN Hits(s) \cup {n} ELSE Hits(s)
  BY ApprovalAdded
<1>2. n \notin Hits(s) /\ IsFiniteSet(Hits(s)) /\ Count(s, o) \in Nat
  BY CountType
<1>3. Cardinality(Hits(s) \cup {n}) = Cardinality(Hits(s)) + 1
  <2> HIDE DEF Hits, n
  <2> QED
    BY <1>2, FS_AddElement
<1>4. Count(s, o) = Cardinality(Hits(s)) /\ Count(Append(s, e), o) = Cardinality(Hits(Append(s, e)))
  BY DEF Count
<1> HIDE DEF Hits, n
<1> QED
  BY <1>1, <1>2, <1>3, <1>4

\* A failed task got there by one dead letter or by one receipt, and no method
\* of the API leaves failed or enters it twice.
LEMMA AccountStep ==
  TypeOK /\ Gated /\ FailureAccounting /\ [ApiNext]_vars => FailureAccounting'
<1> SUFFICES ASSUME TypeOK, Gated, FailureAccounting, [ApiNext]_vars
             PROVE  FailureAccounting'
  OBVIOUS
<1> USE DEF FailureAccounting
<1>0. /\ status \in [Tasks -> TaskStatus \cup {"absent"}]
      /\ deadLetters \in [Tasks -> Nat]
      /\ receipts \in [Tasks -> Seq(Outcomes)]
  BY DEF TypeOK
\* A step that leads neither into nor out of failed and files nothing.
<1>a. ASSUME UNCHANGED <<deadLetters, receipts>>,
             \A u \in Tasks : status'[u] = "failed" <=> status[u] = "failed"
      PROVE  FailureAccounting'
  BY <1>a
<1>1. ASSUME NEW t \in Tasks, CreateTask(t)
      PROVE  FailureAccounting'
  BY <1>0, <1>1, <1>a DEF CreateTask, KeyTaken, Exists, evidenceVars
<1>2. ASSUME NEW t \in Tasks, NEW w \in Workers, NEW m \in LeaseMinutes,
             Claim(t, w, m) \/ Heartbeat(t, w, m)
      PROVE  FailureAccounting'
  BY <1>0, <1>2, <1>a DEF Claim, Claimable, Heartbeat, evidenceVars
<1>3. ASSUME NEW t \in Tasks, NEW w \in Workers,
             NEW r \in FailureReports(RetryAfterSeconds), ReportFailure(t, w, r)
      PROVE  FailureAccounting'
  <2>1. status[t] # "failed" /\ receipts' = receipts
    BY <1>3 DEF ReportFailure, MayAnswer, ExecutionStates
  <2>2. PICK target \in {"recovery_required", "retry_wait", "failed",
                         "awaiting_decision", "blocked"} :
          status' = [status EXCEPT ![t] = target]
    BY <1>3, FailureEffect
  <2>3. deadLetters' = IF target = "failed" THEN [deadLetters EXCEPT ![t] = @ + 1]
                                            ELSE deadLetters
    BY <1>0, <1>3, <2>2, FailureLetter
  <2>4. deadLetters[t] + Count(receipts[t], "failed") = 0
    BY <2>1
  <2>5. ASSUME NEW u \in Tasks
        PROVE  deadLetters'[u] + Count(receipts'[u], "failed")
                 = IF status'[u] = "failed" THEN 1 ELSE 0
    <3>1. CASE u # t
      BY <1>0, <2>1, <2>2, <2>3, <3>1
    <3>2. CASE u = t
      <4>1. Count(receipts[t], "failed") \in Nat /\ deadLetters[t] \in Nat
        BY <1>0, CountType
      <4> QED
        BY <1>0, <2>1, <2>2, <2>3, <2>4, <3>2, <4>1
    <3> QED
      BY <3>1, <3>2
  <2> QED
    BY <2>5
<1>4. ASSUME NEW t \in Tasks, NEW w \in Workers, NEW o \in Outcomes,
             SubmitReceipt(t, w, o)
      PROVE  FailureAccounting'
  <2>1. /\ ReceiptTarget(t, o) \in {"review", "done", "failed", "blocked"}
        /\ ReceiptTarget(t, o) = "failed" <=> o = "failed"
    BY DEF ReceiptTarget, Outcomes
  <2>2. /\ status[t] # "failed" /\ deadLetters' = deadLetters
        /\ status' = [status EXCEPT ![t] = ReceiptTarget(t, o)]
        /\ receipts' = [receipts EXCEPT ![t] = Append(@, o)]
    BY <1>4 DEF SubmitReceipt, MayAnswer, SetStatus, ExecutionStates
  <2>3. Count(Append(receipts[t], o), "failed")
          = Count(receipts[t], "failed") + (IF o = "failed" THEN 1 ELSE 0)
    BY <1>0, CountAppend
  <2>4. Count(receipts[t], "failed") \in Nat /\ deadLetters[t] \in Nat
    BY <1>0, CountType
  <2>5. deadLetters[t] + Count(receipts[t], "failed") = 0
    BY <2>2
  <2>6. ASSUME NEW u \in Tasks
        PROVE  deadLetters'[u] + Count(receipts'[u], "failed")
                 = IF status'[u] = "failed" THEN 1 ELSE 0
    <3>1. CASE u # t
      BY <1>0, <2>2, <3>1
    <3>2. CASE u = t
      <4>1. receipts'[u] = Append(receipts[t], o) /\ status'[u] = ReceiptTarget(t, o)
        BY <1>0, <2>2, <3>2
      <4> QED
        BY <2>1, <2>2, <2>3, <2>4, <2>5, <3>2, <4>1
    <3> QED
      BY <3>1, <3>2
  <2> QED
    BY <2>6
<1>5. ASSUME NEW t \in Tasks, NEW a \in Actions, RequestApproval(t, a)
      PROVE  FailureAccounting'
  <2>1. status[t] = "review"
    BY <1>0, <1>5 DEF RequestApproval, SetStatus, Exists, TRANSITIONS, TaskStatus
  <2> QED
    BY <1>0, <1>5, <1>a, <2>1 DEF RequestApproval, SetStatus
<1>6. ASSUME NEW t \in Tasks, NEW i \in DOMAIN approvals[t],
             NEW d \in Decisions, DecideApproval(t, i, d)
      PROVE  FailureAccounting'
  <2>1. status[t] = "awaiting_approval"
    BY <1>6 DEF DecideApproval, Gated, ApprovalGate, Approvals
  <2> QED
    BY <1>0, <1>6, <1>a, <2>1 DEF DecideApproval, SetStatus
<1>7. CASE ExpireLeases
  BY <1>0, <1>7, <1>a DEF ExpireLeases, Lapsed, ExecutionStates
<1>8. CASE ReleaseDueRetries
  BY <1>0, <1>8, <1>a DEF ReleaseDueRetries, Due, evidenceVars
<1>9. CASE Tick \/ UNCHANGED vars
  BY <1>9, <1>a DEF Tick, vars, taskVars, evidenceVars
<1> QED
  BY <1>1, <1>2, <1>3, <1>4, <1>5, <1>6, <1>7, <1>8, <1>9 DEF ApiNext

\* Under the API every failed task has exactly one dead letter or one receipt of
\* a worker that gave up, and no other task has either.
THEOREM FailuresAccounted == ApiSpec => []FailureAccounting
<1>1. Init => Gated /\ FailureAccounting
  BY CountEmpty DEF Init, Gated, ApprovalGate, Approvals, FailureAccounting
<1>2. TypeOK /\ Gated /\ [ApiNext]_vars => Gated'
  BY GateStep
<1>3. TypeOK /\ Gated /\ FailureAccounting /\ [ApiNext]_vars => FailureAccounting'
  BY AccountStep
<1> QED
  BY <1>1, <1>2, <1>3, ApiInherits, PTL DEF ApiSpec

-----------------------------------------------------------------------------
(* The store implements TaskAuthority.                                     *)

\* A step of the abstract specification for one task, in terms of the store.
AuthorityStep(t) ==
  LET from == PhaseOf(status[t])
      to == PhaseOf(status'[t])
      sameRun == owner'[t] = owner[t] /\ attempts'[t] = attempts[t]
      sameReports == cleared'[t] = cleared[t]
  IN  \/ from = "absent" /\ to = "open" /\ sameRun /\ sameReports
      \/ /\ from = "open" /\ to = "held" /\ attempts[t] < MaxAttempts[t]
         /\ cleared[t] = attempts[t] /\ sameReports
         /\ owner'[t] \in Workers /\ attempts'[t] = attempts[t] + 1
      \/ /\ from = "held" /\ to = "waiting" /\ attempts[t] < MaxAttempts[t]
         /\ sameRun /\ cleared'[t] = cleared[t] + 1
      \/ /\ from = "waiting" /\ to = "open"
         /\ owner'[t] = None /\ attempts'[t] = attempts[t] /\ sameReports
      \/ /\ from = "held" /\ to \in {"judged", "uncertain", "stopped", "done"}
         /\ sameRun /\ cleared'[t] \in {cleared[t], cleared[t] + 1}
      \/ from = "judged" /\ to \in {"stopped", "done"} /\ sameRun /\ sameReports
      \/ to = from /\ sameRun /\ sameReports

\* Every status has a phase.
LEMMA PhaseType ==
  ASSUME NEW s \in TaskStatus \cup {"absent"}
  PROVE  PhaseOf(s) \in Authority!Phases
BY DEF PhaseOf, Authority!Phases, TaskStatus, ExecutionStates

\* It suffices to look at the store, task by task.
LEMMA AuthorityNext ==
  ASSUME TypeOK, TypeOK', \A t \in Tasks : AuthorityStep(t)
  PROVE  Authority!Next
<1> DEFINE phase == [t \in Tasks |-> PhaseOf(status[t])]
<1>1. phase' \in [Tasks -> Authority!Phases]
  BY PhaseType DEF TypeOK
<1>2. /\ owner' \in [Tasks -> Workers \cup {None}]
      /\ attempts' \in [Tasks -> Nat] /\ cleared' \in [Tasks -> Nat]
  BY DEF TypeOK
<1>3. ASSUME NEW t \in Tasks
      PROVE  Authority!Step(t)
  <2>1. AuthorityStep(t)
    OBVIOUS
  <2>2. phase[t] = PhaseOf(status[t]) /\ phase'[t] = PhaseOf(status'[t])
    OBVIOUS
  <2> QED
    BY <2>1, <2>2 DEF AuthorityStep, Authority!Step, Authority!Admit,
       Authority!Take, Authority!Yield, Authority!Reopen, Authority!Settle,
       Authority!Judge, Authority!Rest, Authority!Keep
<1> QED
  BY <1>1, <1>2, <1>3 DEF Authority!Next

\* Nobody steps in under the API.
Untouched == \A t \in Tasks : interventions[t] = 0

\* Every run of a task that can be claimed again was cleared by a report, and
\* every run but the present one of a task that runs.
Paid ==
  \A t \in Tasks :
    /\ status[t] \in {"absent", "ready", "retry_wait"} => cleared[t] = attempts[t]
    /\ status[t] \in ExecutionStates => cleared[t] + 1 = attempts[t]

\* What the steps of the store rely on.
Relied == TypeOK /\ RetryBudget /\ Untouched /\ Gated /\ Paid

\* Each method is a step of the abstract specification for every task.
LEMMA RefinementStep ==
  ASSUME Relied, [ApiNext]_vars, NEW u \in Tasks
  PROVE  AuthorityStep(u)
<1> USE DEF AuthorityStep, PhaseOf, ExecutionStates
<1>0. /\ status \in [Tasks -> TaskStatus \cup {"absent"}]
      /\ owner \in [Tasks -> Workers \cup {None}]
      /\ attempts \in [Tasks -> Nat]
      /\ MaxAttempts \in [Tasks -> Nat \ {0}]
      /\ cleared \in [Tasks -> Nat]
      /\ \A t \in Tasks : status[t] = "ready" =>
           attempts[t] < MaxAttempts[t] /\ cleared[t] = attempts[t]
  BY Constants DEF Relied, TypeOK, RetryBudget, Untouched, Paid
<1>1. ASSUME NEW t \in Tasks, CreateTask(t)
      PROVE  AuthorityStep(u)
  BY <1>0, <1>1 DEF CreateTask, KeyTaken, Exists, evidenceVars
<1>2. ASSUME NEW t \in Tasks, NEW w \in Workers, NEW m \in LeaseMinutes,
             Claim(t, w, m)
      PROVE  AuthorityStep(u)
  BY <1>0, <1>2 DEF Claim, Claimable, evidenceVars
<1>3. ASSUME NEW t \in Tasks, NEW w \in Workers, NEW m \in LeaseMinutes,
             Heartbeat(t, w, m)
      PROVE  AuthorityStep(u)
  BY <1>3 DEF Heartbeat, evidenceVars
<1>4. ASSUME NEW t \in Tasks, NEW w \in Workers,
             NEW r \in FailureReports(RetryAfterSeconds), ReportFailure(t, w, r)
      PROVE  AuthorityStep(u)
  <2>1. /\ owner' = owner /\ attempts' = attempts
        /\ status[t] \in ExecutionStates
        /\ cleared' = [cleared EXCEPT ![t] = IF r.side = "unknown" THEN @ ELSE @ + 1]
    BY <1>4 DEF ReportFailure, MayAnswer
  <2>2. PICK target \in {"recovery_required", "retry_wait", "failed",
                         "awaiting_decision", "blocked"} :
          /\ status' = [status EXCEPT ![t] = target]
          /\ target = "retry_wait" => attempts[t] < MaxAttempts[t] /\ r.side # "unknown"
    BY <1>4, FailureEffect DEF Relied
  <2> QED
    BY <1>0, <2>1, <2>2
<1>5. ASSUME NEW t \in Tasks, NEW w \in Workers, NEW o \in Outcomes,
             SubmitReceipt(t, w, o)
      PROVE  AuthorityStep(u)
  <2>1. ReceiptTarget(t, o) \in {"review", "done", "failed", "blocked"}
    BY DEF ReceiptTarget, Outcomes
  <2> QED
    BY <1>0, <1>5, <2>1 DEF SubmitReceipt, MayAnswer, SetStatus
<1>6. ASSUME NEW t \in Tasks, NEW a \in Actions, RequestApproval(t, a)
      PROVE  AuthorityStep(u)
  <2>1. status[t] = "review"
    BY <1>0, <1>6 DEF RequestApproval, SetStatus, Exists, TRANSITIONS, TaskStatus
  <2> QED
    BY <1>0, <1>6, <2>1 DEF RequestApproval, SetStatus
<1>7. ASSUME NEW t \in Tasks, NEW i \in DOMAIN approvals[t],
             NEW d \in Decisions, DecideApproval(t, i, d)
      PROVE  AuthorityStep(u)
  <2>1. status[t] = "awaiting_approval"
    BY <1>7 DEF DecideApproval, Relied, Gated, ApprovalGate, Approvals
  <2> QED
    BY <1>0, <1>7, <2>1 DEF DecideApproval, SetStatus
<1>8. CASE ExpireLeases
  BY <1>0, <1>8 DEF ExpireLeases, Lapsed
<1>9. CASE ReleaseDueRetries
  BY <1>0, <1>9 DEF ReleaseDueRetries, Due, evidenceVars
<1>10. CASE Tick \/ UNCHANGED vars
  BY <1>10 DEF Tick, vars, taskVars, evidenceVars
<1> QED
  BY <1>1, <1>2, <1>3, <1>4, <1>5, <1>6, <1>7, <1>8, <1>9, <1>10 DEF ApiNext

\* A claim adds a run, and the report that schedules a retry clears it.
LEMMA PaidStep == TypeOK /\ Gated /\ Paid /\ [ApiNext]_vars => Paid'
<1> SUFFICES ASSUME TypeOK, Gated, Paid, [ApiNext]_vars
             PROVE  Paid'
  OBVIOUS
<1> USE DEF Paid, ExecutionStates
<1>0. /\ status \in [Tasks -> TaskStatus \cup {"absent"}]
      /\ attempts \in [Tasks -> Nat]
      /\ cleared \in [Tasks -> Nat]
  BY DEF TypeOK
<1>1. ASSUME NEW t \in Tasks, CreateTask(t)
      PROVE  Paid'
  BY <1>0, <1>1 DEF CreateTask, KeyTaken, Exists, evidenceVars
<1>2. ASSUME NEW t \in Tasks, NEW w \in Workers, NEW m \in LeaseMinutes,
             Claim(t, w, m)
      PROVE  Paid'
  BY <1>0, <1>2 DEF Claim, Claimable, evidenceVars
<1>3. ASSUME NEW t \in Tasks, NEW w \in Workers, NEW m \in LeaseMinutes,
             Heartbeat(t, w, m)
      PROVE  Paid'
  BY <1>3 DEF Heartbeat, evidenceVars
<1>4. ASSUME NEW t \in Tasks, NEW w \in Workers,
             NEW r \in FailureReports(RetryAfterSeconds), ReportFailure(t, w, r)
      PROVE  Paid'
  <2>1. /\ attempts' = attempts
        /\ status[t] \in ExecutionStates
        /\ cleared' = [cleared EXCEPT ![t] = IF r.side = "unknown" THEN @ ELSE @ + 1]
    BY <1>4 DEF ReportFailure, MayAnswer
  <2>2. PICK target \in {"recovery_required", "retry_wait", "failed",
                         "awaiting_decision", "blocked"} :
          /\ status' = [status EXCEPT ![t] = target]
          /\ target = "retry_wait" => r.side # "unknown"
    BY <1>4, FailureEffect
  <2> QED
    BY <1>0, <2>1, <2>2
<1>5. ASSUME NEW t \in Tasks, NEW w \in Workers, NEW o \in Outcomes,
             SubmitReceipt(t, w, o)
      PROVE  Paid'
  <2>1. ReceiptTarget(t, o) \in {"review", "done", "failed", "blocked"}
    BY DEF ReceiptTarget, Outcomes
  <2> QED
    BY <1>0, <1>5, <2>1 DEF SubmitReceipt, SetStatus
<1>6. ASSUME NEW t \in Tasks, NEW a \in Actions, RequestApproval(t, a)
      PROVE  Paid'
  BY <1>0, <1>6 DEF RequestApproval, SetStatus
<1>7. ASSUME NEW t \in Tasks, NEW i \in DOMAIN approvals[t],
             NEW d \in Decisions, DecideApproval(t, i, d)
      PROVE  Paid'
  BY <1>0, <1>7 DEF DecideApproval, SetStatus
<1>8. CASE ExpireLeases
  BY <1>0, <1>8 DEF ExpireLeases, Lapsed
<1>9. CASE ReleaseDueRetries
  BY <1>0, <1>9 DEF ReleaseDueRetries, Due, evidenceVars
<1>10. CASE Tick \/ UNCHANGED vars
  BY <1>10 DEF Tick, vars, taskVars, evidenceVars
<1> QED
  BY <1>1, <1>2, <1>3, <1>4, <1>5, <1>6, <1>7, <1>8, <1>9, <1>10 DEF ApiNext

\* What the steps rely on holds throughout.
LEMMA ReliedAlways == ApiSpec => []Relied
<1>1. Init => Untouched /\ Gated /\ Paid
  BY DEF Init, Untouched, Gated, ApprovalGate, Approvals, Paid, ExecutionStates
<1>2. Untouched /\ [ApiNext]_vars => Untouched'
  <2>1. [ApiNext]_vars => UNCHANGED interventions
    BY DEF ApiNext, CreateTask, Claim, Heartbeat, ReportFailure, SubmitReceipt,
           RequestApproval, DecideApproval, ExpireLeases, ReleaseDueRetries,
           Tick, vars
  <2> QED
    BY <2>1 DEF Untouched
<1>3. TypeOK /\ Gated /\ [ApiNext]_vars => Gated'
  BY GateStep
<1>4. TypeOK /\ Gated /\ Paid /\ [ApiNext]_vars => Paid'
  BY PaidStep
<1>5. TypeOK /\ RetryBudget /\ Untouched /\ Gated /\ Paid => Relied
  BY DEF Relied
<1> QED
  BY <1>1, <1>2, <1>3, <1>4, <1>5, ApiInherits, PTL DEF ApiSpec

\* The store as the API uses it keeps the promise of TaskAuthority: one
\* holder, runs within the budget, and no re-run unless the worker of every
\* earlier run reported that it had no side effect.
THEOREM StoreImplementsAuthority == ApiSpec => ImplementsAuthority
<1>1. Init => Authority!Init
  <2>1. PhaseOf("absent") = "absent"
    BY DEF PhaseOf, ExecutionStates
  <2>2. Init => [t \in Tasks |-> PhaseOf(status[t])] = [t \in Tasks |-> "absent"]
    BY <2>1 DEF Init
  <2> QED
    BY <2>2 DEF Init, Authority!Init
<1>2. Relied /\ Relied' /\ [ApiNext]_vars
        => [Authority!Next]_<<[t \in Tasks |-> PhaseOf(status[t])], owner, attempts, cleared>>
  <2> SUFFICES ASSUME Relied, Relied', [ApiNext]_vars
               PROVE  Authority!Next
    OBVIOUS
  <2>1. \A t \in Tasks : AuthorityStep(t)
    BY RefinementStep
  <2> QED
    BY <2>1, AuthorityNext DEF Relied
<1> QED
  BY <1>1, <1>2, ReliedAlways, PTL DEF ApiSpec, ImplementsAuthority, Authority!Spec

=============================================================================
