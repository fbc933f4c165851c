SPECIFICATION FairApiSpec
CONSTANTS
  t1 = t1
  t2 = t2
  t3 = t3
  w1 = w1
  w2 = w2
  route = route
  merge = merge
  deploy = deploy
  k1 = k1
  k2 = k2
  None = None
  Tasks = {t1, t2, t3}
  Workers = {w1, w2}
  Routes = {route}
  Actions = {merge, deploy}
  Keys = {k1, k2}
  IdempotencyKey <- CardKeys
  Route <- CardRoutes
  MaxAttempts <- CardAttempts
  ApprovalRequired <- CardApprovals
  LeaseMinutes <- Minutes
  RetryAfterSeconds = {0, 3}
  MaxInterventions = 0
  BASE_BACKOFF_SECONDS = 1
  MAX_BACKOFF_SECONDS = 2
  CIRCUIT_COOLDOWN_SECONDS = 2
  CIRCUIT_FAILURE_THRESHOLD = 3
INVARIANTS
  TypeOK
  CircuitConsistent
  LeaseDiscipline
  RecoveryCardsMatchStatus
  FailureAccounting
  ApprovalGate
PROPERTIES
  RetryWaitsOutCircuit
  ImplementsAuthority
  LapsedOnlyAnswered
  RetriesAreReleased
  SilenceEndsExecution
