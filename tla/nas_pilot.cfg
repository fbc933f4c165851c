SPECIFICATION FairPilotSpec
CONSTANTS
  w1 = w1
  w2 = w2
  route = route
  key = key
  pilot = pilot
  None = None
  Tasks = {pilot}
  Workers = {w1, w2}
  Routes = {route}
  Actions = {}
  Keys = {key}
  IdempotencyKey <- PilotKey
  Route <- PilotRoute
  MaxAttempts <- TwoAttempts
  ApprovalRequired <- NoApprovals
  LeaseMinutes = {2}
  RetryAfterSeconds = {0}
  MaxInterventions = 0
  BASE_BACKOFF_SECONDS = 1
  MAX_BACKOFF_SECONDS = 2
  CIRCUIT_COOLDOWN_SECONDS = 2
  CIRCUIT_FAILURE_THRESHOLD = 2
  Window = 2
  MaxRestarts <- Restarts
  MaxRotations = 1
INVARIANTS
  PilotTypeOK
  OneRun
  CompletionIsReal
  RevocationBites
PROPERTIES
  ClaimSettles
  WatchersEnd
