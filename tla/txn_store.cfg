SPECIFICATION Spec
CONSTANTS
  t1 = t1
  t2 = t2
  w1 = w1
  w2 = w2
  route = route
  x1 = x1
  x2 = x2
  None = None
  Tasks = {t1, t2}
  Workers = {w1, w2}
  Routes = {route}
  Txns = {x1, x2}
  Route <- OneRoute
  MaxAttempts <- FewAttempts
  ApprovalRequired <- FirstNeedsApproval
  EvidenceTasks = {t2}
  Reports <- KindsOfReport
  BASE_BACKOFF_SECONDS = 1
  MAX_BACKOFF_SECONDS = 2
  CIRCUIT_COOLDOWN_SECONDS = 2
  CIRCUIT_FAILURE_THRESHOLD = 2
SYMMETRY Symmetry
INVARIANTS
  TypeOK
  OnlySweepsDeadlock
  ReadsStayTrue
  CircuitCountsFailures
  RiskFiguresAgree
  CockpitPanelsAgree
PROPERTIES
  FiguresStay
  OnlyEarlyClaimsPass
  ImplementsAuthority
