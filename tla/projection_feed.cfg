SPECIFICATION FairSpec
CONSTANTS
  operational = operational
  fixture = fixture
  x = x
  None = None
  Tasks = {operational, fixture}
  EvidenceTasks = {fixture}
  Details = {x}
  MaxWriters = 2
  MaxEvents = 2
  MaxBatches = 2
  MaxFailures = 1
  MaxEdits = 1
  MaxDeletions = 1
  MaxRestores = 1
  MaxMishaps = 1
INVARIANTS
  TypeOK
  
  PandaShowsCheckpoint
  CaughtUp
PROPERTIES
  NonRegressing
  
  EventuallyShown
