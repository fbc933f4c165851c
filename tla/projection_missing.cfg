SPECIFICATION FairSpec
CONSTANTS
  operational = operational
  fixture = fixture
  x = x
  None = None
  Tasks = {operational, fixture}
  EvidenceTasks = {fixture}
  Details = {x}
  MaxWriters = 2
  MaxEvents = 2
  MaxBatches = 1
  MaxFailures = 0
  MaxEdits = 0
  MaxDeletions = 1
  MaxRestores = 0
  MaxMishaps = 1
PROPERTIES
  MissingRepaired
