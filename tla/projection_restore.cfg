SPECIFICATION Spec
CONSTANTS
  operational = operational
  fixture = fixture
  x = x
  None = None
  Tasks = {operational, fixture}
  EvidenceTasks = {fixture}
  Details = {x}
  MaxWriters = 2
  MaxEvents = 3
  MaxBatches = 1
  MaxFailures = 0
  MaxEdits = 0
  MaxDeletions = 0
  MaxRestores = 1
  MaxMishaps = 1
PROPERTIES
  RebuildSyncs
