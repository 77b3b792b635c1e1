\* Two workers, two jobs, every kind of failure once.
SPECIFICATION Spec
CONSTANTS
  Worker = {w1, w2}
  NoWorker = NoWorker
  MaxStores = 1
  MaxMedia = 2
  MaxJobs = 2
  Frames = 2
  ProgressEvery = 5
  MaxFaults = 1
  MaxCrashes = 1
  MaxDeletes = 1
INVARIANTS ExclusiveProcessing  JobHasItsMedia
PROPERTIES  ProgressOnlyGrows ImplementsQueue
CHECK_DEADLOCK FALSE
