\* Two workers, one of which may crash: the queue is emptied.
SPECIFICATION FairSpec
CONSTANTS
  Worker = {w1, w2}
  NoWorker = NoWorker
  MaxStores = 1
  MaxMedia = 1
  MaxJobs = 2
  Frames = 2
  ProgressEvery = 5
  MaxFaults = 0
  MaxCrashes = 1
  MaxDeletes = 0
PROPERTIES QueueIsEmptied
CHECK_DEADLOCK FALSE
