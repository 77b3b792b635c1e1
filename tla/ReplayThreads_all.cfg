\* Two stores, two jobs, a crash.
SPECIFICATION Spec
CONSTANTS
  Store = {s1, s2}
  NoStore = NoStore
  Frames = 2
  MaxThreads = 5
  MaxJobs = 2
  MaxCrashes = 1
INVARIANTS NoOrphanLoop CachedStoresReplay 
CHECK_DEADLOCK FALSE
