\* Two clients save and approve one camera's configurations at once.
SPECIFICATION FairSpec
CONSTANTS
  Client = {c1, c2}
  MaxVersion = 4
  MaxFaults = 1
INVARIANTS OneApproved VersionsContiguous
PROPERTIES ImplementsVersions 
CHECK_DEADLOCK FALSE
