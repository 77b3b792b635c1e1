\* An order of the simulator beside an order of the till, a stop at any time;
\* a summary of two menus; a queue of 1 is a congestion, one of 2 is grave.
SPECIFICATION Spec
CONSTANTS
  Order = {o1}
  TillOrder = {p1}
  MaxTill = 2
  MaxClock = 2
  MaxAttempts = 2
  MaxFaults = 2
  Window = 1
  BucketWidth = 2
  Menu <- MCMenu
  Ordered <- MCOrdered
  Simulated <- MCSimulated
  TopMenuLimit = 1
  HighQueue = 2
  MediumQueue = 1
  PreparingOffset = 1
  CompletedOffset = 1
INVARIANTS LogIsPrefix FiguresFollowLog SummaryFollowsLog  SeedRepeats
PROPERTIES StatusOnlyAdvances
CHECK_DEADLOCK FALSE
