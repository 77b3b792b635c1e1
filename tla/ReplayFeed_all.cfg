SPECIFICATION Spec
CONSTANTS
  Thread = {t1, t2}
  Poll = {p1}
  MaxFaults = 2
  Footages <- MCFootages
  Config <- MCConfig
  Versions = 2
  MaxSent = 3
  Refresh = 2
  Attempts = 2
  MaxMissed = 0
  MaxDistance = 1
  Polygons <- MCPolygons
  GridSide = 2
  FrameWidth = 3
  FrameHeight = 3
  RoiSide = 6
SYMMETRY MCSymmetry
CHECK_DEADLOCK FALSE
INVARIANTS
  
  CountsFollowZones
PROPERTIES
  RoiFollows
  ShownStateNotOlder
  
