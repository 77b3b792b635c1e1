\* Posts of one camera in any order, repeated, overlapping, with clean-ups.
SPECIFICATION Spec
CONSTANTS
  Handler = {h1, h2}
  Frame = {f1, f2}
  NoFrame = NoFrame
  MaxTime = 3
  MaxPeople = 1
  SampleTime = 2
  HourTime = 3
  MaxPosts = 3
SYMMETRY IngestSymmetry
INVARIANTS RawOnce CurrentUnlessOverlap DerivedRowsFollowRaw
CHECK_DEADLOCK FALSE
