SPECIFICATION TrackingSpec
CONSTANTS
    FramesEach = 2
    Interval = 2
    RawIds <- MCRawIds
    Window = 2
    RequiredVotes = 1
    CountGrace = 1
    ExitDistance = 2
    Footages <- MCFootages
    Policies <- MCPolicies
    Sightings <- MCSightings
    NDwell = 2
    NSeated = 1
    NearDistance = 1
    Second = 2
    Slack = 1
    SampleEvery = 2
    DefaultOverlap = 1
    LocalIds <- MCLocalIds
    MatchCost <- MCCost
    FootReach = 4
    Multiplier = 10
 
INVARIANT OutputsOnGrid
 
PROPERTY LocksHold
CHECK_DEADLOCK FALSE
