SPECIFICATION Spec
CONSTANTS
    Customers <- MCCustomers
    Duration = 6
    MaxStaff = 2
    SeatCount = 1
    LastArrival = 1
    EnterTicks = 1
    OrderTicks = 1
    PickupTicks = 1
    LeaveTicks = 1
    FallbackRate = 24
    Profiles <- MCProfiles
    Services = {1, 3}
    Patiences = {1, 2}
    Stays = {2}
    WaitTarget = 1
    AbandonTarget = 5
    BusyTarget = 60
    MaxAgentTurns = 2
    Hours = 4
    FallbackProfile <- MCFallback
    FallbackHour = 1
    MaxRate = 4
    Scale = 6
    Scripts <- MCScripts
 
INVARIANT OneNumberRecommended
INVARIANT RunIsSound
PROPERTY FirstComeFirstServed
CHECK_DEADLOCK FALSE
