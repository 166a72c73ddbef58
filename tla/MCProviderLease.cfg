CONSTANTS
    a = a
    b = b
    Process <- MCProcess
    LogicalModulus = 3
    MaxWall = 2
    MaxEvents = 3
    Epoch <- MCEpoch
    Link <- MCLink
    Order <- MCOrder
SPECIFICATION LeaseSpec
\* The bound on events, or the end of the counter, stops every run.
CHECK_DEADLOCK FALSE
INVARIANTS
    TypeOK
    HappenedBefore
    NeverAheadOfEveryWallClock
    SameLeasesSameProvider
PROPERTIES
    EventsRaiseTheClock
    LeaseIsRegister
