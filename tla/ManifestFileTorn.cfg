CONSTANTS
    agent = agent
    h1 = h1
    h2 = h2
    u1 = u1
    u2 = u2
    Handler <- MCHandler
    Update <- MCUpdate
    MaxCalls = 3
    MaxFail = 1
SPECIFICATION Spec
CHECK_DEADLOCK FALSE
INVARIANT
    NeverPartiallyWritten
