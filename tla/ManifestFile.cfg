CONSTANTS
    agent = agent
    h1 = h1
    h2 = h2
    u1 = u1
    u2 = u2
    Handler <- MCHandler
    Update <- MCUpdate
    MaxCalls = 3
    MaxFail = 1
SPECIFICATION FairSpec
\* A vault whose manifest.json cannot be read runs nothing any more.
CHECK_DEADLOCK FALSE
INVARIANTS
    TypeOK
PROPERTIES
    LoneSavesAreAtomic
    UpToDateSavesLoseNothing
    AgentRepairs
