CONSTANTS
    file = file
    alice = alice
    bob = bob
    h1 = h1
    h2 = h2
    Name <- MCName
    SafeName <- MCName
    Author <- MCAuthor
    Short <- MCShort
    Content <- MCSmallContent
    ContentRank <- MCSmallContentRank
    LogicalModulus = 8
    UserPath <- MCUserPath
    Peers <- MCPeers
    Offset <- Synchronized
    Gap <- OneByOne
    Truncates = FALSE
    MaxEdits <- OneEach
    Unlucky <- MCAlice
    MaxFail = 1
    MaxRestart = 0
SPECIFICATION FairSpec
INVARIANTS
    TypeOK
    KnownIsOnDisk
PROPERTIES
    OnlyUserEditsAreAuthored
    DisksConverge
