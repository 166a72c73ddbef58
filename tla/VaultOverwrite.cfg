CONSTANTS
    file = file
    alice = alice
    bob = bob
    h1 = h1
    h2 = h2
    Name <- MCName
    SafeName <- MCName
    Author <- MCAuthor
    Short <- MCShort
    Content <- MCContent
    ContentRank <- MCContentRank
    LogicalModulus = 8
    UserPath <- MCUserPath
    Peers <- MCPeers
    Offset <- Synchronized
    Gap <- OneByOne
    Truncates = FALSE
    MaxEdits <- OneEach
    Unlucky <- MCAlice
    MaxFail = 0
    MaxRestart = 0
SPECIFICATION Spec
PROPERTY
    UnscannedEditsStay
