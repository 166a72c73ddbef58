CONSTANTS
    file = file
    alice = alice
    bob = bob
    h1 = h1
    h2 = h2
    Name <- MCName
    SafeName <- MCName
    Author <- MCAuthor
    Short <- MCShort
    Content <- MCSmallContent
    ContentRank <- MCSmallContentRank
    LogicalModulus = 8
    UserPath <- MCUserPath
    Peers <- MCOneWay
    Offset <- Skewed
    Gap <- OneByOne
    Truncates = TRUE
    MaxEdits <- OneEach
    Unlucky <- MCAuthor
    MaxFail = 1
    MaxRestart = 1
SPECIFICATION Spec
INVARIANTS
    DiskFollowsManifest
    AuthorHoldsChunks
PROPERTIES
    ManifestsAreDurable
    OnlyUsersDelete
    EditReplacesItsBase
    VersionsOnlyRise
