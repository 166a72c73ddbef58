CONSTANTS
    file = file
    alice = alice
    bob = bob
    h1 = h1
    h2 = h2
    Name <- MCName
    SafeName <- MCName
    Author <- MCAuthor
    Short <- MCShort
    Content <- MCContent
    ContentRank <- MCContentRank
    Wall <- MCWall
    LogicalModulus = 4
    Draft <- DistinctDrafts
    MaxWrites = 4
SPECIFICATION Spec
INVARIANT
    TiedLoserSurvives
