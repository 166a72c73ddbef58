CONSTANTS
    ann = ann
    bob = bob
    carol = carol
    h1 = h1
    h2 = h2
    Agent <- MCAgent
    Hash <- MCHash
    Files <- MCFiles
    Peers <- MCPeers
    MaxBatch = 1
    MaxFail = 1
    MaxScans = 2
SPECIFICATION FairSpec
INVARIANTS
    TypeOK
    WholeUntilCut
PROPERTIES
    AtRestIsFinal
    Backfilled
