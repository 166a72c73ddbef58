CONSTANTS
    ann = ann
    bob = bob
    carol = carol
    h1 = h1
    h2 = h2
    Agent <- MCAgent
    Hash <- MCHash
    Files <- MCFiles
    Peers <- MCPeers
    MaxBatch = 1
    MaxFail = 0
    MaxScans = 2
SPECIFICATION Spec
INVARIANT
    StoredBytesAreWhole
