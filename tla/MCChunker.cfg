CONSTANTS
    File <- MCFile
    Byte <- MCByte
    Contents <- MCContents
    Bits = 3
    Table <- MCTable
    CutMask = {0}
    WINDOW = 2
    MIN_CHUNK_SIZE = 3
    MAX_CHUNK_SIZE = 5
SPECIFICATION Spec
\* The scan ends with the last byte of the last file.
CHECK_DEADLOCK FALSE
INVARIANTS
    TypeOK
    ChunksTileTheFile
    SizesBounded
    HashIsOfWindow
    CutsResynchronize
