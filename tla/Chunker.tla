------------------------------- MODULE Chunker -------------------------------
(* chunk() of crates/vault-manifest/src/chunk.rs, one turn of its loop a      *)
(* step, over the files that scan_local chunks one after another.  A word is  *)
(* the set of its bits that are 1, so that rotate_left and ^ are what they    *)
(* are in the code.  BLAKE3 names a slice by its content and nothing else:    *)
(* the hash of a slice is the slice.                                          *)
EXTENDS Naturals, Sequences, FiniteSets

CONSTANTS
    File,       \* the files
    Byte,       \* the values of a byte
    Contents,   \* what the files may hold: functions from File
    Bits,       \* the bits of a word: 64
    Table,      \* Table[b]: the word of byte b
    CutMask,    \* the bits of CUT_MASK
    WINDOW, MIN_CHUNK_SIZE, MAX_CHUNK_SIZE

ASSUME ChunkerAssumption ==
    /\ Contents \subseteq [File -> Seq(Byte)]
    /\ Bits \in Nat \ {0}
    /\ Table \in [Byte -> SUBSET (0 .. Bits - 1)]
    /\ CutMask \subseteq 0 .. Bits - 1
    /\ WINDOW \in 1 .. Bits - 1
    /\ MIN_CHUNK_SIZE \in Nat /\ WINDOW < MIN_CHUNK_SIZE
    /\ MAX_CHUNK_SIZE \in Nat /\ MIN_CHUNK_SIZE <= MAX_CHUNK_SIZE

VARIABLES
    data,       \* data[f]: the bytes of file f
    i,          \* i[f]: how many of them the loop has taken in
    start,      \* start[f]: where the chunk under way begins
    hash,       \* hash[f]: the rolling hash
    chunks      \* chunks[f]: the chunks made so far

vars == <<data, i, start, hash, chunks>>

RotateLeft(word, k) == {(b + k) % Bits : b \in word}
Xor(v, w) == (v \ w) \cup (w \ v)

Init ==
    /\ data \in Contents
    /\ i = [f \in File |-> 0]
    /\ start = [f \in File |-> 0]
    /\ hash = [f \in File |-> {}]
    /\ chunks = [f \in File |-> <<>>]

Entering(f) == Xor(RotateLeft(hash[f], 1), Table[data[f][i[f] + 1]])

\* (Faulty, as it once was: the window is counted from the last cut.)
RolledSinceCut(f) ==
    IF i[f] >= start[f] + WINDOW
    THEN Xor(Entering(f), RotateLeft(Table[data[f][i[f] + 1 - WINDOW]], WINDOW))
    ELSE Entering(f)

\* The next byte enters the hash; the byte WINDOW before it leaves.
Rolled(f) ==
    IF i[f] >= WINDOW
    THEN Xor(Entering(f), RotateLeft(Table[data[f][i[f] + 1 - WINDOW]], WINDOW))
    ELSE Entering(f)

Length(f) == i[f] + 1 - start[f]

AtBoundary(f) ==
    i[f] >= WINDOW /\ Rolled(f) \cap CutMask = {} /\ Length(f) >= MIN_CHUNK_SIZE

\* (Faulty: only chunks beyond the maximum are cut.)
CutsBeyondMax(f) ==
    AtBoundary(f) \/ Length(f) > MAX_CHUNK_SIZE \/ i[f] + 1 = Len(data[f])

\* (Faulty: what is left at the end is no chunk.)
CutsButAtEnd(f) == AtBoundary(f) \/ Length(f) >= MAX_CHUNK_SIZE

Cuts(f) ==
    AtBoundary(f) \/ Length(f) >= MAX_CHUNK_SIZE \/ i[f] + 1 = Len(data[f])

\* (Faulty: the slice lacks its last byte.)
ChunkShort(f) ==
    [hash |-> SubSeq(data[f], start[f] + 1, i[f]), offset |-> start[f], len |-> i[f] - start[f]]

\* The Chunk of data[start ..= i].
Chunk(f) ==
    [hash |-> SubSeq(data[f], start[f] + 1, i[f] + 1), offset |-> start[f], len |-> Length(f)]

Cut(f) ==
    /\ chunks' = [chunks EXCEPT ![f] = Append(@, Chunk(f))]
    /\ start' = [start EXCEPT ![f] = i[f] + 1]

\* (Faulty, as it once was: the hash starts anew at each cut.)
RollFromCut(f) ==
    hash' = [hash EXCEPT ![f] = IF Cuts(f) THEN {} ELSE Rolled(f)]

Roll(f) == hash' = [hash EXCEPT ![f] = Rolled(f)]

\* scan_local chunks a file from its first byte to its last before another.
Scanning(f) ==
    /\ i[f] < Len(data[f])
    /\ \A g \in File \ {f} : i[g] \in {0, Len(data[g])}

ScanByte(f) ==
    /\ Scanning(f)
    /\ i' = [i EXCEPT ![f] = @ + 1]
    /\ Roll(f)
    /\ \/ Cuts(f) /\ Cut(f)
       \/ ~Cuts(f) /\ UNCHANGED <<start, chunks>>
    /\ UNCHANGED data

Next == \E f \in File : ScanByte(f)

Spec == Init /\ [][Next]_vars

------------------------------------------------------------------------------
Word == SUBSET (0 .. Bits - 1)
ChunkRecord == [hash : Seq(Byte), offset : Nat, len : Nat \ {0}]

\* Every variable has its type, and the chunk under way begins at or before
\* the byte the loop is at.
TypeOK ==
    /\ data \in [File -> Seq(Byte)]
    /\ i \in [File -> Nat] /\ start \in [File -> Nat]
    /\ \A f \in File : start[f] <= i[f] /\ i[f] <= Len(data[f])
    /\ hash \in [File -> Word]
    /\ chunks \in [File -> Seq(ChunkRecord)]

EndOf(c) == c.offset + c.len

\* The chunks of a file lie end to end from its first byte to where the chunk
\* under way begins, and in the end to its last byte; each is named by just the
\* bytes it spans.  Writing them out in turn (materialize_remote) gives the file.
ChunksTileTheFile ==
    \A f \in File :
        LET made == chunks[f]
        IN  /\ \A k \in DOMAIN made :
                   /\ made[k].offset = IF k = 1 THEN 0 ELSE EndOf(made[k - 1])
                   /\ made[k].hash = SubSeq(data[f], made[k].offset + 1, EndOf(made[k]))
            /\ start[f] = IF made = <<>> THEN 0 ELSE EndOf(made[Len(made)])
            /\ i[f] = Len(data[f]) => start[f] = Len(data[f])

\* No chunk is beyond the maximum, and only a file's last is below the minimum,
\* whatever the hash does.
SizesBounded ==
    \A f \in File : \A k \in DOMAIN chunks[f] :
        /\ chunks[f][k].len <= MAX_CHUNK_SIZE
        /\ chunks[f][k].len >= MIN_CHUNK_SIZE \/ EndOf(chunks[f][k]) = Len(data[f])

Window(f) == {j \in 1 .. i[f] : j + WINDOW > i[f]}

\* Bit b of the xor of the window's bytes, each rotated by its age.
InWindowHash(f, b) ==
    Cardinality({j \in Window(f) : b \in RotateLeft(Table[data[f][j]], i[f] - j)}) % 2 = 1

\* The rolling hash is the hash of the last WINDOW bytes and of nothing else:
\* what has left the window is cancelled for good ("a genuinely bounded window,
\* not an approximate one").
HashIsOfWindow ==
    \A f \in File : \A b \in 0 .. Bits - 1 : b \in hash[f] <=> InWindowHash(f, b)

Chunked(f) == i[f] = Len(data[f])

\* The hashes of the chunks of f from the one that begins n bytes before its end.
HashesOfLast(f, n) ==
    LET from == {k \in DOMAIN chunks[f] : chunks[f][k].offset + n >= Len(data[f])}
    IN  {<<Len(data[f]) - chunks[f][k].offset, chunks[f][k].hash>> : k \in from}

BeginsChunk(f, n) == \E k \in DOMAIN chunks[f] : chunks[f][k].offset + n = Len(data[f])

LastBytes(f, n) == SubSeq(data[f], Len(data[f]) - n + 1, Len(data[f]))

\* Two files that end in the same bytes are cut alike from the first place
\* where both begin a chunk: what came before, an insertion or another file's
\* text, no longer matters ("an edit only invalidates the chunks around it").
CutsResynchronize ==
    \A f, g \in File : Chunked(f) /\ Chunked(g) =>
        \A n \in 1 .. Len(data[f]) :
            BeginsChunk(f, n) /\ BeginsChunk(g, n) /\ LastBytes(f, n) = LastBytes(g, n)
                => HashesOfLast(f, n) = HashesOfLast(g, n)
==============================================================================
