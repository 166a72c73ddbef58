---------------------------- MODULE ChunkerProofs ----------------------------
(* The chunker's properties for every table, mask, window, bound on sizes     *)
(* and input.                                                                 *)
EXTENDS Chunker, Integers, FiniteSetTheorems, FunctionTheorems, SequenceTheorems,
        TLAPS

\* A step is one byte of one file; the other files stay as they are.
LEMMA ScanByteLocal ==
    ASSUME TypeOK, NEW f \in File, ScanByte(f)
    PROVE  /\ i[f] \in Nat /\ start[f] \in Nat /\ start[f] <= i[f] /\ i[f] < Len(data[f])
           /\ data[f] \in Seq(Byte) /\ data' = data
           /\ i'[f] = i[f] + 1 /\ hash'[f] = Rolled(f)
           /\ \/ /\ Cuts(f) /\ start'[f] = i[f] + 1
                 /\ chunks'[f] = Append(chunks[f], Chunk(f))
              \/ /\ ~Cuts(f) /\ start'[f] = start[f] /\ chunks'[f] = chunks[f]
           /\ \A g \in File \ {f} : /\ i'[g] = i[g] /\ start'[g] = start[g]
                                    /\ hash'[g] = hash[g] /\ chunks'[g] = chunks[g]
BY DEF TypeOK, ScanByte, Scanning, Roll, Cut

LEMMA RotateLeftType ==
    ASSUME NEW w \in Word, NEW k \in Nat
    PROVE  RotateLeft(w, k) \in Word
<1> SUFFICES ASSUME NEW b \in w PROVE (b + k) % Bits \in 0 .. Bits - 1
    BY DEF RotateLeft, Word
<1> QED
    BY ChunkerAssumption DEF Word

LEMMA RolledType ==
    ASSUME TypeOK, NEW f \in File, i[f] < Len(data[f])
    PROVE  Rolled(f) \in Word
<1>1. /\ data[f] \in Seq(Byte) /\ i[f] \in Nat /\ hash[f] \in Word
      /\ WINDOW \in Nat \ {0} /\ Table \in [Byte -> Word]
    BY ChunkerAssumption DEF TypeOK, Word
<1>2. \A n \in 1 .. Len(data[f]) : Table[data[f][n]] \in Word
    BY <1>1
<1>3. Entering(f) \in Word
    BY <1>1, <1>2, RotateLeftType DEF Entering, Xor, Word
<1>4. CASE i[f] >= WINDOW
    <2>1. i[f] + 1 - WINDOW \in 1 .. Len(data[f])
        BY <1>1, <1>4
    <2>2. RotateLeft(Table[data[f][i[f] + 1 - WINDOW]], WINDOW) \in Word
        BY <1>1, <1>2, <2>1, RotateLeftType
    <2> QED
        BY <1>3, <2>2 DEF Rolled, Xor, Word
<1>5. CASE ~(i[f] >= WINDOW)
    BY <1>3, <1>5 DEF Rolled
<1> QED
    BY <1>4, <1>5

LEMMA ChunkType ==
    ASSUME TypeOK, NEW f \in File, i[f] < Len(data[f])
    PROVE  Chunk(f) \in ChunkRecord
<1>1. data[f] \in Seq(Byte) /\ i[f] \in Nat /\ start[f] \in Nat /\ start[f] <= i[f]
    BY DEF TypeOK
<1>2. \A n \in start[f] + 1 .. i[f] + 1 : data[f][n] \in Byte
    BY <1>1
<1>3. SubSeq(data[f], start[f] + 1, i[f] + 1) \in Seq(Byte)
    BY <1>1, <1>2, SubSeqProperties
<1> QED
    BY <1>1, <1>3 DEF Chunk, Length, ChunkRecord

LEMMA TypeInductive ==
    ASSUME TypeOK, [Next]_vars
    PROVE  TypeOK'
<1>1. CASE UNCHANGED vars
    BY <1>1 DEF vars, TypeOK, ChunkRecord, Word
<1>2. CASE Next
    <2>1. PICK f \in File : ScanByte(f)
        BY <1>2 DEF Next
    <2>2. /\ i' \in [File -> Nat]
          /\ start' \in [File -> Nat]
          /\ hash' \in [File -> Word]
          /\ chunks' \in [File -> Seq(ChunkRecord)]
        <3>1. Rolled(f) \in Word /\ Chunk(f) \in ChunkRecord
            BY <2>1, ScanByteLocal, RolledType, ChunkType
        <3>2. chunks[f] \in Seq(ChunkRecord) => Append(chunks[f], Chunk(f)) \in Seq(ChunkRecord)
            BY <3>1, AppendProperties
        <3>3. i' \in [File -> Nat] /\ hash' \in [File -> Word]
            BY <2>1, <3>1 DEF TypeOK, ScanByte, Roll
        <3>4. start' \in [File -> Nat]
            BY <2>1 DEF TypeOK, ScanByte, Cut
        <3>5. chunks' \in [File -> Seq(ChunkRecord)]
            <4>1. \/ chunks' = chunks
                  \/ chunks' = [chunks EXCEPT ![f] = Append(chunks[f], Chunk(f))]
                BY <2>1 DEF ScanByte, Cut
            <4> QED
                BY <3>2, <4>1 DEF TypeOK
        <3> QED
            BY <3>3, <3>4, <3>5
    <2>3. \A g \in File : start'[g] <= i'[g] /\ i'[g] <= Len(data'[g])
        <3>1. \A g \in File \ {f} : start'[g] <= i'[g] /\ i'[g] <= Len(data'[g])
            BY <2>1, ScanByteLocal DEF TypeOK
        <3>2. start'[f] <= i'[f] /\ i'[f] <= Len(data'[f])
            BY <2>1, ScanByteLocal
        <3> QED
            BY <3>1, <3>2
    <2>4. data' \in [File -> Seq(Byte)]
        BY <2>1, ScanByteLocal DEF TypeOK
    <2> QED
        BY <2>2, <2>3, <2>4 DEF TypeOK, ChunkRecord, Word
<1> QED
    BY <1>1, <1>2

LEMMA InitTyped == Init => TypeOK
<1> SUFFICES ASSUME Init PROVE TypeOK
    OBVIOUS
<1>1. data \in [File -> Seq(Byte)]
    BY ChunkerAssumption DEF Init
<1>2. \A g \in File : Len(data[g]) \in Nat
    BY <1>1
<1>3. \A g \in File : start[g] <= i[g] /\ i[g] <= Len(data[g])
    BY <1>2 DEF Init
<1>4. <<>> \in Seq(ChunkRecord)
    OBVIOUS
<1> QED
    BY <1>1, <1>3, <1>4 DEF Init, TypeOK, Word

\* The variables of the chunker have their types, and the chunk under way
\* begins at or before the byte the loop is at.
THEOREM ChunkerTyped == Spec => []TypeOK
BY InitTyped, TypeInductive, PTL DEF Spec

------------------------------------------------------------------------------
\* Tiling.  What ChunksTileTheFile says of one file.

Tiles(f) ==
    /\ \A k \in DOMAIN chunks[f] :
           /\ chunks[f][k].offset = IF k = 1 THEN 0 ELSE EndOf(chunks[f][k - 1])
           /\ chunks[f][k].hash =
                  SubSeq(data[f], chunks[f][k].offset + 1, EndOf(chunks[f][k]))
    /\ start[f] = IF chunks[f] = <<>> THEN 0 ELSE EndOf(chunks[f][Len(chunks[f])])
    /\ i[f] = Len(data[f]) => start[f] = Len(data[f])

\* What a new chunk adds to a file's chunks.
LEMMA AppendChunk ==
    ASSUME TypeOK, NEW f \in File, i[f] < Len(data[f])
    PROVE  LET made == Append(chunks[f], Chunk(f))
               n == Len(chunks[f])
           IN  /\ n \in Nat /\ DOMAIN chunks[f] = 1 .. n
               /\ DOMAIN made = 1 .. n + 1 /\ Len(made) = n + 1 /\ made # <<>>
               /\ \A k \in 1 .. n : made[k] = chunks[f][k] /\ made[k] \in ChunkRecord
               /\ made[n + 1] = Chunk(f)
<1>1. chunks[f] \in Seq(ChunkRecord) /\ Chunk(f) \in ChunkRecord
    BY ChunkType DEF TypeOK
<1>2. Append(chunks[f], Chunk(f)) \in Seq(ChunkRecord)
    BY <1>1, AppendProperties
<1> QED
    BY <1>1, <1>2, AppendProperties

LEMMA TilesStep ==
    ASSUME TypeOK, NEW f \in File, Tiles(f), ScanByte(f)
    PROVE  Tiles(f)'
<1>1. /\ i[f] \in Nat /\ start[f] \in Nat /\ start[f] <= i[f] /\ i[f] < Len(data[f])
      /\ data' = data /\ i'[f] = i[f] + 1
    BY ScanByteLocal
<1>2. CASE ~Cuts(f)
    <2>1. chunks'[f] = chunks[f] /\ start'[f] = start[f]
        BY <1>2, ScanByteLocal
    <2>2. i'[f] # Len(data'[f])
        BY <1>1, <1>2 DEF Cuts
    <2> QED
        BY <1>1, <2>1, <2>2 DEF Tiles
<1>3. CASE Cuts(f)
    <2> DEFINE made == Append(chunks[f], Chunk(f))
               n == Len(chunks[f])
    <2>1. chunks'[f] = made /\ start'[f] = i[f] + 1
        BY <1>3, ScanByteLocal
    <2>2. /\ n \in Nat /\ DOMAIN chunks[f] = 1 .. n
          /\ DOMAIN made = 1 .. n + 1 /\ Len(made) = n + 1 /\ made # <<>>
          /\ \A k \in 1 .. n : made[k] = chunks[f][k]
          /\ made[n + 1] = Chunk(f)
        BY <1>1, AppendChunk
    <2>3. /\ Chunk(f).offset = start[f] /\ EndOf(Chunk(f)) = i[f] + 1
          /\ Chunk(f).hash = SubSeq(data[f], start[f] + 1, i[f] + 1)
        <3>1. /\ Chunk(f).offset = start[f] /\ Chunk(f).len = i[f] + 1 - start[f]
              /\ Chunk(f).hash = SubSeq(data[f], start[f] + 1, i[f] + 1)
            BY DEF Chunk, Length
        <3>2. start[f] + (i[f] + 1 - start[f]) = i[f] + 1
            BY <1>1
        <3> QED
            BY <3>1, <3>2 DEF EndOf
    <2>4. start[f] = IF n + 1 = 1 THEN 0 ELSE EndOf(made[n])
        <3>1. chunks[f] \in Seq(ChunkRecord)
            BY DEF TypeOK
        <3>2. chunks[f] = <<>> <=> n = 0
            BY <3>1, EmptySeq
        <3>3. start[f] = IF n = 0 THEN 0 ELSE EndOf(chunks[f][n])
            BY <3>2 DEF Tiles
        <3>4. n # 0 => made[n] = chunks[f][n]
            BY <2>2
        <3> QED
            BY <2>2, <3>3, <3>4
    <2> HIDE DEF made
    <2>5. ASSUME NEW k \in 1 .. n + 1
          PROVE  /\ made[k].offset = IF k = 1 THEN 0 ELSE EndOf(made[k - 1])
                 /\ made[k].hash = SubSeq(data[f], made[k].offset + 1, EndOf(made[k]))
        <3>1. CASE k = n + 1
            BY <2>2, <2>3, <2>4, <3>1
        <3>2. CASE k # n + 1
            <4>1. k \in 1 .. n /\ (k # 1 => k - 1 \in 1 .. n)
                BY <2>2, <3>2
            <4> QED
                BY <2>2, <4>1 DEF Tiles
        <3> QED
            BY <3>1, <3>2
    <2>6. start'[f] = EndOf(made[Len(made)])
        BY <2>1, <2>2, <2>3
    <2> QED
        BY <1>1, <2>1, <2>2, <2>5, <2>6 DEF Tiles
<1> QED
    BY <1>2, <1>3

\* Whatever the hash does, the chunks of a file are, end to end, its bytes.
THEOREM ChunksTile == Spec => []ChunksTileTheFile
<1> DEFINE Inv == \A f \in File : Tiles(f)
<1>1. Init => Inv
    <2> SUFFICES ASSUME Init, NEW f \in File PROVE Tiles(f)
        OBVIOUS
    <2>1. chunks[f] = <<>> /\ DOMAIN chunks[f] = {} /\ start[f] = 0 /\ i[f] = 0
        BY DEF Init
    <2> QED
        BY <2>1 DEF Tiles
<1>2. TypeOK /\ Inv /\ [Next]_vars => Inv'
    <2> SUFFICES ASSUME TypeOK, Inv, [Next]_vars, NEW g \in File PROVE Tiles(g)'
        OBVIOUS
    <2>1. ASSUME i'[g] = i[g], start'[g] = start[g], chunks'[g] = chunks[g], data' = data
          PROVE  Tiles(g)'
        BY <2>1 DEF Tiles
    <2>2. CASE UNCHANGED vars
        BY <2>1, <2>2 DEF vars
    <2>3. CASE Next
        <3>1. PICK f \in File : ScanByte(f)
            BY <2>3 DEF Next
        <3>2. CASE f = g
            BY <3>1, <3>2, TilesStep
        <3>3. CASE f # g
            BY <2>1, <3>1, <3>3, ScanByteLocal
        <3> QED
            BY <3>2, <3>3
    <2> QED
        BY <2>2, <2>3
<1>3. Inv => ChunksTileTheFile
    BY DEF Tiles, ChunksTileTheFile
<1> HIDE DEF Inv
<1> QED
    BY <1>1, <1>2, <1>3, ChunkerTyped, PTL DEF Spec

------------------------------------------------------------------------------
\* Sizes.  The chunk under way is below the maximum before each byte.

Sized(f) ==
    /\ i[f] - start[f] < MAX_CHUNK_SIZE
    /\ \A k \in DOMAIN chunks[f] :
           /\ chunks[f][k].len <= MAX_CHUNK_SIZE
           /\ chunks[f][k].len >= MIN_CHUNK_SIZE \/ EndOf(chunks[f][k]) = Len(data[f])

LEMMA SizedStep ==
    ASSUME TypeOK, NEW f \in File, Sized(f), ScanByte(f)
    PROVE  Sized(f)'
<1>1. /\ i[f] \in Nat /\ start[f] \in Nat /\ start[f] <= i[f] /\ i[f] < Len(data[f])
      /\ data' = data /\ i'[f] = i[f] + 1
      /\ MIN_CHUNK_SIZE \in Nat /\ MAX_CHUNK_SIZE \in Nat /\ MIN_CHUNK_SIZE <= MAX_CHUNK_SIZE
      /\ MAX_CHUNK_SIZE > 0
    BY ScanByteLocal, ChunkerAssumption
<1>2. CASE ~Cuts(f)
    <2>1. chunks'[f] = chunks[f] /\ start'[f] = start[f]
        BY <1>2, ScanByteLocal
    <2>2. i'[f] - start'[f] < MAX_CHUNK_SIZE
        BY <1>1, <1>2, <2>1 DEF Cuts, Length
    <2> QED
        BY <1>1, <2>1, <2>2 DEF Sized
<1>3. CASE Cuts(f)
    <2>1. chunks'[f] = Append(chunks[f], Chunk(f)) /\ start'[f] = i[f] + 1
        BY <1>3, ScanByteLocal
    <2>2. /\ Chunk(f).len = i[f] + 1 - start[f]
          /\ EndOf(Chunk(f)) = i[f] + 1
        BY <1>1 DEF Chunk, EndOf, Length
    <2>3. Chunk(f).len <= MAX_CHUNK_SIZE
        BY <1>1, <2>2 DEF Sized
    <2>4. Chunk(f).len >= MIN_CHUNK_SIZE \/ EndOf(Chunk(f)) = Len(data[f])
        BY <1>1, <1>3, <2>2 DEF Cuts, AtBoundary, Length
    <2>5. \A k \in DOMAIN chunks'[f] :
              chunks'[f][k] = Chunk(f) \/ (k \in DOMAIN chunks[f] /\ chunks'[f][k] = chunks[f][k])
        BY <1>1, <2>1, AppendChunk
    <2>6. i'[f] - start'[f] < MAX_CHUNK_SIZE
        BY <1>1, <2>1
    <2> QED
        BY <1>1, <2>3, <2>4, <2>5, <2>6 DEF Sized
<1> QED
    BY <1>2, <1>3

\* Every chunk is within the bounds on sizes, but for a file's last.
THEOREM SizesHold == Spec => []SizesBounded
<1> DEFINE Inv == \A f \in File : Sized(f)
<1>1. Init => Inv
    <2> SUFFICES ASSUME Init, NEW f \in File PROVE Sized(f)
        OBVIOUS
    <2>1. DOMAIN chunks[f] = {} /\ start[f] = 0 /\ i[f] = 0
        BY DEF Init
    <2> QED
        BY <2>1, ChunkerAssumption DEF Sized
<1>2. TypeOK /\ Inv /\ [Next]_vars => Inv'
    <2> SUFFICES ASSUME TypeOK, Inv, [Next]_vars, NEW g \in File PROVE Sized(g)'
        OBVIOUS
    <2>1. ASSUME i'[g] = i[g], start'[g] = start[g], chunks'[g] = chunks[g], data' = data
          PROVE  Sized(g)'
        BY <2>1 DEF Sized
    <2>2. CASE UNCHANGED vars
        BY <2>1, <2>2 DEF vars
    <2>3. CASE Next
        <3>1. PICK f \in File : ScanByte(f)
            BY <2>3 DEF Next
        <3>2. CASE f = g
            BY <3>1, <3>2, SizedStep
        <3>3. CASE f # g
            BY <2>1, <3>1, <3>3, ScanByteLocal
        <3> QED
            BY <3>2, <3>3
    <2> QED
        BY <2>2, <2>3
<1>3. Inv => SizesBounded
    BY DEF Sized, SizesBounded
<1> HIDE DEF Inv
<1> QED
    BY <1>1, <1>2, <1>3, ChunkerTyped, PTL DEF Spec

------------------------------------------------------------------------------
\* The window.  Bits and words first: a rotation by one more, and parity.

LEMMA QuotientUnique ==
    ASSUME NEW n \in Nat \ {0}, NEW q \in Int, NEW s \in Int,
           NEW r \in 0 .. n - 1, NEW t \in 0 .. n - 1,
           q * n + r = s * n + t
    PROVE  r = t
<1>1. CASE q = s
    BY <1>1
<1>2. CASE q >= s + 1
    <2>1. q * n >= (s + 1) * n
        BY <1>2, Z3
    <2>2. (s + 1) * n = s * n + n
        BY Z3
    <2>3. s * n \in Int /\ q * n \in Int
        OBVIOUS
    <2> QED
        BY <2>1, <2>2, <2>3
<1>3. CASE s >= q + 1
    <2>1. s * n >= (q + 1) * n
        BY <1>3, Z3
    <2>2. (q + 1) * n = q * n + n
        BY Z3
    <2>3. s * n \in Int /\ q * n \in Int
        OBVIOUS
    <2> QED
        BY <2>1, <2>2, <2>3
<1> QED
    BY <1>1, <1>2, <1>3

LEMMA NextRemainder ==
    ASSUME NEW n \in Nat \ {0}, NEW x \in Nat
    PROVE  (x + 1) % n = IF x % n = n - 1 THEN 0 ELSE (x % n) + 1
<1> DEFINE q == x \div n
           r == x % n
           s == (x + 1) \div n
           t == (x + 1) % n
<1>1. x = q * n + r /\ x + 1 = s * n + t
    BY Z3
<1>2. r \in 0 .. n - 1 /\ t \in 0 .. n - 1 /\ q \in Int /\ s \in Int
    OBVIOUS
<1> HIDE DEF q, r, s, t
<1>3. CASE r = n - 1
    <2>1. (q + 1) * n = q * n + n
        BY <1>2, Z3
    <2>2. q * n \in Int /\ s * n \in Int
        BY <1>2
    <2>3. (q + 1) * n + 0 = s * n + t
        BY <1>1, <1>2, <1>3, <2>1, <2>2
    <2>4. t = 0
        BY <1>2, <2>3, QuotientUnique
    <2> QED
        BY <1>3, <2>4 DEF r, t
<1>4. CASE r # n - 1
    <2>1. q * n \in Int /\ s * n \in Int
        BY <1>2
    <2>2. r + 1 \in 0 .. n - 1 /\ q * n + (r + 1) = s * n + t
        BY <1>1, <1>2, <1>4, <2>1
    <2>3. t = r + 1
        BY <1>2, <2>2, QuotientUnique
    <2> QED
        BY <1>4, <2>3 DEF r, t
<1> QED
    BY <1>3, <1>4

Pred(b) == IF b = 0 THEN Bits - 1 ELSE b - 1

\* A rotation by one more takes to bit b what one less took to the bit before.
LEMMA RotateOneMore ==
    ASSUME NEW w \in Word, NEW k \in Nat, NEW b \in 0 .. Bits - 1
    PROVE  b \in RotateLeft(w, k + 1) <=> Pred(b) \in RotateLeft(w, k)
<1>1. Bits \in Nat \ {0}
    BY ChunkerAssumption
<1>2. ASSUME NEW c \in w
      PROVE  (c + (k + 1)) % Bits = b <=> (c + k) % Bits = Pred(b)
    <2>1. c + k \in Nat /\ c + (k + 1) = (c + k) + 1
        BY <1>1 DEF Word
    <2>2. (c + k) % Bits \in 0 .. Bits - 1
        BY <1>1, <2>1
    <2>3. (c + (k + 1)) % Bits
              = IF (c + k) % Bits = Bits - 1 THEN 0 ELSE ((c + k) % Bits) + 1
        BY <1>1, <2>1, NextRemainder
    <2> QED
        BY <1>1, <2>2, <2>3 DEF Pred
<1> QED
    BY <1>2 DEF RotateLeft

LEMMA RotateByNone ==
    ASSUME NEW w \in Word
    PROVE  RotateLeft(w, 0) = w
<1>1. \A c \in w : (c + 0) % Bits = c
    <2> SUFFICES ASSUME NEW c \in w PROVE (c + 0) % Bits = c
        OBVIOUS
    <2>1. c \in Nat /\ c < Bits /\ Bits \in Nat /\ Bits > 0
        BY ChunkerAssumption DEF Word
    <2>2. c % Bits = c
        BY <2>1, Z3
    <2> QED
        BY <2>1, <2>2
<1> QED
    BY <1>1 DEF RotateLeft

Odd(S) == Cardinality(S) % 2 = 1

LEMMA OddAdd ==
    ASSUME NEW S, NEW x, IsFiniteSet(S), x \notin S
    PROVE  IsFiniteSet(S \cup {x}) /\ (Odd(S \cup {x}) <=> ~Odd(S))
<1>1. Cardinality(S) \in Nat /\ Cardinality(S \cup {x}) = Cardinality(S) + 1
    BY FS_CardinalityType, FS_AddElement
<1> QED
    BY <1>1, FS_AddElement DEF Odd

LEMMA OddRemove ==
    ASSUME NEW S, NEW x, IsFiniteSet(S), x \in S
    PROVE  IsFiniteSet(S \ {x}) /\ (Odd(S \ {x}) <=> ~Odd(S))
<1>1. IsFiniteSet(S \ {x}) /\ x \notin S \ {x} /\ (S \ {x}) \cup {x} = S
    BY FS_RemoveElement
<1> QED
    BY <1>1, OddAdd

\* The positions in the window whose byte, rotated by its age, has bit b.
Setting(f, b) ==
    {j \in Window(f) : b \in RotateLeft(Table[data[f][j]], i[f] - j)}

\* The bits of the oldest byte of the window, which leaves it.
Leaves(f, b) ==
    i[f] >= WINDOW /\ b \in RotateLeft(Table[data[f][i[f] + 1 - WINDOW]], WINDOW)

Enters(f, b) == b \in Table[data[f][i[f] + 1]]

LEMMA RolledBit ==
    ASSUME TypeOK, NEW f \in File, i[f] < Len(data[f]), NEW b \in 0 .. Bits - 1
    PROVE  b \in Rolled(f)
               <=> ~((~(Pred(b) \in hash[f] <=> Enters(f, b))) <=> Leaves(f, b))
<1>1. hash[f] \in Word
    BY DEF TypeOK
<1>2. b \in RotateLeft(hash[f], 1) <=> Pred(b) \in hash[f]
    <2>1. b \in RotateLeft(hash[f], 0 + 1) <=> Pred(b) \in RotateLeft(hash[f], 0)
        BY <1>1, RotateOneMore
    <2> QED
        BY <1>1, <2>1, RotateByNone
<1>3. b \in Entering(f) <=> ~(Pred(b) \in hash[f] <=> Enters(f, b))
    BY <1>2 DEF Entering, Xor, Enters
<1> QED
    BY <1>3 DEF Rolled, Xor, Leaves

\* How the positions that set bit b come from those that set the bit before.
LEMMA SettingStep ==
    ASSUME TypeOK, NEW f \in File, ScanByte(f), NEW b \in 0 .. Bits - 1
    PROVE  /\ IsFiniteSet(Setting(f, Pred(b)))
           /\ i[f] + 1 \notin Setting(f, Pred(b))
           /\ Leaves(f, b) <=> i[f] + 1 - WINDOW \in Setting(f, Pred(b))
           /\ Setting(f, b)' = (Setting(f, Pred(b)) \ {i[f] + 1 - WINDOW})
                                   \cup (IF Enters(f, b) THEN {i[f] + 1} ELSE {})
<1> DEFINE n == i[f]
           d == data[f]
<1>1. /\ n \in Nat /\ n < Len(d) /\ d \in Seq(Byte) /\ data'[f] = d /\ i'[f] = n + 1
      /\ WINDOW \in Nat /\ WINDOW >= 1 /\ n + 1 \in 1 .. Len(d)
    BY ScanByteLocal, ChunkerAssumption
<1>2. \A j \in 1 .. Len(d) : Table[d[j]] \in Word
    BY <1>1, ChunkerAssumption DEF Word
<1> HIDE DEF n, d
<1>3. \A j \in 1 .. n :
          b \in RotateLeft(Table[d[j]], n + 1 - j)
              <=> Pred(b) \in RotateLeft(Table[d[j]], n - j)
    <2> SUFFICES ASSUME NEW j \in 1 .. n
                 PROVE  b \in RotateLeft(Table[d[j]], n + 1 - j)
                            <=> Pred(b) \in RotateLeft(Table[d[j]], n - j)
        OBVIOUS
    <2>1. Table[d[j]] \in Word /\ n - j \in Nat /\ n + 1 - j = (n - j) + 1
        BY <1>1, <1>2
    <2> QED
        BY <2>1, RotateOneMore
<1>4. Window(f) = {j \in 1 .. n : j + WINDOW > n}
    BY DEF Window, n
<1>5. Window(f)' = {j \in 1 .. n + 1 : j + WINDOW > n + 1}
    BY <1>1 DEF Window
<1>6. IsFiniteSet(Setting(f, Pred(b)))
    <2>1. IsFiniteSet(1 .. n) /\ Setting(f, Pred(b)) \in SUBSET (1 .. n)
        BY <1>1, <1>4, FS_Interval DEF Setting
    <2> QED
        BY <2>1, FS_Subset
<1>7. n + 1 \notin Setting(f, Pred(b))
    BY <1>1, <1>4 DEF Setting
<1>8. Leaves(f, b) <=> n + 1 - WINDOW \in Setting(f, Pred(b))
    <2>1. n + 1 - WINDOW \in Window(f) <=> n >= WINDOW
        BY <1>1, <1>4
    <2>2. ASSUME n >= WINDOW
          PROVE  b \in RotateLeft(Table[d[n + 1 - WINDOW]], WINDOW)
                     <=> Pred(b) \in RotateLeft(Table[d[n + 1 - WINDOW]], n - (n + 1 - WINDOW))
        <3>1. n + 1 - WINDOW \in 1 .. n /\ n + 1 - (n + 1 - WINDOW) = WINDOW
            BY <1>1, <2>2
        <3> QED
            BY <1>3, <3>1
    <2> QED
        BY <2>1, <2>2 DEF Leaves, Setting, n, d
<1>9. Setting(f, b)' = (Setting(f, Pred(b)) \ {n + 1 - WINDOW})
                           \cup (IF Enters(f, b) THEN {n + 1} ELSE {})
    <2>1. \A j : j \in Setting(f, b)' <=>
              j \in Window(f)' /\ b \in RotateLeft(Table[d[j]], n + 1 - j)
        <3>1. \A j : j \in Setting(f, b)' <=>
                  j \in Window(f)' /\ b \in RotateLeft(Table[data'[f][j]], i'[f] - j)
            BY DEF Setting
        <3>2. ASSUME NEW j \in 1 .. n + 1
              PROVE  RotateLeft(Table[data'[f][j]], i'[f] - j)
                        = RotateLeft(Table[d[j]], n + 1 - j)
            BY <1>1
        <3>3. \A j \in Window(f)' : j \in 1 .. n + 1
            BY <1>5
        <3> QED
            BY <3>1, <3>2, <3>3
    <2>2. b \in RotateLeft(Table[d[n + 1]], n + 1 - (n + 1)) <=> Enters(f, b)
        <3>1. n + 1 - (n + 1) = 0 /\ Table[d[n + 1]] \in Word
            BY <1>1, <1>2
        <3>2. RotateLeft(Table[d[n + 1]], n + 1 - (n + 1)) = Table[d[n + 1]]
            BY <3>1, RotateByNone
        <3> QED
            BY <3>2 DEF Enters, n, d
    <2>3. Window(f)' = (Window(f) \ {n + 1 - WINDOW}) \cup {n + 1}
        BY <1>1, <1>4, <1>5
    <2>4. \A j \in Window(f) : j \in 1 .. n
        BY <1>4
    <2>5. Setting(f, Pred(b)) =
              {j \in Window(f) : b \in RotateLeft(Table[d[j]], n + 1 - j)}
        BY <1>3, <2>4 DEF Setting, n, d
    <2>6. n + 1 \notin Window(f)
        BY <1>1, <1>4
    <2>7. \A j : j \in Setting(f, b)' <=>
              j \in (Setting(f, Pred(b)) \ {n + 1 - WINDOW})
                        \cup (IF Enters(f, b) THEN {n + 1} ELSE {})
        <3> SUFFICES ASSUME NEW j
                     PROVE  j \in Setting(f, b)' <=>
                                \/ j \in Setting(f, Pred(b)) /\ j # n + 1 - WINDOW
                                \/ j = n + 1 /\ Enters(f, b)
            OBVIOUS
        <3>1. CASE j = n + 1
            <4>1. n + 1 # n + 1 - WINDOW
                BY <1>1
            <4> QED
                BY <2>1, <2>2, <2>3, <2>5, <2>6, <3>1, <4>1
        <3>2. CASE j # n + 1
            BY <2>1, <2>3, <2>5, <3>2
        <3> QED
            BY <3>1, <3>2
    <2> QED
        BY <2>7
<1> QED
    BY <1>6, <1>7, <1>8, <1>9 DEF n

LEMMA WindowStep ==
    ASSUME TypeOK, NEW f \in File, ScanByte(f), NEW b \in 0 .. Bits - 1,
           Pred(b) \in hash[f] <=> Odd(Setting(f, Pred(b)))
    PROVE  b \in hash'[f] <=> Odd(Setting(f, b)')
<1> DEFINE S == Setting(f, Pred(b))
           old == i[f] + 1 - WINDOW
           new == i[f] + 1
<1>1. /\ IsFiniteSet(S) /\ new \notin S /\ (Leaves(f, b) <=> old \in S)
      /\ Setting(f, b)' = (S \ {old}) \cup (IF Enters(f, b) THEN {new} ELSE {})
    BY SettingStep
<1>2. b \in hash'[f] <=> ~((~(Odd(S) <=> Enters(f, b))) <=> Leaves(f, b))
    <2>1. i[f] < Len(data[f]) /\ hash'[f] = Rolled(f)
        BY ScanByteLocal
    <2>2. b \in Rolled(f) <=> ~((~(Pred(b) \in hash[f] <=> Enters(f, b))) <=> Leaves(f, b))
        BY <2>1, RolledBit
    <2> QED
        BY <2>1, <2>2
<1> HIDE DEF S, old, new
<1>3. IsFiniteSet(S \ {old}) /\ (Odd(S \ {old}) <=> ~(Odd(S) <=> Leaves(f, b)))
    <2>1. CASE old \in S
        BY <1>1, <2>1, OddRemove
    <2>2. CASE old \notin S
        <3>1. S \ {old} = S
            BY <2>2
        <3> QED
            BY <1>1, <2>2, <3>1
    <2> QED
        BY <2>1, <2>2
<1>4. Odd(Setting(f, b)') <=> ~(Odd(S \ {old}) <=> Enters(f, b))
    <2>1. CASE Enters(f, b)
        <3>1. Setting(f, b)' = (S \ {old}) \cup {new} /\ new \notin S \ {old}
            BY <1>1, <2>1
        <3> QED
            BY <1>3, <2>1, <3>1, OddAdd
    <2>2. CASE ~Enters(f, b)
        <3>1. Setting(f, b)' = S \ {old}
            BY <1>1, <2>2
        <3> QED
            BY <2>2, <3>1
    <2> QED
        BY <2>1, <2>2
<1> QED
    BY <1>2, <1>3, <1>4

\* For every table, the rolling hash is the hash of the last WINDOW bytes: what
\* has left the window is cancelled for good, whatever was cut in between.
THEOREM HashHolds == Spec => []HashIsOfWindow
<1> DEFINE Right(f, b) == b \in hash[f] <=> Odd(Setting(f, b))
           Inv == \A f \in File : \A b \in 0 .. Bits - 1 : Right(f, b)
<1>1. Init => Inv
    <2> SUFFICES ASSUME Init, NEW f \in File, NEW b \in 0 .. Bits - 1
                 PROVE  ~Odd(Setting(f, b))
        BY DEF Init
    <2>1. Setting(f, b) = {}
        BY DEF Init, Setting, Window
    <2>2. Cardinality(Setting(f, b)) = 0
        BY <2>1, FS_EmptySet
    <2> QED
        BY <2>2 DEF Odd
<1>2. TypeOK /\ Inv /\ [Next]_vars => Inv'
    <2> SUFFICES ASSUME TypeOK, Inv, [Next]_vars, NEW g \in File, NEW b \in 0 .. Bits - 1
                 PROVE  b \in hash'[g] <=> Odd(Setting(g, b)')
        OBVIOUS
    <2>1. ASSUME i'[g] = i[g], hash'[g] = hash[g], data' = data
          PROVE  b \in hash'[g] <=> Odd(Setting(g, b)')
        <3>1. Setting(g, b)' = Setting(g, b)
            BY <2>1 DEF Setting, Window
        <3> QED
            BY <2>1, <3>1
    <2>2. CASE UNCHANGED vars
        BY <2>1, <2>2 DEF vars
    <2>3. CASE Next
        <3>1. PICK f \in File : ScanByte(f)
            BY <2>3 DEF Next
        <3>2. CASE f = g
            <4>1. Pred(b) \in 0 .. Bits - 1
                BY ChunkerAssumption DEF Pred
            <4> QED
                BY <3>1, <3>2, <4>1, WindowStep
        <3>3. CASE f # g
            BY <2>1, <3>1, <3>3, ScanByteLocal
        <3> QED
            BY <3>2, <3>3
    <2> QED
        BY <2>2, <2>3
<1>3. Inv => HashIsOfWindow
    BY DEF HashIsOfWindow, InWindowHash, Setting, Odd
<1> HIDE DEF Inv
<1> QED
    BY <1>1, <1>2, <1>3, ChunkerTyped, PTL DEF Spec

------------------------------------------------------------------------------
\* Cuts.  Whether a chunk that begins at o is cut behind byte m depends on its
\* length and on the window's bytes, by their age.
Ages(d, m, b) == {a \in 0 .. WINDOW - 1 : b \in RotateLeft(Table[d[m - a]], a)}

CutAt(d, o, m) ==
    \/ m - o >= MIN_CHUNK_SIZE /\ \A b \in CutMask : ~Odd(Ages(d, m, b))
    \/ m - o >= MAX_CHUNK_SIZE
    \/ m = Len(d)

\* The bytes of a full window that set bit b, counted from its end.
LEMMA WindowByAge ==
    ASSUME NEW d, NEW m \in Nat, m >= WINDOW, NEW b, NEW T,
           T = {j \in {n \in 1 .. m : n + WINDOW > m} : b \in RotateLeft(Table[d[j]], m - j)}
    PROVE  Odd(T) <=> Odd(Ages(d, m, b))
<1> DEFINE A == Ages(d, m, b)
           h == [j \in T |-> m - j]
<1>1. WINDOW \in Nat \ {0}
    BY ChunkerAssumption
<1>2. \A j \in T : /\ j \in 1 .. m /\ j + WINDOW > m /\ m - j \in 0 .. WINDOW - 1
                   /\ m - (m - j) = j /\ b \in RotateLeft(Table[d[j]], m - j)
    BY <1>1
<1>3. \A j \in T : m - j \in A
    BY <1>2 DEF Ages
<1>4. \A a \in A : m - a \in T /\ m - (m - a) = a
    <2> SUFFICES ASSUME NEW a \in A PROVE m - a \in T /\ m - (m - a) = a
        OBVIOUS
    <2>1. a \in 0 .. WINDOW - 1 /\ b \in RotateLeft(Table[d[m - a]], a)
        BY DEF Ages
    <2>2. m - a \in 1 .. m /\ m - a + WINDOW > m /\ m - (m - a) = a
        BY <1>1, <2>1
    <2> QED
        BY <2>1, <2>2
<1>5. h \in Bijection(T, A)
    <2>1. h \in [T -> A]
        BY <1>3
    <2>2. \A j, k \in T : h[j] = h[k] => j = k
        BY <1>2
    <2>3. \A a \in A : \E j \in T : h[j] = a
        BY <1>4
    <2> HIDE DEF h, A
    <2> QED
        BY <2>1, <2>2, <2>3, Fun_IsBij
<1>6. IsFiniteSet(T)
    <2>1. IsFiniteSet(1 .. m) /\ T \subseteq 1 .. m
        BY <1>2, FS_Interval
    <2> QED
        BY <2>1, FS_Subset
<1>7. ExistsBijection(T, A)
    BY <1>5 DEF ExistsBijection
<1>8. Cardinality(A) = Cardinality(T)
    BY <1>6, <1>7, FS_Bijection
<1> QED
    BY <1>8 DEF Odd

\* Of two inputs that agree on their last n bytes, a chunk that begins within
\* these is cut at the same place.
AlikeUpTo(d, e, n) ==
    /\ n \in 1 .. Len(d) /\ n <= Len(e)
    /\ \A x \in 0 .. n - 1 : d[Len(d) - x] = e[Len(e) - x]

LEMMA CutAlike ==
    ASSUME NEW d \in Seq(Byte), NEW e \in Seq(Byte), NEW n, AlikeUpTo(d, e, n),
           NEW back \in 1 .. n, NEW size \in 1 .. back,
           CutAt(d, Len(d) - back, Len(d) - back + size)
    PROVE  CutAt(e, Len(e) - back, Len(e) - back + size)
<1> DEFINE m == Len(d) - back + size
           k == Len(e) - back + size
<1>1. /\ Len(d) \in Nat /\ Len(e) \in Nat /\ n \in Nat /\ back \in Nat /\ size \in Nat
      /\ WINDOW \in Nat \ {0} /\ MIN_CHUNK_SIZE \in Nat /\ MAX_CHUNK_SIZE \in Nat
      /\ WINDOW < MIN_CHUNK_SIZE
    BY ChunkerAssumption DEF AlikeUpTo
<1>2. m - (Len(d) - back) = size /\ k - (Len(e) - back) = size
    BY <1>1
<1>3. m = Len(d) => k = Len(e)
    <2>1. m = Len(d) => size = back
        BY <1>1
    <2>2. size = back => k = Len(e)
        BY <1>1
    <2> QED
        BY <2>1, <2>2
<1>4. ASSUME size >= MIN_CHUNK_SIZE, NEW b
      PROVE  Ages(d, m, b) = Ages(e, k, b)
    <2>1. ASSUME NEW a \in 0 .. WINDOW - 1
          PROVE  d[m - a] = e[k - a]
        <3>1. back - size + a \in 0 .. n - 1
            BY <1>1, <1>4
        <3>2. m - a = Len(d) - (back - size + a) /\ k - a = Len(e) - (back - size + a)
            BY <1>1
        <3> QED
            BY <3>1, <3>2 DEF AlikeUpTo
    <2> QED
        BY <2>1 DEF Ages
<1> HIDE DEF m, k
<1>5. CutAt(d, Len(d) - back, m) => CutAt(e, Len(e) - back, k)
    BY <1>2, <1>3, <1>4 DEF CutAt
<1> QED
    BY <1>5 DEF m, k

LEMMA SliceIs ==
    ASSUME NEW d \in Seq(Byte), NEW o \in Nat, NEW size \in Nat, o + size <= Len(d)
    PROVE  SubSeq(d, o + 1, o + size) = [x \in 1 .. size |-> d[o + x]]
<1>1. /\ Len(SubSeq(d, o + 1, o + size)) = size
      /\ SubSeq(d, o + 1, o + size) \in Seq(Byte)
      /\ \A x \in 1 .. size : SubSeq(d, o + 1, o + size)[x] = d[o + x]
    <2>1. \A x \in o + 1 .. o + size : d[x] \in Byte
        OBVIOUS
    <2> QED
        BY <2>1, SubSeqProperties
<1> QED
    BY <1>1

LEMMA SliceAlike ==
    ASSUME NEW d \in Seq(Byte), NEW e \in Seq(Byte), NEW n, AlikeUpTo(d, e, n),
           NEW back \in 1 .. n, NEW size \in 1 .. back
    PROVE  SubSeq(d, Len(d) - back + 1, Len(d) - back + size)
               = SubSeq(e, Len(e) - back + 1, Len(e) - back + size)
<1> DEFINE s == SubSeq(d, Len(d) - back + 1, Len(d) - back + size)
           t == SubSeq(e, Len(e) - back + 1, Len(e) - back + size)
<1>1. Len(d) \in Nat /\ Len(e) \in Nat /\ n \in Nat /\ back \in Nat /\ size \in Nat
    BY DEF AlikeUpTo
<1>2. /\ Len(d) - back \in Nat /\ Len(d) - back + size <= Len(d)
      /\ Len(e) - back \in Nat /\ Len(e) - back + size <= Len(e)
    BY <1>1 DEF AlikeUpTo
<1>3. /\ s = [x \in 1 .. size |-> d[Len(d) - back + x]]
      /\ t = [x \in 1 .. size |-> e[Len(e) - back + x]]
    BY <1>1, <1>2, SliceIs
<1>4. ASSUME NEW x \in 1 .. size
      PROVE  d[Len(d) - back + x] = e[Len(e) - back + x]
    <2>1. back - x \in 0 .. n - 1
        BY <1>1
    <2>2. Len(d) - back + x = Len(d) - (back - x) /\ Len(e) - back + x = Len(e) - (back - x)
        BY <1>1
    <2> QED
        BY <2>1, <2>2 DEF AlikeUpTo
<1> HIDE DEF s, t
<1>5. s = t
    BY <1>3, <1>4
<1> QED
    BY <1>5 DEF s, t

LEMMA LeastNatural ==
    ASSUME NEW T \in SUBSET Nat, T # {}
    PROVE  \E x \in T : \A y \in T : x <= y
<1> DEFINE Below == {1 .. x : x \in T}
<1>1. Below \subseteq FiniteSubsetsOf(Nat) /\ Below # {}
    <2>1. \A x \in T : 1 .. x \subseteq Nat /\ IsFiniteSet(1 .. x)
        BY FS_Interval
    <2> QED
        BY <2>1 DEF FiniteSubsetsOf
<1>2. PICK b \in Below : \A c \in Below : <<c, b>> \notin StrictSubsetOrdering(Nat)
    <2> HIDE DEF Below
    <2> QED
        BY <1>1, WFMin, FS_StrictSubsetOrderingWellFounded
<1>3. PICK x \in T : b = 1 .. x
    BY <1>2
<1>4. ASSUME NEW y \in T, y < x
      PROVE  FALSE
    <2>1. 1 .. y \in Below /\ 1 .. y \subseteq 1 .. x /\ 1 .. y # 1 .. x
        <3>1. x \in 1 .. x /\ x \notin 1 .. y /\ x \in Nat /\ y \in Nat
            BY <1>4
        <3>2. 1 .. y # 1 .. x
            BY ONLY <3>1
        <3> QED
            BY <1>4, <3>1, <3>2
    <2>2. <<1 .. y, 1 .. x>> \in StrictSubsetOrdering(Nat)
        BY <2>1 DEF StrictSubsetOrdering
    <2> QED
        BY <1>2, <1>3, <2>1, <2>2
<1> QED
    BY <1>3, <1>4

------------------------------------------------------------------------------
\* What the chunks of a file say of where it was cut: each at its end and at no
\* earlier place, the one under way nowhere yet; and they follow one another.
CutOnce(d, c) ==
    /\ CutAt(d, c.offset, EndOf(c))
    /\ \A m \in c.offset + 1 .. EndOf(c) - 1 : ~CutAt(d, c.offset, m)

CutsRemembered(f) ==
    /\ \A k \in DOMAIN chunks[f] : CutOnce(data[f], chunks[f][k])
    /\ \A m \in start[f] + 1 .. i[f] : ~CutAt(data[f], start[f], m)

ChunksInOrder(f) ==
    /\ \A k \in DOMAIN chunks[f] : EndOf(chunks[f][k]) <= start[f]
    /\ \A k, l \in DOMAIN chunks[f] : k < l => EndOf(chunks[f][k]) <= chunks[f][l].offset

\* The loop cuts where CutAt says.
LEMMA CutsAreCutAt ==
    ASSUME TypeOK, HashIsOfWindow', NEW f \in File, ScanByte(f)
    PROVE  Cuts(f) <=> CutAt(data[f], start[f], i[f] + 1)
<1> DEFINE m == i[f] + 1
<1>1. /\ i[f] \in Nat /\ start[f] \in Nat /\ start[f] <= i[f] /\ i[f] < Len(data[f])
      /\ i'[f] = m /\ hash'[f] = Rolled(f) /\ data' = data
      /\ data[f] \in Seq(Byte) /\ Rolled(f) \in Word
    BY ScanByteLocal, RolledType
<1>2. /\ WINDOW \in Nat \ {0} /\ MIN_CHUNK_SIZE \in Nat /\ WINDOW < MIN_CHUNK_SIZE
      /\ CutMask \subseteq 0 .. Bits - 1
    BY ChunkerAssumption
<1>3. Length(f) >= MIN_CHUNK_SIZE => i[f] >= WINDOW
    BY <1>1, <1>2 DEF Length
<1>4. ASSUME i[f] >= WINDOW, NEW b \in 0 .. Bits - 1
      PROVE  b \in Rolled(f) <=> Odd(Ages(data[f], m, b))
    <2> DEFINE T == {j \in {n \in 1 .. m : n + WINDOW > m} :
                         b \in RotateLeft(Table[data[f][j]], m - j)}
    <2>1. b \in Rolled(f) <=> Cardinality(T) % 2 = 1
        BY <1>1 DEF HashIsOfWindow, InWindowHash, Window
    <2>2. m \in Nat /\ m >= WINDOW
        BY <1>1, <1>2, <1>4
    <2>3. Odd(T) <=> Odd(Ages(data[f], m, b))
        <3> HIDE DEF m
        <3> QED
            BY <2>2, WindowByAge
    <2> QED
        BY <2>1, <2>3 DEF Odd
<1>5. i[f] >= WINDOW =>
          (Rolled(f) \cap CutMask = {} <=> \A b \in CutMask : ~Odd(Ages(data[f], m, b)))
    BY <1>2, <1>4
<1>6. Length(f) = m - start[f]
    BY <1>1 DEF Length
<1> QED
    BY <1>3, <1>5, <1>6 DEF Cuts, AtBoundary, CutAt

LEMMA CutsStep ==
    ASSUME TypeOK, HashIsOfWindow', NEW f \in File, ScanByte(f),
           CutsRemembered(f), ChunksInOrder(f)
    PROVE  CutsRemembered(f)' /\ ChunksInOrder(f)'
<1> DEFINE m == i[f] + 1
<1>1. /\ i[f] \in Nat /\ start[f] \in Nat /\ start[f] <= i[f]
      /\ i'[f] = m /\ data' = data /\ chunks[f] \in Seq(ChunkRecord)
      /\ \/ Cuts(f) /\ start'[f] = m /\ chunks'[f] = Append(chunks[f], Chunk(f))
         \/ ~Cuts(f) /\ start'[f] = start[f] /\ chunks'[f] = chunks[f]
    BY ScanByteLocal DEF TypeOK
<1>2. Cuts(f) <=> CutAt(data[f], start[f], m)
    BY CutsAreCutAt
<1>3. CASE ~Cuts(f)
    <2>1. /\ start'[f] = start[f] /\ chunks'[f] = chunks[f]
        BY <1>1, <1>3
    <2>2. ASSUME NEW n \in start[f] + 1 .. m
          PROVE  ~CutAt(data[f], start[f], n)
        <3>1. n = m \/ n \in start[f] + 1 .. i[f]
            BY <1>1
        <3> QED
            BY <1>2, <1>3, <3>1 DEF CutsRemembered
    <2> QED
        BY <1>1, <2>1, <2>2 DEF CutsRemembered, ChunksInOrder, CutOnce
<1>4. CASE Cuts(f)
    <2> DEFINE c == Chunk(f)
               made == chunks[f]
    <2>1. start'[f] = m /\ chunks'[f] = Append(made, c)
        BY <1>1, <1>4
    <2>2. c.offset = start[f] /\ EndOf(c) = m
        BY <1>1 DEF Chunk, Length, EndOf
    <2>3. /\ Len(made) \in Nat /\ DOMAIN made = 1 .. Len(made)
          /\ DOMAIN chunks'[f] = 1 .. Len(made) + 1
          /\ chunks'[f][Len(made) + 1] = c
          /\ \A k \in DOMAIN made : chunks'[f][k] = made[k]
        BY <1>1, <2>1
    <2> HIDE DEF c, m
    <2>4. \A k \in DOMAIN chunks'[f] : k \in DOMAIN made \/ k = Len(made) + 1
        BY <2>3
    <2>5. CutOnce(data[f], c)
        <3>1. \A n \in start[f] + 1 .. m - 1 : n \in start[f] + 1 .. i[f]
            BY <1>1 DEF m
        <3> QED
            BY <1>2, <1>4, <2>2, <3>1 DEF CutsRemembered, CutOnce, m
    <2>6. \A k \in DOMAIN made : CutOnce(data[f], made[k])
        BY DEF CutsRemembered
    <2>7. \A n \in start'[f] + 1 .. i'[f] : ~CutAt(data'[f], start'[f], n)
        <3>1. m + 1 .. m = {}
            BY <1>1 DEF m
        <3> QED
            BY <1>1, <2>1, <3>1
    <2>8. \A k \in DOMAIN chunks'[f] : EndOf(chunks'[f][k]) <= start'[f]
        <3>1. \A k \in DOMAIN made : EndOf(made[k]) \in Nat /\ EndOf(made[k]) <= start[f]
            <4>1. \A k \in DOMAIN made : made[k] \in ChunkRecord
                BY <1>1
            <4> QED
                BY <4>1 DEF ChunksInOrder, ChunkRecord, EndOf
        <3>2. \A k \in DOMAIN made : EndOf(made[k]) <= m
            BY <1>1, <3>1 DEF m
        <3>3. m <= m
            BY <1>1 DEF m
        <3> QED
            BY <2>1, <2>2, <2>3, <2>4, <3>2, <3>3
    <2>9. ASSUME NEW k \in DOMAIN chunks'[f], NEW l \in DOMAIN chunks'[f], k < l
          PROVE  EndOf(chunks'[f][k]) <= chunks'[f][l].offset
        <3>1. k \in DOMAIN made
            BY <2>3, <2>9
        <3>2. CASE l \in DOMAIN made
            BY <2>3, <2>9, <3>1, <3>2 DEF ChunksInOrder
        <3>3. CASE l = Len(made) + 1
            BY <2>2, <2>3, <3>1, <3>3 DEF ChunksInOrder
        <3> QED
            BY <2>4, <3>2, <3>3
    <2>10. CutsRemembered(f)'
        BY <1>1, <2>3, <2>4, <2>5, <2>6, <2>7 DEF CutsRemembered
    <2> QED
        BY <2>8, <2>9, <2>10 DEF ChunksInOrder
<1> QED
    BY <1>3, <1>4

------------------------------------------------------------------------------
\* Where a chunk of f lies, counted from the end of f.
Back(f, k) == Len(data[f]) - chunks[f][k].offset

SameChunk(f, k, g, l) ==
    Back(f, k) = Back(g, l) /\ chunks[f][k].len = chunks[g][l].len

\* All that is known of the chunks of a file that has been scanned.
Settled(f) ==
    /\ Chunked(f) /\ data[f] \in Seq(Byte) /\ chunks[f] \in Seq(ChunkRecord)
    /\ \A k \in DOMAIN chunks[f] :
           /\ chunks[f][k].offset = IF k = 1 THEN 0 ELSE EndOf(chunks[f][k - 1])
           /\ chunks[f][k].hash = SubSeq(data[f], chunks[f][k].offset + 1, EndOf(chunks[f][k]))
           /\ EndOf(chunks[f][k]) <= Len(data[f])
           /\ CutOnce(data[f], chunks[f][k])
    /\ \A k, l \in DOMAIN chunks[f] : k < l => EndOf(chunks[f][k]) <= chunks[f][l].offset
    /\ chunks[f] # <<>> => EndOf(chunks[f][Len(chunks[f])]) = Len(data[f])

LEMMA SettledChunk ==
    ASSUME NEW f \in File, Settled(f), NEW k \in DOMAIN chunks[f]
    PROVE  /\ k \in 1 .. Len(chunks[f]) /\ k \in Nat
           /\ chunks[f][k].offset \in Nat /\ chunks[f][k].len \in Nat \ {0}
           /\ Len(data[f]) \in Nat
           /\ Back(f, k) \in 1 .. Len(data[f])
           /\ chunks[f][k].len \in 1 .. Back(f, k)
           /\ chunks[f][k].offset = Len(data[f]) - Back(f, k)
           /\ EndOf(chunks[f][k]) = Len(data[f]) - Back(f, k) + chunks[f][k].len
<1>1. /\ chunks[f] \in Seq(ChunkRecord) /\ data[f] \in Seq(Byte)
      /\ EndOf(chunks[f][k]) <= Len(data[f])
    BY DEF Settled
<1>2. chunks[f][k] \in ChunkRecord /\ k \in 1 .. Len(chunks[f]) /\ k \in Nat
    BY <1>1
<1>3. chunks[f][k].offset \in Nat /\ chunks[f][k].len \in Nat \ {0} /\ Len(data[f]) \in Nat
    BY <1>1, <1>2 DEF ChunkRecord
<1> DEFINE o == chunks[f][k].offset
           size == chunks[f][k].len
           all == Len(data[f])
<1>4. /\ o \in Nat /\ size \in Nat \ {0} /\ all \in Nat
      /\ o + size <= all /\ Back(f, k) = all - o /\ EndOf(chunks[f][k]) = o + size
    BY <1>1, <1>3 DEF Back, EndOf
<1> HIDE DEF o, size, all
<1>5. /\ all - o \in 1 .. all /\ size \in 1 .. all - o /\ o = all - (all - o)
      /\ o + size = all - (all - o) + size
    BY <1>4
<1>6. /\ Back(f, k) \in 1 .. all /\ size \in 1 .. Back(f, k) /\ o = all - Back(f, k)
      /\ EndOf(chunks[f][k]) = all - Back(f, k) + size
    BY <1>4, <1>5
<1> QED
    BY <1>2, <1>4, <1>6 DEF o, size, all

\* Later chunks begin nearer to the end.
LEMMA BackFalls ==
    ASSUME NEW f \in File, Settled(f), NEW j \in DOMAIN chunks[f], NEW k \in DOMAIN chunks[f],
           j < k
    PROVE  Back(f, k) < Back(f, j)
<1> DEFINE o == chunks[f][j].offset
           size == chunks[f][j].len
           p == chunks[f][k].offset
           all == Len(data[f])
<1>1. /\ o \in Nat /\ p \in Nat /\ size \in Nat \ {0} /\ all \in Nat
      /\ o + size <= p /\ Back(f, j) = all - o /\ Back(f, k) = all - p
    <2>1. EndOf(chunks[f][j]) <= p
        BY DEF Settled
    <2> QED
        BY <2>1, SettledChunk DEF Back, EndOf
<1> HIDE DEF o, size, p, all
<1>2. all - p < all - o
    BY <1>1
<1> QED
    BY <1>1, <1>2

\* Two chunks that begin at the same place of alike ends have the same length.
LEMMA SameStartSameChunk ==
    ASSUME NEW f \in File, NEW g \in File, Settled(f), Settled(g),
           NEW n, AlikeUpTo(data[f], data[g], n), AlikeUpTo(data[g], data[f], n),
           NEW k \in DOMAIN chunks[f], NEW l \in DOMAIN chunks[g],
           Back(f, k) = Back(g, l), Back(f, k) <= n
    PROVE  chunks[f][k].len = chunks[g][l].len
<1> DEFINE back == Back(f, k)
           size == chunks[f][k].len
           other == chunks[g][l].len
           d == data[f]
           e == data[g]
<1>1. /\ back \in 1 .. n /\ size \in 1 .. back /\ other \in 1 .. back
      /\ d \in Seq(Byte) /\ e \in Seq(Byte) /\ Len(d) \in Nat /\ Len(e) \in Nat
      /\ chunks[f][k].offset = Len(d) - back /\ EndOf(chunks[f][k]) = Len(d) - back + size
      /\ chunks[g][l].offset = Len(e) - back /\ EndOf(chunks[g][l]) = Len(e) - back + other
    <2>1. back \in 1 .. n
        <3>1. back \in 1 .. Len(d) /\ n \in Nat
            BY SettledChunk DEF AlikeUpTo
        <3> HIDE DEF back, d
        <3> QED
            BY <3>1 DEF back
    <2>2. /\ size \in 1 .. back /\ d \in Seq(Byte) /\ Len(d) \in Nat
          /\ chunks[f][k].offset = Len(d) - back /\ EndOf(chunks[f][k]) = Len(d) - back + size
        BY SettledChunk DEF Settled
    <2>3. /\ other \in 1 .. back /\ e \in Seq(Byte) /\ Len(e) \in Nat
          /\ chunks[g][l].offset = Len(e) - back /\ EndOf(chunks[g][l]) = Len(e) - back + other
        <3>1. /\ other \in 1 .. Back(g, l) /\ e \in Seq(Byte) /\ Len(e) \in Nat
              /\ chunks[g][l].offset = Len(e) - Back(g, l)
              /\ EndOf(chunks[g][l]) = Len(e) - Back(g, l) + other
            BY SettledChunk DEF Settled
        <3> QED
            BY <3>1
    <2> QED
        BY <2>1, <2>2, <2>3
<1>2. CutOnce(d, chunks[f][k]) /\ CutOnce(e, chunks[g][l])
    BY DEF Settled
<1> HIDE DEF back, size, other, d, e
<1>3. /\ CutAt(d, Len(d) - back, Len(d) - back + size)
      /\ CutAt(e, Len(e) - back, Len(e) - back + other)
    BY <1>1, <1>2 DEF CutOnce
<1>4. /\ CutAt(e, Len(e) - back, Len(e) - back + size)
      /\ CutAt(d, Len(d) - back, Len(d) - back + other)
    BY <1>1, <1>3, CutAlike DEF d, e
<1>5. ~(size < other)
    <2> SUFFICES ASSUME size < other PROVE FALSE
        OBVIOUS
    <2>1. Len(e) - back + size \in Len(e) - back + 1 .. Len(e) - back + other - 1
        BY <1>1
    <2> QED
        BY <1>1, <1>2, <1>4, <2>1 DEF CutOnce
<1>6. ~(other < size)
    <2> SUFFICES ASSUME other < size PROVE FALSE
        OBVIOUS
    <2>1. Len(d) - back + other \in Len(d) - back + 1 .. Len(d) - back + size - 1
        BY <1>1
    <2> QED
        BY <1>1, <1>2, <1>4, <2>1 DEF CutOnce
<1>7. size = other
    BY <1>1, <1>5, <1>6
<1> QED
    BY <1>7 DEF size, other

\* From the first common beginning on, every chunk of f is one of g: else there
\* would be a first that is not, and the one before it ends where g cuts too.
LEMMA ChunksMatch ==
    ASSUME NEW f \in File, NEW g \in File, Settled(f), Settled(g),
           NEW n, AlikeUpTo(data[f], data[g], n), AlikeUpTo(data[g], data[f], n),
           BeginsChunk(f, n), BeginsChunk(g, n)
    PROVE  \A k \in DOMAIN chunks[f] :
               Back(f, k) <= n => \E l \in DOMAIN chunks[g] : SameChunk(f, k, g, l)
<1> DEFINE Matched(k) == \E l \in DOMAIN chunks[g] : SameChunk(f, k, g, l)
           Bad == {k \in DOMAIN chunks[f] : Back(f, k) <= n /\ ~Matched(k)}
<1> SUFFICES ASSUME Bad # {} PROVE FALSE
    OBVIOUS
<1>1. n \in Nat \ {0} /\ Len(data[f]) \in Nat /\ Len(data[g]) \in Nat
    BY DEF AlikeUpTo, Settled
<1>2. PICK k \in Bad : \A j \in Bad : k <= j
    <2>1. Bad \in SUBSET Nat
        BY SettledChunk
    <2> HIDE DEF Bad
    <2> QED
        BY <2>1, LeastNatural
<1>3. /\ k \in DOMAIN chunks[f] /\ Back(f, k) <= n /\ ~Matched(k)
      /\ \A j \in DOMAIN chunks[f] : j < k => Back(f, j) > n \/ Matched(j)
    <2>1. k \in DOMAIN chunks[f] /\ Back(f, k) <= n /\ ~Matched(k)
        BY <1>2
    <2>2. ASSUME NEW j \in DOMAIN chunks[f], j < k
          PROVE  Back(f, j) > n \/ Matched(j)
        <3>1. j \notin Bad
            <4>1. j \in Nat /\ k \in Nat
                BY <2>1, SettledChunk
            <4> HIDE DEF Bad
            <4> QED
                BY <1>2, <2>2, <4>1
        <3>2. Back(f, j) \in Int
            BY SettledChunk
        <3> QED
            BY <1>1, <3>1, <3>2
    <2> QED
        BY <2>1, <2>2
<1>4. \A l \in DOMAIN chunks[g] : Back(g, l) # Back(f, k)
    <2> SUFFICES ASSUME NEW l \in DOMAIN chunks[g], Back(g, l) = Back(f, k) PROVE FALSE
        OBVIOUS
    <2>1. chunks[f][k].len = chunks[g][l].len
        BY <1>3, SameStartSameChunk
    <2> QED
        BY <1>3, <2>1 DEF SameChunk
<1>5. PICK j \in DOMAIN chunks[f] : Back(f, j) = n
    <2>1. PICK j \in DOMAIN chunks[f] : chunks[f][j].offset + n = Len(data[f])
        BY DEF BeginsChunk
    <2>2. chunks[f][j].offset = Len(data[f]) - Back(f, j) /\ Back(f, j) \in Int
        BY SettledChunk
    <2>3. Back(f, j) = n
        BY <1>1, <2>1, <2>2
    <2> QED
        BY <2>3
<1>6. j < k /\ j \in Nat /\ k \in Nat
    <2>1. PICK l \in DOMAIN chunks[g] : chunks[g][l].offset + n = Len(data[g])
        BY DEF BeginsChunk
    <2>2. chunks[g][l].offset = Len(data[g]) - Back(g, l) /\ Back(g, l) \in Int
        BY SettledChunk
    <2>3. Back(g, l) = n
        BY <1>1, <2>1, <2>2
    <2>4. j # k
        BY <1>4, <1>5, <2>3
    <2>5. ~(k < j)
        <3> SUFFICES ASSUME k < j PROVE FALSE
            OBVIOUS
        <3>1. Back(f, j) < Back(f, k) /\ Back(f, k) \in Int
            BY <1>3, BackFalls, SettledChunk
        <3> QED
            BY <1>1, <1>3, <1>5, <3>1
    <2>6. j \in Nat /\ k \in Nat
        BY <1>3, SettledChunk
    <2> QED
        BY <2>4, <2>5, <2>6
<1>7. /\ k - 1 \in DOMAIN chunks[f] /\ k - 1 < k /\ k - 1 \in Nat
      /\ EndOf(chunks[f][k - 1]) = chunks[f][k].offset
    <2>1. j \in 1 .. Len(chunks[f]) /\ k \in 1 .. Len(chunks[f]) /\ chunks[f] \in Seq(ChunkRecord)
        BY <1>3, SettledChunk DEF Settled
    <2>2. k # 1 /\ k - 1 \in 1 .. Len(chunks[f]) /\ k - 1 < k /\ k - 1 \in Nat
        BY <1>6, <2>1
    <2> QED
        BY <1>3, <2>1, <2>2 DEF Settled
<1>8. Matched(k - 1)
    <2>1. Back(f, k - 1) <= n
        <3>1. CASE j = k - 1
            BY <1>1, <1>5, <3>1
        <3>2. CASE j < k - 1
            <4>1. Back(f, k - 1) < n /\ Back(f, k - 1) \in Int
                BY <1>5, <1>7, <3>2, BackFalls, SettledChunk
            <4> QED
                BY <1>1, <4>1
        <3> QED
            BY <1>6, <3>1, <3>2
    <2>2. Back(f, k - 1) \in Int
        BY <1>7, SettledChunk
    <2>3. ~(Back(f, k - 1) > n)
        BY <1>1, <2>1, <2>2
    <2> HIDE DEF Matched
    <2> QED
        BY <1>3, <1>7, <2>3
<1>9. PICK l \in DOMAIN chunks[g] : SameChunk(f, k - 1, g, l)
    BY <1>8
<1>10. Len(data[g]) - EndOf(chunks[g][l]) = Back(f, k)
    <2>1. /\ Back(f, k - 1) = Back(g, l) /\ chunks[f][k - 1].len = chunks[g][l].len
        BY <1>9 DEF SameChunk
    <2>2. Back(f, k) = Len(data[f]) - EndOf(chunks[f][k - 1])
        BY <1>7 DEF Back
    <2>3. /\ EndOf(chunks[f][k - 1]) = Len(data[f]) - Back(f, k - 1) + chunks[f][k - 1].len
          /\ Back(f, k - 1) \in Nat /\ chunks[f][k - 1].len \in Nat
        <3>1. \A m \in DOMAIN chunks[f] :
                  /\ EndOf(chunks[f][m]) = Len(data[f]) - Back(f, m) + chunks[f][m].len
                  /\ Back(f, m) \in 1 .. Len(data[f])
                  /\ chunks[f][m].len \in Nat \ {0}
            BY SettledChunk
        <3> QED
            BY <1>7, <3>1
    <2>4. EndOf(chunks[g][l]) = Len(data[g]) - Back(g, l) + chunks[g][l].len
        BY SettledChunk
    <2>5. Back(f, k) = Back(f, k - 1) - chunks[f][k - 1].len
        BY <1>1, <2>2, <2>3
    <2>6. EndOf(chunks[g][l]) = Len(data[g]) - Back(f, k - 1) + chunks[f][k - 1].len
        BY <2>1, <2>4
    <2> QED
        BY <1>1, <2>3, <2>5, <2>6
<1>11. l + 1 \in DOMAIN chunks[g] /\ chunks[g][l + 1].offset = EndOf(chunks[g][l])
    <2>1. /\ chunks[g] \in Seq(ChunkRecord) /\ l \in 1 .. Len(chunks[g]) /\ chunks[g] # <<>>
        BY SettledChunk DEF Settled
    <2>2. l # Len(chunks[g])
        <3> SUFFICES ASSUME l = Len(chunks[g]) PROVE FALSE
            OBVIOUS
        <3>1. EndOf(chunks[g][l]) = Len(data[g])
            BY <2>1 DEF Settled
        <3>2. Back(f, k) = 0
            BY <1>1, <1>10, <3>1
        <3> QED
            BY <1>3, <3>2, SettledChunk
    <2>3. l + 1 \in DOMAIN chunks[g] /\ l + 1 # 1 /\ l + 1 - 1 = l
        BY <2>1, <2>2
    <2> QED
        BY <2>3 DEF Settled
<1>12. Back(g, l + 1) = Back(f, k)
    BY <1>10, <1>11 DEF Back
<1> QED
    BY <1>4, <1>11, <1>12

------------------------------------------------------------------------------
LEMMA EndsAlike ==
    ASSUME NEW f \in File, NEW g \in File, Settled(f), Settled(g),
           NEW n \in 1 .. Len(data[f]), n <= Len(data[g]), LastBytes(f, n) = LastBytes(g, n)
    PROVE  AlikeUpTo(data[f], data[g], n) /\ AlikeUpTo(data[g], data[f], n)
<1> DEFINE d == data[f]
           e == data[g]
<1>1. /\ d \in Seq(Byte) /\ e \in Seq(Byte) /\ Len(d) \in Nat /\ Len(e) \in Nat
      /\ n \in 1 .. Len(d) /\ n <= Len(e)
      /\ SubSeq(d, Len(d) - n + 1, Len(d)) = SubSeq(e, Len(e) - n + 1, Len(e))
    <2>1. d \in Seq(Byte) /\ e \in Seq(Byte)
        BY DEF Settled
    <2>2. SubSeq(d, Len(d) - n + 1, Len(d)) = SubSeq(e, Len(e) - n + 1, Len(e))
        BY DEF LastBytes
    <2>3. n \in 1 .. Len(d) /\ n <= Len(e)
        OBVIOUS
    <2> HIDE DEF d, e
    <2> QED
        BY <2>1, <2>2, <2>3
<1> HIDE DEF d, e
<1>2. /\ Len(d) - n \in Nat /\ Len(d) - n + n = Len(d)
      /\ Len(e) - n \in Nat /\ Len(e) - n + n = Len(e) /\ n \in Nat
    BY <1>1
<1>3. /\ SubSeq(d, Len(d) - n + 1, Len(d) - n + n) = [x \in 1 .. n |-> d[Len(d) - n + x]]
      /\ SubSeq(e, Len(e) - n + 1, Len(e) - n + n) = [x \in 1 .. n |-> e[Len(e) - n + x]]
    BY <1>1, <1>2, SliceIs
<1>4. [x \in 1 .. n |-> d[Len(d) - n + x]] = [x \in 1 .. n |-> e[Len(e) - n + x]]
    BY <1>1, <1>2, <1>3
<1>5. \A x \in 1 .. n : d[Len(d) - n + x] = e[Len(e) - n + x]
    BY <1>4
<1>6. ASSUME NEW x \in 0 .. n - 1
      PROVE  d[Len(d) - x] = e[Len(e) - x]
    <2>1. /\ n - x \in 1 .. n /\ Len(d) - n + (n - x) = Len(d) - x
          /\ Len(e) - n + (n - x) = Len(e) - x
        BY <1>2
    <2> QED
        BY <1>5, <2>1
<1>7. n \in 1 .. Len(e)
    BY <1>1
<1>8. AlikeUpTo(d, e, n) /\ AlikeUpTo(e, d, n)
    BY <1>1, <1>6, <1>7 DEF AlikeUpTo
<1> QED
    BY <1>8 DEF d, e

\* What HashesOfLast collects is where the chunks begin and what they are.
LEMMA HashesIncluded ==
    ASSUME NEW f \in File, NEW g \in File, Settled(f), Settled(g),
           NEW n, AlikeUpTo(data[f], data[g], n), AlikeUpTo(data[g], data[f], n),
           BeginsChunk(f, n), BeginsChunk(g, n)
    PROVE  HashesOfLast(f, n) \subseteq HashesOfLast(g, n)
<1>1. n \in Nat \ {0} /\ Len(data[f]) \in Nat /\ Len(data[g]) \in Nat
    BY DEF AlikeUpTo, Settled
<1>2. SUFFICES ASSUME NEW k \in DOMAIN chunks[f], chunks[f][k].offset + n >= Len(data[f])
      PROVE  <<Len(data[f]) - chunks[f][k].offset, chunks[f][k].hash>> \in HashesOfLast(g, n)
    BY DEF HashesOfLast
<1>3. Back(f, k) <= n /\ Back(f, k) \in 1 .. n
    <2>1. Back(f, k) \in 1 .. Len(data[f]) /\ chunks[f][k].offset = Len(data[f]) - Back(f, k)
        BY SettledChunk
    <2> QED
        BY <1>1, <1>2, <2>1
<1>4. PICK l \in DOMAIN chunks[g] : SameChunk(f, k, g, l)
    BY <1>3, ChunksMatch
<1>5. Back(g, l) = Back(f, k) /\ chunks[g][l].len = chunks[f][k].len
    BY <1>4 DEF SameChunk
<1>6. chunks[g][l].offset + n >= Len(data[g])
    <2>1. chunks[g][l].offset = Len(data[g]) - Back(f, k)
        <3>1. chunks[g][l].offset = Len(data[g]) - Back(g, l)
            BY SettledChunk
        <3> QED
            BY <1>5, <3>1
    <2> QED
        BY <1>1, <1>3, <2>1
<1>7. chunks[g][l].hash = chunks[f][k].hash
    <2> DEFINE back == Back(f, k)
               size == chunks[f][k].len
    <2>1. /\ chunks[f][k].offset = Len(data[f]) - back
          /\ EndOf(chunks[f][k]) = Len(data[f]) - back + size
          /\ size \in 1 .. back
        BY SettledChunk
    <2>2. /\ chunks[g][l].offset = Len(data[g]) - back
          /\ EndOf(chunks[g][l]) = Len(data[g]) - back + size
        <3>1. /\ chunks[g][l].offset = Len(data[g]) - Back(g, l)
              /\ EndOf(chunks[g][l]) = Len(data[g]) - Back(g, l) + chunks[g][l].len
            BY SettledChunk
        <3> QED
            BY <1>5, <3>1
    <2>3. /\ chunks[f][k].hash = SubSeq(data[f], chunks[f][k].offset + 1, EndOf(chunks[f][k]))
          /\ chunks[g][l].hash = SubSeq(data[g], chunks[g][l].offset + 1, EndOf(chunks[g][l]))
          /\ data[f] \in Seq(Byte) /\ data[g] \in Seq(Byte)
        BY DEF Settled
    <2>4. back \in 1 .. n
        BY <1>3
    <2> HIDE DEF back, size
    <2>5. SubSeq(data[f], Len(data[f]) - back + 1, Len(data[f]) - back + size)
              = SubSeq(data[g], Len(data[g]) - back + 1, Len(data[g]) - back + size)
        BY <2>1, <2>3, <2>4, SliceAlike
    <2> QED
        BY <2>1, <2>2, <2>3, <2>5
<1>8. Len(data[g]) - chunks[g][l].offset = Len(data[f]) - chunks[f][k].offset
    BY <1>5 DEF Back
<1> QED
    BY <1>6, <1>7, <1>8 DEF HashesOfLast

\* For every two files, tables, masks and bounds: from the first place of their
\* common end where both begin a chunk, they are cut into the same chunks.
THEOREM CutsAgree == Spec => []CutsResynchronize
<1> DEFINE Remembers(f) == CutsRemembered(f) /\ ChunksInOrder(f)
           Inv == \A f \in File : Remembers(f)
<1>1. Init => Inv
    <2> SUFFICES ASSUME Init, NEW f \in File PROVE Remembers(f)
        OBVIOUS
    <2>1. DOMAIN chunks[f] = {} /\ start[f] + 1 .. i[f] = {}
        BY DEF Init
    <2> QED
        BY <2>1 DEF CutsRemembered, ChunksInOrder
<1>2. TypeOK /\ HashIsOfWindow' /\ Inv /\ [Next]_vars => Inv'
    <2> SUFFICES ASSUME TypeOK, HashIsOfWindow', Inv, [Next]_vars, NEW g \in File
                 PROVE  Remembers(g)'
        OBVIOUS
    <2>1. ASSUME i'[g] = i[g], start'[g] = start[g], chunks'[g] = chunks[g], data' = data
          PROVE  Remembers(g)'
        BY <2>1 DEF CutsRemembered, ChunksInOrder
    <2>2. CASE UNCHANGED vars
        BY <2>1, <2>2 DEF vars
    <2>3. CASE Next
        <3>1. PICK f \in File : ScanByte(f)
            BY <2>3 DEF Next
        <3>2. CASE f = g
            BY <3>1, <3>2, CutsStep
        <3>3. CASE f # g
            BY <2>1, <3>1, <3>3, ScanByteLocal
        <3> QED
            BY <3>2, <3>3
    <2> QED
        BY <2>2, <2>3
<1>3. TypeOK /\ ChunksTileTheFile /\ Inv => CutsResynchronize
    <2> SUFFICES ASSUME TypeOK, ChunksTileTheFile, Inv,
                        NEW f \in File, NEW g \in File, Chunked(f), Chunked(g),
                        NEW n \in 1 .. Len(data[f]),
                        BeginsChunk(f, n), BeginsChunk(g, n), LastBytes(f, n) = LastBytes(g, n)
                 PROVE  HashesOfLast(f, n) = HashesOfLast(g, n)
        BY DEF CutsResynchronize
    <2>1. ASSUME NEW h \in File, Chunked(h)
          PROVE  Settled(h)
        <3>1. /\ data[h] \in Seq(Byte) /\ chunks[h] \in Seq(ChunkRecord)
              /\ start[h] = Len(data[h])
            BY <2>1 DEF TypeOK, ChunksTileTheFile, Chunked
        <3>2. \A k \in DOMAIN chunks[h] :
                  /\ chunks[h][k].offset = IF k = 1 THEN 0 ELSE EndOf(chunks[h][k - 1])
                  /\ chunks[h][k].hash
                         = SubSeq(data[h], chunks[h][k].offset + 1, EndOf(chunks[h][k]))
            BY DEF ChunksTileTheFile
        <3>3. chunks[h] # <<>> => EndOf(chunks[h][Len(chunks[h])]) = Len(data[h])
            BY <3>1 DEF ChunksTileTheFile
        <3>4. /\ \A k \in DOMAIN chunks[h] : CutOnce(data[h], chunks[h][k])
              /\ \A k \in DOMAIN chunks[h] : EndOf(chunks[h][k]) <= Len(data[h])
              /\ \A k, l \in DOMAIN chunks[h] :
                     k < l => EndOf(chunks[h][k]) <= chunks[h][l].offset
            BY <3>1 DEF CutsRemembered, ChunksInOrder
        <3> QED
            BY <2>1, <3>1, <3>2, <3>3, <3>4 DEF Settled
    <2>2. Settled(f) /\ Settled(g)
        BY <2>1
    <2>3. n <= Len(data[g])
        <3>1. PICK l \in DOMAIN chunks[g] : chunks[g][l].offset + n = Len(data[g])
            BY DEF BeginsChunk
        <3>2. chunks[g][l].offset \in Nat /\ Len(data[g]) \in Nat
            BY <2>2, SettledChunk
        <3> QED
            BY <3>1, <3>2
    <2>4. AlikeUpTo(data[f], data[g], n) /\ AlikeUpTo(data[g], data[f], n)
        BY <2>2, <2>3, EndsAlike
    <2>5. HashesOfLast(f, n) \subseteq HashesOfLast(g, n)
        BY <2>2, <2>4, HashesIncluded
    <2>6. HashesOfLast(g, n) \subseteq HashesOfLast(f, n)
        BY <2>2, <2>4, HashesIncluded
    <2> QED
        BY <2>5, <2>6
<1> HIDE DEF Inv
<1> QED
    BY <1>1, <1>2, <1>3, ChunkerTyped, ChunksTile, HashHolds, PTL DEF Spec
==============================================================================
