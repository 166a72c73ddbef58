-------------------------- MODULE VaultAgentProofs --------------------------
(* Types and safety of VaultAgent, for any number of agents, files and  *)
(* failures, and any topology of peers.                                      *)
EXTENDS VaultAgent, OperatorLemmas

------------------------------------------------------------------------------
(* Types.                                                                     *)

Directories == UNION {[D -> Content] : D \in SUBSET Path}

Messages == [stage : Stages \ {"idle"}, peer : Agent, body : Manifests,
             left : SUBSET Path, hashes : SUBSET Hash, alive : BOOLEAN]

Exchanges == {Idle} \cup {x \in Messages : x.left \subseteq DOMAIN x.body}

Hands == {NoFile} \cup {f \in [path : Path, content : Content, stored : Nat] :
                            f.stored <= Len(f.content)}

\* The variables by the part of the agent they belong to, over sets of
\* functions, which is easier on the provers than TypeOK.
FilesTyped ==
    /\ disk \in [Agent -> Directories]
    /\ dirty \in [Agent -> SUBSET Path]
    /\ edits \in [Agent -> Nat]
    /\ \A a \in Agent : edits[a] <= MaxEdits[a]

StoresTyped ==
    /\ chunks \in [Agent -> SUBSET Hash]
    /\ torn \in [Agent -> SUBSET Hash]
    /\ \A a \in Agent : torn[a] \subseteq chunks[a]
    /\ manifest \in [Agent -> Manifests]
    /\ known \in [Agent -> Manifests]
    /\ clock \in [Agent -> Hlc]
    /\ now \in Nat

\* A main thread that waits for an answer is not through with its peers, one
\* that materializes has an entry for each path it has yet to visit, and one that
\* stores chunks has a file in hand.
LoopTyped ==
    /\ pc \in [Agent -> LoopPlaces]
    /\ todo \in [Agent -> SUBSET Path]
    /\ listed \in [Agent -> SUBSET Path]
    /\ dialed \in [Agent -> Nat]
    /\ work \in [Agent -> Manifests]
    /\ hand \in [Agent -> Hands]
    /\ \A a \in Agent :
           /\ dialed[a] <= Len(Peers[a])
           /\ Waiting(a) => dialed[a] < Len(Peers[a])
           /\ pc[a] = "materialize" => todo[a] \subseteq DOMAIN work[a]
           /\ pc[a] = "store" => hand[a].path \in Path

\* The stages in which the client acts next or will.
AwaitedStages == {"reply", "merging", "ask", "chunks", "broken"}

ConnTyped ==
    /\ conn \in [Agent -> Exchanges]
    /\ late \in [Agent -> Exchanges]
    /\ \A c \in Agent : conn[c].stage \in AwaitedStages => Waiting(c)

BoundsTyped ==
    /\ saved \in [Agent -> Manifests]
    /\ harmed \subseteq Agent
    /\ fails \in 0 .. MaxFail
    /\ restarts \in 0 .. MaxRestart

Typed == FilesTyped /\ StoresTyped /\ LoopTyped /\ ConnTyped /\ BoundsTyped

------------------------------------------------------------------------------
LEMMA DirectoriesUse ==
    ASSUME NEW f \in Directories
    PROVE  /\ DOMAIN f \subseteq Path
           /\ \A p \in DOMAIN f : f[p] \in Content
           /\ f = [p \in DOMAIN f |-> f[p]]
<1>1. PICK D \in SUBSET Path : f \in [D -> Content]
    BY DEF Directories
<1> QED
    BY <1>1

LEMMA EmptyDirectoryType == EmptyManifest \in Directories
<1>1. EmptyManifest \in [{} -> Content]
    BY DEF EmptyManifest
<1> QED
    BY <1>1 DEF Directories

LEMMA InsertFileType ==
    ASSUME NEW f \in Directories, NEW p \in Path, NEW c \in Content
    PROVE  /\ Insert(f, p, c) \in Directories
           /\ \A q : q \in DOMAIN Insert(f, p, c) <=> q \in DOMAIN f \/ q = p
           /\ Insert(f, p, c)[p] = c
           /\ \A q \in DOMAIN f : q # p => Insert(f, p, c)[q] = f[q]
<1> DEFINE D == DOMAIN f \cup {p}
<1>1. DOMAIN f \subseteq Path /\ \A q \in DOMAIN f : f[q] \in Content
    BY DirectoriesUse
<1>2. Insert(f, p, c) \in [D -> Content] /\ D \in SUBSET Path
    BY <1>1 DEF Insert
<1>3. Insert(f, p, c) \in Directories
    BY <1>2 DEF Directories
<1> QED
    BY <1>3 DEF Insert

LEMMA WithoutType ==
    ASSUME NEW f \in Directories, NEW p
    PROVE  /\ Without(f, p) \in Directories
           /\ \A q : q \in DOMAIN Without(f, p) <=> q \in DOMAIN f /\ q # p
           /\ \A q \in DOMAIN f : q # p => Without(f, p)[q] = f[q]
<1> DEFINE D == DOMAIN f \ {p}
<1>1. DOMAIN f \subseteq Path /\ \A q \in DOMAIN f : f[q] \in Content
    BY DirectoriesUse
<1>2. Without(f, p) \in [D -> Content] /\ D \in SUBSET Path
    BY <1>1 DEF Without
<1>3. Without(f, p) \in Directories
    BY <1>2 DEF Directories
<1> QED
    BY <1>3 DEF Without

LEMMA HashesType ==
    ASSUME NEW c \in Content
    PROVE  Hashes(c) \in SUBSET Hash
BY DEF Hash

LEMMA ExchangeType ==
    ASSUME NEW stage \in Stages \ {"idle"}, NEW peer \in Agent, NEW body \in Manifests,
           NEW left \in SUBSET Path, left \subseteq DOMAIN body,
           NEW hashes \in SUBSET Hash
    PROVE  /\ Exchange(stage, peer, body, left, hashes) \in Exchanges
           /\ Exchange(stage, peer, body, left, hashes).stage = stage
BY DEF Exchange, Exchanges, Messages

LEMMA ExchangeUse ==
    ASSUME NEW x \in Exchanges, x.stage # "idle"
    PROVE  x \in Messages /\ x.left \subseteq DOMAIN x.body
BY DEF Exchanges, Idle

LEMMA HandsUse ==
    ASSUME NEW f \in Hands
    PROVE  /\ f = InHand(f.path, f.content, f.stored)
           /\ f.content \in Content /\ f.stored \in 0 .. Len(f.content)
           /\ f.path \in Path => f \in [path : Path, content : Content, stored : Nat]
           /\ f # NoFile => f.path \in Path
<1>1. \A c \in Content : Len(c) \in Nat
    BY SequencesAssumption
<1>2. NoFile = InHand(<<>>, <<>>, 0) /\ Len(<<>>) = 0
    BY DEF NoFile
<1>3. CASE f = NoFile
    <2>1. f.path = <<>> /\ <<>> \notin Path
        BY <1>2, <1>3 DEF InHand, Path
    <2> QED
        BY <1>2, <1>3, <2>1, ContentAssumption DEF InHand
<1>4. CASE f # NoFile
    BY <1>1, <1>4 DEF Hands, InHand
<1> QED
    BY <1>3, <1>4

\* The next chunk of the file in hand.
LEMMA NextChunkType ==
    ASSUME NEW f \in Hands, f.stored < Len(f.content)
    PROVE  /\ f.content[f.stored + 1] \in Hash
           /\ f.content[f.stored + 1] \in Hashes(f.content)
           /\ f.path \in Path => [f EXCEPT !.stored = @ + 1] \in Hands
<1>1. f.content \in Content /\ f.content \in Seq(Hash) /\ f.stored \in Nat
    BY HandsUse, SequencesAssumption
<1>2. f.stored + 1 \in DOMAIN f.content /\ f.stored + 1 <= Len(f.content)
    BY <1>1
<1>3. f.path \in Path => f \in [path : Path, content : Content, stored : Nat]
    BY HandsUse
<1> QED
    BY <1>1, <1>2, <1>3 DEF Hashes, Hands

LEMMA NoFileType == NoFile \in Hands
BY DEF Hands

LEMMA IdleType == Idle \in Exchanges /\ Idle.stage = "idle"
BY DEF Exchanges, Idle

LEMMA TypedTypeOK == Typed => TypeOK
<1> SUFFICES ASSUME Typed
             PROVE  TypeOK
    OBVIOUS
<1>1. DOMAIN disk = Agent /\ \A a \in Agent : IsDirectory(disk[a])
    <2>1. \A a \in Agent : disk[a] \in Directories
        BY DEF Typed, FilesTyped
    <2> QED
        BY <2>1, DirectoriesUse DEF Typed, FilesTyped, IsDirectory
<1>2. \A holder \in {manifest, saved, known, work} :
          DOMAIN holder = Agent /\ \A a \in Agent : IsManifest(holder[a])
    <2>1. \A a \in Agent : /\ manifest[a] \in Manifests /\ saved[a] \in Manifests
                           /\ known[a] \in Manifests /\ work[a] \in Manifests
        BY DEF Typed, StoresTyped, BoundsTyped, LoopTyped
    <2>2. \A a \in Agent : /\ IsManifest(manifest[a]) /\ IsManifest(saved[a])
                           /\ IsManifest(known[a]) /\ IsManifest(work[a])
        BY <2>1, ManifestsType
    <2>3. /\ DOMAIN manifest = Agent /\ DOMAIN saved = Agent
          /\ DOMAIN known = Agent /\ DOMAIN work = Agent
        BY DEF Typed, StoresTyped, BoundsTyped, LoopTyped
    <2> QED
        BY <2>2, <2>3
<1>3. \A net \in {conn, late} : DOMAIN net = Agent /\ \A a \in Agent : IsExchange(net[a])
    <2>1. DOMAIN conn = Agent /\ DOMAIN late = Agent
        BY DEF Typed, ConnTyped
    <2>2. ASSUME NEW x \in Exchanges
          PROVE  IsExchange(x)
        <3>1. CASE x.stage = "idle"
            BY <3>1 DEF IsExchange, Stages
        <3>2. CASE x.stage # "idle"
            <4>1. x \in Messages /\ x.left \subseteq DOMAIN x.body
                BY <3>2, ExchangeUse
            <4>2. IsManifest(x.body)
                BY <4>1, ManifestsType DEF Messages
            <4> QED
                BY <4>1, <4>2 DEF IsExchange, Messages, Exchange, Stages
        <3> QED
            BY <3>1, <3>2
    <2>3. \A c \in Agent : conn[c] \in Exchanges /\ late[c] \in Exchanges
        BY DEF Typed, ConnTyped
    <2> QED
        BY <2>1, <2>2, <2>3
<1>4. DOMAIN hand = Agent /\ \A a \in Agent : IsInHand(hand[a])
    <2>1. \A a \in Agent : hand[a] \in Hands
        BY DEF Typed, LoopTyped
    <2> QED
        BY <2>1, HandsUse DEF Typed, LoopTyped, IsInHand
<1>5. DOMAIN torn = Agent /\ \A a \in Agent : torn[a] \subseteq chunks[a]
    BY DEF Typed, StoresTyped
<1> QED
    BY <1>1, <1>2, <1>3, <1>4, <1>5
    DEF Typed, FilesTyped, StoresTyped, LoopTyped, BoundsTyped, TypeOK

LEMMA InitTyped == Init => Typed
<1> SUFFICES ASSUME Init
             PROVE  Typed
    OBVIOUS
<1>1. FilesTyped
    BY EmptyDirectoryType, AgentAssumption DEF Init, FilesTyped
<1>2. StoresTyped
    BY EmptyManifestType, ZeroType DEF Init, StoresTyped
<1>3. LoopTyped
    BY EmptyManifestType, NoFileType, AgentAssumption DEF Init, LoopTyped, LoopPlaces, Waiting
<1>4. ConnTyped
    BY IdleType DEF Init, ConnTyped, AwaitedStages
<1>5. BoundsTyped
    BY EmptyManifestType, AgentAssumption DEF Init, BoundsTyped
<1> QED
    BY <1>1, <1>2, <1>3, <1>4, <1>5 DEF Typed

\* A part none of whose variables a step changes stays typed.
LEMMA FilesKept == FilesTyped /\ UNCHANGED userVars => FilesTyped'
BY DEF FilesTyped, userVars

LEMMA StoresKept == StoresTyped /\ UNCHANGED storeVars => StoresTyped'
BY DEF StoresTyped, storeVars

LEMMA LoopKept == LoopTyped /\ UNCHANGED loopVars => LoopTyped'
BY DEF LoopTyped, loopVars, Waiting

LEMMA ConnKept == ConnTyped /\ UNCHANGED <<connVars, pc>> => ConnTyped'
BY DEF ConnTyped, Waiting, connVars

LEMMA BoundsKept == BoundsTyped /\ UNCHANGED <<saved, boundVars>> => BoundsTyped'
BY DEF BoundsTyped, boundVars

\* A main thread that waits for no answer goes elsewhere.
LEMMA ConnKeptByGoto ==
    ASSUME LoopTyped, ConnTyped, NEW a \in Agent, NEW place,
           ~Waiting(a), Goto(a, place), UNCHANGED connVars
    PROVE  ConnTyped'
<1>1. \A c \in Agent : Waiting(c) => Waiting(c)'
    BY DEF Waiting, Goto, LoopTyped
<1> QED
    BY <1>1 DEF ConnTyped, connVars

LEMMA GotoTyped ==
    ASSUME LoopTyped, NEW a \in Agent,
           NEW place \in LoopPlaces \ {"exchange", "materialize"}, Goto(a, place),
           todo' \in [Agent -> SUBSET Path], listed' \in [Agent -> SUBSET Path],
           \A b \in Agent \ {a} : todo'[b] = todo[b],
           NEW f \in Hands, hand' = [hand EXCEPT ![a] = f],
           place = "store" => f.path \in Path,
           UNCHANGED <<dialed, work>>
    PROVE  LoopTyped'
<1>1. pc' \in [Agent -> LoopPlaces]
    BY DEF LoopTyped, Goto
<1>2. ASSUME NEW b \in Agent
      PROVE  /\ Waiting(b)' => dialed'[b] < Len(Peers[b])
             /\ pc'[b] = "materialize" => todo'[b] \subseteq DOMAIN work'[b]
             /\ pc'[b] = "store" => hand'[b].path \in Path
    <2>1. CASE b = a
        BY <2>1 DEF LoopTyped, Goto, Waiting
    <2>2. CASE b # a
        BY <2>2 DEF LoopTyped, Goto, Waiting
    <2> QED
        BY <2>1, <2>2
<1>3. hand' \in [Agent -> Hands]
    BY DEF LoopTyped
<1> QED
    BY <1>1, <1>2, <1>3 DEF LoopTyped

LEMMA HandKept ==
    ASSUME LoopTyped, NEW a \in Agent, UNCHANGED hand
    PROVE  hand[a] \in Hands /\ hand' = [hand EXCEPT ![a] = hand[a]]
BY DEF LoopTyped

\* A path is visited.
LEMMA VisitedTyped ==
    ASSUME LoopTyped, NEW a \in Agent, NEW p, Visited(a, p),
           UNCHANGED <<pc, listed, dialed, work, hand>>
    PROVE  LoopTyped'
BY DEF LoopTyped, Visited, Waiting

LEMMA AuthorEntryTyped ==
    ASSUME StoresTyped, NEW a \in Agent, NEW p \in Path, NEW c \in Content,
           NEW deleted \in BOOLEAN, AuthorEntry(a, p, c, deleted)
    PROVE  /\ manifest' \in [Agent -> Manifests]
           /\ known' \in [Agent -> Manifests]
           /\ clock' \in [Agent -> Hlc]
           /\ now' \in Nat
           /\ Authored(a, c, deleted, clock'[a]) \in Entry
<1>1. PICK gap \in Gap : /\ now' = now + gap
                         /\ clock' = [clock EXCEPT ![a] = Tick(@, now' + Offset[a])]
    BY DEF AuthorEntry
<1>2. now' \in Nat /\ now' + Offset[a] \in Nat
    <2>1. now \in Nat /\ gap \in Nat /\ Offset[a] \in Nat
        BY AgentAssumption DEF StoresTyped
    <2> QED
        BY <1>1, <2>1
<1>3. Tick(clock[a], now' + Offset[a]) \in Hlc
    BY <1>2, TickType DEF StoresTyped
<1>4. clock' \in [Agent -> Hlc]
    BY <1>1, <1>3 DEF StoresTyped
<1> DEFINE entry == Authored(a, c, deleted, clock'[a])
<1>5. entry \in Entry
    BY <1>4 DEF Authored, Entry, Agent
<1>6. Apply(manifest[a], p, entry) \in Manifests
    BY <1>5, ApplyType DEF StoresTyped
<1>7. Insert(known[a], p, entry) \in Manifests
    BY <1>5, InsertType DEF StoresTyped
<1>8. /\ manifest' = [manifest EXCEPT ![a] = Apply(@, p, entry)]
      /\ known' = [known EXCEPT ![a] = Insert(@, p, entry)]
    BY DEF AuthorEntry
<1>9. manifest' \in [Agent -> Manifests] /\ known' \in [Agent -> Manifests]
    BY <1>6, <1>7, <1>8 DEF StoresTyped
<1> QED
    BY <1>2, <1>4, <1>5, <1>9

------------------------------------------------------------------------------
\* One lemma for each group of actions.

LEMMA UserTyped ==
    ASSUME Typed, NEW a \in Agent, UserStep(a)
    PROVE  Typed'
<1>1. PICK p \in UserPath : UserDelete(a, p) \/ \E c \in Content : UserWrite(a, p, c)
    BY DEF UserStep
<1>2. p \in Path /\ disk[a] \in Directories
    BY AgentAssumption DEF Typed, FilesTyped
<1>3. PICK files \in Directories : UserChanges(a, p, files)
    <2>1. CASE UserDelete(a, p)
        BY <2>1, <1>2, WithoutType DEF UserDelete
    <2>2. ASSUME NEW c \in Content, UserWrite(a, p, c)
          PROVE  \E files \in Directories : UserChanges(a, p, files)
        BY <2>2, <1>2, InsertFileType DEF UserWrite
    <2> QED
        BY <1>1, <2>1, <2>2
<1>4. FilesTyped'
    <2>1. edits' \in [Agent -> Nat] /\ \A b \in Agent : edits'[b] <= MaxEdits[b]
        <3>1. /\ edits[a] < MaxEdits[a] /\ edits' = [edits EXCEPT ![a] = @ + 1]
              /\ edits \in [Agent -> Nat] /\ MaxEdits[a] \in Nat
              /\ \A b \in Agent : edits[b] <= MaxEdits[b]
            BY <1>3, AgentAssumption DEF UserChanges, Typed, FilesTyped
        <3>2. edits'[a] \in Nat /\ edits'[a] <= MaxEdits[a]
            BY <3>1
        <3> QED
            BY <3>1, <3>2
    <2> QED
        BY <1>2, <1>3, <2>1 DEF UserChanges, Typed, FilesTyped
<1>5. UNCHANGED <<storeVars, saved, loopVars, connVars, boundVars>>
    BY <1>3 DEF UserChanges
<1> QED
    BY <1>4, <1>5, StoresKept, LoopKept, ConnKept, BoundsKept DEF Typed, loopVars

LEMMA ScanTyped ==
    ASSUME Typed, NEW a \in Agent,
           \/ ListFiles(a) \/ ReadFile(a) \/ WriteChunk(a) \/ TakeIn(a)
           \/ ScanTomb(a) \/ ScanDone(a)
    PROVE  Typed'
<1> USE DEF Typed
<1>0. hand[a] \in Hands
    BY DEF LoopTyped
<1>1. CASE ListFiles(a)
    <2>1. DOMAIN disk[a] \in SUBSET Path
        BY DirectoriesUse DEF FilesTyped
    <2>2. /\ todo' \in [Agent -> SUBSET Path] /\ listed' \in [Agent -> SUBSET Path]
          /\ \A b \in Agent \ {a} : todo'[b] = todo[b]
        BY <1>1, <2>1 DEF ListFiles, LoopTyped
    <2>3. LoopTyped'
        BY <1>1, <2>2, HandKept, GotoTyped DEF ListFiles, LoopPlaces
    <2>4. ConnTyped'
        BY <1>1, ConnKeptByGoto DEF ListFiles, Waiting
    <2> QED
        BY <1>1, <2>3, <2>4, FilesKept, StoresKept, BoundsKept DEF ListFiles
<1>2. CASE ReadFile(a)
    <2>1. PICK p \in todo[a] \cap DOMAIN disk[a] :
              hand' = [hand EXCEPT ![a] = InHand(p, disk[a][p], 0)]
        BY <1>2 DEF ReadFile
    <2>2. p \in Path /\ disk[a][p] \in Content /\ Len(disk[a][p]) \in Nat
        BY DirectoriesUse, SequencesAssumption DEF FilesTyped
    <2>3. InHand(p, disk[a][p], 0) \in Hands /\ InHand(p, disk[a][p], 0).path = p
        BY <2>2 DEF Hands, InHand
    <2>4. LoopTyped'
        <3> DEFINE f == InHand(p, disk[a][p], 0)
        <3>1. /\ Goto(a, "store") /\ UNCHANGED <<todo, listed, dialed, work>>
              /\ todo \in [Agent -> SUBSET Path] /\ listed \in [Agent -> SUBSET Path]
              /\ "store" \in LoopPlaces \ {"exchange", "materialize"}
            BY <1>2 DEF ReadFile, LoopPlaces, LoopTyped
        <3>2. f \in Hands /\ f.path \in Path /\ hand' = [hand EXCEPT ![a] = f]
            BY <2>1, <2>2, <2>3
        <3> HIDE DEF f
        <3> QED
            BY <3>1, <3>2, GotoTyped
    <2>5. ConnTyped'
        BY <1>2, ConnKeptByGoto DEF ReadFile, Waiting
    <2> QED
        BY <1>2, <2>4, <2>5, FilesKept, StoresKept, BoundsKept DEF ReadFile
<1>3. CASE WriteChunk(a)
    <2> DEFINE h == hand[a].content[hand[a].stored + 1]
    <2>1. /\ pc[a] = "store" /\ hand[a].stored < Len(hand[a].content)
          /\ chunks' = [chunks EXCEPT ![a] = @ \cup {h}]
          /\ hand' = [hand EXCEPT ![a].stored = @ + 1]
          /\ UNCHANGED <<userVars, torn, manifest, known, clock, now, saved, pc, todo, listed,
                         dialed, work, connVars, boundVars>>
        BY <1>3 DEF WriteChunk
    <2>2. h \in Hash /\ hand[a].path \in Path /\ [hand[a] EXCEPT !.stored = @ + 1] \in Hands
        BY <1>0, <2>1, NextChunkType DEF LoopTyped
    <2>3. StoresTyped'
        BY <2>1, <2>2 DEF StoresTyped
    <2>4. /\ hand' \in [Agent -> Hands]
          /\ \A b \in Agent : pc[b] = "store" => hand'[b].path \in Path
        <3>1. hand' = [hand EXCEPT ![a] = [hand[a] EXCEPT !.stored = @ + 1]]
            BY <2>1 DEF LoopTyped
        <3>2. [hand[a] EXCEPT !.stored = @ + 1].path = hand[a].path
            BY <1>0, <2>2, HandsUse
        <3> QED
            BY <2>2, <3>1, <3>2 DEF LoopTyped
    <2>5. LoopTyped'
        BY <2>1, <2>4 DEF LoopTyped, Waiting
    <2> QED
        BY <2>1, <2>3, <2>5, FilesKept, ConnKept, BoundsKept
<1>4. CASE TakeIn(a)
    <2> DEFINE p == hand[a].path
               content == hand[a].content
    <2>1. p \in Path /\ content \in Content
        BY <1>0, <1>4, HandsUse DEF TakeIn, LoopTyped
    <2>2. /\ \/ UNCHANGED <<manifest, known, clock, now>>
             \/ AuthorEntry(a, p, content, FALSE)
          /\ UNCHANGED <<chunks, torn>>
        BY <1>4 DEF TakeIn
    <2>3. StoresTyped'
        <3>1. CASE UNCHANGED <<manifest, known, clock, now>>
            BY <2>2, <3>1 DEF StoresTyped
        <3>2. CASE AuthorEntry(a, p, content, FALSE)
            BY <2>1, <2>2, <3>2, AuthorEntryTyped DEF StoresTyped
        <3> QED
            BY <2>2, <3>1, <3>2
    <2>4. FilesTyped'
        BY <1>4 DEF TakeIn, FilesTyped
    <2>5. /\ todo' \in [Agent -> SUBSET Path] /\ \A b \in Agent \ {a} : todo'[b] = todo[b]
        BY <1>4 DEF TakeIn, Visited, LoopTyped
    <2>6. LoopTyped'
        <3>1. /\ Goto(a, "scan") /\ hand' = [hand EXCEPT ![a] = NoFile]
              /\ listed' \in [Agent -> SUBSET Path] /\ UNCHANGED <<dialed, work>>
              /\ "scan" \in LoopPlaces \ {"exchange", "materialize"}
            BY <1>4 DEF TakeIn, LoopPlaces, LoopTyped
        <3> QED
            BY <2>5, <3>1, NoFileType, GotoTyped
    <2>7. ConnTyped'
        BY <1>4, ConnKeptByGoto DEF TakeIn, Waiting
    <2> QED
        BY <1>4, <2>3, <2>4, <2>6, <2>7, BoundsKept DEF TakeIn
<1>5. CASE ScanTomb(a)
    <2>1. PICK p \in Vanished(a) :
              /\ AuthorEntry(a, p, <<>>, TRUE)
              /\ dirty' = [dirty EXCEPT ![a] = IF p \in DOMAIN disk[a] THEN @ ELSE @ \ {p}]
        BY <1>5 DEF ScanTomb
    <2>2. p \in Path /\ <<>> \in Content
        BY ContentAssumption, ManifestsUse DEF Vanished, StoresTyped
    <2>3. StoresTyped'
        BY <1>5, <2>1, <2>2, AuthorEntryTyped DEF ScanTomb, StoresTyped
    <2>4. FilesTyped'
        BY <1>5, <2>1 DEF ScanTomb, FilesTyped
    <2> QED
        BY <1>5, <2>3, <2>4, LoopKept, ConnKept, BoundsKept DEF ScanTomb, loopVars
<1>6. CASE ScanDone(a)
    <2>1. LoopTyped'
        BY <1>6, HandKept, GotoTyped DEF ScanDone, LoopPlaces, LoopTyped
    <2>2. ConnTyped'
        BY <1>6, ConnKeptByGoto DEF ScanDone, Waiting
    <2> QED
        BY <1>6, <2>1, <2>2, FilesKept, StoresKept, BoundsKept DEF ScanDone
<1> QED
    BY <1>1, <1>2, <1>3, <1>4, <1>5, <1>6

\* An exchange is replaced by another whose client waits if it must.
LEMMA ConnPutTyped ==
    ASSUME ConnTyped, NEW c \in Agent, NEW x \in Exchanges,
           conn' = [conn EXCEPT ![c] = x],
           x.stage \in AwaitedStages => Waiting(c),
           UNCHANGED <<pc, late>>
    PROVE  ConnTyped'
<1>1. conn' \in [Agent -> Exchanges]
    BY DEF ConnTyped
<1>2. ASSUME NEW b \in Agent, conn'[b].stage \in AwaitedStages
      PROVE  Waiting(b)'
    BY <1>2 DEF ConnTyped, Waiting
<1> QED
    BY <1>1, <1>2 DEF ConnTyped

\* c is done with a peer, and what is left of the exchange awaits nothing.
LEMMA NextPeerTyped ==
    ASSUME LoopTyped, ConnTyped, NEW c \in Agent, NEW x \in Exchanges,
           x.stage \notin AwaitedStages,
           conn' = [conn EXCEPT ![c] = x],
           NextPeer(c), dialed[c] < Len(Peers[c]),
           UNCHANGED <<todo, listed, hand, work, late>>
    PROVE  LoopTyped' /\ ConnTyped'
<1>1. /\ pc' = [pc EXCEPT ![c] = "dial"]
      /\ dialed' = [dialed EXCEPT ![c] = @ + 1]
    BY DEF NextPeer, Goto
<1>2. dialed[c] \in Nat /\ Len(Peers[c]) \in Nat
    BY AgentAssumption DEF LoopTyped
<1>3. dialed' \in [Agent -> Nat] /\ pc' \in [Agent -> LoopPlaces]
    BY <1>1, <1>2 DEF LoopTyped, LoopPlaces
<1>4. ASSUME NEW b \in Agent
      PROVE  /\ dialed'[b] <= Len(Peers[b])
             /\ Waiting(b)' => dialed'[b] < Len(Peers[b])
             /\ pc'[b] = "materialize" => todo'[b] \subseteq DOMAIN work'[b]
             /\ pc'[b] = "store" => hand'[b].path \in Path
    <2>1. CASE b = c
        BY <2>1, <1>1, <1>2 DEF LoopTyped, Waiting
    <2>2. CASE b # c
        BY <2>2, <1>1 DEF LoopTyped, Waiting
    <2> QED
        BY <2>1, <2>2
<1>5. LoopTyped'
    BY <1>3, <1>4 DEF LoopTyped
<1>6. ASSUME NEW b \in Agent, conn'[b].stage \in AwaitedStages
      PROVE  Waiting(b)'
    <2>1. b # c /\ conn[b].stage \in AwaitedStages
        BY <1>6 DEF ConnTyped
    <2> QED
        BY <2>1, <1>1 DEF ConnTyped, Waiting, LoopTyped
<1>7. conn' \in [Agent -> Exchanges] /\ late' \in [Agent -> Exchanges]
    BY DEF ConnTyped
<1> QED
    BY <1>5, <1>6, <1>7 DEF ConnTyped

\* The exchange of c between two stages, and the manifests that merges and
\* replies carry.
LEMMA BeginMergeTyped ==
    ASSUME Typed, NEW c \in Agent, NEW a \in Agent, NEW stage \in {"serving", "merging"},
           conn[c].stage # "idle", stage = "merging" => Waiting(c),
           BeginMerge(c, a, stage)
    PROVE  Typed'
<1> DEFINE x == [conn[c] EXCEPT !.stage = stage, !.left = DOMAIN conn[c].body]
<1>1. conn[c] \in Messages
    BY ExchangeUse DEF Typed, ConnTyped
<1>2. DOMAIN conn[c].body \in SUBSET Path
    BY <1>1, ManifestsUse DEF Messages
<1>3. x \in Exchanges /\ x.stage = stage
    BY <1>1, <1>2 DEF Exchanges, Messages, Stages
<1>4. conn' = [conn EXCEPT ![c] = x]
    BY DEF BeginMerge, Typed, ConnTyped
<1>5. UNCHANGED <<userVars, storeVars, saved, loopVars, late, boundVars>>
    BY DEF BeginMerge, ConnOnly
<1>6. ConnTyped'
    BY <1>3, <1>4, <1>5, ConnPutTyped DEF Typed, loopVars, AwaitedStages
<1> QED
    BY <1>5, <1>6, FilesKept, StoresKept, LoopKept, BoundsKept DEF Typed

LEMMA ApplyNextTyped ==
    ASSUME Typed, NEW c \in Agent, NEW a \in Agent, conn[c].stage # "idle",
           ApplyNext(c, a)
    PROVE  Typed'
<1>1. PICK p \in conn[c].left :
          /\ manifest' = [manifest EXCEPT ![a] = Apply(@, p, conn[c].body[p])]
          /\ conn' = [conn EXCEPT ![c].left = @ \ {p}]
    BY DEF ApplyNext
<1> DEFINE x == [conn[c] EXCEPT !.left = @ \ {p}]
<1>2. conn[c] \in Messages /\ conn[c].left \subseteq DOMAIN conn[c].body
    BY ExchangeUse DEF Typed, ConnTyped
<1>3. p \in Path /\ conn[c].body[p] \in Entry
    BY <1>2, ManifestsUse DEF Messages
<1>4. StoresTyped'
    <2>1. Apply(manifest[a], p, conn[c].body[p]) \in Manifests
        BY <1>3, ApplyType DEF Typed, StoresTyped
    <2> QED
        BY <1>1, <2>1 DEF ApplyNext, Typed, StoresTyped
<1>5. x \in Exchanges /\ x.stage = conn[c].stage
    BY <1>2 DEF Exchanges, Messages
<1>6. conn' = [conn EXCEPT ![c] = x]
    BY <1>1 DEF Typed, ConnTyped
<1>7. UNCHANGED <<userVars, saved, loopVars, late, boundVars>>
    BY DEF ApplyNext
<1>8. ConnTyped'
    BY <1>5, <1>6, <1>7, ConnPutTyped DEF Typed, ConnTyped, loopVars
<1> QED
    BY <1>4, <1>7, <1>8, FilesKept, LoopKept, BoundsKept DEF Typed

LEMMA ServerTyped ==
    ASSUME Typed, NEW c \in Agent, ServerStep(c)
    PROVE  Typed'
<1>1. ASSUME conn[c].stage # "idle"
      PROVE  conn[c] \in Messages /\ conn[c].left \subseteq DOMAIN conn[c].body
    BY <1>1, ExchangeUse DEF Typed, ConnTyped
<1>2. CASE ServeBegin(c)
    <2>1. conn[c].peer \in Agent
        BY <1>1, <1>2 DEF ServeBegin, Messages
    <2> QED
        BY <1>2, <2>1, BeginMergeTyped DEF ServeBegin
<1>3. CASE ServeApply(c)
    <2>1. conn[c].peer \in Agent
        BY <1>1, <1>3 DEF ServeApply, Messages
    <2> QED
        BY <1>3, <2>1, ApplyNextTyped DEF ServeApply
<1>4. CASE ServeReply(c)
    <2> DEFINE x == IF Waiting(c)
                    THEN Exchange("reply", conn[c].peer, manifest[conn[c].peer], {}, {})
                    ELSE Idle
    <2>1. conn[c].peer \in Agent
        BY <1>1, <1>4 DEF ServeReply, Messages
    <2>2. manifest[conn[c].peer] \in Manifests
        BY <2>1 DEF Typed, StoresTyped
    <2>3. x \in Exchanges /\ (x.stage \in AwaitedStages => Waiting(c))
        BY <2>1, <2>2, ExchangeType, IdleType DEF Stages, AwaitedStages
    <2>4. conn' = [conn EXCEPT ![c] = x]
        BY <1>4 DEF ServeReply, Typed, ConnTyped
    <2>5. UNCHANGED <<userVars, storeVars, saved, loopVars, late, boundVars>>
        BY <1>4 DEF ServeReply, ConnOnly
    <2>6. ConnTyped'
        BY <2>3, <2>4, <2>5, ConnPutTyped DEF Typed, loopVars
    <2> QED
        BY <2>5, <2>6, FilesKept, StoresKept, LoopKept, BoundsKept DEF Typed
<1>5. CASE SendChunks(c)
    <2> DEFINE x == [conn[c] EXCEPT !.stage = "chunks",
                                    !.hashes = @ \cap chunks[conn[c].peer]]
    <2>1. conn[c] \in Messages /\ conn[c].left \subseteq DOMAIN conn[c].body
        BY <1>1, <1>5 DEF SendChunks
    <2>2. x \in Exchanges
        BY <2>1 DEF Exchanges, Messages, Stages
    <2>3. Waiting(c)
        BY <1>5 DEF SendChunks, Typed, ConnTyped, AwaitedStages
    <2>4. conn' = [conn EXCEPT ![c] = x]
        BY <1>5 DEF SendChunks, Typed, ConnTyped
    <2>5. UNCHANGED <<userVars, storeVars, saved, loopVars, late, boundVars>>
        BY <1>5 DEF SendChunks, ConnOnly
    <2>6. ConnTyped'
        BY <2>2, <2>3, <2>4, <2>5, ConnPutTyped DEF Typed, loopVars
    <2> QED
        BY <2>5, <2>6, FilesKept, StoresKept, LoopKept, BoundsKept DEF Typed
<1>6. CASE LateBegin(c) \/ LateApply(c) \/ LateReply(c)
    <2>1. late[c] \in Messages /\ late[c].left \subseteq DOMAIN late[c].body
        BY <1>6, ExchangeUse DEF LateBegin, LateApply, LateReply, Typed, ConnTyped
    <2>2. late[c].peer \in Agent /\ late[c].body \in Manifests
        BY <2>1 DEF Messages
    <2>3. CASE LateBegin(c)
        <3> DEFINE x == [late[c] EXCEPT !.stage = "serving", !.left = DOMAIN late[c].body]
        <3>1. DOMAIN late[c].body \in SUBSET Path
            BY <2>2, ManifestsUse
        <3>2. x \in Exchanges
            BY <2>1, <3>1 DEF Exchanges, Messages, Stages
        <3>3. late' = [late EXCEPT ![c] = x]
            BY <2>3 DEF LateBegin, Typed, ConnTyped
        <3>4. ConnTyped'
            BY <2>3, <3>2, <3>3 DEF LateBegin, Typed, ConnTyped, Waiting, loopVars
        <3> QED
            BY <2>3, <3>4, FilesKept, StoresKept, LoopKept, BoundsKept DEF LateBegin, Typed
    <2>4. CASE LateApply(c)
        <3>1. PICK p \in late[c].left :
                  /\ manifest' = [manifest EXCEPT ![late[c].peer] = Apply(@, p, late[c].body[p])]
                  /\ late' = [late EXCEPT ![c].left = @ \ {p}]
            BY <2>4 DEF LateApply
        <3> DEFINE x == [late[c] EXCEPT !.left = @ \ {p}]
        <3>2. p \in Path /\ late[c].body[p] \in Entry
            BY <2>1, <2>2, ManifestsUse
        <3>3. Apply(manifest[late[c].peer], p, late[c].body[p]) \in Manifests
            BY <2>2, <3>2, ApplyType DEF Typed, StoresTyped
        <3>4. StoresTyped'
            BY <2>4, <3>1, <3>3 DEF LateApply, Typed, StoresTyped
        <3>5. x \in Exchanges
            BY <2>1 DEF Exchanges, Messages
        <3>6. late' = [late EXCEPT ![c] = x]
            BY <3>1 DEF Typed, ConnTyped
        <3>7. ConnTyped'
            BY <2>4, <3>5, <3>6 DEF LateApply, Typed, ConnTyped, Waiting, loopVars
        <3> QED
            BY <2>4, <3>4, <3>7, FilesKept, LoopKept, BoundsKept DEF LateApply, Typed
    <2>5. CASE LateReply(c)
        <3>1. ConnTyped'
            BY <2>5, IdleType DEF LateReply, Typed, ConnTyped, Waiting, loopVars
        <3> QED
            BY <2>5, <3>1, FilesKept, StoresKept, LoopKept, BoundsKept DEF LateReply, Typed
    <2> QED
        BY <1>6, <2>3, <2>4, <2>5
<1> QED
    BY <1>2, <1>3, <1>4, <1>5, <1>6 DEF ServerStep

LEMMA ClientTyped ==
    ASSUME Typed, NEW c \in Agent,
           \/ Dial(c) \/ ReceiveReply(c) \/ MergeApply(c) \/ AskChunks(c)
           \/ StoreChunk(c) \/ ExchangeDone(c)
    PROVE  Typed'
<1> USE DEF Typed
<1>1. ASSUME conn[c].stage # "idle"
      PROVE  conn[c] \in Messages /\ conn[c].left \subseteq DOMAIN conn[c].body
    BY <1>1, ExchangeUse DEF ConnTyped
<1>2. CASE Dial(c)
    <2> DEFINE x == Exchange("request", Peers[c][dialed[c] + 1], manifest[c], {}, {})
    <2>1. /\ dialed[c] \in Nat /\ Len(Peers[c]) \in Nat /\ dialed[c] < Len(Peers[c])
          /\ Peers[c] \in Seq(Agent)
        BY <1>2, AgentAssumption DEF Dial, Dialing, LoopTyped
    <2>2. Peers[c][dialed[c] + 1] \in Agent
        BY <2>1
    <2>3. x \in Exchanges /\ x.stage = "request"
        BY <2>2, ExchangeType DEF Stages, StoresTyped
    <2>4. /\ conn' = [conn EXCEPT ![c] = x]
          /\ pc' = [pc EXCEPT ![c] = "exchange"]
          /\ late' \in {late, [late EXCEPT ![c] = conn[c]]}
          /\ UNCHANGED <<userVars, storeVars, saved, todo, listed, dialed, hand, work, boundVars>>
        BY <1>2 DEF Dial, Goto
    <2>5. LoopTyped'
        BY <2>1, <2>4 DEF LoopTyped, LoopPlaces, Waiting
    <2>6. late' \in [Agent -> Exchanges]
        BY <2>4 DEF ConnTyped
    <2>7. ConnTyped'
        BY <2>3, <2>4, <2>6 DEF ConnTyped, AwaitedStages, Waiting, LoopTyped
    <2> QED
        BY <2>4, <2>5, <2>7, FilesKept, StoresKept, BoundsKept
<1>3. CASE ReceiveReply(c)
    BY <1>3, BeginMergeTyped DEF ReceiveReply, ConnTyped, AwaitedStages
<1>4. CASE MergeApply(c)
    BY <1>4, ApplyNextTyped DEF MergeApply
<1>5. CASE AskChunks(c)
    <2> DEFINE x == IF conn[c].alive
                    THEN Exchange("ask", conn[c].peer, EmptyManifest, {}, Missing(c))
                    ELSE [conn[c] EXCEPT !.stage = "broken"]
    <2>1. conn[c] \in Messages /\ conn[c].left \subseteq DOMAIN conn[c].body
        BY <1>1, <1>5 DEF AskChunks
    <2>2. Missing(c) \in SUBSET Hash
        <3>1. \A p \in DOMAIN manifest[c] : manifest[c][p].chunk_hashes \in Content
            BY ManifestsUse DEF StoresTyped, Entry
        <3> QED
            BY <3>1, HashesType DEF Missing
    <2>3. x \in Exchanges
        <3>1. CASE conn[c].alive
            BY <3>1, <2>1, <2>2, EmptyManifestType, ExchangeType DEF Messages, Stages
        <3>2. CASE ~conn[c].alive
            BY <3>2, <2>1 DEF Exchanges, Messages, Stages
        <3> QED
            BY <3>1, <3>2
    <2>4. Waiting(c)
        BY <1>5 DEF AskChunks, ConnTyped, AwaitedStages
    <2>5. conn' = [conn EXCEPT ![c] = x]
        BY <1>5 DEF AskChunks, ConnTyped
    <2>6. UNCHANGED <<userVars, storeVars, saved, loopVars, late, boundVars>>
        BY <1>5 DEF AskChunks, ConnOnly
    <2>7. ConnTyped'
        BY <2>3, <2>4, <2>5, <2>6, ConnPutTyped DEF loopVars
    <2> QED
        BY <2>6, <2>7, FilesKept, StoresKept, LoopKept, BoundsKept
<1>6. CASE StoreChunk(c)
    <2>1. PICK h \in conn[c].hashes :
              /\ chunks' = [chunks EXCEPT ![c] = @ \cup {h}]
              /\ conn' = [conn EXCEPT ![c].hashes = @ \ {h}]
              /\ torn' = [torn EXCEPT ![c] = @ \cup (({h} \cap torn[conn[c].peer]) \ chunks[c])]
        BY <1>6 DEF StoreChunk
    <2> DEFINE x == [conn[c] EXCEPT !.hashes = @ \ {h}]
    <2>2. conn[c] \in Messages /\ conn[c].left \subseteq DOMAIN conn[c].body
        BY <1>1, <1>6 DEF StoreChunk
    <2>3. h \in Hash
        BY <2>2 DEF Messages
    <2>4. StoresTyped'
        BY <1>6, <2>1, <2>3 DEF StoreChunk, StoresTyped
    <2>5. x \in Exchanges
        BY <2>2 DEF Exchanges, Messages
    <2>6. Waiting(c)
        BY <1>6 DEF StoreChunk, ConnTyped, AwaitedStages
    <2>7. conn' = [conn EXCEPT ![c] = x]
        BY <2>1 DEF ConnTyped
    <2>8. ConnTyped'
        BY <1>6, <2>5, <2>6, <2>7, ConnPutTyped DEF StoreChunk, loopVars
    <2>9. BoundsTyped'
        BY <1>6 DEF StoreChunk, Harms, BoundsTyped
    <2> QED
        BY <1>6, <2>4, <2>8, <2>9, FilesKept, LoopKept DEF StoreChunk
<1>7. CASE ExchangeDone(c)
    <2>1. dialed[c] < Len(Peers[c])
        BY <1>7 DEF ExchangeDone, ConnTyped, AwaitedStages, LoopTyped
    <2>2. LoopTyped' /\ ConnTyped'
        BY <1>7, <2>1, IdleType, NextPeerTyped DEF ExchangeDone, AwaitedStages
    <2> QED
        BY <1>7, <2>2, FilesKept, StoresKept, BoundsKept DEF ExchangeDone
<1> QED
    BY <1>2, <1>3, <1>4, <1>5, <1>6, <1>7

\* A tick ends: the main thread starts from the top.
LEMMA NextTickTyped ==
    ASSUME LoopTyped, ConnTyped, NEW a \in Agent, NextTick(a),
           UNCHANGED <<todo, listed, hand, connVars>>
    PROVE  LoopTyped' /\ ConnTyped'
<1>1. /\ dialed' = [dialed EXCEPT ![a] = 0]
      /\ work' = [work EXCEPT ![a] = EmptyManifest]
      /\ pc' = [pc EXCEPT ![a] = "list"]
    BY DEF NextTick, Goto
<1>2. \A b \in Agent : Len(Peers[b]) \in Nat
    BY AgentAssumption
<1>3. LoopTyped'
    BY <1>1, <1>2, EmptyManifestType DEF LoopTyped, LoopPlaces, Waiting
<1>4. ConnTyped'
    BY ConnKeptByGoto DEF NextTick, Waiting
<1> QED
    BY <1>3, <1>4

LEMMA PendingType ==
    ASSUME StoresTyped, NEW a \in Agent
    PROVE  /\ Pending(a) \in SUBSET Path
           /\ [p \in Pending(a) |-> manifest[a][p]] \in Manifests
<1>1. manifest[a] \in Manifests
    BY DEF StoresTyped
<1>2. Pending(a) \subseteq DOMAIN manifest[a]
    BY DEF Pending
<1>3. /\ DOMAIN manifest[a] \subseteq Path
      /\ \A p \in DOMAIN manifest[a] : manifest[a][p] \in Entry
    BY <1>1, ManifestsUse
<1>4. [p \in Pending(a) |-> manifest[a][p]] \in [Pending(a) -> Entry]
    BY <1>2, <1>3
<1> QED
    BY <1>2, <1>3, <1>4 DEF Manifests

LEMMA MaterializedType ==
    ASSUME FilesTyped, NEW a \in Agent, NEW p \in Path, NEW e \in Entry
    PROVE  Materialized(a, p, e) \subseteq Directories
<1>1. disk[a] \in Directories
    BY DEF FilesTyped
<1>2. Assembled(a, e.chunk_hashes) \subseteq Content
    BY DEF Assembled, Entry
<1> QED
    BY <1>1, <1>2, InsertFileType, WithoutType DEF Materialized

LEMMA MaterializeTyped ==
    ASSUME Typed, NEW a \in Agent, Snapshot(a) \/ Materialize(a) \/ Save(a)
    PROVE  Typed'
<1> USE DEF Typed
<1>1. CASE Snapshot(a)
    <2>1. /\ work' = [work EXCEPT ![a] = [p \in Pending(a) |-> manifest[a][p]]]
          /\ todo' = [todo EXCEPT ![a] = Pending(a)]
          /\ pc' = [pc EXCEPT ![a] = "materialize"]
          /\ UNCHANGED <<userVars, storeVars, saved, listed, dialed, hand, connVars, boundVars>>
        BY <1>1 DEF Snapshot, Goto
    <2>2. /\ pc' \in [Agent -> LoopPlaces]
          /\ todo' \in [Agent -> SUBSET Path]
          /\ work' \in [Agent -> Manifests]
        BY <2>1, PendingType DEF LoopTyped, LoopPlaces
    <2>3. ASSUME NEW b \in Agent
          PROVE  /\ Waiting(b)' => dialed'[b] < Len(Peers[b])
                 /\ pc'[b] = "materialize" => todo'[b] \subseteq DOMAIN work'[b]
                 /\ pc'[b] = "store" => hand'[b].path \in Path
        <3>1. CASE b = a
            BY <3>1, <2>1 DEF LoopTyped, Waiting
        <3>2. CASE b # a
            BY <3>2, <2>1 DEF LoopTyped, Waiting
        <3> QED
            BY <3>1, <3>2
    <2>4. LoopTyped'
        BY <2>1, <2>2, <2>3 DEF LoopTyped
    <2>5. ConnTyped'
        BY <1>1, ConnKeptByGoto DEF Snapshot, Waiting
    <2> QED
        BY <2>1, <2>4, <2>5, FilesKept, StoresKept, BoundsKept
<1>2. CASE Materialize(a)
    <2>1. PICK p \in todo[a] :
              /\ \E f \in Materialized(a, p, work[a][p]) : disk' = [disk EXCEPT ![a] = f]
              /\ known' = [known EXCEPT ![a] = Insert(@, p, work[a][p])]
              /\ dirty' = [dirty EXCEPT ![a] = @ \ {p}]
              /\ Visited(a, p)
        BY <1>2 DEF Materialize
    <2>2. p \in DOMAIN work[a] /\ work[a] \in Manifests
        BY <1>2 DEF Materialize, LoopTyped
    <2>3. p \in Path /\ work[a][p] \in Entry
        BY <2>2, ManifestsUse
    <2>4. FilesTyped'
        BY <1>2, <2>1, <2>3, MaterializedType DEF Materialize, FilesTyped
    <2>5. StoresTyped'
        BY <1>2, <2>1, <2>3, InsertType DEF Materialize, StoresTyped
    <2>6. LoopTyped'
        BY <1>2, <2>1, VisitedTyped DEF Materialize
    <2> QED
        BY <1>2, <2>4, <2>5, <2>6, ConnKept, BoundsKept DEF Materialize
<1>3. CASE Save(a)
    <2>1. LoopTyped' /\ ConnTyped'
        BY <1>3, NextTickTyped DEF Save
    <2>2. BoundsTyped'
        BY <1>3 DEF Save, BoundsTyped, StoresTyped, boundVars
    <2> QED
        BY <1>3, <2>1, <2>2, FilesKept, StoresKept DEF Save
<1> QED
    BY <1>1, <1>2, <1>3

\* What is left of an exchange the client has dropped awaits nothing.
LEMMA DroppedType ==
    ASSUME ConnTyped, NEW c \in Agent, NEW left \in Dropped(c)
    PROVE  left \in Exchanges /\ left.stage \notin AwaitedStages
<1>1. CASE conn[c].stage = "request"
    BY <1>1, IdleType DEF Dropped, ConnTyped, AwaitedStages
<1>2. CASE conn[c].stage = "serving"
    BY <1>2, IdleType DEF Dropped, ConnTyped, AwaitedStages
<1>3. CASE conn[c].stage # "request" /\ conn[c].stage # "serving"
    BY <1>3, IdleType DEF Dropped, AwaitedStages
<1> QED
    BY <1>1, <1>2, <1>3

LEMMA OrphanedType ==
    ASSUME ConnTyped, NEW a \in Agent, NEW left \in Orphaned(a)
    PROVE  left \in Exchanges /\ left.stage \notin AwaitedStages
BY DroppedType, IdleType DEF Orphaned, AwaitedStages

\* An exchange whose server dies: it stays, breaks, ends or goes on without it.
LEMMA AfterDeathType ==
    ASSUME ConnTyped, NEW c \in Agent, NEW a \in Agent
    PROVE  /\ AfterDeath(c, a) \in Exchanges
           /\ AfterDeath(c, a).stage \in AwaitedStages => Waiting(c)
<1>1. conn[c].stage # "idle" =>
          conn[c] \in Messages /\ conn[c].left \subseteq DOMAIN conn[c].body
    BY ExchangeUse DEF ConnTyped
<1>2. CASE conn[c].stage = "idle" \/ conn[c].peer # a
    BY <1>2 DEF AfterDeath, ConnTyped
<1>3. CASE /\ ~(conn[c].stage = "idle" \/ conn[c].peer # a)
           /\ conn[c].stage \in {"request", "serving", "ask"}
    <2>1. CASE Waiting(c)
        <3>1. AfterDeath(c, a) = [conn[c] EXCEPT !.stage = "broken", !.left = {}]
            BY <1>3, <2>1 DEF AfterDeath
        <3> QED
            BY <1>1, <1>3, <2>1, <3>1 DEF Exchanges, Messages, Stages
    <2>2. CASE ~Waiting(c)
        <3>1. AfterDeath(c, a) = Idle
            BY <1>3, <2>2 DEF AfterDeath
        <3> QED
            BY <3>1, IdleType DEF AwaitedStages
    <2> QED
        BY <2>1, <2>2
<1>4. CASE /\ ~(conn[c].stage = "idle" \/ conn[c].peer # a)
           /\ conn[c].stage \notin {"request", "serving", "ask"}
    <2>1. AfterDeath(c, a) = [conn[c] EXCEPT !.alive = FALSE]
        BY <1>4 DEF AfterDeath
    <2>2. AfterDeath(c, a) \in Messages /\ AfterDeath(c, a).stage = conn[c].stage
        BY <1>1, <1>4, <2>1 DEF Messages
    <2>3. AfterDeath(c, a).left = conn[c].left /\ AfterDeath(c, a).body = conn[c].body
        BY <1>1, <1>4, <2>1 DEF Messages
    <2> QED
        BY <1>1, <1>4, <2>2, <2>3 DEF Exchanges, ConnTyped
<1> QED
    BY <1>2, <1>3, <1>4

LEMMA FailCounted ==
    ASSUME BoundsTyped, NEW a \in Agent, Fault(a), harmed' \in {harmed, harmed \cup {a}},
           UNCHANGED <<saved, restarts>>
    PROVE  BoundsTyped'
BY AgentAssumption DEF BoundsTyped, Fault

\* What a write that is cut short leaves: a chunk of those wanted, or a file
\* of its beginning.
LEMMA StoringType ==
    ASSUME Typed, NEW a \in Agent
    PROVE  Storing(a) \subseteq Hash \ chunks[a]
<1>1. CASE pc[a] = "store" /\ hand[a].stored < Len(hand[a].content)
    BY <1>1, NextChunkType DEF Storing, Typed, LoopTyped
<1>2. CASE conn[a].stage = "chunks" /\ ~(pc[a] = "store" /\ hand[a].stored < Len(hand[a].content))
    BY <1>2, ExchangeUse DEF Storing, Typed, ConnTyped, Messages
<1>3. CASE conn[a].stage # "chunks" /\ ~(pc[a] = "store" /\ hand[a].stored < Len(hand[a].content))
    BY <1>3 DEF Storing
<1> QED
    BY <1>1, <1>2, <1>3

LEMMA ChunkCutShortTyped ==
    ASSUME Typed, NEW a \in Agent, ChunkCutShort(a)
    PROVE  /\ chunks' \in [Agent -> SUBSET Hash]
           /\ torn' \in [Agent -> SUBSET Hash]
           /\ \A b \in Agent : torn'[b] \subseteq chunks'[b] /\ chunks[b] \subseteq chunks'[b]
           /\ \A b \in Agent \ {a} : torn'[b] = torn[b]
BY StoringType DEF ChunkCutShort, Typed, StoresTyped

LEMMA FileCutShortTyped ==
    ASSUME Typed, NEW a \in Agent, FileCutShort(a)
    PROVE  /\ disk' \in [Agent -> Directories]
           /\ \A b \in Agent \ {a} : disk'[b] = disk[b]
<1>1. CASE UNCHANGED disk
    BY <1>1 DEF Typed, FilesTyped
<1>2. ASSUME NEW p \in todo[a], NEW c, NEW d \in CutShort(c),
             disk' = [disk EXCEPT ![a] = Insert(@, p, d)]
      PROVE  /\ disk' \in [Agent -> Directories]
             /\ \A b \in Agent \ {a} : disk'[b] = disk[b]
    <2>1. p \in Path /\ d \in Content
        BY DEF Typed, LoopTyped, CutShort
    <2> QED
        BY <1>2, <2>1, InsertFileType DEF Typed, FilesTyped
<1> QED
    BY <1>1, <1>2 DEF FileCutShort

LEMMA ScanEndsTyped ==
    ASSUME LoopTyped, ConnTyped, NEW a \in Agent, pc[a] \in {"scan", "store"}, ScanEnds(a)
    PROVE  LoopTyped' /\ ConnTyped'
<1>1. /\ todo' \in [Agent -> SUBSET Path] /\ listed' \in [Agent -> SUBSET Path]
      /\ \A b \in Agent \ {a} : todo'[b] = todo[b]
    BY DEF ScanEnds, LoopTyped
<1>2. /\ Goto(a, "dial") /\ hand' = [hand EXCEPT ![a] = NoFile] /\ UNCHANGED <<dialed, work>>
      /\ "dial" \in LoopPlaces \ {"exchange", "materialize"}
    BY DEF ScanEnds, LoopPlaces
<1>4. LoopTyped'
    BY <1>1, <1>2, NoFileType, GotoTyped
<1>3. ConnTyped'
    BY ConnKeptByGoto DEF ScanEnds, Waiting
<1> QED
    BY <1>3, <1>4

LEMMA ScanEndingTyped ==
    ASSUME Typed, NEW a \in Agent, ScanVanished(a) \/ ReadFails(a) \/ WriteChunkFails(a)
    PROVE  Typed'
<1> USE DEF Typed
<1>1. LoopTyped' /\ ConnTyped'
    BY ScanEndsTyped DEF ScanVanished, ReadFails, WriteChunkFails
<1>2. CASE ScanVanished(a)
    BY <1>1, <1>2, FilesKept, StoresKept, BoundsKept DEF ScanVanished, ScanEnds, storeVars, boundVars
<1>3. CASE ReadFails(a)
    BY <1>1, <1>3, FilesKept, StoresKept, FailCounted DEF ReadFails, ScanEnds, storeVars
<1>4. CASE WriteChunkFails(a)
    <2>1. StoresTyped'
        BY <1>4, ChunkCutShortTyped DEF WriteChunkFails, ScanEnds, StoresTyped
    <2>2. BoundsTyped'
        BY <1>4, FailCounted DEF WriteChunkFails, Harms, ScanEnds
    <2> QED
        BY <1>1, <1>4, <2>1, <2>2, FilesKept DEF WriteChunkFails, ScanEnds
<1> QED
    BY <1>2, <1>3, <1>4

LEMMA FailureTyped ==
    ASSUME Typed, NEW a \in Agent, Failure(a)
    PROVE  Typed'
<1> USE DEF Typed
<1>1. CASE DialRefused(a)
    <2>1. /\ dialed[a] < Len(Peers[a]) /\ dialed[a] \in Nat /\ Len(Peers[a]) \in Nat
          /\ pc' = [pc EXCEPT ![a] = "dial"] /\ dialed' = [dialed EXCEPT ![a] = @ + 1]
        BY <1>1, AgentAssumption DEF DialRefused, Dialing, NextPeer, Goto, LoopTyped
    <2>2. LoopTyped'
        BY <1>1, <2>1 DEF DialRefused, LoopTyped, LoopPlaces, Waiting
    <2>3. ConnTyped'
        BY <1>1, ConnKeptByGoto DEF DialRefused, Dialing, NextPeer, Waiting
    <2> QED
        BY <1>1, <2>2, <2>3, FailCounted, FilesKept, StoresKept DEF DialRefused
<1>2. CASE ExchangeFails(a)
    <2>1. PICK left \in Dropped(a) : conn' = [conn EXCEPT ![a] = left]
        BY <1>2 DEF ExchangeFails
    <2>2. dialed[a] < Len(Peers[a])
        BY <1>2 DEF ExchangeFails, LoopTyped
    <2>3. LoopTyped' /\ ConnTyped'
        BY <1>2, <2>1, <2>2, DroppedType, NextPeerTyped DEF ExchangeFails
    <2>4. StoresTyped'
        BY <1>2, ChunkCutShortTyped DEF ExchangeFails, StoresTyped
    <2>5. BoundsTyped'
        BY <1>2, FailCounted DEF ExchangeFails, Harms
    <2> QED
        BY <1>2, <2>3, <2>4, <2>5, FilesKept DEF ExchangeFails
<1>3. CASE MaterializeFails(a)
    <2>1. FilesTyped'
        BY <1>3, FileCutShortTyped DEF MaterializeFails, FilesTyped
    <2>2. LoopTyped'
        BY <1>3 DEF MaterializeFails, LoopTyped, Waiting
    <2>3. BoundsTyped'
        BY <1>3, FailCounted DEF MaterializeFails, Harms
    <2> QED
        BY <1>3, <2>1, <2>2, <2>3, StoresKept, ConnKept DEF MaterializeFails
<1>4. CASE SaveFails(a)
    BY <1>4, NextTickTyped, FailCounted, FilesKept, StoresKept DEF SaveFails
<1>5. CASE Restart(a)
    <2>1. /\ restarts < MaxRestart /\ restarts' = restarts + 1
          /\ Fault(a) /\ harmed' = harmed \cup {a}
          /\ manifest' = [manifest EXCEPT ![a] = saved[a]]
          /\ known' = [known EXCEPT ![a] = EmptyManifest]
          /\ clock' = [clock EXCEPT ![a] = HlcZero]
          /\ todo' = [todo EXCEPT ![a] = {}]
          /\ listed' = [listed EXCEPT ![a] = {}]
          /\ dialed' = [dialed EXCEPT ![a] = 0]
          /\ hand' = [hand EXCEPT ![a] = NoFile]
          /\ work' = [work EXCEPT ![a] = EmptyManifest]
          /\ pc' = [pc EXCEPT ![a] = "list"]
          /\ \/ ChunkCutShort(a) /\ UNCHANGED disk
             \/ FileCutShort(a) /\ UNCHANGED <<chunks, torn>>
          /\ UNCHANGED <<dirty, edits, now, saved>>
        BY <1>5 DEF Restart, Reborn, Goto
    <2>2. /\ late' = [c \in Agent |-> LateAfterDeath(c, a)]
          /\ \E left \in Orphaned(a) :
                 conn' = [c \in Agent |-> IF c = a THEN left ELSE AfterDeath(c, a)]
        BY <1>5 DEF Restart, Reborn
    <2>3. StoresTyped'
        BY <2>1, EmptyManifestType, ZeroType, ChunkCutShortTyped DEF StoresTyped, BoundsTyped
    <2>4. \A b \in Agent : Len(Peers[b]) \in Nat
        BY AgentAssumption
    <2>5. LoopTyped'
        BY <2>1, <2>4, EmptyManifestType, NoFileType DEF LoopTyped, LoopPlaces, Waiting
    <2>6. ConnTyped'
        <3>1. PICK left \in Orphaned(a) :
                  conn' = [c \in Agent |-> IF c = a THEN left ELSE AfterDeath(c, a)]
            BY <2>2
        <3>2. left \in Exchanges /\ left.stage \notin AwaitedStages
            BY OrphanedType
        <3>3. conn' \in [Agent -> Exchanges]
            BY <3>1, <3>2, AfterDeathType
        <3>4. late' \in [Agent -> Exchanges]
            BY <2>2, IdleType DEF LateAfterDeath, ConnTyped
        <3>5. ASSUME NEW c \in Agent, conn'[c].stage \in AwaitedStages
              PROVE  Waiting(c)'
            <4>1. c # a /\ conn'[c] = AfterDeath(c, a)
                BY <3>1, <3>2, <3>5
            <4>2. Waiting(c)
                BY <3>5, <4>1, AfterDeathType
            <4> QED
                BY <2>1, <4>1, <4>2 DEF Waiting, LoopTyped
        <3> QED
            BY <3>3, <3>4, <3>5 DEF ConnTyped
    <2>7. BoundsTyped'
        BY <2>1, AgentAssumption DEF BoundsTyped, Fault
    <2>8. FilesTyped'
        BY <2>1, FileCutShortTyped DEF FilesTyped
    <2> QED
        BY <2>3, <2>5, <2>6, <2>7, <2>8
<1>6. CASE ReadFails(a) \/ WriteChunkFails(a)
    BY <1>6, ScanEndingTyped
<1> QED
    BY <1>1, <1>2, <1>3, <1>4, <1>5, <1>6 DEF Failure

LEMMA NextTyped == Typed /\ [Next]_vars => Typed'
<1> SUFFICES ASSUME Typed, [Next]_vars
             PROVE  Typed'
    OBVIOUS
<1>1. CASE UNCHANGED vars
    BY <1>1, FilesKept, StoresKept, LoopKept, ConnKept, BoundsKept DEF Typed, vars, loopVars
<1>2. CASE Next
    <2>1. PICK a \in Agent : UserStep(a) \/ MainStep(a) \/ ServerStep(a) \/ Failure(a)
        BY <1>2 DEF Next
    <2> QED
        BY <2>1, UserTyped, ScanTyped, ScanEndingTyped, ClientTyped, MaterializeTyped,
           ServerTyped, FailureTyped
        DEF MainStep
<1> QED
    BY <1>1, <1>2

THEOREM TypingHolds == Spec => []Typed
<1>1. Init => Typed
    BY InitTyped
<1>2. Typed /\ [Next]_vars => Typed'
    BY NextTyped
<1> QED
    BY <1>1, <1>2, PTL DEF Spec

\* Every variable of every agent keeps its type, whatever users do, in whatever
\* order the threads of all agents run, and whichever of them fail or restart.
THEOREM AgentsTyped == Spec => []TypeOK
BY TypingHolds, TypedTypeOK, PTL


------------------------------------------------------------------------------
(* Safety.                                                                    *)

\* What the agents' exchanges and locks show of a merge, exchange by exchange.
HalfServing(x, a) == x.stage = "serving" /\ x.peer = a /\ x.left \notin {{}, DOMAIN x.body}

HalfInto(c, a) ==
    \/ HalfServing(conn[c], a) \/ HalfServing(late[c], a)
    \/ c = a /\ conn[c].stage = "merging" /\ conn[c].left \notin {{}, DOMAIN conn[c].body}

\* No merge of x has begun and not ended.
Whole(x) == x.stage \in {"serving", "merging"} => x.left \in {{}, DOMAIN x.body}

LEMMA HalfMergedUse == \A a : a \in HalfMerged <=> \E c \in Agent : HalfInto(c, a)
BY DEF HalfMerged, HalfInto, HalfServing

LEMMA HalfMergedLocked ==
    ASSUME NEW a \in Agent, Unlocked(a)
    PROVE  a \notin HalfMerged
<1>1. ASSUME NEW c \in Agent, HalfInto(c, a)
      PROVE  HoldsLock(c, a)
    BY <1>1 DEF HalfInto, HalfServing, HoldsLock, Serves
<1> QED
    BY <1>1, HalfMergedUse DEF Unlocked

LEMMA MailUse ==
    \A m : m \in Mail <=>
        /\ m # EmptyManifest
        /\ \E c \in Agent : \/ conn[c].stage # "idle" /\ conn[c].body = m
                            \/ late[c].stage # "idle" /\ late[c].body = m
BY DEF Mail

LEMMA MailType == ASSUME ConnTyped PROVE Mail \subseteq Manifests
<1> SUFFICES ASSUME NEW m \in Mail
             PROVE  m \in Manifests
    OBVIOUS
<1>1. \A x \in Exchanges : x.stage # "idle" => x.body \in Manifests
    BY ExchangeUse DEF Messages
<1>2. \A c \in Agent : conn[c] \in Exchanges /\ late[c] \in Exchanges
    BY DEF ConnTyped
<1> QED
    BY <1>1, <1>2, MailUse

\* Every way in which a step changes a manifest, in memory or on disk.

\* The chunks counted as stored of the file in hand are there.
Stored ==
    \A a \in Agent : pc[a] = "store" =>
        \A i \in 1 .. hand[a].stored : hand[a].content[i] \in chunks[a]

\* a authors an entry for p.
AuthorStep(a, p, e) ==
    /\ Unlocked(a)
    /\ p \in Path /\ e \in Entry /\ e.author_pubkey = a /\ e.hlc = clock'[a]
    /\ clock'[a] # clock[a]
    /\ Stored => Hashes(e.chunk_hashes) \subseteq chunks'[a]
    /\ manifest' = [manifest EXCEPT ![a] = Apply(@, p, e)]
    /\ known' = [known EXCEPT ![a] = Insert(@, p, e)]
    /\ UNCHANGED <<saved, connVars>>

\* An entry of snapshot m is merged into the manifest of a.
MergeStep(a, m, p) ==
    /\ m \in Mail /\ p \in DOMAIN m
    /\ p \in Path /\ m[p] \in Entry
    /\ manifest' = [manifest EXCEPT ![a] = Apply(@, p, m[p])]
    /\ HalfMerged' \in {HalfMerged \ {a}, HalfMerged \cup {a}}
    /\ UNCHANGED saved

SaveStep(a) ==
    /\ Unlocked(a)
    /\ saved' = [saved EXCEPT ![a] = manifest[a]]
    /\ UNCHANGED <<manifest, connVars>>

RestartStep(a) ==
    /\ Restart(a)
    /\ manifest' = [manifest EXCEPT ![a] = saved[a]]
    /\ HalfMerged' = HalfMerged \ {a}
    /\ UNCHANGED saved

\* No manifest changes.
QuietStep == UNCHANGED <<manifest, saved, HalfMerged>>

\* An exchange carries what one did or what a manifest holds that is not being
\* merged into.
BodiesKept == Mail' \subseteq Mail \cup {manifest[a] : a \in {b \in Agent : Unlocked(b)}}

ChunksKept == \A a \in Agent : chunks[a] \subseteq chunks'[a]

\* The exchanges stay as they are.
LEMMA ConnKeepsMail ==
    ASSUME UNCHANGED connVars
    PROVE  BodiesKept /\ UNCHANGED HalfMerged
BY DEF BodiesKept, Mail, HalfMerged, connVars

\* c's exchange is replaced by x, outside the turns of a merge.
LEMMA ConnPutMail ==
    ASSUME ConnTyped, NEW c \in Agent, NEW x, conn' = [conn EXCEPT ![c] = x], UNCHANGED late,
           \/ x.stage = "idle"
           \/ conn[c].stage # "idle" /\ x.body = conn[c].body
           \/ \E a \in Agent : Unlocked(a) /\ x.body = manifest[a]
           \/ x.body = EmptyManifest,
           Whole(conn[c]) /\ Whole(x)
    PROVE  BodiesKept /\ UNCHANGED HalfMerged
<1>1. conn'[c] = x /\ \A b \in Agent \ {c} : conn'[b] = conn[b]
    BY DEF ConnTyped
<1>2. BodiesKept
    <2> SUFFICES ASSUME NEW m \in Mail'
                 PROVE  m \in Mail \/ \E a \in Agent : Unlocked(a) /\ m = manifest[a]
        BY DEF BodiesKept
    <2>1. m # EmptyManifest
        BY DEF Mail
    <2>2. PICK b \in Agent : \/ conn'[b].stage # "idle" /\ conn'[b].body = m
                             \/ late[b].stage # "idle" /\ late[b].body = m
        BY DEF Mail
    <2>3. CASE late[b].stage # "idle" /\ late[b].body = m
        BY <2>1, <2>3, MailUse
    <2>4. CASE conn'[b].stage # "idle" /\ conn'[b].body = m /\ b # c
        BY <1>1, <2>1, <2>4, MailUse
    <2>5. CASE conn'[b].stage # "idle" /\ conn'[b].body = m /\ b = c
        BY <1>1, <2>1, <2>5, MailUse
    <2> QED
        BY <2>2, <2>3, <2>4, <2>5
<1>3. ASSUME NEW b \in Agent, NEW a
      PROVE  HalfInto(b, a)' <=> HalfInto(b, a)
    <2>1. CASE b = c
        BY <1>1, <2>1 DEF HalfInto, HalfServing, Whole
    <2>2. CASE b # c
        BY <1>1, <2>2 DEF HalfInto, HalfServing
    <2> QED
        BY <2>1, <2>2
<1>4. \A a : a \in HalfMerged' <=> \E b \in Agent : HalfInto(b, a)'
    BY DEF HalfMerged, HalfInto, HalfServing
<1>5. \A a : a \in HalfMerged' <=> a \in HalfMerged
    BY <1>3, <1>4, HalfMergedUse
<1>6. HalfMerged' = {a \in HalfMerged' : TRUE} /\ HalfMerged = {a \in HalfMerged : TRUE}
    OBVIOUS
<1> QED
    BY <1>2, <1>5, <1>6

LEMMA EmptyHashes == Hashes(<<>>) = {}
BY DEF Hashes

LEMMA AuthorEntryTicks ==
    ASSUME Typed, NEW a \in Agent, NEW p, NEW c, NEW deleted, AuthorEntry(a, p, c, deleted)
    PROVE  clock'[a] # clock[a]
<1>1. PICK gap \in Gap : /\ now' = now + gap
                         /\ clock' = [clock EXCEPT ![a] = Tick(@, now' + Offset[a])]
    BY DEF AuthorEntry
<1>2. gap \in Nat /\ Offset[a] \in Nat /\ now \in Nat
    BY AgentAssumption DEF Typed, StoresTyped
<1>3. /\ clock[a] \in Hlc /\ now' + Offset[a] \in Nat
      /\ clock'[a] = Tick(clock[a], now' + Offset[a])
    BY <1>1, <1>2 DEF Typed, StoresTyped
<1>4. RoomToBump(clock[a].logical)
    BY DEF AuthorEntry
<1> QED
    BY <1>3, <1>4, TickRaises, HlcTotal

LEMMA AuthorEntrySteps ==
    ASSUME Typed, NEW a \in Agent, NEW p \in Path, NEW c \in Content,
           NEW deleted \in BOOLEAN, AuthorEntry(a, p, c, deleted),
           Stored => Hashes(c) \subseteq chunks'[a], UNCHANGED <<saved, connVars>>
    PROVE  \E e \in Entry : AuthorStep(a, p, e)
<1> DEFINE e == Authored(a, c, deleted, clock'[a])
<1>1. e \in Entry
    BY AuthorEntryTyped DEF Typed
<1>2. /\ manifest' = [manifest EXCEPT ![a] = Apply(@, p, e)] /\ Unlocked(a)
      /\ known' = [known EXCEPT ![a] = Insert(@, p, e)]
    BY DEF AuthorEntry
<1>3. e.author_pubkey = a /\ e.chunk_hashes = c /\ e.hlc = clock'[a]
    BY DEF Authored
<1> QED
    BY <1>1, <1>2, <1>3, AuthorEntryTicks DEF AuthorStep

\* A set that gains or loses no member but a.
LEMMA SameButOne ==
    ASSUME NEW S, NEW T, NEW a, \A b : b # a => (b \in S <=> b \in T)
    PROVE  S \in {T \ {a}, T \cup {a}}
<1>1. CASE a \in S
    <2>1. \A b : b \in S <=> b \in T \cup {a}
        BY <1>1
    <2> QED
        BY <2>1
<1>2. CASE a \notin S
    <2>1. \A b : b \in S <=> b \in T \ {a}
        BY <1>2
    <2> QED
        BY <2>1
<1> QED
    BY <1>1, <1>2

\* One turn of a merge, of c's exchange or of the one c gave up.
LEMMA ApplyNextSteps ==
    ASSUME Typed, NEW c \in Agent, NEW a \in Agent,
           \/ conn[c].stage = "serving" /\ conn[c].peer = a
           \/ conn[c].stage = "merging" /\ c = a,
           ApplyNext(c, a)
    PROVE  (\E m \in Mail : \E p \in Path : MergeStep(a, m, p)) /\ BodiesKept /\ ChunksKept
<1>1. PICK p \in conn[c].left :
          /\ manifest' = [manifest EXCEPT ![a] = Apply(@, p, conn[c].body[p])]
          /\ conn' = [conn EXCEPT ![c].left = @ \ {p}]
    BY DEF ApplyNext
<1>2. conn[c] \in Messages /\ conn[c].left \subseteq DOMAIN conn[c].body
    BY ExchangeUse DEF Typed, ConnTyped
<1>3. p \in Path /\ p \in DOMAIN conn[c].body /\ conn[c].body[p] \in Entry
    BY <1>2, ManifestsUse DEF Messages
<1>4. conn[c].body \in Mail
    BY <1>3, MailUse, EmptyManifestType
<1>5. /\ conn'[c].stage = conn[c].stage /\ conn'[c].body = conn[c].body
      /\ conn'[c].peer = conn[c].peer
      /\ \A b \in Agent \ {c} : conn'[b] = conn[b]
      /\ late' = late
    BY <1>1, <1>2 DEF Typed, ConnTyped, Messages, ApplyNext
<1>6. BodiesKept
    BY <1>5 DEF BodiesKept, Mail
<1>7. ASSUME NEW b, b # a
      PROVE  b \in HalfMerged' <=> b \in HalfMerged
    <2>1. ASSUME NEW d \in Agent
          PROVE  HalfInto(d, b)' <=> HalfInto(d, b)
        BY <1>5, <1>7 DEF HalfInto, HalfServing
    <2>2. b \in HalfMerged' <=> \E d \in Agent : HalfInto(d, b)'
        BY DEF HalfMerged, HalfInto, HalfServing
    <2> QED
        BY <2>1, <2>2, HalfMergedUse
<1>8. HalfMerged' \in {HalfMerged \ {a}, HalfMerged \cup {a}}
    BY <1>7, SameButOne
<1>9. MergeStep(a, conn[c].body, p)
    BY <1>1, <1>3, <1>4, <1>8 DEF MergeStep, ApplyNext
<1> QED
    BY <1>3, <1>4, <1>6, <1>9 DEF ChunksKept, ApplyNext

LEMMA LateApplySteps ==
    ASSUME Typed, NEW c \in Agent, LateApply(c)
    PROVE  /\ \E a \in Agent : \E m \in Mail : \E p \in Path : MergeStep(a, m, p)
           /\ BodiesKept /\ ChunksKept
<1> DEFINE a == late[c].peer
<1>1. PICK p \in late[c].left :
          /\ manifest' = [manifest EXCEPT ![a] = Apply(@, p, late[c].body[p])]
          /\ late' = [late EXCEPT ![c].left = @ \ {p}]
    BY DEF LateApply
<1>2. late[c] \in Messages /\ late[c].left \subseteq DOMAIN late[c].body /\ a \in Agent
    BY ExchangeUse DEF Typed, ConnTyped, LateApply, Messages
<1>3. p \in Path /\ p \in DOMAIN late[c].body /\ late[c].body[p] \in Entry
    BY <1>2, ManifestsUse DEF Messages
<1>4. late[c].body \in Mail
    BY <1>3, MailUse, EmptyManifestType DEF LateApply
<1>5. /\ late'[c].stage = late[c].stage /\ late'[c].body = late[c].body
      /\ late'[c].peer = late[c].peer
      /\ \A b \in Agent \ {c} : late'[b] = late[b]
      /\ conn' = conn
    BY <1>1, <1>2 DEF Typed, ConnTyped, Messages, LateApply
<1>6. BodiesKept
    BY <1>5 DEF BodiesKept, Mail
<1>7. ASSUME NEW b, b # a
      PROVE  b \in HalfMerged' <=> b \in HalfMerged
    <2>1. ASSUME NEW d \in Agent
          PROVE  HalfInto(d, b)' <=> HalfInto(d, b)
        BY <1>5, <1>7 DEF HalfInto, HalfServing
    <2>2. b \in HalfMerged' <=> \E d \in Agent : HalfInto(d, b)'
        BY DEF HalfMerged, HalfInto, HalfServing
    <2> QED
        BY <2>1, <2>2, HalfMergedUse
<1>8. HalfMerged' \in {HalfMerged \ {a}, HalfMerged \cup {a}}
    BY <1>7, SameButOne
<1>9. MergeStep(a, late[c].body, p)
    BY <1>1, <1>3, <1>4, <1>8 DEF MergeStep, LateApply
<1> QED
    BY <1>2, <1>3, <1>4, <1>6, <1>9 DEF ChunksKept, LateApply

\* A step that replaces c's late exchange by x, outside the turns of a merge.
LEMMA LatePutMail ==
    ASSUME ConnTyped, NEW c \in Agent, NEW x, late' = [late EXCEPT ![c] = x], UNCHANGED conn,
           x.stage = "idle" \/ (late[c].stage # "idle" /\ x.body = late[c].body),
           Whole(late[c]) /\ Whole(x)
    PROVE  BodiesKept /\ UNCHANGED HalfMerged
<1>1. late'[c] = x /\ \A b \in Agent \ {c} : late'[b] = late[b]
    BY DEF ConnTyped
<1>2. BodiesKept
    BY <1>1 DEF BodiesKept, Mail
<1>3. ASSUME NEW b \in Agent, NEW a
      PROVE  HalfInto(b, a)' <=> HalfInto(b, a)
    <2>1. CASE b = c
        BY <1>1, <2>1 DEF HalfInto, HalfServing, Whole
    <2>2. CASE b # c
        BY <1>1, <2>2 DEF HalfInto, HalfServing
    <2> QED
        BY <2>1, <2>2
<1>4. \A a : a \in HalfMerged' <=> \E b \in Agent : HalfInto(b, a)'
    BY DEF HalfMerged, HalfInto, HalfServing
<1>5. \A a : a \in HalfMerged' <=> a \in HalfMerged
    BY <1>3, <1>4, HalfMergedUse
<1>6. HalfMerged' = {a \in HalfMerged' : TRUE} /\ HalfMerged = {a \in HalfMerged : TRUE}
    OBVIOUS
<1> QED
    BY <1>2, <1>5, <1>6

\* An exchange that is not yet done goes on beside the next.
LEMMA DialMail ==
    ASSUME Typed, NEW c \in Agent, Dial(c)
    PROVE  BodiesKept /\ UNCHANGED HalfMerged
<1> DEFINE x == Exchange("request", Peers[c][dialed[c] + 1], manifest[c], {}, {})
<1>1. /\ conn'[c] = x /\ x.stage = "request" /\ x.body = manifest[c] /\ Unlocked(c)
      /\ \A b \in Agent \ {c} : conn'[b] = conn[b] /\ late'[b] = late[b]
      /\ \/ conn[c].stage = "idle" /\ late'[c] = late[c]
         \/ late[c].stage = "idle" /\ late'[c] = conn[c]
    BY DEF Dial, Exchange, Typed, ConnTyped
<1>2. conn[c].stage # "merging"
    BY DEF Dial, Dialing, Typed, ConnTyped, Waiting, AwaitedStages
<1>3. BodiesKept
    <2> SUFFICES ASSUME NEW m \in Mail'
                 PROVE  m \in Mail \/ \E a \in Agent : Unlocked(a) /\ m = manifest[a]
        BY DEF BodiesKept
    <2>1. m # EmptyManifest
        BY DEF Mail
    <2>2. PICK b \in Agent : \/ conn'[b].stage # "idle" /\ conn'[b].body = m
                             \/ late'[b].stage # "idle" /\ late'[b].body = m
        BY DEF Mail
    <2>3. CASE b # c
        BY <1>1, <2>1, <2>2, <2>3, MailUse
    <2>4. CASE b = c
        BY <1>1, <2>1, <2>2, <2>4, MailUse
    <2> QED
        BY <2>3, <2>4
<1>4. ASSUME NEW b \in Agent, NEW a
      PROVE  HalfInto(b, a)' <=> HalfInto(b, a)
    <2>1. CASE b = c
        BY <1>1, <1>2, <2>1 DEF HalfInto, HalfServing
    <2>2. CASE b # c
        BY <1>1, <2>2 DEF HalfInto, HalfServing
    <2> QED
        BY <2>1, <2>2
<1>5. \A a : a \in HalfMerged' <=> \E b \in Agent : HalfInto(b, a)'
    BY DEF HalfMerged, HalfInto, HalfServing
<1>6. \A a : a \in HalfMerged' <=> a \in HalfMerged
    BY <1>4, <1>5, HalfMergedUse
<1>7. HalfMerged' = {a \in HalfMerged' : TRUE} /\ HalfMerged = {a \in HalfMerged : TRUE}
    OBVIOUS
<1> QED
    BY <1>3, <1>6, <1>7

\* What is left of a dropped exchange is the exchange, or nothing.
LEMMA DroppedCases ==
    ASSUME NEW c \in Agent, NEW left \in Dropped(c)
    PROVE  left.stage = "idle" \/ (left = conn[c] /\ conn[c].stage \in {"request", "serving"})
<1>1. CASE conn[c].stage = "request"
    BY <1>1, IdleType DEF Dropped
<1>2. CASE conn[c].stage = "serving"
    BY <1>2, IdleType DEF Dropped
<1>3. CASE conn[c].stage # "request" /\ conn[c].stage # "serving"
    <2>1. Dropped(c) = {Idle}
        BY <1>3 DEF Dropped
    <2> QED
        BY <2>1, IdleType
<1> QED
    BY <1>1, <1>2, <1>3

\* The client gives up: what its server has merged of its snapshot stays.
LEMMA ExchangeFailsMail ==
    ASSUME Typed, NEW c \in Agent, ExchangeFails(c)
    PROVE  BodiesKept /\ UNCHANGED HalfMerged
<1>1. PICK left \in Dropped(c) : conn' = [conn EXCEPT ![c] = left]
    BY DEF ExchangeFails
<1>2. UNCHANGED late /\ (conn[c].stage = "merging" => conn[c].left = {})
    BY DEF ExchangeFails
<1>3. CASE left = conn[c]
    <2>1. conn' = conn
        BY <1>1, <1>3 DEF Typed, ConnTyped
    <2> QED
        BY <1>2, <2>1, ConnKeepsMail DEF connVars
<1>4. CASE left.stage = "idle" /\ left # conn[c]
    <2>1. Whole(left) /\ conn[c].stage # "serving"
        BY <1>4 DEF Whole, Dropped
    <2>2. Whole(conn[c])
        BY <1>2, <2>1 DEF Whole
    <2> QED
        BY <1>1, <1>2, <1>4, <2>1, <2>2, ConnPutMail DEF Typed
<1> QED
    BY <1>3, <1>4, DroppedCases

\* A kill cuts the merges into a's manifest short, and no other.
LEMMA RestartMail ==
    ASSUME Typed, NEW a \in Agent, Restart(a)
    PROVE  BodiesKept /\ HalfMerged' = HalfMerged \ {a}
<1>1. PICK left \in Orphaned(a) :
          conn' = [c \in Agent |-> IF c = a THEN left ELSE AfterDeath(c, a)]
    BY DEF Restart, Reborn
<1>2. late' = [c \in Agent |-> LateAfterDeath(c, a)]
    BY DEF Restart, Reborn
<1>3. ASSUME NEW c \in Agent, conn'[c].stage # "idle"
      PROVE  /\ conn[c].stage # "idle" /\ conn'[c].body = conn[c].body
             /\ \/ conn'[c] = conn[c] /\ conn[c].peer # a
                   /\ (c = a => conn[c].stage # "merging")
                \/ conn'[c].stage \notin {"serving", "merging"} /\ conn[c].peer = a
                   /\ conn[c].stage # "merging"
                \/ /\ c # a /\ conn'[c].stage = conn[c].stage /\ conn[c].stage # "serving"
                   /\ conn'[c].left = conn[c].left
    <2>1. conn[c].stage # "idle" => conn[c] \in Messages
        BY ExchangeUse DEF Typed, ConnTyped
    <2>2. CASE c = a
        <3>1. conn'[c] = left
            BY <1>1, <2>2
        <3>2. left = conn[c] /\ conn[c].stage \in {"request", "serving"} /\ conn[c].peer # a
            <4>1. ~(conn[a].stage # "idle" /\ conn[a].peer = a)
                BY <1>3, <2>2, <3>1, IdleType DEF Orphaned
            <4>2. left \in Dropped(a)
                BY <4>1 DEF Orphaned
            <4> QED
                BY <1>3, <2>2, <3>1, <4>1, <4>2, DroppedCases
        <3> QED
            BY <2>2, <3>1, <3>2
    <2>3. CASE c # a
        <3>1. conn'[c] = AfterDeath(c, a)
            BY <1>1, <2>3
        <3>2. CASE conn[c].stage = "idle" \/ conn[c].peer # a
            BY <1>3, <2>3, <3>1, <3>2 DEF AfterDeath
        <3>3. CASE /\ ~(conn[c].stage = "idle" \/ conn[c].peer # a)
                   /\ conn[c].stage \in {"request", "serving", "ask"}
            <4>1. conn'[c] = [conn[c] EXCEPT !.stage = "broken", !.left = {}]
                BY <1>3, <3>1, <3>3, IdleType DEF AfterDeath
            <4> QED
                BY <2>1, <2>3, <3>3, <4>1 DEF Messages
        <3>4. CASE /\ ~(conn[c].stage = "idle" \/ conn[c].peer # a)
                   /\ conn[c].stage \notin {"request", "serving", "ask"}
            <4>1. conn'[c] = [conn[c] EXCEPT !.alive = FALSE]
                BY <3>1, <3>4 DEF AfterDeath
            <4> QED
                BY <2>1, <2>3, <3>4, <4>1 DEF Messages
        <3> QED
            BY <3>2, <3>3, <3>4
    <2> QED
        BY <2>2, <2>3
<1>4. ASSUME NEW c \in Agent, late'[c].stage # "idle"
      PROVE  late'[c] = late[c] /\ late[c].peer # a
    BY <1>2, <1>4, IdleType DEF LateAfterDeath
<1>5. BodiesKept
    <2> SUFFICES ASSUME NEW m \in Mail'
                 PROVE  m \in Mail
        BY DEF BodiesKept
    <2>1. m # EmptyManifest
        BY DEF Mail
    <2>2. PICK b \in Agent : \/ conn'[b].stage # "idle" /\ conn'[b].body = m
                             \/ late'[b].stage # "idle" /\ late'[b].body = m
        BY DEF Mail
    <2>3. \/ conn[b].stage # "idle" /\ conn[b].body = m
          \/ late[b].stage # "idle" /\ late[b].body = m
        BY <1>3, <1>4, <2>2
    <2> QED
        BY <2>1, <2>3, MailUse
<1>6. ASSUME NEW b \in Agent, NEW d, HalfInto(b, d)'
      PROVE  d # a /\ HalfInto(b, d)
    <2>1. CASE HalfServing(conn[b], d)'
        <3>1. conn'[b].stage = "serving" /\ conn'[b].peer = d
            BY <2>1 DEF HalfServing
        <3>2. conn'[b] = conn[b] /\ conn[b].peer # a
            BY <1>3, <3>1
        <3> QED
            BY <2>1, <3>1, <3>2 DEF HalfInto, HalfServing
    <2>2. CASE HalfServing(late[b], d)'
        <3>1. late'[b].stage = "serving" /\ late'[b].peer = d
            BY <2>2 DEF HalfServing
        <3> QED
            BY <1>4, <2>2, <3>1 DEF HalfInto, HalfServing
    <2>3. CASE b = d /\ conn'[b].stage = "merging" /\ conn'[b].left \notin {{}, DOMAIN conn'[b].body}
        BY <1>3, <2>3 DEF HalfInto
    <2> QED
        BY <1>6, <2>1, <2>2, <2>3 DEF HalfInto, HalfServing
<1>7. ASSUME NEW b \in Agent, NEW d, d # a, HalfInto(b, d)
      PROVE  HalfInto(b, d)'
    <2>1. CASE HalfServing(late[b], d)
        <3>1. late'[b] = late[b]
            BY <1>2, <1>7, <2>1 DEF LateAfterDeath, HalfServing
        <3> QED
            BY <2>1, <3>1 DEF HalfInto, HalfServing
    <2>2. CASE HalfServing(conn[b], d)
        <3>1. conn[b].stage = "serving" /\ conn[b].peer = d
            BY <2>2 DEF HalfServing
        <3>2. conn'[b] = conn[b]
            <4>1. CASE b = a
                <5>1. left \in Dropped(a)
                    BY <1>7, <3>1, <4>1 DEF Orphaned
                <5>2. left = conn[a]
                    BY <3>1, <4>1, <5>1 DEF Dropped
                <5> QED
                    BY <1>1, <4>1, <5>2
            <4>2. CASE b # a
                <5>1. conn[b].peer # a
                    BY <1>7, <3>1
                <5>2. AfterDeath(b, a) = conn[b]
                    BY <5>1 DEF AfterDeath
                <5> QED
                    BY <1>1, <4>2, <5>2
            <4> QED
                BY <4>1, <4>2
        <3> QED
            BY <2>2, <3>2 DEF HalfInto, HalfServing
    <2>3. CASE b = d /\ conn[b].stage = "merging" /\ conn[b].left \notin {{}, DOMAIN conn[b].body}
        <3>1. conn[b] \in Messages
            BY <2>3, ExchangeUse DEF Typed, ConnTyped
        <3>2. conn'[b] = AfterDeath(b, a)
            BY <1>1, <1>7, <2>3
        <3>3. conn'[b] = conn[b] \/ conn'[b] = [conn[b] EXCEPT !.alive = FALSE]
            BY <2>3, <3>2 DEF AfterDeath
        <3>4. /\ conn'[b].stage = conn[b].stage /\ conn'[b].left = conn[b].left
              /\ conn'[b].body = conn[b].body
            BY <3>1, <3>3 DEF Messages
        <3> QED
            BY <2>3, <3>4 DEF HalfInto
    <2> QED
        BY <1>7, <2>1, <2>2, <2>3 DEF HalfInto
<1>8. \A d : d \in HalfMerged' <=> \E b \in Agent : HalfInto(b, d)'
    BY DEF HalfMerged, HalfInto, HalfServing
<1>9. \A d : d \in HalfMerged' <=> d \in HalfMerged \ {a}
    BY <1>6, <1>7, <1>8, HalfMergedUse
<1>10. HalfMerged' = {d \in HalfMerged' : TRUE}
    OBVIOUS
<1> QED
    BY <1>5, <1>9, <1>10

\* The steps that leave manifests, saved files and exchanges alone.
LEMMA LocalSteps ==
    ASSUME Typed, NEW a \in Agent,
           \/ UserStep(a) \/ ListFiles(a) \/ ReadFile(a) \/ ScanVanished(a) \/ ScanDone(a)
           \/ Snapshot(a) \/ Materialize(a) \/ ReadFails(a) \/ DialRefused(a)
           \/ MaterializeFails(a) \/ SaveFails(a) \/ WriteChunk(a) \/ WriteChunkFails(a)
    PROVE  UNCHANGED <<manifest, saved, connVars>> /\ ChunksKept
<1>1. UNCHANGED chunks => ChunksKept
    BY DEF ChunksKept
<1>2. CASE UserStep(a)
    BY <1>1, <1>2 DEF UserStep, UserDelete, UserWrite, UserChanges, storeVars
<1>3. CASE ListFiles(a) \/ ReadFile(a) \/ ScanDone(a) \/ Snapshot(a) \/ Materialize(a)
    BY <1>1, <1>3 DEF ListFiles, ReadFile, ScanDone, Snapshot, Materialize, storeVars
<1>4. CASE ScanVanished(a) \/ ReadFails(a)
    BY <1>1, <1>4 DEF ScanVanished, ReadFails, ScanEnds
<1>5. CASE DialRefused(a) \/ MaterializeFails(a) \/ SaveFails(a)
    BY <1>1, <1>5 DEF DialRefused, MaterializeFails, SaveFails, storeVars
<1>6. CASE WriteChunk(a)
    <2>1. ChunksKept
        BY <1>6 DEF WriteChunk, ChunksKept, Typed, StoresTyped
    <2> QED
        BY <1>6, <2>1 DEF WriteChunk
<1>7. CASE WriteChunkFails(a)
    <2>1. ChunksKept
        BY <1>7, ChunkCutShortTyped DEF WriteChunkFails, ChunksKept
    <2> QED
        BY <1>7, <2>1 DEF WriteChunkFails, ScanEnds
<1> QED
    BY <1>2, <1>3, <1>4, <1>5, <1>6, <1>7

LEMMA TakeInSteps ==
    ASSUME Typed, NEW a \in Agent, TakeIn(a)
    PROVE  /\ UNCHANGED <<saved, connVars, chunks>>
           /\ UNCHANGED manifest \/ \E p \in Path : \E e \in Entry : AuthorStep(a, p, e)
<1> DEFINE p == hand[a].path
           content == hand[a].content
<1>1. /\ hand[a] \in Hands /\ pc[a] = "store" /\ hand[a].stored = Len(content)
      /\ UNCHANGED <<saved, connVars, chunks>>
      /\ UNCHANGED manifest \/ AuthorEntry(a, p, content, FALSE)
    BY DEF TakeIn, Typed, LoopTyped
<1>2. p \in Path /\ content \in Content /\ content \in Seq(Hash)
    BY <1>1, HandsUse, SequencesAssumption DEF Typed, LoopTyped
<1>3. Stored => Hashes(content) \subseteq chunks'[a]
    <2>1. DOMAIN content = 1 .. hand[a].stored
        BY <1>1, <1>2
    <2> QED
        BY <1>1, <2>1 DEF Stored, Hashes
<1> QED
    BY <1>1, <1>2, <1>3, AuthorEntrySteps

LEMMA ScanTombSteps ==
    ASSUME Typed, NEW a \in Agent, ScanTomb(a)
    PROVE  /\ UNCHANGED <<saved, connVars, chunks>>
           /\ \E p \in Path : \E e \in Entry : AuthorStep(a, p, e)
<1>1. PICK p \in Vanished(a) : AuthorEntry(a, p, <<>>, TRUE)
    BY DEF ScanTomb
<1>2. p \in Path /\ <<>> \in Content
    BY ContentAssumption, ManifestsUse DEF Vanished, Typed, StoresTyped
<1>3. Hashes(<<>>) \subseteq chunks'[a] /\ UNCHANGED <<saved, connVars, chunks>>
    BY EmptyHashes DEF ScanTomb
<1> QED
    BY <1>1, <1>2, <1>3, AuthorEntrySteps

\* The steps of an exchange, but for the turns of its merges.
LEMMA ExchangeSteps ==
    ASSUME Typed, NEW c \in Agent,
           \/ Dial(c) \/ ReceiveReply(c) \/ AskChunks(c) \/ StoreChunk(c) \/ ExchangeDone(c)
           \/ ServeBegin(c) \/ ServeReply(c) \/ SendChunks(c) \/ LateBegin(c) \/ LateReply(c)
           \/ ExchangeFails(c)
    PROVE  BodiesKept /\ ChunksKept /\ QuietStep
<1> USE DEF Typed
<1>1. UNCHANGED chunks => ChunksKept
    BY DEF ChunksKept
<1>2. conn[c].stage # "idle" =>
          conn[c] \in Messages /\ conn[c].left \subseteq DOMAIN conn[c].body
    BY ExchangeUse DEF ConnTyped
<1>3. late[c].stage # "idle" => late[c] \in Messages
    BY ExchangeUse DEF ConnTyped
<1>4. CASE Dial(c)
    <2>1. UNCHANGED <<manifest, saved, chunks>>
        BY <1>4 DEF Dial, storeVars
    <2> QED
        BY <1>1, <1>4, <2>1, DialMail DEF QuietStep
<1>5. CASE ReceiveReply(c) \/ ServeBegin(c)
    <2>1. PICK s \in Agent, stage \in {"serving", "merging"} : BeginMerge(c, s, stage)
        BY <1>2, <1>5 DEF ReceiveReply, ServeBegin, Messages
    <2> DEFINE x == [conn[c] EXCEPT !.stage = stage, !.left = DOMAIN conn[c].body]
    <2>2. conn[c].stage \in {"request", "reply"}
        BY <1>5 DEF ReceiveReply, ServeBegin
    <2>3. conn' = [conn EXCEPT ![c] = x] /\ x.body = conn[c].body /\ x.left = DOMAIN x.body
        BY <1>2, <2>1, <2>2 DEF BeginMerge, ConnTyped, Messages
    <2>4. Whole(conn[c]) /\ Whole(x)
        BY <2>2, <2>3 DEF Whole
    <2>5. UNCHANGED <<manifest, saved, chunks, late>>
        BY <2>1 DEF BeginMerge, ConnOnly, storeVars
    <2> QED
        BY <1>1, <2>2, <2>3, <2>4, <2>5, ConnPutMail DEF QuietStep
<1>6. CASE AskChunks(c)
    <2> DEFINE x == IF conn[c].alive
                    THEN Exchange("ask", conn[c].peer, EmptyManifest, {}, Missing(c))
                    ELSE [conn[c] EXCEPT !.stage = "broken"]
    <2>1. conn' = [conn EXCEPT ![c] = x] /\ conn[c].stage = "merging" /\ conn[c].left = {}
        BY <1>6 DEF AskChunks, ConnTyped
    <2>2. (x.body = EmptyManifest \/ x.body = conn[c].body) /\ x.stage \in {"ask", "broken"}
        BY <1>2, <2>1 DEF Exchange, Messages
    <2>3. Whole(conn[c]) /\ Whole(x)
        BY <2>1, <2>2 DEF Whole
    <2>4. UNCHANGED <<manifest, saved, chunks, late>>
        BY <1>6 DEF AskChunks, ConnOnly, storeVars
    <2> HIDE DEF x
    <2> QED
        BY <1>1, <2>1, <2>2, <2>3, <2>4, ConnPutMail DEF QuietStep
<1>7. CASE StoreChunk(c)
    <2>1. PICK h \in conn[c].hashes :
              /\ chunks' = [chunks EXCEPT ![c] = @ \cup {h}]
              /\ conn' = [conn EXCEPT ![c].hashes = @ \ {h}]
        BY <1>7 DEF StoreChunk
    <2> DEFINE x == [conn[c] EXCEPT !.hashes = @ \ {h}]
    <2>2. /\ conn' = [conn EXCEPT ![c] = x] /\ x.body = conn[c].body
          /\ x.stage = "chunks" /\ conn[c].stage = "chunks"
        BY <1>2, <1>7, <2>1 DEF StoreChunk, ConnTyped, Messages
    <2>3. Whole(conn[c]) /\ Whole(x)
        BY <2>2 DEF Whole
    <2>4. ChunksKept
        BY <2>1 DEF ChunksKept, StoresTyped
    <2>5. UNCHANGED <<manifest, saved, late>>
        BY <1>7 DEF StoreChunk
    <2> QED
        BY <2>2, <2>3, <2>4, <2>5, ConnPutMail DEF QuietStep
<1>8. CASE ExchangeDone(c)
    <2>1. Whole(conn[c]) /\ Whole(Idle) /\ Idle.stage = "idle"
        BY <1>8, IdleType DEF ExchangeDone, Whole
    <2>2. UNCHANGED <<manifest, saved, chunks, late>> /\ conn' = [conn EXCEPT ![c] = Idle]
        BY <1>8 DEF ExchangeDone, storeVars
    <2> QED
        BY <1>1, <2>1, <2>2, ConnPutMail DEF QuietStep
<1>9. CASE ServeReply(c)
    <2> DEFINE x == IF Waiting(c)
                    THEN Exchange("reply", conn[c].peer, manifest[conn[c].peer], {}, {})
                    ELSE Idle
    <2>1. /\ conn' = [conn EXCEPT ![c] = x] /\ conn[c].peer \in Agent /\ Unlocked(conn[c].peer)
          /\ conn[c].stage = "serving" /\ conn[c].left = {}
        BY <1>2, <1>9 DEF ServeReply, ConnTyped, Messages
    <2>2. /\ x.stage = "idle" \/ x.body = manifest[conn[c].peer]
          /\ x.stage \in {"idle", "reply"}
        BY IdleType DEF Exchange
    <2>3. Whole(conn[c]) /\ Whole(x)
        BY <2>1, <2>2 DEF Whole
    <2>4. UNCHANGED <<manifest, saved, chunks, late>>
        BY <1>9 DEF ServeReply, ConnOnly, storeVars
    <2> HIDE DEF x
    <2> QED
        BY <1>1, <2>1, <2>2, <2>3, <2>4, ConnPutMail DEF QuietStep
<1>10. CASE SendChunks(c)
    <2> DEFINE x == [conn[c] EXCEPT !.stage = "chunks",
                                    !.hashes = @ \cap chunks[conn[c].peer]]
    <2>1. /\ conn' = [conn EXCEPT ![c] = x] /\ x.body = conn[c].body
          /\ x.stage = "chunks" /\ conn[c].stage = "ask"
        BY <1>2, <1>10 DEF SendChunks, ConnTyped, Messages
    <2>2. Whole(conn[c]) /\ Whole(x)
        BY <2>1 DEF Whole
    <2>3. UNCHANGED <<manifest, saved, chunks, late>>
        BY <1>10 DEF SendChunks, ConnOnly, storeVars
    <2> QED
        BY <1>1, <2>1, <2>2, <2>3, ConnPutMail DEF QuietStep
<1>11. CASE LateBegin(c)
    <2> DEFINE x == [late[c] EXCEPT !.stage = "serving", !.left = DOMAIN late[c].body]
    <2>1. /\ late' = [late EXCEPT ![c] = x] /\ x.body = late[c].body
          /\ x.left = DOMAIN x.body /\ late[c].stage = "request"
        BY <1>3, <1>11 DEF LateBegin, ConnTyped, Messages
    <2>2. Whole(late[c]) /\ Whole(x)
        BY <2>1 DEF Whole
    <2>3. UNCHANGED <<manifest, saved, chunks, conn>>
        BY <1>11 DEF LateBegin, storeVars
    <2> QED
        BY <1>1, <2>1, <2>2, <2>3, LatePutMail DEF QuietStep
<1>12. CASE LateReply(c)
    <2>1. Whole(late[c]) /\ Whole(Idle) /\ Idle.stage = "idle"
        BY <1>12, IdleType DEF LateReply, Whole
    <2>2. UNCHANGED <<manifest, saved, chunks, conn>> /\ late' = [late EXCEPT ![c] = Idle]
        BY <1>12 DEF LateReply, storeVars
    <2> QED
        BY <1>1, <2>1, <2>2, LatePutMail DEF QuietStep
<1>13. CASE ExchangeFails(c)
    <2>1. ChunksKept
        BY <1>13, ChunkCutShortTyped DEF ExchangeFails, ChunksKept
    <2>2. UNCHANGED <<manifest, saved>>
        BY <1>13 DEF ExchangeFails
    <2> QED
        BY <1>13, <2>1, <2>2, ExchangeFailsMail DEF QuietStep
<1> QED
    BY <1>4, <1>5, <1>6, <1>7, <1>8, <1>9, <1>10, <1>11, <1>12, <1>13

LEMMA ManifestSteps ==
    ASSUME Typed, Next
    PROVE  /\ BodiesKept /\ ChunksKept
           /\ \/ QuietStep
              \/ \E a \in Agent : \E p \in Path : \E e \in Entry : AuthorStep(a, p, e)
              \/ \E a \in Agent : \E m \in Mail : \E p \in Path : MergeStep(a, m, p)
              \/ \E a \in Agent : SaveStep(a)
              \/ \E a \in Agent : RestartStep(a)
<1>1. PICK a \in Agent : UserStep(a) \/ MainStep(a) \/ ServerStep(a) \/ Failure(a)
    BY DEF Next
<1>2. UNCHANGED chunks => ChunksKept
    BY DEF ChunksKept
<1>3. ASSUME UNCHANGED <<manifest, saved, connVars>>, ChunksKept
      PROVE  BodiesKept /\ ChunksKept /\ QuietStep
    BY <1>3, ConnKeepsMail DEF QuietStep
<1>4. CASE \/ UserStep(a) \/ ListFiles(a) \/ ReadFile(a) \/ ScanVanished(a) \/ ScanDone(a)
           \/ Snapshot(a) \/ Materialize(a) \/ ReadFails(a) \/ DialRefused(a)
           \/ MaterializeFails(a) \/ SaveFails(a) \/ WriteChunk(a) \/ WriteChunkFails(a)
    BY <1>3, <1>4, LocalSteps
<1>5. CASE TakeIn(a)
    <2>1. BodiesKept /\ ChunksKept
        BY <1>2, <1>5, TakeInSteps, ConnKeepsMail
    <2> QED
        BY <1>3, <1>5, <2>1, TakeInSteps
<1>6. CASE ScanTomb(a)
    BY <1>2, <1>6, ScanTombSteps, ConnKeepsMail
<1>7. CASE \/ Dial(a) \/ ReceiveReply(a) \/ AskChunks(a) \/ StoreChunk(a) \/ ExchangeDone(a)
           \/ ServeBegin(a) \/ ServeReply(a) \/ SendChunks(a) \/ LateBegin(a) \/ LateReply(a)
           \/ ExchangeFails(a)
    BY <1>7, ExchangeSteps
<1>8. CASE MergeApply(a)
    BY <1>8, ApplyNextSteps DEF MergeApply
<1>9. CASE ServeApply(a)
    <2>1. conn[a].peer \in Agent
        BY <1>9, ExchangeUse DEF ServeApply, Typed, ConnTyped, Messages
    <2> QED
        BY <1>9, <2>1, ApplyNextSteps DEF ServeApply
<1>10. CASE LateApply(a)
    BY <1>10, LateApplySteps
<1>11. CASE Save(a)
    <2>1. SaveStep(a) /\ UNCHANGED <<connVars, chunks>>
        BY <1>11 DEF Save, SaveStep, storeVars
    <2> QED
        BY <1>2, <2>1, ConnKeepsMail
<1>12. CASE Restart(a)
    <2>1. RestartStep(a)
        BY <1>12, RestartMail DEF RestartStep, Restart, Reborn
    <2>2. ChunksKept
        BY <1>2, <1>12, ChunkCutShortTyped DEF Restart, Reborn, ChunksKept
    <2> QED
        BY <1>12, <2>1, <2>2, RestartMail
<1> QED
    BY <1>1, <1>4, <1>5, <1>6, <1>7, <1>8, <1>9, <1>10, <1>11, <1>12
    DEF MainStep, ServerStep, Failure

------------------------------------------------------------------------------
\* Memory covers manifest.json: entries only rise in memory, and a save or a
\* restart makes the two equal.

LEMMA ApplyCoversSaved ==
    ASSUME Typed, MemoryCoversDisk, NEW a \in Agent, NEW p \in Path, NEW e \in Entry,
           manifest' = [manifest EXCEPT ![a] = Apply(@, p, e)], UNCHANGED saved
    PROVE  MemoryCoversDisk'
<1> SUFFICES ASSUME NEW b \in Agent, NEW q \in DOMAIN saved[b]
             PROVE  /\ q \in DOMAIN manifest'[b]
                    /\ RanksUpTo(saved[b][q], manifest'[b][q])
    BY DEF MemoryCoversDisk
<1>1. /\ manifest[b] \in Manifests /\ saved[b] \in Manifests
      /\ q \in DOMAIN manifest[b] /\ RanksUpTo(saved[b][q], manifest[b][q])
    BY DEF MemoryCoversDisk, Typed, StoresTyped, BoundsTyped
<1>2. CASE b # a
    BY <1>1, <1>2 DEF Typed, StoresTyped
<1>3. CASE b = a
    <2>1. manifest'[b] = Apply(manifest[b], p, e)
        BY <1>3 DEF Typed, StoresTyped
    <2>2. /\ q \in DOMAIN Apply(manifest[b], p, e)
          /\ RanksUpTo(manifest[b][q], Apply(manifest[b], p, e)[q])
        BY <1>1, ApplyRaises
    <2>3. /\ saved[b][q] \in Entry /\ manifest[b][q] \in Entry
          /\ Apply(manifest[b], p, e)[q] \in Entry
        BY <1>1, <2>2, ApplyType, ManifestsUse
    <2> QED
        BY <1>1, <2>1, <2>2, <2>3, RanksTransitive
<1> QED
    BY <1>2, <1>3

LEMMA MemoryCoversInductive ==
    ASSUME Typed, MemoryCoversDisk, [Next]_vars
    PROVE  MemoryCoversDisk'
<1>1. CASE UNCHANGED vars \/ QuietStep
    BY <1>1 DEF vars, storeVars, QuietStep, MemoryCoversDisk
<1>2. ASSUME NEW a \in Agent, NEW p \in Path, NEW e \in Entry, AuthorStep(a, p, e)
      PROVE  MemoryCoversDisk'
    BY <1>2, ApplyCoversSaved DEF AuthorStep
<1>3. ASSUME NEW a \in Agent, NEW m \in Mail, NEW p \in Path, MergeStep(a, m, p)
      PROVE  MemoryCoversDisk'
    BY <1>3, ApplyCoversSaved DEF MergeStep
<1>4. ASSUME NEW a \in Agent,
             SaveStep(a) \/ RestartStep(a)
      PROVE  MemoryCoversDisk'
    <2> SUFFICES ASSUME NEW b \in Agent, NEW q \in DOMAIN saved'[b]
                 PROVE  /\ q \in DOMAIN manifest'[b]
                        /\ RanksUpTo(saved'[b][q], manifest'[b][q])
        BY DEF MemoryCoversDisk
    <2>1. /\ manifest \in [Agent -> Manifests] /\ saved \in [Agent -> Manifests]
        BY DEF Typed, StoresTyped, BoundsTyped
    <2>2. CASE b # a
        BY <1>4, <2>1, <2>2 DEF MemoryCoversDisk, SaveStep, RestartStep
    <2>3. CASE b = a
        <3>1. manifest'[b] = saved'[b] /\ saved'[b] \in Manifests
            BY <1>4, <2>1, <2>3 DEF SaveStep, RestartStep
        <3>2. saved'[b][q] \in Entry
            BY <3>1, ManifestsUse
        <3> QED
            BY <3>1, <3>2, RanksReflexive
    <2> QED
        BY <2>2, <2>3
<1>5. CASE Next
    BY <1>1, <1>2, <1>3, <1>4, <1>5, ManifestSteps
<1> QED
    BY <1>1, <1>5

\* Whatever is saved, merged, failed to save or lost in a kill, an agent's
\* memory is never behind its manifest.json.
THEOREM MemoryCovers == Spec => []MemoryCoversDisk
<1>1. Init => MemoryCoversDisk
    BY EmptyManifestType DEF Init, MemoryCoversDisk
<1>2. Typed /\ MemoryCoversDisk /\ [Next]_vars => MemoryCoversDisk'
    BY MemoryCoversInductive
<1> QED
    BY <1>1, <1>2, TypingHolds, PTL DEF Spec

------------------------------------------------------------------------------
\* The agents implement DurableGossip.

\* An entry that has come in is somewhere, or has changed nothing.
LEMMA ApplyTraces ==
    ASSUME NEW m \in Manifests, NEW p \in Path, NEW e \in Entry, Apply(m, p, e) # m
    PROVE  /\ p \in DOMAIN Apply(m, p, e)
           /\ \E q \in DOMAIN Apply(m, p, e) : Apply(m, p, e)[q] = e
<1> DEFINE n == Apply(m, p, e)
<1>1. is_safe_relative_path(p)
    BY DEF Apply
<1>2. p \in DOMAIN n
    BY <1>1, ApplyCovers
<1>3. CASE n = Insert(m, p, e)
    BY <1>2, <1>3, InsertType
<1>4. CASE p \in DOMAIN m /\ n = ApplyTie(m, p, e)
    <2>1. CASE Winner(m[p], e) = e
        BY <1>2, <1>4, <2>1, TieOutcome
    <2>2. CASE Winner(m[p], e) = m[p] /\ Loser(m[p], e) = e
        <3> DEFINE c == ConflictPath(p, e)
        <3>1. CASE c \notin DOMAIN m
            <4>1. c \in DOMAIN n /\ n[c] = e
                BY <1>4, <2>2, <3>1, TieOutcome
            <4> QED
                BY <1>2, <4>1
        <3>2. CASE c \in DOMAIN m
            <4>1. /\ n \in Manifests
                  /\ \A q : q \in DOMAIN n <=> q \in DOMAIN m
                  /\ n[p] = m[p]
                  /\ \A q \in DOMAIN m : q # p => n[q] = m[q]
                BY <1>4, <2>2, <3>2, TieOutcome
            <4>2. n = [q \in DOMAIN n |-> n[q]] /\ m = [q \in DOMAIN m |-> m[q]]
                BY <4>1, ManifestsUse
            <4>3. DOMAIN n = DOMAIN m /\ \A q \in DOMAIN m : n[q] = m[q]
                BY <4>1
            <4> HIDE DEF n
            <4>4. n = m
                BY <4>2, <4>3
            <4> QED
                BY <4>4 DEF n
        <3> QED
            BY <3>1, <3>2
    <2> QED
        BY <1>4, <2>1, <2>2, TieOutcome
<1> QED
    BY <1>3, <1>4, ApplyCases

\* Whatever threads, exchanges, failures and restarts do, the manifests of the
\* agents are those of replicas that gossip over an unreliable network, take in
\* every message whole before they do anything else, and keep what they save.
THEOREM AgentsImplementGossip == Spec => ManifestsAreDurable
<1> DEFINE view == <<manifest, saved, Mail, HalfMerged>>
<1>1. Init => Gossip!Init
    <2> SUFFICES ASSUME Init PROVE Gossip!Init
        OBVIOUS
    <2>1. Mail = {} /\ HalfMerged = {}
        BY IdleType DEF Init, Mail, HalfMerged
    <2> QED
        BY <2>1 DEF Init, Gossip!Init, EmptyManifest
<1>2. Typed /\ [Next]_vars => [Gossip!Next]_view
    <2> SUFFICES ASSUME Typed, [Next]_vars PROVE Gossip!Next \/ UNCHANGED view
        OBVIOUS
    <2>1. CASE UNCHANGED vars
        BY <2>1 DEF vars, storeVars, Mail, HalfMerged, connVars
    <2>2. CASE Next
        <3>1. Gossip!Traffic
            <4>1. Mail' \subseteq Mail \cup {manifest[a] : a \in {b \in Agent : Unlocked(b)}}
                BY <2>2, ManifestSteps DEF BodiesKept
            <4>2. {b \in Agent : Unlocked(b)} \subseteq Agent \ HalfMerged
                BY HalfMergedLocked
            <4> QED
                BY <4>1, <4>2 DEF Gossip!Traffic
        <3>2. manifest \in [Agent -> Manifests] /\ Mail \subseteq Manifests
            BY MailType DEF Typed, StoresTyped
        <3>3. ASSUME NEW a \in Agent, NEW p \in Path, NEW e \in Entry, AuthorStep(a, p, e)
              PROVE  Gossip!Make(a) \/ UNCHANGED <<manifest, saved, HalfMerged>>
            <4>1. /\ manifest' = [manifest EXCEPT ![a] = Apply(manifest[a], p, e)]
                  /\ manifest'[a] = Apply(manifest[a], p, e)
                  /\ author_of(e) = a /\ UNCHANGED <<saved, HalfMerged>>
                  /\ a \notin HalfMerged
                BY <3>2, <3>3, ConnKeepsMail, HalfMergedLocked DEF AuthorStep, author_of
            <4>2. CASE Apply(manifest[a], p, e) = manifest[a]
                BY <3>2, <4>1, <4>2
            <4>3. CASE Apply(manifest[a], p, e) # manifest[a]
                <5>1. /\ p \in DOMAIN manifest'[a]
                      /\ \E q \in DOMAIN manifest'[a] : manifest'[a][q] = e
                    BY <3>2, <4>1, <4>3, ApplyTraces
                <5> QED
                    BY <4>1, <5>1 DEF Gossip!Make, Gossip!Become
            <4> QED
                BY <4>2, <4>3
        <3>4. ASSUME NEW a \in Agent, NEW m \in Mail, NEW p \in Path, MergeStep(a, m, p)
              PROVE  Gossip!Learn(a)
            <4>1. /\ p \in DOMAIN m /\ UNCHANGED saved
                  /\ manifest' = [manifest EXCEPT ![a] = Apply(manifest[a], p, m[p])]
                  /\ HalfMerged' \in {HalfMerged \ {a}, HalfMerged \cup {a}}
                BY <3>4 DEF MergeStep
            <4> QED
                BY <4>1 DEF Gossip!Learn, Gossip!Become
        <3>5. ASSUME NEW a \in Agent, SaveStep(a)
              PROVE  Gossip!Save(a)
            BY <3>5, ConnKeepsMail, HalfMergedLocked DEF SaveStep, Gossip!Save
        <3>6. ASSUME NEW a \in Agent, RestartStep(a)
              PROVE  Gossip!Crash(a)
            BY <3>6 DEF RestartStep, Gossip!Crash, Gossip!Become
        <3>7. \/ UNCHANGED <<manifest, saved, HalfMerged>>
              \/ \E a \in Agent :
                     Gossip!Make(a) \/ Gossip!Learn(a) \/ Gossip!Save(a) \/ Gossip!Crash(a)
            BY <2>2, <3>3, <3>4, <3>5, <3>6, ManifestSteps DEF QuietStep
        <3> QED
            BY <3>1, <3>7 DEF Gossip!Next
    <2> QED
        BY <2>1, <2>2
<1> HIDE DEF view
<1> QED
    BY <1>1, <1>2, TypingHolds, PTL DEF Spec, ManifestsAreDurable, Gossip!Spec, view

------------------------------------------------------------------------------
\* Authors hold the chunks of what they announce.  Entries travel: the same must
\* be said of what is saved and of what is under way.  A scan stores the chunks
\* of the file in hand one by one, and chunks never go.

\* Every entry of m has its chunks in the author's of the given stores.
HeldIn(store, m) ==
    \A p \in DOMAIN m : Hashes(m[p].chunk_hashes) \subseteq store[m[p].author_pubkey]

AllHeld ==
    /\ Stored
    /\ \A a \in Agent : HeldIn(chunks, manifest[a]) /\ HeldIn(chunks, saved[a])
    /\ \A m \in Mail : HeldIn(chunks, m)

\* Short chunks are where a write was cut off, or where they were fetched.
TornHarmed == \A a \in Agent : torn[a] # {} => a \in harmed

LEMMA StoredInductive ==
    ASSUME Typed, Stored, Next
    PROVE  Stored'
<1> USE DEF Typed
<1>1. PICK a \in Agent : UserStep(a) \/ MainStep(a) \/ ServerStep(a) \/ Failure(a)
    BY DEF Next
<1>2. ChunksKept
    BY ManifestSteps
<1>3. ASSUME \A b \in Agent : pc'[b] = "store" => pc[b] = "store" /\ hand'[b] = hand[b]
      PROVE  Stored'
    BY <1>2, <1>3 DEF Stored, ChunksKept
<1>4. ASSUME NEW place, place # "store", pc' = [pc EXCEPT ![a] = place],
             \A b \in Agent \ {a} : hand'[b] = hand[b]
      PROVE  Stored'
    BY <1>3, <1>4 DEF LoopTyped
<1>5. ASSUME UNCHANGED <<pc, hand>>
      PROVE  Stored'
    BY <1>3, <1>5
<1>6. CASE UserStep(a) \/ ServerStep(a)
    BY <1>5, <1>6 DEF UserStep, UserDelete, UserWrite, UserChanges, loopVars, ServerStep,
       ServeBegin, BeginMerge, ConnOnly, ServeApply, ApplyNext, ServeReply, SendChunks,
       LateBegin, LateApply, LateReply
<1>7. CASE ListFiles(a) \/ ScanDone(a) \/ Snapshot(a) \/ Save(a) \/ SaveFails(a) \/ Dial(a)
           \/ DialRefused(a) \/ ExchangeDone(a) \/ ExchangeFails(a)
    BY <1>4, <1>7 DEF ListFiles, ScanDone, Snapshot, Save, SaveFails, NextTick, Dial,
       DialRefused, ExchangeDone, ExchangeFails, NextPeer, Goto
<1>8. CASE ScanTomb(a) \/ ReceiveReply(a) \/ MergeApply(a) \/ AskChunks(a) \/ StoreChunk(a)
           \/ Materialize(a) \/ MaterializeFails(a)
    BY <1>5, <1>8 DEF ScanTomb, loopVars, ReceiveReply, BeginMerge, ConnOnly, MergeApply, ApplyNext,
       AskChunks, StoreChunk, Materialize, MaterializeFails
<1>9. CASE ScanVanished(a) \/ ReadFails(a) \/ WriteChunkFails(a) \/ TakeIn(a)
    <2>1. /\ \E place \in {"dial", "scan"} : pc' = [pc EXCEPT ![a] = place]
          /\ \A b \in Agent \ {a} : hand'[b] = hand[b]
        BY <1>9 DEF ScanVanished, ReadFails, WriteChunkFails, ScanEnds, TakeIn, Goto, LoopTyped
    <2> QED
        BY <1>4, <2>1
<1>10. CASE Restart(a)
    <2>1. pc' = [pc EXCEPT ![a] = "list"] /\ \A b \in Agent \ {a} : hand'[b] = hand[b]
        BY <1>10 DEF Restart, Reborn, Goto, LoopTyped
    <2> QED
        BY <1>4, <2>1
<1>11. CASE ReadFile(a)
    <2>1. PICK p \in todo[a] \cap DOMAIN disk[a] :
              hand' = [hand EXCEPT ![a] = InHand(p, disk[a][p], 0)]
        BY <1>11 DEF ReadFile
    <2>2. hand'[a].stored = 0 /\ \A b \in Agent \ {a} : hand'[b] = hand[b]
        BY <2>1 DEF InHand, LoopTyped
    <2>3. \A b \in Agent \ {a} : pc'[b] = pc[b]
        BY <1>11 DEF ReadFile, Goto, LoopTyped
    <2> QED
        BY <1>2, <2>2, <2>3 DEF Stored, ChunksKept
<1>12. CASE WriteChunk(a)
    <2> DEFINE h == hand[a].content[hand[a].stored + 1]
    <2>1. /\ pc[a] = "store" /\ hand[a].stored < Len(hand[a].content) /\ pc' = pc
          /\ chunks' = [chunks EXCEPT ![a] = @ \cup {h}]
          /\ hand' = [hand EXCEPT ![a] = [hand[a] EXCEPT !.stored = @ + 1]]
        BY <1>12 DEF WriteChunk, LoopTyped
    <2>2. /\ hand[a] \in [path : Path, content : Content, stored : Nat]
        BY <2>1, HandsUse DEF LoopTyped
    <2>3. hand'[a].stored = hand[a].stored + 1 /\ hand'[a].content = hand[a].content
        BY <2>1, <2>2 DEF LoopTyped
    <2>4. h \in chunks'[a] /\ \A b \in Agent \ {a} : hand'[b] = hand[b]
        BY <2>1 DEF StoresTyped, LoopTyped
    <2>5. ASSUME NEW i \in 1 .. hand'[a].stored
          PROVE  hand'[a].content[i] \in chunks'[a]
        <3>1. i \in 1 .. hand[a].stored \/ i = hand[a].stored + 1
            BY <2>2, <2>3
        <3> QED
            BY <1>2, <2>1, <2>3, <2>4, <3>1 DEF Stored, ChunksKept
    <2>6. ASSUME NEW b \in Agent, b # a, pc'[b] = "store", NEW i \in 1 .. hand'[b].stored
          PROVE  hand'[b].content[i] \in chunks'[b]
        BY <1>2, <2>1, <2>4, <2>6 DEF Stored, ChunksKept
    <2> QED
        BY <2>5, <2>6 DEF Stored
<1> QED
    BY <1>1, <1>6, <1>7, <1>8, <1>9, <1>10, <1>11, <1>12 DEF MainStep, Failure

LEMMA ApplyHeld ==
    ASSUME NEW store, NEW m \in Manifests, NEW p \in Path, NEW e \in Entry,
           HeldIn(store, m), Hashes(e.chunk_hashes) \subseteq store[e.author_pubkey]
    PROVE  HeldIn(store, Apply(m, p, e))
<1> SUFFICES ASSUME NEW q \in DOMAIN Apply(m, p, e)
             PROVE  Hashes(Apply(m, p, e)[q].chunk_hashes)
                        \subseteq store[Apply(m, p, e)[q].author_pubkey]
    BY DEF HeldIn
<1>1. \/ q \in DOMAIN m /\ Apply(m, p, e)[q] = m[q]
      \/ Apply(m, p, e)[q] = e
      \/ p \in DOMAIN m /\ Apply(m, p, e)[q] = m[p]
    BY ApplyOrigin
<1> QED
    BY <1>1 DEF HeldIn

LEMMA HeldInMore ==
    ASSUME ChunksKept, NEW m \in Manifests, HeldIn(chunks, m)
    PROVE  HeldIn(chunks', m)
<1>1. \A p \in DOMAIN m : m[p].author_pubkey \in Agent
    BY ManifestsUse DEF Entry, Agent
<1> QED
    BY <1>1 DEF HeldIn, ChunksKept

LEMMA AllHeldInductive ==
    ASSUME Typed, AllHeld, [Next]_vars
    PROVE  AllHeld'
<1>1. CASE UNCHANGED vars
    BY <1>1 DEF vars, storeVars, loopVars, connVars, AllHeld, Mail, Stored
<1>2. CASE Next
    <2>1. /\ manifest \in [Agent -> Manifests] /\ saved \in [Agent -> Manifests]
          /\ Mail \subseteq Manifests
        BY MailType DEF Typed, StoresTyped, BoundsTyped
    <2>2. BodiesKept /\ ChunksKept
        BY <1>2, ManifestSteps
    <2>3. /\ \A a \in Agent : HeldIn(chunks', manifest[a]) /\ HeldIn(chunks', saved[a])
          /\ \A m \in Mail : HeldIn(chunks', m)
        BY <2>1, <2>2, HeldInMore DEF AllHeld
    <2>4. \A m \in Mail' : HeldIn(chunks', m)
        BY <2>2, <2>3 DEF BodiesKept
    <2>5. ASSUME NEW a \in Agent, NEW p \in Path, NEW e \in Entry,
                 Hashes(e.chunk_hashes) \subseteq chunks'[e.author_pubkey],
                 manifest' = [manifest EXCEPT ![a] = Apply(@, p, e)]
          PROVE  \A b \in Agent : HeldIn(chunks', manifest'[b])
        <3>1. HeldIn(chunks', Apply(manifest[a], p, e))
            BY <2>1, <2>3, <2>5, ApplyHeld
        <3> QED
            BY <2>1, <2>3, <2>5, <3>1
    <2>6. \A b \in Agent : HeldIn(chunks', manifest'[b]) /\ HeldIn(chunks', saved'[b])
        <3>1. CASE QuietStep
            BY <2>3, <3>1 DEF QuietStep
        <3>2. ASSUME NEW a \in Agent, NEW p \in Path, NEW e \in Entry, AuthorStep(a, p, e)
              PROVE  \A b \in Agent : HeldIn(chunks', manifest'[b]) /\ HeldIn(chunks', saved'[b])
            <4>1. /\ Hashes(e.chunk_hashes) \subseteq chunks'[e.author_pubkey]
                  /\ manifest' = [manifest EXCEPT ![a] = Apply(@, p, e)] /\ UNCHANGED saved
                BY <3>2 DEF AuthorStep, AllHeld
            <4> QED
                BY <2>3, <2>5, <4>1
        <3>3. ASSUME NEW a \in Agent, NEW m \in Mail, NEW p \in Path, MergeStep(a, m, p)
              PROVE  \A b \in Agent : HeldIn(chunks', manifest'[b]) /\ HeldIn(chunks', saved'[b])
            <4> DEFINE e == m[p]
            <4>1. Hashes(e.chunk_hashes) \subseteq chunks'[e.author_pubkey] /\ e \in Entry
                BY <2>3, <3>3 DEF MergeStep, HeldIn
            <4> QED
                BY <2>3, <2>5, <3>3, <4>1 DEF MergeStep
        <3>4. ASSUME NEW a \in Agent, SaveStep(a) \/ RestartStep(a)
              PROVE  \A b \in Agent : HeldIn(chunks', manifest'[b]) /\ HeldIn(chunks', saved'[b])
            BY <2>1, <2>3, <3>4 DEF SaveStep, RestartStep
        <3> QED
            BY <1>2, <3>1, <3>2, <3>3, <3>4, ManifestSteps
    <2>7. Stored'
        BY <1>2, StoredInductive DEF AllHeld
    <2> QED
        BY <2>4, <2>6, <2>7 DEF AllHeld
<1> QED
    BY <1>1, <1>2

LEMMA TornInductive ==
    ASSUME Typed, TornHarmed, [Next]_vars
    PROVE  TornHarmed'
<1> USE DEF Typed
<1>1. CASE UNCHANGED vars
    BY <1>1 DEF vars, storeVars, boundVars, TornHarmed
<1>2. CASE Next
    <2>1. PICK a \in Agent : UserStep(a) \/ MainStep(a) \/ ServerStep(a) \/ Failure(a)
        BY <1>2 DEF Next
    <2>2. ASSUME UNCHANGED torn, harmed \subseteq harmed'
          PROVE  TornHarmed'
        BY <2>2 DEF TornHarmed
    <2>3. ASSUME \A b \in Agent \ {a} : torn'[b] = torn[b], Harms(a, torn' # torn)
          PROVE  TornHarmed'
        <3>1. CASE torn' = torn
            BY <2>2, <2>3, <3>1 DEF Harms
        <3>2. CASE torn' # torn
            BY <2>3, <3>2 DEF Harms, TornHarmed
        <3> QED
            BY <3>1, <3>2
    <2>4. CASE UserStep(a) \/ ServerStep(a)
        BY <2>2, <2>4 DEF UserStep, UserDelete, UserWrite, UserChanges, storeVars, boundVars,
           ServerStep, ServeBegin, BeginMerge, ConnOnly, ServeApply, ApplyNext, ServeReply,
           SendChunks, LateBegin, LateApply, LateReply
    <2>5. CASE \/ ListFiles(a) \/ ReadFile(a) \/ WriteChunk(a) \/ TakeIn(a) \/ ScanTomb(a)
               \/ ScanDone(a) \/ ScanVanished(a) \/ ReadFails(a)
        BY <2>2, <2>5 DEF ListFiles, ReadFile, WriteChunk, TakeIn, ScanTomb, ScanDone, storeVars,
           boundVars, ScanVanished, ReadFails
    <2>6. CASE \/ Dial(a) \/ ReceiveReply(a) \/ MergeApply(a) \/ AskChunks(a)
               \/ ExchangeDone(a) \/ DialRefused(a)
        BY <2>2, <2>6 DEF Dial, ReceiveReply, BeginMerge, ConnOnly, MergeApply, ApplyNext, AskChunks,
           ExchangeDone, DialRefused, storeVars, boundVars
    <2>7. CASE Snapshot(a) \/ Materialize(a) \/ Save(a) \/ SaveFails(a)
        BY <2>2, <2>7 DEF Snapshot, Materialize, Save, SaveFails, storeVars, boundVars
    <2>8. CASE MaterializeFails(a)
        BY <2>2, <2>8 DEF MaterializeFails, storeVars, Harms
    <2>9. CASE StoreChunk(a)
        <3>1. \A b \in Agent \ {a} : torn'[b] = torn[b]
            BY <2>9 DEF StoreChunk, StoresTyped
        <3> QED
            BY <2>3, <2>9, <3>1 DEF StoreChunk
    <2>10. CASE WriteChunkFails(a) \/ ExchangeFails(a)
        <3>1. ChunkCutShort(a) /\ Harms(a, torn' # torn)
            BY <2>10 DEF WriteChunkFails, ExchangeFails
        <3> QED
            BY <2>3, <3>1, ChunkCutShortTyped
    <2>11. CASE Restart(a)
        <3>1. harmed' = harmed \cup {a}
            BY <2>11 DEF Restart, Reborn
        <3>2. \A b \in Agent \ {a} : torn'[b] = torn[b]
            BY <2>11, ChunkCutShortTyped DEF Restart, Reborn
        <3> QED
            BY <3>1, <3>2 DEF TornHarmed
    <2> QED
        BY <2>1, <2>4, <2>5, <2>6, <2>7, <2>8, <2>9, <2>10, <2>11 DEF MainStep, Failure
<1> QED
    BY <1>1, <1>2

THEOREM TornAreHarmed == Spec => []TornHarmed
<1>1. Init => TornHarmed
    BY DEF Init, TornHarmed
<1>2. Typed /\ TornHarmed /\ [Next]_vars => TornHarmed'
    BY TornInductive
<1> QED
    BY <1>1, <1>2, TypingHolds, PTL DEF Spec

\* Of any entry in any manifest its author holds the chunks, across merges in
\* every order, and wherever a scan, an exchange or the process was cut short
\* between the store of one chunk and the next or the entry's put; of a chunk
\* whose own write was cut short, it holds a part.
THEOREM AuthorsHold == Spec => []AuthorHoldsChunks
<1>1. Init => AllHeld
    <2> SUFFICES ASSUME Init PROVE AllHeld
        OBVIOUS
    <2>1. Mail = {} /\ Stored
        BY IdleType DEF Init, Mail, Stored
    <2> QED
        BY <2>1, EmptyManifestType DEF Init, AllHeld, HeldIn
<1>2. Typed /\ AllHeld /\ [Next]_vars => AllHeld'
    BY AllHeldInductive
<1>3. Typed /\ AllHeld /\ TornHarmed => AuthorHoldsChunks
    <2> SUFFICES ASSUME Typed, AllHeld, TornHarmed, NEW a \in Agent, NEW p \in DOMAIN manifest[a],
                        NEW h \in Hashes(manifest[a][p].chunk_hashes)
                 PROVE  LET author == manifest[a][p].author_pubkey
                        IN  HasWhole(author, h) \/ (h \in torn[author] /\ ~Unharmed(author))
        BY DEF AuthorHoldsChunks
    <2>1. h \in chunks[manifest[a][p].author_pubkey]
        BY DEF AllHeld, HeldIn
    <2>2. manifest[a] \in Manifests
        BY DEF Typed, StoresTyped
    <2>3. manifest[a][p].author_pubkey \in Agent
        BY <2>2, ManifestsUse DEF Entry, Agent
    <2> QED
        BY <2>1, <2>3 DEF TornHarmed, HasWhole, Unharmed
<1> QED
    BY <1>1, <1>2, <1>3, TypingHolds, TornAreHarmed, PTL DEF Spec
------------------------------------------------------------------------------
\* known_local and the disk.

KnownAgrees(a) ==
    \A p \in DOMAIN disk[a] \cup DOMAIN known[a] : p \in dirty[a] \/ Reflected(a, p)

\* What known_local says is there and is not, a user has removed.
GoneIsDirty(a) ==
    \A p \in DOMAIN known[a] \ DOMAIN disk[a] : known[a][p].tombstone \/ p \in dirty[a]

\* While a scan is under way, a file on disk that is not among those listed was
\* put there by a user since, and the file in hand is what is on disk unless a
\* user has changed it since.
ScanTracks(a) ==
    /\ pc[a] \in {"scan", "store"} =>
           /\ todo[a] \subseteq listed[a]
           /\ \A p \in DOMAIN disk[a] : p \in listed[a] \/ p \in dirty[a]
    /\ pc[a] = "store" =>
           /\ hand[a].path \in listed[a]
           /\ \/ hand[a].path \in dirty[a]
              \/ /\ hand[a].path \in DOMAIN disk[a]
                 /\ disk[a][hand[a].path] = hand[a].content

\* The part that restarts and writes cut short leave true, and all of it.
Accounted(a) == GoneIsDirty(a) /\ ScanTracks(a)

Tracked(a) == Accounted(a) /\ (Unharmed(a) => KnownAgrees(a))

\* What the invariants on one agent's files and main thread read.
trackVars(a) ==
    <<disk[a], known[a], dirty[a], pc[a], todo[a], listed[a], work[a], hand[a]>>

LEMMA TrackedKept ==
    ASSUME NEW a \in Agent, Tracked(a), UNCHANGED trackVars(a), a \in harmed => a \in harmed'
    PROVE  Tracked(a)'
<1>1. UNCHANGED <<disk[a], known[a], dirty[a], pc[a], todo[a], listed[a], hand[a]>>
    BY DEF trackVars
<1>2. Accounted(a)'
    BY <1>1 DEF Tracked, Accounted, GoneIsDirty, ScanTracks
<1>3. Unharmed(a)' => KnownAgrees(a)'
    BY <1>1 DEF Tracked, Unharmed, KnownAgrees, Reflected, MatchesKnown
<1> QED
    BY <1>2, <1>3 DEF Tracked

\* Outside the scan files may come, as the cut-off ones do.
LEMMA AccountedOutside ==
    ASSUME NEW a \in Agent, Accounted(a), UNCHANGED <<known[a], dirty[a]>>,
           DOMAIN disk[a] \subseteq DOMAIN disk'[a], pc'[a] \notin {"scan", "store"}
    PROVE  Accounted(a)'
BY DEF Accounted, GoneIsDirty, ScanTracks

LEMMA TrackedOutside ==
    ASSUME NEW a \in Agent, Tracked(a), UNCHANGED <<disk[a], known[a], dirty[a]>>,
           pc'[a] \notin {"scan", "store"}, a \in harmed => a \in harmed'
    PROVE  Tracked(a)'
<1>1. Accounted(a)'
    BY AccountedOutside DEF Tracked
<1>2. Unharmed(a)' => KnownAgrees(a)'
    BY DEF Tracked, Unharmed, KnownAgrees, Reflected, MatchesKnown
<1> QED
    BY <1>1, <1>2 DEF Tracked

\* An agent's step leaves the others' files and main threads alone, and harms
\* no other.
LEMMA OthersKept ==
    ASSUME Typed, NEW a \in Agent, NEW b \in Agent, a # b,
           UserStep(a) \/ MainStep(a) \/ ServerStep(a) \/ Failure(a)
    PROVE  UNCHANGED trackVars(b) /\ (b \in harmed' <=> b \in harmed)
<1> USE DEF Typed, FilesTyped, StoresTyped, LoopTyped, trackVars
<1>1. CASE UserStep(a)
    BY <1>1 DEF UserStep, UserDelete, UserWrite, UserChanges, storeVars, loopVars, boundVars
<1>2. CASE ListFiles(a) \/ ReadFile(a) \/ ScanDone(a) \/ Snapshot(a)
    BY <1>2 DEF ListFiles, ReadFile, ScanDone, Snapshot, Goto, userVars, storeVars, boundVars
<1>3. CASE ScanVanished(a) \/ ReadFails(a) \/ WriteChunkFails(a)
    BY <1>3 DEF ScanVanished, ReadFails, WriteChunkFails, ScanEnds, Harms, Goto, userVars
<1>4. CASE WriteChunk(a)
    BY <1>4 DEF WriteChunk, userVars, boundVars
<1>5. CASE TakeIn(a) \/ ScanTomb(a)
    BY <1>5 DEF TakeIn, ScanTomb, AuthorEntry, Visited, Goto, loopVars, boundVars
<1>6. CASE Dial(a) \/ ExchangeDone(a) \/ DialRefused(a)
    BY <1>6 DEF Dial, ExchangeDone, DialRefused, NextPeer, Goto, userVars, storeVars, boundVars
<1>7. CASE ExchangeFails(a)
    BY <1>7 DEF ExchangeFails, Harms, NextPeer, Goto, userVars
<1>8. CASE \/ ReceiveReply(a) \/ AskChunks(a) \/ ServeBegin(a) \/ ServeReply(a) \/ SendChunks(a)
           \/ LateBegin(a) \/ LateReply(a)
    BY <1>8 DEF ReceiveReply, AskChunks, ServeBegin, ServeReply, SendChunks, LateBegin, LateReply,
                BeginMerge, ConnOnly, userVars, storeVars, loopVars, boundVars
<1>9. CASE MergeApply(a) \/ ServeApply(a) \/ LateApply(a) \/ StoreChunk(a)
    BY <1>9 DEF MergeApply, ServeApply, LateApply, StoreChunk, Harms, ApplyNext,
                userVars, loopVars, boundVars
<1>10. CASE Materialize(a)
    BY <1>10 DEF Materialize, Visited, boundVars
<1>11. CASE MaterializeFails(a)
    BY <1>11, FileCutShortTyped DEF MaterializeFails, Harms, storeVars
<1>12. CASE Save(a) \/ SaveFails(a)
    BY <1>12 DEF Save, SaveFails, NextTick, Goto, userVars, storeVars, boundVars
<1>13. CASE Restart(a)
    <2>1. disk'[b] = disk[b]
        BY <1>13, FileCutShortTyped DEF Restart, Reborn
    <2>2. UNCHANGED <<known[b], dirty[b], pc[b], todo[b], listed[b], work[b], hand[b]>>
        BY <1>13 DEF Restart, Reborn, Goto
    <2>3. harmed' = harmed \cup {a}
        BY <1>13 DEF Restart, Reborn
    <2> QED
        BY <2>1, <2>2, <2>3
<1> QED
    BY <1>1, <1>2, <1>3, <1>4, <1>5, <1>6, <1>7, <1>8, <1>9, <1>10, <1>11, <1>12, <1>13
    DEF MainStep, ServerStep, Failure

\* A user's change is to one path, and makes it dirty.
LEMMA UserEffect ==
    ASSUME Typed, NEW a \in Agent, UserStep(a)
    PROVE  \E p \in Path :
               /\ \A q : q # p => /\ q \in DOMAIN disk'[a] <=> q \in DOMAIN disk[a]
                                  /\ q \in DOMAIN disk[a] => disk'[a][q] = disk[a][q]
               /\ dirty'[a] = dirty[a] \cup {p}
               /\ known'[a] = known[a] /\ pc'[a] = pc[a] /\ todo'[a] = todo[a]
               /\ listed'[a] = listed[a] /\ hand'[a] = hand[a] /\ harmed' = harmed
<1>1. PICK p \in UserPath : UserDelete(a, p) \/ \E c \in Content : UserWrite(a, p, c)
    BY DEF UserStep
<1>2. p \in Path /\ disk[a] \in Directories
    BY AgentAssumption DEF Typed, FilesTyped
<1>3. PICK files :
          /\ UserChanges(a, p, files)
          /\ \A q : q # p => /\ q \in DOMAIN files <=> q \in DOMAIN disk[a]
                             /\ q \in DOMAIN files => files[q] = disk[a][q]
    <2>1. CASE UserDelete(a, p)
        <3>1. /\ \A q : q \in DOMAIN Without(disk[a], p) <=> q \in DOMAIN disk[a] /\ q # p
              /\ \A q \in DOMAIN disk[a] : q # p => Without(disk[a], p)[q] = disk[a][q]
            BY <1>2, WithoutType
        <3> QED
            BY <2>1, <3>1 DEF UserDelete
    <2>2. ASSUME NEW c \in Content, UserWrite(a, p, c)
          PROVE  \E files :
                     /\ UserChanges(a, p, files)
                     /\ \A q : q # p => /\ q \in DOMAIN files <=> q \in DOMAIN disk[a]
                                        /\ q \in DOMAIN files => files[q] = disk[a][q]
        <3>1. /\ \A q : q \in DOMAIN Insert(disk[a], p, c) <=> q \in DOMAIN disk[a] \/ q = p
              /\ \A q \in DOMAIN disk[a] : q # p => Insert(disk[a], p, c)[q] = disk[a][q]
            BY <1>2, InsertFileType
        <3> QED
            BY <2>2, <3>1 DEF UserWrite
    <2> QED
        BY <1>1, <2>1, <2>2
<1>4. /\ disk'[a] = files /\ dirty'[a] = dirty[a] \cup {p}
      /\ known'[a] = known[a] /\ pc'[a] = pc[a] /\ todo'[a] = todo[a] /\ listed'[a] = listed[a]
      /\ hand'[a] = hand[a] /\ harmed' = harmed
    BY <1>3 DEF UserChanges, Typed, FilesTyped, storeVars, loopVars, boundVars
<1> QED
    BY <1>2, <1>3, <1>4

LEMMA UserTracked ==
    ASSUME Typed, NEW a \in Agent, Tracked(a), UserStep(a)
    PROVE  Tracked(a)'
<1>1. PICK p \in Path :
          /\ \A q : q # p => /\ q \in DOMAIN disk'[a] <=> q \in DOMAIN disk[a]
                             /\ q \in DOMAIN disk[a] => disk'[a][q] = disk[a][q]
          /\ dirty'[a] = dirty[a] \cup {p}
          /\ known'[a] = known[a] /\ pc'[a] = pc[a] /\ todo'[a] = todo[a]
          /\ listed'[a] = listed[a] /\ hand'[a] = hand[a] /\ harmed' = harmed
    BY UserEffect
<1>2. ASSUME Unharmed(a)' PROVE KnownAgrees(a)'
    <2> SUFFICES ASSUME NEW q \in DOMAIN disk'[a] \cup DOMAIN known'[a], q \notin dirty'[a]
                 PROVE  Reflected(a, q)'
        BY DEF KnownAgrees
    <2>1. q # p /\ Reflected(a, q)
        BY <1>1, <1>2 DEF Tracked, KnownAgrees, Unharmed
    <2> QED
        BY <1>1, <2>1 DEF Reflected, MatchesKnown
<1>3. GoneIsDirty(a)'
    BY <1>1 DEF Tracked, Accounted, GoneIsDirty
<1>4. ScanTracks(a)'
    BY <1>1 DEF Tracked, Accounted, ScanTracks
<1> QED
    BY <1>2, <1>3, <1>4 DEF Tracked, Accounted

LEMMA ListTracked ==
    ASSUME Typed, NEW a \in Agent, Tracked(a), ListFiles(a)
    PROVE  Tracked(a)'
<1>1. /\ listed'[a] = DOMAIN disk[a] /\ todo'[a] = DOMAIN disk[a] /\ pc'[a] = "scan"
      /\ disk'[a] = disk[a] /\ known'[a] = known[a] /\ dirty'[a] = dirty[a] /\ harmed' = harmed
    BY DEF ListFiles, Goto, Typed, LoopTyped, userVars, storeVars, boundVars
<1>2. Unharmed(a)' => KnownAgrees(a)'
    BY <1>1 DEF Tracked, Unharmed, KnownAgrees, Reflected, MatchesKnown
<1> QED
    BY <1>1, <1>2 DEF Tracked, Accounted, GoneIsDirty, ScanTracks

\* Reading a file and storing its chunks change neither the disk nor known_local.
LEMMA ReadTracked ==
    ASSUME Typed, NEW a \in Agent, Tracked(a), ReadFile(a) \/ WriteChunk(a)
    PROVE  Tracked(a)'
<1>1. /\ disk'[a] = disk[a] /\ known'[a] = known[a] /\ dirty'[a] = dirty[a] /\ harmed' = harmed
      /\ listed'[a] = listed[a] /\ todo'[a] = todo[a] /\ pc[a] \in {"scan", "store"}
    BY DEF ReadFile, WriteChunk, userVars, storeVars, boundVars
<1>2. Unharmed(a)' => KnownAgrees(a)'
    BY <1>1 DEF Tracked, Unharmed, KnownAgrees, Reflected, MatchesKnown
<1>3. /\ hand'[a].path \in listed[a]
      /\ \/ hand'[a].path \in dirty[a]
         \/ hand'[a].path \in DOMAIN disk[a] /\ disk[a][hand'[a].path] = hand'[a].content
    <2>1. CASE ReadFile(a)
        <3>1. PICK p \in todo[a] \cap DOMAIN disk[a] :
                  hand' = [hand EXCEPT ![a] = InHand(p, disk[a][p], 0)]
            BY <2>1 DEF ReadFile
        <3>2. hand'[a].path = p /\ hand'[a].content = disk[a][p] /\ p \in listed[a]
            BY <2>1, <3>1 DEF InHand, Typed, LoopTyped, ReadFile, Tracked, Accounted, ScanTracks
        <3> QED
            BY <3>1, <3>2
    <2>2. CASE WriteChunk(a)
        <3>1. hand'[a] = [hand[a] EXCEPT !.stored = @ + 1] /\ pc[a] = "store"
            BY <2>2 DEF WriteChunk, Typed, LoopTyped
        <3>2. hand[a] \in [path : Path, content : Content, stored : Nat]
            BY <3>1, HandsUse DEF Typed, LoopTyped
        <3>3. hand'[a].path = hand[a].path /\ hand'[a].content = hand[a].content
            BY <3>1, <3>2
        <3> QED
            BY <3>1, <3>3 DEF Tracked, Accounted, ScanTracks
    <2> QED
        BY <2>1, <2>2
<1>4. GoneIsDirty(a)'
    BY <1>1 DEF Tracked, Accounted, GoneIsDirty
<1>5. ScanTracks(a)'
    BY <1>1, <1>3 DEF Tracked, Accounted, ScanTracks
<1> QED
    BY <1>2, <1>4, <1>5 DEF Tracked, Accounted

\* What authoring leaves in known_local.
LEMMA AuthorEntryKnown ==
    ASSUME Typed, NEW a \in Agent, NEW p \in Path, NEW c \in Content,
           NEW deleted \in BOOLEAN, AuthorEntry(a, p, c, deleted)
    PROVE  /\ \A q : q \in DOMAIN known'[a] <=> q \in DOMAIN known[a] \/ q = p
           /\ known'[a][p] = Authored(a, c, deleted, clock'[a])
           /\ \A q \in DOMAIN known[a] : q # p => known'[a][q] = known[a][q]
<1> DEFINE e == Authored(a, c, deleted, clock'[a])
<1>1. e \in Entry /\ known[a] \in Manifests
    BY AuthorEntryTyped DEF Typed, StoresTyped
<1>2. known'[a] = Insert(known[a], p, e)
    BY DEF AuthorEntry, Typed, StoresTyped
<1> QED
    BY <1>1, <1>2, InsertType

\* The end of a turn of the file loop leaves the file in hand in known_local.
LEMMA TakeInEffect ==
    ASSUME Typed, NEW a \in Agent, TakeIn(a)
    PROVE  \E p \in Path : \E content \in Content :
               /\ p = hand[a].path /\ content = hand[a].content
               /\ MatchesKnown(a, p, content)'
               /\ \/ MatchesKnown(a, p, content) /\ UNCHANGED <<manifest, known, clock, now>>
                  \/ ~MatchesKnown(a, p, content) /\ AuthorEntry(a, p, content, FALSE)
               /\ \A q : q # p => /\ q \in DOMAIN known'[a] <=> q \in DOMAIN known[a]
                                  /\ q \in DOMAIN known[a] => known'[a][q] = known[a][q]
               /\ disk'[a] = disk[a] /\ todo'[a] = todo[a] \ {p}
               /\ dirty'[a] = IF p \in DOMAIN disk[a] /\ disk[a][p] = content
                              THEN dirty[a] \ {p} ELSE dirty[a]
               /\ pc[a] = "store" /\ pc'[a] = "scan" /\ listed'[a] = listed[a]
               /\ harmed' = harmed
<1>1. hand[a] \in Hands /\ pc[a] = "store"
    BY DEF TakeIn, Typed, LoopTyped
<1>2. PICK p \in Path, content \in Content : p = hand[a].path /\ content = hand[a].content
    BY <1>1, HandsUse DEF Typed, LoopTyped
<1>3. /\ \/ MatchesKnown(a, p, content) /\ UNCHANGED <<manifest, known, clock, now>>
         \/ ~MatchesKnown(a, p, content) /\ AuthorEntry(a, p, content, FALSE)
      /\ disk'[a] = disk[a] /\ todo'[a] = todo[a] \ {p}
      /\ dirty'[a] = IF p \in DOMAIN disk[a] /\ disk[a][p] = content
                     THEN dirty[a] \ {p} ELSE dirty[a]
      /\ pc'[a] = "scan" /\ listed'[a] = listed[a] /\ harmed' = harmed
    BY <1>2 DEF TakeIn, Goto, Visited, Typed, FilesTyped, LoopTyped, boundVars
<1>4. /\ MatchesKnown(a, p, content)'
      /\ \A q : q # p => /\ q \in DOMAIN known'[a] <=> q \in DOMAIN known[a]
                         /\ q \in DOMAIN known[a] => known'[a][q] = known[a][q]
    <2>1. CASE MatchesKnown(a, p, content) /\ UNCHANGED known
        <3>1. p \in DOMAIN known'[a] /\ ~known'[a][p].tombstone /\ known'[a][p].chunk_hashes = content
            BY <2>1 DEF MatchesKnown
        <3> QED
            BY <2>1, <3>1 DEF MatchesKnown
    <2>2. CASE AuthorEntry(a, p, content, FALSE)
        <3>1. /\ \A q : q \in DOMAIN known'[a] <=> q \in DOMAIN known[a] \/ q = p
              /\ known'[a][p] = Authored(a, content, FALSE, clock'[a])
              /\ \A q \in DOMAIN known[a] : q # p => known'[a][q] = known[a][q]
            BY <1>2, <2>2, AuthorEntryKnown
        <3>2. p \in DOMAIN known'[a] /\ ~known'[a][p].tombstone /\ known'[a][p].chunk_hashes = content
            BY <3>1 DEF Authored
        <3> QED
            BY <3>1, <3>2 DEF MatchesKnown
    <2> QED
        BY <1>3, <2>1, <2>2
<1> QED
    BY <1>1, <1>2, <1>3, <1>4

LEMMA TakeInTracked ==
    ASSUME Typed, NEW a \in Agent, Tracked(a), TakeIn(a)
    PROVE  Tracked(a)'
<1>1. PICK p \in Path, content \in Content :
          /\ p = hand[a].path /\ content = hand[a].content
          /\ MatchesKnown(a, p, content)'
          /\ \A q : q # p => /\ q \in DOMAIN known'[a] <=> q \in DOMAIN known[a]
                             /\ q \in DOMAIN known[a] => known'[a][q] = known[a][q]
          /\ disk'[a] = disk[a] /\ todo'[a] = todo[a] \ {p}
          /\ dirty'[a] = IF p \in DOMAIN disk[a] /\ disk[a][p] = content
                         THEN dirty[a] \ {p} ELSE dirty[a]
          /\ pc[a] = "store" /\ pc'[a] = "scan" /\ listed'[a] = listed[a]
          /\ harmed' = harmed
    BY TakeInEffect
<1>2. p \in listed[a] /\ (p \in dirty[a] \/ (p \in DOMAIN disk[a] /\ disk[a][p] = content))
    BY <1>1 DEF Tracked, Accounted, ScanTracks
<1>3. p \in DOMAIN known'[a] /\ ~known'[a][p].tombstone /\ known'[a][p].chunk_hashes = content
    BY <1>1 DEF MatchesKnown
<1>4. ASSUME Unharmed(a)' PROVE KnownAgrees(a)'
    <2> SUFFICES ASSUME NEW q \in DOMAIN disk'[a] \cup DOMAIN known'[a], q \notin dirty'[a]
                 PROVE  Reflected(a, q)'
        BY DEF KnownAgrees
    <2>1. CASE q = p
        BY <1>1, <1>2, <1>3, <2>1 DEF Reflected, MatchesKnown
    <2>2. CASE q # p
        <3>1. Reflected(a, q)
            BY <1>1, <1>4, <2>2 DEF Tracked, KnownAgrees, Unharmed
        <3> QED
            BY <1>1, <2>2, <3>1 DEF Reflected, MatchesKnown
    <2> QED
        BY <2>1, <2>2
<1>5. GoneIsDirty(a)'
    BY <1>1, <1>2 DEF Tracked, Accounted, GoneIsDirty
<1>6. ScanTracks(a)'
    BY <1>1, <1>2 DEF Tracked, Accounted, ScanTracks
<1> QED
    BY <1>4, <1>5, <1>6 DEF Tracked, Accounted

\* What the second loop is about to tomb, a user has removed or put back.
LEMMA TombsAreDirty ==
    ASSUME NEW a \in Agent, Accounted(a), pc[a] = "scan", NEW p \in Vanished(a)
    PROVE  p \in dirty[a]
<1>1. p \in DOMAIN known[a] /\ ~known[a][p].tombstone /\ p \notin listed[a]
    BY DEF Vanished
<1>2. CASE p \in DOMAIN disk[a]
    BY <1>1, <1>2 DEF Accounted, ScanTracks
<1>3. CASE p \notin DOMAIN disk[a]
    BY <1>1, <1>3 DEF Accounted, GoneIsDirty
<1> QED
    BY <1>2, <1>3

\* A turn of the second loop leaves a tombstone in known_local.
LEMMA ScanTombEffect ==
    ASSUME Typed, NEW a \in Agent, ScanTomb(a)
    PROVE  \E p \in Path :
               /\ p \in Vanished(a) /\ AuthorEntry(a, p, <<>>, TRUE)
               /\ \A q : q \in DOMAIN known'[a] <=> q \in DOMAIN known[a] \/ q = p
               /\ known'[a][p].tombstone
               /\ \A q \in DOMAIN known[a] : q # p => known'[a][q] = known[a][q]
               /\ disk'[a] = disk[a] /\ todo[a] = {} /\ todo'[a] = {}
               /\ dirty'[a] = IF p \in DOMAIN disk[a] THEN dirty[a] ELSE dirty[a] \ {p}
               /\ pc[a] = "scan" /\ pc'[a] = "scan" /\ listed'[a] = listed[a]
               /\ harmed' = harmed
<1>1. PICK p \in Vanished(a) :
          /\ AuthorEntry(a, p, <<>>, TRUE)
          /\ dirty' = [dirty EXCEPT ![a] = IF p \in DOMAIN disk[a] THEN @ ELSE @ \ {p}]
    BY DEF ScanTomb
<1>2. /\ disk'[a] = disk[a] /\ todo[a] = {} /\ todo'[a] = {}
      /\ dirty'[a] = IF p \in DOMAIN disk[a] THEN dirty[a] ELSE dirty[a] \ {p}
      /\ pc[a] = "scan" /\ pc'[a] = "scan" /\ listed'[a] = listed[a] /\ harmed' = harmed
    BY <1>1 DEF ScanTomb, Typed, FilesTyped, loopVars, boundVars
<1>3. p \in Path /\ <<>> \in Content
    BY ContentAssumption, ManifestsUse DEF Vanished, Typed, StoresTyped
<1>4. /\ \A q : q \in DOMAIN known'[a] <=> q \in DOMAIN known[a] \/ q = p
      /\ known'[a][p] = Authored(a, <<>>, TRUE, clock'[a])
      /\ \A q \in DOMAIN known[a] : q # p => known'[a][q] = known[a][q]
    BY <1>1, <1>3, AuthorEntryKnown
<1>5. known'[a][p].tombstone
    BY <1>4 DEF Authored
<1> QED
    BY <1>1, <1>2, <1>3, <1>4, <1>5

LEMMA ScanTombTracked ==
    ASSUME Typed, NEW a \in Agent, Tracked(a), ScanTomb(a)
    PROVE  Tracked(a)'
<1>1. PICK p \in Path :
          /\ p \in Vanished(a)
          /\ \A q : q \in DOMAIN known'[a] <=> q \in DOMAIN known[a] \/ q = p
          /\ known'[a][p].tombstone
          /\ \A q \in DOMAIN known[a] : q # p => known'[a][q] = known[a][q]
          /\ disk'[a] = disk[a] /\ todo[a] = {} /\ todo'[a] = {}
          /\ dirty'[a] = IF p \in DOMAIN disk[a] THEN dirty[a] ELSE dirty[a] \ {p}
          /\ pc[a] = "scan" /\ pc'[a] = "scan" /\ listed'[a] = listed[a]
          /\ harmed' = harmed
    BY ScanTombEffect
<1>2. p \in dirty[a]
    BY <1>1, TombsAreDirty DEF Tracked
<1>3. ASSUME Unharmed(a)' PROVE KnownAgrees(a)'
    <2> SUFFICES ASSUME NEW q \in DOMAIN disk'[a] \cup DOMAIN known'[a], q \notin dirty'[a]
                 PROVE  Reflected(a, q)'
        BY DEF KnownAgrees
    <2>1. CASE q = p
        <3>1. p \notin DOMAIN disk'[a]
            BY <1>1, <1>2, <2>1
        <3> QED
            BY <1>1, <2>1, <3>1 DEF Reflected
    <2>2. CASE q # p
        <3>1. Reflected(a, q)
            BY <1>1, <1>3, <2>2 DEF Tracked, KnownAgrees, Unharmed
        <3> QED
            BY <1>1, <2>2, <3>1 DEF Reflected, MatchesKnown
    <2> QED
        BY <2>1, <2>2
<1>4. GoneIsDirty(a)'
    BY <1>1 DEF Tracked, Accounted, GoneIsDirty
<1>5. ScanTracks(a)'
    BY <1>1 DEF Tracked, Accounted, ScanTracks
<1> QED
    BY <1>3, <1>4, <1>5 DEF Tracked, Accounted

\* A turn of materialize_remote remembers the entry, and makes a file what its
\* entry says where no chunk is short.
LEMMA MaterializeEffect ==
    ASSUME Typed, NEW a \in Agent, Materialize(a)
    PROVE  \E p \in Path :
               /\ p \in todo[a] /\ p \in DOMAIN work[a]
               /\ \A q : q \in DOMAIN known'[a] <=> q \in DOMAIN known[a] \/ q = p
               /\ known'[a][p] = work[a][p]
               /\ \A q \in DOMAIN known[a] : q # p => known'[a][q] = known[a][q]
               /\ work[a][p].tombstone <=> p \notin DOMAIN disk'[a]
               /\ torn[a] = {} => Reflected(a, p)'
               /\ \A q : q # p => /\ q \in DOMAIN disk'[a] <=> q \in DOMAIN disk[a]
                                  /\ q \in DOMAIN disk[a] => disk'[a][q] = disk[a][q]
               /\ dirty'[a] = dirty[a] \ {p} /\ todo'[a] = todo[a] \ {p}
               /\ pc[a] = "materialize" /\ pc'[a] = "materialize" /\ harmed' = harmed
<1>1. PICK p \in todo[a] :
          /\ \E f \in Materialized(a, p, work[a][p]) : disk' = [disk EXCEPT ![a] = f]
          /\ known' = [known EXCEPT ![a] = Insert(@, p, work[a][p])]
          /\ dirty' = [dirty EXCEPT ![a] = @ \ {p}]
          /\ Visited(a, p)
    BY DEF Materialize
<1>2. PICK e : e = work[a][p]
    OBVIOUS
<1>3. p \in DOMAIN work[a] /\ work[a] \in Manifests
    BY DEF Materialize, Typed, LoopTyped
<1>4. p \in Path /\ e \in Entry /\ e.chunk_hashes \in Content /\ e.tombstone \in BOOLEAN
    BY <1>2, <1>3, ManifestsUse DEF Entry
<1>5. disk[a] \in Directories /\ known[a] \in Manifests
    BY DEF Typed, FilesTyped, StoresTyped
<1>6. PICK f \in Materialized(a, p, e) : disk'[a] = f
    BY <1>1, <1>2 DEF Typed, FilesTyped
<1>7. /\ known'[a] = Insert(known[a], p, e)
      /\ dirty'[a] = dirty[a] \ {p} /\ todo'[a] = todo[a] \ {p}
      /\ pc[a] = "materialize" /\ pc'[a] = "materialize" /\ harmed' = harmed
    BY <1>1, <1>2 DEF Materialize, Visited, Typed, FilesTyped, StoresTyped, LoopTyped, boundVars
<1>8. /\ \A q : q \in DOMAIN known'[a] <=> q \in DOMAIN known[a] \/ q = p
      /\ known'[a][p] = e
      /\ \A q \in DOMAIN known[a] : q # p => known'[a][q] = known[a][q]
    BY <1>4, <1>5, <1>7, InsertType
<1>9. /\ e.tombstone <=> p \notin DOMAIN disk'[a]
      /\ ~e.tombstone /\ torn[a] = {} => disk'[a][p] = e.chunk_hashes
      /\ \A q : q # p => /\ q \in DOMAIN disk'[a] <=> q \in DOMAIN disk[a]
                         /\ q \in DOMAIN disk[a] => disk'[a][q] = disk[a][q]
    <2>1. CASE e.tombstone
        BY <1>5, <1>6, <2>1, WithoutType DEF Materialized
    <2>2. CASE ~e.tombstone
        <3>1. PICK c \in Assembled(a, e.chunk_hashes) : f = Insert(disk[a], p, c)
            BY <1>6, <2>2 DEF Materialized
        <3>2. c \in Content /\ (torn[a] = {} => c = e.chunk_hashes)
            BY <1>4, <3>1 DEF Assembled
        <3> QED
            BY <1>4, <1>5, <1>6, <2>2, <3>1, <3>2, InsertFileType
    <2> QED
        BY <1>4, <2>1, <2>2
<1>10. torn[a] = {} => Reflected(a, p)'
    BY <1>8, <1>9 DEF Reflected, MatchesKnown
<1> QED
    BY <1>1, <1>2, <1>3, <1>4, <1>7, <1>8, <1>9, <1>10

LEMMA MaterializeTracked ==
    ASSUME Typed, TornHarmed, NEW a \in Agent, Tracked(a), Materialize(a)
    PROVE  Tracked(a)'
<1>1. PICK p \in Path :
          /\ \A q : q \in DOMAIN known'[a] <=> q \in DOMAIN known[a] \/ q = p
          /\ known'[a][p] = work[a][p]
          /\ \A q \in DOMAIN known[a] : q # p => known'[a][q] = known[a][q]
          /\ work[a][p].tombstone <=> p \notin DOMAIN disk'[a]
          /\ torn[a] = {} => Reflected(a, p)'
          /\ \A q : q # p => /\ q \in DOMAIN disk'[a] <=> q \in DOMAIN disk[a]
                             /\ q \in DOMAIN disk[a] => disk'[a][q] = disk[a][q]
          /\ dirty'[a] = dirty[a] \ {p}
          /\ pc'[a] = "materialize" /\ harmed' = harmed
    BY MaterializeEffect
<1>2. ASSUME Unharmed(a)' PROVE KnownAgrees(a)'
    <2> SUFFICES ASSUME NEW q \in DOMAIN disk'[a] \cup DOMAIN known'[a], q \notin dirty'[a]
                 PROVE  Reflected(a, q)'
        BY DEF KnownAgrees
    <2>1. CASE q = p
        <3>1. torn[a] = {}
            BY <1>1, <1>2 DEF TornHarmed, Unharmed
        <3> QED
            BY <1>1, <2>1, <3>1
    <2>2. CASE q # p
        <3>1. Reflected(a, q)
            BY <1>1, <1>2, <2>2 DEF Tracked, KnownAgrees, Unharmed
        <3> QED
            BY <1>1, <2>2, <3>1 DEF Reflected, MatchesKnown
    <2> QED
        BY <2>1, <2>2
<1>3. GoneIsDirty(a)'
    BY <1>1 DEF Tracked, Accounted, GoneIsDirty
<1>4. ScanTracks(a)'
    BY <1>1 DEF ScanTracks
<1> QED
    BY <1>2, <1>3, <1>4 DEF Tracked, Accounted

\* The gossip steps of a, as client and as server.
LEMMA GossipTracked ==
    ASSUME Typed, NEW a \in Agent, Tracked(a),
           \/ Dial(a) \/ ExchangeDone(a) \/ ExchangeFails(a) \/ DialRefused(a)
           \/ ReceiveReply(a) \/ AskChunks(a) \/ MergeApply(a) \/ StoreChunk(a)
           \/ ServerStep(a)
    PROVE  Tracked(a)'
<1>1. CASE Dial(a) \/ ExchangeDone(a) \/ DialRefused(a)
    <2>1. UNCHANGED <<disk[a], known[a], dirty[a], harmed>> /\ pc'[a] \notin {"scan", "store"}
        BY <1>1 DEF Dial, ExchangeDone, DialRefused, NextPeer, Goto,
                    userVars, storeVars, boundVars, Typed, LoopTyped
    <2> QED
        BY <2>1, TrackedOutside
<1>2. CASE ExchangeFails(a)
    <2>1. /\ UNCHANGED <<disk[a], known[a], dirty[a]>> /\ pc'[a] \notin {"scan", "store"}
          /\ a \in harmed => a \in harmed'
        BY <1>2 DEF ExchangeFails, Harms, NextPeer, Goto, userVars, Typed, LoopTyped
    <2> QED
        BY <2>1, TrackedOutside
<1>3. CASE \/ ReceiveReply(a) \/ AskChunks(a) \/ ServeBegin(a) \/ ServeReply(a) \/ SendChunks(a)
           \/ LateBegin(a) \/ LateReply(a)
    BY <1>3, TrackedKept
    DEF ReceiveReply, AskChunks, ServeBegin, ServeReply, SendChunks, LateBegin, LateReply,
        BeginMerge, ConnOnly, userVars, storeVars, loopVars, boundVars, trackVars
<1>4. CASE MergeApply(a) \/ ServeApply(a) \/ LateApply(a) \/ StoreChunk(a)
    BY <1>4, TrackedKept
    DEF MergeApply, ServeApply, LateApply, StoreChunk, Harms, ApplyNext, userVars, loopVars,
        boundVars, trackVars
<1> QED
    BY <1>1, <1>2, <1>3, <1>4 DEF ServerStep

\* A scan that ends, and what does not touch the disk after it.
LEMMA QuietTracked ==
    ASSUME Typed, NEW a \in Agent, Tracked(a),
           \/ ScanVanished(a) \/ ReadFails(a) \/ WriteChunkFails(a) \/ ScanDone(a)
           \/ Snapshot(a) \/ Save(a) \/ SaveFails(a)
    PROVE  Tracked(a)'
<1>1. CASE ScanVanished(a) \/ ReadFails(a) \/ WriteChunkFails(a)
    <2>1. ScanEnds(a) /\ (a \in harmed => a \in harmed')
        BY <1>1 DEF ScanVanished, ReadFails, WriteChunkFails, Harms
    <2>2. UNCHANGED <<disk[a], known[a], dirty[a]>> /\ pc'[a] = "dial"
        BY <2>1 DEF ScanEnds, Goto, userVars, Typed, LoopTyped
    <2> QED
        BY <2>1, <2>2, TrackedOutside
<1>2. CASE ScanDone(a) \/ Snapshot(a) \/ Save(a) \/ SaveFails(a)
    <2>1. UNCHANGED <<disk[a], known[a], dirty[a], harmed>> /\ pc'[a] \notin {"scan", "store"}
        BY <1>2 DEF ScanDone, Snapshot, Save, SaveFails, NextTick, Goto, userVars, storeVars,
                    boundVars, Typed, LoopTyped
    <2> QED
        BY <2>1, TrackedOutside
<1> QED
    BY <1>1, <1>2

\* A file that is cut short is there.
LEMMA FileCutShortAdds ==
    ASSUME Typed, NEW a \in Agent, FileCutShort(a)
    PROVE  DOMAIN disk[a] \subseteq DOMAIN disk'[a]
<1>1. CASE UNCHANGED disk
    BY <1>1
<1>2. ASSUME NEW p \in todo[a], NEW c, NEW d \in CutShort(c),
             disk' = [disk EXCEPT ![a] = Insert(@, p, d)]
      PROVE  DOMAIN disk[a] \subseteq DOMAIN disk'[a]
    <2>1. p \in Path /\ d \in Content /\ disk[a] \in Directories
        BY DEF Typed, LoopTyped, FilesTyped, CutShort
    <2>2. disk'[a] = Insert(disk[a], p, d)
        BY <1>2 DEF Typed, FilesTyped
    <2> QED
        BY <2>1, <2>2, InsertFileType
<1> QED
    BY <1>1, <1>2 DEF FileCutShort

\* A write cut short and a kill harm the agent if they change its files.
LEMMA FaultTracked ==
    ASSUME Typed, NEW a \in Agent, Tracked(a), MaterializeFails(a) \/ Restart(a)
    PROVE  Tracked(a)'
<1>1. CASE MaterializeFails(a)
    <2>1. /\ UNCHANGED <<known[a], dirty[a]>> /\ pc'[a] = "materialize"
          /\ DOMAIN disk[a] \subseteq DOMAIN disk'[a]
          /\ a \in harmed' \/ UNCHANGED <<disk, harmed>>
        BY <1>1, FileCutShortAdds DEF MaterializeFails, Harms, storeVars
    <2>2. Accounted(a)'
        BY <2>1, AccountedOutside DEF Tracked
    <2>3. CASE a \in harmed'
        BY <2>2, <2>3 DEF Tracked, Unharmed
    <2>4. CASE UNCHANGED <<disk, harmed>>
        BY <2>1, <2>4, TrackedOutside
    <2> QED
        BY <2>1, <2>3, <2>4
<1>2. CASE Restart(a)
    <2>1. known'[a] = EmptyManifest /\ pc'[a] = "list" /\ a \in harmed'
        BY <1>2 DEF Restart, Reborn, Goto, Typed, StoresTyped, LoopTyped
    <2> QED
        BY <2>1, EmptyManifestType DEF Tracked, Accounted, GoneIsDirty, ScanTracks, Unharmed
<1> QED
    BY <1>1, <1>2

LEMMA TrackedInductive ==
    ASSUME Typed, TornHarmed, \A a \in Agent : Tracked(a), [Next]_vars
    PROVE  \A a \in Agent : Tracked(a)'
<1>1. CASE UNCHANGED vars
    BY <1>1, TrackedKept DEF vars, userVars, storeVars, loopVars, boundVars, trackVars
<1>2. CASE Next
    <2>1. PICK a \in Agent : UserStep(a) \/ MainStep(a) \/ ServerStep(a) \/ Failure(a)
        BY <1>2 DEF Next
    <2>2. \A b \in Agent : b # a => Tracked(b)'
        BY <2>1, OthersKept, TrackedKept
    <2>3. Tracked(a)'
        BY <2>1, UserTracked, ListTracked, ReadTracked, TakeInTracked, ScanTombTracked,
           MaterializeTracked, GossipTracked, QuietTracked, FaultTracked
        DEF MainStep, Failure
    <2> QED
        BY <2>2, <2>3
<1> QED
    BY <1>1, <1>2

THEOREM FilesTracked == Spec => [](\A a \in Agent : Tracked(a))
<1> DEFINE Inv == \A a \in Agent : Tracked(a)
<1>1. Init => Inv
    BY EmptyManifestType
    DEF Init, Tracked, Accounted, GoneIsDirty, KnownAgrees, ScanTracks
<1>2. Typed /\ TornHarmed /\ Inv /\ [Next]_vars => Inv'
    BY TrackedInductive
<1> HIDE DEF Inv
<1>3. Spec => []Inv
    BY <1>1, <1>2, TypingHolds, TornAreHarmed, PTL DEF Spec
<1> QED
    BY <1>3 DEF Inv

\* known_local is what is on disk but for what users have touched since, at every
\* agent that was not killed and that no short file has come to, whatever became
\* of the others.
THEOREM KnownStaysOnDisk == Spec => []KnownIsOnDisk
<1>1. (\A a \in Agent : Tracked(a)) => KnownIsOnDisk
    BY DEF Tracked, KnownAgrees, KnownIsOnDisk
<1> QED
    BY <1>1, FilesTracked, PTL

\* The clock moves when an agent authors and when it is started anew.
LEMMA ClockSteps ==
    ASSUME Typed, NEW a \in Agent, NEW b \in Agent, clock'[b] # clock[b],
           UserStep(a) \/ MainStep(a) \/ ServerStep(a) \/ Failure(a)
    PROVE  a = b /\ (TakeIn(a) \/ ScanTomb(a) \/ Restart(a))
<1>1. CASE UserStep(a) \/ ListFiles(a) \/ ReadFile(a) \/ WriteChunk(a) \/ ScanDone(a)
    BY <1>1 DEF UserStep, UserDelete, UserWrite, UserChanges, ListFiles, ReadFile, WriteChunk,
                ScanDone, storeVars
<1>2. CASE TakeIn(a) \/ ScanTomb(a)
    BY <1>2 DEF TakeIn, ScanTomb, AuthorEntry, Typed, StoresTyped
<1>3. CASE Restart(a)
    BY <1>3 DEF Restart, Reborn, Typed, StoresTyped
<1>4. CASE \/ ScanVanished(a) \/ ReadFails(a) \/ WriteChunkFails(a) \/ DialRefused(a)
           \/ ExchangeFails(a) \/ MaterializeFails(a) \/ SaveFails(a)
    BY <1>4 DEF ScanVanished, ReadFails, WriteChunkFails, ScanEnds, DialRefused, ExchangeFails,
                MaterializeFails, SaveFails, storeVars
<1>5. CASE \/ Dial(a) \/ ReceiveReply(a) \/ MergeApply(a) \/ AskChunks(a) \/ StoreChunk(a)
           \/ ExchangeDone(a)
    BY <1>5 DEF Dial, ReceiveReply, MergeApply, AskChunks, StoreChunk, ExchangeDone,
                BeginMerge, ApplyNext, ConnOnly, storeVars
<1>6. CASE Snapshot(a) \/ Materialize(a) \/ Save(a)
    BY <1>6 DEF Snapshot, Materialize, Save, storeVars
<1>7. CASE ServerStep(a)
    BY <1>7 DEF ServerStep, ServeBegin, ServeApply, ServeReply, SendChunks, LateBegin, LateApply,
                LateReply, BeginMerge, ApplyNext, ConnOnly, storeVars
<1> QED
    BY <1>1, <1>2, <1>3, <1>4, <1>5, <1>6, <1>7 DEF MainStep, Failure

LEMMA AuthoringIsForAnEdit ==
    ASSUME Typed, NEW a \in Agent, Tracked(a), NEW p \in DOMAIN known'[a],
           TakeIn(a) \/ ScanTomb(a), Authors(a, p), Unharmed(a) \/ known'[a][p].tombstone
    PROVE  p \in dirty[a]
<1>1. CASE TakeIn(a)
    <2>1. PICK q \in Path, content \in Content :
              /\ q = hand[a].path /\ content = hand[a].content
              /\ MatchesKnown(a, q, content)'
              /\ \/ MatchesKnown(a, q, content) /\ UNCHANGED <<manifest, known, clock, now>>
                 \/ ~MatchesKnown(a, q, content) /\ AuthorEntry(a, q, content, FALSE)
              /\ \A r : r # q => /\ r \in DOMAIN known'[a] <=> r \in DOMAIN known[a]
                                 /\ r \in DOMAIN known[a] => known'[a][r] = known[a][r]
              /\ pc[a] = "store"
        BY <1>1, TakeInEffect
    <2>2. ~MatchesKnown(a, q, content) /\ p = q
        BY <2>1 DEF Authors
    <2>3. ~known'[a][p].tombstone
        BY <2>1, <2>2 DEF MatchesKnown
    <2>4. KnownAgrees(a)
        BY <2>3 DEF Tracked
    <2>5. q \in dirty[a] \/ (q \in DOMAIN disk[a] /\ disk[a][q] = content)
        BY <2>1 DEF Tracked, Accounted, ScanTracks
    <2> QED
        BY <2>2, <2>4, <2>5 DEF KnownAgrees, Reflected
<1>2. CASE ScanTomb(a)
    <2>1. PICK q \in Path :
              /\ q \in Vanished(a) /\ pc[a] = "scan"
              /\ \A r : r \in DOMAIN known'[a] <=> r \in DOMAIN known[a] \/ r = q
              /\ \A r \in DOMAIN known[a] : r # q => known'[a][r] = known[a][r]
        BY <1>2, ScanTombEffect
    <2>2. p = q
        BY <2>1 DEF Authors
    <2> QED
        BY <2>1, <2>2, TombsAreDirty DEF Tracked
<1> QED
    BY <1>1, <1>2

\* A restarted agent knows of nothing.
LEMMA RestartKnowsNothing ==
    ASSUME Typed, NEW a \in Agent, Restart(a)
    PROVE  DOMAIN known'[a] = {}
<1>1. known'[a] = EmptyManifest
    BY DEF Restart, Reborn, Typed, StoresTyped
<1> QED
    BY <1>1, EmptyManifestType

\* No scan of an agent that was not killed and that no short file has come to
\* authors anything but a user's change, whatever is merged or materialized
\* before, during or after it.
THEOREM OnlyEditsAuthored == Spec => OnlyUserEditsAreAuthored
<1> DEFINE Inv == \A a \in Agent : Tracked(a)
           Step == \A a \in Agent : \A p \in DOMAIN known'[a] :
                       Unharmed(a) /\ Authors(a, p) => p \in dirty[a]
<1>1. Typed /\ Inv /\ [Next]_vars => [Step]_vars
    <2> SUFFICES ASSUME Typed, Inv, Next, NEW b \in Agent, NEW p \in DOMAIN known'[b],
                        Unharmed(b), Authors(b, p)
                 PROVE  p \in dirty[b]
        OBVIOUS
    <2>1. PICK a \in Agent : UserStep(a) \/ MainStep(a) \/ ServerStep(a) \/ Failure(a)
        BY DEF Next
    <2>2. a = b /\ (TakeIn(a) \/ ScanTomb(a) \/ Restart(a))
        BY <2>1, ClockSteps DEF Authors
    <2> QED
        BY <2>2, AuthoringIsForAnEdit, RestartKnowsNothing
<1> HIDE DEF Step
<1>2. Spec => [][Step]_vars
    BY <1>1, TypingHolds, FilesTracked, PTL DEF Spec
<1> QED
    BY <1>2 DEF OnlyUserEditsAreAuthored, Step

\* Whatever is killed, cut short or lost, a tombstone is authored only for a
\* file that a user has removed.
THEOREM OnlyUsersDeleteFiles == Spec => OnlyUsersDelete
<1> DEFINE Inv == \A a \in Agent : Tracked(a)
           Step == \A a \in Agent : \A p \in DOMAIN known'[a] :
                       Authors(a, p) /\ known'[a][p].tombstone => p \in dirty[a]
<1>1. Typed /\ Inv /\ [Next]_vars => [Step]_vars
    <2> SUFFICES ASSUME Typed, Inv, Next, NEW b \in Agent, NEW p \in DOMAIN known'[b],
                        Authors(b, p), known'[b][p].tombstone
                 PROVE  p \in dirty[b]
        OBVIOUS
    <2>1. PICK a \in Agent : UserStep(a) \/ MainStep(a) \/ ServerStep(a) \/ Failure(a)
        BY DEF Next
    <2>2. a = b /\ (TakeIn(a) \/ ScanTomb(a) \/ Restart(a))
        BY <2>1, ClockSteps DEF Authors
    <2> QED
        BY <2>2, AuthoringIsForAnEdit, RestartKnowsNothing
<1> HIDE DEF Step
<1>2. Spec => [][Step]_vars
    BY <1>1, TypingHolds, FilesTracked, PTL DEF Spec
<1> QED
    BY <1>2 DEF OnlyUsersDelete, Step
------------------------------------------------------------------------------
\* Edits replace their base where the wall clock is behind no other's and no two
\* stamps are taken in one millisecond: then no entry anywhere is from beyond
\* that clock, and what it stamps now is above all of them.

OldIn(t, m) == \A p \in DOMAIN m : m[p].hlc.physical_ms <= t

SafeIn(m) == \A p \in DOMAIN m : is_safe_relative_path(p)

\* The time that a's wall clock shows.
WallTime(a) == now + Offset[a]

EntriesOld(t) ==
    /\ \A a \in Agent : /\ OldIn(t, manifest[a]) /\ OldIn(t, saved[a])
                        /\ OldIn(t, known[a]) /\ OldIn(t, work[a])
    /\ \A m \in Mail : OldIn(t, m)

\* No hybrid clock is ahead of its wall clock, no entry ahead of a leading one.
AllOld ==
    \A a \in Agent :
        /\ clock[a].physical_ms <= WallTime(a)
        /\ Leading(a) => EntriesOld(WallTime(a))

AllSafe == \A a \in Agent : SafeIn(manifest[a]) /\ SafeIn(saved[a])

\* Every way in which a step changes the time and a clock.
TimeStep ==
    /\ now' \in Nat /\ now <= now'
    /\ \A a \in Agent : \/ clock'[a] = clock[a]
                        \/ clock'[a] = Tick(clock[a], now' + Offset[a])
                        \/ clock'[a] = HlcZero

\* Where the entries of known_local and of a snapshot come from.
CopyStep ==
    \A a \in Agent :
        /\ \A p \in DOMAIN known'[a] :
               \/ p \in DOMAIN known[a] /\ known'[a][p] = known[a][p]
               \/ p \in DOMAIN work[a] /\ known'[a][p] = work[a][p]
               \/ known'[a][p].hlc = clock'[a]
        /\ \A p \in DOMAIN work'[a] :
               \/ p \in DOMAIN work[a] /\ work'[a][p] = work[a][p]
               \/ p \in DOMAIN manifest[a] /\ work'[a][p] = manifest[a][p]

LEMMA AuthorEntryTime ==
    ASSUME Typed, NEW a \in Agent, NEW p \in Path, NEW c \in Content,
           NEW deleted \in BOOLEAN, AuthorEntry(a, p, c, deleted), UNCHANGED work
    PROVE  TimeStep /\ CopyStep
<1>1. PICK gap \in Gap : /\ now' = now + gap
                         /\ clock' = [clock EXCEPT ![a] = Tick(@, now' + Offset[a])]
    BY DEF AuthorEntry
<1>2. now \in Nat /\ gap \in Nat
    BY AgentAssumption DEF Typed, StoresTyped
<1>3. TimeStep
    BY <1>1, <1>2 DEF TimeStep, Typed, StoresTyped
<1>4. /\ \A q : q \in DOMAIN known'[a] <=> q \in DOMAIN known[a] \/ q = p
      /\ known'[a][p] = Authored(a, c, deleted, clock'[a])
      /\ \A q \in DOMAIN known[a] : q # p => known'[a][q] = known[a][q]
    BY AuthorEntryKnown
<1>5. \A b \in Agent : b # a => known'[b] = known[b]
    BY DEF AuthorEntry, Typed, StoresTyped
<1>6. CopyStep
    BY <1>4, <1>5 DEF CopyStep, Authored
<1> QED
    BY <1>3, <1>6

LEMMA TimeSteps ==
    ASSUME Typed, Next
    PROVE  TimeStep /\ CopyStep
<1>1. PICK a \in Agent : UserStep(a) \/ MainStep(a) \/ ServerStep(a) \/ Failure(a)
    BY DEF Next
<1>2. UNCHANGED <<clock, now>> => TimeStep
    BY DEF TimeStep, Typed, StoresTyped
<1>3. UNCHANGED <<known, work>> => CopyStep
    BY DEF CopyStep
<1>4. CASE UserStep(a)
    BY <1>2, <1>3, <1>4 DEF UserStep, UserDelete, UserWrite, UserChanges, storeVars, loopVars
<1>5. CASE ListFiles(a) \/ ReadFile(a) \/ WriteChunk(a) \/ ScanDone(a)
    BY <1>2, <1>3, <1>5 DEF ListFiles, ReadFile, WriteChunk, ScanDone, storeVars
<1>6. CASE ScanVanished(a) \/ ReadFails(a) \/ WriteChunkFails(a)
    BY <1>2, <1>3, <1>6 DEF ScanVanished, ReadFails, WriteChunkFails, ScanEnds
<1>7. CASE TakeIn(a)
    <2>1. PICK p \in Path, content \in Content :
              \/ UNCHANGED <<manifest, known, clock, now>>
              \/ AuthorEntry(a, p, content, FALSE)
        BY <1>7, TakeInEffect
    <2>2. UNCHANGED work
        BY <1>7 DEF TakeIn
    <2> QED
        BY <1>2, <1>3, <2>1, <2>2, AuthorEntryTime
<1>8. CASE ScanTomb(a)
    <2>1. PICK p \in Path : AuthorEntry(a, p, <<>>, TRUE)
        BY <1>8, ScanTombEffect
    <2>2. UNCHANGED work /\ <<>> \in Content
        BY <1>8, ContentAssumption DEF ScanTomb, loopVars
    <2> QED
        BY <2>1, <2>2, AuthorEntryTime
<1>9. CASE Dial(a) \/ ExchangeDone(a) \/ ExchangeFails(a) \/ DialRefused(a)
    BY <1>2, <1>3, <1>9 DEF Dial, ExchangeDone, ExchangeFails, DialRefused, storeVars
<1>10. CASE \/ ReceiveReply(a) \/ AskChunks(a) \/ ServeBegin(a) \/ ServeReply(a) \/ SendChunks(a)
           \/ LateBegin(a) \/ LateReply(a)
    BY <1>2, <1>3, <1>10
    DEF ReceiveReply, AskChunks, ServeBegin, ServeReply, SendChunks, LateBegin, LateReply,
        BeginMerge, ConnOnly, storeVars, loopVars
<1>11. CASE MergeApply(a) \/ ServeApply(a) \/ LateApply(a) \/ StoreChunk(a)
    BY <1>2, <1>3, <1>11 DEF MergeApply, ServeApply, LateApply, StoreChunk, ApplyNext, loopVars
<1>12. CASE Snapshot(a)
    <2>1. /\ UNCHANGED <<clock, now, known>>
          /\ work' = [work EXCEPT ![a] = [p \in Pending(a) |-> manifest[a][p]]]
        BY <1>12 DEF Snapshot, storeVars
    <2>2. Pending(a) \subseteq DOMAIN manifest[a]
        BY DEF Pending
    <2>3. CopyStep
        BY <2>1, <2>2 DEF CopyStep, Typed, LoopTyped
    <2> QED
        BY <1>2, <2>1, <2>3
<1>13. CASE Materialize(a)
    <2>1. PICK p \in Path :
              /\ p \in DOMAIN work[a]
              /\ \A q : q \in DOMAIN known'[a] <=> q \in DOMAIN known[a] \/ q = p
              /\ known'[a][p] = work[a][p]
              /\ \A q \in DOMAIN known[a] : q # p => known'[a][q] = known[a][q]
        BY <1>13, MaterializeEffect
    <2>2. \A b \in Agent \ {a} : known'[b] = known[b]
        BY <1>13 DEF Materialize, Typed, StoresTyped
    <2>3. CopyStep
        BY <1>13, <2>1, <2>2 DEF CopyStep, Materialize
    <2> QED
        BY <1>2, <1>13, <2>3 DEF Materialize
<1>14. CASE MaterializeFails(a)
    BY <1>2, <1>3, <1>14 DEF MaterializeFails, storeVars
<1>15. CASE Save(a) \/ SaveFails(a)
    <2>1. work' = [work EXCEPT ![a] = EmptyManifest] /\ UNCHANGED <<known, clock, now>>
        BY <1>15 DEF Save, SaveFails, NextTick, storeVars
    <2>2. CopyStep
        BY <2>1, EmptyManifestType DEF CopyStep, Typed, LoopTyped
    <2> QED
        BY <1>2, <2>1, <2>2
<1>16. CASE Restart(a)
    <2>1. /\ work' = [work EXCEPT ![a] = EmptyManifest]
          /\ known' = [known EXCEPT ![a] = EmptyManifest]
          /\ clock' = [clock EXCEPT ![a] = HlcZero] /\ now' = now
        BY <1>16 DEF Restart, Reborn
    <2>2. CopyStep
        BY <2>1, EmptyManifestType DEF CopyStep, Typed, LoopTyped, StoresTyped
    <2>3. TimeStep
        BY <2>1 DEF TimeStep, Typed, StoresTyped
    <2> QED
        BY <2>2, <2>3
<1> QED
    BY <1>1, <1>4, <1>5, <1>6, <1>7, <1>8, <1>9, <1>10, <1>11, <1>12, <1>13, <1>14, <1>15, <1>16
    DEF MainStep, ServerStep, Failure

LEMMA TickNow ==
    ASSUME NEW c \in Hlc, NEW wall \in Nat, NEW t \in Nat, c.physical_ms <= t, t <= wall
    PROVE  Tick(c, wall).physical_ms <= wall
BY DEF Tick, Hlc

LEMMA ApplyOld ==
    ASSUME NEW t, NEW m \in Manifests, NEW p \in Path, NEW e \in Entry,
           OldIn(t, m), e.hlc.physical_ms <= t
    PROVE  OldIn(t, Apply(m, p, e))
<1> SUFFICES ASSUME NEW q \in DOMAIN Apply(m, p, e)
             PROVE  Apply(m, p, e)[q].hlc.physical_ms <= t
    BY DEF OldIn
<1>1. \/ q \in DOMAIN m /\ Apply(m, p, e)[q] = m[q]
      \/ Apply(m, p, e)[q] = e
      \/ p \in DOMAIN m /\ Apply(m, p, e)[q] = m[p]
    BY ApplyOrigin
<1> QED
    BY <1>1 DEF OldIn

LEMMA OldInLater ==
    ASSUME NEW m \in Manifests, NEW s \in Nat, NEW t \in Nat, s <= t, OldIn(s, m)
    PROVE  OldIn(t, m)
<1>1. \A p \in DOMAIN m : m[p].hlc.physical_ms \in Nat
    BY ManifestsUse DEF Entry, Hlc
<1> QED
    BY <1>1 DEF OldIn

\* Nothing is put in a manifest at a path that is not safe.
LEMMA ApplySafe ==
    ASSUME NEW m \in Manifests, NEW p \in Path, NEW e \in Entry, SafeIn(m)
    PROVE  SafeIn(Apply(m, p, e))
<1>1. CASE ~is_safe_relative_path(p)
    BY <1>1 DEF Apply
<1>2. CASE is_safe_relative_path(p)
    <2> SUFFICES ASSUME NEW q \in DOMAIN Apply(m, p, e)
                 PROVE  is_safe_relative_path(q)
        BY DEF SafeIn
    <2>1. \/ q \in DOMAIN m \/ q = p \/ q = ConflictPath(p, e)
          \/ p \in DOMAIN m /\ q = ConflictPath(p, m[p])
        BY ApplyOrigin
    <2>2. p \in DOMAIN m => m[p] \in Entry
        BY ManifestsUse
    <2>3. p \in DOMAIN m =>
              is_safe_relative_path(ConflictPath(p, m[p])) = is_safe_relative_path(p)
        BY <2>2, ConflictPathType
    <2>4. is_safe_relative_path(ConflictPath(p, e)) = is_safe_relative_path(p)
        BY ConflictPathType
    <2> QED
        BY <1>2, <2>1, <2>3, <2>4 DEF SafeIn
<1> QED
    BY <1>1, <1>2

LEMMA AllSafeInductive ==
    ASSUME Typed, AllSafe, [Next]_vars
    PROVE  AllSafe'
<1>1. CASE UNCHANGED vars \/ QuietStep
    BY <1>1 DEF vars, storeVars, QuietStep, AllSafe
<1>2. manifest \in [Agent -> Manifests] /\ saved \in [Agent -> Manifests]
    BY DEF Typed, StoresTyped, BoundsTyped
<1>3. ASSUME NEW a \in Agent, NEW p \in Path, NEW e \in Entry,
             manifest' = [manifest EXCEPT ![a] = Apply(@, p, e)], UNCHANGED saved
      PROVE  AllSafe'
    <2>1. SafeIn(Apply(manifest[a], p, e))
        BY <1>2, ApplySafe DEF AllSafe
    <2> QED
        BY <1>2, <1>3, <2>1 DEF AllSafe
<1>4. ASSUME NEW a \in Agent, NEW p \in Path, NEW e \in Entry, AuthorStep(a, p, e)
      PROVE  AllSafe'
    BY <1>3, <1>4 DEF AuthorStep
<1>5. ASSUME NEW a \in Agent, NEW m \in Mail, NEW p \in Path, MergeStep(a, m, p)
      PROVE  AllSafe'
    BY <1>3, <1>5 DEF MergeStep
<1>6. ASSUME NEW a \in Agent, SaveStep(a) \/ RestartStep(a)
      PROVE  AllSafe'
    BY <1>2, <1>6 DEF AllSafe, SaveStep, RestartStep
<1>7. CASE Next
    BY <1>1, <1>4, <1>5, <1>6, <1>7, ManifestSteps
<1> QED
    BY <1>1, <1>7

\* No entry is from beyond time u once none was from beyond t, clocks included.
LEMMA EntriesOldKept ==
    ASSUME Typed, Typed', Next, NEW t \in Nat, NEW u \in Nat, t <= u,
           EntriesOld(t), \A a \in Agent : clock'[a].physical_ms <= u
    PROVE  /\ \A a \in Agent : /\ OldIn(u, manifest'[a]) /\ OldIn(u, saved'[a])
                              /\ OldIn(u, known'[a]) /\ OldIn(u, work'[a])
           /\ \A m \in Mail' : OldIn(u, m)
<1> DEFINE Goal == \A b \in Agent : OldIn(u, manifest'[b]) /\ OldIn(u, saved'[b])
<1>1. /\ manifest \in [Agent -> Manifests] /\ saved \in [Agent -> Manifests]
      /\ known \in [Agent -> Manifests] /\ work \in [Agent -> Manifests]
      /\ Mail \subseteq Manifests
    BY MailType DEF Typed, StoresTyped, LoopTyped, BoundsTyped
<1>2. BodiesKept /\ CopyStep
    BY ManifestSteps, TimeSteps
<1>3. /\ \A b \in Agent : /\ OldIn(u, manifest[b]) /\ OldIn(u, saved[b])
                         /\ OldIn(u, known[b]) /\ OldIn(u, work[b])
      /\ \A m \in Mail : OldIn(u, m)
    <2>1. \A m \in Manifests : OldIn(t, m) => OldIn(u, m)
        BY OldInLater
    <2> QED
        BY <1>1, <2>1 DEF EntriesOld
<1>4. /\ \A a \in Agent : OldIn(u, known'[a]) /\ OldIn(u, work'[a])
      /\ \A m \in Mail' : OldIn(u, m)
    <2>1. \A a \in Agent : OldIn(u, known'[a]) /\ OldIn(u, work'[a])
        BY <1>2, <1>3 DEF CopyStep, OldIn
    <2> QED
        BY <1>2, <1>3, <2>1 DEF BodiesKept
<1>5. ASSUME NEW a \in Agent, NEW p \in Path, NEW e \in Entry, e.hlc.physical_ms <= u,
             manifest' = [manifest EXCEPT ![a] = Apply(@, p, e)], UNCHANGED saved
      PROVE  Goal
    <2>1. OldIn(u, Apply(manifest[a], p, e))
        BY <1>1, <1>3, <1>5, ApplyOld
    <2> QED
        BY <1>1, <1>3, <1>5, <2>1
<1>6. ASSUME NEW a \in Agent, NEW p \in Path, NEW e \in Entry, AuthorStep(a, p, e)
      PROVE  Goal
    BY <1>5, <1>6 DEF AuthorStep
<1>7. ASSUME NEW a \in Agent, NEW m \in Mail, NEW p \in Path, MergeStep(a, m, p)
      PROVE  Goal
    <2>1. m[p] \in Entry /\ m[p].hlc.physical_ms <= u
        BY <1>3, <1>7 DEF MergeStep, OldIn
    <2> QED
        BY <1>5, <1>7, <2>1 DEF MergeStep
<1>8. ASSUME NEW a \in Agent, SaveStep(a) \/ RestartStep(a)
      PROVE  Goal
    BY <1>1, <1>3, <1>8 DEF SaveStep, RestartStep
<1>9. ASSUME QuietStep
      PROVE  Goal
    BY <1>3, <1>9 DEF QuietStep
<1> HIDE DEF Goal
<1>10. Goal
    BY <1>6, <1>7, <1>8, <1>9, ManifestSteps
<1> QED
    BY <1>4, <1>10 DEF Goal

LEMMA AllOldInductive ==
    ASSUME Typed, Typed', AllOld, [Next]_vars
    PROVE  AllOld'
<1>1. CASE UNCHANGED vars
    BY <1>1 DEF vars, storeVars, loopVars, connVars, Mail, AllOld, EntriesOld, WallTime
<1>2. CASE Next
    <2>1. now \in Nat /\ now' \in Nat /\ now <= now' /\ TimeStep
        BY <1>2, TimeSteps DEF TimeStep, Typed, StoresTyped
    <2>2. ASSUME NEW a \in Agent
          PROVE  /\ Offset[a] \in Nat /\ WallTime(a) \in Nat /\ now' + Offset[a] \in Nat
                 /\ WallTime(a) <= now' + Offset[a]
        <3>1. Offset[a] \in Nat
            BY AgentAssumption
        <3> QED
            BY <2>1, <3>1 DEF WallTime
    <2>3. ASSUME NEW a \in Agent
          PROVE  clock'[a].physical_ms <= now' + Offset[a]
        <3>1. clock[a] \in Hlc /\ clock[a].physical_ms \in Nat
              /\ clock[a].physical_ms <= WallTime(a)
            BY DEF AllOld, Typed, StoresTyped, Hlc
        <3>2. CASE clock'[a] = clock[a]
            BY <2>2, <3>1, <3>2
        <3>3. CASE clock'[a] = Tick(clock[a], now' + Offset[a])
            BY <2>2, <3>1, <3>3, TickNow
        <3>4. CASE clock'[a] = HlcZero
            BY <2>2, <3>4 DEF HlcZero
        <3> QED
            BY <2>1, <3>2, <3>3, <3>4 DEF TimeStep
    <2>4. ASSUME NEW a \in Agent, Leading(a)
          PROVE  /\ \A b \in Agent :
                        /\ OldIn(now' + Offset[a], manifest'[b])
                        /\ OldIn(now' + Offset[a], saved'[b])
                        /\ OldIn(now' + Offset[a], known'[b])
                        /\ OldIn(now' + Offset[a], work'[b])
                 /\ \A m \in Mail' : OldIn(now' + Offset[a], m)
        <3>1. ASSUME NEW b \in Agent
              PROVE  clock'[b].physical_ms <= now' + Offset[a]
            <4>1. clock'[b].physical_ms \in Nat /\ clock'[b].physical_ms <= now' + Offset[b]
                BY <2>3 DEF Typed, StoresTyped, Hlc
            <4>2. Offset[b] \in Nat /\ Offset[a] \in Nat /\ Offset[b] <= Offset[a]
                BY <2>2, <2>4 DEF Leading
            <4> QED
                BY <2>1, <4>1, <4>2
        <3> DEFINE t == WallTime(a)
                   u == now' + Offset[a]
        <3>2. t \in Nat /\ u \in Nat /\ t <= u /\ EntriesOld(t)
            BY <2>2, <2>4 DEF AllOld
        <3> QED
            BY <1>2, <3>1, <3>2, EntriesOldKept
    <2> QED
        BY <2>3, <2>4 DEF AllOld, EntriesOld, WallTime, Leading
<1> QED
    BY <1>1, <1>2

\* A new stamp is later than anything that the wall clock has shown before.
LEMMA StampIsLater ==
    ASSUME Typed, AllOld, 0 \notin Gap, NEW a \in Agent, NEW p, NEW c, NEW deleted,
           AuthorEntry(a, p, c, deleted), NEW h \in Hlc, h.physical_ms <= WallTime(a)
    PROVE  HlcBefore(h, clock'[a])
<1>1. PICK gap \in Gap : /\ now' = now + gap
                         /\ clock' = [clock EXCEPT ![a] = Tick(@, now' + Offset[a])]
    BY DEF AuthorEntry
<1>2. now \in Nat /\ gap \in Nat \ {0} /\ Offset[a] \in Nat /\ clock[a] \in Hlc
    BY AgentAssumption DEF Typed, StoresTyped
<1>3. clock'[a].physical_ms = now + gap + Offset[a]
    <2>1. clock[a].physical_ms \in Nat /\ clock[a].physical_ms <= now + Offset[a]
        BY <1>2 DEF AllOld, WallTime, Hlc
    <2>2. clock'[a] = Tick(clock[a], now + gap + Offset[a])
        BY <1>1 DEF Typed, StoresTyped
    <2>3. now + gap + Offset[a] > clock[a].physical_ms
        BY <1>2, <2>1
    <2> QED
        BY <2>2, <2>3 DEF Tick
<1>4. h.physical_ms \in Nat /\ h.physical_ms <= now + Offset[a]
    BY DEF Hlc, WallTime
<1>5. h.physical_ms < clock'[a].physical_ms
    BY <1>2, <1>3, <1>4
<1> QED
    BY <1>5 DEF HlcBefore

\* What authoring p on top of a version that is all in the past does.
LEMMA AuthoringReplaces ==
    ASSUME Typed, AllOld, AllSafe, 0 \notin Gap, NEW a \in Agent, Leading(a),
           NEW p \in Path, NEW c \in Content, NEW deleted \in BOOLEAN,
           AuthorEntry(a, p, c, deleted), p \in DOMAIN known[a]
    PROVE  /\ HlcBefore(known[a][p].hlc, known'[a][p].hlc)
           /\ p \in DOMAIN manifest[a] /\ manifest[a][p] = known[a][p]
                  => manifest'[a][p] = known'[a][p]
<1> DEFINE e == Authored(a, c, deleted, clock'[a])
           f == known[a][p]
<1>4. f \in Entry /\ f.hlc \in Hlc /\ f.hlc.physical_ms <= WallTime(a)
    BY ManifestsUse DEF Typed, StoresTyped, AllOld, EntriesOld, OldIn, Entry
<1>5. HlcBefore(f.hlc, clock'[a])
    BY <1>4, StampIsLater
<1>6. known'[a][p] = e /\ e.hlc = clock'[a]
    BY AuthorEntryKnown DEF Authored
<1>7. ASSUME p \in DOMAIN manifest[a], manifest[a][p] = f
      PROVE  manifest'[a][p] = e
    <2>1. e \in Entry /\ manifest[a] \in Manifests
        BY AuthorEntryTyped DEF Typed, StoresTyped
    <2>2. is_safe_relative_path(p)
        BY <1>7 DEF AllSafe, SafeIn
    <2>3. Apply(manifest[a], p, e) = Insert(manifest[a], p, e)
        BY <1>5, <1>6, <1>7, <2>2 DEF Apply
    <2>4. manifest'[a] = Apply(manifest[a], p, e)
        BY DEF AuthorEntry, Typed, StoresTyped
    <2> QED
        BY <2>1, <2>3, <2>4, InsertType
<1> QED
    BY <1>5, <1>6, <1>7

\* Where no two stamps are taken in the same millisecond, an edit replaces the
\* version it was made on, if the editor's wall clock is behind no other's and
\* however the others differ, also across failures and restarts, which set the
\* hybrid clock back to zero.
THEOREM EditsReplace ==
    ASSUME 0 \notin Gap
    PROVE  Spec => EditReplacesItsBase
<1> DEFINE Inv == AllOld /\ AllSafe
           Step == \A a \in Agent : \A p \in DOMAIN known'[a] :
                       Leading(a) /\ Authors(a, p) /\ p \in DOMAIN known[a] =>
                           /\ HlcBefore(known[a][p].hlc, known'[a][p].hlc)
                           /\ p \in DOMAIN manifest[a] /\ manifest[a][p] = known[a][p]
                                  => manifest'[a][p] = known'[a][p]
<1>1. Init => Inv
    <2>1. \A a \in Agent : 0 <= 1 + Offset[a]
        BY AgentAssumption
    <2>2. Init => Mail = {}
        BY IdleType DEF Init, Mail
    <2> QED
        BY <2>1, <2>2, EmptyManifestType
        DEF Init, AllOld, EntriesOld, AllSafe, OldIn, SafeIn, WallTime, HlcZero
<1>2. Typed /\ Typed' /\ Inv /\ [Next]_vars => Inv'
    BY AllOldInductive, AllSafeInductive
<1>3. Typed /\ Inv /\ [Next]_vars => [Step]_vars
    <2> SUFFICES ASSUME Typed, Inv, Next, NEW b \in Agent, NEW p \in DOMAIN known'[b],
                        Leading(b), Authors(b, p), p \in DOMAIN known[b]
                 PROVE  /\ HlcBefore(known[b][p].hlc, known'[b][p].hlc)
                        /\ p \in DOMAIN manifest[b] /\ manifest[b][p] = known[b][p]
                               => manifest'[b][p] = known'[b][p]
        OBVIOUS
    <2>1. PICK a \in Agent : UserStep(a) \/ MainStep(a) \/ ServerStep(a) \/ Failure(a)
        BY DEF Next
    <2>2. a = b /\ (TakeIn(b) \/ ScanTomb(b) \/ Restart(b))
        BY <2>1, ClockSteps DEF Authors
    <2>3. CASE TakeIn(b)
        <3>1. PICK q \in Path, c \in Content :
                  \/ UNCHANGED <<manifest, known, clock, now>>
                  \/ AuthorEntry(b, q, c, FALSE)
            BY <2>3, TakeInEffect
        <3>2. AuthorEntry(b, q, c, FALSE)
            BY <3>1 DEF Authors
        <3>3. p = q
            BY <3>2, AuthorEntryKnown DEF Authors
        <3> QED
            BY <3>2, <3>3, AuthoringReplaces
    <2>4. CASE ScanTomb(b)
        <3>1. PICK q \in Path : AuthorEntry(b, q, <<>>, TRUE)
            BY <2>4, ScanTombEffect
        <3>2. <<>> \in Content
            BY ContentAssumption
        <3>3. p = q
            BY <3>1, <3>2, AuthorEntryKnown DEF Authors
        <3> QED
            BY <3>1, <3>2, <3>3, AuthoringReplaces
    <2>5. ~Restart(b)
        BY RestartKnowsNothing
    <2> QED
        BY <2>2, <2>3, <2>4, <2>5
<1> HIDE DEF Inv, Step
<1>4. Spec => [][Step]_vars
    BY <1>1, <1>2, <1>3, TypingHolds, PTL DEF Spec
<1> QED
    BY <1>4 DEF EditReplacesItsBase, Step


------------------------------------------------------------------------------
\* Versions on disk only rise.  The manifest is never behind known_local, nor
\* behind a snapshot that is being materialized; and no entry that is still to
\* be materialized is behind known_local.  Only authoring needs the clocks.

KnownBehind(a) ==
    \A p \in DOMAIN known[a] : is_safe_relative_path(p) =>
        p \in DOMAIN manifest[a] /\ RanksUpTo(known[a][p], manifest[a][p])

SnapshotBehind(a) ==
    \A p \in DOMAIN work[a] :
        p \in DOMAIN manifest[a] /\ RanksUpTo(work[a][p], manifest[a][p])

PendingAhead(a) ==
    pc[a] = "materialize" =>
        \A p \in todo[a] \cap DOMAIN known[a] : RanksUpTo(known[a][p], work[a][p])

Ordered(a) == KnownBehind(a) /\ SnapshotBehind(a) /\ PendingAhead(a)

Rises(a) ==
    \A p \in DOMAIN manifest[a] :
        p \in DOMAIN manifest'[a] /\ RanksUpTo(manifest[a][p], manifest'[a][p])

LEMMA ApplyAtRises ==
    ASSUME Typed, NEW a \in Agent, NEW p \in Path, NEW e \in Entry, NEW b \in Agent,
           manifest' = [manifest EXCEPT ![a] = Apply(@, p, e)]
    PROVE  Rises(b)
<1>1. manifest[b] \in Manifests
    BY DEF Typed, StoresTyped
<1>2. CASE b = a
    <2>1. manifest'[b] = Apply(manifest[b], p, e)
        BY <1>2 DEF Typed, StoresTyped
    <2> QED
        BY <1>1, <2>1, ApplyRaises DEF Rises
<1>3. CASE b # a
    <2>1. manifest'[b] = manifest[b]
        BY <1>3 DEF Typed, StoresTyped
    <2> QED
        BY <1>1, <2>1, ManifestsUse, RanksReflexive DEF Rises
<1> QED
    BY <1>2, <1>3

\* Only a restart takes anything back from a manifest in memory.
LEMMA ManifestsRise ==
    ASSUME Typed, Next, NEW b \in Agent
    PROVE  Rises(b) \/ Restart(b)
<1>1. manifest[b] \in Manifests
    BY DEF Typed, StoresTyped
<1>2. ASSUME manifest'[b] = manifest[b] PROVE Rises(b)
    BY <1>1, <1>2, ManifestsUse, RanksReflexive DEF Rises
<1>3. CASE QuietStep \/ UNCHANGED manifest
    BY <1>2, <1>3 DEF QuietStep
<1>4. ASSUME NEW a \in Agent, NEW p \in Path, NEW e \in Entry, AuthorStep(a, p, e)
      PROVE  Rises(b)
    BY <1>4, ApplyAtRises DEF AuthorStep
<1>5. ASSUME NEW a \in Agent, NEW m \in Mail, NEW p \in Path, MergeStep(a, m, p)
      PROVE  Rises(b)
    <2>1. PICK e \in Entry : manifest' = [manifest EXCEPT ![a] = Apply(@, p, e)]
        BY <1>5 DEF MergeStep
    <2> QED
        BY <2>1, ApplyAtRises
<1>6. ASSUME NEW a \in Agent, RestartStep(a)
      PROVE  Rises(b) \/ Restart(b)
    <2>1. CASE b = a
        BY <1>6, <2>1 DEF RestartStep
    <2>2. CASE b # a
        BY <1>2, <1>6, <2>2 DEF RestartStep, Typed, StoresTyped
    <2> QED
        BY <2>1, <2>2
<1>7. ASSUME NEW a \in Agent, SaveStep(a)
      PROVE  Rises(b)
    BY <1>2, <1>7 DEF SaveStep
<1> QED
    BY <1>3, <1>4, <1>5, <1>6, <1>7, ManifestSteps

\* Who is at or below what a manifest held is so for what it comes to hold.
LEMMA BelowRisen ==
    ASSUME Typed, Typed', NEW a \in Agent, Rises(a), NEW p \in DOMAIN manifest[a],
           NEW e \in Entry, RanksUpTo(e, manifest[a][p])
    PROVE  p \in DOMAIN manifest'[a] /\ RanksUpTo(e, manifest'[a][p])
<1>1. p \in DOMAIN manifest'[a] /\ RanksUpTo(manifest[a][p], manifest'[a][p])
    BY DEF Rises
<1>2. manifest[a] \in Manifests /\ manifest'[a] \in Manifests
    BY DEF Typed, StoresTyped
<1>3. manifest[a][p] \in Entry /\ manifest'[a][p] \in Entry
    BY <1>1, <1>2, ManifestsUse
<1> QED
    BY <1>1, <1>3, RanksTransitive

\* A step that authors and materializes nothing.
LEMMA OrderedKept ==
    ASSUME Typed, Typed', NEW a \in Agent, Ordered(a), Rises(a), known'[a] = known[a],
           work'[a] = work[a] \/ work'[a] = EmptyManifest,
           pc'[a] = "materialize" =>
               pc[a] = "materialize" /\ todo'[a] \subseteq todo[a] /\ work'[a] = work[a]
    PROVE  Ordered(a)'
<1>1. known[a] \in Manifests /\ work[a] \in Manifests
    BY DEF Typed, StoresTyped, LoopTyped
<1>2. KnownBehind(a)'
    BY <1>1, ManifestsUse, BelowRisen DEF Ordered, KnownBehind
<1>3. SnapshotBehind(a)'
    BY <1>1, ManifestsUse, EmptyManifestType, BelowRisen DEF Ordered, SnapshotBehind
<1>4. PendingAhead(a)'
    BY DEF Ordered, PendingAhead
<1> QED
    BY <1>2, <1>3, <1>4 DEF Ordered

LEMMA AuthoringOrdered ==
    ASSUME Typed, Typed', NEW a \in Agent, Ordered(a), NEW p \in Path, NEW c \in Content,
           NEW deleted \in BOOLEAN, AuthorEntry(a, p, c, deleted),
           work'[a] = work[a], pc'[a] # "materialize"
    PROVE  Ordered(a)'
<1> DEFINE e == Authored(a, c, deleted, clock'[a])
<1>1. /\ \A q : q \in DOMAIN known'[a] <=> q \in DOMAIN known[a] \/ q = p
      /\ known'[a][p] = e
      /\ \A q \in DOMAIN known[a] : q # p => known'[a][q] = known[a][q]
    BY AuthorEntryKnown
<1>2. known[a] \in Manifests /\ work[a] \in Manifests /\ manifest[a] \in Manifests
    BY DEF Typed, StoresTyped, LoopTyped
<1>3. e \in Entry
    BY AuthorEntryTyped DEF Typed, StoresTyped
<1>4. manifest' = [manifest EXCEPT ![a] = Apply(@, p, e)]
    BY DEF AuthorEntry
<1>5. Rises(a)
    BY <1>3, <1>4, ApplyAtRises
<1>6. KnownBehind(a)'
    <2> SUFFICES ASSUME NEW q \in DOMAIN known'[a], is_safe_relative_path(q)
                 PROVE  q \in DOMAIN manifest'[a] /\ RanksUpTo(known'[a][q], manifest'[a][q])
        BY DEF KnownBehind
    <2>1. CASE q = p
        <3>1. manifest'[a] = Apply(manifest[a], p, e)
            BY <1>4 DEF Typed, StoresTyped
        <3> QED
            BY <1>1, <1>2, <1>3, <2>1, <3>1, ApplyCovers
    <2>2. CASE q # p
        <3>1. /\ q \in DOMAIN known[a] /\ known'[a][q] = known[a][q]
              /\ q \in DOMAIN manifest[a] /\ RanksUpTo(known[a][q], manifest[a][q])
            BY <1>1, <2>2 DEF Ordered, KnownBehind
        <3> QED
            BY <1>2, <1>5, <3>1, ManifestsUse, BelowRisen
    <2> QED
        BY <2>1, <2>2
<1>7. SnapshotBehind(a)'
    BY <1>2, <1>5, ManifestsUse, BelowRisen DEF Ordered, SnapshotBehind
<1> QED
    BY <1>6, <1>7 DEF Ordered, PendingAhead

LEMMA SnapshotOrdered ==
    ASSUME Typed, AllSafe, NEW a \in Agent, Ordered(a), Snapshot(a)
    PROVE  Ordered(a)'
<1>1. /\ known'[a] = known[a] /\ manifest'[a] = manifest[a] /\ manifest[a] \in Manifests
      /\ work'[a] = [p \in Pending(a) |-> manifest[a][p]] /\ todo'[a] = Pending(a)
    BY DEF Snapshot, storeVars, Typed, StoresTyped, LoopTyped
<1>2. Pending(a) \subseteq DOMAIN manifest[a]
    BY DEF Pending
<1>3. SnapshotBehind(a)'
    BY <1>1, <1>2, ManifestsUse, RanksReflexive DEF SnapshotBehind
<1>4. PendingAhead(a)'
    BY <1>1, <1>2 DEF PendingAhead, Ordered, KnownBehind, AllSafe, SafeIn
<1> QED
    BY <1>1, <1>3, <1>4 DEF Ordered, KnownBehind

LEMMA MaterializeOrdered ==
    ASSUME Typed, NEW a \in Agent, Ordered(a), Materialize(a)
    PROVE  Ordered(a)'
<1>1. PICK p \in Path :
          /\ p \in todo[a]
          /\ \A q : q \in DOMAIN known'[a] <=> q \in DOMAIN known[a] \/ q = p
          /\ known'[a][p] = work[a][p]
          /\ \A q \in DOMAIN known[a] : q # p => known'[a][q] = known[a][q]
          /\ todo'[a] = todo[a] \ {p} /\ pc[a] = "materialize"
    BY MaterializeEffect
<1>2. UNCHANGED <<manifest, work>> /\ p \in DOMAIN work[a]
    BY <1>1 DEF Materialize, Typed, LoopTyped
<1>3. KnownBehind(a)'
    BY <1>1, <1>2 DEF Ordered, KnownBehind, SnapshotBehind
<1>4. PendingAhead(a)'
    BY <1>1, <1>2 DEF Ordered, PendingAhead
<1> QED
    BY <1>2, <1>3, <1>4 DEF Ordered, SnapshotBehind

LEMMA OrderedInductive ==
    ASSUME Typed, Typed', AllSafe, \A a \in Agent : Ordered(a), Next
    PROVE  \A a \in Agent : Ordered(a)'
<1> SUFFICES ASSUME NEW b \in Agent PROVE Ordered(b)'
    OBVIOUS
<1>1. PICK a \in Agent : UserStep(a) \/ MainStep(a) \/ ServerStep(a) \/ Failure(a)
    BY DEF Next
<1>2. CASE Restart(b)
    <2>1. known'[b] = EmptyManifest /\ work'[b] = EmptyManifest /\ pc'[b] = "list"
        BY <1>2 DEF Restart, Reborn, Goto, Typed, StoresTyped, LoopTyped
    <2> QED
        BY <2>1, EmptyManifestType DEF Ordered, KnownBehind, SnapshotBehind, PendingAhead
<1>3. CASE ~Restart(b) /\ a # b
    <2>1. Rises(b)
        BY <1>3, ManifestsRise
    <2> QED
        BY <1>1, <1>3, <2>1, OthersKept, OrderedKept DEF trackVars
<1>4. CASE ~Restart(b) /\ a = b
    <2>1. Rises(b)
        BY <1>4, ManifestsRise
    <2>2. CASE TakeIn(b)
        <3>1. PICK p \in Path, c \in Content :
                  /\ UNCHANGED known \/ AuthorEntry(b, p, c, FALSE)
                  /\ pc'[b] = "scan"
            BY <2>2, TakeInEffect
        <3>2. work'[b] = work[b]
            BY <2>2 DEF TakeIn
        <3> QED
            BY <2>1, <3>1, <3>2, AuthoringOrdered, OrderedKept
    <2>3. CASE ScanTomb(b)
        <3>1. PICK p \in Path : AuthorEntry(b, p, <<>>, TRUE) /\ pc'[b] = "scan"
            BY <2>3, ScanTombEffect
        <3>2. work'[b] = work[b] /\ <<>> \in Content
            BY <2>3, ContentAssumption DEF ScanTomb, loopVars
        <3> QED
            BY <3>1, <3>2, AuthoringOrdered
    <2>4. CASE \/ UserStep(b) \/ ListFiles(b) \/ ReadFile(b) \/ WriteChunk(b) \/ ScanDone(b)
               \/ Dial(b) \/ ExchangeDone(b) \/ ExchangeFails(b) \/ DialRefused(b)
               \/ MaterializeFails(b) \/ Save(b) \/ SaveFails(b)
               \/ ScanVanished(b) \/ ReadFails(b) \/ WriteChunkFails(b)
        <3>1. known' = known
            BY <2>4 DEF UserStep, UserDelete, UserWrite, UserChanges, ListFiles, ReadFile,
                        WriteChunk, ScanDone, ScanVanished, ReadFails, WriteChunkFails, ScanEnds,
                        Dial, ExchangeDone, ExchangeFails, DialRefused,
                        MaterializeFails, Save, SaveFails, storeVars
        <3>2. /\ work'[b] = work[b] \/ work'[b] = EmptyManifest
              /\ pc'[b] = "materialize" =>
                     /\ pc[b] = "materialize" /\ todo'[b] \subseteq todo[b]
                     /\ work'[b] = work[b]
            <4>1. CASE UserStep(b) \/ WriteChunk(b)
                BY <4>1 DEF UserStep, UserDelete, UserWrite, UserChanges, WriteChunk, loopVars
            <4>2. CASE ListFiles(b) \/ ReadFile(b) \/ ScanDone(b)
                BY <4>2 DEF ListFiles, ReadFile, ScanDone, Goto, Typed, LoopTyped
            <4>3. CASE ScanVanished(b) \/ ReadFails(b) \/ WriteChunkFails(b)
                BY <4>3 DEF ScanVanished, ReadFails, WriteChunkFails, ScanEnds, Goto,
                            Typed, LoopTyped
            <4>4. CASE Dial(b) \/ ExchangeDone(b) \/ ExchangeFails(b) \/ DialRefused(b)
                BY <4>4 DEF Dial, ExchangeDone, ExchangeFails, DialRefused, NextPeer, Goto,
                            Typed, LoopTyped
            <4>5. CASE MaterializeFails(b)
                BY <4>5 DEF MaterializeFails, Typed, LoopTyped
            <4>6. CASE Save(b) \/ SaveFails(b)
                BY <4>6 DEF Save, SaveFails, NextTick, Goto, Typed, LoopTyped
            <4> QED
                BY <2>4, <4>1, <4>2, <4>3, <4>4, <4>5, <4>6
        <3> QED
            BY <2>1, <3>1, <3>2, OrderedKept
    <2>5. CASE \/ ReceiveReply(b) \/ AskChunks(b) \/ MergeApply(b) \/ StoreChunk(b)
               \/ ServerStep(b)
        <3>1. UNCHANGED <<known, work, pc, todo>>
            BY <2>5 DEF ReceiveReply, AskChunks, ServerStep, ServeBegin, ServeReply, SendChunks,
                        LateBegin, LateApply, LateReply, MergeApply, ServeApply, StoreChunk,
                        BeginMerge, ApplyNext, ConnOnly, storeVars, loopVars
        <3> QED
            BY <2>1, <3>1, OrderedKept
    <2> QED
        BY <1>1, <1>4, <2>2, <2>3, <2>4, <2>5, SnapshotOrdered, MaterializeOrdered
        DEF MainStep, Failure
<1> QED
    BY <1>2, <1>3, <1>4

\* known_local changes when an agent authors, materializes or is started anew.
LEMMA KnownSteps ==
    ASSUME Typed, NEW a \in Agent, NEW b \in Agent, known'[b] # known[b],
           UserStep(a) \/ MainStep(a) \/ ServerStep(a) \/ Failure(a)
    PROVE  a = b /\ (TakeIn(a) \/ ScanTomb(a) \/ Materialize(a) \/ Restart(a))
<1>1. a = b
    BY OthersKept DEF trackVars
<1>2. CASE UserStep(a) \/ ListFiles(a) \/ ReadFile(a) \/ WriteChunk(a) \/ ScanDone(a)
    BY <1>2 DEF UserStep, UserDelete, UserWrite, UserChanges, ListFiles, ReadFile, WriteChunk,
                ScanDone, storeVars
<1>3. CASE \/ ScanVanished(a) \/ ReadFails(a) \/ WriteChunkFails(a) \/ DialRefused(a)
           \/ ExchangeFails(a) \/ MaterializeFails(a) \/ SaveFails(a)
    BY <1>3 DEF ScanVanished, ReadFails, WriteChunkFails, ScanEnds, DialRefused, ExchangeFails,
                MaterializeFails, SaveFails, storeVars
<1>4. CASE \/ Dial(a) \/ ReceiveReply(a) \/ MergeApply(a) \/ AskChunks(a) \/ StoreChunk(a)
           \/ ExchangeDone(a) \/ Snapshot(a) \/ Save(a)
    BY <1>4 DEF Dial, ReceiveReply, MergeApply, AskChunks, StoreChunk, ExchangeDone, Snapshot,
                Save, BeginMerge, ApplyNext, ConnOnly, storeVars
<1>5. CASE ServerStep(a)
    BY <1>5 DEF ServerStep, ServeBegin, ServeApply, ServeReply, SendChunks, LateBegin, LateApply,
                LateReply, BeginMerge, ApplyNext, ConnOnly, storeVars
<1> QED
    BY <1>1, <1>2, <1>3, <1>4, <1>5 DEF MainStep, Failure

LEMMA AuthoringRaises ==
    ASSUME Typed, AllOld, AllSafe, 0 \notin Gap, NEW a \in Agent, NEW p \in Path,
           NEW c \in Content, NEW deleted \in BOOLEAN, AuthorEntry(a, p, c, deleted),
           NEW q \in DOMAIN known[a], Authors(a, q) => Leading(a)
    PROVE  RanksUpTo(known[a][q], known'[a][q])
<1>1. known[a] \in Manifests
    BY DEF Typed, StoresTyped
<1>2. CASE q = p /\ Leading(a)
    BY <1>2, AuthoringReplaces DEF RanksUpTo
<1>3. CASE q # p \/ known'[a][q] = known[a][q]
    BY <1>1, <1>3, AuthorEntryKnown, ManifestsUse, RanksReflexive
<1>4. CASE q = p /\ ~Leading(a) /\ known'[a][q] # known[a][q]
    <2>1. p \in DOMAIN known'[a]
        BY AuthorEntryKnown
    <2>2. clock'[a] # clock[a]
        BY AuthorEntryTicks
    <2> QED
        BY <1>4, <2>1, <2>2 DEF Authors
<1> QED
    BY <1>2, <1>3, <1>4

\* Where no two stamps are taken in the same millisecond, the version that an
\* agent has on disk only rises, whatever merges while materialize_remote writes
\* out a snapshot, whatever fails and however the wall clocks differ; only an
\* edit of an agent whose wall clock is behind another's may rank lower.
THEOREM VersionsRise ==
    ASSUME 0 \notin Gap
    PROVE  Spec => VersionsOnlyRise
<1> DEFINE Inv == AllOld /\ AllSafe /\ \A a \in Agent : Ordered(a)
           Step == \A a \in Agent : \A p \in DOMAIN known[a] \cap DOMAIN known'[a] :
                       (Authors(a, p) => Leading(a)) => RanksUpTo(known[a][p], known'[a][p])
<1>1. Init => Inv
    <2>1. \A a \in Agent : 0 <= 1 + Offset[a]
        BY AgentAssumption
    <2>4. Init => Mail = {}
        BY IdleType DEF Init, Mail
    <2>2. Init => AllOld /\ AllSafe
        BY <2>1, <2>4, EmptyManifestType
        DEF Init, AllOld, EntriesOld, AllSafe, OldIn, SafeIn, WallTime, HlcZero
    <2>3. Init => \A a \in Agent : Ordered(a)
        BY EmptyManifestType DEF Init, Ordered, KnownBehind, SnapshotBehind, PendingAhead
    <2> QED
        BY <2>2, <2>3
<1>2. Typed /\ Typed' /\ Inv /\ [Next]_vars => Inv'
    <2> SUFFICES ASSUME Typed, Typed', Inv, [Next]_vars PROVE Inv'
        OBVIOUS
    <2>1. AllOld' /\ AllSafe'
        BY AllOldInductive, AllSafeInductive
    <2>2. CASE Next
        BY <2>1, <2>2, OrderedInductive
    <2>3. CASE UNCHANGED vars
        BY <2>1, <2>3 DEF vars, storeVars, loopVars, Ordered, KnownBehind, SnapshotBehind,
                          PendingAhead
    <2> QED
        BY <2>2, <2>3
<1>3. Typed /\ Inv /\ [Next]_vars => [Step]_vars
    <2> SUFFICES ASSUME Typed, Inv, Next, NEW b \in Agent,
                        NEW p \in DOMAIN known[b] \cap DOMAIN known'[b],
                        Authors(b, p) => Leading(b)
                 PROVE  RanksUpTo(known[b][p], known'[b][p])
        OBVIOUS
    <2>1. PICK a \in Agent : UserStep(a) \/ MainStep(a) \/ ServerStep(a) \/ Failure(a)
        BY DEF Next
    <2>2. known[b] \in Manifests
        BY DEF Typed, StoresTyped
    <2>3. CASE known'[b] = known[b]
        BY <2>2, <2>3, ManifestsUse, RanksReflexive
    <2>4. CASE TakeIn(b) /\ known'[b] # known[b]
        <3>1. PICK q \in Path, c \in Content : UNCHANGED known \/ AuthorEntry(b, q, c, FALSE)
            BY <2>4, TakeInEffect
        <3> QED
            BY <2>4, <3>1, AuthoringRaises
    <2>5. CASE ScanTomb(b)
        <3>1. PICK q \in Path : AuthorEntry(b, q, <<>>, TRUE)
            BY <2>5, ScanTombEffect
        <3>2. <<>> \in Content
            BY ContentAssumption
        <3> QED
            BY <3>1, <3>2, AuthoringRaises
    <2>6. CASE Materialize(b)
        <3>1. PICK q \in Path :
                  /\ q \in todo[b] /\ pc[b] = "materialize"
                  /\ known'[b][q] = work[b][q]
                  /\ \A r \in DOMAIN known[b] : r # q => known'[b][r] = known[b][r]
            BY <2>6, MaterializeEffect
        <3>2. CASE p = q
            BY <3>1, <3>2 DEF Ordered, PendingAhead
        <3>3. CASE p # q
            BY <2>2, <3>1, <3>3, ManifestsUse, RanksReflexive
        <3> QED
            BY <3>2, <3>3
    <2> QED
        BY <2>1, <2>3, <2>4, <2>5, <2>6, KnownSteps, RestartKnowsNothing
<1> HIDE DEF Inv, Step
<1>4. Spec => [][Step]_vars
    BY <1>1, <1>2, <1>3, TypingHolds, PTL DEF Spec
<1> QED
    BY <1>4 DEF VersionsOnlyRise, Step

------------------------------------------------------------------------------
\* The disk follows the manifest.  Gossip may bring an agent's own entries back
\* to it, but until it is killed its clock goes ahead of all of them, and so
\* does what it last knew to be on its disk: known_local is at or above its own
\* entries wherever these are, and at or below its manifest, so where the
\* manifest has an entry of its own the two differ by no more than a tie.

\* For an agent with clock t and known_local f an own entry e at p is past.
OwnPast(a, t, f, p, e) ==
    Len(p) = 1 /\ e.author_pubkey = a =>
        /\ HlcUpTo(e.hlc, t)
        /\ p \in DOMAIN f /\ RanksUpTo(e, f[p])

OwnPastIn(a, t, f, m) == \A p \in DOMAIN m : OwnPast(a, t, f, p, m[p])

AllOwnPast(a) ==
    /\ \A b \in Agent : /\ OwnPastIn(a, clock[a], known[a], manifest[b])
                        /\ OwnPastIn(a, clock[a], known[a], saved[b])
    /\ \A m \in Mail : OwnPastIn(a, clock[a], known[a], m)

\* Authoring raises the clock, and what is known at the path, above own entries.
LEMMA AuthoringOverOwn ==
    ASSUME Typed, NEW a \in Agent, NEW q \in Path, NEW c \in Content,
           NEW deleted \in BOOLEAN, AuthorEntry(a, q, c, deleted),
           NEW p \in Path, NEW e \in Entry, OwnPast(a, clock[a], known[a], p, e)
    PROVE  OwnPast(a, clock'[a], known'[a], p, e)
<1> SUFFICES ASSUME Len(p) = 1, e.author_pubkey = a
             PROVE  /\ HlcUpTo(e.hlc, clock'[a])
                    /\ p \in DOMAIN known'[a] /\ RanksUpTo(e, known'[a][p])
    BY DEF OwnPast
<1>1. HlcUpTo(e.hlc, clock[a]) /\ p \in DOMAIN known[a] /\ RanksUpTo(e, known[a][p])
    BY DEF OwnPast
<1>2. PICK gap \in Gap : /\ now' = now + gap
                         /\ clock' = [clock EXCEPT ![a] = Tick(@, now' + Offset[a])]
    BY DEF AuthorEntry
<1>3. now \in Nat /\ gap \in Nat /\ Offset[a] \in Nat /\ clock[a] \in Hlc
    BY AgentAssumption DEF Typed, StoresTyped
<1>4. now' + Offset[a] \in Nat /\ clock'[a] = Tick(clock[a], now' + Offset[a])
    BY <1>2, <1>3 DEF Typed, StoresTyped
<1>5. HlcBefore(clock[a], clock'[a]) /\ clock'[a] \in Hlc /\ e.hlc \in Hlc
    BY <1>3, <1>4, TickRaises, TickType DEF AuthorEntry, Entry
<1>6. HlcBefore(e.hlc, clock'[a])
    BY <1>1, <1>3, <1>5, HlcBeforeTransitive
<1>7. /\ p \in DOMAIN known'[a]
      /\ p = q => known'[a][p].hlc = clock'[a]
      /\ p # q => known'[a][p] = known[a][p]
    <2>1. /\ \A r : r \in DOMAIN known'[a] <=> r \in DOMAIN known[a] \/ r = q
          /\ known'[a][q] = Authored(a, c, deleted, clock'[a])
          /\ \A r \in DOMAIN known[a] : r # q => known'[a][r] = known[a][r]
        BY AuthorEntryKnown
    <2>2. known'[a][q].hlc = clock'[a]
        BY <2>1 DEF Authored
    <2> QED
        BY <1>1, <2>1, <2>2
<1>8. RanksUpTo(e, known'[a][p])
    <2>1. CASE p = q
        BY <1>6, <1>7, <2>1 DEF RanksUpTo
    <2>2. CASE p # q
        BY <1>1, <1>7, <2>2
    <2> QED
        BY <2>1, <2>2
<1> QED
    BY <1>6, <1>7, <1>8 DEF HlcUpTo

\* Whatever happens to an agent short of a kill, it stays ahead of its own.
LEMMA OwnStaysPast ==
    ASSUME Typed, NEW a \in Agent, Ordered(a), Next, ~Restart(a),
           NEW p \in Path, NEW e \in Entry, OwnPast(a, clock[a], known[a], p, e)
    PROVE  OwnPast(a, clock'[a], known'[a], p, e)
<1>1. PICK b \in Agent : UserStep(b) \/ MainStep(b) \/ ServerStep(b) \/ Failure(b)
    BY DEF Next
<1>2. CASE clock'[a] = clock[a] /\ known'[a] = known[a]
    BY <1>2
<1>3. CASE TakeIn(a)
    <2>1. PICK q \in Path, c \in Content :
              \/ UNCHANGED <<manifest, known, clock, now>>
              \/ AuthorEntry(a, q, c, FALSE)
        BY <1>3, TakeInEffect
    <2> QED
        BY <1>2, <2>1, AuthoringOverOwn
<1>4. CASE ScanTomb(a)
    <2>1. PICK q \in Path : AuthorEntry(a, q, <<>>, TRUE)
        BY <1>4, ScanTombEffect
    <2>2. <<>> \in Content
        BY ContentAssumption
    <2> QED
        BY <2>1, <2>2, AuthoringOverOwn
<1>5. CASE Materialize(a)
    <2>1. PICK q \in Path :
              /\ q \in todo[a] /\ q \in DOMAIN work[a] /\ pc[a] = "materialize"
              /\ \A r : r \in DOMAIN known'[a] <=> r \in DOMAIN known[a] \/ r = q
              /\ known'[a][q] = work[a][q]
              /\ \A r \in DOMAIN known[a] : r # q => known'[a][r] = known[a][r]
        BY <1>5, MaterializeEffect
    <2>2. clock' = clock
        BY <1>5 DEF Materialize
    <2>3. known[a] \in Manifests /\ work[a] \in Manifests
        BY DEF Typed, StoresTyped, LoopTyped
    <2>4. ASSUME q \in DOMAIN known[a], RanksUpTo(e, known[a][q])
          PROVE  RanksUpTo(e, work[a][q])
        <3>1. known[a][q] \in Entry /\ work[a][q] \in Entry
            BY <2>1, <2>3, <2>4, ManifestsUse
        <3>2. RanksUpTo(known[a][q], work[a][q])
            BY <2>1, <2>4 DEF Ordered, PendingAhead
        <3> QED
            BY <2>4, <3>1, <3>2, RanksTransitive
    <2> QED
        BY <2>1, <2>2, <2>4 DEF OwnPast
<1> QED
    BY <1>1, <1>2, <1>3, <1>4, <1>5, ClockSteps, KnownSteps

\* Conflict copies go to paths of their own.
LEMMA ConflictPathLonger ==
    ASSUME NEW p \in Path, NEW e
    PROVE  Len(ConflictPath(p, e)) # 1
<1>1. p \in Seq(Name \cup ShortId) /\ p # <<>>
    BY DEF Path
<1>2. Len(p) \in Nat /\ Len(p) # 0
    BY <1>1
<1>3. Len(Append(p, Short[e.author_pubkey])) = Len(p) + 1
    BY <1>1
<1> QED
    BY <1>2, <1>3 DEF ConflictPath

LEMMA ApplyOwnPast ==
    ASSUME NEW a, NEW t, NEW f, NEW m \in Manifests, NEW p \in Path, NEW e \in Entry,
           OwnPastIn(a, t, f, m), OwnPast(a, t, f, p, e)
    PROVE  OwnPastIn(a, t, f, Apply(m, p, e))
<1> SUFFICES ASSUME NEW q \in DOMAIN Apply(m, p, e)
             PROVE  OwnPast(a, t, f, q, Apply(m, p, e)[q])
    BY DEF OwnPastIn
<1>1. CASE q \in DOMAIN m /\ Apply(m, p, e)[q] = m[q]
    BY <1>1 DEF OwnPastIn
<1>2. CASE q = p /\ Apply(m, p, e)[q] = e
    BY <1>2
<1>3. CASE q = ConflictPath(p, e)
    BY <1>3, ConflictPathLonger DEF OwnPast
<1>4. CASE p \in DOMAIN m /\ q = ConflictPath(p, m[p])
    BY <1>4, ConflictPathLonger DEF OwnPast
<1> QED
    BY <1>1, <1>2, <1>3, <1>4, ApplyOrigin

LEMMA OwnPastInductive ==
    ASSUME Typed, NEW a \in Agent, Ordered(a), AllOwnPast(a), Next, ~Restart(a)
    PROVE  AllOwnPast(a)'
<1> DEFINE t == clock'[a]
           f == known'[a]
<1>1. /\ manifest \in [Agent -> Manifests] /\ saved \in [Agent -> Manifests]
      /\ Mail \subseteq Manifests
    BY MailType DEF Typed, StoresTyped, BoundsTyped
<1>2. \A m \in Manifests : OwnPastIn(a, clock[a], known[a], m) => OwnPastIn(a, t, f, m)
    <2> SUFFICES ASSUME NEW m \in Manifests, OwnPastIn(a, clock[a], known[a], m),
                        NEW p \in DOMAIN m
                 PROVE  OwnPast(a, t, f, p, m[p])
        BY DEF OwnPastIn
    <2>1. p \in Path /\ m[p] \in Entry /\ OwnPast(a, clock[a], known[a], p, m[p])
        BY ManifestsUse DEF OwnPastIn
    <2> QED
        BY <2>1, OwnStaysPast
<1>3. /\ \A b \in Agent : OwnPastIn(a, t, f, manifest[b]) /\ OwnPastIn(a, t, f, saved[b])
      /\ \A m \in Mail : OwnPastIn(a, t, f, m)
    BY <1>1, <1>2 DEF AllOwnPast
<1>4. \A m \in Mail' : OwnPastIn(a, t, f, m)
    <2>1. BodiesKept
        BY ManifestSteps
    <2> QED
        BY <1>3, <2>1 DEF BodiesKept
<1>5. ASSUME NEW b \in Agent, NEW p \in Path, NEW e \in Entry, OwnPast(a, t, f, p, e),
             manifest' = [manifest EXCEPT ![b] = Apply(@, p, e)]
      PROVE  \A c \in Agent : OwnPastIn(a, t, f, manifest'[c])
    <2>1. OwnPastIn(a, t, f, Apply(manifest[b], p, e))
        BY <1>1, <1>3, <1>5, ApplyOwnPast
    <2> QED
        BY <1>1, <1>3, <1>5, <2>1
<1>6. \A c \in Agent : OwnPastIn(a, t, f, manifest'[c]) /\ OwnPastIn(a, t, f, saved'[c])
    <2>1. CASE QuietStep
        BY <1>3, <2>1 DEF QuietStep
    <2>2. ASSUME NEW b \in Agent, NEW p \in Path, NEW e \in Entry, AuthorStep(b, p, e)
          PROVE  /\ \A c \in Agent : OwnPastIn(a, t, f, manifest'[c])
                 /\ UNCHANGED saved
        <3>1. OwnPast(a, t, f, p, e)
            <4>1. CASE b # a
                BY <2>2, <4>1 DEF AuthorStep, OwnPast
            <4>2. CASE b = a
                <5>1. known[a] \in Manifests /\ known'[a] = Insert(known[a], p, e)
                    BY <2>2, <4>2 DEF AuthorStep, Typed, StoresTyped
                <5>2. p \in DOMAIN f /\ f[p] = e
                    BY <5>1, InsertType
                <5>3. e.hlc = t
                    BY <2>2, <4>2 DEF AuthorStep
                <5> QED
                    BY <5>2, <5>3, RanksReflexive DEF OwnPast, HlcUpTo
            <4> QED
                BY <4>1, <4>2
        <3> QED
            BY <1>5, <2>2, <3>1 DEF AuthorStep
    <2>3. ASSUME NEW b \in Agent, NEW m \in Mail, NEW p \in Path, MergeStep(b, m, p)
          PROVE  /\ \A c \in Agent : OwnPastIn(a, t, f, manifest'[c])
                 /\ UNCHANGED saved
        <3>1. m[p] \in Entry /\ OwnPast(a, t, f, p, m[p])
            BY <1>3, <2>3 DEF MergeStep, OwnPastIn
        <3> QED
            BY <1>5, <2>3, <3>1 DEF MergeStep
    <2>4. ASSUME NEW b \in Agent, SaveStep(b) \/ RestartStep(b)
          PROVE  \A c \in Agent : OwnPastIn(a, t, f, manifest'[c]) /\ OwnPastIn(a, t, f, saved'[c])
        BY <1>1, <1>3, <2>4 DEF SaveStep, RestartStep
    <2> QED
        BY <1>3, <2>1, <2>2, <2>3, <2>4, ManifestSteps
<1> QED
    BY <1>4, <1>6 DEF AllOwnPast

\* Where a manifest has an own entry, known_local has it too, or one it ties with.
LEMMA OwnIsKnown ==
    ASSUME Typed, AllSafe, NEW a \in Agent, Ordered(a), AllOwnPast(a),
           NEW p \in DOMAIN manifest[a], manifest[a][p].author_pubkey = a, Len(p) = 1
    PROVE  /\ p \in DOMAIN known[a]
           /\ known[a][p].hlc = manifest[a][p].hlc
           /\ known[a][p].chunk_hashes = manifest[a][p].chunk_hashes
<1>1. p \in DOMAIN known[a] /\ RanksUpTo(manifest[a][p], known[a][p])
    BY DEF AllOwnPast, OwnPastIn, OwnPast
<1>2. RanksUpTo(known[a][p], manifest[a][p])
    BY <1>1 DEF AllSafe, SafeIn, Ordered, KnownBehind
<1>3. PICK e \in Entry, f \in Entry : e = manifest[a][p] /\ f = known[a][p]
    BY <1>1, ManifestsUse DEF Typed, StoresTyped
<1>4. /\ e.hlc \in Hlc /\ f.hlc \in Hlc
      /\ e.chunk_hashes \in Content /\ f.chunk_hashes \in Content
      /\ content_key(e) \in Nat /\ content_key(f) \in Nat
    BY ContentAssumption DEF Entry, content_key
<1>5. e.hlc = f.hlc /\ content_key(e) = content_key(f)
    BY <1>1, <1>2, <1>3, <1>4, HlcTotal DEF RanksUpTo
<1> QED
    BY <1>1, <1>3, <1>4, <1>5, ContentAssumption DEF content_key

LEMMA DiskFollowed ==
    ASSUME Typed, AllSafe, NEW a \in Agent, Ordered(a), KnownAgrees(a), AllOwnPast(a)
    PROVE  /\ \A p \in DOMAIN disk[a] \ dirty[a] :
                  is_safe_relative_path(p) => p \in DOMAIN manifest[a]
           /\ \A p \in DOMAIN manifest[a] \ dirty[a] :
                  Awaiting(a, p) \/ OnDisk(a, p) \/ PassedOver(a, p)
<1>1. ASSUME NEW p \in DOMAIN disk[a] \ dirty[a], is_safe_relative_path(p)
      PROVE  p \in DOMAIN manifest[a]
    BY <1>1 DEF KnownAgrees, Reflected, MatchesKnown, Ordered, KnownBehind
<1>2. ASSUME NEW p \in DOMAIN manifest[a] \ dirty[a], p \in DOMAIN known[a],
             known[a][p].tombstone = manifest[a][p].tombstone,
             known[a][p].chunk_hashes = manifest[a][p].chunk_hashes
      PROVE  OnDisk(a, p)
    BY <1>2 DEF KnownAgrees, Reflected, MatchesKnown, OnDisk
<1>3. ASSUME NEW p \in DOMAIN manifest[a] \ dirty[a], ~Awaiting(a, p), ~PassedOver(a, p)
      PROVE  OnDisk(a, p)
    <2>1. CASE manifest[a][p].author_pubkey # a
        BY <1>2, <1>3, <2>1 DEF Awaiting
    <2>2. CASE manifest[a][p].author_pubkey = a
        <3>1. p \in Path /\ Len(p) = 1
            <4>1. ~(Len(p) > 1)
                BY <1>3, <2>2 DEF PassedOver
            <4>2. p \in Path
                BY ManifestsUse DEF Typed, StoresTyped
            <4>3. p \in Seq(Name \cup ShortId) /\ p # <<>>
                BY <4>2 DEF Path
            <4>4. Len(p) \in Nat /\ Len(p) # 0
                BY <4>3
            <4>5. \A n \in Nat : n # 0 /\ ~(n > 1) => n = 1
                OBVIOUS
            <4> QED
                BY <4>1, <4>2, <4>4, <4>5
        <3>2. /\ p \in DOMAIN known[a]
              /\ known[a][p].hlc = manifest[a][p].hlc
              /\ known[a][p].chunk_hashes = manifest[a][p].chunk_hashes
            BY <2>2, <3>1, OwnIsKnown
        <3>3. known[a][p].tombstone = manifest[a][p].tombstone
            BY <1>3, <2>2, <3>2 DEF PassedOver, Tied
        <3> QED
            BY <1>2, <3>2, <3>3
    <2> QED
        BY <2>1, <2>2
<1> QED
    BY <1>1, <1>3

\* Harm is for good.
LEMMA HarmStays ==
    ASSUME Next
    PROVE  harmed \subseteq harmed'
<1>1. PICK a \in Agent : UserStep(a) \/ MainStep(a) \/ ServerStep(a) \/ Failure(a)
    BY DEF Next
<1>2. CASE UserStep(a) \/ ServerStep(a)
    BY <1>2 DEF UserStep, UserDelete, UserWrite, UserChanges, boundVars,
       ServerStep, ServeBegin, BeginMerge, ConnOnly, ServeApply, ApplyNext, ServeReply,
       SendChunks, LateBegin, LateApply, LateReply
<1>3. CASE \/ ListFiles(a) \/ ReadFile(a) \/ WriteChunk(a) \/ TakeIn(a) \/ ScanTomb(a)
           \/ ScanDone(a) \/ ScanVanished(a) \/ ReadFails(a)
    BY <1>3 DEF ListFiles, ReadFile, WriteChunk, TakeIn, ScanTomb, ScanDone, boundVars,
       ScanVanished, ReadFails
<1>4. CASE \/ Dial(a) \/ ReceiveReply(a) \/ MergeApply(a) \/ AskChunks(a)
           \/ ExchangeDone(a) \/ DialRefused(a)
    BY <1>4 DEF Dial, ReceiveReply, BeginMerge, ConnOnly, MergeApply, ApplyNext, AskChunks,
       ExchangeDone, DialRefused, boundVars
<1>5. CASE Snapshot(a) \/ Materialize(a) \/ Save(a) \/ SaveFails(a)
    BY <1>5 DEF Snapshot, Materialize, Save, SaveFails, boundVars
<1>6. CASE StoreChunk(a) \/ WriteChunkFails(a) \/ ExchangeFails(a) \/ MaterializeFails(a)
    BY <1>6 DEF StoreChunk, WriteChunkFails, ExchangeFails, MaterializeFails, Harms
<1>7. CASE Restart(a)
    BY <1>7 DEF Restart, Reborn
<1> QED
    BY <1>1, <1>2, <1>3, <1>4, <1>5, <1>6, <1>7 DEF MainStep, Failure

\* Nothing gets stuck between an agent's directory and its manifest but what
\* materialize_remote passes over for good, whatever the wall clocks read, through
\* ties, failures and the kills and restarts of other agents, as long as the agent
\* itself is not killed and no short file comes to it.
THEOREM DiskFollows == Spec => []DiskFollowsManifest
<1> DEFINE Inv == /\ AllSafe
                  /\ \A a \in Agent : Ordered(a) /\ (Unharmed(a) => AllOwnPast(a))
<1>1. Init => Inv
    <2>1. Init => Mail = {}
        BY IdleType DEF Init, Mail
    <2>2. Init => AllSafe /\ \A a \in Agent : AllOwnPast(a)
        BY <2>1, EmptyManifestType DEF Init, AllSafe, SafeIn, AllOwnPast, OwnPastIn
    <2>3. Init => \A a \in Agent : Ordered(a)
        BY EmptyManifestType DEF Init, Ordered, KnownBehind, SnapshotBehind, PendingAhead
    <2> QED
        BY <2>2, <2>3
<1>2. Typed /\ Typed' /\ Inv /\ [Next]_vars => Inv'
    <2> SUFFICES ASSUME Typed, Typed', Inv, [Next]_vars PROVE Inv'
        OBVIOUS
    <2>1. AllSafe'
        BY AllSafeInductive
    <2>2. CASE Next
        <3>1. ASSUME NEW a \in Agent, Unharmed(a)'
              PROVE  AllOwnPast(a)'
            <4>1. ~Restart(a)
                BY <3>1 DEF Restart, Reborn, Unharmed
            <4>2. harmed \subseteq harmed'
                BY <2>2, HarmStays
            <4> QED
                BY <2>2, <3>1, <4>1, <4>2, OwnPastInductive DEF Unharmed
        <3>2. \A a \in Agent : Ordered(a)'
            BY <2>2, OrderedInductive
        <3> QED
            BY <2>1, <3>1, <3>2
    <2>3. CASE UNCHANGED vars
        <3>1. UNCHANGED <<manifest, known, work, saved, clock, pc, todo, harmed, conn, late>>
            BY <2>3 DEF vars, storeVars, loopVars, connVars, boundVars
        <3>2. \A a \in Agent : Ordered(a)'
            BY <3>1 DEF Ordered, KnownBehind, SnapshotBehind, PendingAhead
        <3>3. \A a \in Agent : Unharmed(a)' => AllOwnPast(a)'
            BY <3>1 DEF Unharmed, AllOwnPast, Mail
        <3> QED
            BY <2>1, <3>2, <3>3
    <2> QED
        BY <2>2, <2>3
<1>3. Typed /\ Inv /\ (\A a \in Agent : Tracked(a)) => DiskFollowsManifest
    BY DiskFollowed DEF DiskFollowsManifest, Tracked
<1> HIDE DEF Inv
<1> QED
    BY <1>1, <1>2, <1>3, TypingHolds, FilesTracked, PTL DEF Spec

\* Agents that have nothing left to scan, to materialize or to tell each other,
\* were not harmed, and have no side of a tie that materialize_remote passes over.
AtRest ==
    /\ \A a \in Agent :
           /\ Unharmed(a) /\ dirty[a] = {}
           /\ \A p \in DOMAIN disk[a] : is_safe_relative_path(p)
           /\ \A p \in DOMAIN manifest[a] : ~Awaiting(a, p) /\ ~PassedOver(a, p)
    /\ \A a, b \in Agent : manifest[a] = manifest[b]

\* Agents come to rest only where they should: with the same files in every
\* directory, those of the manifest, whatever failed on the way there and however
\* the wall clocks differ.  It is the safety half of DisksConverge.
THEOREM RestIsSettled == Spec => [](AtRest => Settled)
<1>1. DiskFollowsManifest => (AtRest => Settled)
    <2> SUFFICES ASSUME DiskFollowsManifest, AtRest, NEW a \in Agent, NEW b \in Agent
                 PROVE  /\ DOMAIN disk[a] = LiveFiles(manifest[b])
                        /\ \A p \in DOMAIN disk[a] : disk[a][p] = manifest[b][p].chunk_hashes
        BY DEF Settled
    <2>1. manifest[b] = manifest[a]
        BY DEF AtRest
    <2>2. \A p \in DOMAIN disk[a] : p \in DOMAIN manifest[a]
        BY DEF AtRest, DiskFollowsManifest
    <2>3. \A p \in DOMAIN manifest[a] : OnDisk(a, p)
        BY DEF AtRest, DiskFollowsManifest
    <2> QED
        BY <2>1, <2>2, <2>3 DEF LiveFiles, OnDisk
<1> QED
    BY <1>1, DiskFollows, PTL
====
