----------------------------- MODULE VaultAgent -----------------------------
(* The long-lived vault-agent processes of crates/vault-agent: main.rs (the   *)
(* main loop and the TCP gossip threads) over store.rs (scan_local and        *)
(* materialize_remote).  Each agent's main thread goes round                  *)
(*                                                                            *)
(*     list -> scan <-> store                                                 *)
(*             scan -> dial <-> exchange                                      *)
(*                     dial -> materialize -> list                            *)
(*                                                                            *)
(* while its server threads answer the exchanges other agents dial and users  *)
(* change its directory at any moment.  The manifest's mutex is held from the *)
(* first to the last turn of a merge; every other critical section is one     *)
(* step.  known_local, the clock and the chunk store are written by the main  *)
(* thread only.                                                               *)
(*                                                                            *)
(* External: the users' edits, the TCP streams and the file system.  A write  *)
(* of a chunk is one step here, whole or cut short (ChunkStore has readers    *)
(* that overlap it).                                                          *)
EXTENDS Manifest

Agent == Author

CONSTANTS
    UserPath,       \* the paths users touch
    Peers,          \* Peers[a]: the sequence of agents that a dials each tick
    Offset,         \* Offset[a]: how far a's wall clock is ahead of true time
    Gap,            \* milliseconds that may pass before a stamp is taken
    Truncates,      \* whether a write that fails may leave a part of the file
    MaxEdits,       \* MaxEdits[a]: bound: changes a's users make
    Unlucky,        \* bound: the agents that errors and kills come to
    MaxFail,        \* bound: errors and kills, in all
    MaxRestart      \* bound: kills (and restarts), in all

ASSUME AgentAssumption ==
    /\ UserPath \subseteq Path
    /\ Peers \in [Agent -> Seq(Agent)]
    /\ Offset \in [Agent -> Nat]
    /\ Gap \subseteq Nat
    /\ Truncates \in BOOLEAN
    /\ Unlucky \subseteq Agent
    /\ MaxEdits \in [Agent -> Nat] /\ MaxFail \in Nat /\ MaxRestart \in Nat

VARIABLES
    disk,       \* disk[a]: content of each file in a's directory
    chunks,     \* chunks[a]: hashes a has a chunk file of
    torn,       \* torn[a]: those whose file is short of bytes
    manifest,   \* manifest[a]: a's manifest in memory
    saved,      \* saved[a]: a's manifest.json
    known,      \* known[a]: a's known_local
    clock,      \* clock[a]: a's Hlc
    now,        \* true time in milliseconds
    pc,         \* pc[a]: where a's main thread is
    todo,       \* todo[a]: paths its present loop has yet to visit
    listed,     \* listed[a]: the files seen, for the second loop of the scan
    dialed,     \* dialed[a]: how many of Peers[a] it is done with this tick
    hand,       \* hand[a]: the file the scan has in hand
    work,       \* work[a]: materialize_remote's snapshot
    conn,       \* conn[a]: the exchange a has dialed, and its server thread
    late,       \* late[a]: one a dialed before and gave up, still being served
    dirty,      \* dirty[a]: paths a user changed and no scan has taken in (ghost)
    harmed,     \* agents killed, or that a short file has come to (ghost)
    edits, fails, restarts      \* counts, for the bounds

userVars == <<disk, dirty, edits>>
storeVars == <<chunks, torn, manifest, known, clock, now>>
loopVars == <<pc, todo, listed, dialed, hand, work>>
connVars == <<conn, late>>
boundVars == <<harmed, fails, restarts>>
vars == <<userVars, storeVars, saved, loopVars, connVars, boundVars>>

Hashes(c) == {c[i] : i \in DOMAIN c}
Hash == UNION {Hashes(c) : c \in Content}

ASSUME SequencesAssumption == Content \subseteq Seq(Hash)

Without(f, p) == [q \in DOMAIN f \ {p} |-> f[q]]

\* One TCP exchange: request, serving (the server merges), reply, merging (the
\* client merges), ask, chunks; broken when the client finds the server gone.
\* alive says whether the server's process still is the one that was dialed.
Idle == [stage |-> "idle"]
Stages == {"idle", "request", "serving", "reply", "merging", "ask", "chunks", "broken"}

Exchange(stage, peer, body, left, hashes) ==
    [stage |-> stage, peer |-> peer, body |-> body, left |-> left, hashes |-> hashes,
     alive |-> TRUE]

\* The file in hand: what has been read of it, and how many of its chunks are
\* stored.
InHand(p, content, stored) == [path |-> p, content |-> content, stored |-> stored]
NoFile == InHand(<<>>, <<>>, 0)

Serves(x, a) == x.stage = "serving" /\ x.peer = a /\ x.left # {}

\* A merge of a's manifest is under way, in the server thread of an exchange of
\* c's or in a's own main thread.
HoldsLock(c, a) ==
    \/ Serves(conn[c], a) \/ Serves(late[c], a)
    \/ c = a /\ conn[c].stage = "merging" /\ conn[c].left # {}

Unlocked(a) == \A c \in Agent : ~HoldsLock(c, a)

Init ==
    /\ disk = [a \in Agent |-> EmptyManifest]
    /\ chunks = [a \in Agent |-> {}]
    /\ torn = [a \in Agent |-> {}]
    /\ manifest = [a \in Agent |-> EmptyManifest]
    /\ saved = [a \in Agent |-> EmptyManifest]
    /\ known = [a \in Agent |-> EmptyManifest]
    /\ clock = [a \in Agent |-> HlcZero]
    /\ now = 1
    /\ pc = [a \in Agent |-> "list"]
    /\ todo = [a \in Agent |-> {}]
    /\ listed = [a \in Agent |-> {}]
    /\ dialed = [a \in Agent |-> 0]
    /\ hand = [a \in Agent |-> NoFile]
    /\ work = [a \in Agent |-> EmptyManifest]
    /\ conn = [a \in Agent |-> Idle]
    /\ late = [a \in Agent |-> Idle]
    /\ dirty = [a \in Agent |-> {}]
    /\ harmed = {}
    /\ edits = [a \in Agent |-> 0] /\ fails = 0 /\ restarts = 0

\* An error or a kill comes to a, within the bounds.
Fault(a) == a \in Unlucky /\ fails < MaxFail /\ fails' = fails + 1

Goto(a, place) == pc' = [pc EXCEPT ![a] = place]
Visited(a, p) == todo' = [todo EXCEPT ![a] = @ \ {p}]

------------------------------------------------------------------------------
(* The users of a's directory (external).                                     *)

UserChanges(a, p, files) ==
    /\ edits[a] < MaxEdits[a]
    /\ edits' = [edits EXCEPT ![a] = @ + 1]
    /\ disk' = [disk EXCEPT ![a] = files]
    /\ dirty' = [dirty EXCEPT ![a] = @ \cup {p}]
    /\ UNCHANGED <<storeVars, saved, loopVars, connVars, boundVars>>

UserWrite(a, p, c) ==
    /\ p \in DOMAIN disk[a] => disk[a][p] # c
    /\ UserChanges(a, p, Insert(disk[a], p, c))

UserDelete(a, p) ==
    /\ p \in DOMAIN disk[a]
    /\ UserChanges(a, p, Without(disk[a], p))

------------------------------------------------------------------------------
(* scan_local.                                                                *)

ListFiles(a) ==
    /\ pc[a] = "list"
    /\ listed' = [listed EXCEPT ![a] = DOMAIN disk[a]]
    /\ todo' = [todo EXCEPT ![a] = DOMAIN disk[a]]
    /\ Goto(a, "scan")
    /\ UNCHANGED <<userVars, storeVars, saved, dialed, hand, work, connVars, boundVars>>

\* (Faulty: the file is compared with the manifest, as it once was.)
MatchesManifest(a, p, content) ==
    /\ p \in DOMAIN manifest[a]
    /\ ~manifest[a][p].tombstone
    /\ manifest[a][p].chunk_hashes = content

\* matches_known: this content is what the agent last knew to be on its disk.
MatchesKnown(a, p, content) ==
    /\ p \in DOMAIN known[a]
    /\ ~known[a][p].tombstone
    /\ known[a][p].chunk_hashes = content

Authored(a, content, deleted, stamp) ==
    [chunk_hashes |-> content, hlc |-> stamp, author_pubkey |-> a, tombstone |-> deleted]

\* (Faulty: the clock is ticked without reading the wall clock.)
AuthorEntryWithoutWallClock(a, p, content, deleted) ==
    /\ Unlocked(a)
    /\ RoomToBump(clock[a].logical)
    /\ now' = now
    /\ clock' = [clock EXCEPT ![a] = Tick(@, 0)]
    /\ LET entry == Authored(a, content, deleted, clock'[a])
       IN  /\ manifest' = [manifest EXCEPT ![a] = Apply(@, p, entry)]
           /\ known' = [known EXCEPT ![a] = Insert(@, p, entry)]

\* (Faulty: the entry is remembered and not put in the manifest.)
AuthorEntryWithoutPut(a, p, content, deleted) ==
    /\ Unlocked(a)
    /\ RoomToBump(clock[a].logical)
    /\ \E gap \in Gap :
           /\ now' = now + gap
           /\ clock' = [clock EXCEPT ![a] = Tick(@, now' + Offset[a])]
    /\ known' = [known EXCEPT ![a] = Insert(@, p, Authored(a, content, deleted, clock'[a]))]
    /\ UNCHANGED manifest

\* A new entry under a's name: tick, put, remember.
AuthorEntry(a, p, content, deleted) ==
    /\ Unlocked(a)
    /\ RoomToBump(clock[a].logical)
    /\ \E gap \in Gap :
           /\ now' = now + gap
           /\ clock' = [clock EXCEPT ![a] = Tick(@, now' + Offset[a])]
    /\ LET entry == Authored(a, content, deleted, clock'[a])
       IN  /\ manifest' = [manifest EXCEPT ![a] = Apply(@, p, entry)]
           /\ known' = [known EXCEPT ![a] = Insert(@, p, entry)]

\* (Faulty: the entry is put before its chunks are stored.)
ReadFilePutsFirst(a) ==
    /\ pc[a] = "scan"
    /\ \E p \in todo[a] \cap DOMAIN disk[a] :
           /\ hand' = [hand EXCEPT ![a] = InHand(p, disk[a][p], 0)]
           /\ \/ MatchesKnown(a, p, disk[a][p]) /\ UNCHANGED <<manifest, known, clock, now>>
              \/ ~MatchesKnown(a, p, disk[a][p]) /\ AuthorEntry(a, p, disk[a][p], FALSE)
    /\ Goto(a, "store")
    /\ UNCHANGED <<userVars, chunks, torn, saved, todo, listed, dialed, work, connVars, boundVars>>

\* A turn of the file loop begins: the file is read.
ReadFile(a) ==
    /\ pc[a] = "scan"
    /\ \E p \in todo[a] \cap DOMAIN disk[a] :
           hand' = [hand EXCEPT ![a] = InHand(p, disk[a][p], 0)]
    /\ Goto(a, "store")
    /\ UNCHANGED <<userVars, storeVars, saved, todo, listed, dialed, work, connVars, boundVars>>

\* write_chunk for the next chunk: one whose file is there is left as it is.
WriteChunk(a) ==
    /\ pc[a] = "store"
    /\ hand[a].stored < Len(hand[a].content)
    /\ chunks' = [chunks EXCEPT ![a] = @ \cup {hand[a].content[hand[a].stored + 1]}]
    /\ hand' = [hand EXCEPT ![a].stored = @ + 1]
    /\ UNCHANGED <<userVars, torn, manifest, known, clock, now, saved, pc, todo, listed, dialed,
                   work, connVars, boundVars>>

\* The turn ends: the file is authored unless it is the known version.  It has
\* been taken in unless a user has changed it since it was read.
TakeIn(a) ==
    LET p == hand[a].path
        content == hand[a].content
    IN  /\ pc[a] = "store" /\ hand[a].stored = Len(content)
        /\ \/ MatchesKnown(a, p, content) /\ UNCHANGED <<manifest, known, clock, now>>
           \/ ~MatchesKnown(a, p, content) /\ AuthorEntry(a, p, content, FALSE)
        /\ dirty' = [dirty EXCEPT ![a] =
                         IF p \in DOMAIN disk[a] /\ disk[a][p] = content THEN @ \ {p} ELSE @]
        /\ Visited(a, p)
        /\ hand' = [hand EXCEPT ![a] = NoFile]
        /\ Goto(a, "scan")
        /\ UNCHANGED <<disk, edits, chunks, torn, saved, listed, dialed, work, connVars, boundVars>>

\* The scan ends with an error, and the tick goes on.
ScanEnds(a) ==
    /\ todo' = [todo EXCEPT ![a] = {}]
    /\ listed' = [listed EXCEPT ![a] = {}]
    /\ hand' = [hand EXCEPT ![a] = NoFile]
    /\ Goto(a, "dial")
    /\ UNCHANGED <<userVars, manifest, known, clock, now, saved, dialed, work, connVars,
                   restarts>>

\* A listed file is gone when it is read.
ScanVanished(a) ==
    /\ pc[a] = "scan"
    /\ todo[a] \ DOMAIN disk[a] # {}
    /\ ScanEnds(a)
    /\ UNCHANGED <<chunks, torn, harmed, fails>>

\* A file that is there cannot be read.
ReadFails(a) ==
    /\ pc[a] = "scan"
    /\ todo[a] # {}
    /\ Fault(a)
    /\ ScanEnds(a)
    /\ UNCHANGED <<chunks, torn, harmed>>

\* The chunk files a may be about to write.
Storing(a) ==
    (IF pc[a] = "store" /\ hand[a].stored < Len(hand[a].content)
     THEN {hand[a].content[hand[a].stored + 1]}
     ELSE IF conn[a].stage = "chunks" THEN conn[a].hashes
     ELSE {}) \ chunks[a]

\* The write of one of them is cut short: none is made, or one short of bytes.
ChunkCutShort(a) ==
    \/ UNCHANGED <<chunks, torn>>
    \/ /\ Truncates
       /\ \E h \in Storing(a) :
              /\ chunks' = [chunks EXCEPT ![a] = @ \cup {h}]
              /\ torn' = [torn EXCEPT ![a] = @ \cup {h}]

\* (Ghost.)
Harms(a, short) == harmed' = IF short THEN harmed \cup {a} ELSE harmed

\* The next chunk, of which there is no file yet, cannot be written.
WriteChunkFails(a) ==
    /\ pc[a] = "store" /\ Storing(a) # {}
    /\ Fault(a)
    /\ ChunkCutShort(a)
    /\ Harms(a, torn' # torn)
    /\ ScanEnds(a)

\* The paths the second loop of scan_local has yet to tomb: live in known_local
\* and not among the files listed.  (A turn of the loop changes only its own.)
Vanished(a) == {p \in DOMAIN known[a] : ~known[a][p].tombstone} \ listed[a]

\* The change is authored now, unless the user has put the file back since.
ScanTomb(a) ==
    /\ pc[a] = "scan" /\ todo[a] = {}
    /\ \E p \in Vanished(a) :
           /\ AuthorEntry(a, p, <<>>, TRUE)
           /\ dirty' = [dirty EXCEPT ![a] = IF p \in DOMAIN disk[a] THEN @ ELSE @ \ {p}]
    /\ UNCHANGED <<disk, edits, chunks, torn, saved, loopVars, connVars, boundVars>>

ScanDone(a) ==
    /\ pc[a] = "scan" /\ todo[a] = {} /\ Vanished(a) = {}
    /\ listed' = [listed EXCEPT ![a] = {}]
    /\ Goto(a, "dial")
    /\ UNCHANGED <<userVars, storeVars, saved, todo, dialed, hand, work, connVars, boundVars>>

------------------------------------------------------------------------------
(* gossip_once_tcp in the dialing agent c, handle_incoming_tcp in its peer.   *)

Dialing(c) == pc[c] = "dial" /\ dialed[c] < Len(Peers[c])

NextPeer(c) ==
    /\ dialed' = [dialed EXCEPT ![c] = @ + 1]
    /\ Goto(c, "dial")

\* Connect and send a snapshot of the manifest, whether or not the server thread
\* of the exchange before is done.  (Bound: the thread of one exchange more.)
Dial(c) ==
    /\ Dialing(c) /\ Unlocked(c)
    /\ conn[c].stage = "idle" \/ late[c].stage = "idle"
    /\ late' = IF conn[c].stage = "idle" THEN late ELSE [late EXCEPT ![c] = conn[c]]
    /\ conn' = [conn EXCEPT ![c] =
                   Exchange("request", Peers[c][dialed[c] + 1], manifest[c], {}, {})]
    /\ Goto(c, "exchange")
    /\ UNCHANGED <<userVars, storeVars, saved, todo, listed, dialed, hand, work, boundVars>>

DialRefused(c) ==
    /\ Dialing(c)
    /\ Fault(c)
    /\ NextPeer(c)
    /\ UNCHANGED <<userVars, storeVars, saved, todo, listed, hand, work, connVars, harmed, restarts>>

\* A gossip step of c's exchange leaves everything else alone.
ConnOnly ==
    UNCHANGED <<userVars, storeVars, saved, loopVars, late, boundVars>>

\* (Faulty: the loop runs over the wrong manifest.)
BeginMergeOfOwn(c, a, stage) ==
    /\ Unlocked(a)
    /\ conn' = [conn EXCEPT ![c].stage = stage, ![c].left = DOMAIN manifest[a]]
    /\ ConnOnly

\* The merge of conn[c].body into the manifest of agent a begins, and goes on
\* in the order of the HashMap.
BeginMerge(c, a, stage) ==
    /\ Unlocked(a)
    /\ conn' = [conn EXCEPT ![c].stage = stage, ![c].left = DOMAIN conn[c].body]
    /\ ConnOnly

ApplyNext(c, a) ==
    /\ \E p \in conn[c].left :
           /\ manifest' = [manifest EXCEPT ![a] = Apply(@, p, conn[c].body[p])]
           /\ conn' = [conn EXCEPT ![c].left = @ \ {p}]
    /\ UNCHANGED <<userVars, chunks, torn, known, clock, now, saved, loopVars, late, boundVars>>

ServeBegin(c) == conn[c].stage = "request" /\ BeginMerge(c, conn[c].peer, "serving")
ServeApply(c) == conn[c].stage = "serving" /\ ApplyNext(c, conn[c].peer)

\* The client still waits for what the server is about to send.
Waiting(c) == pc[c] = "exchange"

\* The reply is a snapshot taken after the merge has let go of the mutex.
ServeReply(c) ==
    /\ conn[c].stage = "serving" /\ conn[c].left = {}
    /\ Unlocked(conn[c].peer)
    /\ conn' = [conn EXCEPT ![c] =
                   IF Waiting(c) THEN Exchange("reply", @.peer, manifest[@.peer], {}, {})
                                 ELSE Idle]
    /\ ConnOnly

\* The server thread of an exchange that c gave up: the same merge, and a reply
\* to nobody.
LateBegin(c) ==
    /\ late[c].stage = "request"
    /\ Unlocked(late[c].peer)
    /\ late' = [late EXCEPT ![c].stage = "serving", ![c].left = DOMAIN late[c].body]
    /\ UNCHANGED <<userVars, storeVars, saved, loopVars, conn, boundVars>>

LateApply(c) ==
    /\ late[c].stage = "serving"
    /\ \E p \in late[c].left :
           /\ manifest' = [manifest EXCEPT ![late[c].peer] = Apply(@, p, late[c].body[p])]
           /\ late' = [late EXCEPT ![c].left = @ \ {p}]
    /\ UNCHANGED <<userVars, chunks, torn, known, clock, now, saved, loopVars, conn, boundVars>>

LateReply(c) ==
    /\ late[c].stage = "serving" /\ late[c].left = {}
    /\ Unlocked(late[c].peer)
    /\ late' = [late EXCEPT ![c] = Idle]
    /\ UNCHANGED <<userVars, storeVars, saved, loopVars, conn, boundVars>>

ReceiveReply(c) == conn[c].stage = "reply" /\ BeginMerge(c, c, "merging")
MergeApply(c) == conn[c].stage = "merging" /\ ApplyNext(c, c)

\* missing_chunk_hashes, over the whole manifest and not just the reply.
Missing(c) ==
    UNION {Hashes(manifest[c][p].chunk_hashes) : p \in DOMAIN manifest[c]} \ chunks[c]

AskChunks(c) ==
    /\ conn[c].stage = "merging" /\ conn[c].left = {}
    /\ Unlocked(c)
    /\ conn' = [conn EXCEPT ![c] =
                   IF @.alive THEN Exchange("ask", @.peer, EmptyManifest, {}, Missing(c))
                              ELSE [@ EXCEPT !.stage = "broken"]]
    /\ ConnOnly

SendChunks(c) ==
    /\ conn[c].stage = "ask"
    /\ conn' = [conn EXCEPT ![c].stage = "chunks", ![c].hashes = @ \cap chunks[conn[c].peer]]
    /\ ConnOnly

\* One turn of apply_chunks.  The bytes of a short file, which stays as it is,
\* make another.
StoreChunk(c) ==
    /\ conn[c].stage = "chunks"
    /\ \E h \in conn[c].hashes :
           /\ chunks' = [chunks EXCEPT ![c] = @ \cup {h}]
           /\ conn' = [conn EXCEPT ![c].hashes = @ \ {h}]
           /\ torn' = [torn EXCEPT ![c] = @ \cup (({h} \cap torn[conn[c].peer]) \ chunks[c])]
    /\ Harms(c, torn' # torn)
    /\ UNCHANGED <<userVars, manifest, known, clock, now, saved, loopVars, late, fails, restarts>>

ExchangeDone(c) ==
    /\ \/ conn[c].stage = "chunks" /\ conn[c].hashes = {}
       \/ conn[c].stage = "broken"
    /\ conn' = [conn EXCEPT ![c] = Idle]
    /\ NextPeer(c)
    /\ UNCHANGED <<userVars, storeVars, saved, todo, listed, hand, work, late, boundVars>>

\* What becomes of c's exchange when c drops it: a request under way is lost
\* with the connection or served all the same; a server thread that has begun
\* goes on to its reply.
Dropped(c) ==
    CASE conn[c].stage = "request" -> {Idle, conn[c]}
      [] conn[c].stage = "serving" -> {conn[c]}
      [] OTHER -> {Idle}

\* The client gives up: a timeout, a reset, an unreadable line, a chunk it
\* cannot store.
ExchangeFails(c) ==
    /\ Waiting(c)
    /\ conn[c].stage = "merging" => conn[c].left = {}
    /\ Fault(c)
    /\ ChunkCutShort(c)
    /\ Harms(c, torn' # torn)
    /\ \E left \in Dropped(c) : conn' = [conn EXCEPT ![c] = left]
    /\ NextPeer(c)
    /\ UNCHANGED <<userVars, manifest, known, clock, now, saved, todo, listed, hand, work, late,
                   restarts>>

------------------------------------------------------------------------------
(* materialize_remote and save_manifest.                                      *)

\* The entries of a's manifest that materialize_remote will act on: another
\* agent's, not known to be on disk, and removed or with every chunk here.
\* (During its loop known_local changes only at the path in hand and the chunk
\* store not at all, so the tests of the loop can be made at the snapshot.)
Pending(a) ==
    {p \in DOMAIN manifest[a] :
        /\ manifest[a][p].author_pubkey # a
        /\ ~(p \in DOMAIN known[a] /\ known[a][p] = manifest[a][p])
        /\ \/ manifest[a][p].tombstone
           \/ Hashes(manifest[a][p].chunk_hashes) \subseteq chunks[a]}

Snapshot(a) ==
    /\ pc[a] = "dial" /\ dialed[a] = Len(Peers[a])
    /\ Unlocked(a)
    /\ work' = [work EXCEPT ![a] = [p \in Pending(a) |-> manifest[a][p]]]
    /\ todo' = [todo EXCEPT ![a] = Pending(a)]
    /\ Goto(a, "materialize")
    /\ UNCHANGED <<userVars, storeVars, saved, listed, dialed, hand, connVars, boundVars>>

\* What the chunk files of content c read, one after the other: c, or, where one
\* of them is short, some other content.
Assembled(a, c) == IF Hashes(c) \cap torn[a] = {} THEN {c} ELSE Content \ {c}

\* What a's directory is after entry is written to p, or removed there.
Materialized(a, p, entry) ==
    IF entry.tombstone THEN {Without(disk[a], p)}
    ELSE {Insert(disk[a], p, c) : c \in Assembled(a, entry.chunk_hashes)}

\* (Faulty: what has been written is not remembered.)
MaterializeForgets(a) ==
    /\ pc[a] = "materialize"
    /\ \E p \in todo[a] :
           /\ \E f \in Materialized(a, p, work[a][p]) : disk' = [disk EXCEPT ![a] = f]
           /\ dirty' = [dirty EXCEPT ![a] = @ \ {p}]
           /\ Visited(a, p)
    /\ UNCHANGED <<edits, storeVars, saved, pc, listed, dialed, hand, work, connVars, boundVars>>

\* One turn of the loop: remove or write the file, whatever it is by now, and
\* remember the entry.
Materialize(a) ==
    /\ pc[a] = "materialize"
    /\ \E p \in todo[a] :
           /\ \E f \in Materialized(a, p, work[a][p]) : disk' = [disk EXCEPT ![a] = f]
           /\ known' = [known EXCEPT ![a] = Insert(@, p, work[a][p])]
           /\ dirty' = [dirty EXCEPT ![a] = @ \ {p}]
           /\ Visited(a, p)
    /\ UNCHANGED <<edits, chunks, torn, manifest, clock, now, saved, pc, listed, dialed, hand, work,
                   connVars, boundVars>>

\* What is left of content c in a file when writing it fails.
CutShort(c) == {d \in Content : \E k \in 0 .. Len(c) - 1 : d = SubSeq(c, 1, k)}

\* The write of a file is cut short.
FileCutShort(a) ==
    \/ UNCHANGED disk
    \/ /\ Truncates /\ pc[a] = "materialize"
       /\ \E p \in {q \in todo[a] : ~work[a][q].tombstone} :
              \E c \in Assembled(a, work[a][p].chunk_hashes) : \E d \in CutShort(c) :
                  disk' = [disk EXCEPT ![a] = Insert(@, p, d)]

\* A file cannot be written or removed: the loop ends with the error.
MaterializeFails(a) ==
    /\ pc[a] = "materialize" /\ todo[a] # {}
    /\ Fault(a)
    /\ FileCutShort(a)
    /\ Harms(a, disk' # disk)
    /\ todo' = [todo EXCEPT ![a] = {}]
    /\ UNCHANGED <<dirty, edits, storeVars, saved, pc, listed, dialed, hand, work, connVars,
                   restarts>>

NextTick(a) ==
    /\ pc[a] = "materialize" /\ todo[a] = {}
    /\ dialed' = [dialed EXCEPT ![a] = 0]
    /\ work' = [work EXCEPT ![a] = EmptyManifest]
    /\ Goto(a, "list")

Save(a) ==
    /\ NextTick(a) /\ Unlocked(a)
    /\ saved' = [saved EXCEPT ![a] = manifest[a]]
    /\ UNCHANGED <<userVars, storeVars, todo, listed, hand, connVars, boundVars>>

SaveFails(a) ==
    /\ NextTick(a)
    /\ Fault(a)
    /\ UNCHANGED <<userVars, storeVars, saved, todo, listed, hand, connVars, harmed, restarts>>

------------------------------------------------------------------------------
(* The process is killed and started again: main's first lines.               *)

\* What the death of a does to the exchange of c.  A reply or chunks already
\* sent still arrive.
AfterDeath(c, a) ==
    CASE conn[c].stage = "idle" \/ conn[c].peer # a -> conn[c]
      [] conn[c].stage \in {"request", "serving", "ask"} /\ conn[c].peer = a ->
             IF Waiting(c) THEN [conn[c] EXCEPT !.stage = "broken", !.left = {}] ELSE Idle
      [] OTHER -> [conn[c] EXCEPT !.alive = FALSE]

\* A server thread dies with its process, and not with its client's.
LateAfterDeath(c, a) ==
    IF late[c].stage # "idle" /\ late[c].peer = a THEN Idle ELSE late[c]

\* What is left of a's own exchange; if it dialed itself, its server thread dies too.
Orphaned(a) == IF conn[a].stage # "idle" /\ conn[a].peer = a THEN {Idle} ELSE Dropped(a)

\* In the middle of a write or not; the main thread begins anew.
Reborn(a) ==
    /\ restarts < MaxRestart
    /\ restarts' = restarts + 1
    /\ Fault(a)
    /\ harmed' = harmed \cup {a}
    /\ \/ ChunkCutShort(a) /\ UNCHANGED disk
       \/ FileCutShort(a) /\ UNCHANGED <<chunks, torn>>
    /\ known' = [known EXCEPT ![a] = EmptyManifest]
    /\ clock' = [clock EXCEPT ![a] = HlcZero]
    /\ todo' = [todo EXCEPT ![a] = {}]
    /\ listed' = [listed EXCEPT ![a] = {}]
    /\ dialed' = [dialed EXCEPT ![a] = 0]
    /\ hand' = [hand EXCEPT ![a] = NoFile]
    /\ work' = [work EXCEPT ![a] = EmptyManifest]
    /\ Goto(a, "list")
    /\ \E left \in Orphaned(a) :
           conn' = [c \in Agent |-> IF c = a THEN left ELSE AfterDeath(c, a)]
    /\ late' = [c \in Agent |-> LateAfterDeath(c, a)]
    /\ UNCHANGED <<dirty, edits, now, saved>>

\* (Faulty: the agent starts from an empty manifest, as it once did.)
RestartEmpty(a) ==
    /\ Reborn(a)
    /\ manifest' = [manifest EXCEPT ![a] = EmptyManifest]

\* It loads the manifest it last saved.
Restart(a) ==
    /\ Reborn(a)
    /\ manifest' = [manifest EXCEPT ![a] = saved[a]]

------------------------------------------------------------------------------
MainStep(a) ==
    \/ ListFiles(a) \/ ReadFile(a) \/ WriteChunk(a) \/ TakeIn(a) \/ ScanVanished(a)
    \/ ScanTomb(a) \/ ScanDone(a)
    \/ Dial(a) \/ ReceiveReply(a) \/ MergeApply(a) \/ AskChunks(a)
    \/ StoreChunk(a) \/ ExchangeDone(a)
    \/ Snapshot(a) \/ Materialize(a) \/ Save(a)

ServerStep(c) ==
    \/ ServeBegin(c) \/ ServeApply(c) \/ ServeReply(c) \/ SendChunks(c)
    \/ LateBegin(c) \/ LateApply(c) \/ LateReply(c)

Failure(a) ==
    \/ ReadFails(a) \/ WriteChunkFails(a)
    \/ DialRefused(a) \/ ExchangeFails(a) \/ MaterializeFails(a) \/ SaveFails(a) \/ Restart(a)

UserStep(a) ==
    \E p \in UserPath : UserDelete(a, p) \/ \E c \in Content : UserWrite(a, p, c)

Next == \E a \in Agent : UserStep(a) \/ MainStep(a) \/ ServerStep(a) \/ Failure(a)

Spec == Init /\ [][Next]_vars

\* The main threads go on, and the threads that serve an agent's exchanges.  One
\* that waits for a manifest's mutex gets it in the end: the main threads, its
\* other users, sleep tick_ms each round without it.
Fairness ==
    \A a \in Agent : SF_vars(MainStep(a)) /\ SF_vars(ServerStep(a))

FairSpec == Spec /\ Fairness

------------------------------------------------------------------------------
LoopPlaces == {"list", "scan", "store", "dial", "exchange", "materialize"}

IsDirectory(f) ==
    /\ f = [p \in DOMAIN f |-> f[p]]
    /\ DOMAIN f \subseteq Path
    /\ \A p \in DOMAIN f : f[p] \in Content

IsExchange(x) ==
    /\ x.stage \in Stages
    /\ x.stage # "idle" =>
           /\ x = [Exchange(x.stage, x.peer, x.body, x.left, x.hashes) EXCEPT !.alive = x.alive]
           /\ x.alive \in BOOLEAN
           /\ x.peer \in Agent
           /\ IsManifest(x.body)
           /\ x.left \subseteq DOMAIN x.body
           /\ x.hashes \subseteq Hash

IsInHand(f) ==
    /\ f = InHand(f.path, f.content, f.stored)
    /\ f = NoFile \/ f.path \in Path
    /\ f.content \in Content
    /\ f.stored \in 0 .. Len(f.content)

\* Every variable has its type.
TypeOK ==
    /\ DOMAIN disk = Agent /\ \A a \in Agent : IsDirectory(disk[a])
    /\ \A holder \in {manifest, saved, known, work} :
           DOMAIN holder = Agent /\ \A a \in Agent : IsManifest(holder[a])
    /\ chunks \in [Agent -> SUBSET Hash]
    /\ DOMAIN torn = Agent /\ \A a \in Agent : torn[a] \subseteq chunks[a]
    /\ clock \in [Agent -> Hlc]
    /\ now \in Nat
    /\ pc \in [Agent -> LoopPlaces]
    /\ {todo, listed, dirty} \subseteq [Agent -> SUBSET Path]
    /\ dialed \in [Agent -> Nat] /\ \A a \in Agent : dialed[a] <= Len(Peers[a])
    /\ DOMAIN hand = Agent /\ \A a \in Agent : IsInHand(hand[a])
    /\ \A net \in {conn, late} : DOMAIN net = Agent /\ \A a \in Agent : IsExchange(net[a])
    /\ harmed \subseteq Agent
    /\ edits \in [Agent -> Nat] /\ \A a \in Agent : edits[a] <= MaxEdits[a]
    /\ fails \in 0 .. MaxFail /\ restarts \in 0 .. MaxRestart

\* a has not been killed, and no short file has come to it.
Unharmed(a) == a \notin harmed

\* known_local says what is on the disk: it matches at p, file or no file.
Reflected(a, p) ==
    IF p \in DOMAIN disk[a] THEN MatchesKnown(a, p, disk[a][p])
    ELSE p \in DOMAIN known[a] => known[a][p].tombstone

\* "The entry we believe is currently, correctly reflected on this agent's own
\* disk" (store.rs on KnownLocal) is, at every moment of the tick and whatever
\* gossip brings, unless the user has touched the path since it was scanned.
KnownIsOnDisk ==
    \A a \in Agent : Unharmed(a) =>
        \A p \in DOMAIN disk[a] \cup DOMAIN known[a] : p \in dirty[a] \/ Reflected(a, p)

\* materialize_remote has yet to bring a's disk to what a's manifest says of p,
\* at once or when the chunks have come.
Awaiting(a, p) ==
    /\ manifest[a][p].author_pubkey # a
    /\ ~(p \in DOMAIN known[a] /\ known[a][p] = manifest[a][p])

OnDisk(a, p) ==
    IF manifest[a][p].tombstone THEN p \notin DOMAIN disk[a]
    ELSE p \in DOMAIN disk[a] /\ disk[a][p] = manifest[a][p].chunk_hashes

\* What materialize_remote passes over for good as a's own: a's side of a tie
\* that lost, kept under another name and never put there on a's disk; and a's
\* own entry that a merge has brought back over a tie, of a removal with a file
\* that is empty.
PassedOver(a, p) ==
    /\ manifest[a][p].author_pubkey = a
    /\ \/ Len(p) > 1
       \/ p \in DOMAIN known[a] /\ Tied(known[a][p], manifest[a][p])
              /\ known[a][p].tombstone # manifest[a][p].tombstone

\* Nothing gets stuck between a directory and its manifest but for PassedOver:
\* apart from what users have touched since the last scan, every file is in the
\* manifest, and every entry is on disk or awaits materialize_remote.  So it
\* does no other harm that materialize_remote passes over the agent's own
\* entries and those it takes for known: gossip never brings one back that the
\* disk has since moved away from.  (A kill lets it: see Unharmed.)
DiskFollowsManifest ==
    \A a \in Agent : Unharmed(a) =>
        /\ \A p \in DOMAIN disk[a] \ dirty[a] :
               is_safe_relative_path(p) => p \in DOMAIN manifest[a]
        /\ \A p \in DOMAIN manifest[a] \ dirty[a] :
               Awaiting(a, p) \/ OnDisk(a, p) \/ PassedOver(a, p)

\* The agent has a chunk's bytes, all of them.
HasWhole(a, h) == h \in chunks[a] \ torn[a]

\* Whatever an agent holds in its manifest, the author of the entry holds the
\* chunks of, however the scan that announced it and the merges were interleaved
\* and wherever scans have ended with an error or a kill: there is always someone
\* to fetch a file from.  Only of a chunk whose own write was cut short, at the
\* author or where the author fetched it, it has no more than a part.
AuthorHoldsChunks ==
    \A a \in Agent : \A p \in DOMAIN manifest[a] :
        LET author == manifest[a][p].author_pubkey
        IN  \A h \in Hashes(manifest[a][p].chunk_hashes) :
                HasWhole(author, h) \/ (h \in torn[author] /\ ~Unharmed(author))

\* Memory never falls behind manifest.json, across saves, merges, failed saves
\* and restarts: saving again takes nothing back that a restart would have
\* brought ("would silently clobber that state", main.rs on load_manifest).
MemoryCoversDisk ==
    \A a \in Agent : \A p \in DOMAIN saved[a] :
        p \in DOMAIN manifest[a] /\ RanksUpTo(saved[a][p], manifest[a][p])

\* The snapshots that exchanges carry.
Mail ==
    {x.body : x \in {y \in {conn[c] : c \in Agent} \cup {late[c] : c \in Agent} :
                       y.stage # "idle"}} \ {EmptyManifest}

\* The agents whose manifest has in it a part of a snapshot and not the rest.
HalfMerged ==
    {x.peer : x \in {y \in {conn[c] : c \in Agent} \cup {late[c] : c \in Agent} :
                       y.stage = "serving" /\ y.left \notin {{}, DOMAIN y.body}}}
    \cup {c \in Agent : conn[c].stage = "merging"
                            /\ conn[c].left \notin {{}, DOMAIN conn[c].body}}

author_of(e) == e.author_pubkey

Gossip == INSTANCE DurableGossip WITH
    Replica <- Agent, Put <- Apply, By <- author_of, held <- manifest, mail <- Mail,
    partial <- HalfMerged

\* The agents' manifests are gossiped and durable: whatever the threads do while
\* an exchange or a scan is under way, and wherever one fails or is killed, each
\* step puts one value into one manifest, the agent's own or one out of a
\* snapshot that was sent, saves a manifest whole, or goes back to the one saved.
\* Nobody authors into, sends or saves what has a part of a snapshot in it.
ManifestsAreDurable == Gossip!Spec

\* This step authors an entry for p under the name of a.
Authors(a, p) ==
    /\ clock'[a] # clock[a]
    /\ p \in DOMAIN known'[a]
    /\ p \in DOMAIN known[a] => known'[a][p] # known[a][p]

\* A scan authors a user's edits and nothing else: neither a file it has just
\* materialized, nor a file that is behind the manifest because a peer's edit
\* or delete has been merged and not materialized (the two bugs told of in
\* scan_local's comment).
OnlyUserEditsAreAuthored ==
    [][\A a \in Agent : \A p \in DOMAIN known'[a] :
           Unharmed(a) /\ Authors(a, p) => p \in dirty[a]]_vars

\* A deletion that an agent authors is a user's.  A restarted agent, which knows
\* nothing of its disk, and one whose writes were cut short may author again
\* what they find there, stale or cut off as it is; but no file is removed from
\* the vault because of a kill, an error or a lost known_local.
OnlyUsersDelete ==
    [][\A a \in Agent : \A p \in DOMAIN known'[a] :
           Authors(a, p) /\ known'[a][p].tombstone => p \in dirty[a]]_vars

\* The wall clock of a is behind no other's.
Leading(a) == \A b \in Agent : Offset[b] <= Offset[a]

\* An edit replaces the version it was made on: when a user changes the file
\* that is known to be on disk, the new entry has the later stamp and takes
\* that version's place in the manifest.  (Merged stamps are never observed, so
\* this is for agents whose wall clock is behind no other's.)
EditReplacesItsBase ==
    [][\A a \in Agent : \A p \in DOMAIN known'[a] :
           Leading(a) /\ Authors(a, p) /\ p \in DOMAIN known[a] =>
               /\ HlcBefore(known[a][p].hlc, known'[a][p].hlc)
               /\ p \in DOMAIN manifest[a] /\ manifest[a][p] = known[a][p]
                      => manifest'[a][p] = known'[a][p]]_vars

\* The version an agent has on disk, or knows to be deleted, is never replaced
\* by one of lower rank: not by the snapshot of a manifest that has moved on
\* since, nor by whichever of several exchanges comes last, nor by an edit, but
\* for one stamped by a wall clock that is behind another's.  (This speaks of
\* known_local: of a path that has not been scanned since a restart it says
\* nothing.)
VersionsOnlyRise ==
    [][\A a \in Agent : \A p \in DOMAIN known[a] \cap DOMAIN known'[a] :
           (Authors(a, p) => Leading(a)) => RanksUpTo(known[a][p], known'[a][p])]_vars

\* No content that a user has put on disk disappears from it before a scan has
\* read it, other than by the user's hand.
UnscannedEditsStay ==
    [][\A a \in Agent : \A p \in dirty[a] :
           disk'[a] # disk[a] => p \in dirty'[a]]_vars

LiveFiles(m) == {p \in DOMAIN m : ~m[p].tombstone}

\* Every directory is what every manifest says.
Settled ==
    \A a, b \in Agent :
        /\ DOMAIN disk[a] = LiveFiles(manifest[b])
        /\ \A p \in DOMAIN disk[a] : disk[a][p] = manifest[b][p].chunk_hashes

\* Once users leave the directories alone, all of them come to hold the same
\* files, and the manifests of all agents agree with them.
DisksConverge == <>[]Settled
==============================================================================
