----------------------------- MODULE ChunkStore -----------------------------
(* The chunk files of crates/vault-agent/src/store.rs and the exchanges of    *)
(* main.rs and bin/gossip_handler.rs that fill them.  A chunk file is made by *)
(* fs::write in place, behind an is_file test: it is there, and short, before *)
(* it is whole.  An agent's main thread is the only writer of its files; its  *)
(* server threads and gossip-handler processes read them at any moment.       *)
(*                                                                            *)
(* Gossip of manifests is one step here (module VaultAgent takes it apart):   *)
(* what counts is which chunks a manifest names, and no entry is replaced     *)
(* here.  A short file is one whose bytes are not all there, down to none.    *)
EXTENDS Naturals, FiniteSets, Sequences

CONSTANTS
    Agent, Hash,
    Files,      \* Files[a]: the files users may put at a, as sets of chunks
    Peers,      \* Peers[a]: whom a dials, by TCP or by command
    MaxBatch,   \* how many chunks fit in MAX_MESSAGE_BYTES
    MaxFail,    \* bound: errors and kills, in all
    MaxScans    \* bound: files scanned, in all

ASSUME ChunkStoreAssumption ==
    /\ Files \in [Agent -> SUBSET SUBSET Hash]
    /\ Peers \in [Agent -> SUBSET Agent]
    /\ MaxBatch \in Nat /\ MaxFail \in Nat /\ MaxScans \in Nat

VARIABLES
    file,       \* file[a]: a's chunk files, "short" or "whole"
    names,      \* names[a]: the hashes that entries of a's manifest list
    main,       \* main[a]: what a's main thread is at
    copied,     \* copied[a]: files that a has materialized, whole or not
    fails, scans,   \* counts, for the bounds
    cut         \* some write was cut off, or overlapped by a read (ghost)

vars == <<file, names, main, copied, fails, scans, cut>>

Has(a, h) == h \in DOMAIN file[a]       \* has_chunk: is_file

\* The main thread: idle between the parts of a tick; storing chunks, of its
\* own file or of an answer; waiting for an answer that its peer is reading
\* together.  `open` is the chunk file it has open for writing.
Idle == [at |-> "idle"]
Storing(left, open, entry) == [at |-> "storing", left |-> left, open |-> open, entry |-> entry]
Waiting(peer, asked, answer) ==
    [at |-> "waiting", peer |-> peer, asked |-> asked, answer |-> answer]

NoChunks == [h \in {} |-> "whole"]
With(f, h, state) == [k \in DOMAIN f \cup {h} |-> IF k = h THEN state ELSE f[k]]
Without(f, h) == [k \in DOMAIN f \ {h} |-> f[k]]

Writing(a, h) == main[a].at = "storing" /\ h \in main[a].open

Init ==
    /\ file = [a \in Agent |-> NoChunks]
    /\ names = [a \in Agent |-> {}]
    /\ main = [a \in Agent |-> Idle]
    /\ copied = [a \in Agent |-> {}]
    /\ fails = 0 /\ scans = 0
    /\ cut = FALSE

------------------------------------------------------------------------------
(* scan_local finds a file that is new to it: chunks first, then the entry.   *)
Scan(a) ==
    /\ main[a] = Idle
    /\ scans < MaxScans /\ scans' = scans + 1
    /\ \E f \in Files[a] :
           main' = [main EXCEPT ![a] = Storing([h \in f |-> "whole"], {}, f)]
    /\ UNCHANGED <<file, names, copied, fails, cut>>

\* (Faulty: writes are begun without testing for a file or waiting for the last.)
WriteUntested(a) ==
    /\ main[a].at = "storing"
    /\ \E h \in DOMAIN main[a].left :
           /\ file' = [file EXCEPT ![a] = With(@, h, "short")]
           /\ main' = [main EXCEPT ![a].open = @ \cup {h}]
    /\ UNCHANGED <<names, copied, fails, scans, cut>>

\* write_chunk: nothing for a file that is there; otherwise it is created ...
Write(a) ==
    /\ main[a].at = "storing" /\ main[a].open = {}
    /\ \E h \in DOMAIN main[a].left :
           \/ /\ Has(a, h)
              /\ main' = [main EXCEPT ![a] = Storing(Without(@.left, h), {}, @.entry)]
              /\ UNCHANGED file
           \/ /\ ~Has(a, h)
              /\ file' = [file EXCEPT ![a] = With(@, h, "short")]
              /\ main' = [main EXCEPT ![a] = Storing(@.left, {h}, @.entry)]
    /\ UNCHANGED <<names, copied, fails, scans, cut>>

\* (Faulty: the last of the bytes stay in a buffer.)
WrittenUnflushed(a) ==
    /\ main[a].at = "storing"
    /\ \E h \in DOMAIN main[a].left :
           /\ Writing(a, h)
           /\ main' = [main EXCEPT ![a].left = Without(@, h), ![a].open = {}]
    /\ UNCHANGED <<file, names, copied, fails, scans, cut>>

\* ... and its bytes are written.
Written(a) ==
    /\ main[a].at = "storing"
    /\ \E h \in DOMAIN main[a].left :
           /\ Writing(a, h)
           /\ file' = [file EXCEPT ![a] = With(@, h, main[a].left[h])]
           /\ main' = [main EXCEPT ![a] = Storing(Without(@.left, h), {}, @.entry)]
    /\ UNCHANGED <<names, copied, fails, scans, cut>>

\* All is stored: a scanned file's entry is put; of an answer nothing is left.
Stored(a) ==
    /\ main[a].at = "storing" /\ DOMAIN main[a].left = {}
    /\ names' = [names EXCEPT ![a] = @ \cup main[a].entry]
    /\ main' = [main EXCEPT ![a] = Idle]
    /\ UNCHANGED <<file, copied, fails, scans, cut>>

------------------------------------------------------------------------------
(* An exchange with peer b: manifests, then the chunks that are missing.      *)

\* missing_chunk_hashes, after the merge of both manifests.
Missing(a, b) == {h \in names[a] \cup names[b] : ~Has(a, h)}

\* Both sides merge; a asks for all it misses.
Exchange(a, b) ==
    /\ main[a] = Idle
    /\ names' = [names EXCEPT ![a] = @ \cup names[b], ![b] = @ \cup names[a]]
    /\ main' = [main EXCEPT ![a] = Waiting(b, Missing(a, b), NoChunks)]
    /\ UNCHANGED <<file, copied, fails, scans, cut>>

\* (Faulty: a chunk that cannot be read spoils the answer.)
ServeAllOrNothing(a) ==
    /\ main[a].at = "waiting"
    /\ \E h \in main[a].asked :
           LET b == main[a].peer IN
           /\ main' = [main EXCEPT ![a] = IF Has(b, h) THEN Waiting(b, @.asked \ {h}, With(@.answer, h, file[b][h]))
                                                       ELSE Waiting(b, {}, NoChunks)]
           /\ cut' = (cut \/ Writing(b, h))
    /\ UNCHANGED <<file, names, copied, fails, scans>>

\* The server reads the next chunk, if it is there, as it is at that moment.
Serve(a) ==
    /\ main[a].at = "waiting"
    /\ \E h \in main[a].asked :
           LET b == main[a].peer IN
           /\ main' = [main EXCEPT ![a] =
                  Waiting(b, @.asked \ {h}, IF Has(b, h) THEN With(@.answer, h, file[b][h]) ELSE @.answer)]
           /\ cut' = (cut \/ Writing(b, h))
    /\ UNCHANGED <<file, names, copied, fails, scans>>

Answered(a) == main[a].at = "waiting" /\ main[a].asked = {}

TooLarge(a) == Cardinality(DOMAIN main[a].answer) > MaxBatch

\* apply_chunks begins.
Receive(a) ==
    /\ Answered(a) /\ ~TooLarge(a)
    /\ main' = [main EXCEPT ![a] = Storing(@.answer, {}, {})]
    /\ UNCHANGED <<file, names, copied, fails, scans, cut>>

\* The answer is beyond what read_bounded_line and read_bounded_to_string
\* accept: the exchange ends with the error, and none of it is kept.
Refuse(a) ==
    /\ Answered(a) /\ TooLarge(a)
    /\ main' = [main EXCEPT ![a] = Idle]
    /\ UNCHANGED <<file, names, copied, fails, scans, cut>>

------------------------------------------------------------------------------
(* An error of the connection or the disk, or a kill: what the main thread    *)
(* was at is given up, and a file it had open stays as it is.                 *)
GiveUp(a) ==
    /\ main[a] # Idle
    /\ fails < MaxFail /\ fails' = fails + 1
    /\ cut' = (cut \/ \E h \in Hash : Writing(a, h))
    /\ main' = [main EXCEPT ![a] = Idle]
    /\ UNCHANGED <<file, names, copied, scans>>

\* materialize_remote writes a file whose chunks are all here out of them.
Materialize(a) ==
    /\ main[a] = Idle
    /\ \E f \in UNION {Files[b] : b \in Agent} :
           /\ f \subseteq names[a] /\ \A h \in f : Has(a, h)
           /\ copied' = [copied EXCEPT ![a] = @ \cup
                  {[file |-> f, whole |-> \A h \in f : file[a][h] = "whole"]}]
    /\ UNCHANGED <<file, names, main, fails, scans, cut>>

Storage(a) == Write(a) \/ Written(a) \/ Stored(a)
Answering(a) == Serve(a) \/ Receive(a) \/ Refuse(a)

Next ==
    \E a \in Agent :
        \/ Scan(a) \/ Storage(a) \/ Materialize(a) \/ GiveUp(a)
        \/ Answering(a) \/ \E b \in Peers[a] : Exchange(a, b)

Spec == Init /\ [][Next]_vars

\* The main loop dials each of its peers in every tick and finishes what it
\* begins.
Fairness ==
    \A a \in Agent :
        /\ WF_vars(Storage(a)) /\ WF_vars(Answering(a))
        /\ \A b \in Peers[a] : SF_vars(Exchange(a, b))

FairSpec == Spec /\ Fairness

------------------------------------------------------------------------------
ChunkFiles == UNION {[S -> {"short", "whole"}] : S \in SUBSET Hash}

IsMain(m) ==
    \/ m = Idle
    \/ /\ m.at = "storing" /\ m = Storing(m.left, m.open, m.entry)
       /\ m.left \in ChunkFiles /\ m.open \subseteq DOMAIN m.left
       /\ m.entry \in {{}} \cup UNION {Files[a] : a \in Agent}
    \/ /\ m.at = "waiting" /\ m = Waiting(m.peer, m.asked, m.answer)
       /\ m.peer \in Agent /\ m.asked \subseteq Hash /\ m.answer \in ChunkFiles

\* Every variable has its type, and one chunk file at most is open for writing.
TypeOK ==
    /\ file \in [Agent -> ChunkFiles]
    /\ names \in [Agent -> SUBSET Hash]
    /\ \A a \in Agent : IsMain(main[a])
    /\ \A a \in Agent : \A h, k \in Hash : Writing(a, h) /\ Writing(a, k) => h = k
    /\ copied \in [Agent -> SUBSET [file : SUBSET Hash, whole : BOOLEAN]]
    /\ fails \in 0 .. MaxFail /\ scans \in 0 .. MaxScans
    /\ cut \in BOOLEAN

AtRest(a, h) == Has(a, h) /\ ~Writing(a, h)

\* Behind a hash at rest are all its bytes: write_chunk's comment on a file
\* that is there, "content-addressed: identical bytes already stored".
StoredBytesAreWhole ==
    \A a \in Agent : \A h \in Hash : AtRest(a, h) => file[a][h] = "whole"

\* A short chunk has one of two origins, a write that was cut off and a read
\* that overlapped a write.  Until one has happened, every chunk at rest, every
\* answer and every materialized file is whole, however exchanges, scans and
\* lost answers interleave.
WholeUntilCut ==
    cut \/ /\ StoredBytesAreWhole
           /\ \A a \in Agent :
                  /\ \A c \in copied[a] : c.whole
                  /\ main[a].at = "waiting" =>
                         \A h \in DOMAIN main[a].answer : main[a].answer[h] = "whole"

\* A chunk file at rest is never opened for writing again, nor removed: what a
\* server thread or a handler process reads then cannot change under it.
AtRestIsFinal ==
    [][\A a \in Agent : \A h \in Hash : AtRest(a, h) =>
           h \in DOMAIN file'[a] /\ file'[a][h] = file[a][h]]_vars

\* What b could send a at once.
Batch(a, b) == Missing(a, b) \cap DOMAIN file[b]

\* Every dialing agent ends up with each chunk that its manifest names and one
\* of its peers holds, out of parts from several peers and past any number of
\* failed exchanges ("will just try again next tick (possibly against a
\* different peer)", wire.rs), unless what it asks that peer for never fits in
\* a message.  An agent that dials nobody is promised nothing.
Backfilled ==
    <>[](\A a \in Agent : \A b \in Peers[a] : \A h \in names[a] :
             Has(b, h) /\ Cardinality(Batch(a, b)) <= MaxBatch => Has(a, h))
==============================================================================
