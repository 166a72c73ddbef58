-------------------------- MODULE ManifestReplicas --------------------------
(* Replicas of one manifest that write and gossip, as the Agent of            *)
(* crates/vault-manifest/tests/local_simulation.rs drives the crate: a write  *)
(* ticks the replica's clock and puts an entry, gossip takes a snapshot of    *)
(* another replica's manifest and merges it later, when it may be stale.  A   *)
(* merge is a loop of apply over a HashMap, so its entries arrive in any      *)
(* order; nobody else uses the manifest until the loop is over (merge has     *)
(* &mut self).                                                                *)
EXTENDS Manifest

CONSTANTS
    Wall,       \* wall-clock readings a write may see, a set of numbers
    Draft,      \* Draft[n]: what n may write, records [path, chunk_hashes, tombstone]
    MaxWrites   \* bound: writes of one run

ASSUME ReplicasAssumption ==
    /\ Wall \subseteq Nat
    /\ MaxWrites \in Nat
    /\ \A n \in Author :
           Draft[n] \subseteq [path : Path, chunk_hashes : Content, tombstone : BOOLEAN]

VARIABLES
    clock,      \* clock[n]: the Hlc of replica n
    manifest,   \* manifest[n]: what replica n holds
    inbox,      \* inbox[n]: the snapshot n merges or has merged last
    todo,       \* todo[n]: paths of inbox[n] not applied yet
    seen,       \* seen[n]: every [path, entry] that n has applied (ghost)
    writes      \* writes so far, for the bound

vars == <<clock, manifest, inbox, todo, seen, writes>>

Init ==
    /\ clock = [n \in Author |-> HlcZero]
    /\ manifest = [n \in Author |-> EmptyManifest]
    /\ inbox = [n \in Author |-> EmptyManifest]
    /\ todo = [n \in Author |-> {}]
    /\ seen = [n \in Author |-> {}]
    /\ writes = 0

ApplyAt(n, p, e) ==
    /\ manifest' = [manifest EXCEPT ![n] = Apply(@, p, e)]
    /\ seen' = [seen EXCEPT ![n] = @ \cup {[path |-> p, entry |-> e]}]

\* No merge of n is half way: it is over or has not begun.
Unlocked(n) == todo[n] \in {{}, DOMAIN inbox[n]}

Authored(n, draft, stamp) ==
    [chunk_hashes |-> draft.chunk_hashes, hlc |-> stamp,
     author_pubkey |-> n, tombstone |-> draft.tombstone]

\* Agent::write
Write(n, draft, wall) ==
    /\ Unlocked(n)
    /\ writes < MaxWrites
    /\ RoomToBump(clock[n].logical)
    /\ clock' = [clock EXCEPT ![n] = Tick(@, wall)]
    /\ ApplyAt(n, draft.path, Authored(n, draft, Tick(clock[n], wall)))
    /\ writes' = writes + 1
    /\ UNCHANGED <<inbox, todo>>

\* (Faulty: the keys of the new snapshot go with the old one.)
FetchKeysOnly(n, o) ==
    /\ todo[n] = {} /\ Unlocked(o)
    /\ todo' = [todo EXCEPT ![n] = DOMAIN manifest[o]]
    /\ UNCHANGED <<clock, manifest, inbox, seen, writes>>

\* Agent::gossip_from: the snapshot ...
Fetch(n, o) ==
    /\ todo[n] = {} /\ Unlocked(o)
    /\ inbox' = [inbox EXCEPT ![n] = manifest[o]]
    /\ todo' = [todo EXCEPT ![n] = DOMAIN manifest[o]]
    /\ UNCHANGED <<clock, manifest, seen, writes>>

\* ... and one turn of the loop in Manifest::merge.
MergeOne(n) ==
    /\ \E p \in todo[n] :
           /\ ApplyAt(n, p, inbox[n][p])
           /\ todo' = [todo EXCEPT ![n] = @ \ {p}]
    /\ UNCHANGED <<clock, inbox, writes>>

Next ==
    \E n \in Author :
        \/ \E draft \in Draft[n], wall \in Wall : Write(n, draft, wall)
        \/ \E o \in Author \ {n} : Fetch(n, o)
        \/ MergeOne(n)

Spec == Init /\ [][Next]_vars

\* Every replica gossips with every other again and again (the test's full
\* pairwise round, the agent's loop over its peers) and finishes each merge.
Fairness ==
    \A n \in Author :
        /\ WF_vars(MergeOne(n))
        /\ \A o \in Author \ {n} : SF_vars(Fetch(n, o))

FairSpec == Spec /\ Fairness

------------------------------------------------------------------------------
\* Every variable has its type.
TypeOK ==
    /\ clock \in [Author -> Hlc]
    /\ DOMAIN manifest = Author /\ \A n \in Author : IsManifest(manifest[n])
    /\ DOMAIN inbox = Author /\ \A n \in Author : IsManifest(inbox[n])
    /\ DOMAIN todo = Author /\ \A n \in Author : todo[n] \subseteq DOMAIN inbox[n]
    /\ seen \in [Author -> SUBSET [path : Path, entry : Entry]]
    /\ writes \in 0 .. MaxWrites

\* Last writer wins in whatever order entries arrive: a replica holds, for
\* each path, an entry no entry it was ever given for that path outranks.
NothingSeenOutranks ==
    \A n \in Author : \A s \in seen[n] :
        is_safe_relative_path(s.path) =>
            /\ s.path \in DOMAIN manifest[n]
            /\ RanksUpTo(s.entry, manifest[n][s.path])

\* p is path, or a conflict copy of it, or a copy of the copy, ..., for e.
CopyOf(p, path, e) ==
    /\ Len(p) >= Len(path)
    /\ \A i \in 1 .. Len(p) :
           p[i] = IF i <= Len(path) THEN path[i] ELSE Short[e.author_pubkey]

\* A replica makes nothing up: what it holds for a path it was given for that
\* path, or it is a conflict copy of what it was given for the original path,
\* under the name of the copy's own author.
EntriesWereGiven ==
    \A n \in Author : \A p \in DOMAIN manifest[n] :
        \E s \in seen[n] :
            s.entry = manifest[n][p] /\ CopyOf(p, s.path, s.entry)

Given(n, p) == {s \in seen[n] : s.path = p}

\* The order of the merges does not matter: two replicas that were given the
\* same entries for a file, in whatever order and however often, hold entries
\* of the same stamp and content for it.  (A file proper, not a conflict copy.)
OrderDoesNotMatter ==
    \A n, o \in Author : \A s \in seen[n] :
        LET p == s.path
        IN  /\ Len(p) = 1
            /\ is_safe_relative_path(p)
            /\ Given(n, p) = Given(o, p)
            => RanksUpTo(manifest[n][p], manifest[o][p])

IsFile(p) == Len(p) = 1 /\ is_safe_relative_path(p)

EntryOutranks(e, f) == RanksUpTo(f, e) /\ ~RanksUpTo(e, f)

\* The files proper of the manifests, and what was given for them.
FilesHeld ==
    [n \in Author |-> [p \in {q \in DOMAIN manifest[n] : IsFile(q)} |-> manifest[n][p]]]

FilesGiven ==
    [n \in Author |-> {<<s.path, s.entry>> : s \in {t \in seen[n] : IsFile(t.path)}}]

Register == INSTANCE LastWriterWins WITH
    Replica <- Author, Outranks <- EntryOutranks, held <- FilesHeld, given <- FilesGiven

\* Writes and merges implement a last-writer-wins register per file: each step
\* of each replica, one apply in the middle of a merge with a stale snapshot
\* included, gives one entry to one file of one replica or changes no file,
\* and the copies that ties leave behind never disturb one.
FilesAreRegisters == Register!Spec

\* Of two entries that tie at the top of a path, the one that is not held
\* there had a conflict path made for it.  (Whether it is the entry in it is
\* another matter: see TiedLoserSurvives.)
TiedLoserHasConflictPath ==
    \A n \in Author : \A s \in seen[n] :
        /\ is_safe_relative_path(s.path)
        /\ Tied(manifest[n][s.path], s.entry)
        => ConflictPath(s.path, s.entry) \in DOMAIN manifest[n]

\* What a replica holds for a path never goes back to a lower rank, and a
\* path never disappears.
RanksOnlyRise ==
    [][\A n \in Author : \A p \in DOMAIN manifest[n] :
           /\ p \in DOMAIN manifest'[n]
           /\ RanksUpTo(manifest[n][p], manifest'[n][p])]_vars

\* The comment in apply: the two sides of a tie are never silently dropped.
\* Either can still be read, at the path or at its conflict path.
TiedLoserSurvives ==
    \A n \in Author : \A s \in seen[n] :
        /\ is_safe_relative_path(s.path)
        /\ Tied(manifest[n][s.path], s.entry)
        => \E q \in DOMAIN manifest[n] :
               /\ manifest[n][q].chunk_hashes = s.entry.chunk_hashes
               /\ manifest[n][q].tombstone = s.entry.tombstone

SameRanks ==
    \A n, o \in Author :
        /\ DOMAIN manifest[n] = DOMAIN manifest[o]
        /\ \A p \in DOMAIN manifest[n] : RanksUpTo(manifest[n][p], manifest[o][p])

\* Gossip brings all replicas to the same paths and, for each, to entries of
\* the same stamp and content.
RanksConverge == <>[]SameRanks
==============================================================================
