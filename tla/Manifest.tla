------------------------------ MODULE Manifest ------------------------------
(* The manifest of crates/vault-manifest/src/manifest.rs: a map from path to *)
(* entry, last writer wins by hybrid logical clock, with conflict copies     *)
(* when two different entries for a path carry the same stamp.               *)
(*                                                                           *)
(* Data.  A path is the sequence <<name>> or, for a conflict copy,           *)
(* <<name, short, ...>>: each ".conflict-<short>" suffix is one element.     *)
(* A file's content is its sequence of chunk hashes; size is a function of   *)
(* the content for every entry an agent makes, so it is left out.            *)
EXTENDS Hlc, Sequences

CONSTANTS
    Name,           \* file names
    SafeName,       \* the names is_safe_relative_path accepts
    Author,         \* agent ids
    Short,          \* Short[a]: the first 8 bytes of id a
    Content,        \* contents a file may have: sequences of chunk hashes
    ContentRank     \* ContentRank[c]: place of content_key in string order

ASSUME SafeNameAssumption == SafeName \subseteq Name

\* Distinct hash lists join to distinct strings, and the list without hashes
\* joins to "", the least string.
ASSUME ContentAssumption ==
    /\ <<>> \in Content
    /\ ContentRank \in [Content -> Nat]
    /\ \A c, d \in Content : ContentRank[c] = ContentRank[d] => c = d
    /\ ContentRank[<<>>] = 0

ASSUME ShortAssumption == DOMAIN Short = Author

ShortId == {Short[x] : x \in Author}

Path == {p \in Seq(Name \cup ShortId) : p # <<>> /\ p[1] \in Name}

Entry == [chunk_hashes : Content, hlc : Hlc, author_pubkey : Author, tombstone : BOOLEAN]

\* A manifest is a function from the paths it has to their entries.
IsManifest(m) ==
    /\ m = [p \in DOMAIN m |-> m[p]]
    /\ DOMAIN m \subseteq Path
    /\ \A p \in DOMAIN m : m[p] \in Entry

EmptyManifest == [p \in {} |-> 0]

content_key(e) == ContentRank[e.chunk_hashes]

\* A conflict copy's name only adds a suffix, so its first element decides.
is_safe_relative_path(p) == p[1] \in SafeName

ConflictPath(p, loser) == Append(p, Short[loser.author_pubkey])

\* HashMap::insert and HashMap::entry(..).or_insert(..).
Insert(m, p, e) == [q \in DOMAIN m \cup {p} |-> IF q = p THEN e ELSE m[q]]

OrInsert(m, p, e) == IF p \in DOMAIN m THEN m ELSE Insert(m, p, e)

\* "Truly concurrent": the same stamp and not the same entry.
Tied(e, f) == e.hlc = f.hlc /\ e # f

\* Faulty forms, which the mutation runs put in place of the operators below.
WinnerIsIncoming(existing, incoming) == incoming

WinnerIsLesser(existing, incoming) ==
    IF content_key(incoming) >= content_key(existing) THEN existing ELSE incoming

Winner(existing, incoming) ==
    IF content_key(incoming) >= content_key(existing) THEN incoming ELSE existing

Loser(existing, incoming) ==
    IF content_key(incoming) >= content_key(existing) THEN existing ELSE incoming

\* (Faulty: the copy is named after the winner; the loser is dropped.)
ApplyTieNamesWinner(m, p, incoming) ==
    OrInsert(Insert(m, p, Winner(m[p], incoming)),
             ConflictPath(p, Winner(m[p], incoming)),
             Loser(m[p], incoming))

ApplyTieDropsLoser(m, p, incoming) == Insert(m, p, Winner(m[p], incoming))

ApplyTie(m, p, incoming) ==
    OrInsert(Insert(m, p, Winner(m[p], incoming)),
             ConflictPath(p, Loser(m[p], incoming)),
             Loser(m[p], incoming))

\* (Faulty: whatever arrives last is kept.)
ApplyKeepsLast(m, p, incoming) ==
    IF ~is_safe_relative_path(p) THEN m ELSE Insert(m, p, incoming)

\* Manifest::apply, which put calls once and merge once for every entry of
\* the other manifest, in the order its HashMap happens to have.
Apply(m, p, incoming) ==
    IF ~is_safe_relative_path(p) THEN m
    ELSE IF p \notin DOMAIN m \/ (p \in DOMAIN m /\ HlcBefore(m[p].hlc, incoming.hlc))
         THEN Insert(m, p, incoming)
    ELSE IF Tied(m[p], incoming)
         THEN ApplyTie(m, p, incoming)
    ELSE m

\* e ranks at or above f: a later stamp, or the same stamp and content_key.
RanksUpTo(f, e) ==
    \/ HlcBefore(f.hlc, e.hlc)
    \/ f.hlc = e.hlc /\ content_key(f) <= content_key(e)
==============================================================================
