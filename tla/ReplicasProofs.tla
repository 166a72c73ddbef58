--------------------------- MODULE ReplicasProofs ---------------------------
(* The safety properties of ManifestReplicas, for every set of replicas,     *)
(* files and contents, every wall-clock reading and every number of writes.  *)
EXTENDS ManifestReplicas, OperatorLemmas

\* TypeOK over sets of functions, which is easier on the provers.
Typed ==
    /\ clock \in [Author -> Hlc]
    /\ manifest \in [Author -> Manifests]
    /\ inbox \in [Author -> Manifests]
    /\ todo \in [Author -> SUBSET Path]
    /\ \A n \in Author : todo[n] \subseteq DOMAIN inbox[n]
    /\ seen \in [Author -> SUBSET [path : Path, entry : Entry]]
    /\ writes \in 0 .. MaxWrites

LEMMA TypedTypeOK == Typed => TypeOK
<1> SUFFICES ASSUME Typed
             PROVE  TypeOK
    OBVIOUS
<1>1. \A n \in Author : manifest[n] \in Manifests /\ inbox[n] \in Manifests
    BY DEF Typed
<1>2. \A n \in Author : IsManifest(manifest[n]) /\ IsManifest(inbox[n])
    BY <1>1, ManifestsType
<1> QED
    BY <1>2 DEF Typed, TypeOK

LEMMA InitTyped == Init => Typed
<1> SUFFICES ASSUME Init
             PROVE  Typed
    OBVIOUS
<1>1. EmptyManifest \in Manifests
    BY EmptyManifestType
<1>2. HlcZero \in Hlc
    BY ZeroType
<1>3. writes \in 0 .. MaxWrites
    BY ReplicasAssumption DEF Init
<1>4. /\ clock \in [Author -> Hlc]
      /\ manifest \in [Author -> Manifests]
      /\ inbox \in [Author -> Manifests]
    BY <1>1, <1>2 DEF Init
<1>5. /\ todo \in [Author -> SUBSET Path]
      /\ \A n \in Author : todo[n] \subseteq DOMAIN inbox[n]
      /\ seen \in [Author -> SUBSET [path : Path, entry : Entry]]
    BY DEF Init
<1> QED
    BY <1>3, <1>4, <1>5 DEF Typed

\* What a write authors is an entry for a path.
LEMMA AuthoredType ==
    ASSUME Typed, NEW n \in Author, NEW draft \in Draft[n], NEW wall \in Wall
    PROVE  /\ draft.path \in Path
           /\ Tick(clock[n], wall) \in Hlc
           /\ Authored(n, draft, Tick(clock[n], wall)) \in Entry
<1>1. draft \in [path : Path, chunk_hashes : Content, tombstone : BOOLEAN]
    BY ReplicasAssumption
<1>2. Tick(clock[n], wall) \in Hlc
    BY ReplicasAssumption, TickType DEF Typed
<1> QED
    BY <1>1, <1>2 DEF Authored, Entry

\* What a merge applies is an entry for a path.
LEMMA MergedType ==
    ASSUME Typed, NEW n \in Author, NEW p \in todo[n]
    PROVE  p \in Path /\ inbox[n][p] \in Entry
<1>1. inbox[n] \in Manifests /\ p \in DOMAIN inbox[n]
    BY DEF Typed
<1> QED
    BY <1>1, ManifestsUse

\* A step that touches a manifest applies one entry to it.
LEMMA StepApplies ==
    ASSUME Typed, [Next]_vars
    PROVE  \/ UNCHANGED <<manifest, seen>>
           \/ \E n \in Author, p \in Path, e \in Entry : ApplyAt(n, p, e)
<1>1. ASSUME NEW n \in Author, NEW draft \in Draft[n], NEW wall \in Wall,
             Write(n, draft, wall)
      PROVE  \E p \in Path, e \in Entry : ApplyAt(n, p, e)
    BY <1>1, AuthoredType DEF Write
<1>2. ASSUME NEW n \in Author, NEW o \in Author \ {n}, Fetch(n, o)
      PROVE  UNCHANGED <<manifest, seen>>
    BY <1>2 DEF Fetch
<1>3. ASSUME NEW n \in Author, MergeOne(n)
      PROVE  \E p \in Path, e \in Entry : ApplyAt(n, p, e)
    BY <1>3, MergedType DEF MergeOne
<1>4. ASSUME UNCHANGED vars
      PROVE  UNCHANGED <<manifest, seen>>
    BY <1>4 DEF vars
<1> QED
    BY <1>1, <1>2, <1>3, <1>4 DEF Next

LEMMA ApplyAtTyped ==
    ASSUME Typed, NEW n \in Author, NEW p \in Path, NEW e \in Entry, ApplyAt(n, p, e)
    PROVE  /\ manifest' \in [Author -> Manifests]
           /\ seen' \in [Author -> SUBSET [path : Path, entry : Entry]]
<1>1. Apply(manifest[n], p, e) \in Manifests
    BY ApplyType DEF Typed
<1>2. [path |-> p, entry |-> e] \in [path : Path, entry : Entry]
    OBVIOUS
<1>3. manifest' \in [Author -> Manifests]
    BY <1>1 DEF ApplyAt, Typed
<1>4. seen' \in [Author -> SUBSET [path : Path, entry : Entry]]
    BY <1>2 DEF ApplyAt, Typed
<1> QED
    BY <1>3, <1>4

LEMMA NextTyped == Typed /\ [Next]_vars => Typed'
<1> SUFFICES ASSUME Typed, [Next]_vars
             PROVE  Typed'
    OBVIOUS
<1>1. ASSUME NEW n \in Author, NEW draft \in Draft[n], NEW wall \in Wall,
             Write(n, draft, wall)
      PROVE  Typed'
    <2>1. /\ manifest' \in [Author -> Manifests]
          /\ seen' \in [Author -> SUBSET [path : Path, entry : Entry]]
        BY <1>1, AuthoredType, ApplyAtTyped DEF Write
    <2>2. clock' \in [Author -> Hlc]
        BY <1>1, AuthoredType DEF Write, Typed
    <2>3. writes' \in 0 .. MaxWrites
        BY <1>1, ReplicasAssumption DEF Write, Typed
    <2> QED
        BY <1>1, <2>1, <2>2, <2>3 DEF Write, Typed
<1>2. ASSUME NEW n \in Author, NEW o \in Author \ {n}, Fetch(n, o)
      PROVE  Typed'
    <2>1. manifest[o] \in Manifests
        BY DEF Typed
    <2>2. DOMAIN manifest[o] \subseteq Path
        BY <2>1, ManifestsUse
    <2>3. /\ inbox' \in [Author -> Manifests]
          /\ todo' \in [Author -> SUBSET Path]
        BY <1>2, <2>1, <2>2 DEF Fetch, Typed
    <2>4. \A q \in Author : todo'[q] \subseteq DOMAIN inbox'[q]
        BY <1>2 DEF Fetch, Typed
    <2> QED
        BY <1>2, <2>3, <2>4 DEF Fetch, Typed
<1>3. ASSUME NEW n \in Author, MergeOne(n)
      PROVE  Typed'
    <2>1. PICK p \in todo[n] :
              ApplyAt(n, p, inbox[n][p]) /\ todo' = [todo EXCEPT ![n] = @ \ {p}]
        BY <1>3 DEF MergeOne
    <2>2. /\ manifest' \in [Author -> Manifests]
          /\ seen' \in [Author -> SUBSET [path : Path, entry : Entry]]
        BY <2>1, MergedType, ApplyAtTyped
    <2>3. /\ todo' \in [Author -> SUBSET Path]
          /\ \A q \in Author : todo'[q] \subseteq DOMAIN inbox[q]
        BY <2>1 DEF Typed
    <2> QED
        BY <1>3, <2>2, <2>3 DEF MergeOne, Typed
<1>4. ASSUME UNCHANGED vars
      PROVE  Typed'
    BY <1>4 DEF vars, Typed
<1> QED
    BY <1>1, <1>2, <1>3, <1>4 DEF Next

LEMMA TypedAlways == Spec => []Typed
BY InitTyped, NextTyped, PTL DEF Spec

\* Every variable has its type in every reachable state.
THEOREM TypeCorrect == Spec => []TypeOK
BY TypedAlways, TypedTypeOK, PTL

------------------------------------------------------------------------------
\* What one apply does to the manifest and to the ghost of its replica, and
\* that it leaves the other replicas alone.
LEMMA ApplyAtEffect ==
    ASSUME Typed, NEW n \in Author, NEW p \in Path, NEW e \in Entry,
           ApplyAt(n, p, e), NEW o \in Author
    PROVE  \/ manifest'[o] = manifest[o] /\ seen'[o] = seen[o]
           \/ /\ manifest'[o] = Apply(manifest[o], p, e)
              /\ seen'[o] = seen[o] \cup {[path |-> p, entry |-> e]}
BY DEF ApplyAt, Typed

LEMMA SeenType ==
    ASSUME Typed, NEW n \in Author, NEW s \in seen[n]
    PROVE  s.path \in Path /\ s.entry \in Entry
BY DEF Typed

\* One apply gives the path an entry that outranks nothing seen, and lowers
\* no other path.
LEMMA ApplyKeepsNothingOutranks ==
    Typed /\ NothingSeenOutranks /\ [Next]_vars => NothingSeenOutranks'
<1> SUFFICES ASSUME Typed, NothingSeenOutranks, [Next]_vars
             PROVE  NothingSeenOutranks'
    OBVIOUS
<1>1. CASE UNCHANGED <<manifest, seen>>
    BY <1>1 DEF NothingSeenOutranks
<1>2. ASSUME NEW n \in Author, NEW p \in Path, NEW e \in Entry, ApplyAt(n, p, e)
      PROVE  NothingSeenOutranks'
    <2> SUFFICES ASSUME NEW o \in Author, NEW s \in seen'[o],
                        is_safe_relative_path(s.path)
                 PROVE  /\ s.path \in DOMAIN manifest'[o]
                        /\ RanksUpTo(s.entry, manifest'[o][s.path])
        BY DEF NothingSeenOutranks
    <2> DEFINE m == manifest[o]
    <2>1. m \in Manifests
        BY DEF Typed
    <2>2. ASSUME s \in seen[o]
          PROVE  /\ s.path \in DOMAIN m
                 /\ RanksUpTo(s.entry, m[s.path])
        BY <2>2 DEF NothingSeenOutranks
    <2>3. CASE manifest'[o] = m /\ seen'[o] = seen[o]
        BY <2>2, <2>3
    <2>4. CASE /\ manifest'[o] = Apply(m, p, e)
               /\ seen'[o] = seen[o] \cup {[path |-> p, entry |-> e]}
        <3>1. CASE s \in seen[o]
            <4>1. s.path \in DOMAIN m /\ RanksUpTo(s.entry, m[s.path])
                BY <2>2, <3>1
            <4>2. /\ s.path \in DOMAIN Apply(m, p, e)
                  /\ RanksUpTo(m[s.path], Apply(m, p, e)[s.path])
                BY <2>1, <4>1, ApplyRaises
            <4>3. Apply(m, p, e) \in Manifests
                BY <2>1, ApplyType
            <4>4. s.entry \in Entry /\ m[s.path] \in Entry
                BY <2>1, <3>1, <4>1, SeenType, ManifestsUse
            <4>5. Apply(m, p, e)[s.path] \in Entry
                BY <4>2, <4>3, ManifestsUse
            <4>6. RanksUpTo(s.entry, Apply(m, p, e)[s.path])
                BY <4>1, <4>2, <4>4, <4>5, RanksTransitive
            <4> QED
                BY <2>4, <4>2, <4>6
        <3>2. CASE s = [path |-> p, entry |-> e]
            <4>1. s.path = p /\ s.entry = e
                BY <3>2
            <4> QED
                BY <2>1, <2>4, <4>1, ApplyCovers
        <3> QED
            BY <2>4, <3>1, <3>2
    <2> QED
        BY <1>2, <2>3, <2>4, ApplyAtEffect
<1> QED
    BY <1>1, <1>2, StepApplies

\* Last writer wins, in whatever order a replica is given the entries.
THEOREM NothingOutranks == Spec => []NothingSeenOutranks
<1>1. Init => Typed /\ NothingSeenOutranks
    BY InitTyped DEF Init, NothingSeenOutranks
<1>2. Typed /\ NothingSeenOutranks /\ [Next]_vars => (Typed /\ NothingSeenOutranks)'
    BY NextTyped, ApplyKeepsNothingOutranks
<1> QED
    BY <1>1, <1>2, PTL DEF Spec

\* What a path holds never falls to a lower rank, and no path disappears.
THEOREM RanksRise == Spec => RanksOnlyRise
<1> DEFINE Rise == \A n \in Author : \A p \in DOMAIN manifest[n] :
                       /\ p \in DOMAIN manifest'[n]
                       /\ RanksUpTo(manifest[n][p], manifest'[n][p])
<1>1. Typed /\ [Next]_vars => Rise
    <2> SUFFICES ASSUME Typed, [Next]_vars,
                        NEW o \in Author, NEW q \in DOMAIN manifest[o]
                 PROVE  /\ q \in DOMAIN manifest'[o]
                        /\ RanksUpTo(manifest[o][q], manifest'[o][q])
        OBVIOUS
    <2>1. manifest[o] \in Manifests
        BY DEF Typed
    <2>2. CASE manifest'[o] = manifest[o]
        <3>1. manifest[o][q] \in Entry
            BY <2>1, ManifestsUse
        <3> QED
            BY <2>2, <3>1, RanksReflexive
    <2>3. CASE \E p \in Path, e \in Entry : manifest'[o] = Apply(manifest[o], p, e)
        BY <2>1, <2>3, ApplyRaises
    <2>4. CASE UNCHANGED <<manifest, seen>>
        BY <2>2, <2>4
    <2>5. CASE \E n \in Author, p \in Path, e \in Entry : ApplyAt(n, p, e)
        BY <2>2, <2>3, <2>5, ApplyAtEffect
    <2> QED
        BY <2>4, <2>5, StepApplies
<1>2. Typed /\ [Next]_vars => [Rise]_vars
    BY <1>1
<1> HIDE DEF Rise
<1>3. Spec => [][Rise]_vars
    BY <1>2, InitTyped, NextTyped, PTL DEF Spec
<1> QED
    BY <1>3 DEF RanksOnlyRise, Rise

------------------------------------------------------------------------------
LEMMA CopyOfItself ==
    ASSUME NEW p \in Path, NEW e \in Entry
    PROVE  CopyOf(p, p, e)
<1>1. Len(p) \in Nat
    BY DEF Path
<1> QED
    BY <1>1 DEF CopyOf

\* The conflict path of a copy is a copy.
LEMMA CopyOfCopy ==
    ASSUME NEW p \in Path, NEW q \in Path, NEW e \in Entry, CopyOf(q, p, e)
    PROVE  CopyOf(ConflictPath(q, e), p, e)
<1> DEFINE c == ConflictPath(q, e)
<1>1. p \in Seq(Name \cup ShortId) /\ q \in Seq(Name \cup ShortId)
    BY DEF Path
<1>2. Short[e.author_pubkey] \in Name \cup ShortId
    BY DEF Entry, ShortId
<1>3. Len(p) \in Nat /\ Len(q) \in Nat /\ Len(p) <= Len(q)
    BY <1>1 DEF CopyOf
<1>4. /\ Len(c) = Len(q) + 1
      /\ c[Len(q) + 1] = Short[e.author_pubkey]
      /\ \A i \in 1 .. Len(q) : c[i] = q[i]
    BY <1>1, <1>2 DEF ConflictPath
<1> HIDE DEF c
<1>5. ASSUME NEW i \in 1 .. Len(c)
      PROVE  c[i] = IF i <= Len(p) THEN p[i] ELSE Short[e.author_pubkey]
    <2>1. CASE i \in 1 .. Len(q)
        BY <1>4, <2>1 DEF CopyOf
    <2>2. CASE i = Len(q) + 1
        BY <1>3, <1>4, <2>2
    <2> QED
        BY <1>3, <1>4, <2>1, <2>2
<1> QED
    BY <1>3, <1>4, <1>5 DEF CopyOf, c

LEMMA StepKeepsGiven ==
    Typed /\ EntriesWereGiven /\ [Next]_vars => EntriesWereGiven'
<1> SUFFICES ASSUME Typed, EntriesWereGiven, [Next]_vars
             PROVE  EntriesWereGiven'
    OBVIOUS
<1>1. CASE UNCHANGED <<manifest, seen>>
    BY <1>1 DEF EntriesWereGiven
<1>2. ASSUME NEW n \in Author, NEW p \in Path, NEW e \in Entry, ApplyAt(n, p, e)
      PROVE  EntriesWereGiven'
    <2> SUFFICES ASSUME NEW o \in Author, NEW q \in DOMAIN manifest'[o]
                 PROVE  \E s \in seen'[o] :
                            s.entry = manifest'[o][q] /\ CopyOf(q, s.path, s.entry)
        BY DEF EntriesWereGiven
    <2> DEFINE m == manifest[o]
               new == [path |-> p, entry |-> e]
    <2>1. m \in Manifests
        BY DEF Typed
    <2>2. ASSUME NEW r \in DOMAIN m
          PROVE  \E s \in seen[o] : s.entry = m[r] /\ CopyOf(r, s.path, s.entry)
        BY DEF EntriesWereGiven
    <2>3. CASE m = manifest'[o] /\ seen'[o] = seen[o]
        BY <2>2, <2>3
    <2>4. CASE manifest'[o] = Apply(m, p, e) /\ seen'[o] = seen[o] \cup {new}
        <3>1. q \in DOMAIN Apply(m, p, e)
            BY <2>4
        <3>2. \/ q \in DOMAIN m /\ Apply(m, p, e)[q] = m[q]
              \/ q = p /\ Apply(m, p, e)[q] = e
              \/ q = ConflictPath(p, e) /\ Apply(m, p, e)[q] = e
              \/ /\ p \in DOMAIN m
                 /\ q = ConflictPath(p, m[p]) /\ Apply(m, p, e)[q] = m[p]
            BY <2>1, <3>1, ApplyOrigin
        <3>3. CASE q \in DOMAIN m /\ Apply(m, p, e)[q] = m[q]
            BY <2>2, <2>4, <3>3
        <3>4. CASE Apply(m, p, e)[q] = e /\ (q = p \/ q = ConflictPath(p, e))
            <4>1. new \in seen'[o] /\ new.path = p /\ new.entry = e
                BY <2>4
            <4>2. CopyOf(q, p, e)
                BY <3>4, CopyOfItself, CopyOfCopy
            <4> QED
                BY <2>4, <3>4, <4>1, <4>2
        <3>5. CASE /\ p \in DOMAIN m
                   /\ q = ConflictPath(p, m[p]) /\ Apply(m, p, e)[q] = m[p]
            <4>1. PICK s \in seen[o] : s.entry = m[p] /\ CopyOf(p, s.path, s.entry)
                BY <2>2, <3>5
            <4>2. s.path \in Path /\ s.entry \in Entry
                BY SeenType
            <4>3. CopyOf(q, s.path, s.entry)
                BY <3>5, <4>1, <4>2, CopyOfCopy
            <4> QED
                BY <2>4, <3>5, <4>1, <4>3
        <3> QED
            BY <3>2, <3>3, <3>4, <3>5
    <2> QED
        BY <1>2, <2>3, <2>4, ApplyAtEffect
<1> QED
    BY <1>1, <1>2, StepApplies

LEMMA InitGiven == Init => EntriesWereGiven
BY EmptyManifestType DEF Init, EntriesWereGiven

\* A replica makes up no entry and no path.
THEOREM NothingMadeUp == Spec => []EntriesWereGiven
<1>1. Init => Typed /\ EntriesWereGiven
    BY InitTyped, InitGiven
<1>2. Typed /\ EntriesWereGiven /\ [Next]_vars => (Typed /\ EntriesWereGiven)'
    BY NextTyped, StepKeepsGiven
<1> QED
    BY <1>1, <1>2, PTL DEF Spec

\* A path of one element is a copy of itself only.
LEMMA FileIsNoCopy ==
    ASSUME NEW p \in Path, NEW q \in Path, NEW e, Len(p) = 1, CopyOf(p, q, e)
    PROVE  q = p
<1>1. q \in Seq(Name \cup ShortId) /\ q # <<>> /\ p \in Seq(Name \cup ShortId)
    BY DEF Path
<1>2. Len(q) \in Nat /\ Len(q) # 0 /\ Len(q) <= 1
    BY <1>1 DEF CopyOf
<1>3. Len(q) = 1
    BY <1>2, \A k \in Nat : k # 0 /\ k <= 1 => k = 1, Zenon
<1>4. p[1] = q[1]
    BY <1>3 DEF CopyOf
<1> QED
    BY <1>1, <1>3, <1>4

\* For a file proper the entry held was given for that very file ...
LEMMA HeldWasGiven ==
    ASSUME Typed, EntriesWereGiven, NEW n \in Author, NEW p \in DOMAIN manifest[n],
           Len(p) = 1
    PROVE  \E s \in Given(n, p) : s.entry = manifest[n][p]
<1>1. PICK s \in seen[n] : s.entry = manifest[n][p] /\ CopyOf(p, s.path, s.entry)
    BY DEF EntriesWereGiven
<1>2. s.path \in Path /\ p \in Path
    BY SeenType, ManifestsUse DEF Typed
<1>3. s.path = p
    BY <1>1, <1>2, FileIsNoCopy
<1> QED
    BY <1>1, <1>3 DEF Given

\* ... so replicas given the same for it hold equals, whatever the order.
THEOREM OrderIrrelevant == Spec => []OrderDoesNotMatter
<1>1. Typed /\ NothingSeenOutranks /\ EntriesWereGiven => OrderDoesNotMatter
    <2> SUFFICES ASSUME Typed, NothingSeenOutranks, EntriesWereGiven,
                        NEW n \in Author, NEW o \in Author, NEW t \in seen[n],
                        Len(t.path) = 1, is_safe_relative_path(t.path),
                        Given(n, t.path) = Given(o, t.path)
                 PROVE  RanksUpTo(manifest[n][t.path], manifest[o][t.path])
        BY DEF OrderDoesNotMatter
    <2>1. t.path \in DOMAIN manifest[n]
        BY DEF NothingSeenOutranks
    <2>2. PICK s \in Given(n, t.path) : s.entry = manifest[n][t.path]
        BY <2>1, HeldWasGiven
    <2>3. s \in seen[o] /\ s.path = t.path
        BY <2>2 DEF Given
    <2>4. RanksUpTo(s.entry, manifest[o][t.path])
        BY <2>3 DEF NothingSeenOutranks
    <2> QED
        BY <2>2, <2>4
<1> QED
    BY <1>1, TypedAlways, NothingOutranks, NothingMadeUp, PTL

------------------------------------------------------------------------------
\* Of an applied entry and the one its path holds afterwards, one is made a
\* conflict path for if they tie.
LEMMA TiedIncoming ==
    ASSUME NEW m \in Manifests, NEW p \in Path, NEW e \in Entry,
           is_safe_relative_path(p), Tied(Apply(m, p, e)[p], e)
    PROVE  ConflictPath(p, e) \in DOMAIN Apply(m, p, e)
<1>1. CASE Apply(m, p, e) = Insert(m, p, e)
    BY <1>1, InsertType DEF Tied
<1>2. CASE p \in DOMAIN m /\ Apply(m, p, e) = ApplyTie(m, p, e)
    BY <1>2, TieOutcome DEF Tied
<1>3. CASE p \in DOMAIN m /\ ~Tied(m[p], e) /\ Apply(m, p, e) = m
    BY <1>3
<1> QED
    BY <1>1, <1>2, <1>3, ApplyCases

\* An older entry d for r, not above what r holds, keeps its conflict path
\* and, if the apply made r hold an entry that ties with d, gets one.
LEMMA TiedOlder ==
    ASSUME NEW m \in Manifests, NEW p \in Path, NEW e \in Entry,
           NEW r \in DOMAIN m, NEW d \in Entry,
           RanksUpTo(d, m[r]),
           Tied(m[r], d) => ConflictPath(r, d) \in DOMAIN m,
           Tied(Apply(m, p, e)[r], d)
    PROVE  ConflictPath(r, d) \in DOMAIN Apply(m, p, e)
<1>1. \A q \in DOMAIN m : q \in DOMAIN Apply(m, p, e)
    BY ApplyRaises
<1>2. m[r] \in Entry
    BY ManifestsUse
<1>3. CASE Apply(m, p, e)[r] = m[r]
    BY <1>1, <1>3
<1>4. CASE ApplyInserts(m, p, e) /\ Apply(m, p, e) = Insert(m, p, e)
    <2>1. CASE r # p
        BY <1>3, <1>4, <2>1, InsertType
    <2>2. CASE r = p
        <3>1. HlcBefore(m[p].hlc, e.hlc) /\ d.hlc = e.hlc
            BY <1>4, <2>2, InsertType DEF ApplyInserts, Tied
        <3>2. HlcUpTo(d.hlc, m[p].hlc)
            BY <2>2 DEF RanksUpTo, HlcUpTo
        <3>3. d.hlc \in Hlc /\ m[p].hlc \in Hlc /\ e.hlc \in Hlc
            BY <1>2, <2>2 DEF Entry
        <3>4. HlcBefore(d.hlc, e.hlc)
            BY <3>1, <3>2, <3>3, HlcBeforeTransitive
        <3> QED
            BY <3>1, <3>3, <3>4, HlcTotal
    <2> QED
        BY <2>1, <2>2
<1>5. CASE p \in DOMAIN m /\ Tied(m[p], e) /\ Apply(m, p, e) = ApplyTie(m, p, e)
    <2>1. CASE r # p
        BY <1>3, <1>5, <2>1, TieOutcome
    <2>2. CASE r = p
        <3>1. \/ Winner(m[p], e) = e /\ Loser(m[p], e) = m[p]
              \/ Winner(m[p], e) = m[p] /\ Loser(m[p], e) = e
            BY <1>5, TieOutcome
        <3>2. /\ Apply(m, p, e)[p] = Winner(m[p], e)
              /\ ConflictPath(p, Loser(m[p], e)) \in DOMAIN Apply(m, p, e)
            BY <1>5, TieOutcome
        <3>3. CASE Winner(m[p], e) = m[p]
            BY <1>3, <2>2, <3>2, <3>3
        <3>4. CASE Winner(m[p], e) = e /\ Loser(m[p], e) = m[p]
            <4>1. m[p].hlc = d.hlc
                BY <1>5, <2>2, <3>2, <3>4 DEF Tied
            <4>2. CASE m[p] = d
                BY <2>2, <3>2, <3>4, <4>2
            <4>3. CASE m[p] # d
                BY <1>1, <2>2, <4>1, <4>3 DEF Tied
            <4> QED
                BY <4>2, <4>3
        <3> QED
            BY <3>1, <3>3, <3>4
    <2> QED
        BY <2>1, <2>2
<1>6. CASE Apply(m, p, e) = m
    BY <1>3, <1>6
<1> QED
    BY <1>4, <1>5, <1>6, ApplyCases

LEMMA StepKeepsConflictPaths ==
    /\ Typed /\ NothingSeenOutranks /\ TiedLoserHasConflictPath /\ [Next]_vars
    => TiedLoserHasConflictPath'
<1> SUFFICES ASSUME Typed, NothingSeenOutranks, TiedLoserHasConflictPath, [Next]_vars
             PROVE  TiedLoserHasConflictPath'
    OBVIOUS
<1>1. CASE UNCHANGED <<manifest, seen>>
    BY <1>1 DEF TiedLoserHasConflictPath
<1>2. ASSUME NEW n \in Author, NEW p \in Path, NEW e \in Entry, ApplyAt(n, p, e)
      PROVE  TiedLoserHasConflictPath'
    <2> SUFFICES ASSUME NEW o \in Author, NEW s \in seen'[o],
                        is_safe_relative_path(s.path),
                        Tied(manifest'[o][s.path], s.entry)
                 PROVE  ConflictPath(s.path, s.entry) \in DOMAIN manifest'[o]
        BY DEF TiedLoserHasConflictPath
    <2> DEFINE m == manifest[o]
    <2>1. m \in Manifests
        BY DEF Typed
    <2>2. ASSUME s \in seen[o]
          PROVE  /\ s.path \in DOMAIN m
                 /\ s.entry \in Entry
                 /\ RanksUpTo(s.entry, m[s.path])
                 /\ Tied(m[s.path], s.entry) => ConflictPath(s.path, s.entry) \in DOMAIN m
        BY <2>2, SeenType DEF NothingSeenOutranks, TiedLoserHasConflictPath
    <2>3. CASE manifest'[o] = m /\ seen'[o] = seen[o]
        BY <2>2, <2>3
    <2>4. CASE /\ manifest'[o] = Apply(m, p, e)
               /\ seen'[o] = seen[o] \cup {[path |-> p, entry |-> e]}
        <3>1. CASE s \in seen[o]
            BY <2>1, <2>2, <2>4, <3>1, TiedOlder
        <3>2. CASE s = [path |-> p, entry |-> e]
            <4>1. s.path = p /\ s.entry = e
                BY <3>2
            <4> QED
                BY <2>1, <2>4, <4>1, TiedIncoming
        <3> QED
            BY <2>4, <3>1, <3>2
    <2> QED
        BY <1>2, <2>3, <2>4, ApplyAtEffect
<1> QED
    BY <1>1, <1>2, StepApplies

\* The loser of a tie for the top always had a conflict path made for it.
THEOREM LosersHaveConflictPaths == Spec => []TiedLoserHasConflictPath
<1>1. Init => Typed /\ NothingSeenOutranks /\ TiedLoserHasConflictPath
    BY InitTyped DEF Init, NothingSeenOutranks, TiedLoserHasConflictPath
<1>2. /\ Typed /\ NothingSeenOutranks /\ TiedLoserHasConflictPath /\ [Next]_vars
      => (Typed /\ NothingSeenOutranks /\ TiedLoserHasConflictPath)'
    BY NextTyped, ApplyKeepsNothingOutranks, StepKeepsConflictPaths
<1> QED
    BY <1>1, <1>2, PTL DEF Spec

------------------------------------------------------------------------------
\* The files proper under an apply: another path's file stays, and no file
\* comes from anywhere but the path itself.
LEMMA FilesUnderApply ==
    ASSUME NEW m \in Manifests, NEW p \in Path, NEW e \in Entry,
           NEW q, q # p, IsFile(q)
    PROVE  /\ q \in DOMAIN Apply(m, p, e) <=> q \in DOMAIN m
           /\ q \in DOMAIN m => Apply(m, p, e)[q] = m[q]
<1>1. q \in DOMAIN m => q \in DOMAIN Apply(m, p, e)
    BY ApplyRaises
<1>2. ASSUME q \in DOMAIN Apply(m, p, e)
      PROVE  q \in DOMAIN m /\ Apply(m, p, e)[q] = m[q]
    <2>1. ASSUME NEW f \in Entry
          PROVE  q # ConflictPath(p, f)
        <3>1. p \in Seq(Name \cup ShortId) /\ p # <<>>
            BY DEF Path
        <3>2. Len(p) \in Nat /\ Len(p) # 0 /\ Len(ConflictPath(p, f)) = Len(p) + 1
            BY <3>1 DEF ConflictPath
        <3>3. Len(ConflictPath(p, f)) # 1
            BY <3>2
        <3> QED
            BY <3>3 DEF IsFile
    <2>2. p \in DOMAIN m => m[p] \in Entry
        BY ManifestsUse
    <2> QED
        BY <1>2, <2>1, <2>2, ApplyOrigin
<1> QED
    BY <1>1, <1>2

\* An apply to a file gives the register of that replica one pair ...
LEMMA ApplyGives ==
    ASSUME Typed, NothingSeenOutranks', EntriesWereGiven', Typed',
           NEW n \in Author, NEW p \in Path, NEW e \in Entry,
           ApplyAt(n, p, e), IsFile(p)
    PROVE  <<p, e>> \in FilesGiven'[n] /\ Register!Give(n, <<p, e>>)
<1> DEFINE m == manifest[n]
           k == Apply(m, p, e)
<1>1. m \in Manifests
    BY DEF Typed
<1>2. /\ manifest'[n] = k
      /\ seen'[n] = seen[n] \cup {[path |-> p, entry |-> e]}
      /\ \A o \in Author \ {n} : manifest'[o] = manifest[o] /\ seen'[o] = seen[o]
    BY DEF ApplyAt, Typed
<1>3. FilesGiven' = [FilesGiven EXCEPT ![n] = @ \cup {<<p, e>>}]
    <2>1. FilesGiven'[n] = FilesGiven[n] \cup {<<p, e>>}
        <3>1. \A x : x \in FilesGiven[n] <=>
                  \E t \in seen[n] : IsFile(t.path) /\ x = <<t.path, t.entry>>
            BY DEF FilesGiven
        <3>2. \A x : x \in FilesGiven'[n] <=>
                  \E t \in seen'[n] : IsFile(t.path) /\ x = <<t.path, t.entry>>
            BY DEF FilesGiven
        <3>3. ASSUME NEW x
              PROVE  (\E t \in seen'[n] : IsFile(t.path) /\ x = <<t.path, t.entry>>)
                     <=> \/ \E t \in seen[n] : IsFile(t.path) /\ x = <<t.path, t.entry>>
                         \/ x = <<p, e>>
            <4> DEFINE s == [path |-> p, entry |-> e]
            <4>1. s.path = p /\ s.entry = e
                OBVIOUS
            <4>2. seen'[n] = seen[n] \cup {s}
                BY <1>2
            <4> HIDE DEF s
            <4> QED
                BY <4>1, <4>2
        <3>4. \A x : x \in FilesGiven'[n] <=> x \in FilesGiven[n] \cup {<<p, e>>}
            BY <3>1, <3>2, <3>3
        <3> QED
            BY <3>4, Zenon
    <2>2. \A o \in Author \ {n} : FilesGiven'[o] = FilesGiven[o]
        BY <1>2 DEF FilesGiven
    <2> QED
        BY <2>1, <2>2 DEF FilesGiven
<1>4. \A o \in Author \ {n} : FilesHeld'[o] = FilesHeld[o]
    BY <1>2 DEF FilesHeld
<1>5. p \in DOMAIN k
    BY <1>1, ApplyCovers DEF IsFile
<1>6. DOMAIN FilesHeld'[n] = DOMAIN FilesHeld[n] \cup {p}
    <2>1. /\ DOMAIN FilesHeld'[n] = {q \in DOMAIN k : IsFile(q)}
          /\ DOMAIN FilesHeld[n] = {q \in DOMAIN m : IsFile(q)}
        BY <1>2 DEF FilesHeld
    <2> QED
        BY <1>1, <1>5, <2>1, FilesUnderApply
<1>7. \A q \in DOMAIN FilesHeld[n] \ {p} : FilesHeld'[n][q] = FilesHeld[n][q]
    <2> SUFFICES ASSUME NEW q \in DOMAIN m, IsFile(q), q # p
                 PROVE  FilesHeld'[n][q] = FilesHeld[n][q]
        BY DEF FilesHeld
    <2>1. q \in DOMAIN k /\ k[q] = m[q]
        BY <1>1, FilesUnderApply
    <2> QED
        BY <1>2, <2>1 DEF FilesHeld
<1>8. FilesHeld'[n][p] = k[p]
    BY <1>2, <1>5 DEF FilesHeld
<1>9. <<p, k[p]>> \in FilesGiven'[n]
    <2>1. PICK s \in seen'[n] : s.entry = manifest'[n][p] /\ CopyOf(p, s.path, s.entry)
        BY <1>2, <1>5 DEF EntriesWereGiven
    <2>2. s.path \in Path
        BY <2>1 DEF Typed
    <2>3. s.path = p
        BY <2>1, <2>2, FileIsNoCopy DEF IsFile
    <2> QED
        BY <1>2, <2>1, <2>3 DEF FilesGiven
<1>10. \A g \in FilesGiven'[n] : g[1] = p => ~EntryOutranks(g[2], k[p])
    <2> SUFFICES ASSUME NEW s \in seen'[n], s.path = p
                 PROVE  ~EntryOutranks(s.entry, k[p])
        BY DEF FilesGiven
    <2>1. RanksUpTo(s.entry, k[p])
        BY <1>2 DEF NothingSeenOutranks, IsFile
    <2> QED
        BY <2>1 DEF EntryOutranks
<1>11. <<p, e>> \in FilesGiven'[n]
    BY <1>3 DEF FilesGiven
<1>12. Register!Give(n, <<p, e>>)
    BY <1>3, <1>4, <1>6, <1>7, <1>8, <1>9, <1>10 DEF Register!Give
<1> QED
    BY <1>11, <1>12

\* ... and one to any other path leaves the registers as they are.
LEMMA ApplyStutters ==
    ASSUME Typed, NEW n \in Author, NEW p \in Path, NEW e \in Entry,
           ApplyAt(n, p, e), ~IsFile(p)
    PROVE  UNCHANGED <<FilesHeld, FilesGiven>>
<1> DEFINE m == manifest[n]
           k == Apply(m, p, e)
<1>1. m \in Manifests
    BY DEF Typed
<1>2. /\ manifest'[n] = k
      /\ seen'[n] = seen[n] \cup {[path |-> p, entry |-> e]}
      /\ \A o \in Author \ {n} : manifest'[o] = manifest[o] /\ seen'[o] = seen[o]
    BY DEF ApplyAt, Typed
<1>3. FilesGiven'[n] = FilesGiven[n]
    BY <1>2 DEF FilesGiven
<1>4. FilesHeld'[n] = FilesHeld[n]
    <2>1. \A q : IsFile(q) => /\ q \in DOMAIN k <=> q \in DOMAIN m
                              /\ q \in DOMAIN m => k[q] = m[q]
        BY <1>1, FilesUnderApply
    <2> HIDE DEF k
    <2>2. {q \in DOMAIN k : IsFile(q)} = {q \in DOMAIN m : IsFile(q)}
        BY <2>1
    <2>3. [q \in {r \in DOMAIN k : IsFile(r)} |-> k[q]] = [q \in {r \in DOMAIN m : IsFile(r)} |-> m[q]]
        BY <2>1, <2>2
    <2> QED
        BY <1>2, <2>3 DEF FilesHeld
<1>5. \A o \in Author : FilesHeld'[o] = FilesHeld[o] /\ FilesGiven'[o] = FilesGiven[o]
    BY <1>2, <1>3, <1>4 DEF FilesHeld, FilesGiven
<1> QED
    BY <1>5 DEF FilesHeld, FilesGiven

\* Each file of each replica is a last-writer-wins register.
THEOREM ReplicasImplementRegisters == Spec => FilesAreRegisters
<1> DEFINE Inv == Typed /\ NothingSeenOutranks /\ EntriesWereGiven
<1>1. Init => Register!Init
    BY EmptyManifestType DEF Init, Register!Init, FilesHeld, FilesGiven
<1>2. Inv /\ Inv' /\ [Next]_vars => [Register!Next]_<<FilesHeld, FilesGiven>>
    <2> SUFFICES ASSUME Inv, Inv', [Next]_vars
                 PROVE  Register!Next \/ UNCHANGED <<FilesHeld, FilesGiven>>
        OBVIOUS
    <2>1. CASE UNCHANGED <<manifest, seen>>
        BY <2>1 DEF FilesHeld, FilesGiven
    <2>2. ASSUME NEW n \in Author, NEW p \in Path, NEW e \in Entry, ApplyAt(n, p, e)
          PROVE  Register!Next \/ UNCHANGED <<FilesHeld, FilesGiven>>
        BY <2>2, ApplyGives, ApplyStutters DEF Register!Next
    <2> QED
        BY <2>1, <2>2, StepApplies
<1>3. Spec => []Inv
    BY TypedAlways, NothingOutranks, NothingMadeUp, PTL
<1> HIDE DEF Inv
<1>4. Spec => Register!Spec
    BY <1>1, <1>2, <1>3, PTL DEF Spec, Register!Spec
<1> QED
    BY <1>4 DEF FilesAreRegisters
------------------------------------------------------------------------------
\* Conflict copies have no copies: when no two agents share a short id, a path
\* a replica holds is one the users write, or the conflict path of such a path
\* for the very entry in it.  (With a shared short id a copy may tie with a
\* copy, and the paths grow without bound by gossip alone.)

\* The paths the users write.
DraftPaths == UNION {{d.path : d \in Draft[n]} : n \in Author}

CopiesOnce(m) ==
    \A p \in DOMAIN m :
        p \in DraftPaths \/ \E q \in DraftPaths : p = ConflictPath(q, m[p])

\* A replica holds the entry, or has it in the snapshot it merges.
Around(e) ==
    \E n \in Author :
        \/ \E p \in DOMAIN manifest[n] : manifest[n][p] = e
        \/ \E p \in DOMAIN inbox[n] : inbox[n][p] = e

\* An author's stamps name its entries: no entry that is around is above the
\* clock of its author, and no two of one author carry one stamp.
StampsName ==
    /\ \A e \in Entry : Around(e) => HlcUpTo(e.hlc, clock[e.author_pubkey])
    /\ \A e, f \in Entry :
           Around(e) /\ Around(f) /\ e.author_pubkey = f.author_pubkey /\ e.hlc = f.hlc
           => e = f

LEMMA DraftPathsType == DraftPaths \subseteq Path
BY ReplicasAssumption DEF DraftPaths

\* What is around after an apply was around, or is the entry applied.
LEMMA ApplyBringsNothing ==
    ASSUME Typed, NEW n \in Author, NEW p \in Path, NEW e \in Entry,
           ApplyAt(n, p, e), UNCHANGED inbox, NEW f \in Entry, Around(f)'
    PROVE  Around(f) \/ f = e
<1>1. PICK o \in Author :
          \/ \E q \in DOMAIN manifest'[o] : manifest'[o][q] = f
          \/ \E q \in DOMAIN inbox'[o] : inbox'[o][q] = f
    BY DEF Around
<1>2. CASE \E q \in DOMAIN inbox'[o] : inbox'[o][q] = f
    BY <1>2 DEF Around
<1>3. CASE \E q \in DOMAIN manifest'[o] : manifest'[o][q] = f
    <2>1. PICK q \in DOMAIN manifest'[o] : manifest'[o][q] = f
        BY <1>3
    <2>2. CASE manifest'[o] = manifest[o]
        BY <2>1, <2>2 DEF Around
    <2>3. CASE manifest'[o] = Apply(manifest[o], p, e)
        <3>1. manifest[o] \in Manifests
            BY DEF Typed
        <3> QED
            BY <2>1, <2>3, <3>1, ApplyOrigin DEF Around
    <2> QED
        BY <2>2, <2>3, ApplyAtEffect
<1> QED
    BY <1>1, <1>2, <1>3

LEMMA StepKeepsStampsName ==
    Typed /\ StampsName /\ [Next]_vars => StampsName'
<1> SUFFICES ASSUME Typed, StampsName, [Next]_vars
             PROVE  StampsName'
    OBVIOUS
<1>1. ASSUME NEW n \in Author, NEW draft \in Draft[n], NEW wall \in Wall,
             Write(n, draft, wall)
      PROVE  StampsName'
    <2> DEFINE new == Authored(n, draft, Tick(clock[n], wall))
    <2>1. /\ new \in Entry /\ draft.path \in Path
          /\ new.author_pubkey = n /\ new.hlc = Tick(clock[n], wall)
          /\ Tick(clock[n], wall) \in Hlc /\ clock[n] \in Hlc
        BY AuthoredType DEF Authored, Typed
    <2>2. HlcBefore(clock[n], Tick(clock[n], wall))
        BY <1>1, <2>1, ReplicasAssumption, TickRaises DEF Write
    <2>3. \A f \in Entry : Around(f)' => Around(f) \/ f = new
        BY <1>1, <2>1, ApplyBringsNothing DEF Write
    <2>4. /\ clock'[n] = Tick(clock[n], wall)
          /\ \A o \in Author \ {n} : clock'[o] = clock[o]
        BY <1>1 DEF Write, Typed
    <2>5. \A f \in Entry : Around(f) /\ f.author_pubkey = n => HlcBefore(f.hlc, new.hlc)
        <3> SUFFICES ASSUME NEW f \in Entry, Around(f), f.author_pubkey = n
                     PROVE  HlcBefore(f.hlc, new.hlc)
            OBVIOUS
        <3>1. HlcUpTo(f.hlc, clock[n]) /\ f.hlc \in Hlc
            BY DEF StampsName, Entry
        <3> QED
            BY <2>1, <2>2, <3>1, HlcBeforeTransitive
    <2>6. \A f \in Entry : Around(f)' => HlcUpTo(f.hlc, clock'[f.author_pubkey])
        <3> SUFFICES ASSUME NEW f \in Entry, Around(f)'
                     PROVE  HlcUpTo(f.hlc, clock'[f.author_pubkey])
            OBVIOUS
        <3>1. CASE f = new
            BY <2>1, <2>4, <3>1 DEF HlcUpTo
        <3>2. CASE Around(f) /\ f.author_pubkey = n
            BY <2>1, <2>4, <2>5, <3>2 DEF HlcUpTo
        <3>3. CASE Around(f) /\ f.author_pubkey # n
            BY <2>4, <3>3 DEF StampsName, Entry
        <3> QED
            BY <2>3, <3>1, <3>2, <3>3
    <2>7. \A f \in Entry : Around(f) /\ f.author_pubkey = n => f.hlc # new.hlc
        BY <2>1, <2>5, HlcTotal DEF Entry
    <2>8. \A f, g \in Entry :
              Around(f)' /\ Around(g)' /\ f.author_pubkey = g.author_pubkey /\ f.hlc = g.hlc
              => f = g
        BY <2>1, <2>3, <2>7 DEF StampsName
    <2> QED
        BY <2>6, <2>8 DEF StampsName
<1>2. ASSUME clock' = clock, \A f \in Entry : Around(f)' => Around(f)
      PROVE  StampsName'
    BY <1>2 DEF StampsName
<1>3. ASSUME NEW n \in Author, NEW o \in Author \ {n}, Fetch(n, o)
      PROVE  StampsName'
    <2>1. \A f \in Entry : Around(f)' => Around(f)
        BY <1>3 DEF Fetch, Around, Typed
    <2> QED
        BY <1>2, <1>3, <2>1 DEF Fetch
<1>4. ASSUME NEW n \in Author, MergeOne(n)
      PROVE  StampsName'
    <2>1. PICK p \in todo[n] : ApplyAt(n, p, inbox[n][p])
        BY <1>4 DEF MergeOne
    <2>2. p \in Path /\ inbox[n][p] \in Entry /\ p \in DOMAIN inbox[n]
        BY MergedType DEF Typed
    <2>3. Around(inbox[n][p])
        BY <2>2 DEF Around
    <2>4. \A f \in Entry : Around(f)' => Around(f)
        BY <1>4, <2>1, <2>2, <2>3, ApplyBringsNothing DEF MergeOne
    <2> QED
        BY <1>2, <1>4, <2>4 DEF MergeOne
<1>5. CASE UNCHANGED vars
    <2>1. \A f \in Entry : Around(f)' => Around(f)
        BY <1>5 DEF vars, Around
    <2> QED
        BY <1>2, <1>5, <2>1 DEF vars
<1> QED
    BY <1>1, <1>3, <1>4, <1>5 DEF Next

\* Two conflict paths are one only for entries of one author.
LEMMA CopiesOfOneAuthor ==
    ASSUME \A a, b \in Author : Short[a] = Short[b] => a = b,
           NEW q \in Path, NEW r \in Path, NEW e \in Entry, NEW f \in Entry,
           ConflictPath(q, e) = ConflictPath(r, f)
    PROVE  e.author_pubkey = f.author_pubkey
<1>1. /\ q \in Seq(Name \cup ShortId) /\ r \in Seq(Name \cup ShortId)
      /\ e.author_pubkey \in Author /\ f.author_pubkey \in Author
    BY DEF Path, Entry
<1>2. ConflictPath(q, e)[Len(q) + 1] = Short[e.author_pubkey] /\ Len(ConflictPath(q, e)) = Len(q) + 1
    BY <1>1 DEF ConflictPath, ShortId
<1>3. ConflictPath(r, f)[Len(r) + 1] = Short[f.author_pubkey] /\ Len(ConflictPath(r, f)) = Len(r) + 1
    BY <1>1 DEF ConflictPath, ShortId
<1>4. Len(q) = Len(r)
    BY <1>1, <1>2, <1>3
<1> QED
    BY <1>1, <1>2, <1>3, <1>4

LEMMA ApplyCopiesOnce ==
    ASSUME \A a, b \in Author : Short[a] = Short[b] => a = b,
           NEW m \in Manifests, NEW p \in Path, NEW e \in Entry,
           CopiesOnce(m),
           p \in DraftPaths \/ \E q \in DraftPaths : p = ConflictPath(q, e),
           p \notin DraftPaths /\ p \in DOMAIN m /\ Tied(m[p], e) =>
               m[p].author_pubkey # e.author_pubkey
    PROVE  CopiesOnce(Apply(m, p, e))
<1> SUFFICES ASSUME NEW r \in DOMAIN Apply(m, p, e)
             PROVE  \/ r \in DraftPaths
                    \/ \E q \in DraftPaths : r = ConflictPath(q, Apply(m, p, e)[r])
    BY DEF CopiesOnce
<1>1. CASE r \in DOMAIN m /\ Apply(m, p, e)[r] = m[r]
    BY <1>1 DEF CopiesOnce
<1>2. CASE r = p /\ Apply(m, p, e)[r] = e
    BY <1>2
<1>3. CASE p \in DraftPaths
    BY <1>1, <1>3, ApplyOrigin
<1>4. CASE p \notin DraftPaths
    <2>1. ~(p \in DOMAIN m /\ Tied(m[p], e))
        <3> SUFFICES ASSUME p \in DOMAIN m, Tied(m[p], e)
                     PROVE  FALSE
            OBVIOUS
        <3>1. PICK q \in DraftPaths : p = ConflictPath(q, e)
            BY <1>4
        <3>2. PICK s \in DraftPaths : p = ConflictPath(s, m[p])
            BY <1>4 DEF CopiesOnce
        <3>3. m[p] \in Entry
            BY ManifestsUse
        <3>4. q \in Path /\ s \in Path
            BY DraftPathsType
        <3>5. m[p].author_pubkey = e.author_pubkey
            BY <3>1, <3>2, <3>3, <3>4, CopiesOfOneAuthor
        <3> QED
            BY <1>4, <3>5
    <2>2. Apply(m, p, e) = m \/ Apply(m, p, e) = Insert(m, p, e)
        BY <2>1, ApplyCases
    <2>3. CASE Apply(m, p, e) = m
        BY <1>1, <2>3
    <2>4. CASE Apply(m, p, e) = Insert(m, p, e)
        BY <1>1, <1>2, <2>4, InsertType
    <2> QED
        BY <2>2, <2>3, <2>4
<1> QED
    BY <1>3, <1>4

\* What a replica holds for a path the users do not write is the conflict copy
\* of what somebody wrote for one that they do.
CopiesHaveNoCopies == \A n \in Author : CopiesOnce(manifest[n])

\* ... and so are the snapshots it merges.
SnapshotsToo == \A n \in Author : CopiesOnce(inbox[n])

LEMMA StepCopiesOnce ==
    ASSUME \A a, b \in Author : Short[a] = Short[b] => a = b,
           Typed, StampsName, CopiesHaveNoCopies, SnapshotsToo, [Next]_vars
    PROVE  CopiesHaveNoCopies' /\ SnapshotsToo'
<1>1. ASSUME NEW n \in Author, NEW p \in Path, NEW e \in Entry, ApplyAt(n, p, e),
             p \in DraftPaths \/ (Around(e) /\ \E q \in DraftPaths : p = ConflictPath(q, e))
      PROVE  CopiesHaveNoCopies'
    <2> SUFFICES ASSUME NEW o \in Author
                 PROVE  CopiesOnce(manifest'[o])
        BY DEF CopiesHaveNoCopies, CopiesOnce
    <2>1. manifest[o] \in Manifests /\ CopiesOnce(manifest[o])
        BY DEF Typed, CopiesHaveNoCopies
    <2>2. ASSUME p \notin DraftPaths, p \in DOMAIN manifest[o], Tied(manifest[o][p], e)
          PROVE  manifest[o][p].author_pubkey # e.author_pubkey
        <3>1. Around(e) /\ Around(manifest[o][p]) /\ manifest[o][p] \in Entry
            BY <1>1, <2>1, <2>2, ManifestsUse DEF Around
        <3> QED
            BY <2>2, <3>1 DEF StampsName, Tied
    <2>3. CASE manifest'[o] = manifest[o]
        BY <2>1, <2>3
    <2>4. CASE manifest'[o] = Apply(manifest[o], p, e)
        BY <1>1, <2>1, <2>2, <2>4, ApplyCopiesOnce
    <2> QED
        BY <1>1, <2>3, <2>4, ApplyAtEffect
<1>2. ASSUME UNCHANGED inbox
      PROVE  SnapshotsToo'
    BY <1>2 DEF SnapshotsToo, CopiesOnce
<1>3. ASSUME UNCHANGED manifest
      PROVE  CopiesHaveNoCopies'
    BY <1>3 DEF CopiesHaveNoCopies, CopiesOnce
<1>4. ASSUME NEW n \in Author, NEW draft \in Draft[n], NEW wall \in Wall,
             Write(n, draft, wall)
      PROVE  CopiesHaveNoCopies' /\ SnapshotsToo'
    <2>1. draft.path \in DraftPaths
        BY DEF DraftPaths
    <2> QED
        BY <1>1, <1>2, <1>4, <2>1, AuthoredType DEF Write
<1>5. ASSUME NEW n \in Author, NEW o \in Author \ {n}, Fetch(n, o)
      PROVE  CopiesHaveNoCopies' /\ SnapshotsToo'
    <2>1. \A a \in Author : inbox'[a] \in {inbox[a], manifest[o]}
        BY <1>5 DEF Fetch, Typed
    <2>2. SnapshotsToo'
        BY <2>1 DEF CopiesHaveNoCopies, SnapshotsToo, CopiesOnce
    <2> QED
        BY <1>3, <1>5, <2>2 DEF Fetch
<1>6. ASSUME NEW n \in Author, MergeOne(n)
      PROVE  CopiesHaveNoCopies' /\ SnapshotsToo'
    <2>1. PICK p \in todo[n] : ApplyAt(n, p, inbox[n][p])
        BY <1>6 DEF MergeOne
    <2>2. p \in Path /\ inbox[n][p] \in Entry /\ p \in DOMAIN inbox[n]
        BY MergedType DEF Typed
    <2>3. Around(inbox[n][p])
        BY <2>2 DEF Around
    <2>4. p \in DraftPaths \/ \E q \in DraftPaths : p = ConflictPath(q, inbox[n][p])
        BY <2>2 DEF SnapshotsToo, CopiesOnce
    <2> QED
        BY <1>1, <1>2, <1>6, <2>1, <2>2, <2>3, <2>4 DEF MergeOne
<1> QED
    BY <1>2, <1>3, <1>4, <1>5, <1>6 DEF Next, vars

\* While no two agents share a short id, a manifest grows only with the paths
\* users write: beside those it holds at most one copy of each per author,
\* with an entry of that author, and no gossip makes a copy of a copy.
THEOREM CopiesStayCopies ==
    ASSUME \A a, b \in Author : Short[a] = Short[b] => a = b
    PROVE  Spec => []CopiesHaveNoCopies
<1>1. Init => Typed /\ StampsName /\ CopiesHaveNoCopies /\ SnapshotsToo
    <2> SUFFICES ASSUME Init
                 PROVE  StampsName /\ CopiesHaveNoCopies /\ SnapshotsToo
        BY InitTyped
    <2>1. \A n \in Author : DOMAIN manifest[n] = {} /\ DOMAIN inbox[n] = {}
        BY EmptyManifestType DEF Init
    <2> QED
        BY <2>1 DEF StampsName, Around, CopiesHaveNoCopies, SnapshotsToo, CopiesOnce
<1>2. /\ Typed /\ StampsName /\ CopiesHaveNoCopies /\ SnapshotsToo /\ [Next]_vars
      => (Typed /\ StampsName /\ CopiesHaveNoCopies /\ SnapshotsToo)'
    BY NextTyped, StepKeepsStampsName, StepCopiesOnce
<1> QED
    BY <1>1, <1>2, PTL DEF Spec
==============================================================================
