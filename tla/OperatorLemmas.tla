--------------------------- MODULE OperatorLemmas ---------------------------
(* What the operators of module Hlc do, for every counter width and every     *)
(* wall-clock reading, and what Manifest::apply does to one manifest, for     *)
(* every set of names, authors and contents.                                  *)
EXTENDS Manifest, TLAPS

LEMMA BumpType ==
    ASSUME NEW l \in 0 .. LogicalModulus - 1
    PROVE  Bump(l) \in 0 .. LogicalModulus - 1
BY LogicalModulusAssumption, SMT DEF Bump

LEMMA BumpWithRoom ==
    ASSUME NEW l \in 0 .. LogicalModulus - 1, RoomToBump(l)
    PROVE  Bump(l) = l + 1
BY LogicalModulusAssumption, SMT DEF Bump, RoomToBump

LEMMA ZeroType == HlcZero \in Hlc
BY LogicalModulusAssumption DEF HlcZero, Hlc

LEMMA TickType ==
    ASSUME NEW c \in Hlc, NEW wall \in Nat
    PROVE  Tick(c, wall) \in Hlc
BY BumpType, LogicalModulusAssumption DEF Tick, Hlc

LEMMA ObserveType ==
    ASSUME NEW c \in Hlc, NEW r \in Hlc, NEW wall \in Nat
    PROVE  Observe(c, r, wall) \in Hlc
<1> DEFINE top == Later(wall, Later(c.physical_ms, r.physical_ms))
<1>1. top \in Nat
    BY DEF Later, Hlc
<1>2. Later(c.logical, r.logical) \in 0 .. LogicalModulus - 1
    BY DEF Later, Hlc
<1>3. /\ Bump(Later(c.logical, r.logical)) \in 0 .. LogicalModulus - 1
      /\ Bump(c.logical) \in 0 .. LogicalModulus - 1
      /\ Bump(r.logical) \in 0 .. LogicalModulus - 1
      /\ 0 \in 0 .. LogicalModulus - 1
    BY <1>2, BumpType, LogicalModulusAssumption DEF Hlc
<1> QED
    BY <1>1, <1>3 DEF Observe, Hlc

\* Stamps are totally ordered: the derived Ord is a strict total order.
LEMMA HlcBeforeTransitive ==
    ASSUME NEW r \in Hlc, NEW s \in Hlc, NEW t \in Hlc,
           HlcUpTo(r, s), HlcBefore(s, t)
    PROVE  HlcBefore(r, t)
BY DEF HlcUpTo, HlcBefore, Hlc

LEMMA HlcTotal ==
    ASSUME NEW s \in Hlc, NEW t \in Hlc
    PROVE  /\ HlcBefore(s, t) \/ HlcBefore(t, s) \/ s = t
           /\ ~(HlcBefore(s, t) /\ HlcBefore(t, s))
           /\ ~HlcBefore(s, s)
BY DEF HlcBefore, Hlc

\* A tick raises the clock whatever the wall clock reads.
LEMMA TickRaises ==
    ASSUME NEW c \in Hlc, NEW wall \in Nat, RoomToBump(c.logical)
    PROVE  HlcBefore(c, Tick(c, wall))
<1>1. CASE wall > c.physical_ms
    BY <1>1 DEF Tick, HlcBefore, Hlc
<1>2. CASE ~(wall > c.physical_ms)
    <2>1. Bump(c.logical) = c.logical + 1
        BY BumpWithRoom DEF Hlc
    <2> QED
        BY <1>2, <2>1 DEF Tick, HlcBefore, Hlc
<1> QED
    BY <1>1, <1>2

\* An observe raises the clock above where it was and above what it observed.
LEMMA ObserveRaises ==
    ASSUME NEW c \in Hlc, NEW r \in Hlc, NEW wall \in Nat,
           RoomToBump(Later(c.logical, r.logical))
    PROVE  /\ HlcBefore(c, Observe(c, r, wall))
           /\ HlcBefore(r, Observe(c, r, wall))
<1> DEFINE top == Later(wall, Later(c.physical_ms, r.physical_ms))
           new == Observe(c, r, wall)
<1>1. /\ c.physical_ms \in Nat /\ r.physical_ms \in Nat /\ top \in Nat
      /\ c.logical \in Nat /\ r.logical \in Nat
      /\ c.physical_ms <= top /\ r.physical_ms <= top
    BY DEF Later, Hlc
<1>2. new.physical_ms = top
    BY DEF Observe
<1>3. /\ Bump(Later(c.logical, r.logical)) = Later(c.logical, r.logical) + 1
      /\ Bump(c.logical) = c.logical + 1
      /\ Bump(r.logical) = r.logical + 1
    <2>1. \A l \in {Later(c.logical, r.logical), c.logical, r.logical} :
              l \in 0 .. LogicalModulus - 1 /\ RoomToBump(l)
        BY LogicalModulusAssumption DEF Later, RoomToBump, Hlc
    <2> QED
        BY <2>1, BumpWithRoom
<1>4. CASE top = c.physical_ms /\ top = r.physical_ms
    <2>1. new.logical = Later(c.logical, r.logical) + 1
        BY <1>3, <1>4 DEF Observe
    <2> QED
        BY <1>1, <1>2, <1>4, <2>1 DEF HlcBefore, Later
<1>5. CASE top = c.physical_ms /\ top # r.physical_ms
    <2>1. new.logical = c.logical + 1
        BY <1>3, <1>5 DEF Observe
    <2> QED
        BY <1>1, <1>2, <1>5, <2>1 DEF HlcBefore
<1>6. CASE top # c.physical_ms /\ top = r.physical_ms
    <2>1. new.logical = r.logical + 1
        BY <1>3, <1>6 DEF Observe
    <2> QED
        BY <1>1, <1>2, <1>6, <2>1 DEF HlcBefore
<1>7. CASE top # c.physical_ms /\ top # r.physical_ms
    BY <1>1, <1>2, <1>7 DEF HlcBefore
<1> QED
    BY <1>4, <1>5, <1>6, <1>7

LEMMA ClockTakenFromAWallClock ==
    ASSUME NEW c \in Hlc, NEW r \in Hlc, NEW wall \in Nat, NEW top \in Nat,
           c.physical_ms <= top, r.physical_ms <= top
    PROVE  /\ Tick(c, wall).physical_ms <= Later(top, wall)
           /\ Observe(c, r, wall).physical_ms <= Later(top, wall)
BY DEF Tick, Observe, Later, Hlc
------------------------------------------------------------------------------
\* All manifests: a set, which is easier on the provers than a predicate.
Manifests == UNION {[D -> Entry] : D \in SUBSET Path}

LEMMA ManifestsType ==
    ASSUME NEW m
    PROVE  IsManifest(m) <=> m \in Manifests
<1>1. ASSUME IsManifest(m)
      PROVE  m \in Manifests
    <2>1. m \in [DOMAIN m -> Entry]
        BY <1>1 DEF IsManifest
    <2>2. DOMAIN m \in SUBSET Path
        BY <1>1 DEF IsManifest
    <2> QED
        BY <2>1, <2>2 DEF Manifests
<1>2. ASSUME m \in Manifests
      PROVE  IsManifest(m)
    <2>1. PICK D \in SUBSET Path : m \in [D -> Entry]
        BY <1>2 DEF Manifests
    <2> QED
        BY <2>1 DEF IsManifest
<1> QED
    BY <1>1, <1>2

LEMMA ManifestsUse ==
    ASSUME NEW m \in Manifests
    PROVE  /\ DOMAIN m \subseteq Path
           /\ \A p \in DOMAIN m : m[p] \in Entry
           /\ m = [p \in DOMAIN m |-> m[p]]
<1>1. PICK D \in SUBSET Path : m \in [D -> Entry]
    BY DEF Manifests
<1> QED
    BY <1>1

LEMMA EmptyManifestType == EmptyManifest \in Manifests /\ DOMAIN EmptyManifest = {}
<1>1. DOMAIN EmptyManifest = {} /\ EmptyManifest \in [{} -> Entry]
    BY DEF EmptyManifest
<1> QED
    BY <1>1 DEF Manifests

LEMMA InsertType ==
    ASSUME NEW m \in Manifests, NEW p \in Path, NEW e \in Entry
    PROVE  /\ Insert(m, p, e) \in Manifests
           /\ \A q : q \in DOMAIN Insert(m, p, e) <=> q \in DOMAIN m \/ q = p
           /\ Insert(m, p, e)[p] = e
           /\ \A q \in DOMAIN m : q # p => Insert(m, p, e)[q] = m[q]
<1> DEFINE D == DOMAIN m \cup {p}
<1>1. DOMAIN m \subseteq Path /\ \A q \in DOMAIN m : m[q] \in Entry
    BY ManifestsUse
<1>2. Insert(m, p, e) \in [D -> Entry] /\ D \in SUBSET Path
    BY <1>1 DEF Insert
<1>3. Insert(m, p, e) \in Manifests
    BY <1>2 DEF Manifests
<1> QED
    BY <1>3 DEF Insert

LEMMA OrInsertType ==
    ASSUME NEW m \in Manifests, NEW p \in Path, NEW e \in Entry
    PROVE  /\ OrInsert(m, p, e) \in Manifests
           /\ \A q : q \in DOMAIN OrInsert(m, p, e) <=> q \in DOMAIN m \/ q = p
           /\ p \notin DOMAIN m => OrInsert(m, p, e)[p] = e
           /\ \A q \in DOMAIN m : OrInsert(m, p, e)[q] = m[q]
<1>1. CASE p \in DOMAIN m
    <2>1. OrInsert(m, p, e) = m
        BY <1>1 DEF OrInsert
    <2> QED
        BY <1>1, <2>1
<1>2. CASE p \notin DOMAIN m
    <2>1. OrInsert(m, p, e) = Insert(m, p, e)
        BY <1>2 DEF OrInsert
    <2> QED
        BY <1>2, <2>1, InsertType
<1> QED
    BY <1>1, <1>2

\* A conflict path is a path, another one, and as safe as the original.
LEMMA ConflictPathType ==
    ASSUME NEW p \in Path, NEW e \in Entry
    PROVE  /\ ConflictPath(p, e) \in Path
           /\ ConflictPath(p, e) # p
           /\ is_safe_relative_path(ConflictPath(p, e)) = is_safe_relative_path(p)
<1>1. /\ p \in Seq(Name \cup ShortId)
      /\ p # <<>>
      /\ p[1] \in Name
      /\ Short[e.author_pubkey] \in Name \cup ShortId
    BY DEF Path, Entry, ShortId
<1>2. Len(p) \in Nat \ {0}
    BY <1>1
<1>3. /\ ConflictPath(p, e) \in Seq(Name \cup ShortId)
      /\ Len(ConflictPath(p, e)) = Len(p) + 1
      /\ ConflictPath(p, e)[1] = p[1]
    BY <1>1, <1>2 DEF ConflictPath
<1>4. ConflictPath(p, e) # p
    BY <1>2, <1>3
<1>5. ConflictPath(p, e) # <<>>
    BY <1>2, <1>3
<1> QED
    BY <1>1, <1>3, <1>4, <1>5 DEF Path, is_safe_relative_path

\* The four things apply may do.
ApplyInserts(m, p, e) ==
    \/ p \notin DOMAIN m
    \/ p \in DOMAIN m /\ HlcBefore(m[p].hlc, e.hlc)

LEMMA ApplyCases ==
    ASSUME NEW m, NEW p \in Path, NEW e \in Entry
    PROVE  \/ ~is_safe_relative_path(p) /\ Apply(m, p, e) = m
           \/ ApplyInserts(m, p, e) /\ Apply(m, p, e) = Insert(m, p, e)
           \/ /\ p \in DOMAIN m /\ ~HlcBefore(m[p].hlc, e.hlc)
              /\ Tied(m[p], e) /\ Apply(m, p, e) = ApplyTie(m, p, e)
           \/ /\ p \in DOMAIN m /\ ~HlcBefore(m[p].hlc, e.hlc)
              /\ ~Tied(m[p], e) /\ Apply(m, p, e) = m
BY DEF Apply, ApplyInserts

\* A tie: the path gets the entry of the greater content_key, the incoming one
\* when they are equal, and there is a conflict path for the other.
LEMMA TieOutcome ==
    ASSUME NEW m \in Manifests, NEW p \in DOMAIN m, NEW e \in Entry
    PROVE  /\ \/ Winner(m[p], e) = e /\ Loser(m[p], e) = m[p]
              \/ Winner(m[p], e) = m[p] /\ Loser(m[p], e) = e
           /\ content_key(m[p]) <= content_key(Winner(m[p], e))
           /\ content_key(e) <= content_key(Winner(m[p], e))
           /\ ApplyTie(m, p, e) \in Manifests
           /\ \A q : q \in DOMAIN ApplyTie(m, p, e) <=>
                      q \in DOMAIN m \/ q = ConflictPath(p, Loser(m[p], e))
           /\ ApplyTie(m, p, e)[p] = Winner(m[p], e)
           /\ \A q \in DOMAIN m : q # p => ApplyTie(m, p, e)[q] = m[q]
           /\ ConflictPath(p, Loser(m[p], e)) \notin DOMAIN m =>
                  ApplyTie(m, p, e)[ConflictPath(p, Loser(m[p], e))] = Loser(m[p], e)
<1> DEFINE w == Winner(m[p], e)
           l == Loser(m[p], e)
           n == Insert(m, p, w)
           c == ConflictPath(p, l)
<1>1. p \in Path /\ m[p] \in Entry
    BY ManifestsUse
<1>2. /\ (w = e /\ l = m[p]) \/ (w = m[p] /\ l = e)
      /\ w \in Entry /\ l \in Entry
    BY <1>1 DEF Winner, Loser
<1>3. content_key(m[p]) \in Nat /\ content_key(e) \in Nat
    BY <1>1, ContentAssumption DEF content_key, Entry
<1>4. content_key(m[p]) <= content_key(w) /\ content_key(e) <= content_key(w)
    BY <1>3 DEF Winner, Loser
<1>5. /\ n \in Manifests
      /\ \A q : q \in DOMAIN n <=> q \in DOMAIN m
      /\ n[p] = w
      /\ \A q \in DOMAIN m : q # p => n[q] = m[q]
    BY <1>1, <1>2, InsertType
<1>6. c \in Path /\ c # p
    BY <1>1, <1>2, ConflictPathType
<1>7. ApplyTie(m, p, e) = OrInsert(n, c, l)
    BY DEF ApplyTie
<1>8. /\ OrInsert(n, c, l) \in Manifests
      /\ \A q : q \in DOMAIN OrInsert(n, c, l) <=> q \in DOMAIN n \/ q = c
      /\ c \notin DOMAIN n => OrInsert(n, c, l)[c] = l
      /\ \A q \in DOMAIN n : OrInsert(n, c, l)[q] = n[q]
    BY <1>2, <1>5, <1>6, OrInsertType
<1> QED
    BY <1>2, <1>4, <1>5, <1>6, <1>7, <1>8

LEMMA RanksReflexive ==
    ASSUME NEW e \in Entry
    PROVE  RanksUpTo(e, e)
BY ContentAssumption DEF RanksUpTo, content_key, Entry

LEMMA RanksTransitive ==
    ASSUME NEW e \in Entry, NEW f \in Entry, NEW g \in Entry,
           RanksUpTo(e, f), RanksUpTo(f, g)
    PROVE  RanksUpTo(e, g)
<1>1. /\ e.hlc \in Hlc /\ f.hlc \in Hlc /\ g.hlc \in Hlc
      /\ content_key(e) \in Nat /\ content_key(f) \in Nat /\ content_key(g) \in Nat
    BY ContentAssumption DEF content_key, Entry
<1>2. CASE e.hlc = f.hlc
    BY <1>1, <1>2 DEF RanksUpTo
<1>3. CASE HlcBefore(e.hlc, f.hlc)
    <2>1. CASE f.hlc = g.hlc
        BY <1>3, <2>1 DEF RanksUpTo
    <2>2. CASE HlcBefore(f.hlc, g.hlc)
        BY <1>1, <1>3, <2>2, HlcBeforeTransitive DEF HlcUpTo, RanksUpTo
    <2> QED
        BY <2>1, <2>2 DEF RanksUpTo
<1> QED
    BY <1>2, <1>3 DEF RanksUpTo

LEMMA ApplyType ==
    ASSUME NEW m \in Manifests, NEW p \in Path, NEW e \in Entry
    PROVE  Apply(m, p, e) \in Manifests
<1>1. Insert(m, p, e) \in Manifests
    BY InsertType
<1>2. p \in DOMAIN m => ApplyTie(m, p, e) \in Manifests
    BY TieOutcome
<1> QED
    BY <1>1, <1>2, ApplyCases

\* Apply forgets no path, and what a path holds only rises.
LEMMA ApplyRaises ==
    ASSUME NEW m \in Manifests, NEW p \in Path, NEW e \in Entry,
           NEW q \in DOMAIN m
    PROVE  /\ q \in DOMAIN Apply(m, p, e)
           /\ RanksUpTo(m[q], Apply(m, p, e)[q])
<1>1. m[q] \in Entry
    BY ManifestsUse
<1>2. RanksUpTo(m[q], m[q])
    BY <1>1, RanksReflexive
<1>3. CASE Apply(m, p, e) = m
    BY <1>2, <1>3
<1>4. CASE ApplyInserts(m, p, e) /\ Apply(m, p, e) = Insert(m, p, e)
    BY <1>2, <1>4, InsertType DEF ApplyInserts, RanksUpTo
<1>5. CASE p \in DOMAIN m /\ Tied(m[p], e) /\ Apply(m, p, e) = ApplyTie(m, p, e)
    <2>1. CASE q # p
        BY <1>2, <1>5, <2>1, TieOutcome
    <2>2. CASE q = p
        <3>1. /\ Winner(m[p], e).hlc = e.hlc
              /\ content_key(m[p]) <= content_key(Winner(m[p], e))
              /\ content_key(e) <= content_key(Winner(m[p], e))
              /\ Apply(m, p, e)[p] = Winner(m[p], e)
              /\ p \in DOMAIN Apply(m, p, e)
            BY <1>5, TieOutcome DEF Tied
        <3>2. m[p].hlc = e.hlc
            BY <1>5 DEF Tied
        <3> QED
            BY <1>2, <2>2, <3>1, <3>2 DEF RanksUpTo
    <2> QED
        BY <2>1, <2>2
<1> QED
    BY <1>3, <1>4, <1>5, ApplyCases

\* After apply, the path holds an entry that the incoming one does not outrank.
LEMMA ApplyCovers ==
    ASSUME NEW m \in Manifests, NEW p \in Path, NEW e \in Entry,
           is_safe_relative_path(p)
    PROVE  /\ p \in DOMAIN Apply(m, p, e)
           /\ RanksUpTo(e, Apply(m, p, e)[p])
<1>1. RanksUpTo(e, e)
    BY RanksReflexive
<1>2. CASE ApplyInserts(m, p, e) /\ Apply(m, p, e) = Insert(m, p, e)
    BY <1>1, <1>2, InsertType
<1>3. CASE p \in DOMAIN m /\ Tied(m[p], e) /\ Apply(m, p, e) = ApplyTie(m, p, e)
    <2>1. /\ Winner(m[p], e).hlc = e.hlc
          /\ content_key(m[p]) <= content_key(Winner(m[p], e))
          /\ content_key(e) <= content_key(Winner(m[p], e))
          /\ Apply(m, p, e)[p] = Winner(m[p], e)
          /\ p \in DOMAIN Apply(m, p, e)
        BY <1>3, TieOutcome DEF Tied
    <2>2. m[p].hlc = e.hlc
        BY <1>3 DEF Tied
    <2> QED
        BY <1>1, <2>1, <2>2 DEF RanksUpTo
<1>4. CASE /\ p \in DOMAIN m /\ ~HlcBefore(m[p].hlc, e.hlc)
           /\ ~Tied(m[p], e) /\ Apply(m, p, e) = m
    <2>1. m[p].hlc \in Hlc /\ e.hlc \in Hlc
        BY <1>4, ManifestsUse DEF Entry
    <2>2. m[p] = e \/ HlcBefore(e.hlc, m[p].hlc)
        BY <1>4, <2>1, HlcTotal DEF Tied
    <2> QED
        BY <1>1, <1>4, <2>2 DEF RanksUpTo
<1> QED
    BY <1>2, <1>3, <1>4, ApplyCases

\* Where an entry in the result comes from.
LEMMA ApplyOrigin ==
    ASSUME NEW m \in Manifests, NEW p \in Path, NEW e \in Entry,
           NEW q \in DOMAIN Apply(m, p, e)
    PROVE  \/ q \in DOMAIN m /\ Apply(m, p, e)[q] = m[q]
           \/ q = p /\ Apply(m, p, e)[q] = e
           \/ q = ConflictPath(p, e) /\ Apply(m, p, e)[q] = e
           \/ /\ p \in DOMAIN m
              /\ q = ConflictPath(p, m[p]) /\ Apply(m, p, e)[q] = m[p]
<1>1. CASE Apply(m, p, e) = m
    BY <1>1
<1>2. CASE Apply(m, p, e) = Insert(m, p, e)
    BY <1>2, InsertType
<1>3. CASE p \in DOMAIN m /\ Apply(m, p, e) = ApplyTie(m, p, e)
    BY <1>3, TieOutcome
<1> QED
    BY <1>1, <1>2, <1>3, ApplyCases
==============================================================================
