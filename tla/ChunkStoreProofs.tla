-------------------------- MODULE ChunkStoreProofs --------------------------
(* The chunk store's safety for any agents, any peers to dial, any files, any *)
(* size of a message and any number of failures.                              *)
EXTENDS ChunkStore, TLAPS

State == {"short", "whole"}

LEMMA ChunkFilesAre ==
    ASSUME NEW f
    PROVE  f \in ChunkFiles <=> DOMAIN f \subseteq Hash /\ f \in [DOMAIN f -> State]
BY DEF ChunkFiles, State

LEMMA WithType ==
    ASSUME NEW f \in ChunkFiles, NEW h \in Hash, NEW state \in State
    PROVE  With(f, h, state) \in ChunkFiles
BY ChunkFilesAre DEF With

LEMMA WithoutIs ==
    ASSUME NEW f \in ChunkFiles, NEW h
    PROVE  /\ Without(f, h) \in ChunkFiles
           /\ DOMAIN Without(f, h) = DOMAIN f \ {h}
           /\ \A k \in DOMAIN f \ {h} : Without(f, h)[k] = f[k]
BY ChunkFilesAre DEF Without

LEMMA NoChunksType == NoChunks \in ChunkFiles /\ DOMAIN NoChunks = {}
BY ChunkFilesAre DEF NoChunks, State

LEMMA MainRecords ==
    /\ Idle.at = "idle"
    /\ \A l, o, e : /\ Storing(l, o, e).at = "storing" /\ Storing(l, o, e).left = l
                    /\ Storing(l, o, e).open = o /\ Storing(l, o, e).entry = e
    /\ \A p, q, r : /\ Waiting(p, q, r).at = "waiting" /\ Waiting(p, q, r).peer = p
                    /\ Waiting(p, q, r).asked = q /\ Waiting(p, q, r).answer = r
BY DEF Idle, Storing, Waiting

------------------------------------------------------------------------------
\* What the proofs use of a main thread: its record is one of the three.
IsStoring(m, left, open, entry) ==
    /\ m = Storing(left, open, entry)
    /\ left \in ChunkFiles /\ open \subseteq DOMAIN left
    /\ entry \in {{}} \cup UNION {Files[a] : a \in Agent}
    /\ \A h, k \in open : h = k

IsWaiting(m, peer, asked, answer) ==
    /\ m = Waiting(peer, asked, answer)
    /\ peer \in Agent /\ asked \subseteq Hash /\ answer \in ChunkFiles

Doing(m) ==
    \/ m = Idle
    \/ IsStoring(m, m.left, m.open, m.entry)
    \/ IsWaiting(m, m.peer, m.asked, m.answer)

Typed ==
    /\ file \in [Agent -> ChunkFiles]
    /\ names \in [Agent -> SUBSET Hash]
    /\ main = [a \in Agent |-> main[a]] /\ \A a \in Agent : Doing(main[a])
    /\ copied \in [Agent -> SUBSET [file : SUBSET Hash, whole : BOOLEAN]]
    /\ fails \in 0 .. MaxFail /\ scans \in 0 .. MaxScans
    /\ cut \in BOOLEAN

LEMMA StoringIsMain ==
    ASSUME NEW l, NEW o, NEW e, IsStoring(Storing(l, o, e), l, o, e)
    PROVE  Doing(Storing(l, o, e))
BY MainRecords DEF Doing

LEMMA WaitingIsMain ==
    ASSUME NEW p, NEW q, NEW r, IsWaiting(Waiting(p, q, r), p, q, r)
    PROVE  Doing(Waiting(p, q, r))
BY MainRecords DEF Doing

LEMMA DoingStores ==
    ASSUME NEW m, Doing(m), m.at = "storing"
    PROVE  IsStoring(m, m.left, m.open, m.entry)
BY MainRecords DEF Doing, IsWaiting

LEMMA DoingWaits ==
    ASSUME NEW m, Doing(m), m.at = "waiting"
    PROVE  IsWaiting(m, m.peer, m.asked, m.answer)
BY MainRecords DEF Doing, IsStoring

LEMMA WritingIs ==
    ASSUME Typed, NEW a \in Agent, NEW h, Writing(a, h)
    PROVE  /\ IsStoring(main[a], main[a].left, main[a].open, main[a].entry)
           /\ main[a].open = {h} /\ h \in DOMAIN main[a].left /\ h \in Hash
           /\ \A k : Writing(a, k) => k = h
<1>1. IsStoring(main[a], main[a].left, main[a].open, main[a].entry)
    BY DoingStores DEF Typed, Writing
<1> QED
    BY <1>1, ChunkFilesAre DEF IsStoring, Writing

LEMMA TypedType == Typed => TypeOK
<1> SUFFICES ASSUME Typed PROVE TypeOK
    OBVIOUS
<1>1. ASSUME NEW a \in Agent PROVE IsMain(main[a])
    BY MainRecords DEF Typed, Doing, IsMain, IsStoring, IsWaiting
<1>2. \A a \in Agent : \A h, k \in Hash : Writing(a, h) /\ Writing(a, k) => h = k
    BY WritingIs
<1> QED
    BY <1>1, <1>2 DEF Typed, TypeOK

\* Only a moves its main thread, and it moves it to one of the three.
LEMMA MainMoves ==
    ASSUME Typed, NEW a \in Agent, NEW m, Doing(m), main' = [main EXCEPT ![a] = m]
    PROVE  /\ main' = [b \in Agent |-> main'[b]]
           /\ \A b \in Agent : Doing(main'[b])
           /\ main'[a] = m /\ \A b \in Agent \ {a} : main'[b] = main[b]
BY DEF Typed

------------------------------------------------------------------------------
\* What the steps of a main thread that stores make of its record.

LEMMA WriteEffect ==
    ASSUME Typed, NEW a \in Agent, Write(a)
    PROVE  \E l, e : \E h \in DOMAIN l :
               /\ IsStoring(main[a], l, {}, e) /\ h \in Hash
               /\ \/ /\ Has(a, h) /\ UNCHANGED file
                     /\ main' = [main EXCEPT ![a] = Storing(Without(l, h), {}, e)]
                  \/ /\ ~Has(a, h)
                     /\ file' = [file EXCEPT ![a] = With(file[a], h, "short")]
                     /\ main' = [main EXCEPT ![a] = Storing(l, {h}, e)]
               /\ UNCHANGED <<names, copied, fails, scans, cut>>
<1> DEFINE l == main[a].left
           e == main[a].entry
<1>1. IsStoring(main[a], l, {}, e) /\ main[a].open = {}
    BY DoingStores DEF Typed, Write
<1>2. PICK h \in DOMAIN l :
          \/ /\ Has(a, h) /\ UNCHANGED file
             /\ main' = [main EXCEPT ![a] = Storing(Without(l, h), {}, e)]
          \/ /\ ~Has(a, h) /\ file' = [file EXCEPT ![a] = With(file[a], h, "short")]
             /\ main' = [main EXCEPT ![a] = Storing(l, {h}, e)]
    BY DEF Write, Typed
<1>3. h \in Hash
    BY <1>1, ChunkFilesAre DEF IsStoring
<1> HIDE DEF l, e
<1> QED
    BY <1>1, <1>2, <1>3 DEF Write

LEMMA WrittenEffect ==
    ASSUME Typed, NEW a \in Agent, Written(a)
    PROVE  \E l, e : \E h \in DOMAIN l :
               /\ IsStoring(main[a], l, {h}, e) /\ h \in Hash
               /\ file' = [file EXCEPT ![a] = With(file[a], h, l[h])]
               /\ main' = [main EXCEPT ![a] = Storing(Without(l, h), {}, e)]
               /\ UNCHANGED <<names, copied, fails, scans, cut>>
<1> DEFINE l == main[a].left
           e == main[a].entry
<1>1. PICK h \in DOMAIN l :
          /\ Writing(a, h) /\ file' = [file EXCEPT ![a] = With(file[a], h, l[h])]
          /\ main' = [main EXCEPT ![a] = Storing(Without(l, h), {}, e)]
    BY DEF Written, Typed
<1>2. IsStoring(main[a], l, {h}, e) /\ h \in Hash
    BY <1>1, WritingIs
<1> HIDE DEF l, e
<1> QED
    BY <1>1, <1>2 DEF Written

LEMMA StoredEffect ==
    ASSUME Typed, NEW a \in Agent, Stored(a)
    PROVE  /\ \A h : ~Writing(a, h)
           /\ main[a].entry \in {{}} \cup UNION {Files[b] : b \in Agent}
<1>1. IsStoring(main[a], main[a].left, main[a].open, main[a].entry)
    BY DoingStores DEF Typed, Stored
<1> QED
    BY <1>1 DEF IsStoring, Writing, Stored

LEMMA ServeEffect ==
    ASSUME Typed, NEW a \in Agent, Serve(a)
    PROVE  \E b \in Agent, asked \in SUBSET Hash, answer \in ChunkFiles : \E h \in asked :
               /\ main[a] = Waiting(b, asked, answer)
               /\ main' = [main EXCEPT ![a] =
                      Waiting(b, asked \ {h},
                              IF Has(b, h) THEN With(answer, h, file[b][h]) ELSE answer)]
               /\ cut' = (cut \/ Writing(b, h))
               /\ UNCHANGED <<file, names, copied, fails, scans>>
<1> DEFINE b == main[a].peer
           asked == main[a].asked
           answer == main[a].answer
<1>1. IsWaiting(main[a], b, asked, answer)
    BY DoingWaits DEF Typed, Serve
<1>2. a \in DOMAIN main
    BY DEF Typed
<1>3. PICK h \in asked :
          /\ main' = [main EXCEPT ![a] = Waiting(b, asked \ {h},
                         IF Has(b, h) THEN With(answer, h, file[b][h]) ELSE answer)]
          /\ cut' = (cut \/ Writing(b, h))
    BY <1>2 DEF Serve
<1> HIDE DEF b, asked, answer
<1> QED
    BY <1>1, <1>3 DEF IsWaiting, Serve

------------------------------------------------------------------------------
LEMMA InitTyped == Init => Typed
<1> SUFFICES ASSUME Init PROVE Typed
    OBVIOUS
<1>1. \A a \in Agent : Doing(main[a])
    BY DEF Init, Doing
<1>2. fails \in 0 .. MaxFail /\ scans \in 0 .. MaxScans
    BY ChunkStoreAssumption DEF Init
<1> QED
    BY <1>1, <1>2, NoChunksType DEF Init, Typed

LEMMA FilesType ==
    ASSUME NEW a \in Agent, NEW f \in Files[a]
    PROVE  f \subseteq Hash /\ f \in UNION {Files[b] : b \in Agent}
BY ChunkStoreAssumption

\* A step that leaves the counts and copies alone keeps the types if what it
\* makes of a main thread is one of the three.
LEMMA TypedIf ==
    ASSUME Typed, NEW a \in Agent, NEW m, Doing(m), main' = [main EXCEPT ![a] = m],
           file' \in [Agent -> ChunkFiles], names' \in [Agent -> SUBSET Hash],
           copied' = copied, fails' \in 0 .. MaxFail, scans' \in 0 .. MaxScans,
           cut' \in BOOLEAN
    PROVE  Typed'
BY MainMoves DEF Typed

LEMMA TypedStep ==
    ASSUME Typed, [Next]_vars
    PROVE  Typed'
<1>1. CASE UNCHANGED vars
    BY <1>1 DEF vars, Typed
<1>2. CASE Next
    <2> PICK a \in Agent :
            \/ Scan(a) \/ Storage(a) \/ Materialize(a) \/ GiveUp(a)
            \/ Answering(a) \/ \E b \in Peers[a] : Exchange(a, b)
        BY <1>2 DEF Next
    <2>0. /\ MaxFail \in Nat /\ MaxScans \in Nat /\ Peers \in [Agent -> SUBSET Agent]
          /\ fails \in 0 .. MaxFail /\ scans \in 0 .. MaxScans /\ cut \in BOOLEAN
          /\ file \in [Agent -> ChunkFiles] /\ names \in [Agent -> SUBSET Hash]
          /\ Doing(Idle)
        BY ChunkStoreAssumption DEF Typed, Doing
    <2>1. CASE Scan(a)
        <3>1. PICK f \in Files[a] :
                  main' = [main EXCEPT ![a] = Storing([h \in f |-> "whole"], {}, f)]
            BY <2>1 DEF Scan
        <3>2. f \subseteq Hash /\ f \in UNION {Files[b] : b \in Agent}
            BY FilesType
        <3>3. [h \in f |-> "whole"] \in ChunkFiles
            BY <3>2, ChunkFilesAre DEF State
        <3>4. Doing(Storing([h \in f |-> "whole"], {}, f))
            BY <3>2, <3>3, StoringIsMain DEF IsStoring
        <3>5. scans' \in 0 .. MaxScans
            BY <2>0, <2>1 DEF Scan
        <3> QED
            BY <2>0, <2>1, <3>1, <3>4, <3>5, TypedIf DEF Scan
    <2>2. CASE Write(a)
        <3>1. PICK l, e : \E h \in DOMAIN l :
                  /\ IsStoring(main[a], l, {}, e) /\ h \in Hash
                  /\ \/ /\ Has(a, h) /\ UNCHANGED file
                        /\ main' = [main EXCEPT ![a] = Storing(Without(l, h), {}, e)]
                     \/ /\ ~Has(a, h)
                        /\ file' = [file EXCEPT ![a] = With(file[a], h, "short")]
                        /\ main' = [main EXCEPT ![a] = Storing(l, {h}, e)]
                  /\ UNCHANGED <<names, copied, fails, scans, cut>>
            BY <2>2, WriteEffect
        <3>2. PICK h \in DOMAIN l :
                  /\ h \in Hash
                  /\ \/ /\ UNCHANGED file
                        /\ main' = [main EXCEPT ![a] = Storing(Without(l, h), {}, e)]
                     \/ /\ file' = [file EXCEPT ![a] = With(file[a], h, "short")]
                        /\ main' = [main EXCEPT ![a] = Storing(l, {h}, e)]
            BY <3>1
        <3>3. Doing(Storing(Without(l, h), {}, e)) /\ Doing(Storing(l, {h}, e))
            BY <3>1, <3>2, WithoutIs, StoringIsMain DEF IsStoring
        <3>4. file' \in [Agent -> ChunkFiles]
            BY <2>0, <3>2, WithType DEF State
        <3> QED
            BY <2>0, <3>1, <3>2, <3>3, <3>4, TypedIf
    <2>3. CASE Written(a)
        <3>1. PICK l, e : \E h \in DOMAIN l :
                  /\ IsStoring(main[a], l, {h}, e) /\ h \in Hash
                  /\ file' = [file EXCEPT ![a] = With(file[a], h, l[h])]
                  /\ main' = [main EXCEPT ![a] = Storing(Without(l, h), {}, e)]
                  /\ UNCHANGED <<names, copied, fails, scans, cut>>
            BY <2>3, WrittenEffect
        <3>2. PICK h \in DOMAIN l :
                  /\ IsStoring(main[a], l, {h}, e) /\ h \in Hash
                  /\ file' = [file EXCEPT ![a] = With(file[a], h, l[h])]
                  /\ main' = [main EXCEPT ![a] = Storing(Without(l, h), {}, e)]
            BY <3>1
        <3>3. Doing(Storing(Without(l, h), {}, e)) /\ l[h] \in State
            BY <3>2, WithoutIs, StoringIsMain, ChunkFilesAre DEF IsStoring
        <3>4. file' \in [Agent -> ChunkFiles]
            BY <2>0, <3>2, <3>3, WithType
        <3> QED
            BY <2>0, <3>1, <3>2, <3>3, <3>4, TypedIf
    <2>4. CASE Stored(a)
        <3>1. main[a].entry \subseteq Hash
            BY <2>4, StoredEffect, FilesType
        <3>2. names' \in [Agent -> SUBSET Hash]
            BY <2>0, <2>4, <3>1 DEF Stored
        <3> QED
            BY <2>0, <2>4, <3>2, TypedIf DEF Stored
    <2>5. CASE Materialize(a)
        <3>1. PICK f \in UNION {Files[b] : b \in Agent} :
                  copied' = [copied EXCEPT ![a] = @ \cup
                      {[file |-> f, whole |-> \A h \in f : file[a][h] = "whole"]}]
            BY <2>5 DEF Materialize
        <3>2. f \in SUBSET Hash
            BY FilesType
        <3> DEFINE copy == [file |-> f, whole |-> \A h \in f : file[a][h] = "whole"]
        <3>3. copy \in [file : SUBSET Hash, whole : BOOLEAN]
            BY <3>2
        <3> HIDE DEF copy
        <3>4. copied' \in [Agent -> SUBSET [file : SUBSET Hash, whole : BOOLEAN]]
            <4>1. copied' = [copied EXCEPT ![a] = copied[a] \cup {copy}]
                BY <3>1 DEF Typed, copy
            <4> QED
                BY <3>3, <4>1 DEF Typed
        <3> QED
            BY <2>5, <3>4 DEF Typed, Materialize
    <2>6. CASE GiveUp(a)
        <3>1. fails' \in 0 .. MaxFail
            BY <2>0, <2>6 DEF GiveUp
        <3>2. cut' \in BOOLEAN
            BY <2>6 DEF GiveUp
        <3> QED
            BY <2>0, <2>6, <3>1, <3>2, TypedIf DEF GiveUp
    <2>7. CASE Serve(a)
        <3>1. PICK b \in Agent, asked \in SUBSET Hash, answer \in ChunkFiles :
                  \E h \in asked :
                      /\ main[a] = Waiting(b, asked, answer)
                      /\ main' = [main EXCEPT ![a] =
                             Waiting(b, asked \ {h},
                                     IF Has(b, h) THEN With(answer, h, file[b][h]) ELSE answer)]
                      /\ cut' = (cut \/ Writing(b, h))
                      /\ UNCHANGED <<file, names, copied, fails, scans>>
            BY <2>7, ServeEffect
        <3>2. PICK h \in asked :
                  /\ main' = [main EXCEPT ![a] =
                         Waiting(b, asked \ {h},
                                 IF Has(b, h) THEN With(answer, h, file[b][h]) ELSE answer)]
                  /\ cut' = (cut \/ Writing(b, h))
            BY <3>1
        <3>3. Has(b, h) => With(answer, h, file[b][h]) \in ChunkFiles
            BY <2>0, ChunkFilesAre, WithType DEF Has
        <3>4. Doing(Waiting(b, asked \ {h},
                            IF Has(b, h) THEN With(answer, h, file[b][h]) ELSE answer))
            BY <3>3, WaitingIsMain DEF IsWaiting
        <3>5. cut' \in BOOLEAN
            BY <3>2
        <3> QED
            BY <2>0, <3>1, <3>2, <3>4, <3>5, TypedIf
    <2>8. CASE Receive(a)
        <3>1. IsWaiting(main[a], main[a].peer, main[a].asked, main[a].answer)
            BY <2>8, DoingWaits DEF Typed, Receive, Answered
        <3>2. Doing(Storing(main[a].answer, {}, {}))
            BY <3>1, StoringIsMain DEF IsStoring, IsWaiting
        <3>3. main' = [main EXCEPT ![a] = Storing(main[a].answer, {}, {})]
            BY <2>8 DEF Receive, Typed
        <3> QED
            BY <2>0, <2>8, <3>2, <3>3, TypedIf DEF Receive
    <2>9. CASE Refuse(a)
        BY <2>0, <2>9, TypedIf DEF Refuse
    <2>10. ASSUME NEW b \in Peers[a], Exchange(a, b)
           PROVE  Typed'
        <3>1. b \in Agent
            BY <2>0
        <3>2. Missing(a, b) \subseteq Hash
            BY <2>0, <3>1 DEF Missing
        <3>3. Doing(Waiting(b, Missing(a, b), NoChunks))
            BY <3>1, <3>2, NoChunksType, WaitingIsMain DEF IsWaiting
        <3>4. names' \in [Agent -> SUBSET Hash]
            BY <2>0, <2>10, <3>1 DEF Exchange
        <3> QED
            BY <2>0, <2>10, <3>3, <3>4, TypedIf DEF Exchange
    <2> QED
        BY <2>1, <2>2, <2>3, <2>4, <2>5, <2>6, <2>7, <2>8, <2>9, <2>10
        DEF Storage, Answering
<1> QED
    BY <1>1, <1>2

LEMMA AlwaysTyped == Spec => []Typed
BY InitTyped, TypedStep, PTL DEF Spec

\* Every variable of the chunk stores keeps its type, and no agent ever has
\* two chunk files open for writing.
THEOREM StoresTyped == Spec => []TypeOK
BY AlwaysTyped, TypedType, PTL

------------------------------------------------------------------------------
\* Until a write is cut off or overlapped by a read, all that is at rest, in an
\* answer or about to be stored is whole.
AllWhole ==
    /\ \A a \in Agent : \A h \in Hash : AtRest(a, h) => file[a][h] = "whole"
    /\ \A a \in Agent : \A c \in copied[a] : c.whole
    /\ \A a \in Agent : main[a].at = "waiting" =>
           \A h \in DOMAIN main[a].answer : main[a].answer[h] = "whole"
    /\ \A a \in Agent : main[a].at = "storing" =>
           \A h \in DOMAIN main[a].left : main[a].left[h] = "whole"

\* What one main thread's record contributes.
WholeIn(m) ==
    /\ m.at = "waiting" => \A h \in DOMAIN m.answer : m.answer[h] = "whole"
    /\ m.at = "storing" => \A h \in DOMAIN m.left : m.left[h] = "whole"

LEMMA WholeIfMain ==
    ASSUME Typed, AllWhole, NEW a \in Agent, NEW m, WholeIn(m),
           main' = [main EXCEPT ![a] = m], file' = file, copied' = copied,
           \A h \in Hash : AtRest(a, h) \/ ~Has(a, h)
    PROVE  AllWhole'
<1>1. main'[a] = m /\ \A b \in Agent \ {a} : main'[b] = main[b]
    BY DEF Typed
<1>2. ASSUME NEW b \in Agent, NEW h \in Hash, AtRest(b, h)'
      PROVE  file'[b][h] = "whole"
    <2>1. AtRest(b, h)
        BY <1>1, <1>2 DEF AtRest, Writing, Has
    <2> QED
        BY <2>1 DEF AllWhole
<1> QED
    BY <1>1, <1>2 DEF AllWhole, WholeIn

\* Nothing is being written where the main thread is at something else.
LEMMA NotWriting ==
    ASSUME NEW a, main[a].at # "storing"
    PROVE  \A h : ~Writing(a, h)
BY DEF Writing

\* A chunk that is being written aside, a step of a storing thread leaves all
\* files at rest whole.
LEMMA WholeIfStoring ==
    ASSUME Typed, AllWhole, NEW a \in Agent, NEW h \in Hash, NEW state, NEW l, NEW o, NEW e,
           file' = [file EXCEPT ![a] = With(file[a], h, state)],
           main' = [main EXCEPT ![a] = Storing(l, o, e)], copied' = copied,
           h \in o \/ state = "whole",
           \A k \in Hash : Writing(a, k) => k = h,
           \A k \in DOMAIN l : l[k] = "whole"
    PROVE  AllWhole'
<1>1. main'[a] = Storing(l, o, e) /\ \A b \in Agent \ {a} : main'[b] = main[b]
    BY DEF Typed
<1>2. file'[a] = With(file[a], h, state) /\ \A b \in Agent \ {a} : file'[b] = file[b]
    BY DEF Typed
<1>3. ASSUME NEW b \in Agent, NEW k \in Hash, AtRest(b, k)'
      PROVE  file'[b][k] = "whole"
    <2>1. CASE b # a
        <3>1. AtRest(b, k)
            BY <1>1, <1>2, <1>3, <2>1 DEF AtRest, Writing, Has
        <3> QED
            BY <1>2, <2>1, <3>1 DEF AllWhole
    <2>2. CASE b = a /\ k = h
        <3>1. h \notin o
            BY <1>1, <1>3, <2>2, MainRecords DEF AtRest, Writing
        <3>2. With(file[a], h, state)[h] = state
            BY DEF With
        <3> QED
            BY <1>2, <2>2, <3>1, <3>2
    <2>3. CASE b = a /\ k # h
        <3>1. k \in DOMAIN file[a] /\ file'[a][k] = file[a][k]
            <4>1. k \in DOMAIN With(file[a], h, state)
                BY <1>2, <1>3, <2>3 DEF AtRest, Has
            <4>2. k \in DOMAIN file[a]
                BY <2>3, <4>1 DEF With
            <4>3. With(file[a], h, state)[k] = file[a][k]
                BY <2>3, <4>2 DEF With
            <4> QED
                BY <1>2, <4>2, <4>3
        <3>2. AtRest(a, k)
            BY <2>3, <3>1 DEF AtRest, Has
        <3> QED
            BY <2>3, <3>1, <3>2 DEF AllWhole
    <2> QED
        BY <2>1, <2>2, <2>3
<1>4. WholeIn(main'[a])
    BY <1>1, MainRecords DEF WholeIn
<1> QED
    BY <1>1, <1>3, <1>4 DEF AllWhole, WholeIn

LEMMA WholeStep ==
    ASSUME Typed, cut \/ AllWhole, [Next]_vars
    PROVE  cut' \/ AllWhole'
<1>1. CASE cut
    BY <1>1 DEF Next, vars, Scan, Storage, Write, Written, Stored, Materialize, GiveUp,
                Answering, Serve, Receive, Refuse, Exchange
<1>2. CASE AllWhole /\ UNCHANGED vars
    BY <1>2 DEF vars, AllWhole, AtRest, Has, Writing
<1>3. CASE AllWhole /\ ~cut /\ Next
    <2> PICK a \in Agent :
            \/ Scan(a) \/ Storage(a) \/ Materialize(a) \/ GiveUp(a)
            \/ Answering(a) \/ \E b \in Peers[a] : Exchange(a, b)
        BY <1>3 DEF Next
    <2>0. ASSUME main[a].at # "storing"
          PROVE  \A h \in Hash : AtRest(a, h) \/ ~Has(a, h)
        BY <2>0, NotWriting DEF AtRest
    <2>1. CASE Scan(a)
        <3>1. PICK f \in Files[a] :
                  main' = [main EXCEPT ![a] = Storing([h \in f |-> "whole"], {}, f)]
            BY <2>1 DEF Scan
        <3>2. WholeIn(Storing([h \in f |-> "whole"], {}, f))
            BY MainRecords DEF WholeIn
        <3> QED
            BY <1>3, <2>0, <2>1, <3>1, <3>2, MainRecords, WholeIfMain DEF Scan
    <2>2. CASE Write(a)
        <3>1. PICK l, e : \E h \in DOMAIN l :
                  /\ IsStoring(main[a], l, {}, e) /\ h \in Hash
                  /\ \/ /\ Has(a, h) /\ UNCHANGED file
                        /\ main' = [main EXCEPT ![a] = Storing(Without(l, h), {}, e)]
                     \/ /\ ~Has(a, h)
                        /\ file' = [file EXCEPT ![a] = With(file[a], h, "short")]
                        /\ main' = [main EXCEPT ![a] = Storing(l, {h}, e)]
                  /\ UNCHANGED <<names, copied, fails, scans, cut>>
            BY <2>2, WriteEffect
        <3>2. PICK h \in DOMAIN l :
                  /\ IsStoring(main[a], l, {}, e) /\ h \in Hash
                  /\ \/ /\ UNCHANGED file
                        /\ main' = [main EXCEPT ![a] = Storing(Without(l, h), {}, e)]
                     \/ /\ file' = [file EXCEPT ![a] = With(file[a], h, "short")]
                        /\ main' = [main EXCEPT ![a] = Storing(l, {h}, e)]
                  /\ UNCHANGED <<names, copied, fails, scans, cut>>
            BY <3>1
        <3>3. \A k : ~Writing(a, k)
            BY <3>2, MainRecords DEF IsStoring, Writing
        <3>4. \A k \in DOMAIN l : l[k] = "whole"
            BY <1>3, <3>2, MainRecords DEF IsStoring, AllWhole
        <3>5. CASE file' = file /\ main' = [main EXCEPT ![a] = Storing(Without(l, h), {}, e)]
            <4>1. WholeIn(Storing(Without(l, h), {}, e))
                <5>1. \A k \in DOMAIN Without(l, h) : Without(l, h)[k] = "whole"
                    BY <3>4 DEF Without
                <5> QED
                    BY <5>1, MainRecords DEF WholeIn
            <4>2. \A k \in Hash : AtRest(a, k) \/ ~Has(a, k)
                BY <3>3 DEF AtRest
            <4> QED
                BY <1>3, <3>2, <3>5, <4>1, <4>2, WholeIfMain
        <3>6. CASE /\ file' = [file EXCEPT ![a] = With(file[a], h, "short")]
                   /\ main' = [main EXCEPT ![a] = Storing(l, {h}, e)]
            BY <1>3, <3>2, <3>3, <3>4, <3>6, WholeIfStoring
        <3> QED
            BY <3>2, <3>5, <3>6
    <2>3. CASE Written(a)
        <3>1. PICK l, e : \E h \in DOMAIN l :
                  /\ IsStoring(main[a], l, {h}, e) /\ h \in Hash
                  /\ file' = [file EXCEPT ![a] = With(file[a], h, l[h])]
                  /\ main' = [main EXCEPT ![a] = Storing(Without(l, h), {}, e)]
                  /\ UNCHANGED <<names, copied, fails, scans, cut>>
            BY <2>3, WrittenEffect
        <3>2. PICK h \in DOMAIN l :
                  /\ IsStoring(main[a], l, {h}, e) /\ h \in Hash
                  /\ file' = [file EXCEPT ![a] = With(file[a], h, l[h])]
                  /\ main' = [main EXCEPT ![a] = Storing(Without(l, h), {}, e)]
                  /\ UNCHANGED <<names, copied, fails, scans, cut>>
            BY <3>1
        <3>3. \A k \in DOMAIN l : l[k] = "whole"
            BY <1>3, <3>2, MainRecords DEF IsStoring, AllWhole
        <3>4. \A k \in DOMAIN Without(l, h) : Without(l, h)[k] = "whole"
            BY <3>3 DEF Without
        <3>5. \A k \in Hash : Writing(a, k) => k = h
            BY <3>2, MainRecords DEF IsStoring, Writing
        <3> QED
            BY <1>3, <3>2, <3>3, <3>4, <3>5, WholeIfStoring
    <2>4. CASE Stored(a)
        <3>1. \A h : ~Writing(a, h)
            BY <2>4, StoredEffect
        <3>2. \A h \in Hash : AtRest(a, h) \/ ~Has(a, h)
            BY <3>1 DEF AtRest
        <3>3. WholeIn(Idle)
            BY MainRecords DEF WholeIn
        <3> QED
            BY <1>3, <2>4, <3>2, <3>3, WholeIfMain DEF Stored
    <2>5. CASE Materialize(a)
        <3>1. PICK f \in UNION {Files[b] : b \in Agent} :
                  /\ f \subseteq names[a] /\ \A h \in f : Has(a, h)
                  /\ copied' = [copied EXCEPT ![a] = @ \cup
                         {[file |-> f, whole |-> \A h \in f : file[a][h] = "whole"]}]
            BY <2>5 DEF Materialize
        <3>2. f \subseteq Hash /\ main[a].at # "storing"
            BY <2>5, FilesType, MainRecords DEF Materialize
        <3>3. \A h \in f : file[a][h] = "whole"
            BY <1>3, <2>0, <3>1, <3>2 DEF AllWhole
        <3>4. copied' = [copied EXCEPT ![a] = copied[a] \cup {[file |-> f, whole |-> TRUE]}]
            BY <3>1, <3>3 DEF Typed
        <3>5. \A b \in Agent : \A c \in copied'[b] : c.whole
            BY <1>3, <3>4 DEF AllWhole, Typed
        <3> QED
            BY <1>3, <2>5, <3>5 DEF AllWhole, Materialize, AtRest, Has, Writing
    <2>6. CASE GiveUp(a)
        <3>1. CASE \E h \in Hash : Writing(a, h)
            BY <2>6, <3>1 DEF GiveUp
        <3>2. CASE \A h \in Hash : ~Writing(a, h)
            <4>1. \A h \in Hash : AtRest(a, h) \/ ~Has(a, h)
                BY <3>2 DEF AtRest
            <4>2. WholeIn(Idle)
                BY MainRecords DEF WholeIn
            <4> QED
                BY <1>3, <2>6, <4>1, <4>2, WholeIfMain DEF GiveUp
        <3> QED
            BY <3>1, <3>2
    <2>7. CASE Serve(a)
        <3>1. PICK b \in Agent, asked \in SUBSET Hash, answer \in ChunkFiles :
                  \E h \in asked :
                      /\ main[a] = Waiting(b, asked, answer)
                      /\ main' = [main EXCEPT ![a] =
                             Waiting(b, asked \ {h},
                                     IF Has(b, h) THEN With(answer, h, file[b][h]) ELSE answer)]
                      /\ cut' = (cut \/ Writing(b, h))
                      /\ UNCHANGED <<file, names, copied, fails, scans>>
            BY <2>7, ServeEffect
        <3> DEFINE reply(h) == IF Has(b, h) THEN With(answer, h, file[b][h]) ELSE answer
        <3>2. PICK h \in asked :
                  /\ main[a] = Waiting(b, asked, answer)
                  /\ main' = [main EXCEPT ![a] = Waiting(b, asked \ {h}, reply(h))]
                  /\ cut' = (cut \/ Writing(b, h))
                  /\ file' = file /\ copied' = copied
            BY <3>1
        <3>3. CASE Writing(b, h)
            BY <3>2, <3>3
        <3>4. CASE ~Writing(b, h)
            <4>1. \A k \in DOMAIN answer : answer[k] = "whole"
                BY <1>3, <3>2, MainRecords DEF AllWhole
            <4>2. Has(b, h) => file[b][h] = "whole"
                BY <1>3, <3>4 DEF AllWhole, AtRest
            <4>3. \A k \in DOMAIN reply(h) : reply(h)[k] = "whole"
                <5>1. CASE Has(b, h)
                    <6>1. \A k \in DOMAIN With(answer, h, file[b][h]) :
                              With(answer, h, file[b][h])[k] = "whole"
                        BY <4>1, <4>2, <5>1 DEF With
                    <6> QED
                        BY <5>1, <6>1
                <5>2. CASE ~Has(b, h)
                    BY <4>1, <5>2
                <5> QED
                    BY <5>1, <5>2
            <4> HIDE DEF reply
            <4>4. WholeIn(Waiting(b, asked \ {h}, reply(h))) /\ main[a].at # "storing"
                BY <3>2, <4>3, MainRecords DEF WholeIn
            <4> QED
                BY <1>3, <2>0, <3>2, <4>4, WholeIfMain
        <3> QED
            BY <3>3, <3>4
    <2>8. CASE Receive(a)
        <3>1. main' = [main EXCEPT ![a] = Storing(main[a].answer, {}, {})]
            BY <2>8 DEF Receive, Typed
        <3>2. WholeIn(Storing(main[a].answer, {}, {})) /\ main[a].at # "storing"
            BY <1>3, <2>8, MainRecords DEF WholeIn, AllWhole, Receive, Answered
        <3> QED
            BY <1>3, <2>0, <2>8, <3>1, <3>2, WholeIfMain DEF Receive
    <2>9. CASE Refuse(a)
        <3>1. WholeIn(Idle) /\ main[a].at # "storing"
            BY <2>9, MainRecords DEF WholeIn, Refuse, Answered
        <3> QED
            BY <1>3, <2>0, <2>9, <3>1, WholeIfMain DEF Refuse
    <2>10. ASSUME NEW b \in Peers[a], Exchange(a, b)
           PROVE  AllWhole'
        <3>1. WholeIn(Waiting(b, Missing(a, b), NoChunks)) /\ main[a].at # "storing"
            BY <2>10, MainRecords, NoChunksType DEF WholeIn, Exchange
        <3> QED
            BY <1>3, <2>0, <2>10, <3>1, WholeIfMain DEF Exchange
    <2> QED
        BY <2>1, <2>2, <2>3, <2>4, <2>5, <2>6, <2>7, <2>8, <2>9, <2>10
        DEF Storage, Answering
<1> QED
    BY <1>1, <1>2, <1>3

\* For any agents, peers, files and failures: a chunk comes to be short only by
\* a write that is cut off or by a read that overlaps a write.
THEOREM WholeHolds == Spec => []WholeUntilCut
<1>1. Init => cut \/ AllWhole
    BY MainRecords, NoChunksType DEF Init, AllWhole, AtRest, Has
<1>2. cut \/ AllWhole => WholeUntilCut
    BY DEF AllWhole, WholeUntilCut, StoredBytesAreWhole
<1> QED
    BY <1>1, <1>2, WholeStep, AlwaysTyped, PTL DEF Spec

------------------------------------------------------------------------------
\* Only an agent's own storing writes its files, and never one at rest.
LEMMA RestStep ==
    ASSUME Typed, [Next]_vars, NEW b \in Agent, NEW k \in Hash, AtRest(b, k)
    PROVE  k \in DOMAIN file'[b] /\ file'[b][k] = file[b][k]
<1>0. k \in DOMAIN file[b] /\ ~Writing(b, k)
    BY DEF AtRest, Has
<1>1. CASE file' = file
    BY <1>0, <1>1
<1>2. ASSUME NEW a \in Agent, NEW h, NEW state, h # k \/ a # b,
             file' = [file EXCEPT ![a] = With(file[a], h, state)]
      PROVE  k \in DOMAIN file'[b] /\ file'[b][k] = file[b][k]
    <2>1. CASE a = b
        <3>1. file'[b] = With(file[b], h, state)
            BY <1>2, <2>1 DEF Typed
        <3>2. /\ k \in DOMAIN With(file[b], h, state)
              /\ With(file[b], h, state)[k] = file[b][k]
            BY <1>0, <1>2, <2>1 DEF With
        <3> QED
            BY <3>1, <3>2
    <2>2. CASE a # b
        BY <1>0, <1>2, <2>2 DEF Typed
    <2> QED
        BY <2>1, <2>2
<1>3. ASSUME NEW a \in Agent, Write(a)
      PROVE  k \in DOMAIN file'[b] /\ file'[b][k] = file[b][k]
    <2>1. PICK h : \/ file' = file
                   \/ ~Has(a, h) /\ file' = [file EXCEPT ![a] = With(file[a], h, "short")]
        BY <1>3, WriteEffect
    <2> QED
        BY <1>0, <1>1, <1>2, <2>1 DEF Has
<1>4. ASSUME NEW a \in Agent, Written(a)
      PROVE  k \in DOMAIN file'[b] /\ file'[b][k] = file[b][k]
    <2>1. PICK h, state : /\ Writing(a, h)
                          /\ file' = [file EXCEPT ![a] = With(file[a], h, state)]
        BY <1>4 DEF Written, Typed
    <2> QED
        BY <1>0, <1>2, <2>1
<1>5. \/ file' = file
      \/ \E a \in Agent : Write(a) \/ Written(a)
    BY DEF Next, vars, Scan, Storage, Stored, Materialize, GiveUp,
           Answering, Serve, Receive, Refuse, Exchange
<1> QED
    BY <1>1, <1>3, <1>4, <1>5

\* A chunk file nobody is writing is never opened for writing again.
THEOREM RestIsFinal == Spec => AtRestIsFinal
<1>1. Typed /\ [Next]_vars => [\A a \in Agent : \A h \in Hash : AtRest(a, h) =>
                                  h \in DOMAIN file'[a] /\ file'[a][h] = file[a][h]]_vars
    BY RestStep
<1> QED
    BY <1>1, AlwaysTyped, PTL DEF Spec, AtRestIsFinal
==============================================================================
