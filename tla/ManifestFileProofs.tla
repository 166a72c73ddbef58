------------------------- MODULE ManifestFileProofs -------------------------
(* Proofs about manifest.json for any updates and any number of handlers.     *)
EXTENDS ManifestFile, TLAPS

USE FileAssumption

LEMMA InitTyped == Init => TypeOK
<1> SUFFICES ASSUME Init PROVE TypeOK
  OBVIOUS
<1>1. Bare("absent") \in Content /\ Bare("absent").of = {}
  BY DEF Bare, Content
<1>2. calls \in 0 .. MaxCalls /\ fails \in 0 .. MaxFail
  BY DEF Init
<1> QED
  BY <1>1, <1>2 DEF Init, TypeOK, Name

\* What Fills leaves on disk when contents are contents.
LEMMA FillsTyped ==
    ASSUME TypeOK, NEW p \in Process, pc[p] = "opened",
           NEW contents \in SUBSET Content,
           \A c \in contents : c.kind = "whole" \/ c.of = {},
           Fills(p, contents)
    PROVE  /\ disk' \in [Name -> Content]
           /\ \A n \in Name : disk'[n].kind = "whole" \/ disk'[n].of = {}
BY DEF TypeOK, Fills

LEMMA ContentsTyped ==
    ASSUME TypeOK, NEW p \in Process, pc[p] = "opened"
    PROVE  /\ Overwritten(Held(p), current[p]) \subseteq Content
           /\ CutShort(Held(p)) \subseteq Content
           /\ \A c \in Overwritten(Held(p), current[p]) \cup CutShort(Held(p)) :
                  c.kind = "whole" \/ c.of = {}
<1>1. Held(p) \in Content /\ (Held(p).kind = "whole" \/ Held(p).of = {})
  BY DEF TypeOK, Held, Bare, Content
<1>2. /\ Whole(current[p]) \in Content
      /\ Bare("torn") \in Content
      /\ Whole(current[p]).kind = "whole"
      /\ Bare("torn").of = {}
  BY DEF TypeOK, Whole, Bare, Content
<1> QED
  BY <1>1, <1>2 DEF Overwritten, CutShort

\* A process that ends, or goes back to holding its manifest, keeps the types.
LEMMA LeavingTyped ==
    ASSUME TypeOK, NEW p \in Process, pc[p] # "off", Leaves(p) \/ Ends(p)
    PROVE  /\ pc' \in [Process -> {"off", "holds", "opened", "written"}]
           /\ current' \in [Process -> SUBSET Update]
           /\ handle' \in [Process -> Name \cup {"none", "gone"}]
           /\ \A q \in Process : handle'[q] = "none" <=> pc'[q] # "opened"
           /\ behind' \subseteq {q \in Process : pc'[q] # "off"}
<1>1. CASE Ends(p)
  BY <1>1 DEF TypeOK, Ends, Goes
<1>2. CASE p = agent /\ Goes(p, "holds") /\ handle' = [handle EXCEPT ![p] = "none"]
           /\ UNCHANGED <<current, behind>>
  BY <1>2 DEF TypeOK, Goes
<1> QED
  BY <1>1, <1>2 DEF Leaves

LEMMA NextTyped == TypeOK /\ [Next]_vars => TypeOK'
<1> SUFFICES ASSUME TypeOK, [Next]_vars PROVE TypeOK'
  OBVIOUS
<1>1. CASE AgentStart
  BY <1>1 DEF AgentStart, TypeOK, Goes, Content, Name, Process, bounds, history
<1>2. CASE Learn
  BY <1>2 DEF Learn, TypeOK, Process, bounds, history
<1>3. ASSUME NEW h \in Handler, HandlerStart(h) PROVE TypeOK'
  BY <1>3 DEF HandlerStart, TypeOK, Goes, Content, Name, Process, history
<1>4. ASSUME NEW h \in Handler, HandlerRefused(h) PROVE TypeOK'
  BY <1>4 DEF HandlerRefused, TypeOK, history
<1>5. ASSUME NEW p \in Process, Open(p) PROVE TypeOK'
  <2>1. Bare("empty") \in Content /\ Bare("empty").of = {}
    BY DEF Bare, Content
  <2> QED
    BY <1>5, <2>1 DEF Open, Joins, TypeOK, Goes, Name, bounds
<1>6. ASSUME NEW p \in Process, Write(p) PROVE TypeOK'
  <2>1. /\ disk' \in [Name -> Content]
        /\ \A n \in Name : disk'[n].kind = "whole" \/ disk'[n].of = {}
    BY <1>6, FillsTyped, ContentsTyped DEF Write
  <2> QED
    BY <1>6, <2>1 DEF Write, TypeOK, Goes, bounds, history
<1>7. ASSUME NEW p \in Process, Rename(p) PROVE TypeOK'
  <2>1. /\ disk' \in [Name -> Content]
        /\ \A n \in Name : disk'[n].kind = "whole" \/ disk'[n].of = {}
    BY <1>7 DEF Rename, TypeOK, Name, Content, Bare
  <2>2. \A h \in Name \cup {"none", "gone"} :
            /\ Renamed(h) \in Name \cup {"none", "gone"}
            /\ Renamed(h) = "none" <=> h = "none"
    BY DEF Renamed, Name
  <2> QED
    BY <1>7, <2>1, <2>2 DEF Rename, TypeOK, bounds, history
<1>8. ASSUME NEW p \in Process, RenameFails(p) PROVE TypeOK'
  BY <1>8, LeavingTyped DEF RenameFails, TypeOK, bounds, history
<1>12. ASSUME NEW p \in Process, RenameRefused(p) PROVE TypeOK'
  BY <1>12, LeavingTyped DEF RenameRefused, TypeOK, history
<1>9. ASSUME NEW p \in Process, WriteFails(p) PROVE TypeOK'
  <2>1. /\ disk' \in [Name -> Content]
        /\ \A n \in Name : disk'[n].kind = "whole" \/ disk'[n].of = {}
    BY <1>9, FillsTyped, ContentsTyped DEF WriteFails
  <2>2. pc[p] # "off" /\ Leaves(p)
    BY <1>9 DEF WriteFails
  <2> QED
    BY <1>9, <2>1, <2>2, LeavingTyped DEF WriteFails, TypeOK, history
<1>10. ASSUME NEW p \in Process, Kill(p) PROVE TypeOK'
  <2>1. /\ disk' \in [Name -> Content]
        /\ \A n \in Name : disk'[n].kind = "whole" \/ disk'[n].of = {}
    BY <1>10, FillsTyped, ContentsTyped DEF Kill, TypeOK
  <2>2. pc[p] # "off" /\ Ends(p)
    BY <1>10 DEF Kill
  <2> QED
    BY <1>10, <2>1, <2>2, LeavingTyped DEF Kill, TypeOK, history
<1>11. CASE UNCHANGED vars
  BY <1>11 DEF vars, bounds, history, TypeOK
<1> QED
  BY <1>1, <1>2, <1>3, <1>4, <1>5, <1>6, <1>7, <1>8, <1>9, <1>10, <1>11, <1>12
  DEF Next, SaveStep

\* TypeOK always holds.
THEOREM FileTyped == Spec => []TypeOK
<1>1. Init => TypeOK
  BY InitTyped
<1>2. TypeOK /\ [Next]_vars => TypeOK'
  BY NextTyped
<1> QED
  BY <1>1, <1>2, PTL DEF Spec

------------------------------------------------------------------------------
\* Whoever saves alone has the temporary file to itself: nobody else is saving,
\* and the file is empty, then all that the saver holds.
Undisturbed(p) ==
    /\ \A q \in Process \ {p} : ~Saving(q)
    /\ pc[p] = "opened" => handle[p] = "tmp" /\ disk["tmp"] = Bare("empty")
    /\ pc[p] = "written" => disk["tmp"] = Whole(current[p])

LoneSaver == \A p \in alone : Saving(p) => Undisturbed(p)

\* Until two saves overlap, whoever saves does so alone, and manifest.json is
\* readable.
OneSaver ==
    ~overlapped =>
        /\ Readable(disk["file"])
        /\ \A p \in Process : Saving(p) => p \in alone

\* And a process that is not behind holds what manifest.json holds.
UpToDate ==
    ~overlapped =>
        \A p \in Process :
            pc[p] # "off" /\ p \notin behind => disk["file"].of \subseteq current[p]

IInv == TypeOK /\ LoneSaver /\ OneSaver /\ UpToDate

\* A failure half way through a lone save leaves manifest.json as it was.
LEMMA FailsAlone ==
    ASSUME IInv, NEW p \in Process, p \in alone \/ ~overlapped, pc[p] = "opened",
           NEW contents, Fills(p, contents)
    PROVE  disk'["file"] = disk["file"]
BY DEF IInv, TypeOK, LoneSaver, Undisturbed, OneSaver, Saving, Fills, Name

\* A process that leaves its save keeps or drops its manifest; others keep theirs.
LEMMA LeavingKeeps ==
    ASSUME TypeOK, NEW p \in Process, pc[p] # "off", Leaves(p) \/ Ends(p)
    PROVE  /\ pc'[p] \in {"off", "holds"}
           /\ pc'[p] = "holds" => current'[p] = current[p]
           /\ \A q \in Process \ {p} :
                  pc'[q] = pc[q] /\ current'[q] = current[q] /\ handle'[q] = handle[q]
           /\ behind \ {p} \subseteq behind'
           /\ pc'[p] = "holds" => behind' = behind
<1>1. CASE Ends(p)
  BY <1>1 DEF TypeOK, Ends, Goes
<1>2. CASE p = agent /\ Goes(p, "holds") /\ handle' = [handle EXCEPT ![p] = "none"]
           /\ UNCHANGED <<current, behind>>
  BY <1>2 DEF TypeOK, Goes
<1> QED
  BY <1>1, <1>2 DEF Leaves

\* Whoever leaves, with manifest.json as it was and the temporary file no
\* longer anybody's, keeps the invariant.
LEMMA LeavingKeepsIInv ==
    ASSUME IInv, NEW p \in Process, pc[p] # "off", Leaves(p) \/ Ends(p),
           ~overlapped => disk'["file"] = disk["file"],
           Saving(p) \/ disk' = disk, UNCHANGED history
    PROVE  LoneSaver' /\ OneSaver' /\ UpToDate'
<1>1. /\ pc'[p] \in {"off", "holds"}
      /\ pc'[p] = "holds" => current'[p] = current[p]
      /\ \A q \in Process \ {p} :
             pc'[q] = pc[q] /\ current'[q] = current[q] /\ handle'[q] = handle[q]
      /\ behind \ {p} \subseteq behind'
      /\ pc'[p] = "holds" => behind' = behind
  BY LeavingKeeps DEF IInv
<1>2. LoneSaver'
  <2> SUFFICES ASSUME NEW q \in alone, Saving(q)'
               PROVE  Undisturbed(q)'
    BY DEF LoneSaver, history
  <2>1. q \in Process /\ q # p /\ Saving(q)
    BY <1>1 DEF IInv, TypeOK, Saving
  <2>2. Undisturbed(q) /\ disk' = disk
    BY <2>1 DEF IInv, LoneSaver, Undisturbed
  <2> QED
    BY <1>1, <2>1, <2>2 DEF Undisturbed, Saving
<1>3. OneSaver'
  BY <1>1 DEF IInv, OneSaver, Saving, Readable, history
<1>4. UpToDate'
  BY <1>1 DEF IInv, UpToDate, history
<1> QED
  BY <1>2, <1>3, <1>4

LEMMA NextKeepsIInv == IInv /\ [Next]_vars => IInv'
<1> SUFFICES ASSUME IInv, [Next]_vars PROVE IInv'
  OBVIOUS
<1> USE DEF IInv
<1>0. TypeOK'
  BY NextTyped
<1>1. CASE AgentStart
  BY <1>0, <1>1
  DEF AgentStart, LoneSaver, Undisturbed, OneSaver, UpToDate, TypeOK, Goes, Saving, Process, history
<1>2. CASE Learn
  BY <1>0, <1>2
  DEF Learn, LoneSaver, Undisturbed, OneSaver, UpToDate, TypeOK, Saving, Process, history
<1>3. ASSUME NEW h \in Handler, HandlerStart(h) PROVE IInv'
  BY <1>0, <1>3
  DEF HandlerStart, LoneSaver, Undisturbed, OneSaver, UpToDate, TypeOK, Goes, Saving, Process, history
<1>4. ASSUME NEW h \in Handler, HandlerRefused(h) PROVE IInv'
  BY <1>0, <1>4
  DEF HandlerRefused, LoneSaver, Undisturbed, OneSaver, UpToDate, Saving, history
<1>5. ASSUME NEW p \in Process, Open(p) PROVE IInv'
  <2>1. /\ disk'["tmp"] = Bare("empty")
        /\ disk'["file"] = disk["file"]
        /\ handle'[p] = "tmp"
        /\ pc'[p] = "opened" /\ pc[p] = "holds"
        /\ \A q \in Process \ {p} : pc'[q] = pc[q]
        /\ UNCHANGED <<current, behind>>
    BY <1>5 DEF Open, TypeOK, Goes, Name, Saving
  <2>2. LoneSaver'
    <3> SUFFICES ASSUME NEW q \in alone'
                 PROVE  Undisturbed(q)'
      BY DEF LoneSaver
    <3>1. q = p /\ \A r \in Process \ {p} : ~Saving(r)
      BY <1>5 DEF Open, Joins
    <3> QED
      BY <2>1, <3>1 DEF Undisturbed, Saving
  <2>3. OneSaver' /\ UpToDate'
    <3> SUFFICES ASSUME ~overlapped' PROVE OneSaver' /\ UpToDate'
      BY DEF OneSaver, UpToDate
    <3>1. ~overlapped /\ alone' = {p} /\ \A q \in Process \ {p} : ~Saving(q)
      BY <1>5 DEF Open, Joins
    <3>2. OneSaver'
      BY <2>1, <3>1 DEF OneSaver, Saving, Readable
    <3>3. UpToDate'
      BY <2>1, <3>1 DEF UpToDate, Saving
    <3> QED
      BY <3>2, <3>3
  <2> QED
    BY <1>0, <2>2, <2>3
<1>6. ASSUME NEW p \in Process, Write(p) PROVE IInv'
  <2>1. /\ Saving(p) /\ UNCHANGED <<current, history, behind>>
        /\ pc'[p] = "written" /\ \A q \in Process \ {p} : pc'[q] = pc[q]
    BY <1>6 DEF Write, TypeOK, Goes, Saving
  <2>2. ASSUME p \in alone
        PROVE  disk'["tmp"] = Whole(current[p]) /\ disk'["file"] = disk["file"]
    <3>1. handle[p] = "tmp" /\ disk["tmp"] = Bare("empty")
      BY <1>6, <2>1, <2>2 DEF Write, LoneSaver, Undisturbed
    <3>2. Held(p) = Bare("empty")
      BY <3>1 DEF Held, Name
    <3>3. Fills(p, {Whole(current[p])})
      BY <1>6, <3>2 DEF Write, Overwritten
    <3> QED
      BY <3>1, <3>3 DEF TypeOK, Fills, Name
  <2>3. LoneSaver'
    <3> SUFFICES ASSUME NEW q \in alone, Saving(q)'
                 PROVE  Undisturbed(q)'
      BY <2>1 DEF LoneSaver, history
    <3>1. Saving(q) /\ q \in Process
      BY <2>1 DEF Saving, TypeOK
    <3>2. Undisturbed(q)
      BY <3>1 DEF LoneSaver
    <3>3. q = p
      BY <2>1, <3>2 DEF Undisturbed
    <3> QED
      BY <2>1, <2>2, <3>2, <3>3 DEF Undisturbed, Saving
  <2>4. OneSaver' /\ UpToDate'
    BY <2>1, <2>2 DEF OneSaver, UpToDate, Saving, Readable, history
  <2> QED
    BY <1>0, <2>3, <2>4
<1>7. ASSUME NEW p \in Process, Rename(p) PROVE IInv'
  <2>1. /\ Saving(p) /\ pc[p] = "written" /\ UNCHANGED history
        /\ pc'[p] \in {"holds", "off"} /\ (pc'[p] = "holds" => current'[p] = current[p])
        /\ \A q \in Process \ {p} : pc'[q] = pc[q]
        /\ disk'["file"] = disk["tmp"]
    BY <1>7 DEF Rename, TypeOK, Saving
  <2>2. \A q \in Process \ {p} : pc'[q] # "off" => q \in behind'
    BY <1>7, <2>1 DEF Rename
  <2>3. LoneSaver'
    <3> SUFFICES ASSUME NEW q \in alone, Saving(q)'
                 PROVE  FALSE
      BY <2>1 DEF LoneSaver, history
    <3>1. q \in Process /\ q # p /\ Saving(q)
      BY <2>1 DEF Saving, TypeOK
    <3> QED
      BY <2>1, <3>1 DEF LoneSaver, Undisturbed
  <2>4. OneSaver' /\ UpToDate'
    <3> SUFFICES ASSUME ~overlapped PROVE OneSaver' /\ UpToDate'
      BY <2>1 DEF OneSaver, UpToDate, history
    <3>1. Undisturbed(p)
      BY <2>1 DEF OneSaver, LoneSaver
    <3>2. disk'["file"] = Whole(current[p])
      BY <2>1, <3>1 DEF Undisturbed
    <3>3. \A q \in Process : ~Saving(q)'
      BY <2>1, <3>1 DEF Undisturbed, Saving
    <3>4. OneSaver'
      BY <3>2, <3>3 DEF OneSaver, Readable, Whole
    <3>5. UpToDate'
      BY <2>1, <2>2, <3>2 DEF UpToDate, Whole
    <3> QED
      BY <3>4, <3>5
  <2> QED
    BY <1>0, <2>3, <2>4
<1>8. ASSUME NEW p \in Process, RenameFails(p) PROVE IInv'
  <2>1. pc[p] # "off" /\ Leaves(p) /\ UNCHANGED <<disk, history>>
    BY <1>8 DEF RenameFails
  <2> QED
    BY <1>0, <2>1, LeavingKeepsIInv
<1>12. ASSUME NEW p \in Process, RenameRefused(p) PROVE IInv'
  <2>1. pc[p] # "off" /\ Leaves(p) /\ UNCHANGED <<disk, history>>
    BY <1>12 DEF RenameRefused
  <2> QED
    BY <1>0, <2>1, LeavingKeepsIInv
<1>9. ASSUME NEW p \in Process, WriteFails(p) PROVE IInv'
  <2>1. pc[p] = "opened" /\ Leaves(p) /\ UNCHANGED history /\ Saving(p)
    BY <1>9 DEF WriteFails, Saving
  <2>2. ~overlapped => disk'["file"] = disk["file"]
    BY <1>9, <2>1, FailsAlone DEF WriteFails
  <2> QED
    BY <1>0, <2>1, <2>2, LeavingKeepsIInv
<1>10. ASSUME NEW p \in Process, Kill(p) PROVE IInv'
  <2>1. pc[p] # "off" /\ Ends(p) /\ UNCHANGED history
    BY <1>10 DEF Kill
  <2>2. (~overlapped => disk'["file"] = disk["file"]) /\ (Saving(p) \/ disk' = disk)
    BY <1>10, FailsAlone DEF Kill, Saving
  <2> QED
    BY <1>0, <2>1, <2>2, LeavingKeepsIInv
<1>11. CASE UNCHANGED vars
  BY <1>0, <1>11
  DEF vars, bounds, history, LoneSaver, Undisturbed, OneSaver, UpToDate, Saving
<1> QED
  BY <1>1, <1>2, <1>3, <1>4, <1>5, <1>6, <1>7, <1>8, <1>9, <1>10, <1>11, <1>12
  DEF Next, SaveStep

LEMMA InitIInv == Init => IInv
BY InitTyped
DEF Init, IInv, LoneSaver, OneSaver, UpToDate, Saving, Readable, Bare, Name

LEMMA IInvHolds == Spec => []IInv
BY InitIInv, NextKeepsIInv, PTL DEF Spec

\* Until two saves overlap, every reader can read, through every failure and kill.
THEOREM ReadableHolds == Spec => []ReadableUntilOverlap
<1>1. IInv => ReadableUntilOverlap
  BY DEF IInv, OneSaver, ReadableUntilOverlap
<1> QED
  BY <1>1, IInvHolds, PTL

\* Each save that no other overlaps is atomic and repairs the file, also after
\* others have overlapped, failed or been killed half way.
THEOREM LoneSavesHold == Spec => LoneSavesAreAtomic
<1> DEFINE OneStep(p) == Saving(p) =>
               \/ disk'["file"] = disk["file"]
               \/ Rename(p) /\ disk'["file"] = Whole(current[p])
<1>1. IInv /\ [Next]_vars => [\A p \in alone : OneStep(p)]_vars
  <2> SUFFICES ASSUME IInv, Next, NEW p \in alone, Saving(p)
               PROVE  \/ disk'["file"] = disk["file"]
                      \/ Rename(p) /\ disk'["file"] = Whole(current[p])
    OBVIOUS
  <2>1. p \in Process /\ Undisturbed(p) /\ DOMAIN disk = Name
    BY DEF IInv, TypeOK, LoneSaver
  <2>2. CASE AgentStart \/ Learn \/ \E h \in Handler : HandlerStart(h) \/ HandlerRefused(h)
    BY <2>2 DEF AgentStart, Learn, HandlerStart, HandlerRefused
  <2>3. ASSUME NEW q \in Process, Open(q)
        PROVE  disk'["file"] = disk["file"]
    BY <2>1, <2>3 DEF Open, Name
  <2>4. ASSUME NEW q \in Process, Write(q)
        PROVE  disk'["file"] = disk["file"]
    <3>1. q = p
      BY <2>1, <2>4 DEF Write, Undisturbed, Saving
    <3> QED
      BY <2>4, <3>1, FailsAlone DEF Write
  <2>5. ASSUME NEW q \in Process, Rename(q)
        PROVE  Rename(p) /\ disk'["file"] = Whole(current[p])
    <3>1. q = p
      BY <2>1, <2>5 DEF Rename, Undisturbed, Saving
    <3> QED
      BY <2>1, <2>5, <3>1 DEF Rename, Undisturbed
  <2>6. ASSUME NEW q \in Process, RenameFails(q) \/ RenameRefused(q)
        PROVE  disk'["file"] = disk["file"]
    BY <2>6 DEF RenameFails, RenameRefused
  <2>7. ASSUME NEW q \in Process, WriteFails(q) \/ Kill(q)
        PROVE  disk'["file"] = disk["file"]
    <3>1. CASE pc[q] = "opened"
      <4>1. q = p /\ Fills(q, CutShort(Held(q)))
        BY <2>1, <2>7, <3>1 DEF WriteFails, Kill, Undisturbed, Saving
      <4> QED
        BY <3>1, <4>1, FailsAlone
    <3>2. CASE pc[q] # "opened"
      BY <2>7, <3>2 DEF WriteFails, Kill
    <3> QED
      BY <3>1, <3>2
  <2> QED
    BY <2>2, <2>3, <2>4, <2>5, <2>6, <2>7 DEF Next, SaveStep
<1> QED
  BY <1>1, IInvHolds, PTL DEF Spec, LoneSavesAreAtomic

\* A saver that has seen the last save loses nothing of it.
THEOREM UpToDateSavesHold == Spec => UpToDateSavesLoseNothing
<1> DEFINE Keeps(p) == Rename(p) /\ ~overlapped /\ p \notin behind
                       => disk["file"].of \subseteq disk["file"].of'
<1>1. IInv /\ [Next]_vars => [\A p \in Process : Keeps(p)]_vars
  <2> SUFFICES ASSUME IInv, NEW p \in Process, Rename(p), ~overlapped, p \notin behind
               PROVE  disk["file"].of \subseteq disk["file"].of'
    OBVIOUS
  <2>1. Saving(p) /\ pc[p] = "written" /\ disk'["file"] = disk["tmp"]
    BY DEF Rename, Saving
  <2>2. disk["file"].of \subseteq current[p] /\ disk["tmp"] = Whole(current[p])
    BY <2>1 DEF IInv, LoneSaver, Undisturbed, OneSaver, UpToDate
  <2> QED
    BY <2>1, <2>2 DEF Whole
<1> QED
  BY <1>1, IInvHolds, PTL DEF Spec, UpToDateSavesLoseNothing
=============================================================================
