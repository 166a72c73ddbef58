---------------------------- MODULE ManifestFile ----------------------------
(* manifest.json and the processes that share it: one vault-agent, which      *)
(* reads it when it starts and writes it each tick, and gossip-handlers,      *)
(* spawned one a call, which read it, merge a request, write it and answer.   *)
(* Every save goes through the same temporary name: fs::write(tmp) opens and  *)
(* truncates, then writes from the start of the file it has opened, whatever  *)
(* name that file has by then; fs::rename(tmp, path) moves what bears the     *)
(* temporary name at that moment.  There is no lock between the processes.    *)
(*                                                                            *)
(* A manifest is the set of updates merged into it: merge is union up to      *)
(* what ManifestReplicas shows of apply.                                      *)
EXTENDS Naturals, FiniteSets

CONSTANTS
    Update,     \* what a merge or a scan may add to a manifest
    Handler,    \* gossip-handler processes that may run at the same time
    agent,      \* the vault-agent process
    MaxCalls,   \* bound: calls to handlers in one run
    MaxFail     \* bound: failed writes and renames, and kills, in one run

ASSUME FileAssumption ==
    /\ agent \notin Handler
    /\ MaxCalls \in Nat
    /\ MaxFail \in Nat

Process == Handler \cup {agent}

Name == {"tmp", "file"}   \* manifest.json.tmp and manifest.json

Content == [kind : {"absent", "empty", "torn", "whole"}, of : SUBSET Update]

Bare(kind) == [kind |-> kind, of |-> {}]
Whole(m) == [kind |-> "whole", of |-> m]

\* load_manifest succeeds: no file, or one that serde_json accepts.
Readable(c) == c.kind \in {"absent", "whole"}

VARIABLES
    disk,       \* disk[n]: what bears the name n
    pc,         \* pc[p]: "off", "holds" (a manifest in memory), "opened", "written"
    current,    \* current[p]: the manifest in p's memory
    handle,     \* handle[p]: the name, by now, of the file p writes, "gone" if it has none
    overlapped, \* two saves have run at the same time (ghost)
    alone,      \* who began to save when nobody did, if nobody has since (ghost)
    behind,     \* processes that have not seen the last save (ghost)
    calls,      \* calls so far, for the bound
    fails       \* failures so far, for the bound

history == <<overlapped, alone>>
bounds == <<calls, fails>>
vars == <<disk, pc, current, handle, history, behind, bounds>>

Init ==
    /\ disk = [n \in Name |-> Bare("absent")]
    /\ pc = [p \in Process |-> "off"]
    /\ current = [p \in Process |-> {}]
    /\ handle = [p \in Process |-> "none"]
    /\ overlapped = FALSE
    /\ alone = {}
    /\ behind = {}
    /\ calls = 0
    /\ fails = 0

Saving(p) == pc[p] \in {"opened", "written"}

Goes(p, place) == pc' = [pc EXCEPT ![p] = place]

\* The process p ends: a handler, or an agent that is killed.
Ends(p) ==
    /\ Goes(p, "off")
    /\ current' = [current EXCEPT ![p] = {}]
    /\ handle' = [handle EXCEPT ![p] = "none"]
    /\ behind' = behind \ {p}

------------------------------------------------------------------------------
\* Mutant: main starts with an empty manifest.
AgentStartsEmpty ==
    /\ pc[agent] = "off"
    /\ Readable(disk["file"])
    /\ Goes(agent, "holds")
    /\ UNCHANGED <<disk, current, handle, history, behind, bounds>>

\* main loads the manifest or exits; the first save comes a tick later.
AgentStart ==
    /\ pc[agent] = "off"
    /\ Readable(disk["file"])
    /\ Goes(agent, "holds")
    /\ current' = [current EXCEPT ![agent] = disk["file"].of]
    /\ UNCHANGED <<disk, handle, history, behind, bounds>>

\* A scan or a gossip exchange of the agent; a save keeps the mutex it takes.
Learn ==
    /\ pc[agent] = "holds"
    /\ \E u \in Update : current' = [current EXCEPT ![agent] = @ \cup {u}]
    /\ UNCHANGED <<disk, pc, handle, history, behind, bounds>>

\* gossip-handler up to its save: a request's manifest merged into the file's.
HandlerStart(h) ==
    /\ pc[h] = "off"
    /\ calls < MaxCalls
    /\ calls' = calls + 1
    /\ Readable(disk["file"])
    /\ Goes(h, "holds")
    /\ \E incoming \in SUBSET Update :
           current' = [current EXCEPT ![h] = disk["file"].of \cup incoming]
    /\ UNCHANGED <<disk, handle, history, behind, fails>>

\* The handler cannot read the file and exits.
HandlerRefused(h) ==
    /\ pc[h] = "off"
    /\ calls < MaxCalls
    /\ calls' = calls + 1
    /\ ~Readable(disk["file"])
    /\ UNCHANGED <<disk, pc, current, handle, history, behind, fails>>

------------------------------------------------------------------------------
\* p begins to save, beside those who do.
Joins(p) ==
    LET others == {q \in Process \ {p} : Saving(q)}
    IN  /\ overlapped' = (overlapped \/ others # {})
        /\ alone' = IF others = {} THEN {p} ELSE {}

\* Mutant: fs::write straight to manifest.json.
OpenInPlace(p) ==
    /\ pc[p] = "holds"
    /\ disk' = [n \in Name |-> Bare("empty")]
    /\ handle' = [handle EXCEPT ![p] = "file"]
    /\ Goes(p, "opened")
    /\ Joins(p)
    /\ UNCHANGED <<current, behind, bounds>>

\* fs::write: open and truncate.
Open(p) ==
    /\ pc[p] = "holds"
    /\ disk' = [disk EXCEPT !["tmp"] = Bare("empty")]
    /\ handle' = [handle EXCEPT ![p] = "tmp"]
    /\ Goes(p, "opened")
    /\ Joins(p)
    /\ UNCHANGED <<current, behind, bounds>>

\* What a file of content c holds when m is written over it from the start:
\* what is left of a longer content stays behind.
Overwritten(c, m) ==
    IF c \in {Bare("empty"), Whole(m)} THEN {Whole(m)} ELSE {Whole(m), Bare("torn")}

\* Or when the writing stops before its end.
CutShort(c) == {c, Bare("torn")}

\* The file p has open comes to hold one of contents, under its name, if any.
Fills(p, contents) ==
    \E c \in contents :
        disk' = IF handle[p] \in Name THEN [disk EXCEPT ![handle[p]] = c] ELSE disk

Held(p) == IF handle[p] \in Name THEN disk[handle[p]] ELSE Bare("empty")

\* Mutant: the file is left open.
WriteLeavesOpen(p) ==
    /\ pc[p] = "opened"
    /\ Fills(p, Overwritten(Held(p), current[p]))
    /\ Goes(p, "written")
    /\ UNCHANGED <<current, handle, history, behind, bounds>>

\* fs::write: the bytes, and the file is closed.
Write(p) ==
    /\ pc[p] = "opened"
    /\ Fills(p, Overwritten(Held(p), current[p]))
    /\ handle' = [handle EXCEPT ![p] = "none"]
    /\ Goes(p, "written")
    /\ UNCHANGED <<current, history, behind, bounds>>

\* After its save the agent sleeps until the next tick; a handler answers and exits.
Leaves(p) ==
    \/ /\ p = agent
       /\ Goes(p, "holds")
       /\ handle' = [handle EXCEPT ![p] = "none"]
       /\ UNCHANGED <<current, behind>>
    \/ p # agent /\ Ends(p)

\* fs::write fails: the agent reports it, a handler exits.
WriteFails(p) ==
    /\ pc[p] = "opened"
    /\ fails < MaxFail
    /\ fails' = fails + 1
    /\ Fills(p, CutShort(Held(p)))
    /\ Leaves(p)
    /\ UNCHANGED <<history, calls>>

\* A name is taken from its file: whoever has that file open has it still.
Renamed(h) ==
    IF h = "tmp" THEN "file" ELSE IF h = "file" THEN "gone" ELSE h

Rename(p) ==
    /\ pc[p] = "written"
    /\ disk["tmp"].kind # "absent"
    /\ disk' = [tmp |-> Bare("absent"), file |-> disk["tmp"]]
    /\ handle' = [q \in Process |-> IF q = p THEN "none" ELSE Renamed(handle[q])]
    /\ pc' = [pc EXCEPT ![p] = IF p = agent THEN "holds" ELSE "off"]
    /\ current' = IF p = agent THEN current ELSE [current EXCEPT ![p] = {}]
    /\ behind' = {q \in Process \ {p} : pc[q] # "off"}
    /\ UNCHANGED <<history, bounds>>

\* Mutant: a rename that fails is tried again without the write.
RenameRetries(p) ==
    /\ pc[p] = "written"
    /\ disk["tmp"].kind = "absent"
    /\ UNCHANGED vars

\* fs::rename finds no temporary file: another save has moved it.
RenameFails(p) ==
    /\ pc[p] = "written"
    /\ disk["tmp"].kind = "absent"
    /\ Leaves(p)
    /\ UNCHANGED <<disk, history, bounds>>

\* fs::rename fails though the temporary file is there: it stays behind.
RenameRefused(p) ==
    /\ pc[p] = "written"
    /\ disk["tmp"].kind # "absent"
    /\ fails < MaxFail
    /\ fails' = fails + 1
    /\ Leaves(p)
    /\ UNCHANGED <<disk, history, calls>>

\* p is killed, perhaps while it writes.
Kill(p) ==
    /\ pc[p] # "off"
    /\ fails < MaxFail
    /\ fails' = fails + 1
    /\ \/ pc[p] = "opened" /\ Fills(p, CutShort(Held(p)))
       \/ pc[p] # "opened" /\ UNCHANGED disk
    /\ Ends(p)
    /\ UNCHANGED <<history, calls>>

SaveStep(p) == Open(p) \/ Write(p) \/ Rename(p) \/ RenameFails(p)

Next ==
    \/ AgentStart
    \/ Learn
    \/ \E h \in Handler : HandlerStart(h) \/ HandlerRefused(h)
    \/ \E p \in Process : SaveStep(p) \/ WriteFails(p) \/ RenameRefused(p) \/ Kill(p)

Spec == Init /\ [][Next]_vars

\* A running agent goes on with its save, and saves each tick.
FairSpec == Spec /\ WF_vars(SaveStep(agent))

------------------------------------------------------------------------------
\* Shapes; the open file is that of a process inside fs::write; only what is
\* whole says what it holds.
TypeOK ==
    /\ disk \in [Name -> Content]
    /\ \A n \in Name : disk[n].kind = "whole" \/ disk[n].of = {}
    /\ pc \in [Process -> {"off", "holds", "opened", "written"}]
    /\ current \in [Process -> SUBSET Update]
    /\ handle \in [Process -> Name \cup {"none", "gone"}]
    /\ \A p \in Process : handle[p] = "none" <=> pc[p] # "opened"
    /\ overlapped \in BOOLEAN
    /\ alone \subseteq Process
    /\ behind \subseteq {p \in Process : pc[p] # "off"}
    /\ calls \in 0 .. MaxCalls
    /\ fails \in 0 .. MaxFail

\* A save that no other save overlaps is atomic, whatever else fails, ends or is
\* killed meanwhile, and whatever earlier saves have left: manifest.json stays as
\* it was until it is, at once, all that the saver holds.  Such a save repairs
\* what saves that did overlap have torn.
LoneSavesAreAtomic ==
    [][\A p \in alone : Saving(p) =>
           \/ disk'["file"] = disk["file"]
           \/ Rename(p) /\ disk'["file"] = Whole(current[p])]_vars

\* Until two saves have overlapped, manifest.json is absent or whole.
ReadableUntilOverlap == ~overlapped => Readable(disk["file"])

\* A process that has seen the last save loses nothing of it when it saves: an
\* update leaves manifest.json only when another process saved since the saver
\* read it.  (The agent reads once, so every handler leaves it behind.)
UpToDateSavesLoseNothing ==
    [][\A p \in Process :
           Rename(p) /\ ~overlapped /\ p \notin behind
           => disk["file"].of \subseteq disk["file"].of']_vars

\* A running agent repairs the file: again and again manifest.json is whole and
\* has all that is in the agent's memory, or the agent is off, with a file it
\* may be unable to read.
AgentRepairs ==
    []<>(\/ pc[agent] = "off"
         \/ disk["file"].kind = "whole" /\ current[agent] \subseteq disk["file"].of)

\* save_manifest's comment: write-to-temp and rename is atomic, "so a
\* concurrently-spawned `gossip-handler` process never observes a
\* partially-written file".
NeverPartiallyWritten == Readable(disk["file"])

==============================================================================
