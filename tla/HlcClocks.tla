------------------------------ MODULE HlcClocks ------------------------------
(* Processes that keep hybrid logical clocks the way hlc.rs offers them: an   *)
(* event ticks the clock and may send its stamp along, a receiver observes    *)
(* it.  Stamps travel in any order, any number of times, or never arrive, and *)
(* every wall-clock reading is independent of every other: it may stall or    *)
(* step back, on one process or between two.                                  *)
EXTENDS Hlc

CONSTANTS
    Process,        \* the processes that keep a clock
    MaxWall,        \* wall-clock readings are 0 .. MaxWall
    MaxEvents       \* bound: events of one run

ASSUME ClocksAssumption == MaxWall \in Nat /\ MaxEvents \in Nat

VARIABLES
    clock,      \* clock[n]: the Hlc of process n
    past,       \* past[n]: every stamp in the causal past of process n (ghost)
    sent,       \* stamps under way, each with the causal past it carries (ghost)
    wallTop,    \* the largest wall-clock reading any process has had (ghost)
    events      \* events so far, for the bound

vars == <<clock, past, sent, wallTop, events>>

Init ==
    /\ clock = [n \in Process |-> HlcZero]
    /\ past = [n \in Process |-> {}]
    /\ sent = {}
    /\ wallTop = 0
    /\ events = 0

Record(n, stamp, causes, wall) ==
    /\ events < MaxEvents
    /\ events' = events + 1
    /\ clock' = [clock EXCEPT ![n] = stamp]
    /\ past' = [past EXCEPT ![n] = causes \cup {stamp}]
    /\ sent' = sent \cup {[stamp |-> stamp, causes |-> causes \cup {stamp}]}
    /\ wallTop' = Later(wallTop, wall)

LocalEvent(n, wall) ==
    /\ RoomToBump(clock[n].logical)
    /\ Record(n, Tick(clock[n], wall), past[n], wall)

ReceiveEvent(n, m, wall) ==
    /\ RoomToBump(Later(clock[n].logical, m.stamp.logical))
    /\ Record(n, Observe(clock[n], m.stamp, wall), past[n] \cup m.causes, wall)

Next ==
    \E n \in Process, wall \in 0 .. MaxWall :
        \/ LocalEvent(n, wall)
        \/ \E m \in sent : ReceiveEvent(n, m, wall)

Spec == Init /\ [][Next]_vars

------------------------------------------------------------------------------
\* Every variable has its type.
TypeOK ==
    /\ clock \in [Process -> Hlc]
    /\ past \in [Process -> SUBSET Hlc]
    /\ sent \subseteq [stamp : Hlc, causes : SUBSET Hlc]
    /\ wallTop \in Nat
    /\ events \in 0 .. MaxEvents

\* A stamp carries its own causal past, and nothing in it is above the stamp.
Dominates(stamp, causes) == \A s \in causes : HlcUpTo(s, stamp)

\* A clock is at or above every stamp its process has ever heard of, directly
\* or through others, whatever the wall clocks read: happened-before implies a
\* smaller stamp.  This is what hlc.rs promises ("orders events across agents
\* without synchronized wall clocks") of processes that call observe.
HappenedBefore ==
    /\ \A n \in Process : Dominates(clock[n], past[n])
    /\ \A m \in sent : Dominates(m.stamp, m.causes)

\* Physical time is only ever taken from a wall clock: no chain of observes
\* drives a clock past the largest reading anyone has had.
NeverAheadOfEveryWallClock ==
    \A n \in Process : clock[n].physical_ms <= wallTop

\* Every event, tick or observe, strictly raises the clock of its process and
\* leaves it above everything in the causal past the event brings in.
EventsRaiseTheClock ==
    [][\A n \in Process : past'[n] # past[n] \/ clock'[n] # clock[n] =>
           /\ HlcBefore(clock[n], clock'[n])
           /\ \A s \in past'[n] \ {clock'[n]} : HlcBefore(s, clock'[n])]_vars
==============================================================================
