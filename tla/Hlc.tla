--------------------------------- MODULE Hlc ---------------------------------
(* The hybrid logical clock of crates/vault-manifest/src/hlc.rs as pure       *)
(* operators.  A stamp orders first by wall-clock milliseconds, then by a     *)
(* logical counter that separates events of the same millisecond.  The       *)
(* counter is a u32: LogicalModulus is 2^32 in the code and small in the      *)
(* runs; a release build wraps it (a debug build panics instead).             *)
EXTENDS Naturals

CONSTANT LogicalModulus     \* 2^32 in the code: the counter is a u32

ASSUME LogicalModulusAssumption == LogicalModulus \in Nat \ {0}

Hlc == [physical_ms : Nat, logical : 0 .. LogicalModulus - 1]

HlcZero == [physical_ms |-> 0, logical |-> 0]

\* The derived Ord of the struct: lexicographic over the two fields.
HlcBefore(s, t) ==
    \/ s.physical_ms < t.physical_ms
    \/ s.physical_ms = t.physical_ms /\ s.logical < t.logical

HlcUpTo(s, t) == s = t \/ HlcBefore(s, t)

Later(i, j) == IF i >= j THEN i ELSE j

\* `self.logical += 1` on a u32, in the build that wraps.
Bump(l) == (l + 1) % LogicalModulus

\* The bump does not run off the end of the u32.
RoomToBump(l) == l + 1 < LogicalModulus

\* Faulty forms, which the mutation runs put in place of the operators below.
TickRestartsCounter(clock, wall) ==
    IF wall >= clock.physical_ms
    THEN [physical_ms |-> wall, logical |-> 0]
    ELSE [clock EXCEPT !.logical = Bump(@)]

TickPushesTime(clock, wall) ==
    [physical_ms |-> Later(wall, clock.physical_ms + 1), logical |-> 0]

ObserveAddsCounters(clock, remote, wall) ==
    LET top == Later(wall, Later(clock.physical_ms, remote.physical_ms))
    IN  [physical_ms |-> top,
         logical |-> IF top = wall THEN 0 ELSE clock.logical + remote.logical + 1]

ObserveForgetsRemoteCounter(clock, remote, wall) ==
    LET top == Later(wall, Later(clock.physical_ms, remote.physical_ms))
    IN  [physical_ms |-> top,
         logical |-> IF top = clock.physical_ms THEN Bump(clock.logical) ELSE 0]

\* Hlc::tick: a local event at wall-clock reading wall.
Tick(clock, wall) ==
    IF wall > clock.physical_ms
    THEN [physical_ms |-> wall, logical |-> 0]
    ELSE [clock EXCEPT !.logical = Bump(@)]

\* Hlc::observe: a remote stamp received at wall-clock reading wall.
Observe(clock, remote, wall) ==
    LET top == Later(wall, Later(clock.physical_ms, remote.physical_ms))
        mine == top = clock.physical_ms
        theirs == top = remote.physical_ms
    IN  [physical_ms |-> top,
         logical |-> CASE mine /\ theirs   -> Bump(Later(clock.logical, remote.logical))
                       [] mine /\ ~theirs  -> Bump(clock.logical)
                       [] ~mine /\ theirs  -> Bump(remote.logical)
                       [] ~mine /\ ~theirs -> 0]
==============================================================================
