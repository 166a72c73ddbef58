------------------------------ MODULE HlcProofs ------------------------------
(* Proofs about processes that tick and observe (module HlcClocks), for every *)
(* counter width, wall-clock behaviour, number of processes and of events,    *)
(* and about the leases that such processes announce (module ProviderLease).  *)
EXTENDS ProviderLease, OperatorLemmas

MessagesBelowWallTop == \A m \in sent : m.stamp.physical_ms <= wallTop

\* The inductive invariant.  That no message under way is ahead of every wall
\* clock is what keeps an observe from carrying a receiver ahead.
Inv ==
    /\ TypeOK
    /\ HappenedBefore
    /\ NeverAheadOfEveryWallClock
    /\ MessagesBelowWallTop

LEMMA InitInv == Init => Inv
BY ZeroType, ClocksAssumption
   DEF Init, Inv, TypeOK, HappenedBefore, NeverAheadOfEveryWallClock,
       MessagesBelowWallTop, Dominates, HlcZero

\* What every event, local or not, does to the invariant: the stamp is above
\* the old clock and above what it takes in.
LEMMA RecordKeepsInv ==
    ASSUME Inv,
           NEW n \in Process, NEW stamp \in Hlc, NEW causes \in SUBSET Hlc, NEW wall \in Nat,
           \A s \in causes : HlcBefore(s, stamp),
           stamp.physical_ms <= Later(wallTop, wall),
           Record(n, stamp, causes, wall)
    PROVE  Inv'
<1> USE DEF Inv
<1>1. TypeOK'
    BY ClocksAssumption DEF TypeOK, Record, Later
<1>2. HappenedBefore'
    BY DEF TypeOK, HappenedBefore, Dominates, Record, HlcUpTo
<1>3. wallTop \in Nat /\ wallTop' \in Nat /\ wallTop <= wallTop'
    BY DEF TypeOK, Record, Later
<1>4. NeverAheadOfEveryWallClock'
    <2> SUFFICES ASSUME NEW k \in Process
                 PROVE  clock'[k].physical_ms <= wallTop'
        BY DEF NeverAheadOfEveryWallClock
    <2>1. CASE k = n
        BY <2>1 DEF TypeOK, Record
    <2>2. CASE k # n
        BY <2>2, <1>3 DEF TypeOK, Record, NeverAheadOfEveryWallClock, Hlc
    <2> QED
        BY <2>1, <2>2
<1>5. MessagesBelowWallTop'
    BY <1>3 DEF TypeOK, Record, MessagesBelowWallTop, Hlc
<1> QED
    BY <1>1, <1>2, <1>4, <1>5

\* What an event is: a record of a stamp above the causes it brings in.
LEMMA EventRecords ==
    ASSUME Inv, Next
    PROVE  \E n \in Process, stamp \in Hlc, causes \in SUBSET Hlc, wall \in Nat :
               /\ \A s \in causes : HlcBefore(s, stamp)
               /\ HlcBefore(clock[n], stamp)
               /\ stamp.physical_ms <= Later(wallTop, wall)
               /\ Record(n, stamp, causes, wall)
<1> USE DEF Inv
<1> PICK n \in Process, wall \in 0 .. MaxWall :
             LocalEvent(n, wall) \/ \E m \in sent : ReceiveEvent(n, m, wall)
    BY DEF Next
<1>1. wall \in Nat /\ clock[n] \in Hlc /\ past[n] \in SUBSET Hlc /\ wallTop \in Nat
    BY ClocksAssumption DEF TypeOK
<1>2. CASE LocalEvent(n, wall)
    <2> DEFINE stamp == Tick(clock[n], wall)
    <2>1. stamp \in Hlc /\ HlcBefore(clock[n], stamp)
        BY <1>1, <1>2, TickType, TickRaises DEF LocalEvent
    <2>2. \A s \in past[n] : HlcBefore(s, stamp)
        BY <1>1, <2>1, HlcBeforeTransitive DEF HappenedBefore, Dominates
    <2>3. stamp.physical_ms <= Later(wallTop, wall)
        BY <1>1, ClockTakenFromAWallClock DEF NeverAheadOfEveryWallClock
    <2> QED
        BY <1>1, <1>2, <2>1, <2>2, <2>3 DEF LocalEvent
<1>3. CASE \E m \in sent : ReceiveEvent(n, m, wall)
    <2> PICK m \in sent : ReceiveEvent(n, m, wall)
        BY <1>3
    <2> DEFINE stamp == Observe(clock[n], m.stamp, wall)
    <2>1. m.stamp \in Hlc /\ m.causes \in SUBSET Hlc
        BY DEF TypeOK
    <2>2. /\ stamp \in Hlc
          /\ HlcBefore(clock[n], stamp)
          /\ HlcBefore(m.stamp, stamp)
        BY <1>1, <2>1, ObserveType, ObserveRaises DEF ReceiveEvent
    <2>3. \A s \in past[n] \cup m.causes : HlcBefore(s, stamp)
        BY <1>1, <2>1, <2>2, HlcBeforeTransitive DEF HappenedBefore, Dominates
    <2>4. stamp.physical_ms <= Later(wallTop, wall)
        BY <1>1, <2>1, ClockTakenFromAWallClock
           DEF NeverAheadOfEveryWallClock, MessagesBelowWallTop
    <2> QED
        BY <1>1, <2>1, <2>2, <2>3, <2>4 DEF ReceiveEvent
<1> QED
    BY <1>2, <1>3

LEMMA NextInv == Inv /\ [Next]_vars => Inv'
<1> SUFFICES ASSUME Inv, [Next]_vars
             PROVE  Inv'
    OBVIOUS
<1>1. CASE Next
    BY <1>1, EventRecords, RecordKeepsInv
<1>2. CASE UNCHANGED vars
    BY <1>2 DEF vars, Inv, TypeOK, HappenedBefore, NeverAheadOfEveryWallClock,
                MessagesBelowWallTop, Dominates
<1> QED
    BY <1>1, <1>2

LEMMA Invariant == Spec => []Inv
BY InitInv, NextInv, PTL DEF Spec

\* Every variable has its type: no stamp leaves the counter's range.
THEOREM ClocksTyped == Spec => []TypeOK
<1>1. Inv => TypeOK
    BY DEF Inv
<1> QED
    BY <1>1, Invariant, PTL

\* Happened-before implies a smaller stamp, however the wall clocks disagree,
\* for processes that tick and observe.
THEOREM HappenedBeforeHolds == Spec => []HappenedBefore
BY Invariant, PTL DEF Inv

\* No clock ever runs ahead of every wall clock.
THEOREM NeverAheadHolds == Spec => []NeverAheadOfEveryWallClock
BY Invariant, PTL DEF Inv

\* Every event strictly raises its clock above everything it has heard of.
THEOREM EventsRaise == Spec => EventsRaiseTheClock
<1> DEFINE Raises ==
        \A n \in Process : past'[n] # past[n] \/ clock'[n] # clock[n] =>
            /\ HlcBefore(clock[n], clock'[n])
            /\ \A s \in past'[n] \ {clock'[n]} : HlcBefore(s, clock'[n])
<1>1. ASSUME Inv, Next
      PROVE  Raises
    <2> PICK n \in Process, stamp \in Hlc, causes \in SUBSET Hlc, wall \in Nat :
             /\ \A s \in causes : HlcBefore(s, stamp)
             /\ HlcBefore(clock[n], stamp)
             /\ Record(n, stamp, causes, wall)
        BY <1>1, EventRecords
    <2> QED
        BY <1>1 DEF Record, Inv, TypeOK
<1>2. ASSUME UNCHANGED vars
      PROVE  Raises
    BY <1>2 DEF vars
<1>3. Inv /\ [Next]_vars => [Raises]_vars
    BY <1>1
<1> QED
    BY <1>3, Invariant, PTL DEF Spec, EventsRaiseTheClock

------------------------------------------------------------------------------
(* The provider lease                                                         *)
IsLease(l) ==
    l.epoch \in Nat /\ l.holder_pubkey \in Process /\ l.connectivity_score \in Int

\* What a member holds to is the best of what it has heard of.
BestHeard(n) ==
    \/ lease[n] = {} /\ heard[n] = {}
    \/ \E l \in heard[n] : lease[n] = {l} /\ \A h \in heard[n] : ~LeaseOutranks(h, l)

LeaseInv ==
    /\ DOMAIN lease = Process /\ lease = [n \in Process |-> lease[n]]
    /\ DOMAIN heard = Process /\ heard = [n \in Process |-> heard[n]]
    /\ \A l \in announced : IsLease(l)
    /\ \A n \in Process : \A l \in heard[n] : IsLease(l)
    /\ \A n \in Process : BestHeard(n)

LEMMA MergeKeepsTheBest ==
    ASSUME NEW l, NEW m, IsLease(l), IsLease(m)
    PROVE  /\ merge_lease(l, m) \in {l, m}
           /\ ~LeaseOutranks(l, merge_lease(l, m))
           /\ ~LeaseOutranks(m, merge_lease(l, m))
BY LeaseAssumption DEF IsLease, merge_lease, LeaseOutranks

LEMMA NotOutrankedTransitive ==
    ASSUME NEW l, NEW m, NEW k, IsLease(l), IsLease(m), IsLease(k),
           ~LeaseOutranks(l, m), ~LeaseOutranks(m, k)
    PROVE  ~LeaseOutranks(l, k)
BY LeaseAssumption DEF IsLease, LeaseOutranks

LEMMA AnnouncedAreLeases ==
    ASSUME LeaseInv, NEW n \in Process, NEW wall, Announce(n, wall)
    PROVE  \A l \in announced' : IsLease(l)
<1>1. \A k \in Link : k.peers \in Nat /\ k.rtt \in Nat
    BY LeaseAssumption
<1>2. \A k \in Link : connectivity_score(k.peers, k.rtt) \in Int
    BY <1>1 DEF connectivity_score
<1>3. Epoch \subseteq Nat
    BY LeaseAssumption
<1> QED
    BY <1>2, <1>3 DEF Announce, LeaseInv, IsLease

\* The lease a member holds to once it has heard of l.
LEMMA HearKeepsTheBest ==
    ASSUME LeaseInv, NEW n \in Process, NEW l, IsLease(l), Hear(n, l)
    PROVE  BestHeard(n)'
<1>1. PICK m \in Merged(n, l) : lease' = [lease EXCEPT ![n] = {m}]
    BY DEF Hear
<1>2. lease'[n] = {m} /\ heard'[n] = heard[n] \cup {l}
    BY <1>1 DEF Hear, LeaseInv
<1>3. CASE lease[n] = {} /\ heard[n] = {}
    <2>1. m = l
        BY <1>1, <1>3 DEF Merged
    <2>2. ~LeaseOutranks(l, l)
        BY LeaseAssumption DEF IsLease, LeaseOutranks
    <2> QED
        BY <1>2, <1>3, <2>1, <2>2 DEF BestHeard
<1>4. CASE \E k \in heard[n] : lease[n] = {k} /\ \A h \in heard[n] : ~LeaseOutranks(h, k)
    <2>1. PICK k \in heard[n] : lease[n] = {k} /\ \A h \in heard[n] : ~LeaseOutranks(h, k)
        BY <1>4
    <2>2. IsLease(k)
        BY DEF LeaseInv
    <2>3. m \in {merge_lease(k, l), merge_lease(l, k)}
        BY <1>1, <2>1 DEF Merged
    <2>4. m \in {k, l} /\ ~LeaseOutranks(k, m) /\ ~LeaseOutranks(l, m)
        BY <2>2, <2>3, MergeKeepsTheBest
    <2>5. IsLease(m)
        BY <2>2, <2>4
    <2>6. \A h \in heard[n] : ~LeaseOutranks(h, m)
        BY <2>1, <2>2, <2>4, <2>5, NotOutrankedTransitive DEF LeaseInv
    <2> QED
        BY <1>2, <2>4, <2>6 DEF BestHeard
<1> QED
    BY <1>3, <1>4 DEF LeaseInv, BestHeard

LEMMA LeaseInvStep == LeaseInv /\ [LeaseNext]_leaseVars => LeaseInv'
<1> SUFFICES ASSUME LeaseInv, [LeaseNext]_leaseVars
             PROVE  LeaseInv'
    OBVIOUS
<1>1. CASE UNCHANGED <<announced, lease, heard>>
    BY <1>1 DEF LeaseInv, BestHeard
<1>2. ASSUME NEW n \in Process, NEW wall \in 0 .. MaxWall, Announce(n, wall)
      PROVE  LeaseInv'
    <2>1. UNCHANGED <<lease, heard>>
        BY <1>2 DEF Announce
    <2> QED
        BY <1>2, <2>1, AnnouncedAreLeases DEF LeaseInv, BestHeard
<1>3. ASSUME NEW n \in Process, NEW l \in announced, Hear(n, l)
      PROVE  LeaseInv'
    <2>1. IsLease(l) /\ announced' = announced
        BY <1>3 DEF LeaseInv, Hear
    <2>2. BestHeard(n)'
        BY <1>3, <2>1, HearKeepsTheBest
    <2>3. ASSUME NEW o \in Process, o # n
          PROVE  lease'[o] = lease[o] /\ heard'[o] = heard[o]
        BY <1>3, <2>3 DEF Hear, LeaseInv
    <2>4. \A o \in Process : BestHeard(o)'
        BY <2>2, <2>3 DEF LeaseInv, BestHeard
    <2>5. heard'[n] = heard[n] \cup {l}
        BY <1>3 DEF Hear, LeaseInv
    <2>6. \A o \in Process : \A h \in heard'[o] : IsLease(h)
        BY <2>1, <2>3, <2>5 DEF LeaseInv
    <2>7. /\ DOMAIN lease' = Process /\ lease' = [o \in Process |-> lease'[o]]
          /\ DOMAIN heard' = Process /\ heard' = [o \in Process |-> heard'[o]]
        BY <1>3 DEF Hear, LeaseInv
    <2> QED
        BY <2>1, <2>4, <2>6, <2>7 DEF LeaseInv
<1> QED
    BY <1>1, <1>2, <1>3 DEF LeaseNext, leaseVars

LEMMA LeaseInvAlways == LeaseSpec => []LeaseInv
<1>1. LeaseInit => LeaseInv
    BY DEF LeaseInit, LeaseInv, BestHeard
<1> QED
    BY <1>1, LeaseInvStep, PTL DEF LeaseSpec

\* Members that announce and merge leases keep their clocks as any processes
\* do: what is proved of Spec holds of them.
THEOREM LeasesKeepClocks == LeaseSpec => Spec
<1>1. LeaseInit => Init
    BY DEF LeaseInit
<1>2. [LeaseNext]_leaseVars => [Next]_vars
    <2>1. ASSUME NEW n \in Process, NEW wall \in 0 .. MaxWall, Announce(n, wall)
          PROVE  Next
        BY <2>1 DEF Announce, Next
    <2>2. ASSUME NEW n \in Process, NEW l \in announced, Hear(n, l)
          PROVE  UNCHANGED vars
        BY <2>2 DEF Hear
    <2> QED
        BY <2>1, <2>2 DEF LeaseNext, leaseVars
<1> QED
    BY <1>1, <1>2, PTL DEF LeaseSpec, Spec

\* Members that have heard of the same leases agree on the provider.
THEOREM SameLeasesAgree == LeaseSpec => []SameLeasesSameProvider
<1>1. LeaseInv => SameLeasesSameProvider
    <2> SUFFICES ASSUME LeaseInv, NEW n \in Process, NEW o \in Process, heard[n] = heard[o],
                        NEW l \in lease[n], NEW m \in lease[o]
                 PROVE  /\ l.epoch = m.epoch /\ l.holder_pubkey = m.holder_pubkey
                        /\ l.connectivity_score = m.connectivity_score
        BY DEF SameLeasesSameProvider
    <2>1. l \in heard[n] /\ m \in heard[n] /\ ~LeaseOutranks(m, l) /\ ~LeaseOutranks(l, m)
        BY DEF LeaseInv, BestHeard
    <2>2. IsLease(l) /\ IsLease(m)
        BY <2>1 DEF LeaseInv
    <2> QED
        BY <2>1, <2>2, LeaseAssumption DEF IsLease, LeaseOutranks
<1> QED
    BY <1>1, LeaseInvAlways, PTL

\* A member that hears of a lease gives its register one pair.
LEMMA HearGives ==
    ASSUME LeaseInv, LeaseInv', NEW n \in Process, NEW l, Hear(n, l)
    PROVE  <<"lease", l>> \in LeaseGiven'[n] /\ Register!Give(n, <<"lease", l>>)
<1>1. /\ heard'[n] = heard[n] \cup {l}
      /\ \A o \in Process \ {n} : lease'[o] = lease[o] /\ heard'[o] = heard[o]
    BY DEF Hear, LeaseInv
<1>2. PICK m \in heard'[n] : lease'[n] = {m} /\ \A h \in heard'[n] : ~LeaseOutranks(h, m)
    BY <1>1 DEF LeaseInv, BestHeard
<1>3. LeaseGiven' = [LeaseGiven EXCEPT ![n] = @ \cup {<<"lease", l>>}]
    <2>1. LeaseGiven'[n] = LeaseGiven[n] \cup {<<"lease", l>>}
        BY <1>1 DEF LeaseGiven
    <2>2. \A o \in Process \ {n} : LeaseGiven'[o] = LeaseGiven[o]
        BY <1>1 DEF LeaseGiven
    <2> QED
        BY <2>1, <2>2 DEF LeaseGiven
<1>4. \A o \in Process \ {n} : LeaseHeld'[o] = LeaseHeld[o]
    BY <1>1 DEF LeaseHeld
<1>5. DOMAIN LeaseHeld'[n] = {"lease"} /\ LeaseHeld'[n]["lease"] = m
    BY <1>2 DEF LeaseHeld
<1>6. DOMAIN LeaseHeld[n] \subseteq {"lease"}
    BY DEF LeaseHeld
<1>7. <<"lease", m>> \in LeaseGiven'[n] /\ <<"lease", l>> \in LeaseGiven'[n]
    BY <1>1, <1>2 DEF LeaseGiven
<1>8. \A g \in LeaseGiven'[n] : ~LeaseOutranks(g[2], m)
    BY <1>2 DEF LeaseGiven
<1> QED
    BY <1>3, <1>4, <1>5, <1>6, <1>7, <1>8 DEF Register!Give

\* Each member's lease is a last-writer-wins register.
THEOREM LeaseImplementsRegister == LeaseSpec => LeaseIsRegister
<1>1. LeaseInit => Register!Init
    BY DEF LeaseInit, Register!Init, LeaseHeld, LeaseGiven
<1>2. LeaseInv /\ LeaseInv' /\ [LeaseNext]_leaseVars => [Register!Next]_<<LeaseHeld, LeaseGiven>>
    <2> SUFFICES ASSUME LeaseInv, LeaseInv', [LeaseNext]_leaseVars
                 PROVE  Register!Next \/ UNCHANGED <<LeaseHeld, LeaseGiven>>
        OBVIOUS
    <2>1. CASE UNCHANGED <<lease, heard>>
        BY <2>1 DEF LeaseHeld, LeaseGiven
    <2>2. ASSUME NEW n \in Process, NEW l \in announced, Hear(n, l)
          PROVE  Register!Next
        BY <2>2, HearGives DEF Register!Next
    <2> QED
        BY <2>1, <2>2 DEF LeaseNext, leaseVars, Announce
<1> QED
    BY <1>1, <1>2, LeaseInvAlways, PTL DEF LeaseSpec, Register!Spec, LeaseIsRegister
==============================================================================
