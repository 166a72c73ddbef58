---------------------------- MODULE ProviderLease ----------------------------
(* The provider lease of crates/vault-manifest/src/lease.rs, among processes  *)
(* that keep hybrid logical clocks: a member that takes or renews the lease   *)
(* stamps it by a tick, and members merge the leases they hear of, in any     *)
(* order, any number of times, or never.  No binary calls the merge yet, so   *)
(* which argument is the lease at hand is left open.                          *)
EXTENDS HlcClocks, Integers

CONSTANTS
    Epoch,      \* epochs, a set of numbers
    Link,       \* what members measure: records [peers, rtt]
    Order       \* Order[n]: place of n's key in string order

ASSUME LeaseAssumption ==
    /\ Epoch \subseteq Nat
    /\ Link \subseteq [peers : Nat, rtt : Nat]
    /\ Order \in [Process -> Nat]
    /\ \A n, o \in Process : Order[n] = Order[o] => n = o

VARIABLES
    announced,  \* the leases that members have announced
    lease,      \* lease[n]: the lease n holds to, in a set, which begins empty
    heard       \* heard[n]: the leases n has merged (ghost)

leaseVars == <<vars, announced, lease, heard>>

LeaseInit ==
    /\ Init
    /\ announced = {}
    /\ lease = [n \in Process |-> {}]
    /\ heard = [n \in Process |-> {}]

connectivity_score(peers, rtt) == peers * 10 - rtt

\* (Faulty: a tie falls to whichever comes first.)
merge_first_on_tie(a, b) ==
    IF a.epoch # b.epoch THEN (IF a.epoch > b.epoch THEN a ELSE b)
    ELSE IF a.connectivity_score < b.connectivity_score THEN b ELSE a

\* (Faulty: the score counts before the epoch.)
merge_score_first(a, b) ==
    IF a.connectivity_score # b.connectivity_score
    THEN (IF a.connectivity_score > b.connectivity_score THEN a ELSE b)
    ELSE IF a.epoch # b.epoch THEN (IF a.epoch > b.epoch THEN a ELSE b)
    ELSE IF Order[a.holder_pubkey] <= Order[b.holder_pubkey] THEN a ELSE b

\* The later epoch, then the higher score, then the lower key; leases that
\* agree in all three differ in renewed_at at most, and the first is returned.
merge_lease(a, b) ==
    IF a.epoch # b.epoch THEN (IF a.epoch > b.epoch THEN a ELSE b)
    ELSE IF a.connectivity_score # b.connectivity_score
         THEN (IF a.connectivity_score > b.connectivity_score THEN a ELSE b)
    ELSE IF Order[a.holder_pubkey] <= Order[b.holder_pubkey] THEN a ELSE b

Announce(n, wall) ==
    /\ LocalEvent(n, wall)
    /\ \E e \in Epoch, k \in Link :
           announced' = announced \cup
               {[epoch |-> e, holder_pubkey |-> n,
                 connectivity_score |-> connectivity_score(k.peers, k.rtt),
                 renewed_at |-> Tick(clock[n], wall)]}
    /\ UNCHANGED <<lease, heard>>

Merged(n, l) ==
    IF lease[n] = {} THEN {l}
    ELSE UNION {{merge_lease(m, l), merge_lease(l, m)} : m \in lease[n]}

Hear(n, l) ==
    /\ \E m \in Merged(n, l) : lease' = [lease EXCEPT ![n] = {m}]
    /\ heard' = [heard EXCEPT ![n] = @ \cup {l}]
    /\ UNCHANGED <<vars, announced>>

LeaseNext ==
    \/ Next /\ UNCHANGED <<announced, lease, heard>>
    \/ \E n \in Process :
           \/ \E wall \in 0 .. MaxWall : Announce(n, wall)
           \/ \E l \in announced : Hear(n, l)

LeaseSpec == LeaseInit /\ [][LeaseNext]_leaseVars

------------------------------------------------------------------------------
LeaseOutranks(a, b) ==
    \/ a.epoch > b.epoch
    \/ /\ a.epoch = b.epoch
       /\ \/ a.connectivity_score > b.connectivity_score
          \/ /\ a.connectivity_score = b.connectivity_score
             /\ Order[a.holder_pubkey] < Order[b.holder_pubkey]

LeaseHeld == [n \in Process |-> [k \in {"lease" : l \in lease[n]} |-> CHOOSE l \in lease[n] : TRUE]]
LeaseGiven == [n \in Process |-> {<<"lease", l>> : l \in heard[n]}]

Register == INSTANCE LastWriterWins WITH
    Replica <- Process, Outranks <- LeaseOutranks, held <- LeaseHeld, given <- LeaseGiven

\* "Leaderless failover without a consensus round": the merge makes of each
\* member's lease a last-writer-wins register.  A member never holds to a
\* lease that one it has heard of outranks, whatever order they came in.
LeaseIsRegister == Register!Spec

\* "So every replica picks the same winner independently": members that have
\* heard of the same leases hold to the same provider, in the same epoch and
\* with the same score, in whatever order they heard of them.
SameLeasesSameProvider ==
    \A n, o \in Process : heard[n] = heard[o] =>
        \A a \in lease[n], b \in lease[o] :
            /\ a.epoch = b.epoch /\ a.holder_pubkey = b.holder_pubkey
            /\ a.connectivity_score = b.connectivity_score
==============================================================================
