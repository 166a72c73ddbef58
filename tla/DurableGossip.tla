---------------------------- MODULE DurableGossip ----------------------------
(* What the vault's agents are to each other, without their threads, locks,   *)
(* exchanges and directories: replicas that put values of their own into      *)
(* their state, send the whole of it over a network that loses, repeats and   *)
(* reorders, put what arrives one value at a time, from several messages in   *)
(* any order, and fall back to what they last saved when they are killed.     *)
(* A message is put whole before anything else is done with the state.        *)
CONSTANTS
    Replica,
    Put(_, _, _),   \* Put(m, k, v): state m when value v has come in for key k
    By(_)           \* By(v): the replica that made the value v

VARIABLES
    held,   \* held[n]: the state of n, a function from keys to values
    saved,  \* saved[n]: the state n would start from
    mail,   \* the states under way, each as often as the network likes
    partial \* the replicas whose state has some values of a message in it and
            \* not yet the others

Init ==
    /\ held = [n \in Replica |-> [k \in {} |-> 0]]
    /\ saved = held
    /\ mail = {}
    /\ partial = {}

\* States are sent, and lost, at any time and alongside anything else.
Traffic == mail' \subseteq mail \cup {held[n] : n \in Replica \ partial}

Become(n, m) == held' = [held EXCEPT ![n] = m]

\* n makes a value of its own, and it is put.  (Where that leaves no trace of
\* the value, it leaves the state as it is.)
Make(n) ==
    /\ n \notin partial
    /\ \E k, j \in DOMAIN held'[n] :
           LET v == held'[n][j] IN By(v) = n /\ Become(n, Put(held[n], k, v))
    /\ UNCHANGED <<saved, partial>>

\* A value that arrives is put, and others of its message may be left.
Learn(n) ==
    /\ \E m \in mail : \E k \in DOMAIN m : Become(n, Put(held[n], k, m[k]))
    /\ partial' \in {partial \ {n}, partial \cup {n}}
    /\ UNCHANGED saved

Save(n) ==
    /\ n \notin partial
    /\ saved' = [saved EXCEPT ![n] = held[n]]
    /\ UNCHANGED <<held, partial>>

\* What has been put of a message is gone as well.
Crash(n) ==
    /\ Become(n, saved[n])
    /\ partial' = partial \ {n}
    /\ UNCHANGED saved

Next ==
    /\ Traffic
    /\ \/ UNCHANGED <<held, saved, partial>>
       \/ \E n \in Replica : Make(n) \/ Learn(n) \/ Save(n) \/ Crash(n)

Spec == Init /\ [][Next]_<<held, saved, mail, partial>>
==============================================================================
