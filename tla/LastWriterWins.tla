--------------------------- MODULE LastWriterWins ---------------------------
(* What the repository's two merges promise, Manifest::merge for the files of *)
(* a manifest and merge_lease for the provider lease: replicas are given      *)
(* values for keys, in any order and any number of times, and each holds for  *)
(* every key a value it was given that none it was given outranks.            *)
EXTENDS Naturals

CONSTANTS
    Replica,
    Outranks(_, _)      \* Outranks(v, w): v goes before w, whoever compares them

VARIABLES
    held,       \* held[n]: the values n holds, a function from its keys
    given       \* given[n]: the pairs <<key, value>> that n was given

Init ==
    /\ held = [n \in Replica |-> [k \in {} |-> 0]]
    /\ given = [n \in Replica |-> {}]

\* n is given the pair g, and may choose anew for its key, and for no other.
Give(n, g) ==
    LET k == g[1] IN
    /\ given' = [given EXCEPT ![n] = @ \cup {g}]
    /\ \A o \in Replica \ {n} : held'[o] = held[o]
    /\ DOMAIN held'[n] = DOMAIN held[n] \cup {k}
    /\ \A j \in DOMAIN held[n] \ {k} : held'[n][j] = held[n][j]
    /\ <<k, held'[n][k]>> \in given'[n]
    /\ \A h \in given'[n] : h[1] = k => ~Outranks(h[2], held'[n][k])

Next == \E n \in Replica : \E g \in given'[n] : Give(n, g)

Spec == Init /\ [][Next]_<<held, given>>
==============================================================================
