--------------------------- MODULE MCProviderLease ---------------------------
(* TLC instance of ProviderLease: two members, wall readings 0 to 2 and a     *)
(* counter of four values, so that clocks stall, step back and run out; two   *)
(* epochs, and links of two scores.                                           *)
EXTENDS ProviderLease, TLC

CONSTANTS a, b

MCProcess == {a, b}
MCOrder == (a :> 1) @@ (b :> 2)
MCEpoch == {1, 2}
MCLink == {[peers |-> 1, rtt |-> 4], [peers |-> 0, rtt |-> 4]}
==============================================================================
