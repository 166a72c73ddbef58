------------------------------ MODULE MCChunker ------------------------------
(* TLC instance of Chunker: pairs of short files that end in the same bytes   *)
(* and may differ before, in content and in length.                           *)
EXTENDS Chunker

MCByte == {0, 1}
MCTable == [b \in MCByte |-> IF b = 0 THEN {0} ELSE {1, 2}]
MCFile == {"original", "edited"}

Strings(lengths) == UNION {[1 .. n -> MCByte] : n \in lengths}

MCContents ==
    {[f \in MCFile |-> IF f = "original" THEN one \o tail ELSE other \o tail] :
        one \in Strings({3}), other \in Strings({0, 4}), tail \in Strings({6})}
==============================================================================
