------------------------- MODULE MCManifestReplicas -------------------------
(* TLC instances of ManifestReplicas: one file, two replicas.                *)
EXTENDS ManifestReplicas, TLC

CONSTANTS file, alice, bob, h1, h2

MCName == {file}
MCAuthor == {alice, bob}
MCShort == [a \in MCAuthor |-> a]
MCContent == {<<>>, <<h1>>, <<h2>>}
MCContentRank == [c \in MCContent |-> CASE c = <<>> -> 0 [] c = <<h1>> -> 1 [] c = <<h2>> -> 2]
MCWall == {1, 2}

Edit(c) == [path |-> <<file>>, chunk_hashes |-> c, tombstone |-> FALSE]
Delete == [path |-> <<file>>, chunk_hashes |-> <<>>, tombstone |-> TRUE]

\* Alice and bob never write the same content.
DistinctDrafts == (alice :> {Edit(<<h1>>), Delete}) @@ (bob :> {Edit(<<h2>>)})

\* Both may delete the file.
CommonDrafts == (alice :> {Edit(<<h1>>), Delete}) @@ (bob :> {Delete})
==============================================================================
