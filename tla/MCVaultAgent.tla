---------------------------- MODULE MCVaultAgent ----------------------------
(* TLC instances of VaultAgent: two agents that dial each other, one file,   *)
(* which may be empty or of two chunks.                                       *)
EXTENDS VaultAgent, TLC

CONSTANTS file, alice, bob, h1, h2

MCName == {file}
MCAuthor == {alice, bob}
MCAlice == {alice}
MCShort == [a \in MCAuthor |-> a]
MCContent == {<<>>, <<h1, h2>>}
MCContentRank == (<<>> :> 0) @@ (<<h1, h2>> :> 1)

\* One chunk a file, where how chunks are fetched does not matter.
MCSmallContent == {<<>>, <<h1>>}
MCSmallContentRank == (<<>> :> 0) @@ (<<h1>> :> 1)

MCUserPath == {<<file>>}
MCPeers == (alice :> <<bob>>) @@ (bob :> <<alice>>)

\* Bob only listens.
MCOneWay == (alice :> <<bob>>) @@ (bob :> <<>>)

OneEach == [a \in MCAuthor |-> 1]

\* Wall clocks agree and no two stamps are taken in the same millisecond.
Synchronized == [a \in MCAuthor |-> 0]
OneByOne == {1}

\* Alice's wall clock is ahead of bob's, by more than passes between stamps.
Skewed == (alice :> 1) @@ (bob :> 0)
==============================================================================
