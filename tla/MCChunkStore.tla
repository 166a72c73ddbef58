---------------------------- MODULE MCChunkStore ----------------------------
(* TLC instances of ChunkStore: ann and carol have files that share a chunk,  *)
(* ann dials carol and bob dials both.                                        *)
EXTENDS ChunkStore, TLC

CONSTANTS ann, bob, carol, h1, h2

MCAgent == {ann, bob, carol}
MCHash == {h1, h2}
MCFiles == (ann :> {{h2}}) @@ (bob :> {}) @@ (carol :> {{h1}, {h1, h2}})
MCPeers == (ann :> {carol}) @@ (bob :> {ann, carol}) @@ (carol :> {})
==============================================================================
