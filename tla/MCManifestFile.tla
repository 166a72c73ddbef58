--------------------------- MODULE MCManifestFile ---------------------------
(* TLC instances of ManifestFile: the agent and two handlers at a time, and   *)
(* two updates, so that each of two savers may lack what the other has.       *)
EXTENDS ManifestFile

CONSTANTS h1, h2, u1, u2

MCHandler == {h1, h2}
MCUpdate == {u1, u2}
==============================================================================
