--------------------------- MODULE MCWriteBehind ---------------------------
(* TLC instance of the write path: a few events, up to two waiting flushes. *)
EXTENDS WriteBehind
=============================================================================
