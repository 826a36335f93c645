---------------------------- MODULE MCCompaction ----------------------------
(***************************************************************************)
(* TLC instance of compaction over a resumed log with one tool call.       *)
(***************************************************************************)
EXTENDS Compaction
=============================================================================
