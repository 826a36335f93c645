-------------------------- MODULE MCToolScheduler --------------------------
(***************************************************************************)
(* TLC instance of the tool scheduler.                                     *)
(***************************************************************************)
EXTENDS ToolScheduler
=============================================================================
