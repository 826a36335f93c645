----------------------------- MODULE MCNotices -----------------------------
(***************************************************************************)
(* TLC instance of the job registry with the delivery of its notices.      *)
(***************************************************************************)
EXTENDS Notices
=============================================================================
