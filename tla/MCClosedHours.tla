---------------------------- MODULE MCClosedHours ----------------------------
(* Small instances of ClosedHours for TLC.                                 *)
EXTENDS ClosedHours
=============================================================================
