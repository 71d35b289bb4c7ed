-------------------------- MODULE MCCollectorWriter --------------------------
(* Small instances of CollectorWriter for TLC.                             *)
EXTENDS CollectorWriter
=============================================================================
