------------------------------- MODULE MCScan -------------------------------
(* Scan for TLC.  Requesters are model values, given by a run's .cfg.       *)
EXTENDS Scan
=============================================================================
