----------------------------- MODULE MCStation -----------------------------
(* Station for TLC.  Access points and writers are model values: a run's   *)
(* .cfg says which access points are secure, which the last scan found, by *)
(* which ioctls the driver is joined, and how much may happen.             *)
EXTENDS Station
=============================================================================
