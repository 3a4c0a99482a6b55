---------------------------- MODULE MCLifecycle ----------------------------
(* Lifecycle for TLC.  Two adapters come and go in two slots, and a slot is  *)
(* used again; two clients open, close and free, and open again.             *)
EXTENDS Lifecycle
=============================================================================
