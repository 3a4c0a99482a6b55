---------------------------- MODULE MCPostAssoc ----------------------------
(* PostAssoc for TLC.  The registers are those the module names.           *)
EXTENDS PostAssoc

MCCallers == {Worker, Joiner}
=============================================================================
