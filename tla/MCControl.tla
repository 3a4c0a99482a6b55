----------------------------- MODULE MCControl -----------------------------
(* Control for TLC.  The callers are alike.                                *)
EXTENDS Control

AlikeCallers == Permutations(Callers)
=============================================================================
