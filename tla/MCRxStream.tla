----------------------------- MODULE MCRxStream -----------------------------
(* RxStream for TLC.  The readers are alike.                               *)
EXTENDS RxStream, TLC

AlikeReaders == Permutations(Readers)
=============================================================================
