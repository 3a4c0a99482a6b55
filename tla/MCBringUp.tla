------------------------------ MODULE MCBringUp ------------------------------
(* BringUp for TLC.  The EFUSEs: one never burnt; an entry with no word and *)
(* a group outside the map before one inside; and a chain that fills the    *)
(* cells to the last, with a word burnt over under a long header.           *)
EXTENDS BringUp

MCBurnt == { <<>>,
             <<31, 47, 30, 14, 15, 14, 8, 9>>,
             <<27, 5, 6, 47, 11, 1, 2, 31>> }

MCChunks == [dmem |-> 2, imem |-> 1]

MCFuses == {[c \in 0 .. Cells - 1 |-> IF c < Len(s) THEN s[c + 1] ELSE 255] : s \in MCBurnt}
=============================================================================
