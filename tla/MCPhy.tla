------------------------------- MODULE MCPhy -------------------------------
(* Phy for TLC.  Two RF paths; a channel of each sub-band; and an EFUSE one *)
(* of whose paths holds bytes that are no index, as those of an EFUSE never *)
(* burnt, and bytes at the limits.                                          *)
EXTENDS Phy, TLC

MCBytes == <<0, 255, 63, 64>>
MCBurnt == {[p \in 1 .. Paths |->
              [g \in PowerGroups |-> IF p = 1 THEN 10 + g ELSE MCBytes[1 + (g % 4)]]]}

\* The program does not look at which thread it runs in.
MCSymmetry == Permutations(Callers)
=============================================================================
