------------------------------- MODULE TxPool -------------------------------
(* What the transmit path promises of its USB transfers, and no more: each   *)
(* buffer goes round from free to filled, sent, returned and free again, in  *)
(* that order.  Nobody fills a buffer that the USB stack holds, and none is   *)
(* freed before the stack has given it back.  Pipes, the lock, deadlines and *)
(* threads do not show.                                                      *)
(*                                                                           *)
(* The promise ends when all buffers are reclaimed by force: from then on    *)
(* `sound` is FALSE and anything may happen.                                 *)
CONSTANT Buffers

VARIABLES state, sound

States == {"free", "filled", "sent", "returned"}

Init == state = [b \in Buffers |-> "free"] /\ sound = TRUE

Moves(b, from, to) ==
  state[b] = from /\ state' = [state EXCEPT ![b] = to] /\ UNCHANGED sound

Fill(b)    == Moves(b, "free", "filled")
Send(b)    == Moves(b, "filled", "sent")
Abandon(b) == Moves(b, "filled", "free")
Release(b) == Moves(b, "returned", "free")

\* The stack gives back one buffer, or all that a cancel takes off a pipe.
GiveBack(B) ==
  /\ \A b \in B : state[b] = "sent"
  /\ state' = [b \in Buffers |-> IF b \in B THEN "returned" ELSE state[b]]
  /\ UNCHANGED sound

\* The buffers are reclaimed, whoever holds them.
Reclaim == sound' = FALSE

Next ==
  \/ /\ sound
     /\ \/ \E b \in Buffers : Fill(b) \/ Send(b) \/ Abandon(b) \/ Release(b)
        \/ \E B \in SUBSET Buffers : GiveBack(B)
  \/ Reclaim

Spec == Init /\ [][Next]_<<state, sound>>
=============================================================================
