--------------------------- MODULE TxSlotsProofs ---------------------------
(* Theorems about TxSlots, for any number of pipes, slots and threads.     *)
EXTENDS TxSlots, TLAPS

\* There is a slot, and every slot is one of a pipe.
LEMMA SlotFacts ==
  /\ AnySlot \in Slots
  /\ \A s \in Slots : PipeOf(s) \in Pipes
<1>1. PICK p \in Pipes : TRUE
  BY TxSlotsAssumption
<1>2. <<p, 0>> \in Slots
  BY TxSlotsAssumption DEF Slots
<1>3. AnySlot \in Slots
  BY <1>2 DEF AnySlot
<1> QED
  BY <1>3 DEF Slots, PipeOf

-----------------------------------------------------------------------------
(* Types.                                                                  *)

\* The initial state is of the right types.
LEMMA InitType == Init => TypeOK
<1> SUFFICES ASSUME Init PROVE TypeOK
  OBVIOUS
<1>1. AnySlot \in Slots /\ PipeOf(AnySlot) \in Pipes
  BY SlotFacts
<1>2. NoOne \in Senders \cup {NoOne}
  OBVIOUS
<1> QED
  BY <1>1, <1>2, TxSlotsAssumption DEF Init, TypeOK, None

\* What cancel_queued_transfers does keeps the types of what it touches.
LEMMA CancelQueuedType ==
  ASSUME NEW r \in Runners, NEW p \in Pipes, TypeOK, CancelQueued(r, p)
  PROVE  todo' \in [Runners -> [Slots -> Nat]] /\ flight' \in [Slots -> Nat]
<1>1. flight' \in [Slots -> Nat]
  BY DEF TypeOK, CancelQueued
<1>2. [s \in Slots |-> IF PipeOf(s) = p THEN todo[r][s] + flight[s]
                       ELSE todo[r][s]] \in [Slots -> Nat]
  BY DEF TypeOK
<1> QED
  BY <1>1, <1>2 DEF TypeOK, CancelQueued

\* Every step keeps the types.
LEMMA StepType == TypeOK /\ [Next]_vars => TypeOK'
<1> SUFFICES ASSUME TypeOK, [Next]_vars PROVE TypeOK'
  OBVIOUS
<1> USE DEF TypeOK, At, Goto, senderVars, closerVars, cbVars, boundVars
<1>1. ASSUME NEW t \in Senders, NEW p \in Pipes, CallTransmit(t, p) PROVE TypeOK'
  BY <1>1 DEF CallTransmit
<1>2. ASSUME NEW t \in Senders, TransmitLock(t) PROVE TypeOK'
  BY <1>2 DEF TransmitLock
<1>3. ASSUME NEW t \in Senders, TransmitClaim(t) PROVE TypeOK'
  BY <1>3 DEF TransmitClaim
<1>4. ASSUME NEW t \in Senders, TransmitFull(t) PROVE TypeOK'
  BY <1>4 DEF TransmitFull
<1>5. ASSUME NEW t \in Senders, TransmitWake(t) PROVE TypeOK'
  BY <1>5 DEF TransmitWake, TakeToken
<1>6. ASSUME NEW t \in Senders, DeadlinePasses(t) PROVE TypeOK'
  BY <1>6 DEF DeadlinePasses
<1>7. ASSUME NEW t \in Senders, TransmitSubmit(t) PROVE TypeOK'
  <2>1. flight' \in [Slots -> Nat]
    <3>1. CASE flight' = [flight EXCEPT ![slot[t]] = @ + 1]
      BY <3>1
    <3> QED
      BY <1>7, <3>1 DEF TransmitSubmit, SubmitFails
  <2>2. pc' \in [Senders -> {"idle", "lock", "scan", "wait", "submit", "unclaim",
                             "recover", "read", "cancel"}]
    BY <1>7 DEF TransmitSubmit, SubmitFails
  <2> QED
    BY <1>7, <2>1, <2>2 DEF TransmitSubmit, SubmitFails
<1>8. ASSUME NEW t \in Senders, TransmitUnclaim(t) PROVE TypeOK'
  BY <1>8 DEF TransmitUnclaim
<1>9. ASSUME NEW t \in Senders, RecoverStalledPipe(t) PROVE TypeOK'
  BY <1>9 DEF RecoverStalledPipe
<1>10. ASSUME NEW t \in Senders, RecoverDone(t) PROVE TypeOK'
  BY <1>10 DEF RecoverDone
<1>11. CASE CancelAll
  BY <1>11 DEF CancelAll
<1>12. ASSUME NEW p \in Pipes, CancelPipe(p) PROVE TypeOK'
  <2>1. Closer \in Runners
    BY DEF Runners
  <2> QED
    BY <1>12, <2>1, CancelQueuedType DEF CancelPipe
<1>13. CASE CancelReclaim
  BY <1>13 DEF CancelReclaim
<1>14. ASSUME NEW s \in Slots, Complete(s) PROVE TypeOK'
  BY <1>14 DEF Complete, Runners
<1>15. ASSUME NEW r \in Runners, NEW s \in Slots, CallBackCancelled(r, s) PROVE TypeOK'
  <2>1. [todo[r] EXCEPT ![s] = @ - 1] \in [Slots -> Nat]
    BY <1>15 DEF CallBackCancelled
  <2>2. todo' \in [Runners -> [Slots -> Nat]]
    BY <1>15, <2>1 DEF CallBackCancelled
  <2> QED
    BY <1>15, <2>2 DEF CallBackCancelled
<1>16. ASSUME NEW r \in Runners, CallbackClear(r) PROVE TypeOK'
  BY <1>16 DEF CallbackClear
<1>17. ASSUME NEW r \in Runners, CallbackRelease(r) PROVE TypeOK'
  <2>1. PipeOf(cbSlot[r]) \in Pipes
    BY SlotFacts
  <2> QED
    BY <1>17, <2>1 DEF CallbackRelease
<1>18. ASSUME NEW t \in Senders, CancelStalledPipe(t) PROVE TypeOK'
  <2>1. t \in Runners /\ pipe[t] \in Pipes
    BY DEF Runners
  <2>2. CancelQueued(t, pipe[t])
    BY <1>18 DEF CancelStalledPipe
  <2> QED
    BY <1>18, <2>1, <2>2, CancelQueuedType DEF CancelStalledPipe
<1>19. CASE UNCHANGED vars
  BY <1>19 DEF vars
<1> QED
  BY <1>1, <1>2, <1>3, <1>4, <1>5, <1>6, <1>7, <1>8, <1>9, <1>10, <1>11, <1>12,
     <1>13, <1>14, <1>15, <1>16, <1>17, <1>18, <1>19
     DEF Next, Transmit, Cancelling, Callback

\* Type correctness of the whole pool.
THEOREM TypeCorrect == Spec => []TypeOK
<1> QED
  BY InitType, StepType, PTL DEF Spec
-----------------------------------------------------------------------------
(* No slot leaks.  Together with the types the property is inductive: every *)
(* step that stops answering for a slot hands it on or marks it free.       *)

LEMMA StepLeaks == TypeOK /\ NoSlotLeaks /\ [Next]_vars => NoSlotLeaks'
<1> SUFFICES ASSUME TypeOK, NoSlotLeaks, [Next]_vars,
                    NEW s \in Slots, inUse'[s]
             PROVE  Held(s)'
  BY DEF NoSlotLeaks
<1> USE DEF TypeOK, At, Goto, senderVars, closerVars, cbVars, boundVars
<1>0. inUse[s] => Held(s)
  BY DEF NoSlotLeaks
<1>1. ASSUME NEW t \in Senders, NEW p \in Pipes, CallTransmit(t, p) PROVE Held(s)'
  BY <1>0, <1>1 DEF CallTransmit, Held, Claims, Clearing
<1>2. ASSUME NEW t \in Senders, TransmitLock(t) PROVE Held(s)'
  BY <1>0, <1>2 DEF TransmitLock, Held, Claims, Clearing
<1>3. ASSUME NEW t \in Senders, TransmitClaim(t) PROVE Held(s)'
  BY <1>0, <1>3 DEF TransmitClaim, Held, Claims, Clearing
<1>4. ASSUME NEW t \in Senders, TransmitFull(t) PROVE Held(s)'
  BY <1>0, <1>4 DEF TransmitFull, Held, Claims, Clearing
<1>5. ASSUME NEW t \in Senders, TransmitWake(t) PROVE Held(s)'
  BY <1>0, <1>5 DEF TransmitWake, TakeToken, Held, Claims, Clearing
<1>6. ASSUME NEW t \in Senders, DeadlinePasses(t) PROVE Held(s)'
  BY <1>0, <1>6 DEF DeadlinePasses, Held, Claims, Clearing
<1>7. ASSUME NEW t \in Senders, TransmitSubmit(t) PROVE Held(s)'
  BY <1>0, <1>7 DEF TransmitSubmit, SubmitFails, Held, Claims, Clearing
<1>8. ASSUME NEW t \in Senders, TransmitUnclaim(t) PROVE Held(s)'
  BY <1>0, <1>8 DEF TransmitUnclaim, Held, Claims, Clearing
<1>9. ASSUME NEW t \in Senders, RecoverStalledPipe(t) PROVE Held(s)'
  BY <1>0, <1>9 DEF RecoverStalledPipe, Held, Claims, Clearing
<1>10. ASSUME NEW t \in Senders, RecoverDone(t) PROVE Held(s)'
  BY <1>0, <1>10 DEF RecoverDone, Held, Claims, Clearing
<1>11. CASE CancelAll
  BY <1>0, <1>11 DEF CancelAll, Held, Claims, Clearing
<1>12. ASSUME NEW p \in Pipes, CancelPipe(p) PROVE Held(s)'
  BY <1>0, <1>12 DEF CancelPipe, CancelQueued, Runners, Held, Claims, Clearing
<1>13. CASE CancelReclaim
  BY <1>0, <1>13 DEF CancelReclaim, Held, Claims, Clearing
<1>14. ASSUME NEW q \in Slots, Complete(q) PROVE Held(s)'
  BY <1>0, <1>14 DEF Complete, Runners, Held, Claims, Clearing
<1>15. ASSUME NEW r \in Runners, NEW q \in Slots, CallBackCancelled(r, q) PROVE Held(s)'
  BY <1>0, <1>15 DEF CallBackCancelled, Held, Claims, Clearing
<1>16. ASSUME NEW r \in Runners, CallbackClear(r) PROVE Held(s)'
  BY <1>0, <1>16 DEF CallbackClear, Held, Claims, Clearing
<1>17. ASSUME NEW r \in Runners, CallbackRelease(r) PROVE Held(s)'
  BY <1>0, <1>17 DEF CallbackRelease, Held, Claims, Clearing
<1>18. ASSUME NEW t \in Senders, CancelStalledPipe(t) PROVE Held(s)'
  <2>1. t \in Runners
    BY DEF Runners
  <2>2. CASE flight[s] > 0 \/ \E r \in Runners : todo[r][s] > 0
    BY <1>18, <2>1, <2>2 DEF CancelStalledPipe, CancelQueued, Held
  <2>3. CASE \E r \in Runners : Clearing(r, s)
    BY <1>18, <2>3 DEF CancelStalledPipe, Held, Clearing
  <2>4. CASE \E u \in Senders : Claims(u, s)
    BY <1>18, <2>4 DEF CancelStalledPipe, Held, Claims
  <2> QED
    BY <1>0, <1>18, <2>2, <2>3, <2>4 DEF CancelStalledPipe, Held
<1>19. CASE UNCHANGED vars
  BY <1>0, <1>19 DEF vars, Held, Claims, Clearing
<1> QED
  BY <1>1, <1>2, <1>3, <1>4, <1>5, <1>6, <1>7, <1>8, <1>9, <1>10, <1>11, <1>12,
     <1>13, <1>14, <1>15, <1>16, <1>17, <1>18, <1>19
     DEF Next, Transmit, Cancelling, Callback

\* A slot that is in use is always somebody's to free.
THEOREM NoLeaks == Spec => []NoSlotLeaks
<1>1. Init => NoSlotLeaks
  BY DEF Init, NoSlotLeaks
<1>2. TypeOK /\ NoSlotLeaks /\ [Next]_vars => (TypeOK /\ NoSlotLeaks)'
  BY StepType, StepLeaks
<1> QED
  BY <1>1, <1>2, InitType, PTL DEF Spec
-----------------------------------------------------------------------------
(* Exclusion.  With the types the property is inductive; nothing is claimed  *)
(* once CancelAll has returned, so its last step has nothing to preserve.    *)

Exclusive(s) == (Held(s) => inUse[s]) /\ SoleHolder(s)

\* Every step keeps the exclusion.
LEMMA StepExclusive ==
  TypeOK /\ SlotExclusive /\ [Next]_vars => SlotExclusive'
<1> SUFFICES ASSUME TypeOK, SlotExclusive, [Next]_vars, cancelled' = "no",
                    NEW s \in Slots
             PROVE  Exclusive(s)'
  BY DEF SlotExclusive, Exclusive
<1> USE DEF TypeOK, At, Goto, senderVars, closerVars, cbVars, boundVars
<1>0. cancelled = "no" => Exclusive(s)
  BY DEF SlotExclusive, Exclusive
<1>1. ASSUME NEW t \in Senders, NEW p \in Pipes, CallTransmit(t, p) PROVE Exclusive(s)'
  BY <1>0, <1>1 DEF CallTransmit, Exclusive, Held, SoleHolder, Claims, Clearing
<1>2. ASSUME NEW t \in Senders, TransmitLock(t) PROVE Exclusive(s)'
  BY <1>0, <1>2 DEF TransmitLock, Exclusive, Held, SoleHolder, Claims, Clearing
<1>3. ASSUME NEW t \in Senders, TransmitClaim(t) PROVE Exclusive(s)'
  BY <1>0, <1>3 DEF TransmitClaim, FreeTransfer, Exclusive, Held, SoleHolder, Claims, Clearing
<1>4. ASSUME NEW t \in Senders, TransmitFull(t) PROVE Exclusive(s)'
  BY <1>0, <1>4 DEF TransmitFull, Exclusive, Held, SoleHolder, Claims, Clearing
<1>5. ASSUME NEW t \in Senders, TransmitWake(t) PROVE Exclusive(s)'
  BY <1>0, <1>5 DEF TransmitWake, TakeToken, Exclusive, Held, SoleHolder, Claims, Clearing
<1>6. ASSUME NEW t \in Senders, DeadlinePasses(t) PROVE Exclusive(s)'
  BY <1>0, <1>6 DEF DeadlinePasses, Exclusive, Held, SoleHolder, Claims, Clearing
<1>7. ASSUME NEW t \in Senders, TransmitSubmit(t) PROVE Exclusive(s)'
  BY <1>0, <1>7 DEF TransmitSubmit, SubmitFails, Exclusive, Held, SoleHolder, Claims, Clearing
<1>8. ASSUME NEW t \in Senders, TransmitUnclaim(t) PROVE Exclusive(s)'
  BY <1>0, <1>8 DEF TransmitUnclaim, Exclusive, Held, SoleHolder, Claims, Clearing
<1>9. ASSUME NEW t \in Senders, RecoverStalledPipe(t) PROVE Exclusive(s)'
  BY <1>0, <1>9 DEF RecoverStalledPipe, Exclusive, Held, SoleHolder, Claims, Clearing
<1>10. ASSUME NEW t \in Senders, RecoverDone(t) PROVE Exclusive(s)'
  BY <1>0, <1>10 DEF RecoverDone, Exclusive, Held, SoleHolder, Claims, Clearing
<1>11. CASE CancelAll
  BY <1>0, <1>11 DEF CancelAll, Exclusive, Held, SoleHolder, Claims, Clearing
<1>12. ASSUME NEW p \in Pipes, CancelPipe(p) PROVE Exclusive(s)'
  BY <1>0, <1>12 DEF CancelPipe, CancelQueued, Runners, Exclusive, Held, SoleHolder, Claims, Clearing
<1>13. CASE CancelReclaim
  BY <1>0, <1>13 DEF CancelReclaim, Exclusive, Held, SoleHolder, Claims, Clearing
<1>14. ASSUME NEW q \in Slots, Complete(q) PROVE Exclusive(s)'
  BY <1>0, <1>14 DEF Complete, Runners, Exclusive, Held, SoleHolder, Claims, Clearing
<1>15. ASSUME NEW r \in Runners, NEW q \in Slots, CallBackCancelled(r, q) PROVE Exclusive(s)'
  BY <1>0, <1>15 DEF CallBackCancelled, Exclusive, Held, SoleHolder, Claims, Clearing
<1>16. ASSUME NEW r \in Runners, CallbackClear(r) PROVE Exclusive(s)'
  BY <1>0, <1>16 DEF CallbackClear, Exclusive, Held, SoleHolder, Claims, Clearing
<1>17. ASSUME NEW r \in Runners, CallbackRelease(r) PROVE Exclusive(s)'
  BY <1>0, <1>17 DEF CallbackRelease, Exclusive, Held, SoleHolder, Claims, Clearing
<1>18. ASSUME NEW t \in Senders, CancelStalledPipe(t) PROVE Exclusive(s)'
  BY <1>0, <1>18
     DEF CancelStalledPipe, CancelQueued, Runners, Exclusive, Held, SoleHolder,
         Claims, Clearing
<1>19. CASE UNCHANGED vars
  BY <1>0, <1>19 DEF vars, Exclusive, Held, SoleHolder, Claims, Clearing
<1> QED
  BY <1>1, <1>2, <1>3, <1>4, <1>5, <1>6, <1>7, <1>8, <1>9,
     <1>10, <1>11, <1>12, <1>13, <1>14, <1>15, <1>16, <1>17, <1>18, <1>19
     DEF Next, Transmit, Cancelling, Callback

\* Until CancelAll has been used, no slot and no buffer has two holders, and a
\* slot with a holder is marked in use.
THEOREM Exclusion == Spec => []SlotExclusive
<1>1. Init => SlotExclusive
  BY DEF Init, SlotExclusive, Held, SoleHolder, Claims, Clearing, None
<1>2. TypeOK /\ SlotExclusive /\ [Next]_vars => (TypeOK /\ SlotExclusive)'
  BY StepType, StepExclusive
<1> QED
  BY <1>1, <1>2, InitType, PTL DEF Spec

-----------------------------------------------------------------------------
(* TxSlots implements TxPool: with SlotExclusive a slot has one holder, so  *)
(* each step moves the slots it touches one place on in the round.          *)

\* One slot goes from one place of the round to another, and no other moves.
Moved(q, from, to) ==
  /\ Holding(q) = from /\ Holding(q)' = to
  /\ \A s \in Slots \ {q} : Holding(s)' = Holding(s)

Unmoved == \A s \in Slots : Holding(s)' = Holding(s)

\* A cancel takes back what the stack holds of one pipe.
TakenBack(p) ==
  \A s \in Slots :
    Holding(s)' = IF PipeOf(s) = p /\ Holding(s) = "sent" THEN "returned"
                  ELSE Holding(s)

\* A slot that moves alone makes the step of the same name in TxPool.
LEMMA MovedMaps ==
  ASSUME NEW q \in Slots, NEW from, NEW to, Moved(q, from, to),
         cancelled = "no", cancelled' = "no"
  PROVE  Pool!Moves(q, from, to)
<1>1. [s \in Slots |-> Holding(s)]' = [[s \in Slots |-> Holding(s)] EXCEPT ![q] = to]
  BY DEF Moved
<1>2. [s \in Slots |-> Holding(s)][q] = from
  BY DEF Moved
<1> QED
  BY <1>1, <1>2 DEF Pool!Moves

\* Slots that do not move are a stuttering step of TxPool.
LEMMA UnmovedMaps ==
  ASSUME Unmoved, cancelled = "no", cancelled' = "no"
  PROVE  UNCHANGED <<[s \in Slots |-> Holding(s)], cancelled = "no">>
<1>1. [s \in Slots |-> Holding(s)]' = [s \in Slots |-> Holding(s)]
  BY DEF Unmoved
<1> QED
  BY <1>1

\* What a cancel takes back the stack gives back, in TxPool.
LEMMA TakenBackMaps ==
  ASSUME NEW p, TakenBack(p), cancelled = "no", cancelled' = "no"
  PROVE  \E B \in SUBSET Slots : Pool!GiveBack(B)
<1> DEFINE B == {s \in Slots : PipeOf(s) = p /\ Holding(s) = "sent"}
<1>1. [s \in Slots |-> Holding(s)]'
        = [b \in Slots |-> IF b \in B THEN "returned"
                           ELSE [s \in Slots |-> Holding(s)][b]]
  BY DEF TakenBack
<1>2. \A b \in B : [s \in Slots |-> Holding(s)][b] = "sent"
  OBVIOUS
<1>3. B \in SUBSET Slots
  OBVIOUS
<1>4. Pool!GiveBack(B)
  BY <1>1, <1>2 DEF Pool!GiveBack
<1> QED
  BY <1>3, <1>4

-----------------------------------------------------------------------------
\* Every step, until the slots are reclaimed by force, moves one slot along the
\* round, or takes back a pipe's, or moves none.
LEMMA StepMoves ==
  ASSUME TypeOK, SlotExclusive, [Next]_vars, cancelled = "no", cancelled' = "no"
  PROVE  \/ Unmoved
         \/ \E p \in Pipes : TakenBack(p)
         \/ \E q \in Slots : \/ Moved(q, "free", "filled")
                             \/ Moved(q, "filled", "sent")
                             \/ Moved(q, "filled", "free")
                             \/ Moved(q, "sent", "returned")
                             \/ Moved(q, "returned", "free")
<1> DEFINE Goal == \/ Unmoved
                   \/ \E p \in Pipes : TakenBack(p)
                   \/ \E q \in Slots : \/ Moved(q, "free", "filled")
                                       \/ Moved(q, "filled", "sent")
                                       \/ Moved(q, "filled", "free")
                                       \/ Moved(q, "sent", "returned")
                                       \/ Moved(q, "returned", "free")
<1> USE DEF TypeOK, At, Goto, senderVars, closerVars, cbVars, boundVars
<1>0. \A s \in Slots : (Held(s) => inUse[s]) /\ SoleHolder(s)
  BY DEF SlotExclusive
<1>1. ASSUME NEW t \in Senders, NEW p \in Pipes, CallTransmit(t, p) PROVE Unmoved
  BY <1>1 DEF CallTransmit, Unmoved, Holding, Claims
<1>2. ASSUME NEW t \in Senders, TransmitLock(t) PROVE Unmoved
  BY <1>2 DEF TransmitLock, Unmoved, Holding, Claims
<1>3. ASSUME NEW t \in Senders, TransmitClaim(t)
      PROVE  \E q \in Slots : Moved(q, "free", "filled")
  <2>1. PICK q \in Slots : /\ FreeTransfer(pipe[t], q)
                           /\ inUse' = [inUse EXCEPT ![q] = TRUE]
                           /\ slot' = [slot EXCEPT ![t] = q]
    BY <1>3 DEF TransmitClaim
  <2>2. Holding(q) = "free" /\ flight[q] = 0
    BY <2>1, <1>0 DEF FreeTransfer, Holding, Held
  <2>3. Holding(q)' = "filled"
    BY <1>3, <2>1, <2>2 DEF TransmitClaim, Holding, Claims
  <2>4. \A s \in Slots \ {q} : Holding(s)' = Holding(s)
    BY <1>3, <2>1 DEF TransmitClaim, Holding, Claims
  <2> QED
    BY <2>2, <2>3, <2>4 DEF Moved
<1>4. ASSUME NEW t \in Senders, TransmitFull(t) PROVE Unmoved
  BY <1>4 DEF TransmitFull, Unmoved, Holding, Claims
<1>5. ASSUME NEW t \in Senders, TransmitWake(t) PROVE Unmoved
  BY <1>5 DEF TransmitWake, TakeToken, Unmoved, Holding, Claims
<1>6. ASSUME NEW t \in Senders, DeadlinePasses(t) PROVE Unmoved
  BY <1>6 DEF DeadlinePasses, Unmoved, Holding, Claims
<1>7. ASSUME NEW t \in Senders, TransmitSubmit(t)
      PROVE  Unmoved \/ Moved(slot[t], "filled", "sent")
  <2>1. CASE SubmitFails(t)
    BY <1>7, <2>1 DEF TransmitSubmit, SubmitFails, Unmoved, Holding, Claims
  <2>2. CASE /\ flight' = [flight EXCEPT ![slot[t]] = @ + 1]
             /\ Goto(t, "idle")
    <3>1. slot[t] \in Slots /\ Claims(t, slot[t])
      BY <1>7 DEF TransmitSubmit, Claims
    <3>2. Holding(slot[t]) = "filled" /\ flight[slot[t]] = 0
      BY <3>1, <1>0 DEF Holding, Held, SoleHolder
    <3>3. Holding(slot[t])' = "sent"
      BY <1>7, <2>2, <3>1, <3>2, <1>0 DEF TransmitSubmit, Holding, Held
    <3>4. \A s \in Slots \ {slot[t]} : Holding(s)' = Holding(s)
      BY <1>7, <2>2, <3>1 DEF TransmitSubmit, Holding, Claims
    <3> QED
      BY <3>2, <3>3, <3>4 DEF Moved
  <2> QED
    BY <1>7, <2>1, <2>2 DEF TransmitSubmit
<1>8. ASSUME NEW t \in Senders, TransmitUnclaim(t) PROVE Moved(slot[t], "filled", "free")
  <2>1. slot[t] \in Slots /\ Claims(t, slot[t])
    BY <1>8 DEF TransmitUnclaim, Claims
  <2>2. Holding(slot[t]) = "filled"
    BY <2>1, <1>0 DEF Holding, Held, SoleHolder
  <2>3. Holding(slot[t])' = "free"
    BY <1>8, <2>1 DEF TransmitUnclaim, Holding
  <2>4. \A s \in Slots \ {slot[t]} : Holding(s)' = Holding(s)
    BY <1>8, <2>1 DEF TransmitUnclaim, Holding, Claims
  <2> QED
    BY <2>2, <2>3, <2>4 DEF Moved
<1>9. ASSUME NEW t \in Senders, RecoverStalledPipe(t) PROVE Unmoved
  BY <1>9 DEF RecoverStalledPipe, Unmoved, Holding, Claims
<1>10. ASSUME NEW t \in Senders, RecoverDone(t) PROVE Unmoved
  BY <1>10 DEF RecoverDone, Unmoved, Holding, Claims
<1>11. CASE CancelAll
  <2> Unmoved
    BY <1>11 DEF CancelAll, Unmoved, Holding, Claims
  <2> QED
    OBVIOUS
<1>12. ASSUME NEW p \in Pipes, CancelPipe(p) PROVE TakenBack(p)
  <2>1. ASSUME NEW s \in Slots
        PROVE  Holding(s)' = IF PipeOf(s) = p /\ Holding(s) = "sent" THEN "returned"
                             ELSE Holding(s)
    <3>1. /\ inUse' = inUse /\ (\A t \in Senders : Claims(t, s)' <=> Claims(t, s))
          /\ flight'[s] = IF PipeOf(s) = p THEN 0 ELSE flight[s]
      BY <1>12 DEF CancelPipe, CancelQueued, Claims
    <3>2. flight[s] > 0 => \A t \in Senders : ~Claims(t, s)
      BY <1>0 DEF SoleHolder
    <3>3. flight[s] \in Nat
      OBVIOUS
    <3> QED
      BY <3>1, <3>2, <3>3 DEF Holding
  <2> QED
    BY <2>1 DEF TakenBack
<1>14. ASSUME NEW q \in Slots, Complete(q) PROVE Moved(q, "sent", "returned")
  <2>1. flight[q] = 1 /\ inUse[q] /\ \A t \in Senders : ~Claims(t, q)
    BY <1>14, <1>0 DEF Complete, SoleHolder, Held
  <2>2. Holding(q) = "sent"
    BY <2>1 DEF Holding
  <2>3. Holding(q)' = "returned"
    BY <1>14, <2>1 DEF Complete, Holding, Claims
  <2>4. \A s \in Slots \ {q} : Holding(s)' = Holding(s)
    BY <1>14 DEF Complete, Holding, Claims
  <2> QED
    BY <2>2, <2>3, <2>4 DEF Moved
<1>15. ASSUME NEW r \in Runners, NEW q \in Slots, CallBackCancelled(r, q) PROVE Unmoved
  BY <1>15 DEF CallBackCancelled, Unmoved, Holding, Claims
<1>16. ASSUME NEW r \in Runners, CallbackClear(r)
       PROVE  Moved(cbSlot[r], "returned", "free")
  <2>1. cbSlot[r] \in Slots /\ Clearing(r, cbSlot[r])
    BY <1>16 DEF CallbackClear, Clearing
  <2>2. /\ inUse[cbSlot[r]] /\ flight[cbSlot[r]] = 0
        /\ \A t \in Senders : ~Claims(t, cbSlot[r])
    BY <2>1, <1>0 DEF Held, SoleHolder
  <2>3. Holding(cbSlot[r]) = "returned"
    BY <2>2 DEF Holding
  <2>4. Holding(cbSlot[r])' = "free"
    BY <1>16, <2>1 DEF CallbackClear, Holding
  <2>5. \A s \in Slots \ {cbSlot[r]} : Holding(s)' = Holding(s)
    BY <1>16, <2>1 DEF CallbackClear, Holding, Claims
  <2> QED
    BY <2>3, <2>4, <2>5 DEF Moved
<1>17. ASSUME NEW r \in Runners, CallbackRelease(r) PROVE Unmoved
  BY <1>17 DEF CallbackRelease, Unmoved, Holding, Claims
<1>18. ASSUME NEW t \in Senders, CancelStalledPipe(t) PROVE TakenBack(pipe[t])
  <2>1. ASSUME NEW s \in Slots
        PROVE  Holding(s)' = IF PipeOf(s) = pipe[t] /\ Holding(s) = "sent"
                             THEN "returned" ELSE Holding(s)
    <3>1. /\ inUse' = inUse /\ (\A u \in Senders : Claims(u, s)' <=> Claims(u, s))
          /\ flight'[s] = IF PipeOf(s) = pipe[t] THEN 0 ELSE flight[s]
      BY <1>18 DEF CancelStalledPipe, CancelQueued, Claims
    <3>2. flight[s] > 0 => \A u \in Senders : ~Claims(u, s)
      BY <1>0 DEF SoleHolder
    <3>3. flight[s] \in Nat
      OBVIOUS
    <3> QED
      BY <3>1, <3>2, <3>3 DEF Holding
  <2> QED
    BY <2>1 DEF TakenBack
<1>19. CASE UNCHANGED vars
  <2> Unmoved
    BY <1>19 DEF vars, Unmoved, Holding, Claims
  <2> QED
    OBVIOUS
<1>13. ~CancelReclaim
  BY DEF CancelReclaim
<1>20. ASSUME NEW t \in Senders, Transmit(t) \/ DeadlinePasses(t)
                                 \/ \E p \in Pipes : CallTransmit(t, p)
       PROVE  Goal
  <2>1. slot[t] \in Slots /\ pipe[t] \in Pipes
    OBVIOUS
  <2> QED
    BY <1>1, <1>2, <1>3, <1>4, <1>5, <1>6, <1>7, <1>8, <1>9, <1>10, <1>18, <1>20, <2>1
       DEF Transmit
<1>21. ASSUME NEW r \in Runners, Callback(r) PROVE Goal
  <2>1. cbSlot[r] \in Slots
    OBVIOUS
  <2> QED
    BY <1>15, <1>16, <1>17, <1>21, <2>1 DEF Callback
<1>22. ASSUME Cancelling PROVE Goal
  BY <1>12, <1>13, <1>22 DEF Cancelling
<1>23. ASSUME NEW q \in Slots, Complete(q) PROVE Goal
  BY <1>14, <1>23
<1> QED
  BY <1>11, <1>19, <1>20, <1>21, <1>22, <1>23 DEF Next

\* Once the slots have been reclaimed nothing takes that back.
LEMMA ReclaimedForGood ==
  ASSUME TypeOK, [Next]_vars, cancelled # "no" PROVE cancelled' # "no"
<1> USE DEF senderVars, closerVars, cbVars, boundVars
<1>1. ASSUME NEW t \in Senders, Transmit(t) \/ DeadlinePasses(t) PROVE cancelled' = cancelled
  BY <1>1 DEF Transmit, DeadlinePasses, TransmitLock, TransmitClaim, TransmitFull,
     TransmitWake, TransmitSubmit, TransmitUnclaim, RecoverStalledPipe,
     CancelStalledPipe, RecoverDone
<1>2. ASSUME NEW t \in Senders, NEW p \in Pipes, CallTransmit(t, p) PROVE cancelled' # "no"
  BY <1>2 DEF CallTransmit
<1>3. CASE CancelAll
  BY <1>3 DEF CancelAll
<1>4. CASE Cancelling
  BY <1>4 DEF Cancelling, CancelPipe, CancelReclaim
<1>5. ASSUME NEW s \in Slots, Complete(s) PROVE cancelled' = cancelled
  BY <1>5 DEF Complete
<1>6. ASSUME NEW r \in Runners, Callback(r) PROVE cancelled' = cancelled
  BY <1>6 DEF Callback, CallBackCancelled, CallbackClear, CallbackRelease
<1>7. CASE UNCHANGED vars
  BY <1>7 DEF vars
<1> QED
  BY <1>1, <1>2, <1>3, <1>4, <1>5, <1>6, <1>7 DEF Next

-----------------------------------------------------------------------------
\* The initial pool is the initial pool of TxPool.
LEMMA InitMaps == Init => Pool!Init
<1> SUFFICES ASSUME Init PROVE Pool!Init
  OBVIOUS
<1>1. \A s \in Slots : Holding(s) = "free"
  BY DEF Init, Holding
<1>2. [s \in Slots |-> Holding(s)] = [b \in Slots |-> "free"]
  BY <1>1
<1> QED
  BY <1>2 DEF Init, Pool!Init

\* A step of the transmit path is a step of TxPool, or none.
LEMMA StepMaps ==
  ASSUME TypeOK, SlotExclusive, [Next]_vars
  PROVE  [Pool!Next]_<<[s \in Slots |-> Holding(s)], cancelled = "no">>
<1>1. CASE cancelled' # "no"
  BY <1>1 DEF Pool!Next, Pool!Reclaim
<1>2. CASE cancelled' = "no"
  <2>1. cancelled = "no"
    BY <1>2, ReclaimedForGood
  <2>2. CASE Unmoved
    BY <1>2, <2>1, <2>2, UnmovedMaps
  <2>3. ASSUME NEW p \in Pipes, TakenBack(p) PROVE Pool!Next
    BY <1>2, <2>1, <2>3, TakenBackMaps DEF Pool!Next
  <2>4. ASSUME NEW q \in Slots, Moved(q, "free", "filled") PROVE Pool!Next
    BY <1>2, <2>1, <2>4, MovedMaps DEF Pool!Next, Pool!Fill
  <2>5. ASSUME NEW q \in Slots, Moved(q, "filled", "sent") PROVE Pool!Next
    BY <1>2, <2>1, <2>5, MovedMaps DEF Pool!Next, Pool!Send
  <2>6. ASSUME NEW q \in Slots, Moved(q, "filled", "free") PROVE Pool!Next
    BY <1>2, <2>1, <2>6, MovedMaps DEF Pool!Next, Pool!Abandon
  <2>7. ASSUME NEW q \in Slots, Moved(q, "sent", "returned") PROVE Pool!Next
    <3>1. [s \in Slots |-> Holding(s)]'
            = [b \in Slots |-> IF b \in {q} THEN "returned"
                               ELSE [s \in Slots |-> Holding(s)][b]]
      BY <2>7 DEF Moved
    <3>2. \A b \in {q} : [s \in Slots |-> Holding(s)][b] = "sent"
      BY <2>7 DEF Moved
    <3>3. Pool!GiveBack({q})
      BY <1>2, <2>1, <3>1, <3>2 DEF Pool!GiveBack
    <3>4. {q} \in SUBSET Slots
      OBVIOUS
    <3> QED
      BY <2>1, <3>3, <3>4 DEF Pool!Next
  <2>8. ASSUME NEW q \in Slots, Moved(q, "returned", "free") PROVE Pool!Next
    BY <1>2, <2>1, <2>8, MovedMaps DEF Pool!Next, Pool!Release
  <2> QED
    BY <1>2, <2>1, <2>2, <2>3, <2>4, <2>5, <2>6, <2>7, <2>8, StepMoves
<1> QED
  BY <1>1, <1>2

\* The transmit path implements the pool: until CancelAll has returned every
\* buffer goes round claimed, submitted, called back and free.
THEOREM Implements == Spec => ImplementsPool
<1>1. Init => Pool!Init
  BY InitMaps
<1>2. TypeOK /\ SlotExclusive /\ [Next]_vars
        => [Pool!Next]_<<[s \in Slots |-> Holding(s)], cancelled = "no">>
  BY StepMaps
<1> QED
  BY <1>1, <1>2, TypeCorrect, Exclusion, PTL DEF Spec, ImplementsPool, Pool!Spec
=============================================================================
