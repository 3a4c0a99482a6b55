------------------------------ MODULE TxSlots ------------------------------
(* The transmit path's pool of USB transfers (TxPath.cpp): Transmit() claims *)
(* a slot of its pipe under fLock, submits it without the lock and returns;  *)
(* the completion callback frees it.  A pipe whose slots are all outstanding *)
(* for two seconds is recovered by cancelling it, and CancelAll() cancels    *)
(* every pipe.  The host controller runs the callbacks of cancelled          *)
(* transfers inline, on the cancelling thread.                               *)
(*                                                                           *)
(* Threads are the callers of Transmit (Senders), some of them on the USB    *)
(* callback thread itself (UsbCallers: the receive callback sends the        *)
(* association request from there), the caller of CancelAll (Closer) and the *)
(* USB thread that delivers completions (Usb).                               *)
EXTENDS Integers

CONSTANTS
  Pipes,      \* bulk OUT pipes
  PerPipe,    \* kTxTransfersPerQueue
  Senders, UsbCallers, Closer, Usb, NoOne,
  MaxCalls,   \* bound: calls of Transmit
  MaxCancels  \* bound: calls of CancelAll

Runners == Senders \cup {Closer, Usb}   \* threads a completion callback runs on

ASSUME TxSlotsAssumption ==
  /\ Pipes # {} /\ PerPipe \in Nat \ {0}
  /\ UsbCallers \subseteq Senders
  /\ Closer \notin Senders /\ Usb \notin Senders /\ Closer # Usb
  /\ NoOne \notin Runners
  /\ MaxCalls \in Nat /\ MaxCancels \in Nat

Slots == Pipes \X (0 .. PerPipe - 1)
PipeOf(s) == s[1]
AnySlot == CHOOSE s \in Slots : TRUE

VARIABLES
  inUse,     \* [Slots -> BOOLEAN], TxTransfer::inUse
  flight,    \* [Slots -> Nat], transfers of the slot's buffer the USB stack holds
  tokens,    \* [Pipes -> Nat], the count of fPipeSlotFree
  lock,      \* the owner of fLock
  pc,        \* [Senders -> where in Transmit]
  pipe,      \* [Senders -> the pipe it transmits on]
  slot,      \* [Senders -> the slot it claimed]
  expired,   \* [Senders -> whether kTxWaitDeadline has passed]
  closerPc,  \* where in CancelAll the Closer is
  toCancel,  \* the pipes CancelAll has still to cancel
  todo,      \* [Runners -> [Slots -> Nat]], cancelled transfers to call back
  cbPc,      \* [Runners -> where in _TxCallback]
  cbSlot,    \* [Runners -> the slot it is called for]
  cancelled, \* history: "no", "yes" once CancelAll returned, "reused" after
             \* that when Transmit is called again
  calls, cancels   \* what is left of the bounds

senderVars == <<pc, pipe, slot, expired>>
closerVars == <<closerPc, toCancel>>
cbVars     == <<cbPc, cbSlot>>
boundVars  == <<calls, cancels>>
vars == <<inUse, flight, tokens, lock, senderVars, closerVars, todo, cbVars,
          cancelled, boundVars>>

None == [s \in Slots |-> 0]

TypeOK ==
  /\ inUse \in [Slots -> BOOLEAN]
  /\ flight \in [Slots -> Nat]
  /\ tokens \in [Pipes -> Nat]
  /\ lock \in Senders \cup {NoOne}
  /\ pc \in [Senders -> {"idle", "lock", "scan", "wait", "submit", "unclaim",
                          "recover", "read", "cancel"}]
  /\ pipe \in [Senders -> Pipes] /\ slot \in [Senders -> Slots]
  /\ expired \in [Senders -> BOOLEAN]
  /\ closerPc \in {"idle", "pipes"} /\ toCancel \in SUBSET Pipes
  /\ todo \in [Runners -> [Slots -> Nat]]
  /\ cbPc \in [Runners -> {"none", "clear", "release"}]
  /\ cbSlot \in [Runners -> Slots]
  /\ cancelled \in {"no", "yes", "reused"}
  /\ calls \in Nat /\ cancels \in Nat

Init ==
  /\ inUse = [s \in Slots |-> FALSE] /\ flight = None
  /\ tokens = [p \in Pipes |-> 0] /\ lock = NoOne
  /\ pc = [t \in Senders |-> "idle"]
  /\ pipe = [t \in Senders |-> PipeOf(AnySlot)]
  /\ slot = [t \in Senders |-> AnySlot]
  /\ expired = [t \in Senders |-> FALSE]
  /\ closerPc = "idle" /\ toCancel = {}
  /\ todo = [r \in Runners |-> None]
  /\ cbPc = [r \in Runners |-> "none"] /\ cbSlot = [r \in Runners |-> AnySlot]
  /\ cancelled = "no" /\ calls = MaxCalls /\ cancels = MaxCancels

-----------------------------------------------------------------------------
(* Transmit.                                                               *)

At(t, where)   == pc[t] = where
Goto(t, where) == pc' = [pc EXCEPT ![t] = where]

\* The USB thread runs one callback at a time: while the callback it is in
\* waits in Transmit, no completion is delivered.
UsbThreadFree == \A t \in UsbCallers : At(t, "idle")

CallTransmit(t, p) ==
  /\ At(t, "idle") /\ calls > 0 /\ calls' = calls - 1
  /\ t \in UsbCallers => UsbThreadFree /\ cbPc[Usb] = "none"
  /\ Goto(t, "lock") /\ pipe' = [pipe EXCEPT ![t] = p]
  /\ expired' = [expired EXCEPT ![t] = FALSE]
  /\ cancelled' = IF cancelled = "yes" THEN "reused" ELSE cancelled
  /\ UNCHANGED <<inUse, flight, tokens, lock, slot, closerVars, todo, cbVars,
                 cancels>>

TransmitLock(t) ==
  /\ At(t, "lock") /\ lock = NoOne
  /\ lock' = t /\ Goto(t, "scan")
  /\ UNCHANGED <<inUse, flight, tokens, pipe, slot, expired, closerVars, todo,
                 cbVars, cancelled, boundVars>>

\* Mutation: the first slot of the pipe, in use or not.
FirstTransfer(p, s) == PipeOf(s) = p /\ s[2] = 0

\* _FindFreeTransfer: the first slot of the pipe that is not in use.
FreeTransfer(p, s) == /\ PipeOf(s) = p /\ ~inUse[s]
                      /\ \A i \in 0 .. s[2] - 1 : inUse[<<p, i>>]
PipeFull(p) == \A i \in 0 .. PerPipe - 1 : inUse[<<p, i>>]

TransmitClaim(t) ==
  /\ At(t, "scan")
  /\ \E s \in Slots :
       /\ FreeTransfer(pipe[t], s)
       /\ inUse' = [inUse EXCEPT ![s] = TRUE]
       /\ slot' = [slot EXCEPT ![t] = s]
  /\ Goto(t, "submit") /\ lock' = NoOne
  /\ UNCHANGED <<flight, tokens, pipe, expired, closerVars, todo, cbVars,
                 cancelled, boundVars>>

\* No slot: wait for one with the lock released, or past the deadline recover.
TransmitFull(t) ==
  /\ At(t, "scan") /\ PipeFull(pipe[t])
  /\ Goto(t, IF expired[t] THEN "recover" ELSE "wait")
  /\ lock' = NoOne
  /\ UNCHANGED <<inUse, flight, tokens, pipe, slot, expired, closerVars, todo,
                 cbVars, cancelled, boundVars>>

TakeToken(p) == tokens[p] > 0 /\ tokens' = [tokens EXCEPT ![p] = @ - 1]

\* acquire_sem_etc: a token, or the deadline, or a signal (B_CAN_INTERRUPT).
TransmitWake(t) ==
  /\ At(t, "wait") /\ Goto(t, "lock")
  /\ TakeToken(pipe[t]) \/ UNCHANGED tokens
  /\ UNCHANGED <<inUse, flight, lock, pipe, slot, expired, closerVars, todo,
                 cbVars, cancelled, boundVars>>

\* Mutation: acquire_sem, without a timeout.
NoDeadline(t) == FALSE

\* Two seconds have passed since Transmit was called.
DeadlinePasses(t) ==
  /\ pc[t] \in {"lock", "scan", "wait"} /\ ~expired[t]
  /\ expired' = [expired EXCEPT ![t] = TRUE]
  /\ UNCHANGED <<inUse, flight, tokens, lock, pc, pipe, slot, closerVars, todo,
                 cbVars, cancelled, boundVars>>

\* Mutation: the error is returned with the slot still claimed.
SubmitFailsClaimed(t) == Goto(t, "idle") /\ UNCHANGED flight

SubmitFails(t) == Goto(t, "unclaim") /\ UNCHANGED flight

\* queue_bulk, without the lock.
TransmitSubmit(t) ==
  /\ At(t, "submit")
  /\ \/ /\ flight' = [flight EXCEPT ![slot[t]] = @ + 1]
        /\ Goto(t, "idle")
     \/ SubmitFails(t)
  /\ UNCHANGED <<inUse, tokens, lock, pipe, slot, expired, closerVars, todo,
                 cbVars, cancelled, boundVars>>

\* queue_bulk failed: take the lock again and give the slot back.
TransmitUnclaim(t) ==
  /\ At(t, "unclaim") /\ lock = NoOne
  /\ inUse' = [inUse EXCEPT ![slot[t]] = FALSE]
  /\ Goto(t, "idle")
  /\ UNCHANGED <<flight, tokens, lock, pipe, slot, expired, closerVars, todo,
                 cbVars, cancelled, boundVars>>

\* cancel_queued_transfers takes what is queued on the pipe now ...
CancelQueued(r, p) ==
  /\ todo' = [todo EXCEPT ![r] = [s \in Slots |-> IF PipeOf(s) = p
                                                  THEN @[s] + flight[s] ELSE @[s]]]
  /\ flight' = [s \in Slots |-> IF PipeOf(s) = p THEN 0 ELSE flight[s]]

\* ... and returns when it has called every one of them back.
CalledBack(r) == todo[r] = None /\ cbPc[r] = "none"

\* _RecoverStalledPipe: rate-limited, so it may do nothing.
RecoverStalledPipe(t) ==
  /\ At(t, "recover")
  /\ Goto(t, "idle") \/ Goto(t, "read")
  /\ UNCHANGED <<inUse, flight, tokens, lock, pipe, slot, expired, closerVars,
                 todo, cbVars, cancelled, boundVars>>

\* It reads a register first, a control transfer that somebody must complete.
CancelStalledPipe(t) ==
  /\ At(t, "read") /\ UsbThreadFree
  /\ Goto(t, "cancel") /\ CancelQueued(t, pipe[t])
  /\ UNCHANGED <<inUse, tokens, lock, pipe, slot, expired, closerVars, cbVars,
                 cancelled, boundVars>>

RecoverDone(t) ==
  /\ At(t, "cancel") /\ CalledBack(t)
  /\ Goto(t, "idle")
  /\ UNCHANGED <<inUse, flight, tokens, lock, pipe, slot, expired, closerVars,
                 todo, cbVars, cancelled, boundVars>>

-----------------------------------------------------------------------------
(* CancelAll.                                                              *)

CancelAll ==
  /\ closerPc = "idle" /\ cancels > 0 /\ cancels' = cancels - 1
  /\ closerPc' = "pipes" /\ toCancel' = Pipes
  /\ UNCHANGED <<inUse, flight, tokens, lock, senderVars, todo, cbVars,
                 cancelled, calls>>

CancelPipe(p) ==
  /\ closerPc = "pipes" /\ p \in toCancel /\ CalledBack(Closer)
  /\ toCancel' = toCancel \ {p}
  /\ CancelQueued(Closer, p)
  /\ UNCHANGED <<inUse, tokens, lock, senderVars, closerPc, cbVars, cancelled,
                 boundVars>>

\* Every pipe is cancelled: take the lock and reclaim the slots.
CancelReclaim ==
  /\ closerPc = "pipes" /\ toCancel = {} /\ CalledBack(Closer)
  /\ lock = NoOne
  /\ inUse' = [s \in Slots |-> FALSE]
  /\ closerPc' = "idle"
  /\ cancelled' = "yes"
  /\ UNCHANGED <<flight, tokens, lock, senderVars, toCancel, todo, cbVars,
                 boundVars>>

-----------------------------------------------------------------------------
(* _TxCallback, on the USB thread or inline on a thread that cancels.      *)

Complete(s) ==
  /\ flight[s] > 0 /\ cbPc[Usb] = "none" /\ UsbThreadFree
  /\ flight' = [flight EXCEPT ![s] = @ - 1]
  /\ cbPc' = [cbPc EXCEPT ![Usb] = "clear"] /\ cbSlot' = [cbSlot EXCEPT ![Usb] = s]
  /\ UNCHANGED <<inUse, tokens, lock, senderVars, closerVars, todo, cancelled,
                 boundVars>>

CallBackCancelled(r, s) ==
  /\ todo[r][s] > 0 /\ cbPc[r] = "none"
  /\ todo' = [todo EXCEPT ![r][s] = @ - 1]
  /\ cbPc' = [cbPc EXCEPT ![r] = "clear"] /\ cbSlot' = [cbSlot EXCEPT ![r] = s]
  /\ UNCHANGED <<inUse, flight, tokens, lock, senderVars, closerVars,
                 cancelled, boundVars>>

CallbackClear(r) ==
  /\ cbPc[r] = "clear" /\ lock = NoOne
  /\ inUse' = [inUse EXCEPT ![cbSlot[r]] = FALSE]
  /\ cbPc' = [cbPc EXCEPT ![r] = "release"]
  /\ UNCHANGED <<flight, tokens, lock, senderVars, closerVars, todo, cbSlot,
                 cancelled, boundVars>>

CallbackRelease(r) ==
  /\ cbPc[r] = "release"
  /\ tokens' = [tokens EXCEPT ![PipeOf(cbSlot[r])] = @ + 1]
  /\ cbPc' = [cbPc EXCEPT ![r] = "none"]
  /\ UNCHANGED <<inUse, flight, lock, senderVars, closerVars, todo, cbSlot,
                 cancelled, boundVars>>

-----------------------------------------------------------------------------
Callback(r) == \/ \E s \in Slots : CallBackCancelled(r, s)
               \/ CallbackClear(r) \/ CallbackRelease(r)

Transmit(t) == \/ TransmitLock(t) \/ TransmitClaim(t) \/ TransmitFull(t)
               \/ TransmitWake(t) \/ TransmitSubmit(t) \/ TransmitUnclaim(t)
               \/ RecoverStalledPipe(t) \/ CancelStalledPipe(t)
               \/ RecoverDone(t)

Cancelling == CancelReclaim \/ \E p \in Pipes : CancelPipe(p)

Next == \/ \E t \in Senders : \/ Transmit(t) \/ DeadlinePasses(t)
                              \/ \E p \in Pipes : CallTransmit(t, p)
        \/ CancelAll \/ Cancelling
        \/ \E s \in Slots : Complete(s)
        \/ \E r \in Runners : Callback(r)

Spec == Init /\ [][Next]_vars

\* Threads run on and time passes; that the device ever completes a bulk
\* transfer is not assumed.
FairSpec == /\ Spec
            /\ \A t \in Senders : WF_vars(Transmit(t)) /\ WF_vars(DeadlinePasses(t))
            /\ WF_vars(Cancelling)
            /\ \A r \in Runners : WF_vars(Callback(r))

-----------------------------------------------------------------------------
(* Properties.                                                             *)

\* Whoever answers for a slot: the thread between claiming and submitting it,
\* the USB stack, a canceller that has it to call back, a running callback.
Claims(t, s)   == pc[t] \in {"submit", "unclaim"} /\ slot[t] = s
Clearing(r, s) == cbPc[r] = "clear" /\ cbSlot[r] = s
Held(s) == \/ flight[s] > 0
           \/ \E t \in Senders : Claims(t, s)
           \/ \E r \in Runners : todo[r][s] > 0 \/ Clearing(r, s)

\* No slot leaks: whatever fails, is cancelled or times out, a slot marked in
\* use has somebody who will free it.  The comment on SlotsInUse: "A slot that
\* is marked in use and never released would starve Transmit()".
NoSlotLeaks == \A s \in Slots : inUse[s] => Held(s)

\* A slot is in use as long as anybody answers for it, and only one does: no
\* two transfers share a buffer, until CancelAll frees slots it does not hold.
SoleHolder(s) ==
  /\ flight[s] <= 1 /\ \A r \in Runners : todo[r][s] <= 1
  /\ flight[s] > 0 => \A r \in Runners : todo[r][s] = 0 /\ ~Clearing(r, s)
  /\ \A t \in Senders : Claims(t, s) =>
       /\ flight[s] = 0
       /\ \A u \in Senders : Claims(u, s) => u = t
       /\ \A r \in Runners : todo[r][s] = 0 /\ ~Clearing(r, s)
  /\ \A r, q \in Runners :
       /\ todo[r][s] > 0 => ~Clearing(q, s)
       /\ todo[r][s] > 0 /\ todo[q][s] > 0 => q = r
       /\ Clearing(r, s) /\ Clearing(q, s) => q = r

SlotExclusive ==
  cancelled = "no" => \A s \in Slots : (Held(s) => inUse[s]) /\ SoleHolder(s)

\* Calls return.  Transmit does although the device may never complete a bulk
\* transfer: it waits until its deadline, and the recovery it then tries ends
\* too; unless the USB thread itself ends up reading a register and waits for
\* itself.  CancelAll does: the callbacks it runs inline get the lock they need.
UsbThreadStuck  == \E u \in UsbCallers : At(u, "read")
TransmitReturns ==
  \A t \in Senders : ~At(t, "idle") ~> At(t, "idle") \/ UsbThreadStuck
CancelAllReturns == closerPc # "idle" ~> closerPc = "idle"

CallsReturn == TransmitReturns /\ CancelAllReturns

-----------------------------------------------------------------------------
(* The pool implements module TxPool.                                      *)

Holding(s) == IF ~inUse[s] THEN "free"
              ELSE IF flight[s] > 0 THEN "sent"
              ELSE IF \E t \in Senders : Claims(t, s) THEN "filled" ELSE "returned"

Pool == INSTANCE TxPool WITH Buffers <- Slots,
                             state <- [s \in Slots |-> Holding(s)],
                             sound <- cancelled = "no"

\* Up to the return of the first CancelAll the slots keep the promise of TxPool:
\* a transfer is claimed, submitted, called back and freed in that order, with
\* failed submissions, stalled pipes, cancels and late callbacks in between.
ImplementsPool == Pool!Spec
=============================================================================
