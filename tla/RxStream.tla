----------------------------- MODULE RxStream -----------------------------
(* The receive stream: the loop of bulk IN transfers (RxPath.cpp), the ring *)
(* of frames the receive callback fills, and the Read(), Open() and Close() *)
(* of Device.cpp on the other end of it.                                    *)
(*                                                                          *)
(* Threads: the USB thread, which runs the completion callback; the thread  *)
(* that opens and closes the device (control); and the Readers.  fLock is   *)
(* held for single steps only and is not a variable.  A semaphore hands a   *)
(* released token to the longest parked thread, as Haiku's do.  A local is  *)
(* forgotten (0) once its function returns.                                 *)
EXTENDS Integers, Sequences, SequencesExt, FiniteSets, Functions

CONSTANTS
  Buffers,       \* receive buffers, numbered from 0 (kRxTransferCount)
  RingSlots,     \* kRxRingSlots
  Readers,       \* threads that call Read()
  DrainAttempts, \* kRxDrainAttempts
  MaxFrames,     \* bound: frames delivered to the ring
  MaxErrors,     \* bound: failed submissions
  MaxCloses      \* bound: calls of Close()

ASSUME RxStreamAssumption ==
  /\ Buffers \in Nat \ {0} /\ RingSlots \in Nat \ {0, 1}
  /\ DrainAttempts \in Nat \ {0} /\ IsFiniteSet(Readers)
  /\ MaxFrames \in Nat /\ MaxErrors \in Nat /\ MaxCloses \in Nat

BufferIds == 0 .. Buffers - 1

VARIABLES
  running,   \* fRunning
  inFlight,  \* fTransfersInFlight
  queued,    \* [BufferIds -> Nat], transfers of the buffer the USB stack holds
  usbPc,     \* where in _RxCallback the USB thread is
  usbBuf,    \* the buffer it is called for
  ring,      \* frames in fRxRing
  sem,       \* the count of fRxDataReady
  parked,    \* the readers waiting on it, longest first
  reader,    \* [Readers -> where in Read()]
  blocked,   \* fBlockedReaders
  closing,   \* fClosing
  control,   \* where in Open() or Close() the control thread is
  permits,   \* Close(): the reader count it read
  next,      \* Start(): the next buffer to submit
  attempts,  \* Stop(): cancel passes left
  closed,    \* history: Close() has been called
  late,      \* history: readers past the check of fClosing that Close() did not count
  frames, errors, closes   \* what is left of the bounds

loopVars    == <<running, inFlight, queued>>
usbVars     == <<usbPc, usbBuf>>
ringVars    == <<ring, sem, parked, reader>>
controlVars == <<closing, control, permits, next, attempts, closed, late>>
boundVars   == <<frames, errors, closes>>
vars == <<loopVars, usbVars, ringVars, blocked, controlVars, boundVars>>

TypeOK ==
  /\ running \in BOOLEAN /\ inFlight \in Int /\ queued \in [BufferIds -> Nat]
  /\ usbPc \in {"idle", "entry", "process", "signal", "submit", "count"}
  /\ usbBuf \in BufferIds
  /\ ring \in 0 .. RingSlots - 1 /\ sem \in Nat /\ parked \in Seq(Readers)
  /\ reader \in [Readers -> {"out", "checked", "registered", "parked", "woken",
                             "interrupted", "dequeue"}]
  /\ blocked \in 0 .. Cardinality(Readers) /\ closing \in BOOLEAN
  /\ control \in {"idle", "start", "submit", "count", "closing", "release",
                  "stop", "cancel", "drain"}
  /\ permits \in Nat /\ next \in 0 .. Buffers /\ attempts \in Nat
  /\ closed \in BOOLEAN /\ late \in SUBSET Readers
  /\ frames \in Nat /\ errors \in Nat /\ closes \in Nat

\* The device is open for the first time and receiving.
Init ==
  /\ running = TRUE /\ inFlight = Buffers
  /\ queued = [b \in BufferIds |-> 1]
  /\ usbPc = "idle" /\ usbBuf = 0
  /\ ring = 0 /\ sem = 0 /\ parked = <<>>
  /\ reader = [r \in Readers |-> "out"] /\ blocked = 0
  /\ closing = FALSE /\ control = "idle" /\ permits = 0 /\ next = 0
  /\ attempts = 0 /\ closed = FALSE /\ late = {}
  /\ frames = MaxFrames /\ errors = MaxErrors /\ closes = MaxCloses

Smaller(m, n) == IF m < n THEN m ELSE n

\* release_sem_etc: tokens go to parked threads first.
Release(n) ==
  LET w == Smaller(n, Len(parked))
      woken == {parked[i] : i \in 1 .. w}
  IN /\ parked' = SubSeq(parked, w + 1, Len(parked))
     /\ reader' = [r \in Readers |-> IF r \in woken THEN "woken" ELSE reader[r]]
     /\ sem' = sem + n - w

-----------------------------------------------------------------------------
(* Read().                                                                 *)

ReaderAt(r, from, to) == reader[r] = from /\ reader' = [reader EXCEPT ![r] = to]

\* The check before blocking.
ReadCheck(r) ==
  /\ ~closing /\ ReaderAt(r, "out", "checked")
  /\ UNCHANGED <<loopVars, usbVars, ring, sem, parked, blocked, controlVars, boundVars>>

ReadRegister(r) ==
  /\ ReaderAt(r, "checked", "registered")
  /\ blocked' = blocked + 1
  /\ UNCHANGED <<loopVars, usbVars, ring, sem, parked, controlVars, boundVars>>

ReadAcquire(r) ==
  /\ \/ /\ sem > 0 /\ sem' = sem - 1
        /\ ReaderAt(r, "registered", "woken") /\ UNCHANGED parked
     \/ /\ sem = 0 /\ UNCHANGED sem
        /\ ReaderAt(r, "registered", "parked") /\ parked' = Append(parked, r)
  /\ UNCHANGED <<loopVars, usbVars, ring, blocked, controlVars, boundVars>>

\* B_CAN_INTERRUPT: a signal ends the wait without a token.
ReadInterrupted(r) ==
  /\ ReaderAt(r, "parked", "interrupted")
  /\ \E i \in DOMAIN parked : parked[i] = r /\ parked' = RemoveAt(parked, i)
  /\ UNCHANGED <<loopVars, usbVars, ring, sem, blocked, controlVars, boundVars>>

ReadDeregister(r) ==
  /\ ReaderAt(r, "woken", "dequeue") \/ ReaderAt(r, "interrupted", "out")
  /\ blocked' = blocked - 1
  /\ UNCHANGED <<loopVars, usbVars, ring, sem, parked, controlVars, boundVars>>

\* Awake: the check of fClosing again, then the oldest frame if there is one.
ReadDequeue(r) ==
  /\ ReaderAt(r, "dequeue", "out")
  /\ ring' = IF closing \/ ring = 0 THEN ring ELSE ring - 1
  /\ UNCHANGED <<loopVars, usbVars, sem, parked, blocked, controlVars, boundVars>>

-----------------------------------------------------------------------------
(* _RxCallback on the USB thread.                                          *)

UsbAt(from, to) == usbPc = from /\ usbPc' = to

\* Mutation: a cancelled transfer returns before it is counted off.
CancelUncounted == /\ queued' = [b \in BufferIds |-> 0]
                   /\ UNCHANGED inFlight

\* cancel_queued_transfers runs the callback of every queued transfer inline;
\* with B_CANCELED each only counts itself off.
CancelQueued == /\ queued' = [b \in BufferIds |-> 0]
                /\ inFlight' = inFlight - SumFunction(queued)

\* The stack takes a transfer off the endpoint and calls back.
Complete(b) ==
  /\ queued[b] > 0 /\ UsbAt("idle", "entry")
  /\ queued' = [queued EXCEPT ![b] = @ - 1] /\ usbBuf' = b
  /\ UNCHANGED <<running, inFlight, ringVars, blocked, controlVars, boundVars>>

CallbackEntry ==
  /\ UsbAt("entry", "process")
  /\ inFlight' = inFlight - 1
  /\ UNCHANGED <<running, queued, usbBuf, ringVars, blocked, controlVars, boundVars>>

RingFull == ring = RingSlots - 1

\* _RxFrameReceived, a frame for the stack: into the ring, over the oldest one
\* if it is full, taking back the token of that one if it is still there.
Enqueue ==
  /\ frames > 0 /\ frames' = frames - 1
  /\ UsbAt("process", "signal")
  /\ IF RingFull
     THEN UNCHANGED ring /\ sem' = IF sem > 0 THEN sem - 1 ELSE sem
     ELSE ring' = ring + 1 /\ UNCHANGED sem
  /\ UNCHANGED <<loopVars, usbBuf, parked, reader, blocked, controlVars, errors, closes>>

\* Mutation: only a frame that finds the ring empty is announced.
SignalFirst ==
  /\ UsbAt("signal", "process")
  /\ Release(IF ring = 1 THEN 1 ELSE 0)
  /\ UNCHANGED <<loopVars, usbBuf, ring, blocked, controlVars, boundVars>>

\* The token follows once fLock is released; then the next frame, if any.
Signal ==
  /\ UsbAt("signal", "process")
  /\ Release(1)
  /\ UNCHANGED <<loopVars, usbBuf, ring, blocked, controlVars, boundVars>>

\* The transfer is processed: resubmit it if the loop still runs.
CallbackCheck ==
  /\ UsbAt("process", IF running THEN "submit" ELSE "idle")
  /\ usbBuf' = IF running THEN usbBuf ELSE 0
  /\ UNCHANGED <<loopVars, ringVars, blocked, controlVars, boundVars>>

CallbackSubmit ==
  /\ \/ /\ UsbAt("submit", "count") /\ UNCHANGED errors
        /\ queued' = [queued EXCEPT ![usbBuf] = @ + 1]
     \/ /\ UsbAt("submit", "idle") /\ UNCHANGED queued
        /\ errors > 0 /\ errors' = errors - 1
  /\ usbBuf' = 0
  /\ UNCHANGED <<running, inFlight, ringVars, blocked, controlVars, frames, closes>>

CallbackCount ==
  /\ UsbAt("count", "idle")
  /\ inFlight' = inFlight + 1
  /\ usbBuf' = 0
  /\ UNCHANGED <<running, queued, ringVars, blocked, controlVars, boundVars>>

-----------------------------------------------------------------------------
(* Open() and RxPath::Start().                                             *)

ControlAt(from, to) == control = from /\ control' = to

Open ==
  /\ closed /\ ControlAt("idle", IF running THEN "idle" ELSE "start")
  /\ closing' = FALSE /\ late' = {}
  /\ UNCHANGED <<loopVars, usbVars, ringVars, blocked, permits, next, attempts, closed,
                 boundVars>>

\* Refused while transfers are queued; Open() fails.
Start ==
  /\ \/ inFlight # 0 /\ ControlAt("start", "idle") /\ UNCHANGED <<running, next>>
     \/ inFlight = 0 /\ ControlAt("start", "submit") /\ running' = TRUE /\ next' = 0
  /\ UNCHANGED <<inFlight, queued, usbVars, ringVars, blocked, closing, permits,
                 attempts, closed, late, boundVars>>

StartSubmit ==
  /\ \/ /\ next = Buffers /\ ControlAt("submit", "idle")
        /\ next' = 0 /\ UNCHANGED <<queued, errors>>
     \/ /\ next < Buffers /\ ControlAt("submit", "count")
        /\ queued' = [queued EXCEPT ![next] = @ + 1] /\ UNCHANGED <<next, errors>>
     \/ /\ next < Buffers /\ ControlAt("submit", "stop")
        /\ errors > 0 /\ errors' = errors - 1 /\ next' = 0 /\ UNCHANGED queued
  /\ UNCHANGED <<running, inFlight, usbVars, ringVars, blocked, closing, permits,
                 attempts, closed, late, frames, closes>>

StartCount ==
  /\ ControlAt("count", "submit")
  /\ inFlight' = inFlight + 1 /\ next' = next + 1
  /\ UNCHANGED <<running, queued, usbVars, ringVars, blocked, closing, permits,
                 attempts, closed, late, boundVars>>

-----------------------------------------------------------------------------
(* Close() and RxPath::Stop().                                             *)

Close ==
  /\ closes > 0 /\ closes' = closes - 1
  /\ ControlAt("idle", "closing")
  /\ closing' = TRUE /\ closed' = TRUE
  /\ UNCHANGED <<loopVars, usbVars, ringVars, blocked, permits, next, attempts, late,
                 frames, errors>>

\* Count the readers ...
CloseCount ==
  /\ ControlAt("closing", "release")
  /\ permits' = blocked
  /\ late' = {r \in Readers : reader[r] = "checked"}
  /\ UNCHANGED <<loopVars, usbVars, ringVars, blocked, closing, next, attempts, closed,
                 boundVars>>

\* Mutation: one token, for one reader.
WakeOne == Release(IF permits > 0 THEN 1 ELSE 0)

WakeReaders == Release(permits)

\* ... and release the semaphore as often.
CloseRelease ==
  /\ ControlAt("release", "stop")
  /\ WakeReaders /\ permits' = 0
  /\ UNCHANGED <<loopVars, usbVars, ring, blocked, closing, next, attempts,
                 closed, late, boundVars>>

Stop ==
  /\ ControlAt("stop", IF running THEN "cancel" ELSE "idle")
  /\ running' = FALSE /\ attempts' = IF running THEN DrainAttempts ELSE 0
  /\ UNCHANGED <<inFlight, queued, usbVars, ringVars, blocked, closing, permits, next,
                 closed, late, boundVars>>

StopCancel ==
  /\ ControlAt("cancel", "drain")
  /\ CancelQueued
  /\ attempts' = attempts - 1
  /\ UNCHANGED <<running, usbVars, ringVars, blocked, closing, permits, next, closed,
                 late, boundVars>>

StopDrained ==
  /\ \/ /\ inFlight > 0 /\ attempts > 0
        /\ ControlAt("drain", "cancel") /\ UNCHANGED attempts
     \/ /\ inFlight <= 0 \/ attempts = 0
        /\ ControlAt("drain", "idle") /\ attempts' = 0
  /\ UNCHANGED <<loopVars, usbVars, ringVars, blocked, closing, permits, next, closed,
                 late, boundVars>>

-----------------------------------------------------------------------------
Read(r) == \/ ReadCheck(r) \/ ReadRegister(r) \/ ReadAcquire(r)
           \/ ReadInterrupted(r) \/ ReadDeregister(r) \/ ReadDequeue(r)

Callback == \/ CallbackEntry \/ Enqueue \/ Signal \/ CallbackCheck
            \/ CallbackSubmit \/ CallbackCount

Control == \/ Open \/ Start \/ StartSubmit \/ StartCount
           \/ Close \/ CloseCount \/ CloseRelease \/ Stop \/ StopCancel \/ StopDrained

Next == \/ \E r \in Readers : Read(r)
        \/ \E b \in BufferIds : Complete(b)
        \/ Callback \/ Control

Spec == Init /\ [][Next]_vars

-----------------------------------------------------------------------------
(* Properties.                                                             *)

ReadersAt(where) == {r \in Readers : reader[r] \in where}

\* fTransfersInFlight, which Start() and Stop() decide by, is exact but for the
\* transfer a thread is between queueing and counting, or taking off and
\* counting off: every path of _RxCallback and Stop() keeps it.
InFlightExact ==
  inFlight = SumFunction(queued) + (IF usbPc = "entry" THEN 1 ELSE 0)
             - (IF usbPc = "count" THEN 1 ELSE 0) - (IF control = "count" THEN 1 ELSE 0)

\* Until the device is first closed no frame is stranded: each one in the ring
\* has a token in the semaphore, or with a reader on its way to the ring, or
\* about to be released, dropped frames and full rings included.
FramesHaveTokens ==
  ~closed => ring <= sem + Cardinality(ReadersAt({"woken", "dequeue"}))
                     + (IF usbPc = "signal" THEN 1 ELSE 0)

\* No more readers stay parked through Close() than had passed the check of
\* fClosing and not yet registered when it counted: it wakes the others, even
\* if a full ring takes one of its tokens back and has yet to return it.
CloseWakesReaders ==
  closing /\ control \in {"idle", "stop", "cancel", "drain"}
    => Len(parked) <= Cardinality(late) + (IF usbPc = "signal" THEN 1 ELSE 0)
=============================================================================
