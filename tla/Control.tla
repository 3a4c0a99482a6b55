------------------------------ MODULE Control ------------------------------
(* Register access (RegisterIO.cpp): every access is a vendor request on the *)
(* device's one control endpoint, made with fLock held.  Synchronous         *)
(* requests (_VendorRead, _VendorWrite) wait for their completion and are    *)
(* retried; a bounded write (_VendorWriteBounded) waits on a semaphore with  *)
(* a deadline and abandons its request when it passes.  A masked write is a  *)
(* read and a write under one hold of the lock.                              *)
(*                                                                           *)
(* The endpoint executes requests in order, when it likes; the USB thread    *)
(* delivers their completions in order.  A register's word has two fields:   *)
(* a write sets both, a masked write the first only.  Each call writes a     *)
(* value of its own, which is the call's name in the histories.              *)
EXTENDS Integers, Sequences, SequencesExt

CONSTANTS
  Callers, NoCaller,
  Addrs,
  Ring,       \* kControlBuffers
  Retries,    \* kMaxRetryCount, attempts of a synchronous request
  Attempts,   \* kControlWriteAttempts, of a bounded write
  MaxValue,   \* bound: calls that write
  MaxNaks,    \* bound: requests that fail
  MaxBacklog  \* bound: completions the USB thread is behind the endpoint

ASSUME ControlAssumption ==
  /\ NoCaller \notin Callers /\ Addrs # {}
  /\ Ring \in Nat \ {0} /\ Retries \in Nat \ {0} /\ Attempts \in Nat \ {0}
  /\ MaxValue \in Nat /\ MaxNaks \in Nat /\ MaxBacklog \in Nat \ {0}

Ones    == -1
Field   == Ones .. MaxValue
Word    == Field \X Field
AllOnes == <<Ones, Ones>>     \* what a read that failed returns
Slot    == 0 .. Ring - 1

VARIABLES
  owner,    \* the owner of fLock, recursive: a call holds it to its end
  call,     \* [Callers -> the call it is in]
  answer,   \* [Callers -> the outcome of its last call]
  doneSem,  \* the count of fControlDone
  status,   \* fControlStatus
  index,    \* fControlBufferIndex
  buffer,   \* [Slot -> Word], fControlBuffer
  copies,   \* history: how often a buffer was filled
  wire,     \* the requests the endpoint has still to execute, in order
  done,     \* the executed requests whose completion is not delivered yet
  reg,      \* [Addrs -> Word], the registers
  present,  \* fDevicePresent
  fresh,    \* the last value a call of a new value wrote
  naks      \* what is left of the bound

lockVars   == <<owner, present, fresh>>
waitVars   == <<doneSem, status, index, buffer, copies>>
deviceVars == <<reg, naks>>
controlVars == <<owner, call, answer, doneSem, status, index, buffer, copies,
                 wire, done, reg, present, fresh, naks>>

Fates == {"sync", "none", "OK", "ERROR"}   \* "sync": not a bounded write
Kinds == {"bounded", "write", "read", "masked"}

\* A call: where it is, what it does, how often it has tried; histories: whether
\* the read of a masked write succeeded, whether it began with no abandoned
\* request outstanding, and what became of its own last request.
Calls == [pc : {"idle", "lock", "drain", "queue", "wait", "judge", "request",
                "sync"},
          kind : Kinds, addr : Addrs, half : {"read", "write"},
          word : Word, try : Nat, good : BOOLEAN, clean : BOOLEAN, stamp : Nat,
          fate : Fates]
Answers == [st : {"none", "OK", "TIMED_OUT", "ERROR"}, word : Word,
            clean : BOOLEAN, fate : Fates]
Requests == [by : Callers, kind : {"bounded", "sync"}, half : {"read", "write"},
             addr : Addrs, word : Word, slot : Slot, stamp : Nat,
             keep : BOOLEAN, st : {"pending", "OK", "ERROR"}]

TypeOK ==
  /\ owner \in Callers \cup {NoCaller}
  /\ call \in [Callers -> Calls]
  /\ answer \in [Callers -> Answers]
  /\ doneSem \in Nat /\ status \in {"OK", "ERROR"}
  /\ index \in Slot /\ buffer \in [Slot -> Word] /\ copies \in Nat
  /\ wire \in Seq(Requests) /\ done \in Seq(Requests)
  /\ reg \in [Addrs -> Word]
  /\ present \in BOOLEAN /\ naks \in Nat /\ fresh \in 0 .. MaxValue

AnyAddr == CHOOSE a \in Addrs : TRUE
NoCall == [pc |-> "idle", kind |-> "write", addr |-> AnyAddr, half |-> "write",
           word |-> <<0, 0>>, try |-> 1, good |-> TRUE, clean |-> TRUE,
           stamp |-> 0, fate |-> "sync"]
NoAnswer == [st |-> "none", word |-> <<0, 0>>, clean |-> TRUE, fate |-> "sync"]

ControlInit ==
  /\ owner = NoCaller /\ call = [t \in Callers |-> NoCall]
  /\ answer = [t \in Callers |-> NoAnswer]
  /\ doneSem = 0 /\ status = "ERROR" /\ index = 0
  /\ buffer = [s \in Slot |-> <<0, 0>>] /\ copies = 0
  /\ wire = <<>> /\ done = <<>>
  /\ reg = [a \in Addrs |-> <<0, 0>>]
  /\ present = TRUE /\ fresh = 0 /\ naks = MaxNaks

-----------------------------------------------------------------------------
(* Calls.                                                                  *)

At(t, where) == call[t].pc = where
Idle(t)      == At(t, "idle")
Goto(t, where) == call' = [call EXCEPT ![t].pc = where]

\* The call ends and gives the lock back.
Return(t, st, word) ==
  /\ owner' = NoCaller
  /\ call' = [call EXCEPT ![t] = NoCall]
  /\ answer' = [answer EXCEPT ![t] = [st |-> st, word |-> word,
                   clean |-> call[t].clean, fate |-> call[t].fate]]

\* A call is made: without a device it is answered at once.
Call(t, kind, addr, value) ==
  /\ Idle(t)
  /\ IF present
     THEN /\ call' = [call EXCEPT ![t] =
               [NoCall EXCEPT !.pc = "lock", !.kind = kind, !.addr = addr,
                  !.half = IF kind \in {"read", "masked"} THEN "read"
                           ELSE "write",
                  !.fate = IF kind = "bounded" THEN "none" ELSE "sync",
                  !.word = <<value, value>>]]
          /\ answer' = [answer EXCEPT ![t] = NoAnswer]
     ELSE /\ answer' = [answer EXCEPT ![t] =
               [NoAnswer EXCEPT !.st = "ERROR", !.word = AllOnes]]
          /\ UNCHANGED call
  /\ UNCHANGED <<owner, present, waitVars, wire, done, deviceVars>>

\* A write of a value no call has written.
CallFresh(t, kind, addr) ==
  fresh < MaxValue /\ fresh' = fresh + 1 /\ Call(t, kind, addr, fresh')

TakeLock(t) ==
  /\ At(t, "lock") /\ owner = NoCaller /\ owner' = t
  /\ Goto(t, IF call[t].kind = "bounded" THEN "drain" ELSE "request")
  /\ UNCHANGED <<answer, waitVars, wire, done, deviceVars, present,
                 fresh>>

-----------------------------------------------------------------------------
(* The bounded write.                                                      *)

Bounded(s) == {i \in DOMAIN s : s[i].kind = "bounded"}

BeginAttempt(t) ==
  call' = [call EXCEPT ![t].pc = "queue", ![t].fate = "none",
             ![t].clean = Bounded(wire) = {} /\ Bounded(done) = {}]

\* Mutation: the count left by an earlier completion is not drained.
NoDrain(t) ==
  /\ At(t, "drain") /\ BeginAttempt(t)
  /\ UNCHANGED <<lockVars, answer, waitVars, wire, done, deviceVars>>

\* Take every count an abandoned request's completion may have left.
Drain(t) ==
  /\ At(t, "drain") /\ doneSem' = 0 /\ BeginAttempt(t)
  /\ UNCHANGED <<lockVars, answer, status, index, buffer, copies, wire, done,
                 deviceVars>>

\* Mutation: one buffer for every request.
NextSlot1(s) == s

NextSlot(s) == (s + 1) % Ring

\* Fill the next buffer of the ring and queue the request; queue_request may
\* fail, with the buffer filled.
Queue(t) ==
  LET c == call[t] IN
  /\ At(t, "queue")
  /\ buffer' = [buffer EXCEPT ![index] = c.word] /\ copies' = copies + 1
  /\ index' = NextSlot(index) /\ status' = "ERROR"
  /\ \/ /\ wire' = Append(wire, [by |-> t, kind |-> "bounded", half |-> "write",
              addr |-> c.addr, word |-> c.word,
              slot |-> index, stamp |-> copies', keep |-> FALSE,
              st |-> "pending"])
        /\ call' = [call EXCEPT ![t].pc = "wait", ![t].stamp = copies',
                      ![t].fate = "none"]
        /\ UNCHANGED <<owner, answer, naks>>
     \/ /\ naks > 0 /\ naks' = naks - 1
        /\ Return(t, "ERROR", c.word) /\ UNCHANGED wire
  /\ UNCHANGED <<doneSem, done, reg, present,
                 fresh>>

Acquire(t) ==
  /\ At(t, "wait") /\ doneSem > 0 /\ doneSem' = doneSem - 1
  /\ Goto(t, "judge")
  /\ UNCHANGED <<lockVars, answer, status, index, buffer, copies, wire, done,
                 deviceVars>>

TryAgain(t) == call' = [call EXCEPT ![t].pc = "drain", ![t].try = @ + 1]

\* The deadline passes: the request is abandoned, not cancelled.
GiveUp(t) ==
  /\ At(t, "wait") /\ doneSem = 0
  /\ IF call[t].try < Attempts
     THEN TryAgain(t) /\ UNCHANGED <<owner, answer>>
     ELSE Return(t, "TIMED_OUT", call[t].word)
  /\ UNCHANGED <<waitVars, wire, done, deviceVars, present,
                 fresh>>

Judge(t) ==
  /\ At(t, "judge")
  /\ CASE status = "OK" -> Return(t, "OK", call[t].word)
       [] status # "OK" /\ call[t].try < Attempts ->
            TryAgain(t) /\ UNCHANGED <<owner, answer>>
       [] OTHER -> Return(t, "ERROR", call[t].word)
  /\ UNCHANGED <<waitVars, wire, done, deviceVars, present,
                 fresh>>

-----------------------------------------------------------------------------
(* Synchronous requests, and the operations made of them.                  *)

\* send_request.  A masked write looks at the device again in each half.
Request(t) ==
  LET c == call[t] IN
  /\ At(t, "request") /\ (c.kind = "masked" => present)
  /\ wire' = Append(wire, [by |-> t, kind |-> "sync", half |-> c.half,
        addr |-> c.addr, word |-> c.word, slot |-> 0,
        stamp |-> 0, keep |-> c.kind = "masked" /\ c.good, st |-> "pending"])
  /\ Goto(t, "sync")
  /\ UNCHANGED <<lockVars, answer, waitVars, done, deviceVars>>

RequestWithoutDevice(t) ==
  /\ At(t, "request") /\ call[t].kind = "masked" /\ ~present
  /\ Return(t, "ERROR", AllOnes)
  /\ UNCHANGED <<waitVars, wire, done, deviceVars, present,
                 fresh>>

\* Mutation: the lock is free between the halves of a masked write.
WriteHalfUnlocked(t, word, good) ==
  /\ call' = [call EXCEPT ![t].pc = "lock", ![t].half = "write", ![t].try = 1,
                ![t].word = <<@[1], word[2]>>, ![t].good = good]
  /\ owner' = NoCaller /\ UNCHANGED answer

\* The second half of a masked write: the field that is not written keeps the
\* value that was read.
WriteHalf(t, word, good) ==
  /\ call' = [call EXCEPT ![t].pc = "request", ![t].half = "write", ![t].try = 1,
                ![t].word = <<@[1], word[2]>>, ![t].good = good]
  /\ UNCHANGED <<owner, answer>>

\* The last attempt of a request is over.
RequestOver(t, st, word) ==
  LET c == call[t] IN
  IF c.half = "read" /\ c.kind = "masked" THEN WriteHalf(t, word, st = "OK")
  ELSE Return(t, st, word)

-----------------------------------------------------------------------------
(* The device and the USB thread.                                          *)

\* What became of a bounded write, told to the history of the call that waits
\* for it.
Fate(r, st) ==
  IF r.kind = "bounded" /\ call[r.by].stamp = r.stamp
  THEN [call EXCEPT ![r.by].fate = st] ELSE call

\* The endpoint executes its oldest request, or refuses it; the data of a
\* bounded write is what its buffer holds now.
Execute ==
  /\ wire # <<>> /\ Len(done) < MaxBacklog /\ wire' = Tail(wire)
  /\ LET r == Head(wire)
         word == IF r.kind = "bounded" THEN buffer[r.slot] ELSE r.word IN
     \/ /\ present
        /\ done' = Append(done, [r EXCEPT !.st = "OK",
              !.word = IF r.half = "read" THEN reg[r.addr] ELSE word])
        /\ reg' = IF r.half = "write" THEN [reg EXCEPT ![r.addr] = word] ELSE reg
        /\ call' = Fate(r, "OK") /\ UNCHANGED naks
     \/ /\ present => naks > 0
        /\ naks' = IF present THEN naks - 1 ELSE naks
        /\ done' = Append(done, [r EXCEPT !.st = "ERROR"])
        /\ call' = Fate(r, "ERROR") /\ UNCHANGED reg
  /\ UNCHANGED <<owner, answer, waitVars, present, fresh>>

\* _ControlCallback: the outcome of any bounded request goes to whoever waits.
ControlCallback ==
  /\ done # <<>> /\ Head(done).kind = "bounded" /\ done' = Tail(done)
  /\ status' = Head(done).st /\ doneSem' = doneSem + 1
  /\ UNCHANGED <<owner, call, answer, index, buffer, copies, wire, deviceVars,
                 present, fresh>>

\* send_request returns to its caller: done, tried again, or given up.
SyncCompletes ==
  /\ done # <<>> /\ Head(done).kind = "sync" /\ done' = Tail(done)
  /\ LET r == Head(done)
         t == r.by IN
     CASE r.st = "OK" -> RequestOver(t, "OK", r.word)
       [] r.st # "OK" /\ call[t].try < Retries ->
            /\ call' = [call EXCEPT ![t].pc = "request", ![t].try = @ + 1]
            /\ UNCHANGED <<owner, answer>>
       [] OTHER -> RequestOver(t, "ERROR", AllOnes)
  /\ UNCHANGED <<waitVars, wire, deviceVars, present,
                 fresh>>

Deliver == ControlCallback \/ SyncCompletes

Failed(r) == [r EXCEPT !.st = "ERROR"]

\* SetDeviceRemoved: the device is unplugged, which fails what is queued.
Unplug ==
  /\ present /\ present' = FALSE
  /\ wire' = <<>> /\ done' = done \o [i \in DOMAIN wire |-> Failed(wire[i])]
  /\ UNCHANGED <<owner, call, answer, waitVars, deviceVars, fresh>>

CallStep(t) ==
  \/ TakeLock(t) \/ Drain(t) \/ Queue(t) \/ Acquire(t) \/ GiveUp(t)
  \/ Judge(t) \/ Request(t) \/ RequestWithoutDevice(t)

\* Threads that make any calls.
AnyCall(t) == \E kind \in Kinds, addr \in Addrs : CallFresh(t, kind, addr)

ControlNext == \/ \E t \in Callers : AnyCall(t) \/ CallStep(t)
               \/ Execute \/ Deliver \/ Unplug

ControlSpec == ControlInit /\ [][ControlNext]_controlVars

-----------------------------------------------------------------------------
(* Properties.                                                             *)

\* A ring, not one buffer, so that "the next few transfers cannot overwrite"
\* the data of a request that was abandoned (RegisterIO.h): whatever happens
\* to the others, a queued write keeps its data while fewer buffers than the
\* ring has were filled after its own.
RingHolds ==
  \A i \in Bounded(wire) :
    copies - wire[i].stamp < Ring => buffer[wire[i].slot] = wire[i].word

\* What a bounded write returns is the fate of its own request, although one
\* semaphore and one status serve them all: when no abandoned request was
\* outstanding as it began, B_OK means the register was written, and an error
\* other than the deadline that it was not.
AnswersTrue ==
  \A t \in Callers :
    answer[t].fate # "sync" /\ answer[t].clean =>
      /\ answer[t].st = "OK"    => answer[t].fate = "OK"
      /\ answer[t].st = "ERROR" => answer[t].fate # "OK"

\* MaskedWrite "modif[ies] individual fields without disturbing adjacent bits"
\* (RegisterIO.h), also against other threads and late bounded writes: when
\* its write takes effect the other field does not change, if its read
\* succeeded.
MaskedSparesOthers ==
  [][\A r \in {wire[i] : i \in DOMAIN wire} :
       wire' = Tail(wire) /\ r = Head(wire) /\ r.half = "write" /\ r.keep
         => reg'[r.addr][2] = reg[r.addr][2]]_controlVars
=============================================================================
