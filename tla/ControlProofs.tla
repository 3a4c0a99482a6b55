--------------------------- MODULE ControlProofs ---------------------------
(* The buffer ring keeps the data of abandoned writes, a bounded write's     *)
(* answer is the fate of its own request, and a masked write spares the      *)
(* fields next to it: for any number of callers, registers, buffers and      *)
(* attempts, and however late the completions are.  Then the commands to the *)
(* firmware, made of two bounded writes each: whole, for any number of boxes,*)
(* joins and beacons.                                                        *)
EXTENDS PostAssoc, SequenceTheorems, TLAPS

------------------------------------------------------------------------------
(* The inductive invariant.                                                *)

\* Inside a call past its lock a thread owns it.
Inside(t) == call[t].pc \notin {"idle", "lock"}

Locked == \A t \in Callers : Inside(t) => owner = t

\* A bounded write and a synchronous request take different ways.
Ways ==
  \A t \in Callers :
    /\ call[t].pc \in {"drain", "queue", "wait", "judge"} => call[t].kind = "bounded"
    /\ call[t].pc \in {"request", "sync"} => call[t].kind # "bounded"
    /\ call[t].kind # "bounded" => call[t].fate = "sync" /\ call[t].stamp = 0
    /\ call[t].half = "read" /\ call[t].kind = "masked" => call[t].good
    /\ call[t].pc = "lock" /\ call[t].kind = "masked" => call[t].half = "read"

\* A synchronous request is the last the device has been sent, and its caller
\* waits for it; what is done has an outcome.
LastInLine ==
  /\ \A i \in DOMAIN wire : wire[i].kind = "sync" =>
       i = Len(wire) /\ call[wire[i].by].pc = "sync"
  /\ \A i \in DOMAIN done : done[i].kind = "sync" =>
       i = Len(done) /\ wire = <<>> /\ call[done[i].by].pc = "sync"
  /\ \A i \in DOMAIN done : done[i].st # "pending"

\* The stamps of bounded requests count the copies, and the slot of one is as
\* many buffers behind the next as have been filled since.
Stamped(r) == r.stamp \in 1 .. copies /\ ~r.keep

Behind(r) ==
  LET age == copies - r.stamp
  IN age < Ring => /\ buffer[r.slot] = r.word
                   /\ r.slot + 1 + age \in {index, index + Ring}

RingInv ==
  /\ \A i \in Bounded(wire) : Stamped(wire[i]) /\ Behind(wire[i])
  /\ \A i \in Bounded(done) : Stamped(done[i])

\* A status says what became of the request.
Agrees(st, fate) == (st = "OK" => fate = "OK") /\ (st = "ERROR" => fate # "OK")

Own(r, t) == r.by = t /\ r.stamp = call[t].stamp

NoneOut == Bounded(wire) = {} /\ Bounded(done) = {}

\* An attempt that began with nothing outstanding has one request out at most,
\* its own; whoever finds the semaphore released finds its own status.
CleanQueue(t) == NoneOut /\ doneSem = 0 /\ call[t].fate = "none"

CleanWait(t) ==
  /\ \A i \in Bounded(wire) :
       /\ Own(wire[i], t) /\ Bounded(wire) = {i} /\ Bounded(done) = {}
       /\ doneSem = 0 /\ call[t].fate = "none"
  /\ \A i \in Bounded(done) :
       /\ Own(done[i], t) /\ Bounded(done) = {i} /\ Bounded(wire) = {}
       /\ doneSem = 0 /\ Agrees(done[i].st, call[t].fate)
  /\ doneSem > 0 => Agrees(status, call[t].fate)

CleanJudge(t) == NoneOut /\ Agrees(status, call[t].fate)

CleanInv ==
  \A t \in Callers : call[t].clean =>
    /\ call[t].pc = "queue" => CleanQueue(t)
    /\ call[t].pc = "wait"  => CleanWait(t)
    /\ call[t].pc = "judge" => CleanJudge(t)

\* A synchronous request says what its call says; a read that is done has the
\* register's word; and from the read of a masked write to its write nothing
\* else is sent that could change the register.
Says(r) ==
  LET c == call[r.by]
  IN /\ r.half = c.half /\ r.addr = c.addr
     /\ r.keep = (c.kind = "masked" /\ c.good)

MaskInv ==
  /\ \A i \in DOMAIN wire : wire[i].kind = "sync" =>
       Says(wire[i]) /\ wire[i].word = call[wire[i].by].word
  /\ \A i \in DOMAIN done : done[i].kind = "sync" =>
       /\ Says(done[i])
       /\ done[i].half = "read" /\ done[i].st = "OK" => done[i].word = reg[done[i].addr]
  /\ \A t \in Callers :
       call[t].pc \in {"request", "sync"} /\ call[t].kind = "masked"
         /\ call[t].half = "write" /\ call[t].good =>
           /\ call[t].word[2] = reg[call[t].addr][2]
           /\ Bounded(wire) = {}

CInv == TypeOK /\ Locked /\ Ways /\ LastInLine /\ RingInv /\ CleanInv /\ AnswersTrue /\ MaskInv

------------------------------------------------------------------------------
(* The sequences of requests.                                              *)

LEMMA NextSlotWraps ==
  ASSUME NEW s \in Slot
  PROVE  NextSlot(s) \in Slot /\ NextSlot(s) = IF s + 1 = Ring THEN 0 ELSE s + 1
BY ControlAssumption DEF NextSlot, Slot

LEMMA Appended ==
  ASSUME NEW s \in Seq(Requests), NEW r \in Requests
  PROVE  LET a == Append(s, r)
         IN /\ a \in Seq(Requests) /\ Len(a) = Len(s) + 1 /\ Len(s) \in Nat
            /\ DOMAIN a = 1 .. Len(s) + 1 /\ DOMAIN s = 1 .. Len(s)
            /\ a[Len(s) + 1] = r /\ \A i \in DOMAIN s : a[i] = s[i]
            /\ a # <<>>
            /\ Bounded(a) = IF r.kind = "bounded" THEN Bounded(s) \cup {Len(s) + 1}
                            ELSE Bounded(s)
<1>. DEFINE a == Append(s, r)
<1>1. /\ a \in Seq(Requests) /\ Len(a) = Len(s) + 1 /\ Len(s) \in Nat
      /\ DOMAIN a = 1 .. Len(s) + 1 /\ DOMAIN s = 1 .. Len(s)
      /\ a[Len(s) + 1] = r /\ \A i \in DOMAIN s : a[i] = s[i]
      /\ a # <<>>
  OBVIOUS
<1>. HIDE DEF a
<1>2. DOMAIN a = DOMAIN s \cup {Len(s) + 1} /\ Len(s) + 1 \notin DOMAIN s
  BY <1>1
<1>3. Bounded(a) = IF r.kind = "bounded" THEN Bounded(s) \cup {Len(s) + 1} ELSE Bounded(s)
  BY <1>1, <1>2, ZenonT(30) DEF Bounded
<1>. QED
  BY <1>1, <1>3 DEF a

LEMMA Tailed ==
  ASSUME NEW s \in Seq(Requests), s # <<>>
  PROVE  /\ Tail(s) \in Seq(Requests) /\ Len(Tail(s)) = Len(s) - 1 /\ Len(s) \in Nat \ {0}
         /\ DOMAIN Tail(s) = 1 .. Len(s) - 1 /\ DOMAIN s = 1 .. Len(s)
         /\ Head(s) = s[1] /\ Head(s) \in Requests
         /\ \A i \in DOMAIN Tail(s) : Tail(s)[i] = s[i + 1] /\ i + 1 \in DOMAIN s
         /\ \A i \in Bounded(Tail(s)) : i + 1 \in Bounded(s)
         /\ Len(s) = 1 => Tail(s) = <<>>
BY DEF Bounded

LEMMA Element ==
  ASSUME NEW s \in Seq(Requests), NEW i \in DOMAIN s
  PROVE  s[i] \in Requests /\ i \in 1 .. Len(s) /\ Len(s) \in Nat
OBVIOUS

\* What an unplugged device fails goes behind what it has done.
LEMMA Joined ==
  ASSUME NEW s \in Seq(Requests), NEW w \in Seq(Requests)
  PROVE  LET j == s \o [i \in DOMAIN w |-> Failed(w[i])]
         IN /\ j \in Seq(Requests) /\ Len(j) = Len(s) + Len(w)
            /\ Len(s) \in Nat /\ Len(w) \in Nat
            /\ DOMAIN j = 1 .. Len(s) + Len(w)
            /\ \A i \in DOMAIN s : j[i] = s[i]
            /\ \A i \in DOMAIN w : j[Len(s) + i] = Failed(w[i])
            /\ \A i \in DOMAIN j : i \in DOMAIN s \/ i - Len(s) \in DOMAIN w
<1>. DEFINE f == [i \in DOMAIN w |-> Failed(w[i])]
<1>1. ASSUME NEW i \in DOMAIN w PROVE Failed(w[i]) \in Requests
  <2>1. w[i] \in Requests
    BY Element
  <2>. QED
    BY <2>1 DEF Failed, Requests
<1>2. /\ DOMAIN w = 1 .. Len(w) /\ DOMAIN s = 1 .. Len(s) /\ Len(w) \in Nat /\ Len(s) \in Nat
  OBVIOUS
<1>3. f \in Seq(Requests) /\ Len(f) = Len(w)
  BY <1>1, <1>2
<1>. HIDE DEF f
<1>4. /\ s \o f \in Seq(Requests) /\ Len(s \o f) = Len(s) + Len(f)
      /\ \A i \in 1 .. Len(s) + Len(f) :
           (s \o f)[i] = IF i <= Len(s) THEN s[i] ELSE f[i - Len(s)]
  BY <1>3, ConcatProperties
<1>5. DOMAIN (s \o f) = 1 .. Len(s) + Len(w)
  BY <1>3, <1>4
<1>6. \A i \in DOMAIN w : (s \o f)[Len(s) + i] = f[i]
  BY <1>2, <1>3, <1>4
<1>7. \A i \in DOMAIN w : f[i] = Failed(w[i])
  BY DEF f
<1>. QED
  BY <1>2, <1>3, <1>4, <1>5, <1>6, <1>7 DEF f

------------------------------------------------------------------------------
(* The calls.                                                              *)

LEMMA Types ==
  ASSUME TypeOK, NEW t \in Callers
  PROVE  /\ call[t] \in Calls /\ call[t].word \in Word /\ call[t].try \in Nat
         /\ call[t].addr \in Addrs /\ call[t].stamp \in Nat /\ call[t].fate \in Fates
         /\ answer[t] \in Answers /\ copies \in Nat /\ index \in Slot
         /\ AllOnes \in Word
<1>1. call[t] \in Calls /\ answer[t] \in Answers /\ copies \in Nat /\ index \in Slot
  BY DEF TypeOK
<1>2. AllOnes \in Word
  <2>1. Ones \in Field
    BY ControlAssumption DEF Field, Ones
  <2>. QED
    BY <2>1 DEF AllOnes, Word
<1>. QED
  BY <1>1, <1>2 DEF Calls

LEMMA NoCallType ==
  /\ NoCall \in Calls /\ NoAnswer \in Answers /\ AnyAddr \in Addrs
  /\ NoCall.pc = "idle" /\ NoCall.kind = "write" /\ NoCall.fate = "sync" /\ NoCall.stamp = 0
  /\ NoCall.half = "write" /\ NoAnswer.fate = "sync"
<1>1. AnyAddr \in Addrs
  BY ControlAssumption DEF AnyAddr
<1>. QED
  BY <1>1, ControlAssumption DEF NoCall, NoAnswer, Calls, Answers, Fates, Kinds, Word, Field, Ones

\* The call of one thread changes.
LEMMA CallChanges ==
  ASSUME TypeOK, NEW t \in Callers, NEW c \in Calls, call' = [call EXCEPT ![t] = c]
  PROVE  /\ call' \in [Callers -> Calls] /\ call'[t] = c
         /\ \A u \in Callers \ {t} : call'[u] = call[u]
BY DEF TypeOK

LEMMA Returned ==
  ASSUME TypeOK, NEW t \in Callers, NEW st \in {"OK", "TIMED_OUT", "ERROR"}, NEW w \in Word,
         Return(t, st, w)
  PROVE  /\ call' \in [Callers -> Calls] /\ call'[t] = NoCall
         /\ \A u \in Callers \ {t} : call'[u] = call[u]
         /\ answer' \in [Callers -> Answers] /\ owner' = NoCaller
         /\ \A u \in Callers \ {t} : answer'[u] = answer[u]
         /\ answer'[t].st = st /\ answer'[t].clean = call[t].clean
         /\ answer'[t].fate = call[t].fate
<1>1. call[t].clean \in BOOLEAN /\ call[t].fate \in Fates
  BY DEF TypeOK, Calls
<1>2. [st |-> st, word |-> w, clean |-> call[t].clean, fate |-> call[t].fate] \in Answers
  BY <1>1 DEF Answers
<1>3. answer \in [Callers -> Answers]
  BY DEF TypeOK
<1>. QED
  BY <1>2, <1>3, CallChanges, NoCallType DEF Return

\* A request's fate is told to nobody but its own caller.
LEMMA FateTold ==
  ASSUME TypeOK, NEW r \in Requests, NEW st \in {"OK", "ERROR"}, call' = Fate(r, st)
  PROVE  /\ call' \in [Callers -> Calls]
         /\ \A u \in Callers :
              /\ call'[u].pc = call[u].pc /\ call'[u].kind = call[u].kind
              /\ call'[u].addr = call[u].addr /\ call'[u].half = call[u].half
              /\ call'[u].word = call[u].word /\ call'[u].try = call[u].try
              /\ call'[u].good = call[u].good /\ call'[u].clean = call[u].clean
              /\ call'[u].stamp = call[u].stamp
              /\ call'[u].fate = IF r.kind = "bounded" /\ Own(r, u) THEN st ELSE call[u].fate
<1>. DEFINE c == [call[r.by] EXCEPT !.fate = st]
<1>1. r.by \in Callers /\ call[r.by] \in Calls
  BY DEF Requests, TypeOK
<1>2. /\ c \in Calls /\ c.pc = call[r.by].pc /\ c.kind = call[r.by].kind
      /\ c.addr = call[r.by].addr /\ c.half = call[r.by].half /\ c.word = call[r.by].word
      /\ c.try = call[r.by].try /\ c.good = call[r.by].good /\ c.clean = call[r.by].clean
      /\ c.stamp = call[r.by].stamp /\ c.fate = st
  BY <1>1 DEF Calls, Fates
<1>. HIDE DEF c
<1>3. CASE r.kind = "bounded" /\ call[r.by].stamp = r.stamp
  <2>1. call' = [call EXCEPT ![r.by] = c]
    BY <1>3 DEF Fate, c
  <2>2. /\ call' \in [Callers -> Calls] /\ call'[r.by] = c
        /\ \A u \in Callers \ {r.by} : call'[u] = call[u]
    BY <1>1, <1>2, <2>1, CallChanges
  <2>. QED
    BY <1>1, <1>2, <1>3, <2>2 DEF Own
<1>4. CASE ~(r.kind = "bounded" /\ call[r.by].stamp = r.stamp)
  <2>1. call' = call
    BY <1>4 DEF Fate
  <2>. QED
    BY <1>4, <2>1 DEF Own, TypeOK
<1>. QED
  BY <1>3, <1>4

------------------------------------------------------------------------------
(* What a thread's own step leaves alone.                                  *)

OnlyCall(t)   == call' \in [Callers -> Calls] /\ \A u \in Callers \ {t} : call'[u] = call[u]
OnlyAnswer(t) == answer' \in [Callers -> Answers] /\ \A u \in Callers \ {t} : answer'[u] = answer[u]

LEMMA LockedKept ==
  ASSUME TypeOK, Locked, NEW t \in Callers, OnlyCall(t), Inside(t)' => owner' = t,
         owner' = owner \/ owner \in {t, NoCaller}
  PROVE  Locked'
<1>. SUFFICES ASSUME NEW u \in Callers, Inside(u)' PROVE owner' = u
  BY DEF Locked
<1>1. CASE u = t
  BY <1>1
<1>2. CASE u # t
  <2>1. call'[u] = call[u]
    BY <1>2 DEF OnlyCall
  <2>2. Inside(u)
    BY <2>1 DEF Inside
  <2>3. owner = u
    BY <2>2 DEF Locked
  <2>. QED
    BY <1>2, <2>3, ControlAssumption
<1>. QED
  BY <1>1, <1>2

\* Nobody else is inside a call.
LEMMA Alone ==
  ASSUME Locked, NEW t \in Callers, NEW u \in Callers, Inside(t), Inside(u)
  PROVE  u = t
BY DEF Locked

LEMMA WaysKept ==
  ASSUME Ways, NEW t \in Callers, OnlyCall(t),
         /\ call'[t].pc \in {"drain", "queue", "wait", "judge"} => call'[t].kind = "bounded"
         /\ call'[t].pc \in {"request", "sync"} => call'[t].kind # "bounded"
         /\ call'[t].kind # "bounded" => call'[t].fate = "sync" /\ call'[t].stamp = 0
         /\ call'[t].half = "read" /\ call'[t].kind = "masked" => call'[t].good
         /\ call'[t].pc = "lock" /\ call'[t].kind = "masked" => call'[t].half = "read"
  PROVE  Ways'
<1>. SUFFICES ASSUME NEW u \in Callers
     PROVE  /\ call'[u].pc \in {"drain", "queue", "wait", "judge"} => call'[u].kind = "bounded"
            /\ call'[u].pc \in {"request", "sync"} => call'[u].kind # "bounded"
            /\ call'[u].kind # "bounded" => call'[u].fate = "sync" /\ call'[u].stamp = 0
            /\ call'[u].half = "read" /\ call'[u].kind = "masked" => call'[u].good
            /\ call'[u].pc = "lock" /\ call'[u].kind = "masked" => call'[u].half = "read"
  BY DEF Ways
<1>1. CASE u = t
  BY <1>1
<1>2. CASE u # t
  BY <1>2 DEF OnlyCall, Ways
<1>. QED
  BY <1>1, <1>2

\* A call that the device hears nothing of leaves what is said of its requests.
LEMMA DeviceKept ==
  ASSUME CInv, NEW t \in Callers, OnlyCall(t),
         UNCHANGED <<index, buffer, copies, wire, done, reg>>,
         call[t].pc # "sync",
         call'[t].pc # "sync",
         call'[t].pc = "request" /\ call'[t].kind = "masked" => call'[t].half = "read"
  PROVE  LastInLine' /\ RingInv' /\ MaskInv'
<1>1. \A u \in Callers : call[u].pc = "sync" => call'[u] = call[u]
  BY DEF OnlyCall
<1>2. \A i \in DOMAIN wire : wire[i].by \in Callers
  BY Element DEF CInv, TypeOK, Requests
<1>3. \A i \in DOMAIN done : done[i].by \in Callers
  BY Element DEF CInv, TypeOK, Requests
<1>4. LastInLine'
  BY <1>1, <1>2, <1>3 DEF CInv, LastInLine
<1>5. RingInv'
  BY DEF CInv, RingInv, Stamped, Behind, Bounded
<1>6. MaskInv'
  <2>1. \A i \in DOMAIN wire : wire[i].kind = "sync" => call'[wire[i].by] = call[wire[i].by]
    BY <1>1, <1>2 DEF CInv, LastInLine
  <2>2. \A i \in DOMAIN done : done[i].kind = "sync" => call'[done[i].by] = call[done[i].by]
    BY <1>1, <1>3 DEF CInv, LastInLine
  <2>3. (\A i \in DOMAIN wire : wire[i].kind = "sync" =>
           Says(wire[i]) /\ wire[i].word = call[wire[i].by].word)'
    BY <2>1 DEF CInv, MaskInv, Says
  <2>4. (\A i \in DOMAIN done : done[i].kind = "sync" =>
           /\ Says(done[i])
           /\ done[i].half = "read" /\ done[i].st = "OK" => done[i].word = reg[done[i].addr])'
    BY <2>2 DEF CInv, MaskInv, Says
  <2>5. ASSUME NEW u \in Callers,
               call'[u].pc \in {"request", "sync"}, call'[u].kind = "masked",
               call'[u].half = "write", call'[u].good
        PROVE  call'[u].word[2] = reg'[call'[u].addr][2] /\ Bounded(wire)' = {}
    <3>1. u # t
      BY <2>5
    <3>2. call'[u] = call[u]
      BY <3>1 DEF OnlyCall
    <3>. QED
      BY <2>5, <3>2 DEF CInv, MaskInv, Bounded
  <2>. QED
    BY <2>3, <2>4, <2>5 DEF MaskInv
<1>. QED
  BY <1>4, <1>5, <1>6

\* While a call is inside no other attempt is.
LEMMA CleanAlone ==
  ASSUME Locked, NEW t \in Callers, OnlyCall(t), Inside(t),
         call'[t].clean =>
           /\ call'[t].pc = "queue" => CleanQueue(t)'
           /\ call'[t].pc = "wait"  => CleanWait(t)'
           /\ call'[t].pc = "judge" => CleanJudge(t)'
  PROVE  CleanInv'
<1>. SUFFICES ASSUME NEW u \in Callers
     PROVE  call'[u].clean =>
              /\ call'[u].pc = "queue" => CleanQueue(u)'
              /\ call'[u].pc = "wait"  => CleanWait(u)'
              /\ call'[u].pc = "judge" => CleanJudge(u)'
  BY DEF CleanInv
<1>1. CASE u = t
  BY <1>1
<1>2. CASE u # t
  <2>1. ~Inside(u)
    BY <1>2, Alone
  <2>2. call'[u] = call[u]
    BY <1>2 DEF OnlyCall
  <2>. QED
    BY <2>1, <2>2 DEF Inside
<1>. QED
  BY <1>1, <1>2

LEMMA CleanKept ==
  ASSUME CleanInv, NEW t \in Callers, OnlyCall(t), UNCHANGED <<wire, done, doneSem, status>>,
         call'[t].pc \notin {"queue", "wait", "judge"}
  PROVE  CleanInv'
<1>. SUFFICES ASSUME NEW u \in Callers, call'[u].clean, u # t
     PROVE  /\ call'[u].pc = "queue" => CleanQueue(u)'
            /\ call'[u].pc = "wait"  => CleanWait(u)'
            /\ call'[u].pc = "judge" => CleanJudge(u)'
  BY DEF CleanInv
<1>1. call'[u] = call[u]
  BY DEF OnlyCall
<1>2. Bounded(wire)' = Bounded(wire) /\ Bounded(done)' = Bounded(done)
  BY DEF Bounded
<1>3. CleanQueue(u)' = CleanQueue(u)
  BY <1>1, <1>2 DEF CleanQueue, NoneOut
<1>4. CleanWait(u)' = CleanWait(u)
  BY <1>1, <1>2 DEF CleanWait, Own
<1>5. CleanJudge(u)' = CleanJudge(u)
  BY <1>1, <1>2 DEF CleanJudge, NoneOut
<1>. QED
  BY <1>1, <1>3, <1>4, <1>5 DEF CleanInv

LEMMA AnswersKept ==
  ASSUME AnswersTrue, NEW t \in Callers, OnlyAnswer(t),
         answer'[t].fate # "sync" /\ answer'[t].clean =>
           /\ answer'[t].st = "OK"    => answer'[t].fate = "OK"
           /\ answer'[t].st = "ERROR" => answer'[t].fate # "OK"
  PROVE  AnswersTrue'
<1>. SUFFICES ASSUME NEW u \in Callers
     PROVE  answer'[u].fate # "sync" /\ answer'[u].clean =>
              /\ answer'[u].st = "OK"    => answer'[u].fate = "OK"
              /\ answer'[u].st = "ERROR" => answer'[u].fate # "OK"
  BY DEF AnswersTrue
<1>1. CASE u = t
  BY <1>1
<1>2. CASE u # t
  <2>1. answer'[u] = answer[u]
    BY <1>2 DEF OnlyAnswer
  <2>. QED
    BY <2>1 DEF AnswersTrue
<1>. QED
  BY <1>1, <1>2

------------------------------------------------------------------------------
(* The invariant holds at first, and every step of a call keeps it.        *)

LEMMA InitInv == ControlInit => CInv
<1>. SUFFICES ASSUME ControlInit PROVE CInv
  OBVIOUS
<1>1. /\ \A t \in Callers : call[t] = NoCall /\ answer[t] = NoAnswer
      /\ wire = <<>> /\ done = <<>>
  BY DEF ControlInit
<1>2. <<0, 0>> \in Word
  BY ControlAssumption DEF Word, Field, Ones
<1>3. TypeOK
  <2>1. 0 \in Slot /\ MaxNaks \in Nat /\ 0 \in 0 .. MaxValue
    BY ControlAssumption DEF Slot
  <2>2. reg \in [Addrs -> Word] /\ buffer \in [Slot -> Word]
    BY <1>2 DEF ControlInit
  <2>3. call \in [Callers -> Calls] /\ answer \in [Callers -> Answers]
    BY NoCallType DEF ControlInit
  <2>4. wire \in Seq(Requests) /\ done \in Seq(Requests)
    BY <1>1
  <2>. QED
    BY <2>1, <2>2, <2>3, <2>4 DEF ControlInit, TypeOK
<1>4. Bounded(wire) = {} /\ Bounded(done) = {} /\ DOMAIN wire = {} /\ DOMAIN done = {}
  BY <1>1 DEF Bounded
<1>5. Locked /\ Ways
  BY <1>1, NoCallType DEF Locked, Ways, Inside
<1>6. LastInLine /\ RingInv
  BY <1>4 DEF LastInLine, RingInv
<1>7. CleanInv
  BY <1>1, NoCallType DEF CleanInv
<1>8. AnswersTrue
  BY <1>1, NoCallType DEF AnswersTrue
<1>9. MaskInv
  BY <1>1, <1>4, NoCallType DEF MaskInv
<1>. QED
  BY <1>3, <1>5, <1>6, <1>7, <1>8, <1>9 DEF CInv

\* A call is made, or answered at once without a device.
LEMMA CallBegun ==
  ASSUME TypeOK, NEW t \in Callers, NEW kind \in Kinds, NEW addr \in Addrs,
         NEW v \in 0 .. MaxValue, Call(t, kind, addr, v)
  PROVE  /\ call[t].pc = "idle"
         /\ UNCHANGED <<owner, present, doneSem, status, index, buffer, copies, wire, done, reg, naks>>
         /\ OnlyCall(t) /\ OnlyAnswer(t) /\ answer'[t].fate = "sync"
         /\ \/ /\ call'[t].pc = "lock" /\ call'[t].kind = kind /\ call'[t].addr = addr
               /\ call'[t].word = <<v, v>> /\ call'[t].stamp = 0 /\ call'[t].good
               /\ call'[t].half = IF kind \in {"read", "masked"} THEN "read" ELSE "write"
               /\ call'[t].fate = IF kind = "bounded" THEN "none" ELSE "sync"
               /\ answer'[t].st = "none"
            \/ call' = call /\ answer'[t].st = "ERROR"
<1>1. <<v, v>> \in Word
  BY ControlAssumption DEF Word, Field, Ones
<1>2. /\ call[t].pc = "idle"
      /\ UNCHANGED <<owner, present, doneSem, status, index, buffer, copies, wire, done, reg, naks>>
  BY DEF Call, Idle, At, waitVars, deviceVars
<1>3. CASE present
  <2>. DEFINE c == [NoCall EXCEPT !.pc = "lock", !.kind = kind, !.addr = addr,
                      !.half = IF kind \in {"read", "masked"} THEN "read" ELSE "write",
                      !.fate = IF kind = "bounded" THEN "none" ELSE "sync",
                      !.word = <<v, v>>]
  <2>1. /\ c \in Calls /\ c.pc = "lock" /\ c.kind = kind /\ c.stamp = 0 /\ c.good
        /\ c.addr = addr /\ c.word = <<v, v>>
        /\ c.half = IF kind \in {"read", "masked"} THEN "read" ELSE "write"
        /\ c.fate = IF kind = "bounded" THEN "none" ELSE "sync"
    BY <1>1, NoCallType DEF NoCall, Calls, Fates, Kinds
  <2>. HIDE DEF c
  <2>2. call' = [call EXCEPT ![t] = c] /\ answer' = [answer EXCEPT ![t] = NoAnswer]
    BY <1>3 DEF Call, c
  <2>3. OnlyCall(t) /\ call'[t] = c
    BY <2>1, <2>2, CallChanges DEF OnlyCall
  <2>4. OnlyAnswer(t) /\ answer'[t] = NoAnswer
    BY <2>2, NoCallType DEF OnlyAnswer, TypeOK
  <2>5. NoAnswer.st = "none"
    BY DEF NoAnswer
  <2>. QED
    BY <1>2, <2>1, <2>3, <2>4, <2>5, NoCallType
<1>4. CASE ~present
  <2>. DEFINE n == [NoAnswer EXCEPT !.st = "ERROR", !.word = AllOnes]
  <2>1. n \in Answers /\ n.fate = "sync" /\ n.st = "ERROR"
    BY Types, NoCallType DEF NoAnswer, Answers
  <2>. HIDE DEF n
  <2>2. call' = call /\ answer' = [answer EXCEPT ![t] = n]
    BY <1>4 DEF Call, n
  <2>3. OnlyCall(t)
    BY <2>2 DEF OnlyCall, TypeOK
  <2>4. OnlyAnswer(t) /\ answer'[t] = n
    BY <2>1, <2>2 DEF OnlyAnswer, TypeOK
  <2>. QED
    BY <1>2, <2>1, <2>2, <2>3, <2>4
<1>. QED
  BY <1>3, <1>4

LEMMA CallKeeps ==
  ASSUME CInv, NEW t \in Callers, NEW kind \in Kinds, NEW addr \in Addrs,
         NEW v \in 0 .. MaxValue, Call(t, kind, addr, v), fresh' \in 0 .. MaxValue
  PROVE  CInv'
<1>. TypeOK
  BY DEF CInv
<1>1. /\ call[t].pc = "idle"
      /\ UNCHANGED <<owner, present, doneSem, status, index, buffer, copies, wire, done, reg, naks>>
      /\ OnlyCall(t) /\ OnlyAnswer(t) /\ answer'[t].fate = "sync"
  BY CallBegun
<1>2. /\ call'[t].pc \in {"idle", "lock"}
      /\ call'[t].kind # "bounded" => call'[t].fate = "sync" /\ call'[t].stamp = 0
      /\ call'[t].half = "read" /\ call'[t].kind = "masked" => call'[t].good
      /\ call'[t].pc = "lock" /\ call'[t].kind = "masked" => call'[t].half = "read"
  <2>1. CASE call' = call
    BY <1>1, <2>1 DEF CInv, Ways
  <2>2. CASE call' # call
    BY <2>2, CallBegun
  <2>. QED
    BY <2>1, <2>2
<1>5. TypeOK'
  BY <1>1 DEF TypeOK, OnlyCall, OnlyAnswer
<1>6. Locked' /\ Ways'
  BY <1>1, <1>2, LockedKept, WaysKept DEF CInv, Inside
<1>7. LastInLine' /\ RingInv' /\ MaskInv'
  BY <1>1, <1>2, DeviceKept
<1>8. CleanInv'
  BY <1>1, <1>2, CleanKept DEF CInv
<1>9. AnswersTrue'
  BY <1>1, AnswersKept DEF CInv
<1>. QED
  BY <1>5, <1>6, <1>7, <1>8, <1>9 DEF CInv

LEMMA TakeLockKeeps ==
  ASSUME CInv, NEW t \in Callers, TakeLock(t)
  PROVE  CInv'
<1>. TypeOK
  BY DEF CInv
<1>. DEFINE c == [call[t] EXCEPT !.pc = IF call[t].kind = "bounded" THEN "drain" ELSE "request"]
<1>1. /\ c \in Calls /\ c.pc = IF call[t].kind = "bounded" THEN "drain" ELSE "request"
      /\ c.kind = call[t].kind /\ c.half = call[t].half /\ c.fate = call[t].fate
      /\ c.stamp = call[t].stamp /\ c.good = call[t].good
  BY Types DEF Calls
<1>2. call' = [call EXCEPT ![t] = c]
  BY DEF TakeLock, Goto
<1>. HIDE DEF c
<1>3. OnlyCall(t) /\ call'[t] = c
  BY <1>1, <1>2, CallChanges DEF OnlyCall
<1>4. /\ call[t].pc = "lock" /\ owner = NoCaller /\ owner' = t
      /\ UNCHANGED <<answer, present, fresh, doneSem, status, index, buffer, copies, wire, done, reg, naks>>
  BY DEF TakeLock, At, waitVars, deviceVars
<1>5. TypeOK'
  BY <1>3, <1>4 DEF TypeOK, OnlyCall
<1>6. Locked' /\ Ways'
  <2>1. Locked'
    BY <1>3, <1>4, LockedKept DEF CInv
  <2>2. /\ call[t].kind # "bounded" => call[t].fate = "sync" /\ call[t].stamp = 0
        /\ call[t].half = "read" /\ call[t].kind = "masked" => call[t].good
    BY DEF CInv, Ways
  <2>. QED
    BY <1>1, <1>3, <2>1, <2>2, WaysKept DEF CInv
<1>7. LastInLine' /\ RingInv' /\ MaskInv'
  <2>1. call[t].kind = "masked" => call[t].half = "read"
    BY <1>4 DEF CInv, Ways
  <2>. QED
    BY <1>1, <1>3, <1>4, <2>1, DeviceKept
<1>8. CleanInv'
  BY <1>1, <1>3, <1>4, CleanKept DEF CInv
<1>9. AnswersTrue'
  BY <1>4 DEF CInv, AnswersTrue
<1>. QED
  BY <1>5, <1>6, <1>7, <1>8, <1>9 DEF CInv

LEMMA DrainKeeps ==
  ASSUME CInv, NEW t \in Callers, Drain(t)
  PROVE  CInv'
<1>. TypeOK
  BY DEF CInv
<1>. DEFINE none == Bounded(wire) = {} /\ Bounded(done) = {}
            c == [call[t] EXCEPT !.pc = "queue", !.fate = "none", !.clean = none]
<1>1. /\ c \in Calls /\ c.pc = "queue" /\ c.fate = "none" /\ (c.clean => none)
      /\ c.kind = call[t].kind /\ c.half = call[t].half
      /\ c.stamp = call[t].stamp /\ c.good = call[t].good
  <2>1. none \in BOOLEAN
    OBVIOUS
  <2>. HIDE DEF none
  <2>. QED
    BY <2>1, Types DEF Calls, Fates
<1>2. call' = [call EXCEPT ![t] = c]
  BY DEF Drain, BeginAttempt, TypeOK
<1>. HIDE DEF c
<1>3. OnlyCall(t) /\ call'[t] = c
  BY <1>1, <1>2, CallChanges DEF OnlyCall
<1>4. /\ call[t].pc = "drain" /\ doneSem' = 0
      /\ UNCHANGED <<owner, answer, present, fresh, status, index, buffer, copies, wire, done, reg, naks>>
  BY DEF Drain, At, lockVars, deviceVars
<1>5. TypeOK'
  BY <1>3, <1>4 DEF TypeOK, OnlyCall
<1>6. Inside(t) /\ owner = t
  BY <1>4 DEF Inside, Locked, CInv
<1>7. Locked'
  BY <1>3, <1>4, <1>6, LockedKept DEF CInv
<1>8. Ways'
  <2>1. call[t].kind = "bounded"
    BY <1>4 DEF CInv, Ways
  <2>. QED
    BY <1>1, <1>3, <2>1, WaysKept DEF CInv
<1>9. LastInLine' /\ RingInv' /\ MaskInv'
  BY <1>1, <1>3, <1>4, DeviceKept
<1>10. CleanInv'
  <2>1. c.clean => CleanQueue(t)'
    BY <1>1, <1>3, <1>4 DEF CleanQueue, NoneOut, Bounded
  <2>. QED
    BY <1>1, <1>3, <1>6, <2>1, CleanAlone DEF CInv
<1>11. AnswersTrue'
  BY <1>4 DEF CInv, AnswersTrue
<1>. QED
  BY <1>5, <1>7, <1>8, <1>9, <1>10, <1>11 DEF CInv

\* A call that ends: its answer is as true as its fate.
LEMMA ReturnKeeps ==
  ASSUME CInv, NEW t \in Callers, Inside(t),
         NEW st \in {"OK", "TIMED_OUT", "ERROR"}, NEW w \in Word, Return(t, st, w),
         call[t].fate # "sync" /\ call[t].clean => Agrees(st, call[t].fate)
  PROVE  /\ OnlyCall(t) /\ OnlyAnswer(t) /\ owner' = NoCaller /\ call'[t] = NoCall
         /\ Locked' /\ Ways' /\ CleanInv' /\ AnswersTrue'
<1>. TypeOK
  BY DEF CInv
<1>1. /\ OnlyCall(t) /\ OnlyAnswer(t) /\ owner' = NoCaller /\ call'[t] = NoCall
      /\ answer'[t].st = st /\ answer'[t].clean = call[t].clean /\ answer'[t].fate = call[t].fate
  BY Returned DEF OnlyCall, OnlyAnswer
<1>2. owner = t
  BY DEF CInv, Locked
<1>3. Locked'
  BY <1>1, <1>2, NoCallType, LockedKept DEF CInv, Inside
<1>4. Ways'
  BY <1>1, NoCallType, WaysKept DEF CInv
<1>5. CleanInv'
  BY <1>1, NoCallType, CleanAlone DEF CInv
<1>6. AnswersTrue'
  BY <1>1, AnswersKept DEF CInv, Agrees
<1>. QED
  BY <1>1, <1>3, <1>4, <1>5, <1>6

LEMMA Moved ==
  ASSUME TypeOK, NEW t \in Callers,
         NEW where \in {"drain", "queue", "wait", "judge", "request", "sync"}, Goto(t, where)
  PROVE  /\ OnlyCall(t) /\ call'[t].pc = where
         /\ call'[t].kind = call[t].kind /\ call'[t].half = call[t].half
         /\ call'[t].addr = call[t].addr /\ call'[t].word = call[t].word
         /\ call'[t].good = call[t].good /\ call'[t].clean = call[t].clean
         /\ call'[t].stamp = call[t].stamp /\ call'[t].fate = call[t].fate
<1>. DEFINE c == [call[t] EXCEPT !.pc = where]
<1>1. /\ c \in Calls /\ c.pc = where /\ c.kind = call[t].kind /\ c.half = call[t].half
      /\ c.addr = call[t].addr /\ c.word = call[t].word /\ c.good = call[t].good
      /\ c.clean = call[t].clean /\ c.stamp = call[t].stamp /\ c.fate = call[t].fate
  BY Types DEF Calls
<1>2. call' = [call EXCEPT ![t] = c]
  BY DEF Goto
<1>. HIDE DEF c
<1>. QED
  BY <1>1, <1>2, CallChanges DEF OnlyCall

LEMMA Retried ==
  ASSUME TypeOK, NEW t \in Callers, NEW where \in {"drain", "request"},
         call' = [call EXCEPT ![t].pc = where, ![t].try = @ + 1]
  PROVE  /\ OnlyCall(t) /\ call'[t].pc = where
         /\ call'[t].kind = call[t].kind /\ call'[t].half = call[t].half
         /\ call'[t].addr = call[t].addr /\ call'[t].word = call[t].word
         /\ call'[t].good = call[t].good /\ call'[t].clean = call[t].clean
         /\ call'[t].stamp = call[t].stamp /\ call'[t].fate = call[t].fate
<1>. DEFINE c == [call[t] EXCEPT !.pc = where, !.try = @ + 1]
<1>1. /\ c \in Calls /\ c.pc = where /\ c.kind = call[t].kind /\ c.half = call[t].half
      /\ c.addr = call[t].addr /\ c.word = call[t].word /\ c.good = call[t].good
      /\ c.clean = call[t].clean /\ c.stamp = call[t].stamp /\ c.fate = call[t].fate
  <2>0. call[t] \in Calls /\ call[t].try + 1 \in Nat
    BY Types
  <2>1. PICK d \in Calls, n \in Nat : d = call[t] /\ n = call[t].try + 1
    BY <2>0
  <2>2. c = [d EXCEPT !.pc = where, !.try = n]
    BY <2>1
  <2>. QED
    BY <2>1, <2>2 DEF Calls
<1>2. call' = [call EXCEPT ![t] = c]
  BY DEF TypeOK
<1>. HIDE DEF c
<1>. QED
  BY <1>1, <1>2, CallChanges DEF OnlyCall

LEMMA AcquireKeeps ==
  ASSUME CInv, NEW t \in Callers, Acquire(t)
  PROVE  CInv'
<1>. TypeOK
  BY DEF CInv
<1>1. /\ call[t].pc = "wait" /\ doneSem \in Nat \ {0} /\ doneSem' = doneSem - 1
      /\ UNCHANGED <<owner, answer, present, fresh, status, index, buffer, copies, wire, done, reg, naks>>
  BY DEF Acquire, At, lockVars, deviceVars, TypeOK
<1>2. /\ OnlyCall(t) /\ call'[t].pc = "judge"
      /\ call'[t].kind = call[t].kind /\ call'[t].half = call[t].half
      /\ call'[t].good = call[t].good /\ call'[t].clean = call[t].clean
      /\ call'[t].stamp = call[t].stamp /\ call'[t].fate = call[t].fate
  BY Moved DEF Acquire
<1>3. Inside(t) /\ owner = t
  BY <1>1 DEF Inside, Locked, CInv
<1>4. TypeOK'
  BY <1>1, <1>2 DEF TypeOK, OnlyCall
<1>5. Locked'
  BY <1>1, <1>2, <1>3, LockedKept DEF CInv
<1>6. Ways'
  <2>1. call[t].kind = "bounded"
    BY <1>1 DEF CInv, Ways
  <2>. QED
    BY <1>2, <2>1, WaysKept DEF CInv
<1>7. LastInLine' /\ RingInv' /\ MaskInv'
  BY <1>1, <1>2, DeviceKept
<1>8. CleanInv'
  <2>1. call'[t].clean => CleanJudge(t)'
    <3>1. call[t].clean => CleanWait(t)
      BY <1>1 DEF CInv, CleanInv
    <3>2. CleanWait(t) => NoneOut /\ Agrees(status, call[t].fate)
      BY <1>1 DEF CleanWait, NoneOut
    <3>. QED
      BY <1>1, <1>2, <3>1, <3>2 DEF CleanJudge, NoneOut, Bounded, Agrees
  <2>. QED
    BY <1>2, <1>3, <2>1, CleanAlone DEF CInv
<1>9. AnswersTrue'
  BY <1>1 DEF CInv, AnswersTrue
<1>. QED
  BY <1>4, <1>5, <1>6, <1>7, <1>8, <1>9 DEF CInv

\* An attempt is made again: whatever it left out is an abandoned request now.
LEMMA TryAgainKeeps ==
  ASSUME CInv, NEW t \in Callers, call[t].pc \in {"wait", "judge"}, TryAgain(t),
         UNCHANGED <<owner, answer, doneSem, status, index, buffer, copies, wire, done, reg, naks,
                     present, fresh>>
  PROVE  CInv'
<1>. TypeOK
  BY DEF CInv
<1>1. /\ OnlyCall(t) /\ call'[t].pc = "drain"
      /\ call'[t].kind = call[t].kind /\ call'[t].half = call[t].half
      /\ call'[t].good = call[t].good /\ call'[t].stamp = call[t].stamp /\ call'[t].fate = call[t].fate
  BY Retried DEF TryAgain
<1>2. Inside(t) /\ owner = t
  BY DEF Inside, Locked, CInv
<1>3. TypeOK'
  BY <1>1 DEF TypeOK, OnlyCall
<1>4. Locked'
  BY <1>1, <1>2, LockedKept DEF CInv
<1>5. Ways'
  <2>1. call[t].kind = "bounded"
    BY DEF CInv, Ways
  <2>. QED
    BY <1>1, <2>1, WaysKept DEF CInv
<1>6. LastInLine' /\ RingInv' /\ MaskInv'
  BY <1>1, DeviceKept
<1>7. CleanInv'
  BY <1>1, CleanKept DEF CInv
<1>8. AnswersTrue'
  BY DEF CInv, AnswersTrue
<1>. QED
  BY <1>3, <1>4, <1>5, <1>6, <1>7, <1>8 DEF CInv

\* The call ends, and the device hears nothing of it.
LEMMA EndKeeps ==
  ASSUME CInv, NEW t \in Callers, call[t].pc \in {"wait", "judge", "request"},
         NEW st \in {"OK", "TIMED_OUT", "ERROR"}, NEW w \in Word, Return(t, st, w),
         call[t].fate # "sync" /\ call[t].clean => Agrees(st, call[t].fate),
         UNCHANGED <<doneSem, status, index, buffer, copies, wire, done, reg, naks, present, fresh>>
  PROVE  CInv'
<1>. TypeOK
  BY DEF CInv
<1>1. /\ OnlyCall(t) /\ OnlyAnswer(t) /\ owner' = NoCaller /\ call'[t] = NoCall
      /\ Locked' /\ Ways' /\ CleanInv' /\ AnswersTrue'
  BY ReturnKeeps DEF Inside
<1>2. TypeOK'
  BY <1>1 DEF TypeOK, OnlyCall, OnlyAnswer
<1>3. LastInLine' /\ RingInv' /\ MaskInv'
  BY <1>1, NoCallType, DeviceKept
<1>. QED
  BY <1>1, <1>2, <1>3 DEF CInv

LEMMA GiveUpKeeps ==
  ASSUME CInv, NEW t \in Callers, GiveUp(t)
  PROVE  CInv'
<1>1. /\ call[t].pc = "wait"
      /\ UNCHANGED <<doneSem, status, index, buffer, copies, wire, done, reg, naks, present, fresh>>
  BY DEF GiveUp, At, waitVars, deviceVars
<1>2. CASE call[t].try < Attempts
  BY <1>1, <1>2, TryAgainKeeps DEF GiveUp
<1>3. CASE ~(call[t].try < Attempts)
  <2>1. call[t].word \in Word
    BY Types DEF CInv
  <2>. QED
    BY <1>1, <1>3, <2>1, EndKeeps DEF GiveUp, Agrees
<1>. QED
  BY <1>2, <1>3

LEMMA JudgeKeeps ==
  ASSUME CInv, NEW t \in Callers, Judge(t)
  PROVE  CInv'
<1>1. /\ call[t].pc = "judge" /\ status \in {"OK", "ERROR"} /\ call[t].word \in Word
      /\ UNCHANGED <<doneSem, status, index, buffer, copies, wire, done, reg, naks, present, fresh>>
  BY Types DEF CInv, TypeOK, Judge, At, waitVars, deviceVars
<1>2. call[t].clean => Agrees(status, call[t].fate)
  BY <1>1 DEF CInv, CleanInv, CleanJudge
<1>3. CASE status = "OK"
  <2>1. Return(t, "OK", call[t].word)
    BY <1>3 DEF Judge
  <2>. QED
    BY <1>1, <1>2, <1>3, <2>1, EndKeeps
<1>4. CASE status = "ERROR" /\ call[t].try < Attempts
  <2>1. TryAgain(t) /\ UNCHANGED <<owner, answer>>
    BY <1>4 DEF Judge
  <2>. QED
    BY <1>1, <2>1, TryAgainKeeps
<1>5. CASE status = "ERROR" /\ ~(call[t].try < Attempts)
  <2>1. Return(t, "ERROR", call[t].word)
    BY <1>5 DEF Judge
  <2>. QED
    BY <1>1, <1>2, <1>5, <2>1, EndKeeps
<1>. QED
  BY <1>1, <1>3, <1>4, <1>5

LEMMA RequestWithoutDeviceKeeps ==
  ASSUME CInv, NEW t \in Callers, RequestWithoutDevice(t)
  PROVE  CInv'
<1>1. /\ call[t].pc = "request" /\ Return(t, "ERROR", AllOnes)
      /\ UNCHANGED <<doneSem, status, index, buffer, copies, wire, done, reg, naks, present, fresh>>
  BY DEF RequestWithoutDevice, At, waitVars, deviceVars
<1>2. call[t].fate = "sync" /\ AllOnes \in Word
  BY <1>1, Types DEF CInv, Ways
<1>. QED
  BY <1>1, <1>2, EndKeeps

------------------------------------------------------------------------------
(* The requests a call makes.                                              *)

\* With one more buffer filled every request is one further behind; none that
\* is still within the ring has lost its buffer.
LEMMA Ages ==
  ASSUME TypeOK, NEW r \in Requests, Stamped(r), Behind(r), NEW w \in Word,
         buffer' = [buffer EXCEPT ![index] = w], copies' = copies + 1, index' = NextSlot(index)
  PROVE  Stamped(r)' /\ Behind(r)'
<1>1. /\ index \in 0 .. Ring - 1 /\ r.slot \in 0 .. Ring - 1 /\ copies \in Nat /\ Ring \in Nat \ {0}
      /\ r.stamp \in 1 .. copies /\ ~r.keep
  BY ControlAssumption DEF TypeOK, Requests, Slot, Stamped
<1>2. index' = IF index + 1 = Ring THEN 0 ELSE index + 1
  BY NextSlotWraps DEF TypeOK
<1>3. Stamped(r)'
  BY <1>1 DEF Stamped
<1>4. ASSUME copies' - r.stamp < Ring
      PROVE  /\ buffer'[r.slot] = r.word
             /\ r.slot + 1 + (copies' - r.stamp) \in {index', index' + Ring}
  <2>1. /\ copies - r.stamp < Ring /\ buffer[r.slot] = r.word
        /\ r.slot + 1 + (copies - r.stamp) \in {index, index + Ring}
    BY <1>1, <1>4 DEF Behind
  <2>2. r.slot # index
    BY <1>1, <1>4, <2>1
  <2>3. buffer'[r.slot] = r.word
    BY <2>1, <2>2 DEF TypeOK, Requests
  <2>4. r.slot + 1 + (copies' - r.stamp) \in {index', index' + Ring}
    BY <1>1, <1>2, <1>4, <2>1
  <2>. QED
    BY <2>3, <2>4
<1>. QED
  BY <1>3, <1>4 DEF Behind

\* Inside a call that waits for no synchronous request none is out.
LEMMA NoSyncOut ==
  ASSUME CInv, NEW t \in Callers, Inside(t), call[t].pc # "sync"
  PROVE  /\ \A i \in DOMAIN wire : wire[i].kind = "bounded"
         /\ \A i \in DOMAIN done : done[i].kind = "bounded"
<1>1. ASSUME NEW r \in Requests, call[r.by].pc = "sync" PROVE FALSE
  <2>1. r.by \in Callers /\ Inside(r.by)
    BY <1>1 DEF Requests, Inside
  <2>. QED
    BY <1>1, <2>1, Alone DEF CInv
<1>2. (\A i \in DOMAIN wire : wire[i] \in Requests) /\ (\A i \in DOMAIN done : done[i] \in Requests)
  BY Element DEF CInv, TypeOK
<1>3. \A r \in Requests : r.kind = "sync" \/ r.kind = "bounded"
  BY DEF Requests
<1>4. /\ \A i \in DOMAIN wire : wire[i].kind # "sync"
      /\ \A i \in DOMAIN done : done[i].kind # "sync"
  BY <1>1, <1>2 DEF CInv, LastInLine
<1>. QED
  BY <1>2, <1>3, <1>4

LEMMA QueueKeeps ==
  ASSUME CInv, NEW t \in Callers, Queue(t)
  PROVE  CInv'
<1>. TypeOK
  BY DEF CInv
<1>. DEFINE w == call[t].word
<1>1. /\ call[t].pc = "queue" /\ buffer' = [buffer EXCEPT ![index] = w] /\ copies' = copies + 1
      /\ index' = NextSlot(index) /\ status' = "ERROR"
      /\ UNCHANGED <<doneSem, done, reg, present, fresh>>
  BY DEF Queue, At
<1>2. Inside(t) /\ owner = t /\ call[t].kind = "bounded"
  BY <1>1 DEF Inside, Locked, Ways, CInv
<1>3. w \in Word /\ index \in Slot /\ index' \in Slot /\ buffer' \in [Slot -> Word] /\ copies' \in Nat
  BY <1>1, Types, NextSlotWraps DEF TypeOK
<1>4. /\ \A i \in DOMAIN wire : wire[i] \in Requests /\ wire[i].kind = "bounded"
      /\ \A i \in DOMAIN done : done[i] \in Requests /\ done[i].kind = "bounded"
  BY <1>1, <1>2, NoSyncOut, Element DEF TypeOK
<1>5. \A r \in Requests : Stamped(r) /\ Behind(r) => Stamped(r)' /\ Behind(r)'
  BY <1>1, <1>3, Ages
<1>6. \A i \in Bounded(done) : done[i].stamp \in 1 .. copies' /\ ~done[i].keep
  <2>1. \A i \in Bounded(done) : done[i].stamp \in 1 .. copies /\ ~done[i].keep
    BY DEF CInv, RingInv, Stamped
  <2>. QED
    BY <1>1, <2>1 DEF TypeOK
<1>7. CASE wire' = wire /\ naks > 0 /\ naks' = naks - 1 /\ Return(t, "ERROR", w)
  <2>1. call[t].clean => call[t].fate = "none"
    BY <1>1 DEF CInv, CleanInv, CleanQueue
  <2>2. call[t].fate # "sync" /\ call[t].clean => Agrees("ERROR", call[t].fate)
    BY <2>1 DEF Agrees
  <2>3. /\ OnlyCall(t) /\ OnlyAnswer(t) /\ owner' = NoCaller /\ call'[t] = NoCall
        /\ Locked' /\ Ways' /\ CleanInv' /\ AnswersTrue'
    BY <1>2, <1>3, <1>7, <2>2, ReturnKeeps
  <2>4. TypeOK'
    BY <1>1, <1>3, <1>7, <2>3 DEF TypeOK, OnlyCall, OnlyAnswer
  <2>5. LastInLine'
    BY <1>1, <1>4, <1>7 DEF CInv, LastInLine
  <2>6. RingInv'
    <3>. SUFFICES ASSUME NEW i \in Bounded(wire), NEW r \in Requests, r = wire[i]
                  PROVE  Stamped(r)' /\ Behind(r)'
      BY <1>1, <1>4, <1>6, <1>7 DEF RingInv, Bounded, Stamped, Behind
    <3>1. Stamped(r) /\ Behind(r)
      BY DEF CInv, RingInv
    <3>. QED
      BY <1>5, <3>1
  <2>7. MaskInv'
    <3>1. \A u \in Callers : call'[u].pc \notin {"request", "sync"}
      <4>1. \A u \in Callers \ {t} : ~Inside(u)
        BY <1>2, Alone DEF CInv
      <4>. QED
        BY <2>3, <4>1, NoCallType DEF OnlyCall, Inside
    <3>. QED
      BY <1>1, <1>4, <1>7, <3>1 DEF MaskInv
  <2>. QED
    BY <2>3, <2>4, <2>5, <2>6, <2>7 DEF CInv
<1>8. CASE /\ wire' = Append(wire, [by |-> t, kind |-> "bounded", half |-> "write",
                 addr |-> call[t].addr, word |-> w, slot |-> index, stamp |-> copies',
                 keep |-> FALSE, st |-> "pending"])
           /\ call' = [call EXCEPT ![t].pc = "wait", ![t].stamp = copies', ![t].fate = "none"]
           /\ UNCHANGED <<owner, answer, naks>>
  <2>1. PICK r \in Requests :
          /\ r.by = t /\ r.kind = "bounded" /\ r.word = w /\ r.slot = index
          /\ r.stamp = copies' /\ ~r.keep /\ wire' = Append(wire, r)
    <3>1. [by |-> t, kind |-> "bounded", half |-> "write",
           addr |-> call[t].addr, word |-> w, slot |-> index, stamp |-> copies',
           keep |-> FALSE, st |-> "pending"] \in Requests
      BY <1>3, Types DEF Requests
    <3>. QED
      BY <1>8, <3>1
  <2>2. PICK c \in Calls :
          /\ c.pc = "wait" /\ c.stamp = copies' /\ c.fate = "none" /\ c.kind = call[t].kind
          /\ call' = [call EXCEPT ![t] = c]
    <3>1. PICK d \in Calls, n \in Nat : d = call[t] /\ n = copies'
      BY <1>3, Types
    <3>2. [d EXCEPT !.pc = "wait", !.stamp = n, !.fate = "none"] \in Calls
      BY DEF Calls, Fates
    <3>3. call' = [call EXCEPT ![t] = [d EXCEPT !.pc = "wait", !.stamp = n, !.fate = "none"]]
      BY <1>8, <3>1 DEF TypeOK
    <3>. QED
      BY <3>1, <3>2, <3>3 DEF Calls
  <2>3. OnlyCall(t) /\ call'[t] = c
    BY <2>2, CallChanges DEF OnlyCall
  <2>4. /\ wire' \in Seq(Requests) /\ Len(wire') = Len(wire) + 1 /\ Len(wire) \in Nat
        /\ DOMAIN wire' = 1 .. Len(wire) + 1 /\ DOMAIN wire = 1 .. Len(wire)
        /\ wire'[Len(wire) + 1] = r /\ \A i \in DOMAIN wire : wire'[i] = wire[i]
        /\ Bounded(wire') = Bounded(wire) \cup {Len(wire) + 1}
    BY <2>1, Appended DEF TypeOK
  <2>5. TypeOK'
    BY <1>1, <1>3, <1>8, <2>3, <2>4 DEF TypeOK, OnlyCall
  <2>6. Locked'
    BY <1>2, <1>8, <2>3, LockedKept DEF CInv
  <2>7. Ways'
    BY <1>2, <2>2, <2>3, WaysKept DEF CInv
  <2>8. \A i \in DOMAIN wire' : wire'[i].kind = "bounded"
    BY <1>4, <2>1, <2>4
  <2>9. LastInLine'
    BY <1>1, <1>4, <2>8 DEF CInv, LastInLine
  <2>10. RingInv'
    <3>1. Stamped(r)' /\ Behind(r)'
      <4>1. index \in 0 .. Ring - 1 /\ copies \in Nat /\ Ring \in Nat \ {0}
        BY ControlAssumption DEF TypeOK, Slot
      <4>2. index' = IF index + 1 = Ring THEN 0 ELSE index + 1
        BY <1>1, NextSlotWraps DEF TypeOK
      <4>3. buffer'[index] = w
        BY <1>1 DEF TypeOK
      <4>4. r.slot + 1 + (copies' - r.stamp) \in {index', index' + Ring}
        BY <1>1, <2>1, <4>1, <4>2
      <4>. QED
        BY <1>1, <2>1, <4>1, <4>3, <4>4 DEF Stamped, Behind
    <3>2. ASSUME NEW i \in Bounded(wire'), NEW q \in Requests, q = wire'[i]
          PROVE  Stamped(q)' /\ Behind(q)'
      <4>1. CASE i \in Bounded(wire)
        <5>1. q = wire[i]
          BY <2>4, <3>2, <4>1 DEF Bounded
        <5>2. Stamped(q) /\ Behind(q)
          BY <4>1, <5>1 DEF CInv, RingInv
        <5>. QED
          BY <1>5, <5>2
      <4>2. CASE i = Len(wire) + 1
        BY <2>4, <3>1, <3>2, <4>2
      <4>. QED
        BY <2>4, <4>1, <4>2
    <3>3. \A i \in Bounded(wire') : wire'[i] \in Requests
      BY <2>4, Element DEF Bounded
    <3>. QED
      BY <1>1, <1>6, <3>2, <3>3 DEF RingInv, Bounded, Stamped, Behind
  <2>11. CleanInv'
    <3>1. call'[t].clean => CleanWait(t)'
      <4>. SUFFICES ASSUME call'[t].clean PROVE CleanWait(t)'
        OBVIOUS
      <4>1. call[t].clean
        BY <1>8 DEF TypeOK
      <4>2. Bounded(wire) = {} /\ Bounded(done) = {} /\ doneSem = 0
        BY <1>1, <4>1 DEF CInv, CleanInv, CleanQueue, NoneOut
      <4>3. Bounded(wire') = {Len(wire) + 1} /\ Bounded(done') = {} /\ doneSem' = 0
        BY <1>1, <2>4, <4>2
      <4>4. wire'[Len(wire) + 1].by = t /\ wire'[Len(wire) + 1].stamp = call'[t].stamp
        BY <2>1, <2>2, <2>3, <2>4
      <4>. QED
        BY <2>2, <2>3, <4>3, <4>4 DEF CleanWait, Own, Bounded
    <3>. QED
      BY <1>2, <2>2, <2>3, <3>1, CleanAlone DEF CInv
  <2>12. AnswersTrue'
    BY <1>8 DEF CInv, AnswersTrue
  <2>13. MaskInv'
    <3>1. \A u \in Callers : call'[u].pc \notin {"request", "sync"}
      <4>1. \A u \in Callers \ {t} : ~Inside(u)
        BY <1>2, Alone DEF CInv
      <4>. QED
        BY <2>2, <2>3, <4>1 DEF OnlyCall, Inside
    <3>. QED
      BY <1>1, <1>4, <2>8, <3>1 DEF MaskInv
  <2>. QED
    BY <2>5, <2>6, <2>7, <2>9, <2>10, <2>11, <2>12, <2>13 DEF CInv
<1>. QED
  BY <1>7, <1>8 DEF Queue

LEMMA RequestKeeps ==
  ASSUME CInv, NEW t \in Callers, Request(t)
  PROVE  CInv'
<1>. TypeOK
  BY DEF CInv
<1>1. /\ call[t].pc = "request" /\ Goto(t, "sync")
      /\ UNCHANGED <<owner, answer, present, fresh, doneSem, status, index, buffer, copies, done, reg, naks>>
  BY DEF Request, At, lockVars, waitVars, deviceVars
<1>2. Inside(t) /\ owner = t /\ call[t].kind # "bounded"
  BY <1>1 DEF Inside, Locked, Ways, CInv
<1>3. /\ \A i \in DOMAIN wire : wire[i] \in Requests /\ wire[i].kind = "bounded"
      /\ \A i \in DOMAIN done : done[i] \in Requests /\ done[i].kind = "bounded"
  BY <1>1, <1>2, NoSyncOut, Element DEF TypeOK
<1>4. PICK r \in Requests :
        /\ r.by = t /\ r.kind = "sync" /\ r.half = call[t].half /\ r.addr = call[t].addr
        /\ r.word = call[t].word /\ r.keep = (call[t].kind = "masked" /\ call[t].good)
        /\ wire' = Append(wire, r)
  <2>. DEFINE k == call[t].kind = "masked" /\ call[t].good
              r == [by |-> t, kind |-> "sync", half |-> call[t].half, addr |-> call[t].addr,
                    word |-> call[t].word, slot |-> 0, stamp |-> 0, keep |-> k, st |-> "pending"]
  <2>1. wire' = Append(wire, r)
    BY DEF Request
  <2>2. k \in BOOLEAN /\ call[t].half \in {"read", "write"} /\ call[t].addr \in Addrs
        /\ call[t].word \in Word /\ 0 \in Slot
    BY Types, ControlAssumption DEF Calls, Slot
  <2>. HIDE DEF k
  <2>3. r \in Requests
    BY <2>2 DEF Requests
  <2>. QED
    BY <2>1, <2>3 DEF k
<1>5. /\ OnlyCall(t) /\ call'[t].pc = "sync"
      /\ call'[t].kind = call[t].kind /\ call'[t].half = call[t].half
      /\ call'[t].addr = call[t].addr /\ call'[t].word = call[t].word
      /\ call'[t].good = call[t].good /\ call'[t].clean = call[t].clean
      /\ call'[t].stamp = call[t].stamp /\ call'[t].fate = call[t].fate
  BY <1>1, Moved
<1>6. /\ wire' \in Seq(Requests) /\ Len(wire') = Len(wire) + 1 /\ Len(wire) \in Nat
      /\ DOMAIN wire' = 1 .. Len(wire) + 1 /\ DOMAIN wire = 1 .. Len(wire)
      /\ wire'[Len(wire) + 1] = r /\ \A i \in DOMAIN wire : wire'[i] = wire[i]
      /\ Bounded(wire') = Bounded(wire)
  BY <1>4, Appended DEF TypeOK
<1>7. TypeOK'
  BY <1>1, <1>5, <1>6 DEF TypeOK, OnlyCall
<1>8. Locked'
  BY <1>1, <1>2, <1>5, LockedKept DEF CInv
<1>9. Ways'
  <2>1. /\ call[t].kind # "bounded" => call[t].fate = "sync" /\ call[t].stamp = 0
        /\ call[t].half = "read" /\ call[t].kind = "masked" => call[t].good
    BY DEF CInv, Ways
  <2>. QED
    BY <1>2, <1>5, <2>1, WaysKept DEF CInv
<1>10. \A i \in DOMAIN wire' : wire'[i].kind = "sync" => i = Len(wire) + 1 /\ wire'[i] = r
  BY <1>3, <1>6
<1>11. LastInLine'
  BY <1>1, <1>3, <1>4, <1>5, <1>6, <1>10 DEF CInv, LastInLine
<1>12. RingInv'
  <2>1. \A i \in Bounded(wire) : wire'[i] = wire[i]
    BY <1>6 DEF Bounded
  <2>. QED
    BY <1>1, <1>6, <2>1 DEF CInv, RingInv, Stamped, Behind, Bounded
<1>13. CleanInv'
  BY <1>2, <1>5, CleanAlone DEF CInv
<1>14. AnswersTrue'
  BY <1>1 DEF CInv, AnswersTrue
<1>15. MaskInv'
  <2>1. ASSUME NEW i \in DOMAIN wire', wire'[i].kind = "sync"
        PROVE  Says(wire[i])' /\ wire'[i].word = call'[wire'[i].by].word
    BY <1>4, <1>5, <1>10, <2>1 DEF Says
  <2>2. ASSUME NEW u \in Callers, call'[u].pc \in {"request", "sync"}, call'[u].kind = "masked",
               call'[u].half = "write", call'[u].good
        PROVE  call'[u].word[2] = reg'[call'[u].addr][2] /\ Bounded(wire') = {}
    <3>1. u = t
      BY <1>2, <1>5, <2>2, Alone DEF OnlyCall, Inside, CInv
    <3>. QED
      BY <1>1, <1>5, <1>6, <2>2, <3>1 DEF CInv, MaskInv
  <2>. QED
    BY <1>1, <1>3, <2>1, <2>2 DEF MaskInv, Bounded
<1>. QED
  BY <1>7, <1>8, <1>9, <1>11, <1>12, <1>13, <1>14, <1>15 DEF CInv

------------------------------------------------------------------------------
(* The device and the USB thread.                                          *)

LEMMA CallbackKeeps ==
  ASSUME CInv, ControlCallback
  PROVE  CInv'
<1>. TypeOK
  BY DEF CInv
<1>1. /\ done # <<>> /\ Head(done).kind = "bounded" /\ done' = Tail(done)
      /\ status' = Head(done).st /\ doneSem' = doneSem + 1
      /\ UNCHANGED <<owner, call, answer, index, buffer, copies, wire, reg, naks, present, fresh>>
  BY DEF ControlCallback, deviceVars
<1>2. /\ done' \in Seq(Requests) /\ Len(done') = Len(done) - 1 /\ Len(done) \in Nat \ {0}
      /\ DOMAIN done' = 1 .. Len(done) - 1 /\ DOMAIN done = 1 .. Len(done)
      /\ Head(done) = done[1] /\ Head(done) \in Requests
      /\ \A i \in DOMAIN done' : done'[i] = done[i + 1] /\ i + 1 \in DOMAIN done
      /\ \A i \in Bounded(done') : i + 1 \in Bounded(done)
  BY <1>1, Tailed DEF TypeOK
<1>3. 1 \in Bounded(done)
  BY <1>1, <1>2 DEF Bounded
<1>4. TypeOK'
  <2>1. status' \in {"OK", "ERROR"}
    BY <1>1, <1>2 DEF Requests, CInv, LastInLine
  <2>. QED
    BY <1>1, <1>2, <2>1 DEF TypeOK
<1>5. Locked' /\ Ways'
  BY <1>1 DEF CInv, Locked, Ways, Inside
<1>6. LastInLine'
  BY <1>1, <1>2 DEF CInv, LastInLine
<1>7. RingInv'
  <2>1. \A i \in Bounded(done') : Stamped(done[i + 1]) /\ done'[i] = done[i + 1]
    BY <1>2 DEF CInv, RingInv, Bounded
  <2>. QED
    BY <1>1, <2>1 DEF CInv, RingInv, Stamped, Behind, Bounded
<1>8. CleanInv'
  <2>. SUFFICES ASSUME NEW t \in Callers, call[t].clean
                PROVE  /\ call[t].pc = "queue" => CleanQueue(t)'
                       /\ call[t].pc = "wait"  => CleanWait(t)'
                       /\ call[t].pc = "judge" => CleanJudge(t)'
    BY <1>1 DEF CleanInv
  <2>1. call[t].pc \notin {"queue", "judge"}
    BY <1>3 DEF CInv, CleanInv, CleanQueue, CleanJudge, NoneOut
  <2>2. CASE call[t].pc = "wait"
    <3>1. CleanWait(t)
      BY <2>2 DEF CInv, CleanInv
    <3>2. Bounded(done) = {1} /\ Bounded(wire) = {} /\ Agrees(done[1].st, call[t].fate)
      BY <1>3, <3>1 DEF CleanWait
    <3>3. Bounded(done') = {} /\ Bounded(wire') = {}
      BY <1>1, <1>2, <3>2 DEF Bounded
    <3>4. Agrees(status', call'[t].fate)
      BY <1>1, <1>2, <3>2
    <3>. QED
      BY <2>2, <3>3, <3>4 DEF CleanWait, Bounded
  <2>. QED
    BY <2>1, <2>2
<1>9. AnswersTrue'
  BY <1>1 DEF CInv, AnswersTrue
<1>10. MaskInv'
  <2>1. \A i \in DOMAIN done' : done'[i].kind = "sync" => done[i + 1].kind = "sync"
    BY <1>2
  <2>2. ASSUME NEW i \in DOMAIN done', done'[i].kind = "sync"
        PROVE  /\ Says(done[i])'
               /\ done'[i].half = "read" /\ done'[i].st = "OK" =>
                    done'[i].word = reg'[done'[i].addr]
    <3>1. /\ Says(done[i + 1])
          /\ done[i + 1].half = "read" /\ done[i + 1].st = "OK" =>
               done[i + 1].word = reg[done[i + 1].addr]
      BY <1>2, <2>1, <2>2 DEF CInv, MaskInv
    <3>. QED
      BY <1>1, <1>2, <3>1 DEF Says
  <2>. QED
    BY <1>1, <2>2 DEF CInv, MaskInv, Says, Bounded
<1>. QED
  BY <1>4, <1>5, <1>6, <1>7, <1>8, <1>9, <1>10 DEF CInv

\* What the endpoint does with its oldest request.
LEMMA Executed ==
  ASSUME CInv, Execute
  PROVE  \E r \in Requests, e \in Requests, st \in {"OK", "ERROR"} :
           /\ wire # <<>> /\ r = Head(wire) /\ wire' = Tail(wire) /\ done' = Append(done, e)
           /\ e.by = r.by /\ e.kind = r.kind /\ e.half = r.half /\ e.addr = r.addr
           /\ e.stamp = r.stamp /\ e.keep = r.keep /\ e.st = st
           /\ call' = Fate(r, st)
           /\ r.half = "read" => reg' = reg /\ (st = "OK" => e.word = reg[r.addr])
           /\ \/ reg' = reg /\ ~(r.half = "write" /\ st = "OK")
              \/ reg' = [reg EXCEPT ![r.addr] =
                           IF r.kind = "bounded" THEN buffer[r.slot] ELSE r.word]
           /\ naks' \in Nat
           /\ UNCHANGED <<owner, answer, doneSem, status, index, buffer, copies, present, fresh>>
<1>. TypeOK
  BY DEF CInv
<1>. DEFINE r == Head(wire)
            word == IF r.kind = "bounded" THEN buffer[r.slot] ELSE r.word
            ok == [r EXCEPT !.st = "OK", !.word = IF r.half = "read" THEN reg[r.addr] ELSE word]
            err == [r EXCEPT !.st = "ERROR"]
<1>1. wire # <<>> /\ wire' = Tail(wire) /\ r \in Requests
  BY Tailed DEF Execute, TypeOK
<1>2. UNCHANGED <<owner, answer, doneSem, status, index, buffer, copies, present, fresh>>
  BY DEF Execute, waitVars
<1>3. word \in Word /\ reg[r.addr] \in Word
  BY <1>1 DEF TypeOK, Requests
<1>4. /\ ok \in Requests /\ ok.by = r.by /\ ok.kind = r.kind /\ ok.half = r.half /\ ok.addr = r.addr
      /\ ok.stamp = r.stamp /\ ok.keep = r.keep /\ ok.st = "OK"
      /\ ok.word = IF r.half = "read" THEN reg[r.addr] ELSE word
  <2>. HIDE DEF r, word
  <2>1. PICK w \in Word : w = IF r.half = "read" THEN reg[r.addr] ELSE word
    BY <1>3
  <2>2. ok = [r EXCEPT !.st = "OK", !.word = w]
    BY <2>1
  <2>. QED
    BY <1>1, <2>1, <2>2 DEF Requests
<1>5. /\ err \in Requests /\ err.by = r.by /\ err.kind = r.kind /\ err.half = r.half
      /\ err.addr = r.addr /\ err.stamp = r.stamp /\ err.keep = r.keep /\ err.st = "ERROR"
  <2>. HIDE DEF r, word
  <2>. QED
    BY <1>1 DEF Requests
<1>6. \/ /\ done' = Append(done, ok)
         /\ reg' = IF r.half = "write" THEN [reg EXCEPT ![r.addr] = word] ELSE reg
         /\ call' = Fate(r, "OK") /\ UNCHANGED naks
      \/ /\ present => naks > 0
         /\ naks' = IF present THEN naks - 1 ELSE naks
         /\ done' = Append(done, err) /\ call' = Fate(r, "ERROR") /\ UNCHANGED reg
  BY DEF Execute
<1>7. naks' \in Nat
  BY <1>6 DEF TypeOK
<1>8. PICK q \in Requests : q = r
  BY <1>1
<1>9. CASE /\ done' = Append(done, ok)
           /\ reg' = IF r.half = "write" THEN [reg EXCEPT ![r.addr] = word] ELSE reg
           /\ call' = Fate(r, "OK") /\ UNCHANGED naks
  <2>1. PICK e \in Requests : e = ok
    BY <1>4
  <2>2. /\ r.half = "read" => reg' = reg /\ e.word = reg[r.addr]
        /\ \/ reg' = reg /\ r.half # "write"
           \/ reg' = [reg EXCEPT ![r.addr] = word]
    BY <1>4, <1>9, <2>1
  <2>. QED
    BY <1>1, <1>2, <1>4, <1>7, <1>8, <1>9, <2>1, <2>2
<1>10. CASE done' = Append(done, err) /\ call' = Fate(r, "ERROR") /\ UNCHANGED reg
  <2>1. PICK e \in Requests : e = err
    BY <1>5
  <2>. QED
    BY <1>1, <1>2, <1>5, <1>7, <1>8, <1>10, <2>1
<1>. QED
  BY <1>6, <1>9, <1>10

LEMMA ExecuteKeeps ==
  ASSUME CInv, Execute
  PROVE  CInv'
<1>. TypeOK
  BY DEF CInv
<1>1. PICK r \in Requests, e \in Requests, st \in {"OK", "ERROR"} :
        /\ wire # <<>> /\ r = Head(wire) /\ wire' = Tail(wire) /\ done' = Append(done, e)
        /\ e.by = r.by /\ e.kind = r.kind /\ e.half = r.half /\ e.addr = r.addr
        /\ e.stamp = r.stamp /\ e.keep = r.keep /\ e.st = st
        /\ call' = Fate(r, st)
        /\ r.half = "read" => reg' = reg /\ (st = "OK" => e.word = reg[r.addr])
        /\ \/ reg' = reg
           \/ reg' = [reg EXCEPT ![r.addr] = IF r.kind = "bounded" THEN buffer[r.slot] ELSE r.word]
        /\ naks' \in Nat
        /\ UNCHANGED <<owner, answer, doneSem, status, index, buffer, copies, present, fresh>>
  BY Executed
<1>2. /\ wire' \in Seq(Requests) /\ Len(wire') = Len(wire) - 1 /\ Len(wire) \in Nat \ {0}
      /\ DOMAIN wire' = 1 .. Len(wire) - 1 /\ DOMAIN wire = 1 .. Len(wire)
      /\ r = wire[1]
      /\ \A i \in DOMAIN wire' : wire'[i] = wire[i + 1] /\ i + 1 \in DOMAIN wire
      /\ \A i \in Bounded(wire') : i + 1 \in Bounded(wire)
      /\ Len(wire) = 1 => wire' = <<>>
  BY <1>1, Tailed DEF TypeOK
<1>3. /\ done' \in Seq(Requests) /\ Len(done') = Len(done) + 1 /\ Len(done) \in Nat
      /\ DOMAIN done' = 1 .. Len(done) + 1 /\ DOMAIN done = 1 .. Len(done)
      /\ done'[Len(done) + 1] = e /\ \A i \in DOMAIN done : done'[i] = done[i]
      /\ Bounded(done') = IF r.kind = "bounded" THEN Bounded(done) \cup {Len(done) + 1}
                          ELSE Bounded(done)
  BY <1>1, Appended DEF TypeOK
<1>4. /\ call' \in [Callers -> Calls]
      /\ \A u \in Callers :
           /\ call'[u].pc = call[u].pc /\ call'[u].kind = call[u].kind
           /\ call'[u].addr = call[u].addr /\ call'[u].half = call[u].half
           /\ call'[u].word = call[u].word /\ call'[u].try = call[u].try
           /\ call'[u].good = call[u].good /\ call'[u].clean = call[u].clean
           /\ call'[u].stamp = call[u].stamp
           /\ call'[u].fate = IF r.kind = "bounded" /\ Own(r, u) THEN st ELSE call[u].fate
  BY <1>1, FateTold
<1>5. 1 \in DOMAIN wire /\ r.by \in Callers /\ (r.kind = "sync" \/ r.kind = "bounded")
  BY <1>2 DEF Requests
<1>6. r.kind = "bounded" => 1 \in Bounded(wire) /\ Stamped(r)
  BY <1>2, <1>5 DEF Bounded, CInv, RingInv
<1>7. TypeOK'
  <2>1. reg' \in [Addrs -> Word]
    <3>1. (IF r.kind = "bounded" THEN buffer[r.slot] ELSE r.word) \in Word
      BY DEF TypeOK, Requests
    <3>. QED
      BY <1>1, <3>1 DEF TypeOK
  <2>. QED
    BY <1>1, <1>2, <1>3, <1>4, <2>1 DEF TypeOK
<1>8. Locked'
  BY <1>1, <1>4 DEF CInv, Locked, Inside
<1>9. Ways'
  <2>. SUFFICES ASSUME NEW u \in Callers, call[u].kind # "bounded"
                PROVE  call'[u].fate = "sync"
    BY <1>4 DEF Ways, CInv
  <2>1. call[u].fate = "sync" /\ call[u].stamp = 0
    BY DEF CInv, Ways
  <2>2. r.kind = "bounded" => ~Own(r, u)
    BY <1>6, <2>1 DEF Stamped, Own
  <2>. QED
    BY <1>4, <2>1, <2>2
<1>10. LastInLine'
  <2>1. \A i \in DOMAIN wire : wire[i].by \in Callers
    BY Element DEF TypeOK, Requests
  <2>2. \A i \in DOMAIN wire' : wire'[i].kind = "sync" => i = Len(wire') /\ call'[wire'[i].by].pc = "sync"
    BY <1>2, <1>4, <2>1 DEF CInv, LastInLine
  <2>3. \A i \in DOMAIN done : done[i].kind # "sync"
    BY <1>1 DEF CInv, LastInLine
  <2>4. r.kind = "sync" => wire' = <<>> /\ call'[r.by].pc = "sync"
    BY <1>2, <1>4, <1>5 DEF CInv, LastInLine
  <2>5. \A i \in DOMAIN done' : done'[i].kind = "sync" =>
          i = Len(done') /\ wire' = <<>> /\ call'[done'[i].by].pc = "sync"
    BY <1>1, <1>3, <2>3, <2>4
  <2>6. \A i \in DOMAIN done' : done'[i].st # "pending"
    BY <1>1, <1>3 DEF CInv, LastInLine
  <2>. QED
    BY <2>2, <2>5, <2>6 DEF LastInLine
<1>11. RingInv'
  <2>1. \A i \in Bounded(wire') : Stamped(wire[i + 1]) /\ Behind(wire[i + 1]) /\ wire'[i] = wire[i + 1]
    BY <1>2 DEF CInv, RingInv, Bounded
  <2>2. \A i \in Bounded(done') : done'[i].stamp \in 1 .. copies /\ ~done'[i].keep
    <3>1. r.kind = "bounded" => e.stamp \in 1 .. copies /\ ~e.keep
      BY <1>1, <1>6 DEF Stamped
    <3>2. \A i \in Bounded(done) : done[i].stamp \in 1 .. copies /\ ~done[i].keep /\ done'[i] = done[i]
      BY <1>3 DEF CInv, RingInv, Stamped, Bounded
    <3>. QED
      BY <1>3, <3>1, <3>2
  <2>. QED
    BY <1>1, <2>1, <2>2 DEF RingInv, Stamped, Behind, Bounded
<1>12. CleanInv'
  <2>. SUFFICES ASSUME NEW t \in Callers, call[t].clean, call[t].pc \in {"queue", "wait", "judge"}
                PROVE  /\ call[t].pc = "queue" => CleanQueue(t)'
                       /\ call[t].pc = "wait"  => CleanWait(t)'
                       /\ call[t].pc = "judge" => CleanJudge(t)'
    BY <1>4 DEF CleanInv
  <2>1. r.kind = "bounded"
    BY <1>2, <1>5, NoSyncOut DEF CInv, Inside
  <2>2. call[t].pc = "wait"
    BY <1>6, <2>1 DEF CInv, CleanInv, CleanQueue, CleanJudge, NoneOut
  <2>3. CleanWait(t)
    BY <2>2 DEF CInv, CleanInv
  <2>4. Own(r, t) /\ Bounded(wire) = {1} /\ Bounded(done) = {} /\ doneSem = 0
    BY <1>2, <1>6, <2>1, <2>3 DEF CleanWait
  <2>5. Bounded(wire') = {} /\ Bounded(done') = {Len(done) + 1}
    BY <1>2, <1>3, <2>1, <2>4 DEF Bounded
  <2>6. call'[t].fate = st /\ done'[Len(done) + 1].by = t
        /\ done'[Len(done) + 1].stamp = call'[t].stamp /\ done'[Len(done) + 1].st = st
    BY <1>1, <1>3, <1>4, <2>1, <2>4 DEF Own
  <2>7. CleanWait(t)'
    BY <1>1, <2>4, <2>5, <2>6 DEF CleanWait, Own, Bounded, Agrees
  <2>. QED
    BY <2>2, <2>7
<1>13. AnswersTrue'
  BY <1>1 DEF CInv, AnswersTrue
<1>14. MaskInv'
  <2>1. ASSUME NEW i \in DOMAIN wire', wire'[i].kind = "sync"
        PROVE  Says(wire[i])' /\ wire'[i].word = call'[wire'[i].by].word
    <3>1. wire[i + 1].by \in Callers
      BY <1>2, Element DEF TypeOK, Requests
    <3>2. Says(wire[i + 1]) /\ wire[i + 1].word = call[wire[i + 1].by].word
      BY <1>2, <2>1 DEF CInv, MaskInv
    <3>. QED
      BY <1>2, <1>4, <3>1, <3>2 DEF Says
  <2>2. ASSUME NEW i \in DOMAIN done', done'[i].kind = "sync"
        PROVE  /\ Says(done[i])'
               /\ done'[i].half = "read" /\ done'[i].st = "OK" =>
                    done'[i].word = reg'[done'[i].addr]
    <3>1. done'[i] = e /\ r.kind = "sync"
      BY <1>1, <1>3, <2>2 DEF CInv, LastInLine
    <3>2. Says(r)
      BY <1>2, <1>5, <3>1 DEF CInv, MaskInv
    <3>. QED
      BY <1>1, <1>4, <1>5, <3>1, <3>2 DEF Says
  <2>3. ASSUME NEW u \in Callers, call[u].pc \in {"request", "sync"}, call[u].kind = "masked",
               call[u].half = "write", call[u].good
        PROVE  call[u].word[2] = reg'[call[u].addr][2] /\ Bounded(wire') = {}
    <3>1. call[u].word[2] = reg[call[u].addr][2] /\ Bounded(wire) = {}
      BY <2>3 DEF CInv, MaskInv
    <3>2. Bounded(wire') = {}
      BY <1>2, <3>1
    <3>3. r.kind = "sync" /\ call[r.by].pc = "sync"
      BY <1>2, <1>5, <1>6, <3>1 DEF CInv, LastInLine
    <3>4. r.by = u
      BY <1>5, <2>3, <3>3, Alone DEF CInv, Inside
    <3>5. r.addr = call[u].addr /\ r.word = call[u].word
      BY <1>2, <1>5, <3>3, <3>4 DEF CInv, MaskInv, Says
    <3>6. reg' = reg \/ reg' = [reg EXCEPT ![r.addr] = r.word]
      BY <1>1, <3>3
    <3>7. call[u].word[2] = reg'[call[u].addr][2]
      BY <3>1, <3>5, <3>6 DEF TypeOK, Requests
    <3>. QED
      BY <3>2, <3>7
  <2>. QED
    BY <1>4, <2>1, <2>2, <2>3 DEF MaskInv, Bounded
<1>. QED
  BY <1>7, <1>8, <1>9, <1>10, <1>11, <1>12, <1>13, <1>14 DEF CInv

LEMMA SyncCompletesKeeps ==
  ASSUME CInv, SyncCompletes
  PROVE  CInv'
<1>. TypeOK
  BY DEF CInv
<1>1. /\ done # <<>> /\ Head(done).kind = "sync" /\ done' = Tail(done)
      /\ UNCHANGED <<doneSem, status, index, buffer, copies, wire, reg, naks, present, fresh>>
  BY DEF SyncCompletes, waitVars, deviceVars
<1>2. PICK r \in Requests : r = Head(done)
  BY <1>1, Tailed DEF TypeOK
<1>3. PICK t \in Callers : t = r.by
  BY DEF Requests
<1>4. /\ Len(done) = 1 /\ wire = <<>> /\ call[t].pc = "sync" /\ done' = <<>>
  <2>1. 1 \in DOMAIN done /\ done[1] = r
    BY <1>1, <1>2, Tailed DEF TypeOK
  <2>2. Len(done) = 1 /\ wire = <<>> /\ call[t].pc = "sync"
    BY <1>1, <1>2, <1>3, <2>1 DEF CInv, LastInLine
  <2>. QED
    BY <1>1, <2>2, Tailed DEF TypeOK
<1>5. Inside(t) /\ owner = t /\ call[t].kind # "bounded"
  BY <1>4 DEF Inside, Locked, Ways, CInv
<1>6. /\ Says(r)
      /\ r.half = "read" /\ r.st = "OK" => r.word = reg[r.addr]
  <2>1. 1 \in DOMAIN done /\ done[1] = r
    BY <1>1, <1>2, Tailed DEF TypeOK
  <2>. QED
    BY <1>1, <1>2, <2>1 DEF CInv, MaskInv
<1>7. LastInLine' /\ RingInv' /\ Bounded(wire') = {} /\ DOMAIN wire' = {} /\ DOMAIN done' = {}
  <2>1. wire' = <<>> /\ done' = <<>>
    BY <1>1, <1>4
  <2>2. Bounded(wire)' = {} /\ Bounded(done)' = {} /\ DOMAIN wire' = {} /\ DOMAIN done' = {}
    BY <2>1 DEF Bounded
  <2>. QED
    BY <2>2 DEF LastInLine, RingInv
\* Whatever the call does next but ask again at once, the rest follows.
<1>8. ASSUME OnlyCall(t), OnlyAnswer(t) \/ UNCHANGED answer, owner' \in {owner, NoCaller},
             call'[t].pc # "sync",
             call'[t].pc = "request" /\ call'[t].kind = "masked" /\ call'[t].half = "write"
               /\ call'[t].good => call'[t].word[2] = reg[call'[t].addr][2]
      PROVE  TypeOK' /\ MaskInv'
  <2>1. TypeOK'
    BY <1>1, <1>4, <1>8 DEF TypeOK, OnlyCall, OnlyAnswer
  <2>2. \A u \in Callers \ {t} : call'[u].pc \notin {"request", "sync"}
    <3>1. \A u \in Callers \ {t} : ~Inside(u)
      BY <1>5, Alone DEF CInv
    <3>. QED
      BY <1>8, <3>1 DEF OnlyCall, Inside
  <2>. QED
    BY <1>1, <1>7, <1>8, <2>1, <2>2 DEF MaskInv
<1>9. CASE \E st \in {"OK", "ERROR"}, w \in Word : Return(t, st, w)
  <2>1. PICK st \in {"OK", "ERROR"}, w \in Word : Return(t, st, w)
    BY <1>9
  <2>2. call[t].fate = "sync"
    BY <1>5 DEF CInv, Ways
  <2>3. /\ OnlyCall(t) /\ OnlyAnswer(t) /\ owner' = NoCaller /\ call'[t] = NoCall
        /\ Locked' /\ Ways' /\ CleanInv' /\ AnswersTrue'
    BY <1>5, <2>1, <2>2, ReturnKeeps
  <2>4. TypeOK' /\ MaskInv'
    BY <1>8, <2>3, NoCallType
  <2>. QED
    BY <1>7, <2>3, <2>4 DEF CInv
<1>10. CASE /\ call[t].half = "read" /\ call[t].kind = "masked"
            /\ \E w \in Word, good \in BOOLEAN :
                 WriteHalf(t, w, good) /\ (good => w = r.word /\ r.st = "OK")
  <2>1. PICK w \in Word, good \in BOOLEAN :
          WriteHalf(t, w, good) /\ (good => w = r.word /\ r.st = "OK")
    BY <1>10
  <2>2. PICK c \in Calls :
          /\ c.pc = "request" /\ c.half = "write" /\ c.good = good /\ c.word[2] = w[2]
          /\ c.kind = call[t].kind /\ c.addr = call[t].addr /\ c.clean = call[t].clean
          /\ c.stamp = call[t].stamp /\ c.fate = call[t].fate
          /\ call' = [call EXCEPT ![t] = c]
    <3>1. PICK d \in Calls, v \in Word : d = call[t] /\ v = <<call[t].word[1], w[2]>>
      <4>1. call[t] \in Calls /\ call[t].word \in Word
        BY Types
      <4>2. <<call[t].word[1], w[2]>> \in Word
        BY <4>1 DEF Word
      <4>. QED
        BY <4>1, <4>2
    <3>2. DEFINE c == [d EXCEPT !.pc = "request", !.half = "write", !.try = 1, !.word = v, !.good = good]
    <3>3. /\ c \in Calls /\ c.pc = "request" /\ c.half = "write" /\ c.good = good /\ c.word = v
          /\ c.kind = d.kind /\ c.addr = d.addr /\ c.clean = d.clean
          /\ c.stamp = d.stamp /\ c.fate = d.fate
      BY DEF Calls
    <3>4. call' = [call EXCEPT ![t] = c]
      BY <2>1, <3>1 DEF WriteHalf, TypeOK
    <3>5. v[2] = w[2]
      BY <3>1
    <3>. HIDE DEF c
    <3>. QED
      BY <3>1, <3>3, <3>4, <3>5
  <2>3. OnlyCall(t) /\ call'[t] = c /\ UNCHANGED <<owner, answer>>
    <3>1. UNCHANGED <<owner, answer>>
      BY <2>1 DEF WriteHalf
    <3>2. call' = [call EXCEPT ![t] = c]
      BY <2>2
    <3>. QED
      BY <3>1, <3>2, CallChanges DEF OnlyCall
  <2>4. c.good => c.word[2] = reg[c.addr][2]
    <3>1. r.half = "read" /\ r.addr = call[t].addr
      BY <1>3, <1>6, <1>10 DEF Says
    <3>. QED
      BY <1>6, <2>1, <2>2, <3>1
  <2>5. TypeOK' /\ MaskInv'
    BY <1>8, <2>2, <2>3, <2>4
  <2>6. Locked'
    BY <1>5, <2>3, LockedKept DEF CInv
  <2>7. Ways'
    <3>1. call[t].fate = "sync" /\ call[t].stamp = 0
      BY <1>5 DEF CInv, Ways
    <3>. QED
      BY <1>5, <2>2, <2>3, <3>1, WaysKept DEF CInv
  <2>8. CleanInv'
    BY <1>5, <2>2, <2>3, CleanAlone DEF CInv
  <2>9. AnswersTrue'
    BY <2>3 DEF CInv, AnswersTrue
  <2>. QED
    BY <1>7, <2>5, <2>6, <2>7, <2>8, <2>9 DEF CInv
<1>11. CASE /\ call' = [call EXCEPT ![t].pc = "request", ![t].try = @ + 1]
            /\ UNCHANGED <<owner, answer>>
  <2>1. /\ OnlyCall(t) /\ call'[t].pc = "request"
        /\ call'[t].kind = call[t].kind /\ call'[t].half = call[t].half
        /\ call'[t].addr = call[t].addr /\ call'[t].word = call[t].word
        /\ call'[t].good = call[t].good /\ call'[t].clean = call[t].clean
        /\ call'[t].stamp = call[t].stamp /\ call'[t].fate = call[t].fate
    BY <1>11, Retried
  <2>2. call[t].kind = "masked" /\ call[t].half = "write" /\ call[t].good =>
          call[t].word[2] = reg[call[t].addr][2]
    BY <1>4 DEF CInv, MaskInv
  <2>3. TypeOK' /\ MaskInv'
    BY <1>8, <1>11, <2>1, <2>2
  <2>4. Locked'
    BY <1>5, <1>11, <2>1, LockedKept DEF CInv
  <2>5. Ways'
    <3>1. /\ call[t].fate = "sync" /\ call[t].stamp = 0
          /\ call[t].half = "read" /\ call[t].kind = "masked" => call[t].good
      BY <1>5 DEF CInv, Ways
    <3>. QED
      BY <1>5, <2>1, <3>1, WaysKept DEF CInv
  <2>6. CleanInv'
    BY <1>5, <2>1, CleanAlone DEF CInv
  <2>7. AnswersTrue'
    BY <1>11 DEF CInv, AnswersTrue
  <2>. QED
    BY <1>7, <2>3, <2>4, <2>5, <2>6, <2>7 DEF CInv
<1>12. ASSUME NEW st \in {"OK", "ERROR"}, NEW w \in Word, RequestOver(t, st, w),
              st = "OK" => w = r.word /\ r.st = "OK"
       PROVE  CInv'
  <2>1. CASE call[t].half = "read" /\ call[t].kind = "masked"
    BY <1>10, <1>12, <2>1 DEF RequestOver
  <2>2. CASE ~(call[t].half = "read" /\ call[t].kind = "masked")
    BY <1>9, <1>12, <2>2 DEF RequestOver
  <2>. QED
    BY <2>1, <2>2
<1>13. CASE r.st = "OK" /\ RequestOver(t, "OK", r.word)
  BY <1>12, <1>13 DEF Requests
<1>14. CASE RequestOver(t, "ERROR", AllOnes)
  BY <1>12, <1>14, Types
<1>. QED
  BY <1>2, <1>3, <1>11, <1>13, <1>14 DEF SyncCompletes

LEMMA UnplugKeeps ==
  ASSUME CInv, Unplug
  PROVE  CInv'
<1>. TypeOK
  BY DEF CInv
<1>1. /\ wire' = <<>> /\ done' = done \o [i \in DOMAIN wire |-> Failed(wire[i])]
      /\ present' \in BOOLEAN
      /\ UNCHANGED <<owner, call, answer, doneSem, status, index, buffer, copies, reg, naks, fresh>>
  BY DEF Unplug, waitVars, deviceVars
<1>2. /\ done' \in Seq(Requests) /\ Len(done') = Len(done) + Len(wire)
      /\ Len(done) \in Nat /\ Len(wire) \in Nat
      /\ DOMAIN done' = 1 .. Len(done) + Len(wire)
      /\ \A i \in DOMAIN done : done'[i] = done[i]
      /\ \A i \in DOMAIN wire : done'[Len(done) + i] = Failed(wire[i])
      /\ \A i \in DOMAIN done' : i \in DOMAIN done \/ i - Len(done) \in DOMAIN wire
  BY <1>1, Joined DEF TypeOK
<1>3. /\ DOMAIN wire = 1 .. Len(wire) /\ DOMAIN done = 1 .. Len(done)
      /\ DOMAIN wire' = {} /\ Bounded(wire') = {}
  <2>1. wire \in Seq(Requests) /\ done \in Seq(Requests)
    BY DEF TypeOK
  <2>. QED
    BY <1>1, <2>1 DEF Bounded
<1>4. \A q \in Requests : /\ Failed(q).by = q.by /\ Failed(q).kind = q.kind /\ Failed(q).half = q.half
                          /\ Failed(q).addr = q.addr /\ Failed(q).stamp = q.stamp
                          /\ Failed(q).keep = q.keep /\ Failed(q).st = "ERROR"
  BY DEF Failed, Requests
\* A request that is done now was done, or on the wire.
<1>5. ASSUME NEW i \in DOMAIN done'
      PROVE  \/ i \in DOMAIN done /\ done'[i] = done[i]
             \/ \E j \in DOMAIN wire :
                  /\ i = Len(done) + j /\ wire[j] \in Requests
                  /\ done'[i].by = wire[j].by /\ done'[i].kind = wire[j].kind
                  /\ done'[i].half = wire[j].half /\ done'[i].addr = wire[j].addr
                  /\ done'[i].stamp = wire[j].stamp /\ done'[i].keep = wire[j].keep
                  /\ done'[i].st = "ERROR"
  <2>1. CASE i \in DOMAIN done
    BY <1>2, <2>1
  <2>2. CASE i - Len(done) \in DOMAIN wire
    <3>1. PICK j \in DOMAIN wire : i = Len(done) + j
      BY <1>2, <1>3, <2>2
    <3>2. wire[j] \in Requests /\ done'[i] = Failed(wire[j])
      BY <1>2, <3>1, Element DEF TypeOK
    <3>. QED
      BY <1>4, <3>1, <3>2
  <2>. QED
    BY <1>2, <2>1, <2>2
<1>6. TypeOK'
  <2>1. wire' \in Seq(Requests)
    BY <1>1
  <2>. QED
    BY <1>1, <1>2, <2>1 DEF TypeOK
<1>7. Locked' /\ Ways' /\ AnswersTrue'
  BY <1>1 DEF CInv, Locked, Ways, AnswersTrue, Inside
<1>8. LastInLine'
  <2>. SUFFICES ASSUME NEW i \in DOMAIN done'
                PROVE  /\ done'[i].kind = "sync" =>
                            i = Len(done') /\ wire' = <<>> /\ call'[done'[i].by].pc = "sync"
                       /\ done'[i].st # "pending"
    BY <1>3 DEF LastInLine
  <2>1. CASE i \in DOMAIN done /\ done'[i] = done[i]
    <3>1. done[i].st # "pending"
      BY <2>1 DEF CInv, LastInLine
    <3>2. done[i].kind = "sync" => i = Len(done) /\ wire = <<>> /\ call[done[i].by].pc = "sync"
      BY <2>1 DEF CInv, LastInLine
    <3>. QED
      BY <1>1, <1>2, <2>1, <3>1, <3>2
  <2>2. CASE \E j \in DOMAIN wire :
               /\ i = Len(done) + j /\ done'[i].by = wire[j].by /\ done'[i].kind = wire[j].kind
               /\ done'[i].st = "ERROR"
    BY <1>1, <1>2, <2>2 DEF CInv, LastInLine
  <2>. QED
    BY <1>5, <2>1, <2>2
<1>9. RingInv'
  <2>. SUFFICES ASSUME NEW i \in Bounded(done')
                PROVE  done'[i].stamp \in 1 .. copies /\ ~done'[i].keep
    BY <1>1, <1>3 DEF RingInv, Stamped, Bounded
  <2>1. i \in DOMAIN done' /\ done'[i].kind = "bounded"
    BY DEF Bounded
  <2>. QED
    BY <1>5, <2>1 DEF CInv, RingInv, Stamped, Bounded
<1>10. CleanInv'
  <2>1. Bounded(done) = {} /\ Bounded(wire) = {} => Bounded(done') = {}
    BY <1>5 DEF Bounded
  <2>. SUFFICES ASSUME NEW t \in Callers, call[t].clean
                PROVE  /\ call[t].pc = "queue" => CleanQueue(t)'
                       /\ call[t].pc = "wait"  => CleanWait(t)'
                       /\ call[t].pc = "judge" => CleanJudge(t)'
    BY <1>1 DEF CleanInv
  <2>2. CASE call[t].pc \in {"queue", "judge"}
    <3>1. NoneOut
      BY <2>2 DEF CInv, CleanInv, CleanQueue, CleanJudge
    <3>2. NoneOut'
      BY <1>3, <2>1, <3>1 DEF NoneOut, Bounded
    <3>. QED
      BY <1>1, <2>2, <3>2 DEF CInv, CleanInv, CleanQueue, CleanJudge, Agrees
  <2>3. CASE call[t].pc = "wait"
    <3>1. CleanWait(t)
      BY <2>3 DEF CInv, CleanInv
    <3>2. ASSUME NEW i \in Bounded(done')
          PROVE  /\ Own(done[i], t)' /\ Bounded(done') = {i}
                 /\ doneSem = 0 /\ Agrees(done'[i].st, call[t].fate)
      <4>1. i \in DOMAIN done' /\ done'[i].kind = "bounded"
        BY DEF Bounded
      <4>2. CASE i \in DOMAIN done /\ done'[i] = done[i]
        <5>1. i \in Bounded(done)
          BY <4>1, <4>2 DEF Bounded
        <5>2. /\ Own(done[i], t) /\ Bounded(done) = {i} /\ Bounded(wire) = {}
              /\ doneSem = 0 /\ Agrees(done[i].st, call[t].fate)
          BY <3>1, <5>1 DEF CleanWait
        <5>3. \A k \in Bounded(done') : k \in Bounded(done)
          BY <1>5, <5>2 DEF Bounded
        <5>4. Bounded(done') = {i}
          BY <5>2, <5>3
        <5>. QED
          BY <1>1, <4>2, <5>2, <5>4 DEF Own
      <4>3. CASE \E j \in DOMAIN wire :
                   /\ i = Len(done) + j /\ done'[i].by = wire[j].by
                   /\ done'[i].kind = wire[j].kind
                   /\ done'[i].stamp = wire[j].stamp /\ done'[i].st = "ERROR"
        <5>1. PICK j \in DOMAIN wire :
                   /\ i = Len(done) + j /\ done'[i].by = wire[j].by
                   /\ done'[i].kind = wire[j].kind
                   /\ done'[i].stamp = wire[j].stamp /\ done'[i].st = "ERROR"
          BY <4>3
        <5>2. j \in Bounded(wire)
          BY <4>1, <5>1 DEF Bounded
        <5>3. /\ Own(wire[j], t) /\ Bounded(wire) = {j} /\ Bounded(done) = {}
              /\ doneSem = 0 /\ call[t].fate = "none"
          BY <3>1, <5>2 DEF CleanWait
        <5>4. \A k \in Bounded(done') : k = Len(done) + j
          <6>. SUFFICES ASSUME NEW k \in DOMAIN done', done'[k].kind = "bounded"
                        PROVE  k = Len(done) + j
            BY DEF Bounded
          <6>. QED
            BY <1>5, <5>3 DEF Bounded
        <5>5. Bounded(done') = {i}
          BY <5>1, <5>4
        <5>. QED
          BY <1>1, <5>1, <5>3, <5>5 DEF Own, Agrees
      <4>. QED
        BY <1>5, <4>1, <4>2, <4>3
    <3>3. doneSem > 0 => Agrees(status, call[t].fate)
      BY <3>1 DEF CleanWait
    <3>4. CleanWait(t)'
      BY <1>1, <1>3, <3>2, <3>3 DEF CleanWait, Bounded
    <3>. QED
      BY <2>3, <3>4
  <2>. QED
    BY <2>2, <2>3
<1>11. MaskInv'
  <2>1. ASSUME NEW i \in DOMAIN done', done'[i].kind = "sync"
        PROVE  /\ Says(done[i])'
               /\ done'[i].half = "read" /\ done'[i].st = "OK" =>
                    done'[i].word = reg[done'[i].addr]
    <3>1. CASE i \in DOMAIN done /\ done'[i] = done[i]
      BY <1>1, <2>1, <3>1 DEF CInv, MaskInv, Says
    <3>2. CASE \E j \in DOMAIN wire :
                 /\ done'[i].by = wire[j].by /\ done'[i].kind = wire[j].kind
                 /\ done'[i].half = wire[j].half /\ done'[i].addr = wire[j].addr
                 /\ done'[i].keep = wire[j].keep /\ done'[i].st = "ERROR"
      <4>1. PICK j \in DOMAIN wire :
                 /\ done'[i].by = wire[j].by /\ done'[i].kind = wire[j].kind
                 /\ done'[i].half = wire[j].half /\ done'[i].addr = wire[j].addr
                 /\ done'[i].keep = wire[j].keep /\ done'[i].st = "ERROR"
        BY <3>2
      <4>2. Says(wire[j])
        BY <2>1, <4>1 DEF CInv, MaskInv
      <4>. QED
        BY <1>1, <4>1, <4>2 DEF Says
    <3>. QED
      BY <1>5, <3>1, <3>2
  <2>. QED
    BY <1>1, <1>3, <2>1 DEF CInv, MaskInv, Bounded
<1>. QED
  BY <1>6, <1>7, <1>8, <1>9, <1>10, <1>11 DEF CInv

------------------------------------------------------------------------------
(* What follows.                                                           *)

LEMMA Inductive == CInv /\ [ControlNext]_controlVars => CInv'
<1>. SUFFICES ASSUME CInv, [ControlNext]_controlVars PROVE CInv'
  OBVIOUS
<1>0. ASSUME NEW t \in Callers, AnyCall(t) PROVE CInv'
  <2>1. PICK kind \in Kinds, addr \in Addrs : CallFresh(t, kind, addr)
    BY <1>0 DEF AnyCall
  <2>2. PICK v \in 0 .. MaxValue : v = fresh'
    BY <2>1, ControlAssumption DEF CallFresh, CInv, TypeOK
  <2>3. Call(t, kind, addr, v)
    BY <2>1, <2>2 DEF CallFresh
  <2>. QED
    BY <2>2, <2>3, CallKeeps
<1>1. ASSUME NEW t \in Callers, CallStep(t) PROVE CInv'
  BY <1>1, TakeLockKeeps, DrainKeeps, QueueKeeps, AcquireKeeps, GiveUpKeeps, JudgeKeeps,
     RequestKeeps, RequestWithoutDeviceKeeps DEF CallStep
<1>2. CASE Execute \/ Deliver \/ Unplug
  BY <1>2, ExecuteKeeps, CallbackKeeps, SyncCompletesKeeps, UnplugKeeps DEF Deliver
<1>3. CASE UNCHANGED controlVars
  BY <1>3 DEF controlVars, CInv, TypeOK, Locked, Ways, LastInLine, RingInv, CleanInv, AnswersTrue,
     MaskInv, Inside, Stamped, Behind, CleanQueue, CleanWait, CleanJudge, NoneOut, Own, Agrees, Says,
     Bounded
<1>. QED
  BY <1>0, <1>1, <1>2, <1>3 DEF ControlNext

\* Calls, requests and registers keep their types, and the index stays inside
\* the ring of control buffers.
THEOREM ControlTypes == ControlSpec => []TypeOK
<1>1. CInv => TypeOK
  BY DEF CInv
<1>. QED
  BY InitInv, Inductive, <1>1, PTL DEF ControlSpec

\* A queued bounded write keeps its data while fewer buffers than the ring of
\* _VendorWriteBounded has were filled after its own, whatever the ring's size.
THEOREM RingHoldsAlways == ControlSpec => []RingHolds
<1>1. CInv => RingHolds
  BY DEF CInv, RingInv, RingHolds, Behind
<1>. QED
  BY InitInv, Inductive, <1>1, PTL DEF ControlSpec

\* A bounded write that began with no abandoned request outstanding answers
\* with its own request's fate, although one semaphore and one status serve all.
THEOREM AnswersAlwaysTrue == ControlSpec => []AnswersTrue
<1>1. CInv => AnswersTrue
  BY DEF CInv
<1>. QED
  BY InitInv, Inductive, <1>1, PTL DEF ControlSpec

\* The write half of a masked write whose read succeeded leaves the other field
\* of the register as it is.
THEOREM MaskedWritesSpareOthers == ControlSpec => MaskedSparesOthers
<1>. DEFINE Spares == \A r \in {wire[i] : i \in DOMAIN wire} :
                        wire' = Tail(wire) /\ r = Head(wire) /\ r.half = "write" /\ r.keep
                          => reg'[r.addr][2] = reg[r.addr][2]
<1>1. CInv /\ [ControlNext]_controlVars => [Spares]_controlVars
  <2>. SUFFICES ASSUME CInv, ControlNext, NEW i \in DOMAIN wire, wire[i] = Head(wire),
                       wire[i].half = "write", wire[i].keep
                PROVE  reg'[wire[i].addr][2] = reg[wire[i].addr][2]
    OBVIOUS
  <2>1. CASE reg' = reg
    BY <2>1
  <2>2. CASE Execute
    <3>1. PICK r \in Requests :
            /\ wire # <<>> /\ r = Head(wire)
            /\ \/ reg' = reg
               \/ reg' = [reg EXCEPT ![r.addr] =
                            IF r.kind = "bounded" THEN buffer[r.slot] ELSE r.word]
      BY <2>2, Executed
    <3>2. 1 \in DOMAIN wire /\ wire[1] = r /\ r.by \in Callers
      BY <3>1, Tailed DEF CInv, TypeOK, Requests
    <3>3. r.kind = "sync"
      BY <3>1, <3>2 DEF CInv, RingInv, Stamped, Bounded, Requests
    <3>4. /\ call[r.by].pc = "sync" /\ call[r.by].kind = "masked" /\ call[r.by].good
          /\ call[r.by].half = "write" /\ r.addr = call[r.by].addr /\ r.word = call[r.by].word
      <4>1. r.half = "write" /\ r.keep
        BY <3>1
      <4>2. call[r.by].pc = "sync"
        BY <3>2, <3>3 DEF CInv, LastInLine
      <4>3. Says(r) /\ r.word = call[r.by].word
        BY <3>2, <3>3 DEF CInv, MaskInv
      <4>. QED
        BY <4>1, <4>2, <4>3 DEF Says
    <3>5. call[r.by].word[2] = reg[call[r.by].addr][2]
      BY <3>2, <3>4 DEF CInv, MaskInv
    <3>6. reg' = reg \/ reg' = [reg EXCEPT ![r.addr] = r.word]
      BY <3>1, <3>3
    <3>. QED
      BY <3>1, <3>4, <3>5, <3>6 DEF CInv, TypeOK, Requests
  <2>3. ASSUME NEW t \in Callers, AnyCall(t) \/ CallStep(t) PROVE reg' = reg
    BY <2>3 DEF AnyCall, CallFresh, Call, CallStep, TakeLock, Drain, Queue, Acquire, GiveUp, Judge,
       Request, RequestWithoutDevice, deviceVars
  <2>4. CASE Deliver \/ Unplug
    BY <2>4 DEF Deliver, ControlCallback, SyncCompletes, Unplug, deviceVars
  <2>. QED
    BY <2>1, <2>2, <2>3, <2>4 DEF ControlNext
<1>. QED
  BY InitInv, Inductive, <1>1, PTL DEF ControlSpec, MaskedSparesOthers

------------------------------------------------------------------------------
(* The commands to the firmware (PostAssoc).  The two writes of a command   *)
(* are made one after the other by one thread at a time; what the second    *)
(* finds in the registers is what the first left, unless a wait of the      *)
(* first may have been answered by the completion of an older request.      *)

\* A thread in the middle of a command owns the manager's lock and is where a
\* command is sent from.
Turn ==
  \A t \in Callers :
    /\ cmd[t].pc \in {"ext", "extWait", "stdWait"} => mgrLock = t /\ cmd[t].id # 0
    /\ cmd[t].pc # "none" => \/ t = Worker /\ work \in {"mediaStatus", "report"}
                             \/ t = Joiner /\ join = "sending"

InWrite(t)  == cmd[t].pc \in {"extWait", "stdWait"}
WritesTo(t) == IF cmd[t].pc = "extWait" THEN Ext(box) ELSE Std(box)
Payload(t)  == <<cmd[t].id, cmd[t].id>>

\* The bounded writes are those of commands; everything else is about the BSSID.
Writing ==
  \A t \in Callers : call[t].pc # "idle" =>
    /\ call[t].kind = "bounded" <=> InWrite(t)
    /\ call[t].kind = "bounded" => call[t].addr = WritesTo(t) /\ call[t].word = Payload(t)
    /\ call[t].kind # "bounded" => call[t].addr = Bssid
    /\ call[t].pc = "wait" => call[t].stamp = copies

\* The request a write waits for says what the call says.
OwnSays ==
  \A i \in Bounded(wire) :
    /\ wire[i].half = "write"
    /\ call[wire[i].by].pc = "wait" /\ call[wire[i].by].stamp = wire[i].stamp =>
         wire[i].addr = call[wire[i].by].addr /\ wire[i].word = call[wire[i].by].word

\* The extended register of a box has the word, and nothing under way to the
\* device would change it.
Loaded(b, word) == reg[Ext(b)] = word /\ \A i \in DOMAIN wire : wire[i].addr # Ext(b)

\* The thread knows that its first write took effect.
Sure(t) ==
  \/ cmd[t].pc = "stdWait" /\ cmd[t].id \notin unsure
  \/ cmd[t].pc = "extWait" /\ call[t].pc = "idle" /\ answer[t].st = "OK" /\ answer[t].clean
  \/ cmd[t].pc = "extWait" /\ call[t].pc \in {"wait", "judge"} /\ call[t].clean
       /\ call[t].fate = "OK"

SureLoaded == \A t \in Callers : Sure(t) => Loaded(box, Payload(t))

\* A second write under way, however long abandoned, finds its payload: nothing
\* before it in line would change it.
Backed(i, b) ==
  /\ reg[Ext(b)] = wire[i].word
  /\ \A j \in DOMAIN wire : j < i => wire[j].addr # Ext(b)

InLine ==
  \A i \in Bounded(wire), b \in 0 .. Boxes - 1 :
    wire[i].addr = Std(b) /\ wire[i].word[1] \notin unsure => Backed(i, b)

PostInv == PostTypeOK /\ Turn /\ Writing /\ OwnSays /\ SureLoaded /\ InLine

PInv == CInv /\ PostInv

\* The registers are different.
LEMMA Apart ==
  /\ Bssid \in Addrs /\ \A b \in 0 .. Boxes - 1 : Ext(b) \in Addrs /\ Std(b) \in Addrs
  /\ \A b, c \in 0 .. Boxes - 1 : Ext(b) # Std(c) /\ (Std(b) = Std(c) => b = c)
  /\ \A b \in 0 .. Boxes - 1 : Ext(b) # Bssid /\ Std(b) # Bssid
BY PostAssocAssumption DEF Registers, Bssid, Ext, Std

LEMMA Places ==
  ASSUME PInv
  PROVE  /\ box \in 0 .. Boxes - 1 /\ Ext(box) \in Addrs /\ Std(box) \in Addrs
         /\ Ext(box) # Bssid /\ Std(box) # Bssid /\ Ext(box) # Std(box)
         /\ \A t \in Callers : WritesTo(t) \in {Ext(box), Std(box)} /\ WritesTo(t) # Bssid
BY Apart DEF PInv, PostInv, PostTypeOK, WritesTo

\* A synchronous request on the wire is about the BSSID.
LEMMA SyncIsBssid ==
  ASSUME PInv, NEW i \in DOMAIN wire, i \notin Bounded(wire)
  PROVE  wire[i].addr = Bssid
<1>1. wire[i] \in Requests /\ wire[i].by \in Callers /\ wire[i].kind = "sync"
  <2>1. wire[i] \in Requests
    BY Element DEF PInv, CInv, TypeOK
  <2>. QED
    BY <2>1 DEF Requests, Bounded
<1>2. call[wire[i].by].pc = "sync" /\ wire[i].addr = call[wire[i].by].addr
  BY <1>1 DEF PInv, CInv, LastInLine, MaskInv, Says
<1>. QED
  BY <1>1, <1>2 DEF PInv, PostInv, Writing, CInv, Ways

\* One thread writes at a time.
LEMMA OneWriter ==
  ASSUME PInv, NEW t \in Callers, NEW u \in Callers,
         cmd[t].pc \in {"ext", "extWait", "stdWait"}, cmd[u].pc \in {"ext", "extWait", "stdWait"}
  PROVE  u = t
BY DEF PInv, PostInv, Turn

------------------------------------------------------------------------------
(* What a step of a call does to the commands.                             *)

\* A call goes on or ends, and the device is sent nothing.
LEMMA MovesKeep ==
  ASSUME PInv, UNCHANGED postVars, NEW t \in Callers, OnlyCall(t), OnlyAnswer(t),
         UNCHANGED <<wire, reg>>, call[t].pc # "idle", call'[t].pc # "wait",
         copies' = copies \/ Inside(t),
         call'[t].pc # "idle" =>
           /\ call'[t].kind = call[t].kind /\ call'[t].addr = call[t].addr
           /\ call[t].kind = "bounded" => call'[t].word = call[t].word,
         Sure(t)' => Sure(t)
  PROVE  PostInv'
<1>0. UNCHANGED <<mgrLock, mgrState, box, cmd, unsure, work, woken, snapshot,
              setUp, post, stop, target, joinState, join, joining, joinTry, usb>>
  BY DEF postVars
<1>1. PostTypeOK' /\ Turn'
  BY <1>0 DEF PInv, PostInv, PostTypeOK, Turn
<1>2. ASSUME NEW u \in Callers, u # t
      PROVE  call'[u] = call[u] /\ answer'[u] = answer[u] /\ (call[u].pc = "wait" => copies' = copies)
  <2>1. call'[u] = call[u] /\ answer'[u] = answer[u]
    BY <1>2 DEF OnlyCall, OnlyAnswer
  <2>2. call[u].pc = "wait" => Inside(u)
    BY DEF Inside
  <2>. QED
    BY <1>2, <2>1, <2>2, Alone DEF PInv, CInv
<1>3. Writing'
  <2>. SUFFICES ASSUME NEW u \in Callers, call'[u].pc # "idle"
                PROVE  /\ call'[u].kind = "bounded" <=> InWrite(u)'
                       /\ call'[u].kind = "bounded" =>
                            call'[u].addr = WritesTo(u)' /\ call'[u].word = Payload(u)'
                       /\ call'[u].kind # "bounded" => call'[u].addr = Bssid
                       /\ call'[u].pc = "wait" => call'[u].stamp = copies'
    BY DEF Writing
  <2>1. InWrite(u)' = InWrite(u) /\ WritesTo(u)' = WritesTo(u) /\ Payload(u)' = Payload(u)
    BY <1>0 DEF InWrite, WritesTo, Payload
  <2>. QED
    BY <1>2, <2>1 DEF PInv, PostInv, Writing
<1>4. Bounded(wire)' = Bounded(wire) /\ \A i \in Bounded(wire) : wire[i].by \in Callers
  BY Element DEF Bounded, PInv, CInv, TypeOK, Requests
<1>5. OwnSays'
  BY <1>2, <1>4 DEF PInv, PostInv, OwnSays
<1>6. SureLoaded'
  <2>. SUFFICES ASSUME NEW u \in Callers, Sure(u)' PROVE Loaded(box, Payload(u))'
    BY DEF SureLoaded
  <2>1. Sure(u)
    BY <1>0, <1>2 DEF Sure
  <2>2. Loaded(box, Payload(u))
    BY <2>1 DEF PInv, PostInv, SureLoaded
  <2>. QED
    BY <1>0, <2>2 DEF Loaded, Payload
<1>7. InLine'
  BY <1>0, <1>4 DEF PInv, PostInv, InLine, Backed
<1>. QED
  BY <1>1, <1>3, <1>5, <1>6, <1>7 DEF PostInv

\* What is known of a call that goes on after an attempt.
LEMMA AgainKeeps ==
  ASSUME PInv, UNCHANGED postVars, NEW t \in Callers, call[t].pc # "idle", TryAgain(t),
         UNCHANGED <<answer, wire, reg, copies>>
  PROVE  PostInv'
<1>1. /\ OnlyCall(t) /\ call'[t].pc = "drain"
      /\ call'[t].kind = call[t].kind /\ call'[t].addr = call[t].addr /\ call'[t].word = call[t].word
  BY Retried DEF TryAgain, PInv, CInv
<1>2. OnlyAnswer(t)
  BY DEF OnlyAnswer, PInv, CInv, TypeOK
<1>3. Sure(t)' => Sure(t)
  BY <1>1 DEF Sure, postVars
<1>. QED
  BY <1>1, <1>2, <1>3, MovesKeep

\* A call that ends: it may answer B_OK only if its own request was carried out.
LEMMA EndsKeep ==
  ASSUME PInv, UNCHANGED postVars, NEW t \in Callers, Inside(t),
         NEW st \in {"OK", "TIMED_OUT", "ERROR"}, NEW w \in Word, Return(t, st, w),
         UNCHANGED <<wire, reg>>,
         st = "OK" /\ call[t].clean /\ call[t].kind = "bounded" =>
           call[t].pc = "judge" /\ call[t].fate = "OK"
  PROVE  PostInv'
<1>1. /\ OnlyCall(t) /\ OnlyAnswer(t) /\ call'[t] = NoCall
      /\ answer'[t].st = st /\ answer'[t].clean = call[t].clean
  BY Returned DEF OnlyCall, OnlyAnswer, PInv, CInv
<1>2. call'[t].pc = "idle" /\ call[t].pc # "idle"
  BY <1>1, NoCallType DEF Inside
<1>3. Sure(t)' => Sure(t)
  <2>1. call[t].kind = "bounded" <=> InWrite(t)
    BY <1>2 DEF PInv, PostInv, Writing
  <2>. QED
    BY <1>1, <1>2, <2>1 DEF Sure, InWrite, postVars
<1>. QED
  BY <1>1, <1>2, <1>3, MovesKeep

LEMMA TakeLockCmd ==
  ASSUME PInv, UNCHANGED postVars, NEW t \in Callers, TakeLock(t)
  PROVE  PostInv'
<1>1. call[t].pc = "lock" /\ UNCHANGED <<answer, wire, reg, copies>>
  BY DEF TakeLock, At, waitVars, deviceVars
<1>2. PICK where \in {"drain", "request"} : Goto(t, where)
  BY DEF TakeLock
<1>3. /\ OnlyCall(t) /\ call'[t].pc = where
      /\ call'[t].kind = call[t].kind /\ call'[t].addr = call[t].addr /\ call'[t].word = call[t].word
  BY <1>2, Moved DEF PInv, CInv
<1>4. OnlyAnswer(t)
  BY <1>1 DEF OnlyAnswer, PInv, CInv, TypeOK
<1>5. Sure(t)' => Sure(t)
  BY <1>3 DEF Sure, postVars
<1>. QED
  BY <1>1, <1>3, <1>4, <1>5, MovesKeep

LEMMA DrainCmd ==
  ASSUME PInv, UNCHANGED postVars, NEW t \in Callers, Drain(t)
  PROVE  PostInv'
<1>. DEFINE none == Bounded(wire) = {} /\ Bounded(done) = {}
            c == [call[t] EXCEPT !.pc = "queue", !.fate = "none", !.clean = none]
<1>1. /\ c \in Calls /\ c.pc = "queue"
      /\ c.kind = call[t].kind /\ c.addr = call[t].addr /\ c.word = call[t].word
  <2>1. none \in BOOLEAN
    OBVIOUS
  <2>. HIDE DEF none
  <2>. QED
    BY <2>1, Types DEF PInv, CInv, Calls, Fates
<1>2. call' = [call EXCEPT ![t] = c]
  BY DEF Drain, BeginAttempt, PInv, CInv, TypeOK
<1>. HIDE DEF c
<1>3. OnlyCall(t) /\ call'[t] = c
  BY <1>1, <1>2, CallChanges DEF OnlyCall, PInv, CInv
<1>4. call[t].pc = "drain" /\ UNCHANGED <<answer, wire, reg, copies>>
  BY DEF Drain, At, deviceVars
<1>5. OnlyAnswer(t)
  BY <1>4 DEF OnlyAnswer, PInv, CInv, TypeOK
<1>6. Sure(t)' => Sure(t)
  BY <1>1, <1>3 DEF Sure, postVars
<1>. QED
  BY <1>1, <1>3, <1>4, <1>5, <1>6, MovesKeep

LEMMA AcquireCmd ==
  ASSUME PInv, UNCHANGED postVars, NEW t \in Callers, Acquire(t)
  PROVE  PostInv'
<1>1. call[t].pc = "wait" /\ Goto(t, "judge") /\ UNCHANGED <<answer, wire, reg, copies>>
  BY DEF Acquire, At, deviceVars
<1>2. /\ OnlyCall(t) /\ call'[t].pc = "judge"
      /\ call'[t].kind = call[t].kind /\ call'[t].addr = call[t].addr /\ call'[t].word = call[t].word
      /\ call'[t].clean = call[t].clean /\ call'[t].fate = call[t].fate
  BY <1>1, Moved DEF PInv, CInv
<1>3. OnlyAnswer(t)
  BY <1>1 DEF OnlyAnswer, PInv, CInv, TypeOK
<1>4. Sure(t)' => Sure(t)
  BY <1>1, <1>2 DEF Sure, postVars
<1>. QED
  BY <1>1, <1>2, <1>3, <1>4, MovesKeep

LEMMA GiveUpCmd ==
  ASSUME PInv, UNCHANGED postVars, NEW t \in Callers, GiveUp(t)
  PROVE  PostInv'
<1>1. call[t].pc = "wait" /\ UNCHANGED <<wire, reg, copies>>
  BY DEF GiveUp, At, waitVars, deviceVars
<1>2. CASE call[t].try < Attempts
  BY <1>1, <1>2, AgainKeeps DEF GiveUp
<1>3. CASE ~(call[t].try < Attempts)
  <2>1. call[t].word \in Word
    BY Types DEF PInv, CInv
  <2>. QED
    BY <1>1, <1>3, <2>1, EndsKeep DEF GiveUp, Inside
<1>. QED
  BY <1>2, <1>3

LEMMA JudgeCmd ==
  ASSUME PInv, UNCHANGED postVars, NEW t \in Callers, Judge(t)
  PROVE  PostInv'
<1>1. /\ call[t].pc = "judge" /\ status \in {"OK", "ERROR"} /\ call[t].word \in Word
      /\ UNCHANGED <<wire, reg, copies>>
  BY Types DEF PInv, CInv, TypeOK, Judge, At, waitVars, deviceVars
<1>2. call[t].clean /\ status = "OK" => call[t].fate = "OK"
  BY <1>1 DEF PInv, CInv, CleanInv, CleanJudge, Agrees
<1>3. CASE status = "OK"
  <2>1. Return(t, "OK", call[t].word)
    BY <1>3 DEF Judge
  <2>. QED
    BY <1>1, <1>2, <1>3, <2>1, EndsKeep DEF Inside
<1>4. CASE status = "ERROR" /\ call[t].try < Attempts
  <2>1. TryAgain(t) /\ UNCHANGED answer
    BY <1>4 DEF Judge
  <2>. QED
    BY <1>1, <2>1, AgainKeeps
<1>5. CASE status = "ERROR" /\ ~(call[t].try < Attempts)
  <2>1. Return(t, "ERROR", call[t].word)
    BY <1>5 DEF Judge
  <2>. QED
    BY <1>1, <2>1, EndsKeep DEF Inside
<1>. QED
  BY <1>1, <1>3, <1>4, <1>5

LEMMA RequestWithoutDeviceCmd ==
  ASSUME PInv, UNCHANGED postVars, NEW t \in Callers, RequestWithoutDevice(t)
  PROVE  PostInv'
<1>1. call[t].pc = "request" /\ Return(t, "ERROR", AllOnes) /\ UNCHANGED <<wire, reg>>
  BY DEF RequestWithoutDevice, At, deviceVars
<1>2. AllOnes \in Word
  BY Types DEF PInv, CInv
<1>. QED
  BY <1>1, <1>2, EndsKeep DEF Inside

\* The answer to a synchronous request is none of a command's.
LEMMA SyncCompletesCmd ==
  ASSUME PInv, UNCHANGED postVars, SyncCompletes
  PROVE  PostInv'
<1>. TypeOK
  BY DEF PInv, CInv
<1>1. done # <<>> /\ Head(done).kind = "sync" /\ UNCHANGED <<wire, reg, copies>>
  BY DEF SyncCompletes, waitVars, deviceVars
<1>2. PICK r \in Requests : r = Head(done)
  BY <1>1, Tailed DEF TypeOK
<1>3. PICK t \in Callers : t = r.by
  BY DEF Requests
<1>4. call[t].pc = "sync"
  <2>1. 1 \in DOMAIN done /\ done[1] = r
    BY <1>1, <1>2, Tailed DEF TypeOK
  <2>. QED
    BY <1>1, <1>2, <1>3, <2>1 DEF PInv, CInv, LastInLine
<1>5. Inside(t) /\ call[t].kind # "bounded" /\ ~InWrite(t)
  BY <1>4 DEF Inside, PInv, CInv, Ways, PostInv, Writing
<1>6. Sure(t)' = FALSE
  BY <1>5 DEF Sure, InWrite, postVars
<1>7. ASSUME NEW st \in {"OK", "ERROR"}, NEW w \in Word, Return(t, st, w)
      PROVE  PostInv'
  BY <1>1, <1>5, <1>7, EndsKeep
<1>8. ASSUME NEW w \in Word, NEW good \in BOOLEAN, WriteHalf(t, w, good)
      PROVE  PostInv'
  <2>1. PICK d \in Calls, v \in Word : d = call[t] /\ v = <<call[t].word[1], w[2]>>
    <3>1. call[t] \in Calls /\ call[t].word \in Word
      BY Types
    <3>2. <<call[t].word[1], w[2]>> \in Word
      BY <3>1 DEF Word
    <3>. QED
      BY <3>1, <3>2
  <2>. DEFINE c == [d EXCEPT !.pc = "request", !.half = "write", !.try = 1, !.word = v, !.good = good]
  <2>2. c \in Calls /\ c.pc = "request" /\ c.kind = d.kind /\ c.addr = d.addr
    BY DEF Calls
  <2>3. call' = [call EXCEPT ![t] = c] /\ UNCHANGED answer
    BY <1>8, <2>1 DEF WriteHalf, TypeOK
  <2>. HIDE DEF c
  <2>4. OnlyCall(t) /\ call'[t] = c
    BY <2>2, <2>3, CallChanges DEF OnlyCall
  <2>5. OnlyAnswer(t)
    BY <2>3 DEF OnlyAnswer, TypeOK
  <2>. QED
    BY <1>1, <1>4, <1>5, <1>6, <2>1, <2>2, <2>3, <2>4, <2>5, MovesKeep
<1>9. CASE /\ call' = [call EXCEPT ![t].pc = "request", ![t].try = @ + 1]
           /\ UNCHANGED answer
  <2>1. /\ OnlyCall(t) /\ call'[t].pc = "request"
        /\ call'[t].kind = call[t].kind /\ call'[t].addr = call[t].addr
    BY <1>9, Retried
  <2>2. OnlyAnswer(t)
    BY <1>9 DEF OnlyAnswer, TypeOK
  <2>. QED
    BY <1>1, <1>4, <1>5, <1>6, <2>1, <2>2, MovesKeep
<1>10. ASSUME NEW st \in {"OK", "ERROR"}, NEW w \in Word, RequestOver(t, st, w)
       PROVE  PostInv'
  <2>1. (st = "OK") \in BOOLEAN
    OBVIOUS
  <2>. QED
    BY <1>7, <1>8, <1>10, <2>1 DEF RequestOver
<1>11. CASE RequestOver(t, "OK", r.word)
  BY <1>10, <1>11 DEF Requests
<1>12. CASE RequestOver(t, "ERROR", AllOnes)
  BY <1>10, <1>12, Types
<1>. QED
  BY <1>2, <1>3, <1>9, <1>11, <1>12 DEF SyncCompletes

\* The device is sent one request more, behind all others.  A second write is
\* sent only by a thread in its second wait; whether it is backed is what that
\* thread knows.
LEMMA SendsKeep ==
  ASSUME PInv, UNCHANGED postVars, NEW t \in Callers, OnlyCall(t), UNCHANGED <<answer, reg>>,
         NEW r \in Requests, wire' = Append(wire, r), r.addr = call[t].addr, Inside(t),
         call'[t].pc # "idle", call'[t].kind = call[t].kind, call'[t].addr = call[t].addr,
         call'[t].word = call[t].word, call'[t].pc # "judge",
         \/ /\ r.kind = "sync" /\ call[t].kind # "bounded" /\ call'[t].pc # "wait"
            /\ copies' = copies
         \/ /\ r.kind = "bounded" /\ call[t].kind = "bounded" /\ r.half = "write"
            /\ r.word = call[t].word /\ r.stamp = copies' /\ copies' = copies + 1
            /\ call'[t].stamp = copies' /\ call'[t].fate = "none"
  PROVE  PostInv'
<1>. TypeOK
  BY DEF PInv, CInv
<1>0. UNCHANGED <<mgrLock, mgrState, box, cmd, unsure, work, woken, snapshot,
              setUp, post, stop, target, joinState, join, joining, joinTry, usb>>
  BY DEF postVars
<1>1. PostTypeOK' /\ Turn'
  BY <1>0 DEF PInv, PostInv, PostTypeOK, Turn
<1>2. call[t].pc # "idle"
  BY DEF Inside
<1>3. /\ wire' \in Seq(Requests) /\ Len(wire) \in Nat
      /\ DOMAIN wire' = 1 .. Len(wire) + 1 /\ DOMAIN wire = 1 .. Len(wire)
      /\ wire'[Len(wire) + 1] = r /\ \A i \in DOMAIN wire : wire'[i] = wire[i]
      /\ Bounded(wire') = IF r.kind = "bounded" THEN Bounded(wire) \cup {Len(wire) + 1}
                          ELSE Bounded(wire)
  BY Appended DEF TypeOK
<1>4. /\ call[t].kind = "bounded" <=> InWrite(t)
      /\ call[t].kind = "bounded" => call[t].addr = WritesTo(t) /\ call[t].word = Payload(t)
      /\ call[t].kind # "bounded" => call[t].addr = Bssid
  BY <1>2 DEF PInv, PostInv, Writing
<1>5. ASSUME NEW u \in Callers, u # t
      PROVE  call'[u] = call[u] /\ call[u].pc # "wait"
  <2>1. call'[u] = call[u]
    BY <1>5 DEF OnlyCall
  <2>2. call[u].pc = "wait" => Inside(u)
    BY DEF Inside
  <2>. QED
    BY <1>5, <2>1, <2>2, Alone DEF PInv, CInv
<1>6. Writing'
  <2>. SUFFICES ASSUME NEW u \in Callers, call'[u].pc # "idle"
                PROVE  /\ call'[u].kind = "bounded" <=> InWrite(u)'
                       /\ call'[u].kind = "bounded" =>
                            call'[u].addr = WritesTo(u)' /\ call'[u].word = Payload(u)'
                       /\ call'[u].kind # "bounded" => call'[u].addr = Bssid
                       /\ call'[u].pc = "wait" => call'[u].stamp = copies'
    BY DEF Writing
  <2>1. InWrite(u)' = InWrite(u) /\ WritesTo(u)' = WritesTo(u) /\ Payload(u)' = Payload(u)
    BY <1>0 DEF InWrite, WritesTo, Payload
  <2>2. CASE u = t
    BY <1>4, <2>1, <2>2
  <2>3. CASE u # t
    BY <1>5, <2>1, <2>3 DEF PInv, PostInv, Writing
  <2>. QED
    BY <2>2, <2>3
<1>7. \A i \in Bounded(wire) :
        /\ i \in 1 .. Len(wire) /\ wire'[i] = wire[i] /\ wire[i] \in Requests
        /\ wire[i].by \in Callers /\ wire[i].stamp \in 1 .. copies /\ wire[i].half = "write"
  <2>1. \A i \in Bounded(wire) : wire[i] \in Requests /\ i \in DOMAIN wire
    BY Element DEF Bounded, TypeOK
  <2>2. \A i \in Bounded(wire) : wire[i].stamp \in 1 .. copies /\ wire[i].half = "write"
    BY DEF PInv, PostInv, OwnSays, CInv, RingInv, Stamped
  <2>3. \A q \in Requests : q.by \in Callers
    BY DEF Requests
  <2>. QED
    BY <1>3, <2>1, <2>2, <2>3
<1>8. OwnSays'
  <2>. SUFFICES ASSUME NEW i \in Bounded(wire')
                PROVE  /\ wire'[i].half = "write"
                       /\ call'[wire'[i].by].pc = "wait" /\ call'[wire'[i].by].stamp = wire'[i].stamp =>
                            /\ wire'[i].addr = call'[wire'[i].by].addr
                            /\ wire'[i].word = call'[wire'[i].by].word
    BY DEF OwnSays, Bounded
  <2>1. CASE i \in Bounded(wire) /\ wire[i].by # t
    BY <1>5, <1>7, <2>1
  <2>2. CASE i \in Bounded(wire) /\ wire[i].by = t
    <3>1. call'[t].pc = "wait" => call'[t].stamp = copies + 1
      OBVIOUS
    <3>2. copies \in Nat /\ wire[i].stamp \in 1 .. copies
      BY <1>7, <2>2 DEF TypeOK
    <3>3. wire[i].stamp # copies + 1
      BY <3>2
    <3>. QED
      BY <1>7, <2>2, <3>1, <3>3
  <2>3. CASE i \notin Bounded(wire)
    <3>1. r.kind = "bounded" /\ wire'[i] = r
      BY <1>3, <2>3
    <3>2. r.by \in Callers
      BY DEF Requests
    <3>3. r.by # t => call'[r.by].pc # "wait"
      BY <1>5, <3>2
    <3>. QED
      BY <3>1, <3>3
  <2>. QED
    BY <2>1, <2>2, <2>3
<1>9. \A u \in Callers : Sure(u)' => Sure(u) /\ (u = t => cmd[t].pc = "stdWait")
  <2>. SUFFICES ASSUME NEW u \in Callers, Sure(u)' PROVE Sure(u) /\ (u = t => cmd[t].pc = "stdWait")
    OBVIOUS
  <2>1. CASE u # t
    BY <1>0, <1>5, <2>1 DEF Sure
  <2>2. CASE u = t
    <3>1. cmd[t].pc = "extWait" => call[t].kind = "bounded"
      BY <1>4 DEF InWrite
    <3>. QED
      BY <1>0, <2>2, <3>1 DEF Sure
  <2>. QED
    BY <2>1, <2>2
<1>10. SureLoaded'
  <2>. SUFFICES ASSUME NEW u \in Callers, Sure(u)' PROVE Loaded(box, Payload(u))'
    BY DEF SureLoaded
  <2>1. Sure(u) /\ Loaded(box, Payload(u)) /\ InWrite(u)
    BY <1>9 DEF PInv, PostInv, SureLoaded, Sure, InWrite
  <2>2. r.addr # Ext(box)
    <3>1. CASE call[t].kind # "bounded"
      BY <1>4, <3>1, Places
    <3>2. CASE call[t].kind = "bounded"
      <4>1. u = t
        BY <1>4, <2>1, <3>2, OneWriter DEF InWrite
      <4>2. cmd[t].pc = "stdWait"
        BY <1>9, <4>1
      <4>. QED
        BY <1>4, <3>2, <4>2, Places DEF WritesTo
    <3>. QED
      BY <3>1, <3>2
  <2>3. reg[Ext(box)] = Payload(u) /\ \A i \in DOMAIN wire : wire[i].addr # Ext(box)
    BY <2>1 DEF Loaded
  <2>4. \A i \in DOMAIN wire' : wire'[i].addr # Ext(box)
    BY <1>3, <2>2, <2>3
  <2>. QED
    BY <1>0, <2>3, <2>4 DEF Loaded, Payload
<1>11. InLine'
  <2>. SUFFICES ASSUME NEW i \in Bounded(wire'), NEW b \in 0 .. Boxes - 1,
                       wire'[i].addr = Std(b), wire'[i].word[1] \notin unsure
                PROVE  /\ reg[Ext(b)] = wire'[i].word
                       /\ \A j \in DOMAIN wire' : j < i => wire'[j].addr # Ext(b)
    BY <1>0 DEF InLine, Backed, Bounded
  <2>1. CASE i \in Bounded(wire)
    <3>1. Backed(i, b)
      BY <1>7, <2>1 DEF PInv, PostInv, InLine
    <3>. QED
      BY <1>3, <1>7, <2>1, <3>1 DEF Backed
  <2>2. CASE i \notin Bounded(wire)
    <3>1. r.kind = "bounded" /\ i = Len(wire) + 1 /\ wire'[i] = r
      BY <1>3, <2>2
    <3>2. InWrite(t) /\ r.addr = WritesTo(t) /\ r.word = Payload(t)
      BY <1>4, <3>1
    <3>3. cmd[t].pc = "stdWait" /\ b = box
      BY <3>1, <3>2, Places, Apart DEF WritesTo, InWrite
    <3>4. Sure(t)
      BY <3>1, <3>2, <3>3 DEF Sure, Payload
    <3>5. Loaded(box, Payload(t))
      BY <3>4 DEF PInv, PostInv, SureLoaded
    <3>. QED
      BY <1>3, <3>1, <3>2, <3>3, <3>5 DEF Loaded
  <2>. QED
    BY <2>1, <2>2
<1>. QED
  BY <1>1, <1>6, <1>8, <1>10, <1>11 DEF PostInv

LEMMA QueueCmd ==
  ASSUME PInv, UNCHANGED postVars, NEW t \in Callers, Queue(t)
  PROVE  PostInv'
<1>. TypeOK
  BY DEF PInv, CInv
<1>. DEFINE w == call[t].word
<1>1. call[t].pc = "queue" /\ copies' = copies + 1 /\ UNCHANGED reg
  BY DEF Queue, At
<1>2. Inside(t) /\ call[t].kind = "bounded" /\ w \in Word /\ index \in Slot /\ copies' \in Nat
  BY <1>1, Types DEF Inside, Ways, PInv, CInv, TypeOK
<1>3. CASE wire' = wire /\ Return(t, "ERROR", w)
  BY <1>1, <1>2, <1>3, EndsKeep
<1>4. CASE /\ wire' = Append(wire, [by |-> t, kind |-> "bounded", half |-> "write",
                 addr |-> call[t].addr, word |-> w, slot |-> index, stamp |-> copies',
                 keep |-> FALSE, st |-> "pending"])
           /\ call' = [call EXCEPT ![t].pc = "wait", ![t].stamp = copies', ![t].fate = "none"]
           /\ UNCHANGED answer
  <2>1. PICK r \in Requests :
          /\ r.by = t /\ r.kind = "bounded" /\ r.half = "write" /\ r.addr = call[t].addr
          /\ r.word = w /\ r.stamp = copies' /\ wire' = Append(wire, r)
    <3>1. [by |-> t, kind |-> "bounded", half |-> "write",
           addr |-> call[t].addr, word |-> w, slot |-> index, stamp |-> copies',
           keep |-> FALSE, st |-> "pending"] \in Requests
      BY <1>2, Types DEF Requests
    <3>. QED
      BY <1>4, <3>1
  <2>2. PICK c \in Calls :
          /\ c.pc = "wait" /\ c.stamp = copies' /\ c.fate = "none" /\ c.kind = call[t].kind
          /\ c.addr = call[t].addr /\ c.word = call[t].word
          /\ call' = [call EXCEPT ![t] = c]
    <3>1. PICK d \in Calls, n \in Nat : d = call[t] /\ n = copies'
      BY <1>2, Types
    <3>2. [d EXCEPT !.pc = "wait", !.stamp = n, !.fate = "none"] \in Calls
      BY DEF Calls, Fates
    <3>3. call' = [call EXCEPT ![t] = [d EXCEPT !.pc = "wait", !.stamp = n, !.fate = "none"]]
      BY <1>4, <3>1 DEF TypeOK
    <3>. QED
      BY <3>1, <3>2, <3>3 DEF Calls
  <2>3. OnlyCall(t) /\ call'[t] = c
    BY <2>2, CallChanges DEF OnlyCall
  <2>. QED
    BY <1>1, <1>2, <1>4, <2>1, <2>2, <2>3, SendsKeep
<1>. QED
  BY <1>3, <1>4 DEF Queue

LEMMA RequestCmd ==
  ASSUME PInv, UNCHANGED postVars, NEW t \in Callers, Request(t)
  PROVE  PostInv'
<1>. TypeOK
  BY DEF PInv, CInv
<1>1. call[t].pc = "request" /\ Goto(t, "sync") /\ UNCHANGED <<answer, reg, copies>>
  BY DEF Request, At, waitVars, deviceVars
<1>2. Inside(t) /\ call[t].kind # "bounded"
  BY <1>1 DEF Inside, Ways, PInv, CInv
<1>3. PICK r \in Requests :
        r.by = t /\ r.kind = "sync" /\ r.addr = call[t].addr /\ wire' = Append(wire, r)
  <2>. DEFINE k == call[t].kind = "masked" /\ call[t].good
              r == [by |-> t, kind |-> "sync", half |-> call[t].half, addr |-> call[t].addr,
                    word |-> call[t].word, slot |-> 0, stamp |-> 0, keep |-> k, st |-> "pending"]
  <2>1. wire' = Append(wire, r)
    BY DEF Request
  <2>2. k \in BOOLEAN /\ call[t].half \in {"read", "write"} /\ call[t].addr \in Addrs
        /\ call[t].word \in Word /\ 0 \in Slot
    BY Types, ControlAssumption DEF Calls, Slot
  <2>. HIDE DEF k
  <2>3. r \in Requests
    BY <2>2 DEF Requests
  <2>. QED
    BY <2>1, <2>3
<1>4. /\ OnlyCall(t) /\ call'[t].pc = "sync"
      /\ call'[t].kind = call[t].kind /\ call'[t].addr = call[t].addr /\ call'[t].word = call[t].word
  BY <1>1, Moved
<1>. QED
  BY <1>1, <1>2, <1>3, <1>4, SendsKeep

\* Nothing a command goes by depends on the completions under way.
LEMMA CallbackCmd ==
  ASSUME PInv, UNCHANGED postVars, ControlCallback
  PROVE  PostInv'
<1>1. UNCHANGED <<call, answer, wire, reg, copies>>
  BY DEF ControlCallback, deviceVars
<1>2. UNCHANGED <<mgrLock, mgrState, box, cmd, unsure, work, woken, snapshot,
              setUp, post, stop, target, joinState, join, joining, joinTry, usb>>
  BY DEF postVars
<1>3. PostTypeOK' /\ Turn' /\ Writing'
  BY <1>1, <1>2 DEF PInv, PostInv, PostTypeOK, Turn, Writing, InWrite, WritesTo, Payload
<1>4. OwnSays' /\ InLine'
  BY <1>1, <1>2 DEF PInv, PostInv, OwnSays, InLine, Backed, Bounded
<1>5. SureLoaded'
  BY <1>1, <1>2 DEF PInv, PostInv, SureLoaded, Sure, Loaded, Payload
<1>. QED
  BY <1>3, <1>4, <1>5 DEF PostInv

LEMMA UnplugCmd ==
  ASSUME PInv, UNCHANGED postVars, Unplug
  PROVE  PostInv'
<1>1. wire' = <<>> /\ UNCHANGED <<call, answer, reg, copies>>
  BY DEF Unplug, waitVars, deviceVars
<1>2. UNCHANGED <<mgrLock, mgrState, box, cmd, unsure, work, woken, snapshot,
              setUp, post, stop, target, joinState, join, joining, joinTry, usb>>
  BY DEF postVars
<1>3. PostTypeOK' /\ Turn' /\ Writing'
  BY <1>1, <1>2 DEF PInv, PostInv, PostTypeOK, Turn, Writing, InWrite, WritesTo, Payload
<1>4. DOMAIN wire' = {} /\ Bounded(wire)' = {}
  BY <1>1 DEF Bounded
<1>5. OwnSays' /\ InLine'
  BY <1>4 DEF OwnSays, InLine
<1>6. SureLoaded'
  BY <1>1, <1>2, <1>4 DEF PInv, PostInv, SureLoaded, Sure, Loaded, Payload
<1>. QED
  BY <1>3, <1>5, <1>6 DEF PostInv

\* The device carries out its oldest request.  It is not one that would change
\* the payload of a second write in line, and if it is the first write of a
\* command that began with nothing outstanding, it is the only one.
LEMMA ExecuteCmd ==
  ASSUME PInv, UNCHANGED postVars, Execute
  PROVE  PostInv'
<1>. TypeOK
  BY DEF PInv, CInv
<1>0. UNCHANGED <<mgrLock, mgrState, box, cmd, unsure, work, woken, snapshot,
              setUp, post, stop, target, joinState, join, joining, joinTry, usb>>
  BY DEF postVars
<1>1. PICK r \in Requests, st \in {"OK", "ERROR"} :
        /\ wire # <<>> /\ r = Head(wire) /\ wire' = Tail(wire) /\ call' = Fate(r, st)
        /\ \/ reg' = reg /\ ~(r.half = "write" /\ st = "OK")
           \/ reg' = [reg EXCEPT ![r.addr] = IF r.kind = "bounded" THEN buffer[r.slot] ELSE r.word]
        /\ UNCHANGED <<answer, buffer, copies>>
  BY Executed DEF PInv
<1>2. /\ Len(wire) \in Nat \ {0}
      /\ DOMAIN wire' = 1 .. Len(wire) - 1 /\ DOMAIN wire = 1 .. Len(wire)
      /\ r = wire[1]
      /\ \A i \in DOMAIN wire' : wire'[i] = wire[i + 1] /\ i + 1 \in DOMAIN wire
      /\ \A i \in Bounded(wire') : i + 1 \in Bounded(wire)
  BY <1>1, Tailed DEF TypeOK
<1>3. \A u \in Callers :
        /\ call'[u].pc = call[u].pc /\ call'[u].kind = call[u].kind
        /\ call'[u].addr = call[u].addr /\ call'[u].word = call[u].word
        /\ call'[u].clean = call[u].clean /\ call'[u].stamp = call[u].stamp
        /\ call'[u].fate = IF r.kind = "bounded" /\ Own(r, u) THEN st ELSE call[u].fate
  BY <1>1, FateTold
<1>4. 1 \in DOMAIN wire /\ r.addr \in Addrs /\ r.by \in Callers
  BY <1>2 DEF Requests
<1>5. PostTypeOK' /\ Turn'
  BY <1>0 DEF PInv, PostInv, PostTypeOK, Turn
<1>6. Writing'
  BY <1>0, <1>1, <1>3 DEF PInv, PostInv, Writing, InWrite, WritesTo, Payload
<1>7. OwnSays'
  <2>. SUFFICES ASSUME NEW i \in Bounded(wire')
                PROVE  /\ wire'[i].half = "write"
                       /\ call'[wire'[i].by].pc = "wait" /\ call'[wire'[i].by].stamp = wire'[i].stamp =>
                            /\ wire'[i].addr = call'[wire'[i].by].addr
                            /\ wire'[i].word = call'[wire'[i].by].word
    BY DEF OwnSays, Bounded
  <2>1. i + 1 \in Bounded(wire) /\ wire'[i] = wire[i + 1] /\ wire[i + 1].by \in Callers
    <3>1. i + 1 \in Bounded(wire) /\ wire'[i] = wire[i + 1]
      BY <1>2 DEF Bounded
    <3>2. wire[i + 1] \in Requests
      BY <3>1, Element DEF Bounded, TypeOK
    <3>. QED
      BY <3>1, <3>2 DEF Requests
  <2>. QED
    BY <1>3, <2>1 DEF PInv, PostInv, OwnSays
\* A register the oldest request is not about keeps its word.
<1>8. ASSUME NEW a \in Addrs, r.addr # a
      PROVE  reg'[a] = reg[a]
  BY <1>1, <1>4, <1>8 DEF TypeOK
<1>9. SureLoaded'
  <2>. SUFFICES ASSUME NEW u \in Callers, Sure(u)' PROVE Loaded(box, Payload(u))'
    BY DEF SureLoaded
  <2>1. CASE Sure(u)
    <3>1. reg[Ext(box)] = Payload(u) /\ \A i \in DOMAIN wire : wire[i].addr # Ext(box)
      BY <2>1 DEF PInv, PostInv, SureLoaded, Loaded
    <3>2. reg'[Ext(box)] = Payload(u)
      BY <1>2, <1>4, <1>8, <3>1, Places
    <3>. QED
      BY <1>0, <1>2, <3>1, <3>2 DEF Loaded, Payload
  <2>2. CASE ~Sure(u)
    <3>1. /\ cmd[u].pc = "extWait" /\ call[u].pc \in {"wait", "judge"} /\ call[u].clean
          /\ r.kind = "bounded" /\ Own(r, u) /\ st = "OK"
      BY <1>0, <1>1, <1>3, <2>2 DEF Sure
    <3>2. 1 \in Bounded(wire)
      BY <1>2, <1>4, <3>1 DEF Bounded
    <3>3. call[u].pc = "wait" /\ Bounded(wire) = {1}
      BY <3>1, <3>2 DEF PInv, CInv, CleanInv, CleanWait, CleanJudge, NoneOut
    <3>4. /\ call[u].kind = "bounded" /\ call[u].addr = Ext(box) /\ call[u].word = Payload(u)
          /\ call[u].stamp = copies
      BY <3>1, <3>3 DEF PInv, PostInv, Writing, InWrite, WritesTo
    <3>5. r.half = "write" /\ r.addr = Ext(box) /\ r.word = Payload(u)
      BY <1>2, <3>1, <3>2, <3>3, <3>4 DEF PInv, PostInv, OwnSays, Own
    <3>6. buffer[r.slot] = r.word
      <4>1. Behind(r) /\ r.stamp = copies /\ copies \in Nat
        BY <1>2, <3>1, <3>2, <3>4 DEF PInv, CInv, RingInv, Own, TypeOK
      <4>. QED
        BY <4>1, ControlAssumption DEF Behind
    <3>7. reg' = [reg EXCEPT ![r.addr] = buffer[r.slot]]
      BY <1>1, <3>1, <3>5
    <3>8. reg'[Ext(box)] = Payload(u)
      BY <1>4, <3>5, <3>6, <3>7 DEF TypeOK
    <3>9. \A i \in DOMAIN wire' : wire'[i].addr # Ext(box)
      <4>. SUFFICES ASSUME NEW i \in DOMAIN wire' PROVE wire'[i].addr # Ext(box)
        OBVIOUS
      <4>1. i + 1 \in DOMAIN wire /\ i + 1 # 1 /\ wire'[i] = wire[i + 1]
        BY <1>2
      <4>2. i + 1 \notin Bounded(wire)
        BY <3>3, <4>1
      <4>. QED
        BY <4>1, <4>2, SyncIsBssid, Places
    <3>. QED
      BY <1>0, <3>8, <3>9 DEF Loaded, Payload
  <2>. QED
    BY <2>1, <2>2
<1>10. InLine'
  <2>. SUFFICES ASSUME NEW i \in Bounded(wire'), NEW b \in 0 .. Boxes - 1,
                       wire'[i].addr = Std(b), wire'[i].word[1] \notin unsure
                PROVE  /\ reg'[Ext(b)] = wire'[i].word
                       /\ \A j \in DOMAIN wire' : j < i => wire'[j].addr # Ext(b)
    BY <1>0 DEF InLine, Backed, Bounded
  <2>1. i + 1 \in Bounded(wire) /\ i \in DOMAIN wire' /\ wire'[i] = wire[i + 1]
    BY <1>2 DEF Bounded
  <2>2. Backed(i + 1, b)
    BY <2>1 DEF PInv, PostInv, InLine
  <2>3. i \in Nat \ {0}
    BY <1>2, <2>1
  <2>4. r.addr # Ext(b)
    BY <1>2, <1>4, <2>2, <2>3 DEF Backed
  <2>5. reg'[Ext(b)] = wire'[i].word
    BY <1>8, <2>1, <2>2, <2>4, Apart DEF Backed
  <2>6. ASSUME NEW j \in DOMAIN wire', j < i PROVE wire'[j].addr # Ext(b)
    <3>1. j + 1 \in DOMAIN wire /\ j + 1 < i + 1 /\ wire'[j] = wire[j + 1]
      BY <1>2, <2>3, <2>6
    <3>. QED
      BY <2>2, <3>1 DEF Backed
  <2>. QED
    BY <2>5, <2>6
<1>. QED
  BY <1>5, <1>6, <1>7, <1>9, <1>10 DEF PostInv

------------------------------------------------------------------------------
(* The steps of a command, of the worker, of a join and of the callback.    *)

\* The registers are told nothing by a step that takes a number or forgets an
\* answer.
LEMMA RestKeeps ==
  ASSUME CInv,
         UNCHANGED <<owner, call, doneSem, status, index, buffer, copies, wire, done, reg,
                     present, naks>>,
         fresh' \in 0 .. MaxValue,
         answer' = answer \/ \E t \in Callers : answer' = [answer EXCEPT ![t] = NoAnswer]
  PROVE  CInv'
<1>. TypeOK
  BY DEF CInv
<1>1. answer' \in [Callers -> Answers]
  BY NoCallType DEF TypeOK
<1>2. TypeOK'
  BY <1>1 DEF TypeOK
<1>3. AnswersTrue'
  <2>1. CASE answer' = answer
    BY <2>1 DEF CInv, AnswersTrue
  <2>2. ASSUME NEW t \in Callers, answer' = [answer EXCEPT ![t] = NoAnswer]
        PROVE  AnswersTrue'
    <3>1. OnlyAnswer(t) /\ answer'[t] = NoAnswer
      BY <1>1, <2>2 DEF OnlyAnswer, TypeOK
    <3>. QED
      BY <3>1, NoCallType, AnswersKept DEF CInv
  <2>. QED
    BY <2>1, <2>2
<1>4. Locked' /\ Ways' /\ LastInLine' /\ RingInv' /\ MaskInv'
  BY DEF CInv, Locked, Inside, Ways, LastInLine, RingInv, Stamped, Behind, MaskInv, Says, Bounded
<1>5. CleanInv'
  BY DEF CInv, CleanInv, CleanQueue, CleanWait, CleanJudge, NoneOut, Own, Agrees, Bounded
<1>. QED
  BY <1>2, <1>3, <1>4, <1>5 DEF CInv

\* What is written of a thread's call and what the thread knows is all that a
\* step of its command can disturb, as long as the box changes while nobody
\* else writes to it.
LEMMA CmdKeeps ==
  ASSUME PInv, NEW t \in Callers, UNCHANGED <<wire, reg, copies>>,
         OnlyCall(t), OnlyAnswer(t), \A u \in Callers \ {t} : cmd'[u] = cmd[u],
         PostTypeOK', Turn', unsure \subseteq unsure',
         box' = box \/ \A u \in Callers \ {t} : ~InWrite(u),
         call'[t].pc = "wait" => call'[t] = call[t],
         call'[t].pc # "idle" =>
           /\ call'[t].kind = "bounded" <=> InWrite(t)'
           /\ call'[t].kind = "bounded" =>
                call'[t].addr = WritesTo(t)' /\ call'[t].word = Payload(t)'
           /\ call'[t].kind # "bounded" => call'[t].addr = Bssid
           /\ call'[t].pc = "wait" => call'[t].stamp = copies,
         Sure(t)' => Loaded(box, Payload(t))'
  PROVE  PostInv'
<1>1. ASSUME NEW u \in Callers, u # t
      PROVE  /\ call'[u] = call[u] /\ answer'[u] = answer[u]
             /\ InWrite(u)' = InWrite(u) /\ Payload(u)' = Payload(u)
             /\ InWrite(u) => box' = box /\ WritesTo(u)' = WritesTo(u)
             /\ Sure(u)' => Sure(u)
  <2>1. call'[u] = call[u] /\ answer'[u] = answer[u] /\ cmd'[u] = cmd[u]
    BY <1>1 DEF OnlyCall, OnlyAnswer
  <2>2. Sure(u)' => Sure(u)
    BY <2>1 DEF Sure
  <2>. QED
    BY <1>1, <2>1, <2>2 DEF InWrite, Payload, WritesTo
<1>2. Writing'
  <2>. SUFFICES ASSUME NEW u \in Callers, call'[u].pc # "idle", u # t
                PROVE  /\ call'[u].kind = "bounded" <=> InWrite(u)'
                       /\ call'[u].kind = "bounded" =>
                            call'[u].addr = WritesTo(u)' /\ call'[u].word = Payload(u)'
                       /\ call'[u].kind # "bounded" => call'[u].addr = Bssid
                       /\ call'[u].pc = "wait" => call'[u].stamp = copies'
    BY DEF Writing
  <2>. QED
    BY <1>1 DEF PInv, PostInv, Writing
<1>3. \A i \in Bounded(wire) : wire[i].by \in Callers
  BY Element DEF Bounded, PInv, CInv, TypeOK, Requests
<1>4. OwnSays'
  <2>1. \A u \in Callers : call'[u].pc = "wait" => call'[u] = call[u]
    BY <1>1
  <2>. QED
    BY <1>3, <2>1 DEF PInv, PostInv, OwnSays, Bounded
<1>5. SureLoaded'
  <2>. SUFFICES ASSUME NEW u \in Callers, Sure(u)' PROVE Loaded(box, Payload(u))'
    BY DEF SureLoaded
  <2>1. CASE u = t
    BY <2>1
  <2>2. CASE u # t
    <3>1. Sure(u) /\ InWrite(u)
      BY <1>1, <2>2 DEF Sure, InWrite
    <3>. QED
      BY <1>1, <2>2, <3>1 DEF PInv, PostInv, SureLoaded, Loaded
  <2>. QED
    BY <2>1, <2>2
<1>6. InLine'
  BY DEF PInv, PostInv, InLine, Backed, Bounded
<1>. QED
  BY <1>2, <1>4, <1>5, <1>6 DEF PostInv

\* A step that is none of a command's, made by a thread that sends none.
LEMMA AsideKeeps ==
  ASSUME PInv, NEW t \in Callers,
         UNCHANGED <<owner, call, doneSem, status, index, buffer, copies, wire, done, reg,
                     present, naks>>,
         fresh' \in 0 .. MaxValue,
         answer' = answer \/ answer' = [answer EXCEPT ![t] = NoAnswer],
         UNCHANGED <<cmd, box, mgrLock, unsure>>, PostTypeOK',
         work' = work \/ cmd[Worker].pc = "none", join' = join \/ cmd[Joiner].pc = "none"
  PROVE  PInv'
<1>. TypeOK
  BY DEF PInv, CInv
<1>1. CInv'
  BY RestKeeps DEF PInv
<1>2. OnlyCall(t)
  BY DEF OnlyCall, TypeOK
<1>3. OnlyAnswer(t) /\ (answer'[t] = answer[t] \/ answer'[t].st = "none")
  <2>1. CASE answer' = answer
    BY <2>1 DEF OnlyAnswer, TypeOK
  <2>2. CASE answer' = [answer EXCEPT ![t] = NoAnswer]
    <3>1. OnlyAnswer(t) /\ answer'[t] = NoAnswer
      BY <2>2, NoCallType DEF OnlyAnswer, TypeOK
    <3>2. NoAnswer.st = "none"
      BY DEF NoAnswer
    <3>. QED
      BY <3>1, <3>2
  <2>. QED
    BY <2>1, <2>2
<1>4. Turn'
  BY DEF PInv, PostInv, Turn
<1>5. InWrite(t)' = InWrite(t) /\ WritesTo(t)' = WritesTo(t) /\ Payload(t)' = Payload(t)
  BY DEF InWrite, WritesTo, Payload
<1>6. Sure(t)' => Loaded(box, Payload(t))'
  <2>1. Sure(t)' => Sure(t)
    BY <1>3 DEF Sure
  <2>. QED
    BY <1>5, <2>1 DEF PInv, PostInv, SureLoaded, Loaded
<1>7. PostInv'
  BY <1>2, <1>3, <1>4, <1>5, <1>6, CmdKeeps DEF PInv, PostInv, Writing
<1>. QED
  BY <1>1, <1>7 DEF PInv

\* The worker while it sends nothing.
LEMMA WorkerAside ==
  ASSUME PInv, WorkAcquire \/ Woken \/ WorkSnapshot \/ WorkDone
  PROVE  PInv'
<1>1. Worker \in Callers /\ Worker # Joiner /\ fresh \in 0 .. MaxValue
  BY PostAssocAssumption DEF PInv, CInv, TypeOK
<1>2. /\ UNCHANGED <<owner, call, answer, doneSem, status, index, buffer, copies, wire, done, reg,
                     present, naks, fresh>>
      /\ UNCHANGED <<cmd, box, mgrLock, unsure, join>>
  BY DEF WorkAcquire, Woken, WorkSnapshot, WorkDone, WorkUnchanged, controlVars, h2cVars, joinVars
<1>3. cmd[Worker].pc = "none"
  <2>1. CASE work \notin {"mediaStatus", "report"}
    BY <1>1, <2>1 DEF PInv, PostInv, Turn
  <2>2. CASE work \in {"mediaStatus", "report"}
    BY <2>2 DEF WorkAcquire, Woken, WorkSnapshot, WorkDone
  <2>. QED
    BY <2>1, <2>2
<1>4. PostTypeOK'
  <2>. PostTypeOK
    BY DEF PInv, PostInv
  <2>1. CASE WorkAcquire
    BY <2>1, <1>2 DEF PostTypeOK, WorkAcquire, joinVars
  <2>2. CASE Woken
    BY <2>2, <1>2 DEF PostTypeOK, Woken, WorkUnchanged, joinVars
  <2>3. CASE WorkSnapshot
    BY <2>3, <1>2 DEF PostTypeOK, WorkSnapshot, WorkUnchanged, joinVars
  <2>4. CASE WorkDone
    BY <2>4, <1>2 DEF PostTypeOK, WorkDone, WorkUnchanged, joinVars
  <2>. QED
    BY <2>1, <2>2, <2>3, <2>4
<1>. QED
  BY <1>1, <1>2, <1>3, <1>4, AsideKeeps

\* A join while it sends nothing.
LEMMA JoinAside ==
  ASSUME PInv, JoinBegin \/ JoinVerify \/ JoinCommit \/ DisconnectDone
  PROVE  PInv'
<1>1. Joiner \in Callers /\ Worker # Joiner /\ fresh \in 0 .. MaxValue
  BY PostAssocAssumption DEF PInv, CInv, TypeOK
<1>2. /\ UNCHANGED <<owner, call, doneSem, status, index, buffer, copies, wire, done, reg,
                     present, naks>>
      /\ UNCHANGED <<cmd, box, mgrLock, unsure, work, woken, snapshot, setUp, post, stop, usb>>
  BY DEF JoinBegin, JoinVerify, JoinCommit, DisconnectDone, JoinUnchanged, FreshOnly, Forget,
         controlVars, waitVars, deviceVars, workerVars
<1>3. cmd[Joiner].pc = "none"
  <2>1. CASE join # "sending"
    BY <1>1, <2>1 DEF PInv, PostInv, Turn
  <2>2. CASE join = "sending"
    BY <2>2 DEF JoinBegin, JoinVerify, JoinCommit, DisconnectDone
  <2>. QED
    BY <2>1, <2>2
<1>4. fresh' \in 0 .. MaxValue /\ (JoinBegin => joining' = fresh')
  BY <1>1, ControlAssumption
     DEF JoinBegin, JoinVerify, JoinCommit, DisconnectDone, FreshOnly, Forget, controlVars
<1>5. answer' = answer \/ answer' = [answer EXCEPT ![Joiner] = NoAnswer]
  BY DEF JoinBegin, JoinVerify, JoinCommit, DisconnectDone, FreshOnly, Forget, controlVars
<1>6. PostTypeOK'
  BY <1>2, <1>4 DEF PInv, PostInv, PostTypeOK, JoinBegin, JoinVerify, JoinCommit, DisconnectDone
<1>. QED
  BY <1>1, <1>2, <1>3, <1>4, <1>5, <1>6, AsideKeeps

\* The receive callback and the end.
LEMMA CallbackAside ==
  ASSUME PInv, RxBeacon \/ RxAssocResponse \/ UpdateBssEntry \/ MarkConnected \/ Shutdown
  PROVE  PInv'
<1>1. Worker \in Callers /\ fresh \in 0 .. MaxValue
  BY PostAssocAssumption DEF PInv, CInv, TypeOK
<1>2. /\ UNCHANGED <<owner, call, answer, doneSem, status, index, buffer, copies, wire, done, reg,
                     present, naks, fresh>>
      /\ UNCHANGED <<cmd, box, mgrLock, unsure, work, join>>
  BY DEF RxBeacon, RxAssocResponse, UpdateBssEntry, MarkConnected, Shutdown, UsbUnchanged,
         controlVars, h2cVars, joinVars, workerVars
<1>3. PostTypeOK'
  <2>. PostTypeOK
    BY DEF PInv, PostInv
  <2>1. CASE RxBeacon
    BY <2>1, <1>2 DEF PostTypeOK, RxBeacon, UsbUnchanged, workerVars
  <2>2. CASE RxAssocResponse
    BY <2>2, <1>2 DEF PostTypeOK, RxAssocResponse, UsbUnchanged, workerVars
  <2>3. CASE UpdateBssEntry
    BY <2>3, <1>2 DEF PostTypeOK, UpdateBssEntry, UsbUnchanged, workerVars
  <2>4. CASE MarkConnected
    BY <2>4, <1>2 DEF PostTypeOK, MarkConnected, UsbUnchanged, workerVars
  <2>5. CASE Shutdown
    BY <2>5, <1>2 DEF PostTypeOK, Shutdown, joinVars, workerVars
  <2>. QED
    BY <2>1, <2>2, <2>3, <2>4, <2>5
<1>. QED
  BY <1>1, <1>2, <1>3, AsideKeeps

\* The numbers of joins and commands are values a register can be written.
LEMMA Values ==
  ASSUME PInv
  PROVE  /\ snapshot \in 0 .. MaxValue /\ joining \in 0 .. MaxValue /\ fresh \in 0 .. MaxValue
         /\ \A t \in Callers : cmd[t].id \in 0 .. MaxValue
         /\ Worker \in Callers /\ Joiner \in Callers /\ Worker # Joiner
BY PostAssocAssumption DEF PInv, PostInv, PostTypeOK, CInv, TypeOK

\* A command's own record.
LEMMA CmdGoes ==
  ASSUME PostTypeOK, NEW t \in Callers, NEW where \in {"none", "lock", "ext", "extWait", "stdWait"},
         CmdGoto(t, where)
  PROVE  /\ cmd' \in [Callers -> [pc : {"none", "lock", "ext", "extWait", "stdWait"},
                                  id : 0 .. MaxValue]]
         /\ cmd'[t].pc = where /\ cmd'[t].id = cmd[t].id
         /\ \A u \in Callers \ {t} : cmd'[u] = cmd[u]
BY DEF CmdGoto, PostTypeOK

\* A thread asks for a command to be sent.
LEMMA AskKeeps ==
  ASSUME PInv, NEW t \in Callers, SendH2C(t), UNCHANGED controlVars,
         UNCHANGED <<box, mgrLock, unsure>>, PostTypeOK',
         \/ t = Worker /\ work' \in {"mediaStatus", "report"} /\ join' = join
         \/ t = Joiner /\ join' = "sending" /\ work' = work
  PROVE  PInv'
<1>. TypeOK /\ PostTypeOK
  BY DEF PInv, CInv, PostInv
<1>1. /\ UNCHANGED <<owner, call, answer, doneSem, status, index, buffer, copies, wire, done, reg,
                     present, naks, fresh>>
      /\ cmd[t].pc = "none" /\ CmdGoto(t, "lock")
  BY DEF controlVars, SendH2C
<1>2. cmd'[t].pc = "lock" /\ \A u \in Callers \ {t} : cmd'[u] = cmd[u]
  BY <1>1, CmdGoes
<1>3. CInv'
  BY <1>1, RestKeeps DEF PInv, TypeOK
<1>4. OnlyCall(t) /\ OnlyAnswer(t)
  BY <1>1 DEF OnlyCall, OnlyAnswer, TypeOK
<1>5. Turn'
  <2>1. \A u \in Callers \ {t} : cmd'[u] = cmd[u]
    BY <1>2
  <2>. QED
    BY <1>2, Values DEF PInv, PostInv, Turn
<1>6. /\ ~InWrite(t) /\ ~InWrite(t)' /\ ~Sure(t)'
  BY <1>1, <1>2 DEF InWrite, Sure
<1>7. PostInv'
  BY <1>1, <1>2, <1>4, <1>5, <1>6, CmdKeeps DEF PInv, PostInv, Writing
<1>. QED
  BY <1>3, <1>7 DEF PInv

LEMMA AskSteps ==
  ASSUME PInv, WorkRateInfo \/ WorkMediaStatus \/ Disconnect
  PROVE  PInv'
<1>. PostTypeOK
  BY DEF PInv, PostInv
<1>1. CASE WorkRateInfo
  <2>1. PostTypeOK'
    BY <1>1, CmdGoes, Values DEF PostTypeOK, WorkRateInfo, WorkUnchanged, SendH2C, joinVars
  <2>. QED
    BY <1>1, <2>1, AskKeeps, Values DEF WorkRateInfo, WorkUnchanged, joinVars
<1>2. CASE WorkMediaStatus
  <2>1. PostTypeOK'
    BY <1>2, CmdGoes, Values DEF PostTypeOK, WorkMediaStatus, WorkUnchanged, SendH2C, joinVars
  <2>. QED
    BY <1>2, <2>1, AskKeeps, Values DEF WorkMediaStatus, WorkUnchanged, joinVars
<1>3. CASE Disconnect
  <2>1. PostTypeOK'
    BY <1>3, CmdGoes, Values DEF PostTypeOK, Disconnect, JoinUnchanged, SendH2C, workerVars
  <2>. QED
    BY <1>3, <2>1, AskKeeps, Values DEF Disconnect, JoinUnchanged, workerVars
<1>. QED
  BY <1>1, <1>2, <1>3

\* Calls about the BSSID, made by a thread that sends no command.
LEMMA BssidKeeps ==
  ASSUME PInv, NEW t \in Callers, NEW kind \in {"write", "read"}, NEW v \in 0 .. MaxValue,
         Call(t, kind, Bssid, v), fresh' = fresh, cmd[t].pc = "none",
         UNCHANGED <<cmd, box, mgrLock, unsure>>, PostTypeOK',
         \/ t = Worker /\ join' = join
         \/ t = Joiner /\ work' = work
  PROVE  PInv'
<1>. TypeOK
  BY DEF PInv, CInv
<1>1. kind \in Kinds /\ Bssid \in Addrs
  BY Apart DEF Kinds
<1>2. CInv'
  BY <1>1, Values, CallKeeps DEF PInv
<1>3. /\ OnlyCall(t) /\ OnlyAnswer(t) /\ UNCHANGED <<wire, reg, copies>>
      /\ \/ call'[t].pc = "lock" /\ call'[t].kind = kind /\ call'[t].addr = Bssid
         \/ call' = call /\ call[t].pc = "idle"
  BY <1>1, CallBegun
<1>4. Turn'
  BY Values DEF PInv, PostInv, Turn
<1>5. ~InWrite(t)' /\ ~Sure(t)'
  BY DEF InWrite, Sure
<1>6. PostInv'
  BY <1>3, <1>4, <1>5, CmdKeeps
<1>. QED
  BY <1>2, <1>6 DEF PInv

LEMMA BssidSteps ==
  ASSUME PInv, WorkBssid \/ JoinWriteBssid \/ JoinReadBssid
  PROVE  PInv'
<1>. PostTypeOK
  BY DEF PInv, PostInv
<1>1. CASE WorkBssid
  <2>1. PostTypeOK'
    BY <1>1 DEF PostTypeOK, WorkBssid, WorkUnchanged, joinVars
  <2>2. cmd[Worker].pc = "none"
    BY <1>1, Values DEF PInv, PostInv, Turn, WorkBssid
  <2>. QED
    BY <1>1, <2>1, <2>2, BssidKeeps, Values DEF WorkBssid, WorkUnchanged, joinVars
<1>2. CASE JoinWriteBssid
  <2>1. PostTypeOK'
    BY <1>2 DEF PostTypeOK, JoinWriteBssid, JoinUnchanged, workerVars
  <2>2. cmd[Joiner].pc = "none"
    BY <1>2, Values DEF PInv, PostInv, Turn, JoinWriteBssid
  <2>. QED
    BY <1>2, <2>1, <2>2, BssidKeeps, Values DEF JoinWriteBssid, JoinUnchanged, workerVars
<1>3. CASE JoinReadBssid
  <2>1. PostTypeOK'
    BY <1>3 DEF PostTypeOK, JoinReadBssid, JoinUnchanged, workerVars
  <2>2. cmd[Joiner].pc = "none"
    BY <1>3, Values DEF PInv, PostInv, Turn, JoinReadBssid
  <2>. QED
    BY <1>3, <2>1, <2>2, BssidKeeps, Values DEF JoinReadBssid, JoinUnchanged, workerVars
<1>. QED
  BY <1>1, <1>2, <1>3

\* The steps of a command that is being sent.
LEMMA LockStep ==
  ASSUME PInv, NEW t \in Callers, H2CLock(t)
  PROVE  PInv'
<1>. TypeOK /\ PostTypeOK
  BY DEF PInv, CInv, PostInv
<1>1. /\ UNCHANGED <<owner, call, answer, doneSem, status, index, buffer, copies, wire, done, reg,
                     present, naks>>
      /\ cmd[t].pc = "lock" /\ mgrLock = NoCaller /\ mgrLock' = t
      /\ UNCHANGED <<mgrState, box, unsure, work, woken, snapshot, setUp, post, stop, target,
                     joinState, join, joining, joinTry, usb>>
  BY DEF H2CLock, FreshOnly, waitVars, deviceVars, workerVars, joinVars
<1>2. fresh' \in 0 .. MaxValue
  BY ControlAssumption DEF H2CLock, FreshOnly, TypeOK
<1>3. /\ cmd' \in [Callers -> [pc : {"none", "lock", "ext", "extWait", "stdWait"},
                               id : 0 .. MaxValue]]
      /\ cmd'[t].pc = "ext" /\ cmd'[t].id # 0 /\ \A u \in Callers \ {t} : cmd'[u] = cmd[u]
  <2>. DEFINE c == [pc |-> "ext", id |-> fresh']
  <2>1. c \in [pc : {"none", "lock", "ext", "extWait", "stdWait"}, id : 0 .. MaxValue]
        /\ c.pc = "ext" /\ c.id # 0
    BY <1>2 DEF H2CLock, FreshOnly, TypeOK
  <2>. HIDE DEF c
  <2>2. cmd' = [cmd EXCEPT ![t] = c]
    BY DEF H2CLock, c
  <2>. QED
    BY <2>1, <2>2 DEF PostTypeOK
<1>4. CInv'
  BY <1>1, <1>2, RestKeeps DEF PInv
<1>5. OnlyCall(t) /\ OnlyAnswer(t)
  BY <1>1 DEF OnlyCall, OnlyAnswer, TypeOK
<1>6. PostTypeOK'
  BY <1>1, <1>3 DEF PostTypeOK
<1>7. Turn'
  <2>1. \A u \in Callers : cmd[u].pc \notin {"ext", "extWait", "stdWait"}
    BY <1>1, ControlAssumption DEF PInv, PostInv, Turn
  <2>. QED
    BY <1>1, <1>3, <2>1 DEF PInv, PostInv, Turn
<1>8. ~InWrite(t) /\ ~InWrite(t)' /\ ~Sure(t)'
  BY <1>1, <1>3 DEF InWrite, Sure
<1>9. PostInv'
  BY <1>1, <1>3, <1>5, <1>6, <1>7, <1>8, CmdKeeps DEF PInv, PostInv, Writing
<1>. QED
  BY <1>4, <1>9 DEF PInv

LEMMA ExtStep ==
  ASSUME PInv, NEW t \in Callers, H2CExt(t)
  PROVE  PInv'
<1>. TypeOK /\ PostTypeOK
  BY DEF PInv, CInv, PostInv
<1>1. /\ cmd[t].pc = "ext" /\ Call(t, "bounded", Ext(box), cmd[t].id) /\ CmdGoto(t, "extWait")
      /\ UNCHANGED <<mgrLock, mgrState, box, unsure, work, woken, snapshot, setUp, post, stop,
                     target, joinState, join, joining, joinTry, usb, fresh>>
  BY DEF H2CExt, H2CWrite, workerVars, joinVars
<1>2. "bounded" \in Kinds /\ Ext(box) \in Addrs /\ cmd[t].id \in 0 .. MaxValue
  BY Places, Values DEF Kinds
<1>3. CInv'
  BY <1>1, <1>2, CallKeeps, Values DEF PInv
<1>4. /\ OnlyCall(t) /\ OnlyAnswer(t) /\ UNCHANGED <<wire, reg, copies>>
      /\ \/ /\ call'[t].pc = "lock" /\ call'[t].kind = "bounded" /\ call'[t].addr = Ext(box)
            /\ call'[t].word = Payload(t) /\ answer'[t].st = "none"
         \/ call' = call /\ call[t].pc = "idle" /\ answer'[t].st = "ERROR"
  BY <1>1, <1>2, CallBegun DEF Payload
<1>5. /\ cmd' \in [Callers -> [pc : {"none", "lock", "ext", "extWait", "stdWait"},
                               id : 0 .. MaxValue]]
      /\ cmd'[t].pc = "extWait" /\ cmd'[t].id = cmd[t].id
      /\ \A u \in Callers \ {t} : cmd'[u] = cmd[u]
  BY <1>1, CmdGoes
<1>6. PostTypeOK'
  BY <1>1, <1>5 DEF PostTypeOK
<1>7. Turn'
  BY <1>1, <1>5 DEF PInv, PostInv, Turn
<1>8. InWrite(t)' /\ WritesTo(t)' = Ext(box) /\ Payload(t)' = Payload(t) /\ ~Sure(t)'
  BY <1>1, <1>4, <1>5 DEF InWrite, WritesTo, Payload, Sure
<1>9. PostInv'
  BY <1>1, <1>4, <1>5, <1>6, <1>7, <1>8, CmdKeeps
<1>. QED
  BY <1>3, <1>9 DEF PInv

\* A command that is given up, or done, forgets its answer and its box.
LEMMA CmdEndsKeep ==
  ASSUME PInv, NEW t \in Callers, cmd[t].pc \in {"extWait", "stdWait"}, call[t].pc = "idle",
         CmdEnds(t), box' \in 0 .. Boxes - 1,
         UNCHANGED <<mgrState, unsure, work, woken, snapshot, setUp, post, stop,
                     target, joinState, join, joining, joinTry, usb>>
  PROVE  PInv'
<1>. TypeOK /\ PostTypeOK
  BY DEF PInv, CInv, PostInv
<1>1. /\ UNCHANGED <<owner, call, doneSem, status, index, buffer, copies, wire, done, reg,
                     present, naks, fresh>>
      /\ answer' = [answer EXCEPT ![t] = NoAnswer] /\ mgrLock' = NoCaller
      /\ cmd' = [cmd EXCEPT ![t] = NoCmd]
  BY DEF CmdEnds, Forget, waitVars, deviceVars
<1>2. CInv'
  BY <1>1, Values, RestKeeps DEF PInv
<1>3. OnlyCall(t) /\ OnlyAnswer(t)
  BY <1>1, NoCallType DEF OnlyCall, OnlyAnswer, TypeOK
<1>4. /\ cmd' \in [Callers -> [pc : {"none", "lock", "ext", "extWait", "stdWait"},
                               id : 0 .. MaxValue]]
      /\ cmd'[t].pc = "none" /\ \A u \in Callers \ {t} : cmd'[u] = cmd[u]
  <2>1. NoCmd \in [pc : {"none", "lock", "ext", "extWait", "stdWait"}, id : 0 .. MaxValue]
        /\ NoCmd.pc = "none"
    BY ControlAssumption DEF NoCmd
  <2>. QED
    BY <1>1, <2>1 DEF PostTypeOK
<1>5. PostTypeOK'
  BY <1>1, <1>4 DEF PostTypeOK
<1>6. \A u \in Callers \ {t} : cmd[u].pc \notin {"ext", "extWait", "stdWait"}
  BY OneWriter
<1>7. Turn'
  BY <1>1, <1>4, <1>6 DEF PInv, PostInv, Turn
<1>8. ~InWrite(t)' /\ ~Sure(t)' /\ \A u \in Callers \ {t} : ~InWrite(u)
  BY <1>4, <1>6 DEF InWrite, Sure
<1>9. PostInv'
  BY <1>1, <1>3, <1>4, <1>5, <1>7, <1>8, CmdKeeps
<1>. QED
  BY <1>2, <1>9 DEF PInv

LEMMA StdStep ==
  ASSUME PInv, NEW t \in Callers, H2CStd(t)
  PROVE  PInv'
<1>. TypeOK /\ PostTypeOK
  BY DEF PInv, CInv, PostInv
<1>1. /\ cmd[t].pc = "extWait" /\ call[t].pc = "idle"
      /\ UNCHANGED <<mgrState, box, work, woken, snapshot, setUp, post, stop,
                     target, joinState, join, joining, joinTry, usb, fresh>>
  BY DEF H2CStd, Idle, At, workerVars, joinVars
<1>2. CASE answer[t].st = "OK"
  <2>1. /\ Call(t, "bounded", Std(box), cmd[t].id) /\ CmdGoto(t, "stdWait") /\ mgrLock' = mgrLock
        /\ unsure' = IF answer[t].clean THEN unsure ELSE unsure \cup {cmd[t].id}
    BY <1>2 DEF H2CStd, H2CWrite
  <2>2. "bounded" \in Kinds /\ Std(box) \in Addrs /\ cmd[t].id \in 0 .. MaxValue
    BY Places, Values DEF Kinds
  <2>3. CInv'
    BY <1>1, <2>1, <2>2, CallKeeps, Values DEF PInv
  <2>4. /\ OnlyCall(t) /\ OnlyAnswer(t) /\ UNCHANGED <<wire, reg, copies>>
        /\ \/ /\ call'[t].pc = "lock" /\ call'[t].kind = "bounded" /\ call'[t].addr = Std(box)
              /\ call'[t].word = Payload(t)
           \/ call' = call /\ call[t].pc = "idle"
    BY <2>1, <2>2, CallBegun DEF Payload
  <2>5. /\ cmd' \in [Callers -> [pc : {"none", "lock", "ext", "extWait", "stdWait"},
                                 id : 0 .. MaxValue]]
        /\ cmd'[t].pc = "stdWait" /\ cmd'[t].id = cmd[t].id
        /\ \A u \in Callers \ {t} : cmd'[u] = cmd[u]
    BY <2>1, CmdGoes
  <2>6. PostTypeOK'
    <3>1. cmd[t].id \in 1 .. MaxValue
      BY <1>1, <2>2 DEF PInv, PostInv, Turn
    <3>2. unsure' \subseteq 1 .. MaxValue
      BY <2>1, <3>1 DEF PostTypeOK
    <3>. QED
      BY <1>1, <2>1, <2>5, <3>2 DEF PostTypeOK
  <2>7. Turn'
    BY <1>1, <2>1, <2>5 DEF PInv, PostInv, Turn
  <2>8. InWrite(t)' /\ WritesTo(t)' = Std(box) /\ Payload(t)' = Payload(t)
    BY <1>1, <2>5 DEF InWrite, WritesTo, Payload
  <2>9. Sure(t)' => Loaded(box, Payload(t))'
    <3>1. ASSUME Sure(t)' PROVE Sure(t)
      <4>1. cmd[t].id \notin unsure'
        BY <2>5, <3>1 DEF Sure
      <4>. QED
        BY <1>1, <1>2, <2>1, <4>1 DEF Sure
    <3>. QED
      BY <1>1, <2>4, <2>8, <3>1 DEF PInv, PostInv, SureLoaded, Loaded
  <2>10. PostInv'
    BY <1>1, <2>1, <2>4, <2>5, <2>6, <2>7, <2>8, <2>9, CmdKeeps
  <2>. QED
    BY <2>3, <2>10 DEF PInv
<1>3. CASE answer[t].st # "OK"
  BY <1>1, <1>3, CmdEndsKeep DEF H2CStd, PostTypeOK
<1>. QED
  BY <1>2, <1>3

LEMMA DoneStep ==
  ASSUME PInv, NEW t \in Callers, H2CDone(t)
  PROVE  PInv'
<1>. PostTypeOK
  BY DEF PInv, PostInv
<1>1. box' \in 0 .. Boxes - 1
  BY PostAssocAssumption DEF H2CDone, NextBox, PostTypeOK
<1>. QED
  BY <1>1, CmdEndsKeep DEF H2CDone, Idle, At, workerVars, joinVars

LEMMA PostInitInv == Init => PInv
<1>. SUFFICES ASSUME Init PROVE PInv
  OBVIOUS
<1>1. CInv
  BY InitInv DEF Init
<1>2. /\ \A t \in Callers : call[t] = NoCall /\ answer[t] = NoAnswer /\ cmd[t] = NoCmd
      /\ DOMAIN wire = {} /\ Bounded(wire) = {}
  BY DEF Init, ControlInit, Bounded
<1>3. NoCmd.pc = "none" /\ NoCmd \in [pc : {"none", "lock", "ext", "extWait", "stdWait"},
                                      id : 0 .. MaxValue]
  BY ControlAssumption DEF NoCmd
<1>4. PostTypeOK
  <2>1. cmd \in [Callers -> [pc : {"none", "lock", "ext", "extWait", "stdWait"},
                             id : 0 .. MaxValue]]
    BY <1>3 DEF Init
  <2>2. 0 \in 0 .. MaxValue /\ 0 \in 0 .. Boxes - 1
    BY ControlAssumption, PostAssocAssumption
  <2>3. /\ mgrLock = NoCaller /\ mgrState = "Disconnected" /\ box = 0 /\ unsure = {}
        /\ work = "acquire" /\ woken = "OK" /\ snapshot = 0 /\ post = 0 /\ stop = FALSE
        /\ target = 0 /\ joinState = "Idle" /\ join = "idle" /\ joining = 0
        /\ joinTry = 0 /\ usb = "free" /\ setUp = 0
    BY DEF Init
  <2>4. box \in 0 .. Boxes - 1 /\ {snapshot, target, joining, setUp} \subseteq 0 .. MaxValue
    BY <2>2, <2>3
  <2>5. unsure \subseteq 1 .. MaxValue /\ joinTry \in 0 .. 2 /\ post \in Nat
    BY <2>3
  <2>6. stop \in BOOLEAN
    BY <2>3
  <2>. QED
    BY <2>1, <2>3, <2>4, <2>5, <2>6, Zenon DEF PostTypeOK
<1>5. Turn /\ Writing /\ OwnSays /\ SureLoaded /\ InLine
  BY <1>2, <1>3, NoCallType DEF Turn, Writing, OwnSays, SureLoaded, Sure, InLine
<1>. QED
  BY <1>1, <1>4, <1>5 DEF PInv, PostInv

LEMMA ControlStepKeeps ==
  ASSUME PInv, ControlStep
  PROVE  PInv'
<1>0. UNCHANGED postVars /\ CInv
  BY DEF ControlStep, PInv
<1>1. ASSUME NEW t \in Callers, CallStep(t) PROVE PInv'
  <2>1. CInv'
    BY <1>0, <1>1, TakeLockKeeps, DrainKeeps, QueueKeeps, AcquireKeeps, GiveUpKeeps, JudgeKeeps,
       RequestKeeps, RequestWithoutDeviceKeeps DEF CallStep
  <2>2. PostInv'
    BY <1>0, <1>1, TakeLockCmd, DrainCmd, QueueCmd, AcquireCmd, GiveUpCmd, JudgeCmd,
       RequestCmd, RequestWithoutDeviceCmd DEF CallStep
  <2>. QED
    BY <2>1, <2>2 DEF PInv
<1>2. ASSUME Execute \/ Deliver \/ Unplug PROVE PInv'
  <2>1. CInv'
    BY <1>0, <1>2, ExecuteKeeps, CallbackKeeps, SyncCompletesKeeps, UnplugKeeps DEF Deliver
  <2>2. PostInv'
    BY <1>0, <1>2, ExecuteCmd, CallbackCmd, SyncCompletesCmd, UnplugCmd DEF Deliver
  <2>. QED
    BY <2>1, <2>2 DEF PInv
<1>. QED
  BY <1>1, <1>2 DEF ControlStep, DeliverFree

LEMMA PostInductive == PInv /\ [Next]_vars => PInv'
<1>. SUFFICES ASSUME PInv, [Next]_vars PROVE PInv'
  OBVIOUS
<1>1. CASE ControlStep
  BY <1>1, ControlStepKeeps
<1>2. CASE WorkerStep
  BY <1>2, WorkerAside, AskSteps, BssidSteps DEF WorkerStep
<1>3. ASSUME NEW t \in Callers, H2CStep(t) PROVE PInv'
  BY <1>3, LockStep, ExtStep, StdStep, DoneStep DEF H2CStep
<1>4. CASE JoinBegin \/ JoinStep \/ Disconnect
  BY <1>4, JoinAside, AskSteps, BssidSteps DEF JoinStep
<1>5. CASE RxBeacon \/ RxAssocResponse \/ UsbStep \/ Shutdown
  BY <1>5, CallbackAside DEF UsbStep
<1>6. CASE UNCHANGED vars
  <2>1. UNCHANGED <<owner, call, answer, doneSem, status, index, buffer, copies, wire, done, reg,
                    present, naks, fresh, mgrLock, mgrState, box, cmd, unsure, work, woken,
                    snapshot, setUp, post, stop, target, joinState, join, joining, joinTry, usb>>
    BY <1>6 DEF vars, controlVars, postVars
  <2>2. PostTypeOK'
    BY <2>1 DEF PInv, PostInv, PostTypeOK
  <2>. QED
    BY <2>1, <2>2, Values, AsideKeeps
<1>. QED
  BY <1>1, <1>2, <1>3, <1>4, <1>5, <1>6 DEF Next

\* Only the oldest request changes a register, its own.
LEMMA Written ==
  ASSUME PInv, Next, NEW a \in Addrs, reg'[a] # reg[a]
  PROVE  /\ Execute /\ UNCHANGED postVars
         /\ \E r \in Requests :
              /\ wire # <<>> /\ r = Head(wire) /\ r.addr = a
              /\ reg' = [reg EXCEPT ![a] = IF r.kind = "bounded" THEN buffer[r.slot] ELSE r.word]
<1>1. CASE Execute /\ UNCHANGED postVars
  <2>1. PICK r \in Requests :
          /\ wire # <<>> /\ r = Head(wire)
          /\ \/ reg' = reg
             \/ reg' = [reg EXCEPT ![r.addr] =
                          IF r.kind = "bounded" THEN buffer[r.slot] ELSE r.word]
    BY <1>1, Executed DEF PInv
  <2>. QED
    BY <1>1, <2>1 DEF PInv, CInv, TypeOK
<1>2. ASSUME NEW t \in Callers, CallStep(t) PROVE reg' = reg
  BY <1>2 DEF CallStep, TakeLock, Drain, Queue, Acquire, GiveUp, Judge,
     Request, RequestWithoutDevice, deviceVars
<1>3. CASE Deliver \/ Unplug
  BY <1>3 DEF Deliver, ControlCallback, SyncCompletes, Unplug, deviceVars
<1>4. CASE WorkerStep
  BY <1>4 DEF WorkerStep, WorkAcquire, Woken, WorkSnapshot, WorkBssid, WorkRateInfo,
     WorkMediaStatus, WorkDone, Call, controlVars, deviceVars
<1>5. ASSUME NEW t \in Callers, H2CStep(t) PROVE reg' = reg
  BY <1>5 DEF H2CStep, H2CLock, H2CExt, H2CStd, H2CDone, H2CWrite, CmdEnds, Forget, FreshOnly,
     Call, deviceVars
<1>6. CASE JoinBegin \/ JoinStep \/ Disconnect
  BY <1>6 DEF JoinBegin, JoinStep, JoinWriteBssid, JoinReadBssid, JoinVerify, JoinCommit,
     DisconnectDone, Disconnect, FreshOnly, Forget, Call, controlVars, deviceVars
<1>7. CASE RxBeacon \/ RxAssocResponse \/ UsbStep \/ Shutdown
  BY <1>7 DEF RxBeacon, RxAssocResponse, UsbStep, UpdateBssEntry, MarkConnected, Shutdown,
     UsbUnchanged, controlVars
<1>. QED
  BY <1>1, <1>2, <1>3, <1>4, <1>5, <1>6, <1>7 DEF Next, ControlStep, DeliverFree

\* The worker, the joins and the commands keep their types; the box stays one
\* of the mailboxes.
THEOREM PostAssocTypes == Spec => []PostTypeOK
<1>1. PInv => PostTypeOK
  BY DEF PInv, PostInv
<1>. QED
  BY PostInitInv, PostInductive, <1>1, PTL DEF Spec

\* When the write of a command's standard register takes effect, the extended
\* register of the box holds the same command's payload (_SendH2CCommand),
\* for any number of boxes, buffers and attempts, with the exceptions the
\* property names.
THEOREM CommandsWhole == Spec => CommandWhole
<1>. DEFINE Whole == \A b \in 0 .. Boxes - 1 :
                       reg'[Std(b)] # reg[Std(b)] =>
                         \/ reg[Ext(b)] = reg'[Std(b)] \/ reg'[Std(b)][1] \in unsure
                         \/ copies - Head(wire).stamp >= Ring
<1>1. PInv /\ [Next]_vars => [Whole]_vars
  <2>. SUFFICES ASSUME PInv, Next, NEW b \in 0 .. Boxes - 1, reg'[Std(b)] # reg[Std(b)],
                       ~(copies - Head(wire).stamp >= Ring), reg'[Std(b)][1] \notin unsure
                PROVE  reg[Ext(b)] = reg'[Std(b)]
    OBVIOUS
  <2>1. PICK r \in Requests :
          /\ wire # <<>> /\ r = Head(wire) /\ r.addr = Std(b)
          /\ reg' = [reg EXCEPT ![Std(b)] =
                       IF r.kind = "bounded" THEN buffer[r.slot] ELSE r.word]
    BY Written, Apart
  <2>2. 1 \in DOMAIN wire /\ wire[1] = r
    BY <2>1, Tailed DEF PInv, CInv, TypeOK
  <2>3. 1 \in Bounded(wire)
    BY <2>1, <2>2, SyncIsBssid, Apart
  <2>4. buffer[r.slot] = r.word
    <3>1. copies - r.stamp < Ring
      BY <2>1, ControlAssumption DEF PInv, CInv, TypeOK, Requests
    <3>. QED
      BY <2>2, <2>3, <3>1 DEF PInv, CInv, RingInv, Behind
  <2>5. reg'[Std(b)] = r.word
    BY <2>1, <2>2, <2>3, <2>4, Apart DEF PInv, CInv, TypeOK, Bounded
  <2>. QED
    BY <2>1, <2>2, <2>3, <2>5 DEF PInv, PostInv, InLine, Backed
<1>. QED
  BY PostInitInv, PostInductive, <1>1, PTL DEF Spec, CommandWhole

=============================================================================
