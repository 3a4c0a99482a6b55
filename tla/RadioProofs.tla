---------------------------- MODULE RadioProofs ----------------------------
(* Theorems about the chip's channel.  First Scan, which moves it: types, the *)
(* reaping of the notifier and where the chip is between sweeps, for any      *)
(* number of requesters, channels, threads and faults.  Then Phy, which sets  *)
(* it: types, that a call that loses nothing leaves every path the indices of *)
(* the tables, and that the registers are what the driver believes, in the    *)
(* middle of a call as far as its steps have come, for any number of paths    *)
(* and callers, any EFUSE, any channels of the two lists and any losses.      *)
EXTENDS Scan, Phy, SequenceTheorems, TLAPS

-----------------------------------------------------------------------------
(* Types.  A sweep sets the chip to the channel it is at and, at its end,   *)
(* to the one it began on: that these are channels is part of the           *)
(* induction, as is that a requester resumes a thread it has spawned.       *)

SweepingAChannel ==
  \A t \in ThreadIds : sweep[t].pc \in {"hop", "return"} =>
    sweep[t].next >= 1 /\ sweep[t].back \in ChannelIds

HasSpawned ==
  \A r \in Requesters : request[r].pc \in {"publish", "resume"} =>
    request[r].thread \in ThreadIds

ScanTypeInv == ScanTypeOK /\ SweepingAChannel /\ HasSpawned

\* The program starts in a state of the right types.
LEMMA ScanInitType == ScanInit => ScanTypeInv
<1> SUFFICES ASSUME ScanInit PROVE ScanTypeInv
  OBVIOUS
<1>1. 1 \in ChannelIds /\ 0 \in 0 .. SweepLength
  BY ScanAssumption DEF ScanAssumption, ChannelIds
<1>2. ScanTypeOK
  BY <1>1, ScanAssumption DEF ScanAssumption, ScanInit, ScanTypeOK, NoSweep
<1>3. SweepingAChannel /\ HasSpawned
  BY DEF ScanInit, SweepingAChannel, HasSpawned, NoSweep
<1> QED
  BY <1>2, <1>3 DEF ScanTypeInv

\* Every step of a requester keeps the types.
LEMMA RequestType ==
  ASSUME ScanTypeInv, NEW r \in Requesters, Request(r)
  PROVE  ScanTypeInv'
<1> USE DEF ScanTypeInv, ScanTypeOK, SweepingAChannel, HasSpawned, RequestAt, Fault,
            chipVars, downVars
<1>1. CASE RequestCheck(r)
  BY <1>1 DEF RequestCheck
<1>2. CASE RequestStart(r)
  <2>1. CASE RequestAt(r, "start", "send") /\ state' = "Scanning"
    BY <1>2, <2>1, ZenonT(30) DEF RequestStart
  <2>2. CASE RequestAt(r, "start", "idle") /\ UNCHANGED state
    BY <1>2, <2>2 DEF RequestStart
  <2> QED
    BY <1>2, <2>1, <2>2 DEF RequestStart
<1>3. CASE RequestSend(r)
  BY <1>3 DEF RequestSend
<1>4. CASE RequestSpawn(r)
  BY <1>4, SMTT(30) DEF RequestSpawn, SweepAt
<1>5. CASE RequestPublish(r)
  BY <1>5 DEF RequestPublish
<1>6. CASE RequestResume(r)
  BY <1>6 DEF RequestResume
<1> QED
  BY <1>1, <1>2, <1>3, <1>4, <1>5, <1>6 DEF Request

\* Every step of a notifier thread keeps the types.
LEMMA NotifierType ==
  ASSUME ScanTypeInv, NEW t \in ThreadIds, Notifier(t)
  PROVE  ScanTypeInv'
<1> USE DEF ScanTypeInv, ScanTypeOK, SweepingAChannel, HasSpawned, Goto, Fault,
            SweepOnly, downVars, NoSweep
<1>1. CASE SweepCheck(t)
  BY <1>1, ScanAssumption DEF SweepCheck, ScanAssumption
<1>2. CASE SweepBegin(t)
  BY <1>2, ScanAssumption DEF SweepBegin, ChannelIds, ScanAssumption
<1>3. CASE SweepHop(t)
  BY <1>3, ScanAssumption DEF SweepHop, MoreChannels, ChannelIds, ScanAssumption
<1>4. CASE SweepReturn(t)
  <2>1. CASE UNCHANGED <<astray, faults>>
    <3>1. channel' \in ChannelIds
      BY <1>4, <2>1 DEF SweepReturn, ReturnTo
    <3>. QED
      BY <1>4, <2>1, <3>1, ScanAssumption DEF SweepReturn, ScanAssumption
  <2>2. CASE Fault /\ astray' = TRUE /\ UNCHANGED channel
    BY <1>4, <2>2, ScanAssumption DEF SweepReturn, ScanAssumption
  <2>. QED
    BY <1>4, <2>1, <2>2 DEF SweepReturn
<1>5. CASE SweepFinish(t)
  BY <1>5, ScanAssumption DEF SweepFinish, ScanAssumption
<1>6. CASE SweepClear(t)
  BY <1>6, ScanAssumption DEF SweepClear, ScanAssumption
<1> QED
  BY <1>1, <1>2, <1>3, <1>4, <1>5, <1>6 DEF Notifier

\* Every step of anyone keeps the types.
LEMMA ScanStepType == ScanTypeInv /\ [ScanNext]_scanVars => ScanTypeInv'
<1> SUFFICES ASSUME ScanTypeInv, [ScanNext]_scanVars PROVE ScanTypeInv'
  OBVIOUS
<1> USE DEF ScanTypeInv, ScanTypeOK, SweepingAChannel, HasSpawned, ElseOnly,
            reqVars, chipVars, downVars
<1>1. ASSUME NEW r \in Requesters, Request(r) PROVE ScanTypeInv'
  BY <1>1, RequestType
<1>2. ASSUME NEW t \in ThreadIds, Notifier(t) PROVE ScanTypeInv'
  BY <1>2, NotifierType
<1>3. CASE ScanGoesStale
  BY <1>3 DEF ScanGoesStale
<1>4. ASSUME NEW c \in ChannelIds, JoinPark(c) PROVE ScanTypeInv'
  <2>1. astray' \in BOOLEAN /\ joining' \in BOOLEAN
    BY <1>4, Zenon DEF JoinPark
  <2>2. /\ channel' \in ChannelIds /\ parked' \in ChannelIds /\ faults' \in Nat
        /\ UNCHANGED <<state, notifier, request, crowded, sweep, removed, teardown, reaped>>
    BY <1>4 DEF JoinPark, Fault
  <2>. QED
    BY <2>1, <2>2
<1>5. CASE JoinConnect
  BY <1>5 DEF JoinConnect
<1>6. CASE Disconnect
  BY <1>6 DEF Disconnect
<1>7. CASE FirmwareEvent
  BY <1>7 DEF FirmwareEvent, InScan
<1>8. CASE Unplug
  BY <1>8 DEF Unplug
<1>9. CASE ShutdownReap
  BY <1>9 DEF ShutdownReap
<1>10. CASE ShutdownDelete
  BY <1>10 DEF ShutdownDelete
<1>11. CASE UNCHANGED scanVars
  BY <1>11 DEF scanVars
<1> QED
  BY <1>1, <1>2, <1>3, <1>4, <1>5, <1>6, <1>7, <1>8, <1>9, <1>10, <1>11 DEF ScanNext

\* ScanTypeInv holds in every state.
LEMMA ScanTypeInvHolds == ScanSpec => []ScanTypeInv
<1> QED
  BY ScanInitType, ScanStepType, PTL DEF ScanSpec

\* Type correctness of scanning: the chip is only ever set to a channel of the
\* list, and a published thread id is one that was spawned.
THEOREM ScanTypeCorrect == ScanSpec => []ScanTypeOK
<1>1. ScanTypeInv => ScanTypeOK
  BY DEF ScanTypeInv
<1> QED
  BY <1>1, ScanTypeInvHolds, PTL

-----------------------------------------------------------------------------
(* The destructor leaves no notifier behind, unless two requests crossed.   *)
(* NotifierReaped is not inductive: that the id read by the destructor is   *)
(* the one of the thread still running depends on how the id was published, *)
(* and that on the request having been alone since its check.               *)

Live(t) == sweep[t].pc # "none"

NoneLive == \A t \in ThreadIds : ~Live(t)

OnlyLive(t) == \A u \in ThreadIds : Live(u) => u = t

Busy(r) == request[r].pc # "idle"

\* A request past the check is the only one, and makes the only notifier.
RequestAlone ==
  \A r \in Requesters : Busy(r) =>
    /\ \A q \in Requesters : Busy(q) => q = r
    /\ request[r].pc \in {"start", "send", "spawn"} => NoneLive
    /\ request[r].pc \in {"publish", "resume"} =>
         /\ OnlyLive(request[r].thread)
         /\ sweep[request[r].thread].pc = "suspended"
    /\ request[r].pc = "resume" => notifier = request[r].thread

AllIdle == \A r \in Requesters : ~Busy(r)

\* The id is that of the live notifier, when nobody is requesting one.
IdIsKnown == teardown = "no" /\ AllIdle => OnlyLive(notifier)

\* The destructor waits for the live notifier.
ReapsTheLive ==
  /\ teardown # "no" => OnlyLive(reaped)
  /\ teardown = "gone" => NoneLive

\* The destructor runs with nobody in a call.
TeardownAlone == teardown # "no" => removed /\ AllIdle

ReapInv == TeardownAlone /\ (~crowded => RequestAlone /\ IdIsKnown /\ ReapsTheLive)

\* No thread has been spawned when the program starts.
LEMMA ReapInit == ScanInit => ReapInv
<1> SUFFICES ASSUME ScanInit PROVE ReapInv
  OBVIOUS
<1>1. NoneLive
  BY DEF ScanInit, NoSweep, Live, NoneLive
<1>2. teardown = "no" /\ AllIdle
  BY DEF ScanInit, AllIdle, Busy
<1> QED
  BY <1>1, <1>2 DEF ReapInv, RequestAlone, IdIsKnown, ReapsTheLive, TeardownAlone, OnlyLive,
                    NoneLive, AllIdle

\* What is true of no thread is no thread's id.
LEMMA NoThreadId == NoThread \notin ThreadIds
<1> QED
  BY ScanAssumption DEF ScanAssumption, NoThread, ThreadIds

\* A request that finds nobody at it begins alone: whatever crowd there was has
\* gone.
LEMMA CheckReap ==
  ASSUME ScanTypeInv, ReapInv, NEW r \in Requesters, RequestCheck(r)
  PROVE  ReapInv'
<1>1. /\ request[r].pc = "idle" /\ request' = [request EXCEPT ![r].pc = "start"]
      /\ ~removed /\ UNCHANGED <<sweep, notifier, removed, teardown, reaped>>
  BY DEF RequestCheck, RequestAt, downVars
<1>2. teardown = "no"
  BY <1>1 DEF ReapInv, TeardownAlone
<1>3. ASSUME ~crowded'
      PROVE  NoneLive' /\ \A q \in Requesters : q # r => ~Busy(q)
  BY <1>1, <1>3 DEF RequestCheck, SweepAt, NoneLive, Live, Busy
<1>4. /\ request'[r].pc = "start"
      /\ \A q \in Requesters : q # r => request'[q] = request[q]
  BY <1>1 DEF ScanTypeInv, ScanTypeOK
<1>5. ~AllIdle'
  BY <1>4 DEF AllIdle, Busy
<1>6. ~crowded' => RequestAlone'
  BY <1>3, <1>4 DEF RequestAlone, Busy
<1> QED
  BY <1>1, <1>2, <1>5, <1>6 DEF ReapInv, IdIsKnown, ReapsTheLive, TeardownAlone

\* Every later step of a request that is alone keeps the notifier known.
LEMMA RequestReap ==
  ASSUME ScanTypeInv, ReapInv, NEW r \in Requesters, Request(r)
  PROVE  ReapInv'
<1>1. CASE RequestCheck(r)
  BY <1>1, CheckReap
<1>2. CASE ~RequestCheck(r)
  <2>1. /\ UNCHANGED <<crowded, removed, teardown, reaped>>
        /\ Busy(r) /\ \A q \in Requesters : q # r => request'[q] = request[q]
    BY <1>2 DEF Request, RequestStart, RequestSend, RequestSpawn, RequestPublish, RequestResume,
                RequestAt, Busy, downVars, ScanTypeInv, ScanTypeOK
  <2>2. teardown = "no"
    BY <2>1 DEF ReapInv, TeardownAlone, AllIdle
  <2>. SUFFICES ASSUME ~crowded PROVE RequestAlone' /\ IdIsKnown'
    BY <2>1, <2>2 DEF ReapInv, TeardownAlone, ReapsTheLive
  <2>3. \A q \in Requesters : q # r => ~Busy(q) /\ ~Busy(q)'
    BY <2>1 DEF ReapInv, RequestAlone, Busy
  <2>4. RequestAlone
    BY DEF ReapInv
  <2> USE DEF RequestAlone, IdIsKnown, AllIdle, OnlyLive, NoneLive, Live, Busy,
              RequestAt, ScanTypeInv, ScanTypeOK, HasSpawned
  <2>5. CASE RequestStart(r)
    <3>1. CASE RequestAt(r, "start", "send")
      BY <2>3, <2>4, <2>5, <3>1 DEF RequestStart
    <3>2. CASE RequestAt(r, "start", "idle")
      BY <2>3, <2>4, <2>5, <3>2 DEF RequestStart
    <3> QED
      BY <2>5, <3>1, <3>2 DEF RequestStart
  <2>6. CASE RequestSend(r)
    BY <2>3, <2>4, <2>6 DEF RequestSend
  <2>7. CASE RequestSpawn(r)
    BY <2>3, <2>4, <2>7 DEF RequestSpawn, SweepAt
  <2>8. CASE RequestPublish(r)
    BY <2>3, <2>4, <2>8 DEF RequestPublish
  <2>9. CASE RequestResume(r)
    BY <2>3, <2>4, <2>9 DEF RequestResume
  <2> QED
    BY <1>2, <2>5, <2>6, <2>7, <2>8, <2>9 DEF Request
<1> QED
  BY <1>1, <1>2

\* Every step of a notifier keeps it known, until it ends.
LEMMA NotifierReap ==
  ASSUME ScanTypeInv, ReapInv, NEW t \in ThreadIds, Notifier(t)
  PROVE  ReapInv'
<1>1. UNCHANGED <<request, crowded, removed, teardown, reaped>>
  BY DEF Notifier, SweepCheck, SweepBegin, SweepHop, SweepReturn, SweepFinish, SweepClear,
         SweepOnly, downVars
<1>2. /\ Live(t) /\ sweep[t].pc # "suspended" /\ sweep'[t].pc # "suspended"
      /\ \A u \in ThreadIds : u # t => sweep'[u] = sweep[u]
  BY DEF Notifier, SweepCheck, Runs, SweepBegin, SweepHop, SweepReturn, SweepFinish, SweepClear,
         Goto, NoSweep, Live, ScanTypeInv, ScanTypeOK
<1>3. UNCHANGED notifier \/ (~Live(t))'
  BY DEF Notifier, SweepCheck, SweepBegin, SweepHop, SweepReturn, SweepFinish, SweepClear,
         NoSweep, Live, ScanTypeInv, ScanTypeOK
<1>4. UNCHANGED <<AllIdle, TeardownAlone>>
  BY <1>1 DEF AllIdle, TeardownAlone, Busy
<1>. SUFFICES ASSUME ~crowded PROVE RequestAlone' /\ IdIsKnown' /\ ReapsTheLive'
  BY <1>1, <1>4 DEF ReapInv
<1>5. AllIdle
  <2>. SUFFICES ASSUME NEW r \in Requesters, Busy(r) PROVE FALSE
    BY DEF AllIdle
  <2>1. /\ request[r].pc \notin {"start", "send", "spawn"}
        /\ request[r].pc \notin {"publish", "resume"}
    BY <1>2 DEF ReapInv, RequestAlone, NoneLive, OnlyLive
  <2>. QED
    BY <2>1 DEF ScanTypeInv, ScanTypeOK, Busy
<1>6. RequestAlone'
  BY <1>1, <1>5 DEF RequestAlone, AllIdle, Busy
<1>7. \A u \in ThreadIds : Live(u)' => Live(u)
  BY <1>2 DEF Live
<1>8. IdIsKnown'
  BY <1>1, <1>2, <1>3, <1>4, <1>5, <1>7 DEF ReapInv, IdIsKnown, OnlyLive
<1>9. ReapsTheLive'
  BY <1>1, <1>7 DEF ReapInv, ReapsTheLive, OnlyLive, NoneLive
<1> QED
  BY <1>6, <1>8, <1>9

\* Every step of anyone keeps the notifier known.
LEMMA ReapStep == ScanTypeInv /\ ReapInv /\ [ScanNext]_scanVars => ReapInv'
<1> SUFFICES ASSUME ScanTypeInv, ReapInv, [ScanNext]_scanVars PROVE ReapInv'
  OBVIOUS
<1> USE DEF ReapInv, RequestAlone, IdIsKnown, ReapsTheLive, TeardownAlone, OnlyLive, NoneLive,
            AllIdle, Live, Busy
<1>1. ASSUME NEW r \in Requesters, Request(r) PROVE ReapInv'
  BY <1>1, RequestReap
<1>2. ASSUME NEW t \in ThreadIds, Notifier(t) PROVE ReapInv'
  BY <1>2, NotifierReap
<1>3. ASSUME NEW c \in ChannelIds, JoinPark(c) PROVE ReapInv'
  BY <1>3 DEF JoinPark, reqVars, downVars
<1>4. CASE ScanGoesStale \/ JoinConnect \/ Disconnect \/ FirmwareEvent \/ UNCHANGED scanVars
  <2>1. UNCHANGED <<notifier, request, crowded, sweep, removed, teardown, reaped>>
    BY <1>4 DEF ScanGoesStale, JoinConnect, Disconnect, FirmwareEvent, scanVars, ElseOnly,
                reqVars, downVars
  <2>. QED
    BY <2>1
<1>5. CASE Unplug
  BY <1>5 DEF Unplug, reqVars
<1>6. CASE ShutdownReap
  BY <1>6 DEF ShutdownReap
<1>7. CASE ShutdownDelete
  BY <1>7, NoThreadId DEF ShutdownDelete, WaitedFor, reqVars
<1> QED
  BY <1>1, <1>2, <1>3, <1>4, <1>5, <1>6, <1>7 DEF ScanNext

\* When the destructor deletes the manager no notifier thread is left to use it,
\* however many threads request scans, unless the last request had met another
\* one or a notifier still at it: two that cross at the check can leave a thread
\* behind (README, disagreements), and the next one that is alone mends that.
THEOREM Reaped == ScanSpec => []NotifierReaped
<1>1. ReapInv => NotifierReaped
  <2> SUFFICES ASSUME ReapInv, teardown = "gone", ~crowded
               PROVE  SweepAt({"none"}) = ThreadIds
    BY DEF NotifierReaped
  <2>1. \A t \in ThreadIds : sweep[t].pc = "none"
    BY DEF ReapInv, ReapsTheLive, NoneLive, Live
  <2> QED
    BY <2>1 DEF SweepAt
<1>2. ReapInv /\ ScanTypeInv /\ [ScanNext]_scanVars => ReapInv'
  BY ReapStep
<1> QED
  BY <1>1, <1>2, ReapInit, ScanTypeInvHolds, PTL DEF ScanSpec

-----------------------------------------------------------------------------
(* Between sweeps the chip is where the last join left it.                  *)

\* While nothing has led the chip astray there is one sweep at a time, it
\* returns to the channel of the last join, and the chip is on that one while
\* there is none.
ParkInv ==
  ~astray /\ ~removed =>
    /\ \A t, u \in Sweeping : t = u
    /\ \A t \in Sweeping : sweep[t].back = parked
    /\ Sweeping = {} => channel = parked

\* Requests leave the sweeps alone.
LEMMA RequestPark ==
  ASSUME ScanTypeInv, ParkInv, NEW r \in Requesters, Request(r)
  PROVE  ParkInv'
<1>. ScanTypeOK /\ HasSpawned
  BY DEF ScanTypeInv
<1>1. UNCHANGED <<channel, parked, astray, removed>>
  BY DEF Request, RequestCheck, RequestStart, RequestSend, RequestSpawn, RequestPublish,
         RequestResume, chipVars, downVars
<1>2. ASSUME NEW t \in ThreadIds
      PROVE  \/ sweep'[t] = sweep[t]
             \/ sweep[t].pc \notin {"hop", "return"} /\ sweep'[t].pc \notin {"hop", "return"}
  <2>1. CASE RequestSpawn(r)
    BY <2>1 DEF RequestSpawn, SweepAt, ScanTypeOK
  <2>2. CASE RequestResume(r)
    BY <2>2 DEF RequestResume, ScanTypeOK, HasSpawned
  <2>3. CASE UNCHANGED sweep
    BY <2>3
  <2>. QED
    BY <2>1, <2>2, <2>3 DEF Request, RequestCheck, RequestStart, RequestSend, RequestPublish
<1>3. Sweeping' = Sweeping /\ \A t \in Sweeping : sweep'[t] = sweep[t]
  BY <1>2 DEF Sweeping, SweepAt
<1>. QED
  BY <1>1, <1>3 DEF ParkInv

\* A sweep begins on the channel the chip is on and ends there.
LEMMA NotifierPark ==
  ASSUME ScanTypeInv, ParkInv, NEW t \in ThreadIds, Notifier(t)
  PROVE  ParkInv'
<1>. ScanTypeOK
  BY DEF ScanTypeInv
<1>. USE DEF Goto, SweepOnly, NoSweep, downVars
<1>1. UNCHANGED <<parked, removed>> /\ (astray => astray')
  BY DEF Notifier, SweepCheck, SweepBegin, SweepHop, SweepReturn, SweepFinish, SweepClear,
         ScanTypeOK
<1>2. \A u \in ThreadIds : u # t => sweep'[u] = sweep[u]
  BY DEF Notifier, SweepCheck, SweepBegin, SweepHop, SweepReturn, SweepFinish, SweepClear,
         ScanTypeOK
<1>. SUFFICES ASSUME ~astray, ~astray', ~removed, ~removed'
              PROVE  /\ \A x, u \in Sweeping' : x = u
                     /\ \A u \in Sweeping' : sweep'[u].back = parked
                     /\ Sweeping' = {} => channel' = parked
  BY <1>1 DEF ParkInv
<1>3. /\ \A x, u \in Sweeping : x = u
      /\ \A u \in Sweeping : sweep[u].back = parked
      /\ Sweeping = {} => channel = parked
  BY DEF ParkInv
<1>4. CASE SweepBegin(t)
  <2>1. Sweeping = {} /\ Sweeping' = {t} /\ sweep'[t].back = channel
    BY <1>2, <1>4 DEF SweepBegin, Sweeping, SweepAt, ScanTypeOK
  <2>. QED
    BY <1>3, <2>1
<1>5. CASE SweepHop(t)
  <2>1. /\ t \in Sweeping /\ Sweeping' = Sweeping
        /\ sweep'[t].back = sweep[t].back
    BY <1>2, <1>5 DEF SweepHop, Sweeping, SweepAt, ScanTypeOK
  <2>. QED
    BY <1>2, <1>3, <2>1 DEF Sweeping, SweepAt
<1>6. CASE SweepReturn(t)
  <2>1. t \in Sweeping /\ Sweeping' = Sweeping \ {t}
    BY <1>2, <1>6 DEF SweepReturn, Sweeping, SweepAt, ScanTypeOK
  <2>2. channel' = sweep[t].back
    BY <1>6 DEF SweepReturn, ReturnTo
  <2>. QED
    BY <1>3, <2>1, <2>2
<1>7. CASE SweepCheck(t) \/ SweepFinish(t) \/ SweepClear(t)
  <2>1. Sweeping' = Sweeping /\ t \notin Sweeping /\ UNCHANGED channel
    BY <1>2, <1>7 DEF SweepCheck, Runs, SweepFinish, SweepClear, Sweeping, SweepAt, ScanTypeOK
  <2>. QED
    BY <1>2, <1>3, <2>1 DEF Sweeping, SweepAt
<1>. QED
  BY <1>4, <1>5, <1>6, <1>7 DEF Notifier

LEMMA ParkStep == ScanTypeInv /\ ParkInv /\ [ScanNext]_scanVars => ParkInv'
<1>. SUFFICES ASSUME ScanTypeInv, ParkInv, [ScanNext]_scanVars PROVE ParkInv'
  OBVIOUS
<1>1. ASSUME NEW r \in Requesters, Request(r) PROVE ParkInv'
  BY <1>1, RequestPark
<1>2. ASSUME NEW t \in ThreadIds, Notifier(t) PROVE ParkInv'
  BY <1>2, NotifierPark
<1>3. ASSUME NEW c \in ChannelIds, JoinPark(c) PROVE ParkInv'
  <2>1. Sweeping' = Sweeping
    BY <1>3 DEF JoinPark, Sweeping, SweepAt
  <2>2. astray' \/ (Sweeping = {} /\ channel' = c /\ parked' = c)
    BY <1>3 DEF JoinPark
  <2>. QED
    BY <2>1, <2>2 DEF ParkInv
<1>4. CASE \/ ScanGoesStale \/ JoinConnect \/ Disconnect \/ FirmwareEvent \/ Unplug
           \/ ShutdownReap \/ ShutdownDelete \/ UNCHANGED scanVars
  <2>1. UNCHANGED <<channel, parked, astray, sweep>> /\ removed' \in {removed, TRUE}
    BY <1>4 DEF ScanGoesStale, JoinConnect, Disconnect, FirmwareEvent, Unplug, ShutdownReap,
                ShutdownDelete, scanVars, ElseOnly, reqVars, chipVars, downVars
  <2>. QED
    BY <2>1 DEF ParkInv, Sweeping, SweepAt
<1>. QED
  BY <1>1, <1>2, <1>3, <1>4 DEF ScanNext

\* Between two sweeps the chip is on the channel the last join chose: _ScanSweep
\* puts it back, however requests, joins, disconnections and firmware events fall
\* together and whatever channels could not be set.  A join in the middle of a
\* sweep, two sweeps at once, and a return or a join that cannot tune undo that
\* until a join next parks the chip between sweeps.
THEOREM ParkedBetween == ScanSpec => []ParkedBetweenSweeps
<1>1. ScanInit => ParkInv
  BY DEF ScanInit, ParkInv, NoSweep, Sweeping, SweepAt
<1>2. ScanTypeInv /\ ParkInv /\ [ScanNext]_scanVars => ParkInv'
  BY ParkStep
<1>3. ParkInv => ParkedBetweenSweeps
  BY DEF ParkInv, ParkedBetweenSweeps
<1>. QED
  BY <1>1, <1>2, <1>3, ScanTypeInvHolds, PTL DEF ScanSpec

-----------------------------------------------------------------------------

Listed == Channels \union {1}
WidthValues == Widths \union {20}
Gains == 1 .. IndexMax
PowerValues == 0 .. 255 \union {Unset}

CallValues ==
  [pc : {"idle", "run"}, channel : Listed, width : WidthValues, switch : BOOLEAN,
   at : Nat \ {0}, held : SynthValues, alone : BOOLEAN, clean : BOOLEAN, seen : BOOLEAN]

CallTypes ==
  /\ call \in [Callers -> CallValues]
  /\ \A c \in Callers : /\ call[c].at <= Len(Steps(call[c])) + 1
                        /\ call[c].pc = "run" => up

\* TypeOK, with what a step needs of it: a call is a record, and runs on an
\* initialised radio only, in whose table the power indices are gains.
TypeInv ==
  /\ up \in BOOLEAN /\ spoiled \in BOOLEAN
  /\ table \in [PathIds -> [PowerGroups -> 0 .. 255]]
  /\ believed \in [channel : Listed, band : {Band2G, Band5G}, width : WidthValues]
  /\ DOMAIN chip = Registers
  /\ synth \in [PathIds -> SynthValues]
  /\ power \in [PathIds -> SUBSET PowerValues]
  /\ CallTypes
  /\ calls \in 0 .. MaxCalls /\ lost \in 0 .. MaxLost
  /\ up => table \in [PathIds -> [PowerGroups -> Gains]]

------------------------------------------------------------------------------
(* The data a channel asks for.                                            *)

\* A channel of the lists has a number.
LEMMA ChannelNumbers == \A ch \in Listed : ch \in 1 .. 177
<1>1. \A i \in 1 .. 14 : i \in 1 .. 177
  OBVIOUS
<1>2. \A i \in 1 .. 28 : List5G[i] \in 1 .. 177
  BY DEF List5G
<1>3. DOMAIN List2G = 1 .. 14 /\ DOMAIN List5G = 1 .. 28
  BY DEF List2G, List5G
<1>. QED
  <2>1. \A ch \in ToSet(List2G) \union ToSet(List5G) : ch \in 1 .. 177
    BY <1>1, <1>2, <1>3 DEF ToSet, List2G
  <2>2. 1 \in 1 .. 177
    OBVIOUS
  <2>. QED
    BY <2>1, <2>2, PhyAssumption DEF Listed

\* Every channel of the lists falls in a power group.
LEMMA GroupOf == \A ch \in Listed : GroupIndex(ch) \in PowerGroups
<1>. SUFFICES ASSUME NEW ch \in Listed  PROVE GroupIndex(ch) \in PowerGroups
  OBVIOUS
<1>1. ch \in 1 .. 177
  BY ChannelNumbers
<1>2. CASE ch <= 14
  BY <1>1, <1>2 DEF GroupIndex, PowerGroups, Groups2G, Groups5G
<1>3. CASE ch > 14 /\ ch \in ToSet(List5G)
  <2>. DEFINE i == CHOOSE i \in DOMAIN List5G : List5G[i] = ch
  <2>1. \E j \in DOMAIN List5G : List5G[j] = ch
    BY <1>3 DEF ToSet
  <2>2. i \in DOMAIN List5G
    BY <2>1
  <2>3. i \in 1 .. 28
    BY <2>2 DEF List5G
  <2>4. GroupIndex(ch) = Groups2G + (i - 1) \div 2
    BY <1>1, <1>3 DEF GroupIndex
  <2>. HIDE DEF i
  <2>. QED
    BY <2>3, <2>4 DEF PowerGroups, Groups2G, Groups5G
<1>4. CASE ch > 14 /\ ch \notin ToSet(List5G)
  BY <1>1, <1>4 DEF GroupIndex, PowerGroups, Groups2G, Groups5G
<1>. QED
  BY <1>1, <1>2, <1>3, <1>4

\* An index the driver keeps is a gain.
LEMMA UsableIsGain ==
  ASSUME NEW byte \in 0 .. 255, NEW g \in PowerGroups
  PROVE  UsableIndex(byte, g) \in Gains
BY DEF UsableIndex, Gains, IndexMax, Default2G, Default5G, Groups2G, PowerGroups, Groups5G

\* A step of a program.
PathKinds == {"tune", "read", "narrow", "power"}
Step == (Registers \X {0}) \union (PathKinds \X PathIds)

LEMMA SequenceOf ==
  ASSUME NEW n \in Nat, NEW S, NEW f \in [1 .. n -> S]
  PROVE  f \in Seq(S)
BY SeqDef

\* What each part of a program says of a step's kind, and which steps it has.
OfKind(s, K) == \A i \in 1 .. Len(s) : s[i][1] \in K
Has(s, x) == \E i \in 1 .. Len(s) : s[i] = x

\* What is written back to a synthesizer was read from it by the step before.
Paired(s) ==
  \A i \in 1 .. Len(s), p \in PathIds :
    s[i] = <<"narrow", p>> => i > 1 /\ s[i - 1] = <<"read", p>>

LEMMA EveryPathSteps ==
  ASSUME NEW kind \in PathKinds
  PROVE  /\ EveryPath(kind) \in Seq(Step) /\ OfKind(EveryPath(kind), {kind})
         /\ \A p \in PathIds : Has(EveryPath(kind), <<kind, p>>)
<1>1. EveryPath(kind) \in [1 .. Paths -> Step]
  BY DEF EveryPath, PathIds, Step
<1>2. Paths \in Nat
  BY PhyAssumption
<1>3. EveryPath(kind) \in Seq(Step)
  BY <1>1, <1>2, SequenceOf
<1>4. Len(EveryPath(kind)) = Paths
  BY <1>1, <1>2, <1>3, LenProperties
<1>. QED
  BY <1>2, <1>3, <1>4 DEF EveryPath, OfKind, Has, PathIds

LEMMA NarrowingSteps ==
  /\ Narrowing \in Seq(Step) /\ OfKind(Narrowing, {"read", "narrow"})
  /\ \A p \in PathIds : Has(Narrowing, <<"narrow", p>>)
  /\ Paired(Narrowing)
<1>. DEFINE e(i) == <<IF i % 2 = 1 THEN "read" ELSE "narrow", (i + 1) \div 2>>
<1>1. 2 * Paths \in Nat /\ Paths \in Nat
  BY PhyAssumption
<1>2. ASSUME NEW i \in 1 .. 2 * Paths  PROVE e(i) \in Step
  <2>1. (i + 1) \div 2 \in PathIds
    BY <1>1, PhyAssumption DEF PathIds
  <2>2. (IF i % 2 = 1 THEN "read" ELSE "narrow") \in PathKinds
    BY DEF PathKinds
  <2>. QED
    BY <2>1, <2>2 DEF Step
<1>3. Narrowing \in [1 .. 2 * Paths -> Step]
  BY <1>2 DEF Narrowing
<1>4. Narrowing \in Seq(Step)
  BY <1>1, <1>3, SequenceOf
<1>5. Len(Narrowing) = 2 * Paths
  BY <1>1, <1>3, <1>4, LenProperties
<1>6. \A i \in 1 .. 2 * Paths : Narrowing[i] = e(i)
  BY DEF Narrowing
<1>7. OfKind(Narrowing, {"read", "narrow"})
  BY <1>5, <1>6 DEF OfKind
<1>8. ASSUME NEW p \in PathIds  PROVE Has(Narrowing, <<"narrow", p>>)
  <2>1. 2 * p \in 1 .. 2 * Paths /\ (2 * p) % 2 = 0 /\ (2 * p + 1) \div 2 = p
    BY <1>1 DEF PathIds
  <2>2. Narrowing[2 * p] = <<"narrow", p>>
    BY <1>6, <2>1
  <2>. QED
    BY <1>5, <2>1, <2>2 DEF Has
<1>9. Paired(Narrowing)
  <2>. SUFFICES ASSUME NEW i \in 1 .. 2 * Paths, NEW p \in PathIds,
                       Narrowing[i] = <<"narrow", p>>
                PROVE  i > 1 /\ Narrowing[i - 1] = <<"read", p>>
    BY <1>5 DEF Paired
  <2>1. e(i) = <<"narrow", p>>
    BY <1>6
  <2>2. i % 2 # 1 /\ (i + 1) \div 2 = p
    BY <2>1
  <2>3. i - 1 \in 1 .. 2 * Paths /\ (i - 1) % 2 = 1 /\ i \div 2 = p
    BY <1>1, <2>2
  <2>4. ((i - 1) + 1) \div 2 = p
    BY <2>3
  <2>5. e(i - 1) = <<"read", p>>
    BY <2>3, <2>4
  <2>. QED
    BY <1>6, <2>3, <2>5
<1>. QED
  BY <1>4, <1>7, <1>8, <1>9

LEMMA GroupSteps ==
  ASSUME NEW groups \in Seq(Registers)
  PROVE  /\ AsSteps(groups) \in Seq(Step) /\ OfKind(AsSteps(groups), Registers)
         /\ Len(AsSteps(groups)) = Len(groups)
         /\ \A i \in 1 .. Len(groups) : AsSteps(groups)[i] = <<groups[i], 0>>
<1>1. Len(groups) \in Nat /\ DOMAIN groups = 1 .. Len(groups)
  OBVIOUS
<1>2. AsSteps(groups) \in [1 .. Len(groups) -> Step]
  BY <1>1 DEF AsSteps, Step
<1>3. AsSteps(groups) \in Seq(Step)
  BY <1>1, <1>2, SequenceOf
<1>4. Len(AsSteps(groups)) = Len(groups)
  BY <1>1, <1>2, <1>3, LenProperties
<1>5. \A i \in 1 .. Len(groups) : AsSteps(groups)[i] = <<groups[i], 0>>
  BY <1>1 DEF AsSteps
<1>. QED
  BY <1>3, <1>4, <1>5 DEF OfKind

LEMMA OneGroup ==
  ASSUME NEW r \in Registers
  PROVE  /\ AsSteps(<<r>>) \in Seq(Step) /\ OfKind(AsSteps(<<r>>), {r})
         /\ Has(AsSteps(<<r>>), <<r, 0>>)
<1>. DEFINE s == AsSteps(<<r>>)
            g == <<r>>
<1>1. g \in Seq(Registers) /\ Len(g) = 1 /\ g[1] = r
  OBVIOUS
<1>. HIDE DEF g
<1>2. /\ AsSteps(g) \in Seq(Step) /\ Len(AsSteps(g)) = 1
      /\ AsSteps(g)[1] = <<r, 0>>
  BY <1>1, GroupSteps
<1>3. s \in Seq(Step) /\ Len(s) = 1 /\ s[1] = <<r, 0>>
  BY <1>2 DEF g
<1>. HIDE DEF s
<1>4. OfKind(s, {r}) /\ Has(s, <<r, 0>>)
  BY <1>3 DEF OfKind, Has
<1>. QED
  BY <1>3, <1>4 DEF s

LEMMA RegisterNames ==
  /\ "route" \in Registers /\ "routeD" \in Registers /\ "demod" \in Registers
  /\ "gain" \in Registers /\ "txPath" \in Registers /\ "agcSelect" \in Registers
  /\ "fcArea" \in Registers /\ "width" \in Registers
  /\ Registers \cap PathKinds = {}
BY DEF Registers, BandGroups, PathKinds

LEMMA SwitchingSteps ==
  ASSUME NEW b \in {Band2G, Band5G}
  PROVE  /\ AsSteps(Switching(b)) \in Seq(Step) /\ OfKind(AsSteps(Switching(b)), Registers)
         /\ \A g \in BandGroups : Has(AsSteps(Switching(b)), <<g, 0>>)
         /\ b = Band2G => Has(AsSteps(Switching(b)), <<"agcSelect", 0>>)
<1>. DEFINE s == AsSteps(Switching(b))
<1>1. Switching(b) \in Seq(Registers)
  <2>1. <<"route", "routeD", "demod", "gain", "txPath">> \in Seq(Registers)
    BY RegisterNames
  <2>2. <<"route", "routeD", "agcSelect", "demod", "gain", "txPath">> \in Seq(Registers)
    BY RegisterNames
  <2>. QED
    BY <2>1, <2>2 DEF Switching
<1>2. /\ s \in Seq(Step) /\ OfKind(s, Registers) /\ Len(s) = Len(Switching(b))
      /\ \A i \in 1 .. Len(Switching(b)) : s[i] = <<Switching(b)[i], 0>>
  BY <1>1, GroupSteps
<1>. HIDE DEF s
<1>3. CASE b = Band5G
  <2>. DEFINE q == <<"route", "routeD", "demod", "gain", "txPath">>
  <2>1. Switching(b) = q /\ Len(q) = 5
    BY <1>3 DEF Switching
  <2>2. /\ Len(s) = 5 /\ s[1] = <<"route", 0>> /\ s[2] = <<"routeD", 0>>
        /\ s[3] = <<"demod", 0>> /\ s[4] = <<"gain", 0>> /\ s[5] = <<"txPath", 0>>
    BY <1>2, <2>1
  <2>3. \A g \in BandGroups : Has(s, <<g, 0>>)
    BY <2>2 DEF Has, BandGroups
  <2>. QED
    BY <1>2, <1>3, <2>3 DEF Band2G, Band5G, s
<1>4. CASE b = Band2G
  <2>. DEFINE q == <<"route", "routeD", "agcSelect", "demod", "gain", "txPath">>
  <2>1. Switching(b) = q /\ Len(q) = 6
    BY <1>4 DEF Switching, Band2G, Band5G
  <2>2. /\ Len(s) = 6 /\ s[1] = <<"route", 0>> /\ s[2] = <<"routeD", 0>>
        /\ s[3] = <<"agcSelect", 0>>
        /\ s[4] = <<"demod", 0>> /\ s[5] = <<"gain", 0>> /\ s[6] = <<"txPath", 0>>
    BY <1>2, <2>1
  <2>3. (\A g \in BandGroups : Has(s, <<g, 0>>)) /\ Has(s, <<"agcSelect", 0>>)
    BY <2>2 DEF Has, BandGroups
  <2>. QED
    BY <1>2, <2>3 DEF s
<1>. QED
  BY <1>3, <1>4

\* One part after another.
LEMMA Appended ==
  ASSUME NEW s \in Seq(Step), NEW t \in Seq(Step)
  PROVE  /\ s \o t \in Seq(Step) /\ Len(s \o t) = Len(s) + Len(t)
         /\ Len(s) \in Nat /\ Len(t) \in Nat
         /\ \A i \in 1 .. Len(s) : (s \o t)[i] = s[i]
         /\ \A i \in 1 .. Len(t) : (s \o t)[Len(s) + i] = t[i]
         /\ \A i \in Len(s) + 1 .. Len(s \o t) :
              i - Len(s) \in 1 .. Len(t) /\ (s \o t)[i] = t[i - Len(s)]
<1>1. /\ s \o t \in Seq(Step) /\ Len(s \o t) = Len(s) + Len(t)
      /\ \A i \in 1 .. Len(s) + Len(t) :
           (s \o t)[i] = IF i <= Len(s) THEN s[i] ELSE t[i - Len(s)]
  BY ConcatProperties
<1>2. Len(s) \in Nat /\ Len(t) \in Nat
  BY LenProperties
<1>. QED
  BY <1>1, <1>2

LEMMA AppendedKinds ==
  ASSUME NEW s \in Seq(Step), NEW t \in Seq(Step)
  PROVE  /\ \A x : Has(s, x) \/ Has(t, x) => Has(s \o t, x)
         /\ \A K : OfKind(s, K) /\ OfKind(t, K) => OfKind(s \o t, K)
         /\ Paired(s) /\ Paired(t) => Paired(s \o t)
<1>. DEFINE u == s \o t
<1>1. /\ u \in Seq(Step) /\ Len(u) = Len(s) + Len(t)
      /\ Len(s) \in Nat /\ Len(t) \in Nat
      /\ \A i \in 1 .. Len(s) : u[i] = s[i]
      /\ \A i \in 1 .. Len(t) : u[Len(s) + i] = t[i]
      /\ \A i \in Len(s) + 1 .. Len(u) : i - Len(s) \in 1 .. Len(t) /\ u[i] = t[i - Len(s)]
  BY Appended
<1>. HIDE DEF u
<1>2. ASSUME NEW x, Has(s, x) \/ Has(t, x)  PROVE Has(u, x)
  <2>1. CASE Has(s, x)
    BY <1>1, <2>1 DEF Has
  <2>2. CASE Has(t, x)
    <3>1. PICK i \in 1 .. Len(t) : t[i] = x
      BY <2>2 DEF Has
    <3>2. Len(s) + i \in 1 .. Len(u) /\ u[Len(s) + i] = x
      BY <1>1, <3>1
    <3>. QED
      BY <3>2 DEF Has
  <2>. QED
    BY <1>2, <2>1, <2>2
<1>3. ASSUME NEW K, OfKind(s, K), OfKind(t, K)  PROVE OfKind(u, K)
  <2>. SUFFICES ASSUME NEW i \in 1 .. Len(u)  PROVE u[i][1] \in K
    BY DEF OfKind
  <2>1. CASE i <= Len(s)
    BY <1>1, <1>3, <2>1 DEF OfKind
  <2>2. CASE i > Len(s)
    <3>1. i \in Len(s) + 1 .. Len(u)
      BY <1>1, <2>2
    <3>. QED
      BY <1>1, <1>3, <3>1 DEF OfKind
  <2>. QED
    BY <1>1, <2>1, <2>2
<1>4. ASSUME Paired(s), Paired(t)  PROVE Paired(u)
  <2>. SUFFICES ASSUME NEW i \in 1 .. Len(u), NEW p \in PathIds, u[i] = <<"narrow", p>>
                PROVE  i > 1 /\ u[i - 1] = <<"read", p>>
    BY DEF Paired
  <2>1. CASE i <= Len(s)
    <3>1. i \in 1 .. Len(s) /\ s[i] = <<"narrow", p>>
      BY <1>1, <2>1
    <3>2. i > 1 /\ s[i - 1] = <<"read", p>>
      BY <1>4, <3>1 DEF Paired
    <3>. QED
      BY <1>1, <3>1, <3>2
  <2>2. CASE i > Len(s)
    <3>. DEFINE j == i - Len(s)
    <3>1. i \in Len(s) + 1 .. Len(u)
      BY <1>1, <2>2
    <3>2. j \in 1 .. Len(t) /\ t[j] = <<"narrow", p>>
      BY <1>1, <3>1
    <3>3. j > 1 /\ t[j - 1] = <<"read", p>>
      BY <1>4, <3>2 DEF Paired
    <3>4. j - 1 \in 1 .. Len(t) /\ Len(s) + (j - 1) = i - 1
      BY <1>1, <3>2, <3>3
    <3>5. u[i - 1] = t[j - 1]
      BY <1>1, <3>4
    <3>. QED
      BY <1>1, <3>1, <3>3, <3>5
  <2>. QED
    BY <1>1, <2>1, <2>2
<1>. QED
  BY <1>2, <1>3, <1>4 DEF u

LEMMA NoNarrow ==
  ASSUME NEW s \in Seq(Step), NEW K, OfKind(s, K), "narrow" \notin K
  PROVE  Paired(s)
BY DEF OfKind, Paired

\* The parts of a program.
FirstPart(ch, switch) == BandSteps(ch, switch)
AgcPart(ch) == IF Band(ch) = Band5G THEN AsSteps(<<"agcSelect">>) ELSE <<>>
LastPart(ch) == AgcPart(ch) \o AsSteps(<<"width">>) \o Narrowing \o EveryPath("power")

LEMMA FirstSteps ==
  ASSUME NEW ch \in Listed, NEW switch \in BOOLEAN
  PROVE  /\ FirstPart(ch, switch) \in Seq(Step) /\ OfKind(FirstPart(ch, switch), Registers)
         /\ switch => /\ \A g \in BandGroups : Has(FirstPart(ch, switch), <<g, 0>>)
                      /\ Band(ch) = Band2G => Has(FirstPart(ch, switch), <<"agcSelect", 0>>)
<1>1. Band(ch) \in {Band2G, Band5G}
  BY DEF Band
<1>2. CASE switch
  BY <1>1, <1>2, SwitchingSteps DEF FirstPart, BandSteps
<1>3. CASE ~switch
  BY <1>3 DEF FirstPart, BandSteps, OfKind
<1>. QED
  BY <1>2, <1>3

LEMMA TuneStepsSteps ==
  /\ TuneSteps \in Seq(Step) /\ OfKind(TuneSteps, Registers \union {"tune"})
  /\ Has(TuneSteps, <<"fcArea", 0>>)
  /\ \A p \in PathIds : Has(TuneSteps, <<"tune", p>>)
<1>. DEFINE a == AsSteps(<<"fcArea">>)
            t == EveryPath("tune")
<1>1. a \in Seq(Step) /\ OfKind(a, {"fcArea"}) /\ Has(a, <<"fcArea", 0>>)
  BY OneGroup, RegisterNames
<1>2. /\ t \in Seq(Step) /\ OfKind(t, {"tune"})
      /\ \A p \in PathIds : Has(t, <<"tune", p>>)
  BY EveryPathSteps DEF PathKinds
<1>3. OfKind(a, Registers \union {"tune"}) /\ OfKind(t, Registers \union {"tune"})
  BY <1>1, <1>2, RegisterNames DEF OfKind
<1>4. TuneSteps = a \o t
  BY DEF TuneSteps
<1>. HIDE DEF a, t
<1>. QED
  BY <1>1, <1>2, <1>3, <1>4, Appended, AppendedKinds

LEMMA LastSteps ==
  ASSUME NEW ch \in Listed
  PROVE  /\ LastPart(ch) \in Seq(Step)
         /\ OfKind(LastPart(ch), Registers \union {"read", "narrow", "power"})
         /\ Has(LastPart(ch), <<"width", 0>>)
         /\ Band(ch) = Band5G => Has(LastPart(ch), <<"agcSelect", 0>>)
         /\ \A p \in PathIds : Has(LastPart(ch), <<"narrow", p>>) /\ Has(LastPart(ch), <<"power", p>>)
         /\ Paired(LastPart(ch))
<1>. DEFINE K == Registers \union {"read", "narrow", "power"}
            a == AgcPart(ch)
            w == AsSteps(<<"width">>)
            p == EveryPath("power")
<1>1. /\ a \in Seq(Step) /\ OfKind(a, K) /\ Paired(a)
      /\ Band(ch) = Band5G => Has(a, <<"agcSelect", 0>>)
  <2>. DEFINE g == AsSteps(<<"agcSelect">>)
  <2>1. g \in Seq(Step) /\ OfKind(g, {"agcSelect"}) /\ Has(g, <<"agcSelect", 0>>)
    BY OneGroup, RegisterNames
  <2>2. OfKind(g, K) /\ Paired(g)
    BY <2>1, NoNarrow, RegisterNames DEF OfKind
  <2>3. <<>> \in Seq(Step) /\ OfKind(<<>>, K) /\ Paired(<<>>)
    BY DEF OfKind, Paired
  <2>. QED
    BY <2>1, <2>2, <2>3 DEF AgcPart
<1>2. w \in Seq(Step) /\ OfKind(w, K) /\ Paired(w) /\ Has(w, <<"width", 0>>)
  <2>1. w \in Seq(Step) /\ OfKind(w, {"width"}) /\ Has(w, <<"width", 0>>)
    BY OneGroup, RegisterNames
  <2>2. OfKind(w, K) /\ Paired(w)
    BY <2>1, NoNarrow, RegisterNames DEF OfKind
  <2>. QED
    BY <2>1, <2>2
<1>3. /\ Narrowing \in Seq(Step) /\ OfKind(Narrowing, K) /\ Paired(Narrowing)
      /\ \A q \in PathIds : Has(Narrowing, <<"narrow", q>>)
  BY NarrowingSteps DEF OfKind
<1>4. /\ p \in Seq(Step) /\ OfKind(p, K) /\ Paired(p)
      /\ \A q \in PathIds : Has(p, <<"power", q>>)
  <2>1. /\ p \in Seq(Step) /\ OfKind(p, {"power"})
        /\ \A q \in PathIds : Has(p, <<"power", q>>)
    BY EveryPathSteps DEF PathKinds
  <2>2. OfKind(p, K) /\ Paired(p)
    BY <2>1, NoNarrow DEF OfKind
  <2>. QED
    BY <2>1, <2>2
<1>5. LastPart(ch) = ((a \o w) \o Narrowing) \o p
  BY DEF LastPart
<1>. HIDE DEF a, w, p, K
<1>6. /\ a \o w \in Seq(Step) /\ OfKind(a \o w, K) /\ Paired(a \o w)
      /\ Has(a \o w, <<"width", 0>>)
      /\ Band(ch) = Band5G => Has(a \o w, <<"agcSelect", 0>>)
  BY <1>1, <1>2, Appended, AppendedKinds
<1>. DEFINE n == (a \o w) \o Narrowing
<1>7. /\ n \in Seq(Step) /\ OfKind(n, K) /\ Paired(n)
      /\ Has(n, <<"width", 0>>)
      /\ Band(ch) = Band5G => Has(n, <<"agcSelect", 0>>)
      /\ \A q \in PathIds : Has(n, <<"narrow", q>>)
  BY <1>3, <1>6, Appended, AppendedKinds
<1>. HIDE DEF n
<1>8. /\ n \o p \in Seq(Step) /\ OfKind(n \o p, K) /\ Paired(n \o p)
      /\ Has(n \o p, <<"width", 0>>)
      /\ Band(ch) = Band5G => Has(n \o p, <<"agcSelect", 0>>)
      /\ \A q \in PathIds : Has(n \o p, <<"narrow", q>>) /\ Has(n \o p, <<"power", q>>)
  BY <1>4, <1>7, Appended, AppendedKinds
<1>. QED
  BY <1>5, <1>8 DEF K, n

\* A program is its first part, the tuning and the rest.
LEMMA ProgramParts ==
  ASSUME NEW ch \in Listed, NEW switch \in BOOLEAN
  PROVE  Program[ch][switch] = (FirstPart(ch, switch) \o TuneSteps) \o LastPart(ch)
<1>. DEFINE f == FirstPart(ch, switch) \o TuneSteps
            a == AgcPart(ch)
            w == AsSteps(<<"width">>)
            p == EveryPath("power")
<1>1. f \in Seq(Step)
  BY FirstSteps, TuneStepsSteps, Appended
<1>2. a \in Seq(Step) /\ w \in Seq(Step) /\ Narrowing \in Seq(Step) /\ p \in Seq(Step)
  <2>1. a \in Seq(Step)
    <3>1. AsSteps(<<"agcSelect">>) \in Seq(Step)
      BY OneGroup, RegisterNames
    <3>2. <<>> \in Seq(Step)
      OBVIOUS
    <3>. QED
      BY <3>1, <3>2 DEF AgcPart
  <2>2. p \in Seq(Step)
    BY EveryPathSteps DEF PathKinds
  <2>. QED
    BY <2>1, <2>2, OneGroup, RegisterNames, NarrowingSteps
<1>3. Program[ch][switch] = (((f \o a) \o w) \o Narrowing) \o p
  BY DEF Program, Listed, SwitchFirst, FirstPart, AgcPart
<1>4. LastPart(ch) = ((a \o w) \o Narrowing) \o p
  BY DEF LastPart
<1>. HIDE DEF f, a, w, p
<1>5. a \o w \in Seq(Step) /\ (a \o w) \o Narrowing \in Seq(Step)
  BY <1>2, Appended
<1>6. (f \o a) \o w = f \o (a \o w)
  BY <1>1, <1>2, ConcatAssociative, SMTT(30)
<1>. DEFINE aw == a \o w
            awn == (a \o w) \o Narrowing
<1>7. aw \in Seq(Step) /\ awn \in Seq(Step) /\ awn = aw \o Narrowing
  BY <1>5
<1>. HIDE DEF aw, awn
<1>8. (f \o aw) \o Narrowing = f \o (aw \o Narrowing)
  BY <1>1, <1>2, <1>7, ConcatAssociative, SMTT(30)
<1>9. (f \o awn) \o p = f \o (awn \o p)
  BY <1>1, <1>2, <1>7, ConcatAssociative, SMTT(30)
<1>. QED
  BY <1>3, <1>4, <1>6, <1>7, <1>8, <1>9 DEF f, aw, awn

\* A program is a sequence of steps.
LEMMA ProgramSteps ==
  \A ch \in Listed, switch \in BOOLEAN : Program[ch][switch] \in Seq(Step)
<1>. SUFFICES ASSUME NEW ch \in Listed, NEW switch \in BOOLEAN
              PROVE  Program[ch][switch] \in Seq(Step)
  OBVIOUS
<1>1. FirstPart(ch, switch) \o TuneSteps \in Seq(Step)
  BY FirstSteps, TuneStepsSteps, Appended
<1>2. (FirstPart(ch, switch) \o TuneSteps) \o LastPart(ch) \in Seq(Step)
  BY <1>1, LastSteps, Appended
<1>. QED
  BY <1>2, ProgramParts

\* The order of a program: what it reprograms, that a synthesizer's width is set
\* after the last is tuned, and that the band is switched before the first is.
Reprograms(P, ch, switch) ==
  /\ Has(P, <<"fcArea", 0>>) /\ Has(P, <<"width", 0>>)
  /\ switch => \A g \in BandGroups : Has(P, <<g, 0>>)
  /\ switch \/ Band(ch) = Band5G => Has(P, <<"agcSelect", 0>>)
  /\ \A p \in PathIds :
       Has(P, <<"tune", p>>) /\ Has(P, <<"narrow", p>>) /\ Has(P, <<"power", p>>)

TunesFirst(P) ==
  \A i, j \in 1 .. Len(P) : P[i][1] = "narrow" /\ P[j][1] = "tune" => j < i

BandFirst(P) ==
  \A j \in 1 .. Len(P), g \in BandGroups :
    P[j][1] = "tune" => \E i \in 1 .. j - 1 : P[i] = <<g, 0>>

LEMMA ProgramShape ==
  ASSUME NEW ch \in Listed, NEW switch \in BOOLEAN
  PROVE  /\ Reprograms(Program[ch][switch], ch, switch)
         /\ Paired(Program[ch][switch]) /\ TunesFirst(Program[ch][switch])
         /\ switch => BandFirst(Program[ch][switch])
<1>. DEFINE f == FirstPart(ch, switch)
            t == TuneSteps
            l == LastPart(ch)
            u == f \o t
            P == u \o l
            GT == Registers \union {"tune"}
            GL == Registers \union {"read", "narrow", "power"}
<1>1. /\ f \in Seq(Step) /\ OfKind(f, Registers)
      /\ switch => \A g \in BandGroups : Has(f, <<g, 0>>)
      /\ switch /\ Band(ch) = Band2G => Has(f, <<"agcSelect", 0>>)
  BY FirstSteps
<1>2. /\ t \in Seq(Step) /\ OfKind(t, GT) /\ Has(t, <<"fcArea", 0>>)
      /\ \A p \in PathIds : Has(t, <<"tune", p>>)
  BY TuneStepsSteps
<1>3. /\ l \in Seq(Step) /\ OfKind(l, GL) /\ Has(l, <<"width", 0>>) /\ Paired(l)
      /\ Band(ch) = Band5G => Has(l, <<"agcSelect", 0>>)
      /\ \A p \in PathIds : Has(l, <<"narrow", p>>) /\ Has(l, <<"power", p>>)
  BY LastSteps
<1>4. /\ "narrow" \notin Registers /\ "tune" \notin Registers
      /\ "narrow" \notin GT /\ "tune" \notin GL
  BY RegisterNames DEF PathKinds
<1>5. Program[ch][switch] = P
  BY ProgramParts
<1>. HIDE DEF f, t, l, GT, GL
<1>6. /\ u \in Seq(Step) /\ Len(u) = Len(f) + Len(t) /\ Len(f) \in Nat /\ Len(t) \in Nat
      /\ \A i \in 1 .. Len(f) : u[i] = f[i]
      /\ \A i \in Len(f) + 1 .. Len(u) : i - Len(f) \in 1 .. Len(t) /\ u[i] = t[i - Len(f)]
      /\ \A x : Has(f, x) \/ Has(t, x) => Has(u, x)
      /\ Paired(u)
  BY <1>1, <1>2, <1>4, Appended, AppendedKinds, NoNarrow
<1>. HIDE DEF u
<1>7. /\ P \in Seq(Step) /\ Len(P) = Len(u) + Len(l) /\ Len(l) \in Nat
      /\ \A i \in 1 .. Len(u) : P[i] = u[i]
      /\ \A i \in Len(u) + 1 .. Len(P) : i - Len(u) \in 1 .. Len(l) /\ P[i] = l[i - Len(u)]
      /\ \A x : Has(u, x) \/ Has(l, x) => Has(P, x)
      /\ Paired(P)
  BY <1>3, <1>6, Appended, AppendedKinds
<1>. HIDE DEF P
<1>8. Reprograms(P, ch, switch)
  <2>1. \A x : Has(f, x) \/ Has(t, x) \/ Has(l, x) => Has(P, x)
    BY <1>6, <1>7, Zenon
  <2>2. Band(ch) \in {Band2G, Band5G}
    BY DEF Band
  <2>3. switch \/ Band(ch) = Band5G => Has(P, <<"agcSelect", 0>>)
    BY <1>1, <1>3, <2>1, <2>2
  <2>4. switch => \A g \in BandGroups : Has(P, <<g, 0>>)
    BY <1>1, <2>1, Zenon
  <2>5. Has(P, <<"fcArea", 0>>) /\ Has(P, <<"width", 0>>)
    BY <1>2, <1>3, <2>1
  <2>6. \A p \in PathIds :
          Has(P, <<"tune", p>>) /\ Has(P, <<"narrow", p>>) /\ Has(P, <<"power", p>>)
    BY <1>2, <1>3, <2>1, Zenon
  <2>. QED
    BY <2>3, <2>4, <2>5, <2>6 DEF Reprograms
<1>9. ASSUME NEW j \in 1 .. Len(P), P[j][1] = "tune"
      PROVE  j <= Len(u) /\ j > Len(f)
  <2>1. j <= Len(u)
    <3>. SUFFICES ASSUME j > Len(u)  PROVE FALSE
      BY <1>6, <1>7
    <3>1. j \in Len(u) + 1 .. Len(P)
      BY <1>6, <1>7
    <3>2. l[j - Len(u)][1] = "tune" /\ j - Len(u) \in 1 .. Len(l)
      BY <1>7, <1>9, <3>1
    <3>. QED
      BY <1>3, <1>4, <3>2 DEF OfKind
  <2>2. j > Len(f)
    <3>. SUFFICES ASSUME j <= Len(f)  PROVE FALSE
      BY <1>6, <1>7
    <3>1. j \in 1 .. Len(f) /\ j \in 1 .. Len(u)
      BY <1>6, <1>7
    <3>2. f[j][1] = "tune"
      BY <1>6, <1>7, <1>9, <3>1
    <3>. QED
      BY <1>1, <1>4, <3>1, <3>2 DEF OfKind
  <2>. QED
    BY <2>1, <2>2
<1>10. ASSUME NEW i \in 1 .. Len(P), P[i][1] = "narrow"
       PROVE  i > Len(u)
  <2>. SUFFICES ASSUME i <= Len(u)  PROVE FALSE
    BY <1>6, <1>7
  <2>1. i \in 1 .. Len(u) /\ u[i][1] = "narrow"
    BY <1>6, <1>7, <1>10
  <2>2. CASE i <= Len(f)
    <3>1. i \in 1 .. Len(f) /\ f[i][1] = "narrow"
      BY <1>6, <2>1, <2>2
    <3>. QED
      BY <1>1, <1>4, <3>1 DEF OfKind
  <2>3. CASE i > Len(f)
    <3>1. i \in Len(f) + 1 .. Len(u)
      BY <1>6, <2>1, <2>3
    <3>2. t[i - Len(f)][1] = "narrow" /\ i - Len(f) \in 1 .. Len(t)
      BY <1>6, <2>1, <3>1
    <3>. QED
      BY <1>2, <1>4, <3>2 DEF OfKind
  <2>. QED
    BY <1>6, <2>1, <2>2, <2>3
<1>11. TunesFirst(P)
  <2>. SUFFICES ASSUME NEW i \in 1 .. Len(P), NEW j \in 1 .. Len(P),
                       P[i][1] = "narrow", P[j][1] = "tune"
                PROVE  j < i
    BY DEF TunesFirst
  <2>1. j <= Len(u) /\ i > Len(u)
    BY <1>9, <1>10
  <2>. QED
    BY <1>6, <2>1
<1>12. ASSUME switch  PROVE BandFirst(P)
  <2>. SUFFICES ASSUME NEW j \in 1 .. Len(P), NEW g \in BandGroups, P[j][1] = "tune"
                PROVE  \E i \in 1 .. j - 1 : P[i] = <<g, 0>>
    BY DEF BandFirst
  <2>1. j > Len(f)
    BY <1>9
  <2>2. PICK i \in 1 .. Len(f) : f[i] = <<g, 0>>
    BY <1>1, <1>12 DEF Has
  <2>3. i \in 1 .. j - 1 /\ i \in 1 .. Len(u)
    BY <1>6, <2>1
  <2>4. P[i] = <<g, 0>>
    BY <1>6, <1>7, <2>2, <2>3
  <2>. QED
    BY <2>3, <2>4
<1>. QED
  BY <1>5, <1>7, <1>8, <1>11, <1>12 DEF P

\* What a synthesizer is set to is a value of it.
LEMMA TunedValue ==
  ASSUME NEW old \in SynthValues, NEW ch \in Listed
  PROVE  Tuned(old, ch) \in SynthValues
<1>1. RfModAg(ch) \in {0, 1, 3, 5, 7}
  BY ChannelNumbers, Zenon DEF RfModAg
<1>. QED
  BY <1>1 DEF Tuned, SynthValues, Listed

LEMMA Ones255 == Ones \in SynthValues
BY DEF Ones, SynthValues

------------------------------------------------------------------------------
(* The steps.                                                              *)

\* A call stands at a step of its program, or has done the last.
LEMMA StepLength ==
  ASSUME NEW k \in CallValues
  PROVE  /\ Steps(k) \in Seq(Step) /\ Len(Steps(k)) \in Nat
         /\ \A i \in 1 .. Len(Steps(k)) : Steps(k)[i] \in Step
<1>1. Steps(k) \in Seq(Step)
  BY ProgramSteps DEF CallValues, Steps
<1>. QED
  BY <1>1, LenProperties

\* What becomes of a caller is a caller.
LEMMA CallerMoves ==
  ASSUME NEW k \in CallValues
  PROVE  /\ k.at <= Len(Steps(k)) => /\ Onward(k) \in CallValues
                                    /\ Onward(k).at <= Len(Steps(Onward(k))) + 1
         /\ \A v \in SynthValues : /\ Holding(k, v) \in CallValues
                                   /\ Holding(k, v).at = k.at
                                   /\ Holding(k, v).pc = k.pc
                                   /\ Steps(Holding(k, v)) = Steps(k)
         /\ Disturbed(k) \in CallValues /\ Disturbed(k).at = k.at
         /\ Disturbed(k).pc = k.pc /\ Steps(Disturbed(k)) = Steps(k)
         /\ Blinded(k) \in CallValues /\ Blinded(k).at = k.at
         /\ Blinded(k).pc = k.pc /\ Steps(Blinded(k)) = Steps(k)
         /\ Joined(k) \in CallValues /\ Joined(k).at = k.at
         /\ Joined(k).pc = k.pc /\ Steps(Joined(k)) = Steps(k)
<1>1. ASSUME k.at <= Len(Steps(k))
      PROVE  Onward(k) \in CallValues /\ Onward(k).at <= Len(Steps(Onward(k))) + 1
  <2>1. Onward(k) \in CallValues /\ Onward(k).at = k.at + 1
    BY DEF Onward, CallValues
  <2>2. Steps(Onward(k)) = Steps(k)
    BY DEF Onward, CallValues, Steps
  <2>3. Len(Steps(k)) \in Nat /\ k.at \in Nat
    BY StepLength DEF CallValues
  <2>. QED
    BY <1>1, <2>1, <2>2, <2>3
<1>2. ASSUME NEW v \in SynthValues
      PROVE  /\ Holding(k, v) \in CallValues /\ Holding(k, v).at = k.at
             /\ Holding(k, v).pc = k.pc /\ Steps(Holding(k, v)) = Steps(k)
  BY DEF Holding, CallValues, Steps
<1>3. /\ Disturbed(k) \in CallValues /\ Disturbed(k).at = k.at
      /\ Disturbed(k).pc = k.pc /\ Steps(Disturbed(k)) = Steps(k)
  BY DEF Disturbed, CallValues, Steps
<1>4. /\ Blinded(k) \in CallValues /\ Blinded(k).at = k.at
      /\ Blinded(k).pc = k.pc /\ Steps(Blinded(k)) = Steps(k)
  BY DEF Blinded, CallValues, Steps
<1>5. /\ Joined(k) \in CallValues /\ Joined(k).at = k.at
      /\ Joined(k).pc = k.pc /\ Steps(Joined(k)) = Steps(k)
  BY DEF Joined, CallValues, Steps
<1>. QED
  BY <1>1, <1>2, <1>3, <1>4, <1>5

\* One caller moves on.
LEMMA OneMoves ==
  ASSUME CallTypes, NEW c \in Callers, NEW k \in CallValues, GoesTo(c, k), up' = up,
         k.at <= Len(Steps(k)) + 1, k.pc = "run" => up
  PROVE  CallTypes'
BY DEF CallTypes, GoesTo, Steps

\* Idle, the state of a caller outside SetChannel.
LEMMA IdleType == Idle \in CallValues /\ Idle.at <= Len(Steps(Idle)) + 1 /\ Idle.pc = "idle"
<1>1. Idle \in CallValues /\ Idle.at = 1 /\ Idle.pc = "idle"
  BY Ones255 DEF Idle, CallValues, Listed, WidthValues
<1>2. Len(Steps(Idle)) \in Nat
  BY <1>1, StepLength
<1>. QED
  BY <1>1, <1>2

\* At the start.
LEMMA InitType == Init => TypeInv
<1>. SUFFICES ASSUME Init  PROVE TypeInv
  OBVIOUS
<1>2. CallTypes
  BY IdleType DEF Init, CallTypes
<1>3. DOMAIN chip = Registers
  BY DEF Init
<1>4. believed \in [channel : Listed, band : {Band2G, Band5G}, width : WidthValues]
  BY DEF Init, Listed, WidthValues
<1>5. /\ table \in [PathIds -> [PowerGroups -> 0 .. 255]]
      /\ power \in [PathIds -> SUBSET PowerValues]
  BY DEF Init, PowerValues
<1>6. calls \in 0 .. MaxCalls /\ lost \in 0 .. MaxLost
  BY PhyAssumption DEF Init
<1>7. synth \in [PathIds -> SynthValues]
  BY Ones255 DEF Init
<1>. QED
  BY <1>2, <1>3, <1>4, <1>5, <1>6, <1>7 DEF Init, TypeInv

\* An access that is given up is counted.
LEMMA GivenUpType ==
  ASSUME TypeInv, GivenUp \/ UNCHANGED <<lost, spoiled>>
  PROVE  spoiled' \in BOOLEAN /\ lost' \in 0 .. MaxLost
<1>1. spoiled' \in BOOLEAN
  BY Zenon DEF TypeInv, GivenUp
<1>2. lost' \in 0 .. MaxLost
  BY PhyAssumption DEF TypeInv, GivenUp
<1>. QED
  BY <1>1, <1>2, Zenon

\* Initialize() fills the table with gains, and applies one to each path.
LEMMA InitializeType == TypeInv /\ Initialize => TypeInv'
<1>. SUFFICES ASSUME TypeInv, Initialize  PROVE TypeInv'
  OBVIOUS
<1>1. PICK bytes \in Burnt :
        table' = [p \in PathIds |-> [g \in PowerGroups |-> UsableIndex(bytes[p][g], g)]]
  BY DEF Initialize
<1>2. \A p \in PathIds, g \in PowerGroups : UsableIndex(bytes[p][g], g) \in Gains
  <2>1. \A p \in PathIds, g \in PowerGroups : bytes[p][g] \in 0 .. 255
    BY PhyAssumption DEF PathIds
  <2>. QED
    BY <2>1, UsableIsGain
<1>3. table' \in [PathIds -> [PowerGroups -> Gains]]
  BY <1>1, <1>2
<1>4. Gains \subseteq 0 .. 255
  BY DEF Gains, IndexMax
<1>5. table' \in [PathIds -> [PowerGroups -> 0 .. 255]]
  <2>. HIDE DEF Gains
  <2>1. [PowerGroups -> Gains] \subseteq [PowerGroups -> 0 .. 255]
    BY <1>4
  <2>. QED
    BY <1>3, <2>1, ZenonT(30)
<1>6. power' \in [PathIds -> SUBSET PowerValues]
  <2>. DEFINE g == GroupIndex(believed.channel)
  <2>1. g \in PowerGroups
    BY GroupOf DEF TypeInv
  <2>. HIDE DEF g
  <2>2. ASSUME NEW p \in PathIds
        PROVE  table'[p][g] \in PowerValues /\ power[p] \subseteq PowerValues
    <3>1. table'[p][g] \in 0 .. 255
      BY <1>5, <2>1
    <3>. QED
      BY <3>1 DEF TypeInv, PowerValues
  <2>3. PICK landed \in [PathIds -> {"all", "some", "none"}] :
          power' = [p \in PathIds |->
                     (IF landed[p] = "none" THEN {} ELSE {table'[p][g]})
                       \union (IF landed[p] = "all" THEN {} ELSE power[p])]
    BY DEF Initialize, g
  <2>. QED
    BY <2>2, <2>3
<1>7. CallTypes'
  BY DEF TypeInv, CallTypes, Initialize, Steps
<1>8. spoiled' \in BOOLEAN /\ lost' \in 0 .. MaxLost
  <2>1. GivenUp \/ UNCHANGED <<lost, spoiled>>
    BY DEF Initialize
  <2>. QED
    BY <2>1, GivenUpType
<1>9. synth' \in [PathIds -> SynthValues]
  <2>1. RfModAg(1) \in {0, 1, 3, 5, 7}
    BY Zenon, ChannelNumbers DEF RfModAg, Listed
  <2>2. Synth(1, Cold) \in SynthValues
    BY <2>1 DEF Synth, SynthValues
  <2>. QED
    BY <2>2 DEF Initialize
<1>10. DOMAIN chip' = Registers
  BY DEF Initialize
<1>11. UNCHANGED <<believed, calls>> /\ up' = TRUE
  BY DEF Initialize
<1>. QED
  BY <1>3, <1>5, <1>6, <1>7, <1>8, <1>9, <1>10, <1>11 DEF TypeInv

\* A call begins.
LEMMA SetChannelType ==
  ASSUME TypeInv, NEW c \in Callers, NEW ch \in Channels, NEW w \in Widths,
         SetChannel(c, ch, w)
  PROVE  TypeInv'
<1>1. Begun(ch, w) \in CallValues /\ Begun(ch, w).at <= Len(Steps(Begun(ch, w))) + 1
  <2>1. Begun(ch, w) \in CallValues /\ Begun(ch, w).at = 1
    BY Ones255 DEF Begun, CallValues, Listed, WidthValues, NeedsSwitch
  <2>2. Len(Steps(Begun(ch, w))) \in Nat
    BY <2>1, StepLength
  <2>. QED
    BY <2>1, <2>2
<1>2. \A d \in Callers : /\ call'[d] \in CallValues
                         /\ call'[d].at <= Len(Steps(call'[d])) + 1
  <2>. SUFFICES ASSUME NEW d \in Callers
                PROVE  /\ call'[d] \in CallValues
                       /\ call'[d].at <= Len(Steps(call'[d])) + 1
    OBVIOUS
  <2>1. call[d] \in CallValues /\ call[d].at <= Len(Steps(call[d])) + 1
    BY DEF TypeInv, CallTypes
  <2>2. CASE d = c
    BY <1>1, <2>2 DEF SetChannel
  <2>3. CASE d # c /\ d \in Active
    <3>1. call'[d] = Disturbed(Joined(call[d]))
      BY <2>3 DEF SetChannel
    <3>2. /\ Joined(call[d]) \in CallValues
          /\ Joined(call[d]).at <= Len(Steps(Joined(call[d]))) + 1
      BY <2>1, CallerMoves
    <3>3. /\ Disturbed(Joined(call[d])) \in CallValues
          /\ Disturbed(Joined(call[d])).at <= Len(Steps(Disturbed(Joined(call[d])))) + 1
      BY <3>2, CallerMoves
    <3>. QED
      BY <3>1, <3>3
  <2>4. CASE d # c /\ d \notin Active
    BY <2>1, <2>4 DEF SetChannel
  <2>. QED
    BY <2>2, <2>3, <2>4
<1>3. CallTypes'
  BY <1>2 DEF SetChannel, CallTypes, Steps
<1>4. (spoiled \/ Active # {}) \in BOOLEAN
  OBVIOUS
<1>5. calls' \in 0 .. MaxCalls
  BY PhyAssumption DEF SetChannel, TypeInv
<1>. QED
  BY <1>3, <1>4, <1>5 DEF SetChannel, TypeInv

\* A caller that runs one of its steps.
LEMMA RunningCaller ==
  ASSUME TypeInv, NEW c \in Callers, Running(c)
  PROVE  /\ up /\ call[c] \in CallValues /\ call[c].channel \in Listed
         /\ Onward(call[c]) \in CallValues
         /\ Onward(call[c]).at <= Len(Steps(Onward(call[c]))) + 1
BY CallerMoves DEF TypeInv, CallTypes, Running, CallValues

\* It is at a step of the program, of a register group or of a path.
LEMMA RunningStep ==
  ASSUME TypeInv, NEW c \in Callers, Running(c)
  PROVE  /\ StepOf(c) \in Step
         /\ StepOf(c)[1] \in PathKinds => StepOf(c)[2] \in PathIds
<1>1. call[c] \in CallValues /\ call[c].at \in 1 .. Len(Steps(call[c]))
  BY StepLength DEF TypeInv, CallTypes, Running, CallValues
<1>2. StepOf(c) \in Step
  BY <1>1, StepLength DEF StepOf
<1>. QED
  BY <1>2 DEF Step, Registers, BandGroups, PathKinds

\* The step of a caller leaves a caller.
LEMMA OnwardType ==
  ASSUME TypeInv, NEW c \in Callers, Running(c), up' = up,
         \/ GoesTo(c, Onward(call[c]))
         \/ GoesTo(c, Disturbed(Onward(call[c])))
         \/ \E v \in SynthValues : GoesTo(c, Holding(Onward(call[c]), v))
         \/ \E v \in SynthValues : GoesTo(c, Disturbed(Holding(Onward(call[c]), v)))
         \/ \E v \in SynthValues :
              GoesTo(c, Blinded(Disturbed(Holding(Onward(call[c]), v))))
         \/ GoesTo(c, Idle)
  PROVE  CallTypes'
<1>. DEFINE Fits(k) == k \in CallValues /\ k.at <= Len(Steps(k)) + 1
<1>1. up /\ Fits(Onward(call[c]))
  BY RunningCaller
<1>2. \A k \in CallValues : Fits(k) => Fits(Disturbed(k)) /\ Fits(Blinded(k))
  BY CallerMoves
<1>3. \A k \in CallValues, v \in SynthValues : Fits(k) => Fits(Holding(k, v))
  BY CallerMoves
<1>4. Fits(Idle)
  BY IdleType
<1>5. PICK k : Fits(k) /\ GoesTo(c, k)
  <2>. HIDE DEF Fits
  <2>1. \A k : Fits(k) => k \in CallValues
    BY DEF Fits
  <2>. QED
    BY <1>1, <1>2, <1>3, <1>4, <2>1
<1>. QED
  BY <1>1, <1>5, OneMoves DEF TypeInv

LEMMA WriteBasebandType ==
  ASSUME TypeInv, NEW c \in Callers, WriteBaseband(c)
  PROVE  TypeInv'
<1>1. Running(c) /\ StepOf(c)[1] \in Registers
  BY DEF WriteBaseband
<1>2. UNCHANGED <<up, table, believed, synth, power, calls>>
  BY DEF WriteBaseband
<1>3. DOMAIN chip' = Registers
  BY DEF WriteBaseband, TypeInv
<1>4. \/ GoesTo(c, Onward(call[c])) /\ UNCHANGED <<lost, spoiled>>
      \/ GoesTo(c, Disturbed(Onward(call[c]))) /\ GivenUp
  BY DEF WriteBaseband
<1>5. CallTypes'
  BY <1>1, <1>2, <1>4, OnwardType
<1>6. spoiled' \in BOOLEAN /\ lost' \in 0 .. MaxLost
  BY <1>4, GivenUpType
<1>. QED
  BY <1>2, <1>3, <1>5, <1>6 DEF TypeInv

LEMMA TunePathType ==
  ASSUME TypeInv, NEW c \in Callers, TunePath(c)
  PROVE  TypeInv'
<1>1. Running(c)
  BY DEF TunePath
<1>2. UNCHANGED <<up, table, believed, chip, power, calls>>
  BY DEF TunePath
<1>3. \/ GoesTo(c, Onward(call[c])) /\ UNCHANGED <<lost, spoiled>>
      \/ GoesTo(c, Onward(call[c])) /\ GivenUp
      \/ GoesTo(c, Idle) /\ GivenUp
  BY DEF TunePath, GivesUpCall
<1>4. CallTypes'
  BY <1>1, <1>2, <1>3, OnwardType
<1>5. spoiled' \in BOOLEAN /\ lost' \in 0 .. MaxLost
  BY <1>3, GivenUpType
<1>6. synth' \in [PathIds -> SynthValues]
  <2>. DEFINE p == StepOf(c)[2]
              ch == call[c].channel
  <2>1. \E v : synth' = [synth EXCEPT ![p] = v]
               /\ v \in {Tuned(synth[p], ch), Tuned(Ones, ch), synth[p]}
    BY DEF TunePath
  <2>2. ch \in Listed
    BY <1>1, RunningCaller
  <2>3. Tuned(Ones, ch) \in SynthValues
    BY <2>2, TunedValue, Ones255
  <2>4. p \in PathIds => synth[p] \in SynthValues /\ Tuned(synth[p], ch) \in SynthValues
    BY <2>2, TunedValue DEF TypeInv
  <2>5. synth \in [PathIds -> SynthValues]
    BY DEF TypeInv
  <2>. HIDE DEF p, ch
  <2>. QED
    BY <2>1, <2>3, <2>4, <2>5
<1>. QED
  BY <1>2, <1>4, <1>5, <1>6 DEF TypeInv

LEMMA ReadWidthType ==
  ASSUME TypeInv, NEW c \in Callers, ReadWidth(c)
  PROVE  TypeInv'
<1>1. Running(c)
  BY DEF ReadWidth
<1>2. UNCHANGED <<up, table, believed, chip, synth, power, calls>>
  BY DEF ReadWidth
<1>3. synth[StepOf(c)[2]] \in SynthValues
  <2>1. StepOf(c)[2] \in PathIds
    BY <1>1, RunningStep DEF ReadWidth, PathKinds
  <2>. QED
    BY <2>1 DEF TypeInv
<1>4. \/ /\ GoesTo(c, Holding(Onward(call[c]), synth[StepOf(c)[2]]))
         /\ UNCHANGED <<lost, spoiled>>
      \/ /\ GoesTo(c, Blinded(Disturbed(Holding(Onward(call[c]), Ones))))
         /\ GivenUp
  BY DEF ReadWidth
<1>5. CallTypes'
  BY <1>1, <1>2, <1>3, <1>4, OnwardType, Ones255
<1>6. spoiled' \in BOOLEAN /\ lost' \in 0 .. MaxLost
  BY <1>4, GivenUpType
<1>. QED
  BY <1>2, <1>5, <1>6 DEF TypeInv
LEMMA WriteWidthType ==
  ASSUME TypeInv, NEW c \in Callers, WriteWidth(c)
  PROVE  TypeInv'
<1>1. Running(c)
  BY DEF WriteWidth
<1>2. UNCHANGED <<up, table, believed, chip, power, calls>>
  BY DEF WriteWidth
<1>3. \/ GoesTo(c, Holding(Onward(call[c]), Ones)) /\ UNCHANGED <<lost, spoiled>>
      \/ GoesTo(c, Disturbed(Holding(Onward(call[c]), Ones))) /\ GivenUp
  BY DEF WriteWidth
<1>4. CallTypes'
  BY <1>1, <1>2, <1>3, OnwardType, Ones255
<1>5. spoiled' \in BOOLEAN /\ lost' \in 0 .. MaxLost
  BY <1>3, GivenUpType
<1>6. synth' \in [PathIds -> SynthValues]
  <2>. DEFINE p == StepOf(c)[2]
              back == [call[c].held EXCEPT !.width = call[c].width]
  <2>1. \E v : synth' = [synth EXCEPT ![p] = v] /\ v \in {back, synth[p]}
    BY DEF WriteWidth
  <2>2. back \in SynthValues
    <3>1. call[c].held \in SynthValues /\ call[c].width \in WidthValues
      BY <1>1, RunningCaller DEF CallValues
    <3>. QED
      BY <3>1 DEF SynthValues, WidthValues
  <2>3. p \in PathIds => synth[p] \in SynthValues
    BY DEF TypeInv
  <2>4. synth \in [PathIds -> SynthValues]
    BY DEF TypeInv
  <2>. HIDE DEF p, back
  <2>. QED
    BY <2>1, <2>2, <2>3, <2>4
<1>. QED
  BY <1>2, <1>4, <1>5, <1>6 DEF TypeInv

LEMMA WritePowerType ==
  ASSUME TypeInv, NEW c \in Callers, WritePower(c)
  PROVE  TypeInv'
<1>1. Running(c) /\ StepOf(c)[1] = "power"
  BY DEF WritePower
<1>2. UNCHANGED <<up, table, believed, chip, synth, calls>>
  BY DEF WritePower
<1>3. \/ GoesTo(c, Onward(call[c])) /\ UNCHANGED <<lost, spoiled>>
      \/ GoesTo(c, Disturbed(Onward(call[c]))) /\ GivenUp
  BY DEF WritePower
<1>4. CallTypes'
  BY <1>1, <1>2, <1>3, OnwardType
<1>5. spoiled' \in BOOLEAN /\ lost' \in 0 .. MaxLost
  BY <1>3, GivenUpType
<1>6. power' \in [PathIds -> SUBSET PowerValues]
  <2>. DEFINE p == StepOf(c)[2]
              asked == {PowerFor(p, call[c].channel)}
  <2>1. \E v : power' = [power EXCEPT ![p] = v] /\ v \in {asked, asked \union power[p], power[p]}
    BY DEF WritePower
  <2>2. up /\ p \in PathIds /\ call[c].channel \in Listed
    BY <1>1, RunningCaller, RunningStep DEF PathKinds
  <2>3. asked \subseteq PowerValues
    <3>1. GroupIndex(call[c].channel) \in PowerGroups
      BY <2>2, GroupOf
    <3>2. table[p] \in [PowerGroups -> 0 .. 255]
      BY <2>2 DEF TypeInv
    <3>3. PowerFor(p, call[c].channel) \in 0 .. 255
      BY <3>1, <3>2 DEF PowerFor
    <3>. QED
      BY <3>3 DEF PowerValues
  <2>4. power \in [PathIds -> SUBSET PowerValues]
    BY DEF TypeInv
  <2>. HIDE DEF p, asked
  <2>. QED
    BY <2>1, <2>2, <2>3, <2>4
<1>. QED
  BY <1>2, <1>4, <1>5, <1>6 DEF TypeInv

LEMMA FinishType ==
  ASSUME TypeInv, NEW c \in Callers, Finish(c)
  PROVE  TypeInv'
<1>1. GoesTo(c, Idle) /\ UNCHANGED <<up, table, chip, synth, power, calls, lost>>
  BY DEF Finish
<1>2. CallTypes'
  BY <1>1, IdleType, OneMoves DEF TypeInv
<1>3. believed' \in [channel : Listed, band : {Band2G, Band5G}, width : WidthValues]
  <2>1. call[c] \in CallValues
    BY DEF TypeInv, CallTypes
  <2>. QED
    BY <2>1 DEF Finish, Band, CallValues
<1>4. spoiled' \in BOOLEAN
  BY Zenon DEF Finish
<1>. QED
  BY <1>1, <1>2, <1>3, <1>4 DEF TypeInv

LEMMA StepType == TypeInv /\ [Next]_vars => TypeInv'
<1>. SUFFICES ASSUME TypeInv, [Next]_vars  PROVE TypeInv'
  OBVIOUS
<1>1. CASE Initialize
  BY <1>1, InitializeType
<1>2. ASSUME NEW c \in Callers, Caller(c)  PROVE TypeInv'
  BY <1>2, SetChannelType, WriteBasebandType, TunePathType, ReadWidthType,
     WriteWidthType, WritePowerType, FinishType DEF Caller
<1>3. CASE UNCHANGED vars
  BY <1>3 DEF vars, TypeInv, CallTypes, Steps
<1>. QED
  BY <1>1, <1>2, <1>3 DEF Next

LEMMA TypeInvHolds == Spec => []TypeInv
BY InitType, StepType, PTL DEF Spec

\* Every variable of the radio keeps its type: a synthesizer holds a value that
\* some channel asks for or all ones, and a call never runs past its program.
THEOREM PhyTypeCorrect == Spec => []TypeOK
<1>1. TypeInv => TypeOK
  <2>. SUFFICES ASSUME TypeInv  PROVE TypeOK
    OBVIOUS
  <2>1. \A p \in PathIds : synth[p] \in SynthValues
    BY DEF TypeInv
  <2>2. ASSUME NEW c \in Callers
        PROVE  /\ call[c].pc \in {"idle", "run"} /\ call[c].channel \in Listed
               /\ call[c].at \in 1 .. Len(Steps(call[c])) + 1
               /\ call[c].held \in SynthValues
    BY StepLength DEF TypeInv, CallTypes, CallValues
  <2>. QED
    BY <2>1, <2>2 DEF TypeInv, TypeOK, Listed, WidthValues, PowerValues
<1>. QED
  BY <1>1, TypeInvHolds, PTL

------------------------------------------------------------------------------
(* What the registers hold while a call runs.                              *)

\* A step of a call that it has taken.
Done(k, s) == \E i \in 1 .. k.at - 1 : Steps(k)[i] = s
DoneBy(s) == \E c \in Active : Done(call[c], s)

\* Who runs alone, undisturbed or on a radio that nothing has spoiled.
Marks ==
  \A c \in Active :
    /\ call[c].alone => Active = {c}
    /\ call[c].clean => /\ call[c].alone /\ call[c].seen
                        /\ call[c].switch = NeedsSwitch(call[c].channel)
    /\ ~spoiled => call[c].clean

Aims(v, ch) == v.channel = ch /\ v.code = RfModAg(ch)

\* A call alone has tuned the paths it has come to, and writes back what it has
\* just read.
TuningInv ==
  \A c \in Active, p \in PathIds : call[c].alone /\ call[c].seen =>
    /\ Done(call[c], <<"tune", p>>) => Aims(synth[p], call[c].channel)
    /\ Running(c) /\ StepOf(c) = <<"narrow", p>> => call[c].held = synth[p]

\* An undisturbed call has the effects of its steps in place.
DoneInv ==
  \A c \in Active : call[c].clean =>
    /\ \A r \in Registers :
         Done(call[c], <<r, 0>>) => chip[r] = Setting(r, call[c].channel, call[c].width)
    /\ \A p \in PathIds :
         /\ Done(call[c], <<"narrow", p>>) => synth[p].width = call[c].width
         /\ Done(call[c], <<"power", p>>) => power[p] = {PowerFor(p, call[c].channel)}

\* No call has ended yet.
Fresh == calls = 0 \/ (calls = 1 /\ Active # {})

\* What may still be as the cold start left it.
LeftCold(r) ==
  \/ r = "width" /\ Fresh
  \/ r \in BandGroups /\ believed.band = Band2G

\* On a radio not spoiled what no call has come to yet is as the driver believes,
\* or as the cold start left it.
LeftInv ==
  up /\ ~spoiled =>
    /\ \A r \in Registers :
         \/ chip[r] = Setting(r, believed.channel, believed.width)
         \/ chip[r] = Cold /\ LeftCold(r)
         \/ DoneBy(<<r, 0>>)
    /\ \A p \in PathIds :
         /\ Aims(synth[p], believed.channel) \/ DoneBy(<<"tune", p>>)
         /\ \/ synth[p].width = believed.width
            \/ synth[p].width = Cold /\ Fresh
            \/ DoneBy(<<"narrow", p>>)
         /\ power[p] = {PowerFor(p, believed.channel)} \/ DoneBy(<<"power", p>>)

RadioInv == believed.band = Band(believed.channel) /\ Marks /\ TuningInv /\ DoneInv /\ LeftInv

\* A caller takes a step of its program, and its call stays the call it was.
Moved(c) ==
  /\ Running(c) /\ call' = [call EXCEPT ![c] = call'[c]]
  /\ UNCHANGED <<up, table, believed, calls>>
  /\ call'[c].pc = "run" /\ call'[c].at = call[c].at + 1
  /\ call'[c].channel = call[c].channel /\ call'[c].width = call[c].width
  /\ call'[c].switch = call[c].switch /\ call'[c].alone = call[c].alone
  /\ call'[c].seen => call[c].seen
  /\ call'[c].clean => call[c].clean /\ call'[c].seen = call[c].seen
  /\ ~spoiled' => ~spoiled /\ call'[c].clean = call[c].clean

\* What the step does to the registers, as far as it is not in doubt.
Acts(c) ==
  /\ \A r \in Registers :
       /\ StepOf(c) # <<r, 0>> => chip'[r] = chip[r]
       /\ StepOf(c) = <<r, 0>> /\ call'[c].clean =>
            chip'[r] = Setting(r, call[c].channel, call[c].width)
  /\ \A p \in PathIds :
       /\ StepOf(c) \notin {<<"tune", p>>, <<"narrow", p>>} => synth'[p] = synth[p]
       /\ StepOf(c) = <<"tune", p>> =>
            /\ Aims(synth'[p], call[c].channel)
            /\ ~spoiled' => synth'[p].width = synth[p].width
       /\ StepOf(c) = <<"narrow", p>> =>
            /\ call[c].held = synth[p] => /\ synth'[p].channel = synth[p].channel
                                          /\ synth'[p].code = synth[p].code
            /\ call'[c].clean => synth'[p].width = call[c].width
       /\ StepOf(c) = <<"read", p>> /\ call'[c].seen => call'[c].held = synth[p]
       /\ StepOf(c) # <<"power", p>> => power'[p] = power[p]
       /\ StepOf(c) = <<"power", p>> /\ call'[c].clean =>
            power'[p] = {PowerFor(p, call[c].channel)}

\* The step is done from then on, and with it those before.
LEMMA DoneNow ==
  ASSUME TypeInv, NEW c \in Callers, Moved(c)
  PROVE  /\ Steps(call'[c]) = Steps(call[c])
         /\ \A s : Done(call'[c], s) <=> Done(call[c], s) \/ s = StepOf(c)
         /\ Active' = Active /\ c \in Active
         /\ \A d \in Callers \ {c} : call'[d] = call[d]
<1>1. Steps(call'[c]) = Steps(call[c])
  BY DEF Moved, Steps
<1>2. call[c].at \in Nat \ {0} /\ call'[c].at = call[c].at + 1
  BY DEF Moved, TypeInv, CallTypes, CallValues
<1>3. StepOf(c) = Steps(call[c])[call[c].at]
  BY DEF StepOf
<1>4. ASSUME NEW s  PROVE Done(call'[c], s) <=> Done(call[c], s) \/ s = StepOf(c)
  BY <1>1, <1>2, <1>3 DEF Done
<1>5. \A d \in Callers \ {c} : call'[d] = call[d]
  BY DEF Moved, TypeInv, CallTypes
<1>6. call[c].pc = "run" /\ call'[c].pc = "run"
  BY DEF Moved, Running
<1>7. Active' = Active /\ c \in Active
  BY <1>5, <1>6 DEF Active
<1>. QED
  BY <1>1, <1>4, <1>5, <1>7

\* The program of a call has the shape of a program.
LEMMA CallShape ==
  ASSUME TypeInv, NEW c \in Callers
  PROVE  /\ Reprograms(Steps(call[c]), call[c].channel, call[c].switch)
         /\ Paired(Steps(call[c])) /\ TunesFirst(Steps(call[c]))
         /\ call[c].switch => BandFirst(Steps(call[c]))
         /\ call[c].at \in Nat \ {0} /\ Len(Steps(call[c])) \in Nat
         /\ call[c].at <= Len(Steps(call[c])) + 1
         /\ call[c].channel \in Listed /\ call[c].width \in WidthValues
<1>1. call[c] \in CallValues /\ call[c].at <= Len(Steps(call[c])) + 1
  BY DEF TypeInv, CallTypes
<1>2. call[c].channel \in Listed /\ call[c].switch \in BOOLEAN /\ call[c].width \in WidthValues
  BY <1>1 DEF CallValues
<1>3. call[c].at \in Nat \ {0} /\ Len(Steps(call[c])) \in Nat
  BY <1>1, StepLength DEF CallValues
<1>. QED
  BY <1>1, <1>2, <1>3, ProgramShape DEF Steps

LEMMA MarksKept ==
  ASSUME TypeInv, Marks, NEW c \in Callers, Moved(c)
  PROVE  Marks'
<1>1. Active' = Active /\ \A d \in Callers \ {c} : call'[d] = call[d]
  BY DoneNow
<1>2. ASSUME NEW d \in Active
      PROVE  /\ call'[d].alone => Active' = {d}
             /\ call'[d].clean => /\ call'[d].alone /\ call'[d].seen
                                  /\ call'[d].switch = (Band(call'[d].channel) # believed'.band)
             /\ ~spoiled' => call'[d].clean
  <2>1. CASE d = c
    <3>1. /\ call[c].alone => Active = {c}
          /\ call[c].clean => /\ call[c].alone /\ call[c].seen
                              /\ call[c].switch = (Band(call[c].channel) # believed.band)
          /\ ~spoiled => call[c].clean
      BY <1>2, <2>1 DEF Marks, NeedsSwitch
    <3>2. believed' = believed
      BY DEF Moved
    <3>. QED
      BY <1>1, <2>1, <3>1, <3>2 DEF Moved
  <2>2. CASE d # c
    <3>1. call'[d] = call[d] /\ believed' = believed /\ (~spoiled' => ~spoiled)
      BY <1>1, <1>2, <2>2 DEF Moved, Active
    <3>. QED
      BY <1>1, <1>2, <3>1 DEF Marks, NeedsSwitch
  <2>. QED
    BY <2>1, <2>2
<1>. QED
  BY <1>1, <1>2 DEF Marks, NeedsSwitch

LEMMA TuningKept ==
  ASSUME TypeInv, Marks, Marks', TuningInv, NEW c \in Callers, Moved(c), Acts(c)
  PROVE  TuningInv'
<1>. SUFFICES ASSUME NEW d \in Active', NEW p \in PathIds, call'[d].alone, call'[d].seen
              PROVE  /\ Done(call'[d], <<"tune", p>>) => Aims(synth'[p], call'[d].channel)
                     /\ Running(d)' /\ StepOf(d)' = <<"narrow", p>> => call'[d].held = synth'[p]
  BY DEF TuningInv
<1>1. d = c /\ c \in Active
  BY DoneNow DEF Marks
<1>2. /\ call[c].alone /\ call[c].seen /\ call'[c].channel = call[c].channel
      /\ Running(c)
  BY <1>1 DEF Moved
<1>3. ASSUME Done(call'[c], <<"tune", p>>)  PROVE Aims(synth'[p], call[c].channel)
  <2>1. CASE StepOf(c) = <<"tune", p>>
    BY <2>1 DEF Acts
  <2>2. CASE StepOf(c) # <<"tune", p>>
    <3>1. Aims(synth[p], call[c].channel)
      BY <1>1, <1>2, <1>3, <2>2, DoneNow DEF TuningInv
    <3>2. CASE StepOf(c) = <<"narrow", p>>
      <4>1. call[c].held = synth[p]
        BY <1>1, <1>2, <3>2 DEF TuningInv
      <4>2. synth'[p].channel = synth[p].channel /\ synth'[p].code = synth[p].code
        BY <3>2, <4>1 DEF Acts
      <4>. QED
        BY <3>1, <4>2 DEF Aims
    <3>3. CASE StepOf(c) # <<"narrow", p>>
      BY <2>2, <3>1, <3>3 DEF Acts
    <3>. QED
      BY <3>2, <3>3
  <2>. QED
    BY <2>1, <2>2
<1>4. ASSUME Running(c)', StepOf(c)' = <<"narrow", p>>  PROVE call'[c].held = synth'[p]
  <2>. DEFINE P == Steps(call[c])
              n == call'[c].at
  <2>1. Steps(call'[c]) = P /\ n = call[c].at + 1 /\ call[c].at \in Nat \ {0}
    BY DoneNow, CallShape DEF Moved
  <2>2. n <= Len(P) /\ P[n] = <<"narrow", p>>
    BY <1>4, <2>1 DEF Running, StepOf
  <2>3. n \in 1 .. Len(P) /\ Paired(P)
    BY <2>1, <2>2, CallShape
  <2>4. P[n - 1] = <<"read", p>>
    BY <2>2, <2>3 DEF Paired
  <2>5. StepOf(c) = <<"read", p>>
    BY <2>1, <2>4 DEF StepOf
  <2>6. call'[c].held = synth[p]
    BY <1>1, <2>5 DEF Acts
  <2>7. synth'[p] = synth[p]
    BY <2>5 DEF Acts
  <2>. QED
    BY <2>6, <2>7
<1>. QED
  BY <1>1, <1>2, <1>3, <1>4

LEMMA DoneKept ==
  ASSUME TypeInv, Marks, Marks', DoneInv, NEW c \in Callers, Moved(c), Acts(c)
  PROVE  DoneInv'
<1>. SUFFICES ASSUME NEW d \in Active', call'[d].clean
              PROVE  /\ \A r \in Registers : Done(call'[d], <<r, 0>>) =>
                          chip'[r] = Setting(r, call'[d].channel, call'[d].width)
                     /\ \A p \in PathIds :
                          /\ Done(call'[d], <<"narrow", p>>) => synth'[p].width = call'[d].width
                          /\ Done(call'[d], <<"power", p>>) =>
                               power'[p] = {PowerFor(p, call'[d].channel)}
  <2>1. table' = table
    BY DEF Moved
  <2>. QED
    BY <2>1 DEF DoneInv, PowerFor
<1>1. d = c /\ c \in Active
  BY DoneNow DEF Marks
<1>2. /\ call[c].clean /\ call'[c].channel = call[c].channel
      /\ call'[c].width = call[c].width
  BY <1>1 DEF Moved
<1>3. ASSUME NEW r \in Registers, Done(call'[c], <<r, 0>>)
      PROVE  chip'[r] = Setting(r, call[c].channel, call[c].width)
  BY <1>1, <1>2, <1>3, DoneNow DEF Acts, DoneInv
<1>4. ASSUME NEW p \in PathIds, Done(call'[c], <<"narrow", p>>)
      PROVE  synth'[p].width = call[c].width
  <2>1. CASE StepOf(c) = <<"narrow", p>>
    BY <1>1, <2>1 DEF Acts
  <2>2. CASE StepOf(c) # <<"narrow", p>>
    <3>1. Done(call[c], <<"narrow", p>>)
      BY <1>4, <2>2, DoneNow
    <3>2. StepOf(c)[1] # "tune"
      <4>. DEFINE P == Steps(call[c])
      <4>1. PICK i \in 1 .. call[c].at - 1 : P[i] = <<"narrow", p>>
        BY <3>1 DEF Done
      <4>2. call[c].at \in 1 .. Len(P) /\ TunesFirst(P)
        BY CallShape DEF Moved, Running
      <4>3. i \in 1 .. Len(P) /\ P[i][1] = "narrow" /\ i < call[c].at
        BY <4>1, <4>2
      <4>. QED
        BY <4>2, <4>3 DEF TunesFirst, StepOf
    <3>3. StepOf(c) # <<"tune", p>>
      BY <3>2
    <3>4. synth'[p] = synth[p]
      BY <2>2, <3>3 DEF Acts
    <3>. QED
      BY <1>1, <1>2, <3>1, <3>4 DEF DoneInv
  <2>. QED
    BY <2>1, <2>2
<1>5. ASSUME NEW p \in PathIds, Done(call'[c], <<"power", p>>)
      PROVE  power'[p] = {PowerFor(p, call[c].channel)}
  BY <1>1, <1>2, <1>5, DoneNow DEF Acts, DoneInv
<1>. QED
  BY <1>1, <1>2, <1>3, <1>4, <1>5

LEMMA LeftKept ==
  ASSUME TypeInv, Marks, TuningInv, LeftInv, NEW c \in Callers, Moved(c), Acts(c)
  PROVE  LeftInv'
<1>. SUFFICES ASSUME up, ~spoiled'
              PROVE  /\ \A r \in Registers :
                          \/ chip'[r] = Setting(r, believed.channel, believed.width)
                          \/ chip'[r] = Cold /\ LeftCold(r)
                          \/ Done(call'[c], <<r, 0>>)
                     /\ \A p \in PathIds :
                          /\ Aims(synth'[p], believed.channel) \/ Done(call'[c], <<"tune", p>>)
                          /\ \/ synth'[p].width = believed.width
                             \/ synth'[p].width = Cold /\ Fresh
                             \/ Done(call'[c], <<"narrow", p>>)
                          /\ \/ power'[p] = {PowerFor(p, believed.channel)}
                             \/ Done(call'[c], <<"power", p>>)
  <2>1. c \in Active' /\ Active' = Active
    BY DoneNow
  <2>2. believed' = believed /\ up' = up /\ table' = table /\ calls' = calls
    BY DEF Moved
  <2>3. (Fresh <=> Fresh') /\ \A r : LeftCold(r) <=> LeftCold(r)'
    BY <2>1, <2>2 DEF LeftCold, Fresh
  <2>. QED
    BY <2>1, <2>2, <2>3 DEF LeftInv, DoneBy, PowerFor
<1>1. ~spoiled /\ c \in Active /\ Active = {c} /\ call[c].alone /\ call[c].seen
  BY DoneNow DEF Moved, Marks
<1>2. \A s : DoneBy(s) => Done(call'[c], s)
  BY <1>1, DoneNow DEF DoneBy
<1>3. Done(call'[c], StepOf(c))
  BY DoneNow
<1>4. ASSUME NEW r \in Registers
      PROVE  \/ chip'[r] = Setting(r, believed.channel, believed.width)
             \/ chip'[r] = Cold /\ LeftCold(r)
             \/ Done(call'[c], <<r, 0>>)
  BY <1>1, <1>2, <1>3 DEF LeftInv, Acts
<1>5. ASSUME NEW p \in PathIds
      PROVE  Aims(synth'[p], believed.channel) \/ Done(call'[c], <<"tune", p>>)
  <2>1. Aims(synth[p], believed.channel) \/ Done(call'[c], <<"tune", p>>)
    BY <1>1, <1>2 DEF LeftInv
  <2>2. CASE StepOf(c) = <<"narrow", p>>
    <3>1. call[c].held = synth[p]
      BY <1>1, <2>2 DEF TuningInv, Moved
    <3>2. synth'[p].channel = synth[p].channel /\ synth'[p].code = synth[p].code
      BY <2>2, <3>1 DEF Acts
    <3>. QED
      BY <2>1, <3>2 DEF Aims
  <2>3. CASE StepOf(c) = <<"tune", p>>
    BY <1>3, <2>3
  <2>4. CASE StepOf(c) \notin {<<"tune", p>>, <<"narrow", p>>}
    BY <2>1, <2>4 DEF Acts
  <2>. QED
    BY <2>2, <2>3, <2>4
<1>6. ASSUME NEW p \in PathIds
      PROVE  \/ synth'[p].width = believed.width
             \/ synth'[p].width = Cold /\ Fresh
             \/ Done(call'[c], <<"narrow", p>>)
  <2>1. \/ synth[p].width = believed.width
        \/ synth[p].width = Cold /\ Fresh
        \/ Done(call'[c], <<"narrow", p>>)
    BY <1>1, <1>2 DEF LeftInv
  <2>2. CASE StepOf(c) = <<"narrow", p>>
    BY <1>3, <2>2
  <2>3. CASE StepOf(c) = <<"tune", p>>
    BY <2>1, <2>3 DEF Acts
  <2>4. CASE StepOf(c) \notin {<<"tune", p>>, <<"narrow", p>>}
    BY <2>1, <2>4 DEF Acts
  <2>. QED
    BY <2>2, <2>3, <2>4
<1>7. ASSUME NEW p \in PathIds
      PROVE  power'[p] = {PowerFor(p, believed.channel)} \/ Done(call'[c], <<"power", p>>)
  BY <1>1, <1>2, <1>3 DEF LeftInv, Acts
<1>. QED
  BY <1>4, <1>5, <1>6, <1>7

\* So a step of a call keeps the invariant.
LEMMA StepKeeps ==
  ASSUME TypeInv, RadioInv, NEW c \in Callers, Moved(c), Acts(c)
  PROVE  RadioInv'
<1>1. Marks'
  BY MarksKept DEF RadioInv
<1>2. TuningInv' /\ DoneInv' /\ LeftInv'
  BY <1>1, TuningKept, DoneKept, LeftKept DEF RadioInv
<1>3. (believed.band = Band(believed.channel))'
  BY DEF RadioInv, Moved
<1>. QED
  BY <1>1, <1>2, <1>3 DEF RadioInv

\* A call one step on.
Same(m, k) ==
  /\ m.pc = k.pc /\ m.at = k.at + 1 /\ m.channel = k.channel /\ m.width = k.width
  /\ m.switch = k.switch /\ m.alone = k.alone

LEMMA OneOn ==
  ASSUME NEW k \in CallValues, NEW v \in SynthValues
  PROVE  /\ \A m \in {Onward(k), Holding(Onward(k), v)} :
              Same(m, k) /\ m.clean = k.clean /\ m.seen = k.seen
         /\ \A m \in {Disturbed(Onward(k)), Disturbed(Holding(Onward(k), v)),
                      Blinded(Disturbed(Holding(Onward(k), v)))} :
              Same(m, k) /\ ~m.clean /\ (m.seen => k.seen)
         /\ Holding(Onward(k), v).held = v
         /\ ~Blinded(Disturbed(Holding(Onward(k), v))).seen
<1>. DEFINE o == Onward(k)
            h == Holding(o, v)
            d == Disturbed(o)
            e == Disturbed(h)
            b == Blinded(e)
<1>1. o = [k EXCEPT !.at = k.at + 1]
  BY DEF Onward
<1>2. Same(o, k) /\ o.clean = k.clean /\ o.seen = k.seen
  BY <1>1 DEF Same, CallValues
<1>3. /\ o \in [pc : {"idle", "run"}, channel : Listed, width : WidthValues, switch : BOOLEAN,
                at : Nat, held : SynthValues, alone : BOOLEAN, clean : BOOLEAN, seen : BOOLEAN]
  BY <1>1 DEF CallValues
<1>. HIDE DEF o
<1>4. Same(h, k) /\ h.clean = k.clean /\ h.seen = k.seen /\ h.held = v
  BY <1>2, <1>3 DEF Same, Holding
<1>5. Same(d, k) /\ ~d.clean /\ d.seen = k.seen
  BY <1>2, <1>3 DEF Same, Disturbed
<1>6. Same(e, k) /\ ~e.clean /\ e.seen = k.seen
  BY <1>2, <1>3 DEF Same, Disturbed, Holding
<1>7. Same(b, k) /\ ~b.clean /\ ~b.seen
  BY <1>2, <1>3 DEF Same, Disturbed, Holding, Blinded
<1>. HIDE DEF h, d, e, b
<1>8. /\ \A m \in {o, h} : Same(m, k) /\ m.clean = k.clean /\ m.seen = k.seen
      /\ \A m \in {d, e, b} : Same(m, k) /\ ~m.clean /\ (m.seen => k.seen)
      /\ h.held = v /\ ~b.seen
  BY <1>2, <1>4, <1>5, <1>6, <1>7
<1>. QED
  BY <1>8 DEF o, h, d, e, b

LEMMA MovedBy ==
  ASSUME TypeInv, NEW c \in Callers, Running(c), NEW m, GoesTo(c, m),
         Same(m, call[c]), m.seen => call[c].seen, UNCHANGED <<up, table, believed, calls>>,
         \/ ~m.clean
         \/ m.clean = call[c].clean /\ m.seen = call[c].seen,
         spoiled' \/ (UNCHANGED spoiled /\ m.clean = call[c].clean)
  PROVE  Moved(c) /\ call'[c] = m
<1>1. call' = [call EXCEPT ![c] = m] /\ call'[c] = m
  BY DEF GoesTo, TypeInv, CallTypes
<1>2. m.pc = "run" /\ Running(c)
  BY DEF Running, Same
<1>3. ~spoiled' => ~spoiled /\ m.clean = call[c].clean
  OBVIOUS
<1>4. m.clean => call[c].clean /\ m.seen = call[c].seen
  OBVIOUS
<1>. QED
  BY <1>1, <1>2, <1>3, <1>4 DEF Moved, Same

\* The kinds of step differ.
LEMMA KindsDiffer ==
  /\ \A r \in Registers : r \notin PathKinds
  /\ \A r \in Registers : \A s : s = <<r, 0>> => s[1] = r
  /\ \A kind \in PathKinds : \A p, s : s = <<kind, p>> => s[1] = kind /\ s[2] = p
BY RegisterNames

LEMMA WriteBasebandKeeps ==
  ASSUME TypeInv, RadioInv, NEW c \in Callers, WriteBaseband(c)
  PROVE  RadioInv'
<1>. DEFINE k == call[c]
            r == StepOf(c)[1]
            asked == Setting(r, k.channel, k.width)
<1>1. Running(c) /\ r \in Registers /\ UNCHANGED <<up, table, believed, synth, power, calls>>
  BY DEF WriteBaseband
<1>2. k \in CallValues /\ c \in Active
  BY <1>1 DEF TypeInv, CallTypes, Running, Active
<1>3. /\ Same(Onward(k), k) /\ Onward(k).clean = k.clean /\ Onward(k).seen = k.seen
      /\ Same(Disturbed(Onward(k)), k) /\ ~Disturbed(Onward(k)).clean
      /\ Disturbed(Onward(k)).seen => k.seen
  BY <1>2, OneOn, Ones255
<1>4. /\ Moved(c)
      /\ \A q \in Registers \ {r} : chip'[q] = chip[q]
      /\ call'[c].clean => chip'[r] = asked
  <2>1. DOMAIN chip = Registers
    BY DEF TypeInv
  <2>2. CASE GoesTo(c, Onward(k)) /\ UNCHANGED <<lost, spoiled>>
    <3>1. Moved(c) /\ call'[c] = Onward(k)
      BY <1>1, <1>3, <2>2, MovedBy
    <3>2. \E v : chip' = [chip EXCEPT ![r] = v] /\ (k.clean => v = asked)
      <4>1. k.clean => Active = {c}
        BY <1>2 DEF RadioInv, Marks
      <4>2. k.clean => ~\E o \in Callers \ {c} : Running(o)
        BY <4>1 DEF Running, Active
      <4>3. CASE ~k.clean
        BY <4>3 DEF WriteBaseband
      <4>4. CASE k.clean
        <5>. DEFINE contended == \E o \in Callers \ {c} : Running(o) /\ StepOf(o)[1] = r
                    half == IF r \in Compound THEN {Mixed} ELSE {}
        <5>1. ~contended
          BY <4>2, <4>4
        <5>2. ~GoesTo(c, Disturbed(Onward(k)))
          BY <1>3, <3>1, <4>4 DEF GoesTo, TypeInv, CallTypes
        <5>3. \E v \in {asked} \union (IF contended THEN half ELSE {}) :
                chip' = [chip EXCEPT ![r] = v]
          BY <5>2 DEF WriteBaseband
        <5>. HIDE DEF contended, half, asked, r, k
        <5>. QED
          BY <5>1, <5>3
      <4>. QED
        BY <4>3, <4>4
    <3>. QED
      BY <1>1, <1>3, <2>1, <3>1, <3>2
  <2>3. CASE GoesTo(c, Disturbed(Onward(k))) /\ GivenUp
    <3>1. Moved(c) /\ call'[c] = Disturbed(Onward(k))
      BY <1>1, <1>3, <2>3, MovedBy DEF GivenUp
    <3>2. \E v : chip' = [chip EXCEPT ![r] = v]
      BY DEF WriteBaseband
    <3>. QED
      BY <1>3, <2>1, <3>1, <3>2
  <2>. QED
    BY <2>2, <2>3 DEF WriteBaseband
<1>. HIDE DEF r, k
<1>5. Acts(c)
  <2>1. ASSUME NEW q \in Registers
        PROVE  /\ StepOf(c) # <<q, 0>> => chip'[q] = chip[q]
               /\ StepOf(c) = <<q, 0>> /\ call'[c].clean =>
                    chip'[q] = Setting(q, call[c].channel, call[c].width)
    <3>1. CASE q = r
      <4>1. StepOf(c) = <<q, 0>>
        BY <1>1, <3>1, RunningStep, RegisterNames DEF Step, r, PathKinds
      <4>. QED
        BY <1>4, <3>1, <4>1 DEF k
    <3>2. CASE q # r
      BY <1>4, <3>2 DEF r
    <3>. QED
      BY <3>1, <3>2
  <2>2. \A p \in PathIds, kind \in PathKinds : StepOf(c) # <<kind, p>>
    BY <1>1, KindsDiffer DEF r
  <2>3. {"tune", "narrow", "read", "power"} = PathKinds
    BY DEF PathKinds
  <2>. QED
    BY <1>1, <2>1, <2>2, <2>3 DEF Acts
<1>. QED
  BY <1>4, <1>5, StepKeeps

\* A step that writes a synthesizer or a path's power touches no other.
LEMMA OnePath ==
  ASSUME TypeInv, NEW c \in Callers, Running(c), StepOf(c)[1] \in PathKinds
  PROVE  /\ StepOf(c)[2] \in PathIds /\ StepOf(c) = <<StepOf(c)[1], StepOf(c)[2]>>
         /\ \A r \in Registers : StepOf(c) # <<r, 0>>
         /\ \A kind \in PathKinds, p \in PathIds :
              StepOf(c) = <<kind, p>> <=> kind = StepOf(c)[1] /\ p = StepOf(c)[2]
<1>1. StepOf(c) \in Step /\ StepOf(c)[2] \in PathIds
  BY RunningStep
<1>2. StepOf(c) = <<StepOf(c)[1], StepOf(c)[2]>>
  BY <1>1 DEF Step
<1>3. \A r \in Registers : StepOf(c) # <<r, 0>>
  BY KindsDiffer
<1>. QED
  BY <1>1, <1>2, <1>3

LEMMA TunePathKeeps ==
  ASSUME TypeInv, RadioInv, NEW c \in Callers, TunePath(c), ~GoesTo(c, Idle)
  PROVE  RadioInv'
<1>. DEFINE k == call[c]
            p == StepOf(c)[2]
<1>1. Running(c) /\ StepOf(c)[1] = "tune" /\ UNCHANGED <<up, table, believed, chip, power, calls>>
  BY DEF TunePath
<1>2. k \in CallValues
  BY DEF TypeInv, CallTypes
<1>3. /\ Same(Onward(k), k) /\ Onward(k).clean = k.clean /\ Onward(k).seen = k.seen
  BY <1>2, OneOn, Ones255
<1>4. \E v : /\ synth' = [synth EXCEPT ![p] = v] /\ Aims(v, k.channel)
             /\ GoesTo(c, Onward(k))
             /\ spoiled' \/ (UNCHANGED spoiled /\ v.width = synth[p].width)
  <2>1. \A old : Aims(Tuned(old, k.channel), k.channel)
                 /\ Tuned(old, k.channel).width = old.width
    BY DEF Aims, Tuned
  <2>2. CASE GoesTo(c, Onward(k)) /\ UNCHANGED <<lost, spoiled>>
             /\ synth' = [synth EXCEPT ![p] = Tuned(synth[p], k.channel)]
    BY <2>1, <2>2
  <2>3. CASE GoesTo(c, Onward(k)) /\ GivenUp
             /\ synth' = [synth EXCEPT ![p] = Tuned(Ones, k.channel)]
    BY <2>1, <2>3 DEF GivenUp
  <2>. QED
    BY <2>2, <2>3 DEF TunePath, GivesUpCall
<1>5. Moved(c) /\ call'[c] = Onward(k)
  BY <1>1, <1>3, <1>4, MovedBy
<1>6. Acts(c)
  <2>1. /\ p \in PathIds
        /\ \A r \in Registers : StepOf(c) # <<r, 0>>
        /\ \A kind \in PathKinds, q \in PathIds :
             StepOf(c) = <<kind, q>> <=> kind = "tune" /\ q = p
    BY <1>1, OnePath DEF PathKinds
  <2>2. {"tune", "narrow", "read", "power"} = PathKinds
    BY DEF PathKinds
  <2>3. PICK v : /\ synth' = [synth EXCEPT ![p] = v] /\ Aims(v, k.channel)
                 /\ spoiled' \/ (UNCHANGED spoiled /\ v.width = synth[p].width)
    BY <1>4
  <2>4. synth'[p] = v /\ \A q \in PathIds \ {p} : synth'[q] = synth[q]
    BY <2>1, <2>3 DEF TypeInv
  <2>. HIDE DEF p
  <2>. QED
    BY <1>1, <2>1, <2>2, <2>3, <2>4 DEF Acts
<1>. QED
  BY <1>5, <1>6, StepKeeps

LEMMA ReadWidthKeeps ==
  ASSUME TypeInv, RadioInv, NEW c \in Callers, ReadWidth(c)
  PROVE  RadioInv'
<1>. DEFINE k == call[c]
            p == StepOf(c)[2]
<1>1. /\ Running(c) /\ StepOf(c)[1] = "read"
      /\ UNCHANGED <<up, table, believed, chip, synth, power, calls>>
  BY DEF ReadWidth
<1>2. k \in CallValues
  BY DEF TypeInv, CallTypes
<1>3. /\ p \in PathIds /\ synth[p] \in SynthValues
      /\ \A r \in Registers : StepOf(c) # <<r, 0>>
      /\ \A kind \in PathKinds, q \in PathIds :
           StepOf(c) = <<kind, q>> <=> kind = "read" /\ q = p
  BY <1>1, OnePath DEF PathKinds, TypeInv
<1>4. Moved(c) /\ (call'[c].seen => call'[c].held = synth[p])
  <2>1. CASE GoesTo(c, Holding(Onward(k), synth[p])) /\ UNCHANGED <<lost, spoiled>>
    <3>. DEFINE m == Holding(Onward(k), synth[p])
    <3>1. Same(m, k) /\ m.clean = k.clean /\ m.seen = k.seen /\ m.held = synth[p]
      BY <1>2, <1>3, OneOn
    <3>2. GoesTo(c, m) /\ UNCHANGED spoiled
      BY <2>1
    <3>. HIDE DEF m
    <3>3. Moved(c) /\ call'[c] = m
      BY <1>1, <3>1, <3>2, MovedBy
    <3>. QED
      BY <3>1, <3>3
  <2>2. CASE GoesTo(c, Blinded(Disturbed(Holding(Onward(k), Ones)))) /\ GivenUp
    <3>. DEFINE m == Blinded(Disturbed(Holding(Onward(k), Ones)))
    <3>1. Same(m, k) /\ ~m.clean /\ ~m.seen
      BY <1>2, Ones255, OneOn
    <3>2. GoesTo(c, m) /\ spoiled'
      BY <2>2 DEF GivenUp
    <3>. HIDE DEF m
    <3>3. Moved(c) /\ call'[c] = m
      BY <1>1, <3>1, <3>2, MovedBy
    <3>. QED
      BY <3>1, <3>3
  <2>. QED
    BY <2>1, <2>2 DEF ReadWidth
<1>5. Acts(c)
  <2>1. {"tune", "narrow", "read", "power"} = PathKinds
    BY DEF PathKinds
  <2>. HIDE DEF p
  <2>. QED
    BY <1>1, <1>3, <1>4, <2>1 DEF Acts
<1>. QED
  BY <1>4, <1>5, StepKeeps

LEMMA WriteWidthKeeps ==
  ASSUME TypeInv, RadioInv, NEW c \in Callers, WriteWidth(c)
  PROVE  RadioInv'
<1>. DEFINE k == call[c]
            p == StepOf(c)[2]
            back == [k.held EXCEPT !.width = k.width]
<1>1. /\ Running(c) /\ StepOf(c)[1] = "narrow"
      /\ UNCHANGED <<up, table, believed, chip, power, calls>>
  BY DEF WriteWidth
<1>2. k \in CallValues
  BY DEF TypeInv, CallTypes
<1>3. /\ p \in PathIds
      /\ \A r \in Registers : StepOf(c) # <<r, 0>>
      /\ \A kind \in PathKinds, q \in PathIds :
           StepOf(c) = <<kind, q>> <=> kind = "narrow" /\ q = p
  BY <1>1, OnePath DEF PathKinds
<1>4. back.width = k.width /\ back.channel = k.held.channel /\ back.code = k.held.code
  BY <1>2 DEF CallValues, SynthValues
<1>5. \E v \in {synth[p], back} : /\ Moved(c) /\ synth' = [synth EXCEPT ![p] = v]
                                  /\ call'[c].clean => v = back
  <2>1. CASE /\ synth' = [synth EXCEPT ![p] = back]
             /\ GoesTo(c, Holding(Onward(k), Ones)) /\ UNCHANGED <<lost, spoiled>>
    <3>. DEFINE m == Holding(Onward(k), Ones)
    <3>1. Same(m, k) /\ m.clean = k.clean /\ m.seen = k.seen
      BY <1>2, Ones255, OneOn
    <3>2. GoesTo(c, m) /\ UNCHANGED spoiled
      BY <2>1
    <3>. HIDE DEF m
    <3>3. Moved(c)
      BY <1>1, <3>1, <3>2, MovedBy
    <3>. QED
      BY <2>1, <3>3
  <2>2. CASE /\ \E v \in {synth[p], back} : synth' = [synth EXCEPT ![p] = v]
             /\ GoesTo(c, Disturbed(Holding(Onward(k), Ones))) /\ GivenUp
    <3>. DEFINE m == Disturbed(Holding(Onward(k), Ones))
    <3>1. Same(m, k) /\ ~m.clean /\ (m.seen => k.seen)
      BY <1>2, Ones255, OneOn
    <3>2. GoesTo(c, m) /\ spoiled'
      BY <2>2 DEF GivenUp
    <3>. HIDE DEF m, back, p
    <3>3. Moved(c) /\ call'[c] = m
      BY <1>1, <3>1, <3>2, MovedBy
    <3>. QED
      BY <2>2, <3>1, <3>3
  <2>. QED
    BY <2>1, <2>2 DEF WriteWidth
<1>6. Acts(c)
  <2>1. {"tune", "narrow", "read", "power"} = PathKinds
    BY DEF PathKinds
  <2>2. PICK v \in {synth[p], back} : /\ synth' = [synth EXCEPT ![p] = v]
                                      /\ call'[c].clean => v = back
    BY <1>5
  <2>3. synth'[p] = v /\ \A q \in PathIds \ {p} : synth'[q] = synth[q]
    BY <1>3, <2>2 DEF TypeInv
  <2>. HIDE DEF p, back
  <2>. QED
    BY <1>1, <1>3, <1>4, <2>1, <2>2, <2>3 DEF Acts
<1>. QED
  BY <1>5, <1>6, StepKeeps

LEMMA WritePowerKeeps ==
  ASSUME TypeInv, RadioInv, NEW c \in Callers, WritePower(c)
  PROVE  RadioInv'
<1>. DEFINE k == call[c]
            p == StepOf(c)[2]
            asked == {PowerFor(p, k.channel)}
<1>1. /\ Running(c) /\ StepOf(c)[1] = "power"
      /\ UNCHANGED <<up, table, believed, chip, synth, calls>>
  BY DEF WritePower
<1>2. k \in CallValues
  BY DEF TypeInv, CallTypes
<1>3. /\ p \in PathIds
      /\ \A r \in Registers : StepOf(c) # <<r, 0>>
      /\ \A kind \in PathKinds, q \in PathIds :
           StepOf(c) = <<kind, q>> <=> kind = "power" /\ q = p
  BY <1>1, OnePath DEF PathKinds
<1>4. \E v : /\ Moved(c) /\ power' = [power EXCEPT ![p] = v]
             /\ call'[c].clean => v = asked
  <2>1. CASE GoesTo(c, Onward(k)) /\ UNCHANGED <<lost, spoiled>>
    <3>. DEFINE m == Onward(k)
    <3>1. Same(m, k) /\ m.clean = k.clean /\ m.seen = k.seen
      BY <1>2, Ones255, OneOn
    <3>2. GoesTo(c, m) /\ UNCHANGED spoiled
      BY <2>1
    <3>3. Moved(c) /\ call'[c] = m
      <4>. HIDE DEF m
      <4>. QED
        BY <1>1, <3>1, <3>2, MovedBy
    <3>4. CASE ~k.clean
      <4>1. \E v : power' = [power EXCEPT ![p] = v]
        BY DEF WritePower
      <4>. QED
        BY <3>1, <3>3, <3>4, <4>1
    <3>5. CASE k.clean
      <4>. DEFINE contended == \E o \in Callers \ {c} : Running(o) /\ StepOf(o) = StepOf(c)
                  other == asked \union power[p]
      <4>1. c \in Active
        BY <1>1 DEF Running, Active
      <4>2. Active = {c}
        BY <3>5, <4>1 DEF RadioInv, Marks
      <4>3. ~contended
        BY <4>2 DEF Running, Active
      <4>4. ~GoesTo(c, Disturbed(Onward(k)))
        <5>1. ~Disturbed(Onward(k)).clean
          BY <1>2, Ones255, OneOn
        <5>. QED
          BY <3>1, <3>3, <3>5, <5>1 DEF GoesTo, TypeInv, CallTypes
      <4>5. \E v \in {asked} \union (IF contended THEN {other} ELSE {}) :
              power' = [power EXCEPT ![p] = v]
        BY <4>4 DEF WritePower
      <4>. HIDE DEF contended, other, asked, p, k, m
      <4>. QED
        BY <3>3, <4>3, <4>5
    <3>. QED
      BY <3>4, <3>5
  <2>2. CASE GoesTo(c, Disturbed(Onward(k))) /\ GivenUp
    <3>. DEFINE m == Disturbed(Onward(k))
    <3>1. Same(m, k) /\ ~m.clean /\ (m.seen => k.seen)
      BY <1>2, Ones255, OneOn
    <3>2. GoesTo(c, m) /\ spoiled'
      BY <2>2 DEF GivenUp
    <3>3. \E v : power' = [power EXCEPT ![p] = v]
      BY DEF WritePower
    <3>. HIDE DEF m, asked, p
    <3>4. Moved(c) /\ call'[c] = m
      BY <1>1, <3>1, <3>2, MovedBy
    <3>. QED
      BY <3>1, <3>3, <3>4
  <2>. QED
    BY <2>1, <2>2 DEF WritePower
<1>5. Acts(c)
  <2>1. {"tune", "narrow", "read", "power"} = PathKinds
    BY DEF PathKinds
  <2>2. PICK v : power' = [power EXCEPT ![p] = v] /\ (call'[c].clean => v = asked)
    BY <1>4
  <2>3. power'[p] = v /\ \A q \in PathIds \ {p} : power'[q] = power[q]
    BY <1>3, <2>2 DEF TypeInv
  <2>. HIDE DEF p
  <2>. QED
    BY <1>1, <1>3, <2>1, <2>2, <2>3 DEF Acts
<1>. QED
  BY <1>4, <1>5, StepKeeps

\* A call that ends leaves the radio as it found it, when it was cut short, and
\* to nobody who runs alone.
LEMMA CallEnds ==
  ASSUME TypeInv, Marks, NEW c \in Active, GoesTo(c, Idle)
  PROVE  /\ Active' = Active \ {c}
         /\ \A d \in Active' : call'[d] = call[d] /\ ~call[d].alone /\ ~call[d].clean
<1>1. c \in Callers /\ call' = [call EXCEPT ![c] = Idle]
  BY DEF GoesTo, Active
<1>2. call'[c] = Idle /\ \A d \in Callers \ {c} : call'[d] = call[d]
  BY <1>1 DEF TypeInv, CallTypes
<1>3. Active' = Active \ {c}
  BY <1>2 DEF Active, Idle
<1>4. ASSUME NEW d \in Active'  PROVE call'[d] = call[d] /\ ~call[d].alone /\ ~call[d].clean
  <2>1. d \in Active /\ d # c
    BY <1>3
  <2>2. d \in Callers /\ call'[d] = call[d]
    BY <1>2, <2>1 DEF Active
  <2>. QED
    BY <2>1, <2>2 DEF Marks
<1>. QED
  BY <1>3, <1>4

LEMMA GiveUpKeeps ==
  ASSUME TypeInv, RadioInv, NEW c \in Callers, TunePath(c), GoesTo(c, Idle)
  PROVE  RadioInv'
<1>1. c \in Active /\ call[c] \in CallValues
  BY DEF TunePath, Running, Active, TypeInv, CallTypes
<1>2. UNCHANGED believed /\ spoiled'
  <2>1. ~GoesTo(c, Onward(call[c]))
    <3>1. Onward(call[c]).pc = "run"
      BY <1>1, OneOn, Ones255 DEF Active, Same
    <3>2. Idle # Onward(call[c])
      BY <3>1 DEF Idle
    <3>. QED
      BY <3>2 DEF GoesTo, TypeInv, CallTypes
  <2>. QED
    BY <2>1 DEF TunePath, GivenUp
<1>3. \A d \in Active' : call'[d] = call[d] /\ ~call[d].alone /\ ~call[d].clean
  BY <1>1, CallEnds DEF RadioInv
<1>4. Marks' /\ TuningInv' /\ DoneInv' /\ LeftInv'
  BY <1>2, <1>3 DEF Marks, TuningInv, DoneInv, LeftInv
<1>. QED
  BY <1>2, <1>4 DEF RadioInv

\* When a call has taken its last step it has taken every one.
LEMMA AllDone ==
  ASSUME TypeInv, NEW c \in Callers, Succeeds(c), NEW s, Has(Steps(call[c]), s)
  PROVE  Done(call[c], s)
<1>1. call[c].at - 1 = Len(Steps(call[c]))
  BY CallShape DEF Succeeds
<1>. QED
  BY <1>1 DEF Has, Done

\* What a channel of 2.4 GHz asks of the AGC table.
LEMMA AgcBelow ==
  ASSUME NEW ch \in Listed, Band(ch) = Band2G
  PROVE  AgcTable(ch) = 0
<1>1. ch \in 1 .. 177 /\ ch <= 14
  BY ChannelNumbers DEF Band, Band2G, Band5G
<1>. QED
  BY <1>1 DEF AgcTable

LEMMA FinishKeeps ==
  ASSUME TypeInv, RadioInv, NEW c \in Callers, Finish(c)
  PROVE  RadioInv'
<1>. DEFINE k == call[c]
            ch == k.channel
<1>1. /\ Succeeds(c) /\ GoesTo(c, Idle) /\ UNCHANGED <<up, table, chip, synth, power>>
      /\ believed' = [channel |-> ch, band |-> Band(ch), width |-> k.width]
      /\ spoiled' = (spoiled /\ ~(k.switch /\ k.clean))
  BY DEF Finish
<1>2. c \in Active /\ ch \in Listed /\ up
  BY <1>1, CallShape DEF Succeeds, Active, TypeInv, CallTypes
<1>3. \A d \in Active' : call'[d] = call[d] /\ ~call[d].alone /\ ~call[d].clean
  BY <1>1, <1>2, CallEnds DEF RadioInv
<1>4. ~spoiled' => /\ k.clean /\ k.alone /\ k.seen /\ Active' = {}
                   /\ ~k.switch => ~spoiled /\ believed.band = Band(ch)
  <2>. SUFFICES ASSUME ~spoiled'
                PROVE  /\ k.clean /\ k.alone /\ k.seen /\ Active' = {}
                       /\ ~k.switch => ~spoiled /\ believed.band = Band(ch)
    OBVIOUS
  <2>1. k.clean
    BY <1>1, <1>2 DEF RadioInv, Marks
  <2>2. k.alone /\ k.seen /\ Active = {c} /\ k.switch = (Band(ch) # believed.band)
    BY <1>2, <2>1 DEF RadioInv, Marks, NeedsSwitch
  <2>3. Active' = {}
    BY <1>1, <1>2, <2>2, CallEnds DEF RadioInv
  <2>4. ~k.switch => ~spoiled
    BY <1>1
  <2>. QED
    BY <2>1, <2>2, <2>3, <2>4
<1>5. Marks' /\ TuningInv' /\ DoneInv'
  BY <1>3, <1>4 DEF Marks, TuningInv, DoneInv
<1>6. ASSUME ~spoiled', NEW r \in Registers
      PROVE  \/ chip[r] = Setting(r, ch, k.width)
             \/ chip[r] = Cold /\ r \in BandGroups /\ Band(ch) = Band2G
  <2>1. Done(k, <<r, 0>>) => chip[r] = Setting(r, ch, k.width)
    BY <1>2, <1>4, <1>6 DEF RadioInv, DoneInv
  <2>2. Reprograms(Steps(k), ch, k.switch)
    BY CallShape
  <2>3. CASE Has(Steps(k), <<r, 0>>)
    BY <1>1, <2>1, <2>3, AllDone
  <2>4. CASE ~Has(Steps(k), <<r, 0>>)
    <3>1. ~k.switch /\ (r = "agcSelect" => Band(ch) # Band5G) /\ r \in BandGroups \union {"agcSelect"}
      BY <2>2, <2>4 DEF Reprograms, Registers
    <3>2. \/ chip[r] = Setting(r, believed.channel, believed.width)
          \/ chip[r] = Cold /\ LeftCold(r)
          \/ DoneBy(<<r, 0>>)
      BY <1>2, <1>4, <1>6, <3>1 DEF RadioInv, LeftInv
    <3>3. CASE DoneBy(<<r, 0>>)
      <4>1. Active = {c}
        BY <1>2, <1>4, <1>6 DEF RadioInv, Marks
      <4>. QED
        BY <2>1, <3>3, <4>1 DEF DoneBy
    <3>4. CASE chip[r] = Setting(r, believed.channel, believed.width)
      <4>1. Band(believed.channel) = Band(ch) /\ believed.channel \in Listed
        BY <1>4, <1>6, <3>1 DEF RadioInv, TypeInv
      <4>2. CASE r \in BandGroups
        BY <3>4, <4>1, <4>2 DEF Setting
      <4>3. CASE r = "agcSelect"
        <5>1. Band(ch) = Band2G
          BY <3>1, <4>3 DEF Band
        <5>2. AgcTable(ch) = 0 /\ AgcTable(believed.channel) = 0
          BY <1>2, <4>1, <5>1, AgcBelow
        <5>3. r \notin BandGroups
          BY <4>3 DEF BandGroups
        <5>. QED
          BY <3>4, <4>3, <5>2, <5>3 DEF Setting
      <4>. QED
        BY <3>1, <4>2, <4>3
    <3>5. CASE chip[r] = Cold /\ LeftCold(r)
      <4>1. r # "width"
        BY <3>1 DEF BandGroups
      <4>2. believed.band = Band(ch)
        BY <1>4, <1>6, <3>1
      <4>. QED
        BY <3>5, <4>1, <4>2 DEF LeftCold
    <3>. QED
      BY <3>2, <3>3, <3>4, <3>5
  <2>. QED
    BY <2>3, <2>4
<1>7. ASSUME ~spoiled', NEW p \in PathIds
      PROVE  Aims(synth[p], ch) /\ synth[p].width = k.width /\ power[p] = {PowerFor(p, ch)}
  <2>1. /\ Has(Steps(k), <<"tune", p>>) /\ Has(Steps(k), <<"narrow", p>>)
        /\ Has(Steps(k), <<"power", p>>)
    BY CallShape DEF Reprograms
  <2>2. /\ Done(k, <<"tune", p>>) /\ Done(k, <<"narrow", p>>) /\ Done(k, <<"power", p>>)
    BY <1>1, <2>1, AllDone
  <2>. QED
    BY <1>2, <1>4, <1>7, <2>2 DEF RadioInv, TuningInv, DoneInv
<1>8. LeftInv'
  <2>. HIDE DEF ch, k
  <2>1. /\ believed'.channel = ch /\ believed'.band = Band(ch) /\ believed'.width = k.width
        /\ UNCHANGED <<table, chip, synth, power>>
    BY <1>1
  <2>2. ASSUME ~spoiled', NEW r \in Registers
        PROVE  \/ chip'[r] = Setting(r, believed'.channel, believed'.width)
               \/ chip'[r] = Cold /\ LeftCold(r)'
    BY <1>6, <2>1, <2>2 DEF LeftCold
  <2>3. ASSUME ~spoiled', NEW p \in PathIds
        PROVE  /\ Aims(synth'[p], believed'.channel) /\ synth'[p].width = believed'.width
               /\ power'[p] = {PowerFor(p, believed.channel)'}
    BY <1>7, <2>1, <2>3 DEF PowerFor
  <2>. QED
    BY <2>2, <2>3 DEF LeftInv
<1>9. (believed.band = Band(believed.channel))'
  BY <1>1
<1>. QED
  BY <1>5, <1>8, <1>9 DEF RadioInv

LEMMA SetChannelKeeps ==
  ASSUME TypeInv, RadioInv, NEW c \in Callers, NEW ch \in Channels, NEW w \in Widths,
         SetChannel(c, ch, w)
  PROVE  RadioInv'
<1>. DEFINE b == Begun(ch, w)
<1>1. /\ call[c].pc = "idle" /\ UNCHANGED <<up, table, believed, chip, synth, power>>
      /\ \A d \in Callers : call'[d] = IF d = c THEN b
                                        ELSE IF d \in Active THEN Disturbed(Joined(call[d]))
                                        ELSE call[d]
      /\ spoiled' = (spoiled \/ Active # {})
  BY DEF SetChannel
<1>2. /\ b.pc = "run" /\ b.at = 1 /\ b.channel = ch /\ b.seen
      /\ b.alone = (Active = {}) /\ b.clean = (Active = {})
      /\ b.switch = (Band(ch) # believed.band)
  BY DEF Begun, NeedsSwitch
<1>3. \A s : ~Done(b, s)
  BY <1>2 DEF Done
<1>. HIDE DEF b
<1>4. ASSUME NEW d \in Active
      PROVE  call'[d].pc = "run" /\ ~call'[d].alone /\ ~call'[d].clean
  <2>1. d \in Callers /\ d # c /\ call[d] \in CallValues /\ call[d].pc = "run"
    BY <1>1 DEF Active, TypeInv, CallTypes
  <2>2. call'[d] = Disturbed(Joined(call[d]))
    BY <1>1, <2>1
  <2>. QED
    BY <2>1, <2>2 DEF Disturbed, Joined, CallValues
<1>5. Active' = Active \union {c}
  BY <1>1, <1>2, <1>4 DEF Active
<1>6. ASSUME NEW d \in Active', call'[d].alone \/ call'[d].clean
      PROVE  d = c /\ call'[d] = b /\ Active = {} /\ Active' = {c}
  BY <1>1, <1>2, <1>4, <1>5, <1>6
<1>7. Marks'
  <2>. SUFFICES ASSUME NEW d \in Active'
                PROVE  /\ call'[d].alone => Active' = {d}
                       /\ call'[d].clean => /\ call'[d].alone /\ call'[d].seen
                                            /\ call'[d].switch = (Band(call'[d].channel) # believed.band)
                       /\ ~spoiled' => call'[d].clean
    BY <1>1 DEF Marks, NeedsSwitch
  <2>1. ~spoiled' => call'[d].clean
    BY <1>1, <1>2, <1>5
  <2>. QED
    BY <1>2, <1>6, <2>1
<1>8. TuningInv' /\ DoneInv'
  <2>1. ASSUME NEW d \in Active', call'[d].alone, NEW p \in PathIds,
               Running(d)', StepOf(d)' = <<"narrow", p>>
        PROVE  FALSE
    <3>1. d = c /\ call'[c] = b
      BY <1>6, <2>1
    <3>2. b.channel \in Listed /\ b.switch \in BOOLEAN
      BY <1>2 DEF Listed
    <3>3. Paired(Steps(b))
      BY <3>2, ProgramShape DEF Steps
    <3>4. 1 \in 1 .. Len(Steps(b)) /\ Steps(b)[1] = <<"narrow", p>>
      BY <1>2, <2>1, <3>1 DEF Running, StepOf
    <3>. QED
      BY <3>3, <3>4 DEF Paired
  <2>2. TuningInv'
    BY <1>3, <1>6, <2>1 DEF TuningInv
  <2>3. DoneInv'
    BY <1>3, <1>6 DEF DoneInv
  <2>. QED
    BY <2>2, <2>3
<1>9. LeftInv'
  <2>. SUFFICES ASSUME up, ~spoiled'
                PROVE  /\ \A r \in Registers :
                            \/ chip[r] = Setting(r, believed.channel, believed.width)
                            \/ chip[r] = Cold /\ LeftCold(r)'
                       /\ \A p \in PathIds :
                            /\ Aims(synth[p], believed.channel)
                            /\ synth[p].width = believed.width \/ (synth[p].width = Cold /\ Fresh')
                            /\ power[p] = {PowerFor(p, believed.channel)}
    BY <1>1 DEF LeftInv, PowerFor
  <2>1. ~spoiled /\ Active = {}
    BY <1>1
  <2>2. \A s : ~DoneBy(s)
    BY <2>1 DEF DoneBy
  <2>3. Fresh => Fresh'
    <3>1. calls' = calls + 1
      BY DEF SetChannel
    <3>. QED
      BY <1>5, <2>1, <3>1 DEF Fresh
  <2>4. \A r : LeftCold(r) => LeftCold(r)'
    BY <1>1, <2>3 DEF LeftCold
  <2>. QED
    BY <2>1, <2>2, <2>3, <2>4 DEF RadioInv, LeftInv
<1>. QED
  BY <1>1, <1>7, <1>8, <1>9 DEF RadioInv

\* Before Initialize() no call was made, and the driver believes in channel 1.
Before ==
  ~up => calls = 0 /\ believed = [channel |-> 1, band |-> Band2G, width |-> 20]

LEMMA BeforeHolds == Spec => []Before
<1>1. Init => Before
  BY DEF Init, Before
<1>2. TypeInv /\ Before /\ [Next]_vars => Before'
  <2>. SUFFICES ASSUME TypeInv, Before, [Next]_vars  PROVE Before'
    OBVIOUS
  <2>1. CASE Initialize
    BY <2>1 DEF Initialize, Before
  <2>2. ASSUME NEW c \in Callers, Caller(c)  PROVE up'
    <3>1. CASE \E ch \in Channels, w \in Widths : SetChannel(c, ch, w)
      BY <3>1 DEF SetChannel
    <3>2. CASE Finish(c)
      BY <3>2 DEF Finish, Succeeds, TypeInv, CallTypes
    <3>3. CASE Running(c) /\ UNCHANGED up
      BY <3>3 DEF Running, TypeInv, CallTypes
    <3>. QED
      BY <2>2, <3>1, <3>2, <3>3
      DEF Caller, WriteBaseband, TunePath, ReadWidth, WriteWidth, WritePower
  <2>3. CASE UNCHANGED vars
    BY <2>3 DEF vars, Before
  <2>. QED
    BY <2>1, <2>2, <2>3 DEF Next, Before
<1>. QED
  BY <1>1, <1>2, TypeInvHolds, PTL DEF Spec

LEMMA InitializeKeeps ==
  ASSUME TypeInv, RadioInv, Before, Initialize
  PROVE  RadioInv'
<1>. DEFINE g == GroupIndex(believed.channel)
<1>1. /\ UNCHANGED <<believed, call, calls>> /\ ~up
      /\ chip' = [r \in Registers |-> IF r \in TableSets THEN Setting(r, 1, 20) ELSE Cold]
      /\ synth' = [p \in PathIds |-> Synth(1, Cold)]
  BY DEF Initialize
<1>2. PICK landed \in [PathIds -> {"all", "some", "none"}] :
        /\ power' = [p \in PathIds |->
             (IF landed[p] = "none" THEN {} ELSE {table'[p][g]})
               \union (IF landed[p] = "all" THEN {} ELSE power[p])]
        /\ \/ (\A p \in PathIds : landed[p] = "all") /\ UNCHANGED <<lost, spoiled>>
           \/ GivenUp
  BY DEF Initialize
<1>3. calls = 0 /\ believed = [channel |-> 1, band |-> Band2G, width |-> 20]
  BY <1>1 DEF Before
<1>4. Active = {} /\ Active' = {}
  BY <1>1 DEF Active, TypeInv, CallTypes
<1>5. Marks' /\ TuningInv' /\ DoneInv'
  BY <1>4 DEF Marks, TuningInv, DoneInv
<1>6. LeftInv'
  <2>. SUFFICES ASSUME ~spoiled'
                PROVE  /\ \A r \in Registers :
                            \/ chip'[r] = Setting(r, believed.channel, believed.width)
                            \/ chip'[r] = Cold /\ LeftCold(r)'
                       /\ \A p \in PathIds :
                            /\ Aims(synth'[p], believed.channel)
                            /\ synth'[p].width = Cold /\ Fresh'
                            /\ power'[p] = {PowerFor(p, believed.channel)'}
    BY <1>1 DEF LeftInv
  <2>1. \A p \in PathIds : landed[p] = "all"
    BY <1>2 DEF GivenUp
  <2>2. Fresh'
    BY <1>1, <1>3 DEF Fresh
  <2>3. ASSUME NEW r \in Registers
        PROVE  \/ chip'[r] = Setting(r, believed.channel, believed.width)
               \/ chip'[r] = Cold /\ LeftCold(r)'
    <3>1. CASE r \in TableSets
      BY <1>1, <1>3, <3>1
    <3>2. CASE r \notin TableSets
      <4>1. r \in BandGroups \/ r = "width"
        BY <3>2 DEF Registers, TableSets
      <4>2. chip'[r] = Cold /\ believed'.band = Band2G
        BY <1>1, <1>3, <3>2
      <4>. QED
        BY <2>2, <4>1, <4>2 DEF LeftCold
    <3>. QED
      BY <3>1, <3>2
  <2>4. ASSUME NEW p \in PathIds
        PROVE  Aims(synth'[p], believed.channel) /\ synth'[p].width = Cold
    BY <1>1, <1>3 DEF Aims, Synth
  <2>5. ASSUME NEW p \in PathIds  PROVE power'[p] = {PowerFor(p, believed.channel)'}
    <3>1. power'[p] = {table'[p][g]}
      BY <1>2, <2>1
    <3>. QED
      BY <1>1, <3>1 DEF PowerFor
  <2>. QED
    BY <2>2, <2>3, <2>4, <2>5
<1>. QED
  BY <1>1, <1>5, <1>6 DEF RadioInv

LEMMA InitRadio == Init => RadioInv
<1>. SUFFICES ASSUME Init  PROVE RadioInv
  OBVIOUS
<1>1. Active = {}
  BY DEF Init, Active, Idle
<1>2. Marks /\ TuningInv /\ DoneInv
  BY <1>1 DEF Marks, TuningInv, DoneInv
<1>3. LeftInv
  BY DEF Init, LeftInv
<1>4. believed.band = Band(believed.channel)
  BY DEF Init, Band
<1>. QED
  BY <1>2, <1>3, <1>4 DEF RadioInv

LEMMA RestKeeps ==
  ASSUME TypeInv, RadioInv, UNCHANGED vars
  PROVE  RadioInv'
<1>1. Active' = Active
  BY DEF vars, Active
<1>2. Marks' /\ TuningInv' /\ DoneInv'
  BY <1>1 DEF vars, RadioInv, Marks, NeedsSwitch, TuningInv, DoneInv, Running, StepOf, PowerFor
<1>3. LeftInv'
  BY <1>1 DEF vars, RadioInv, LeftInv, LeftCold, Fresh, DoneBy, PowerFor
<1>. QED
  BY <1>2, <1>3 DEF vars, RadioInv

LEMMA RadioInvHolds == Spec => [](TypeInv /\ RadioInv)
<1>1. TypeInv /\ RadioInv /\ Before /\ [Next]_vars => RadioInv'
  <2>. SUFFICES ASSUME TypeInv, RadioInv, Before, [Next]_vars  PROVE RadioInv'
    OBVIOUS
  <2>1. ASSUME NEW c \in Callers, Caller(c)  PROVE RadioInv'
    BY <2>1, SetChannelKeeps, WriteBasebandKeeps, TunePathKeeps, GiveUpKeeps,
       ReadWidthKeeps, WriteWidthKeeps, WritePowerKeeps, FinishKeeps DEF Caller
  <2>. QED
    BY <2>1, InitializeKeeps, RestKeeps DEF Next
<1>. QED
  BY <1>1, InitRadio, TypeInvHolds, BeforeHolds, PTL DEF Spec

\* Between calls the registers, the synthesizers and the powers are what the
\* channel the driver believes in asks for, whatever lost accesses and crossing
\* calls there were before the last undisturbed switch of the band: SetChannel
\* forgets no register in any order of channels, on any number of paths.  Only
\* what the cold start left outlasts it: the widths no longer than until the
\* first call is through, and the groups of the band until 5 GHz is visited.
THEOREM RadioMatchesBelief == Spec => []RadioWhole
<1>1. TypeInv /\ RadioInv => RadioWhole
  <2>. SUFFICES ASSUME TypeInv, RadioInv, up, Active = {}, ~spoiled
                PROVE  /\ \A r \in Registers :
                            \/ chip[r] = Setting(r, believed.channel, believed.width)
                            \/ chip[r] = Cold /\ LeftCold(r)
                       /\ Fresh => calls = 0
                       /\ \A p \in PathIds :
                            /\ Aims(synth[p], believed.channel)
                            /\ synth[p].width = believed.width \/ (synth[p].width = Cold /\ Fresh)
                            /\ power[p] = {PowerFor(p, believed.channel)}
    <3>1. TypeInv => \A p \in PathIds : synth[p] \in SynthValues
      BY DEF TypeInv
    <3>2. ASSUME NEW v \in SynthValues, NEW ch, NEW w, Aims(v, ch), v.width = w
          PROVE  v = Synth(ch, w)
      BY <3>2 DEF Aims, Synth, SynthValues
    <3>. QED
      BY <3>1, <3>2 DEF RadioWhole, LeftCold, RadioInv
  <2>1. \A s : ~DoneBy(s)
    BY DEF DoneBy
  <2>2. Fresh => calls = 0
    BY DEF Fresh
  <2>. QED
    BY <2>1, <2>2 DEF RadioInv, LeftInv
<1>. QED
  BY <1>1, RadioInvHolds, PTL

\* No synthesizer is ever on a channel of the other band before _SwitchBand has
\* reprogrammed every group of the band: the tuning follows it in every program.
THEOREM BandComesFirst == Spec => []BandBeforeSynth
<1>1. TypeInv /\ RadioInv => BandBeforeSynth
  <2>. SUFFICES ASSUME TypeInv, RadioInv, up, ~spoiled, NEW p \in PathIds,
                       Band(synth[p].channel) # believed.band, NEW r \in BandGroups
                PROVE  chip[r] = Band(synth[p].channel)
    BY DEF BandBeforeSynth
  <2>1. ~Aims(synth[p], believed.channel)
    BY DEF RadioInv, Aims
  <2>2. PICK c \in Active : Done(call[c], <<"tune", p>>)
    BY <2>1 DEF RadioInv, LeftInv, DoneBy
  <2>3. /\ call[c].clean /\ call[c].alone /\ call[c].seen
        /\ call[c].switch = (Band(call[c].channel) # believed.band)
    BY DEF RadioInv, Marks, NeedsSwitch
  <2>4. synth[p].channel = call[c].channel /\ call[c].switch
    BY <2>2, <2>3 DEF RadioInv, TuningInv, Aims
  <2>5. Done(call[c], <<r, 0>>)
    <3>. DEFINE P == Steps(call[c])
                n == call[c].at
    <3>1. /\ BandFirst(P) /\ n \in Nat \ {0} /\ n <= Len(P) + 1 /\ Len(P) \in Nat
      BY <2>4, CallShape DEF Active
    <3>2. PICK j \in 1 .. n - 1 : P[j] = <<"tune", p>>
      BY <2>2 DEF Done
    <3>3. j \in 1 .. Len(P) /\ P[j][1] = "tune"
      BY <3>1, <3>2
    <3>4. PICK i \in 1 .. j - 1 : P[i] = <<r, 0>>
      BY <3>1, <3>3 DEF BandFirst
    <3>5. i \in 1 .. n - 1
      BY <3>1, <3>2, <3>4
    <3>. QED
      BY <3>4, <3>5 DEF Done
  <2>6. chip[r] = Setting(r, call[c].channel, call[c].width)
    BY <2>3, <2>5 DEF RadioInv, DoneInv, Registers
  <2>7. Setting(r, call[c].channel, call[c].width) = Band(call[c].channel)
    BY DEF Setting, BandGroups
  <2>. QED
    BY <2>4, <2>6, <2>7
<1>. QED
  BY <1>1, RadioInvHolds, PTL

\* A SetChannel() that ran alone and lost none of its accesses leaves every path
\* on its channel and width with the one power index the table has for it, which
\* is a gain, and the filters of the sub-band set: whatever was lost before it, by
\* Initialize() too, and whether or not it reprogrammed the band.
THEOREM CleanCallIsWhole == Spec => []CleanCallSets
<1>1. TypeInv /\ RadioInv => CleanCallSets
  <2>. SUFFICES ASSUME TypeInv, RadioInv, NEW c \in Callers, Succeeds(c), call[c].clean
                PROVE  /\ chip["fcArea"] = FcArea(call[c].channel)
                       /\ chip["width"] = call[c].width
                       /\ Band(call[c].channel) = Band5G =>
                            chip["agcSelect"] = AgcTable(call[c].channel)
                       /\ \A p \in PathIds :
                            /\ synth[p] = Synth(call[c].channel, call[c].width)
                            /\ power[p] = {PowerFor(p, call[c].channel)}
                            /\ PowerFor(p, call[c].channel) \in Gains
    BY DEF CleanCallSets, Gains
  <2>. DEFINE k == call[c]
              ch == call[c].channel
  <2>1. c \in Active /\ up /\ ch \in Listed
    BY CallShape DEF Succeeds, Active, TypeInv, CallTypes
  <2>2. k.alone /\ k.seen
    BY <2>1 DEF RadioInv, Marks
  <2>3. Reprograms(Steps(k), ch, k.switch)
    BY CallShape
  <2>4. \A r \in Registers : Done(k, <<r, 0>>) => chip[r] = Setting(r, ch, k.width)
    BY <2>1 DEF RadioInv, DoneInv
  <2>5. chip["fcArea"] = FcArea(ch) /\ chip["width"] = k.width
    <3>1. chip["fcArea"] = Setting("fcArea", ch, k.width) /\ chip["width"] = Setting("width", ch, k.width)
      BY <2>3, <2>4, AllDone, RegisterNames DEF Reprograms
    <3>. QED
      BY <3>1 DEF Setting, BandGroups
  <2>6. ASSUME Band(ch) = Band5G  PROVE chip["agcSelect"] = AgcTable(ch)
    <3>1. chip["agcSelect"] = Setting("agcSelect", ch, k.width)
      BY <2>3, <2>4, <2>6, AllDone, RegisterNames DEF Reprograms
    <3>. QED
      BY <3>1 DEF Setting, BandGroups
  <2>7. ASSUME NEW p \in PathIds
        PROVE  /\ synth[p] = Synth(ch, k.width) /\ power[p] = {PowerFor(p, ch)}
               /\ PowerFor(p, ch) \in Gains
    <3>1. /\ Done(k, <<"tune", p>>) /\ Done(k, <<"narrow", p>>) /\ Done(k, <<"power", p>>)
      BY <2>3, AllDone DEF Reprograms
    <3>2. Aims(synth[p], ch) /\ synth[p].width = k.width /\ power[p] = {PowerFor(p, ch)}
      BY <2>1, <2>2, <3>1 DEF RadioInv, TuningInv, DoneInv
    <3>3. synth[p] \in SynthValues
      BY DEF TypeInv
    <3>4. synth[p] = Synth(ch, k.width)
      BY <3>2, <3>3 DEF Aims, Synth, SynthValues
    <3>5. PowerFor(p, ch) \in Gains
      BY <2>1, GroupOf DEF TypeInv, PowerFor
    <3>. QED
      BY <3>2, <3>4, <3>5
  <2>. QED
    BY <2>5, <2>6, <2>7
<1>. QED
  BY <1>1, RadioInvHolds, PTL

\* A SetChannel() that says B_OK has tuned every path, if no other call was beside
\* it and no read of it was given up while it set the width: lost writes of the
\* baseband, the width or the power do not detune a path, and a lost one of the
\* tuning ends the call with an error.
THEOREM OkMeansOnChannel == Spec => OkMeansTuned
<1>1. TypeInv /\ RadioInv /\ [Next]_vars =>
        \A c \in Callers :
          Succeeds(c) /\ call[c].alone /\ call[c].seen /\ call'[c].pc = "idle" =>
            \A p \in PathIds : /\ synth[p].channel = call[c].channel
                               /\ synth[p].code = RfModAg(call[c].channel)
                               /\ believed'.channel = call[c].channel
  <2>. SUFFICES ASSUME TypeInv, RadioInv, [Next]_vars, NEW c \in Callers, Succeeds(c),
                       call[c].alone, call[c].seen, call'[c].pc = "idle", NEW p \in PathIds
                PROVE  /\ synth[p].channel = call[c].channel
                       /\ synth[p].code = RfModAg(call[c].channel)
                       /\ believed'.channel = call[c].channel
    OBVIOUS
  <2>1. c \in Active /\ ~Running(c) /\ call[c].pc = "run"
    BY CallShape DEF Succeeds, Active, Running
  <2>2. Aims(synth[p], call[c].channel)
    <3>1. Has(Steps(call[c]), <<"tune", p>>)
      BY CallShape DEF Reprograms
    <3>2. Done(call[c], <<"tune", p>>)
      BY <3>1, AllDone
    <3>. QED
      BY <2>1, <3>2 DEF RadioInv, TuningInv
  <2>3. ASSUME NEW d \in Callers, Running(d)  PROVE d \notin {c} /\ d \in Active
    BY <2>1, <2>3 DEF Running, Active
  <2>4. Active = {c}
    BY <2>1 DEF RadioInv, Marks
  <2>5. Finish(c)
    <3>1. \A d \in Callers : ~Running(d)
      BY <2>3, <2>4
    <3>2. ~Initialize
      BY <2>1 DEF Initialize
    <3>3. ~UNCHANGED vars
      BY <2>1 DEF vars
    <3>4. PICK d \in Callers : Caller(d)
      BY <3>2, <3>3 DEF Next
    <3>5. CASE \E ch \in Channels, w \in Widths : SetChannel(d, ch, w)
      <4>1. d # c
        BY <2>1, <3>5 DEF SetChannel
      <4>2. call'[c] = Disturbed(Joined(call[c]))
        BY <2>1, <3>5, <4>1 DEF SetChannel
      <4>3. call[c] \in CallValues
        BY DEF TypeInv, CallTypes
      <4>4. call'[c].pc = "run"
        BY <2>1, <4>2, <4>3 DEF Disturbed, Joined, CallValues
      <4>. QED
        BY <4>4
    <3>6. CASE Finish(d)
      <4>1. d \in Active
        BY <3>6 DEF Finish, Succeeds, Active
      <4>. QED
        BY <2>4, <3>6, <4>1
    <3>. QED
      BY <3>1, <3>4, <3>5, <3>6
      DEF Caller, WriteBaseband, TunePath, ReadWidth, WriteWidth, WritePower
  <2>6. believed'.channel = call[c].channel
    BY <2>5 DEF Finish
  <2>. QED
    BY <2>2, <2>6 DEF Aims
<1>. QED
  BY <1>1, RadioInvHolds, PTL DEF Spec, OkMeansTuned

=============================================================================
