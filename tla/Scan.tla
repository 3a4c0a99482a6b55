------------------------------- MODULE Scan -------------------------------
(* Scanning: the request (_DoScanRequest and WiFiManager::StartScan), the  *)
(* one-shot notifier thread that sweeps the channels and finishes the scan *)
(* (_ScanNotifierLoop), what else moves the manager's state and the chip's *)
(* channel (joining, disconnecting, firmware events), and the teardown     *)
(* that reaps the notifier (_Shutdown).                                    *)
(*                                                                         *)
(* fLock and the manager's lock are held for single steps only, so they    *)
(* are not variables.  A SetChannel is one step.                           *)
EXTENDS Integers, FiniteSets

CONSTANTS
  Requesters,  \* threads that request scans
  SweepLength, \* the sweep visits channels 1 .. SweepLength
  Threads,     \* bound: notifier threads alive at once
  MaxFaults    \* bound: failed USB transfers and thread creations

ASSUME ScanAssumption ==
  SweepLength \in Nat \ {0} /\ Threads \in Nat \ {0} /\ MaxFaults \in Nat

ChannelIds == 1 .. SweepLength
ThreadIds  == 1 .. Threads
NoThread   == 0

VARIABLES
  state,     \* WiFiManager::fState; "Stale" is Scanning, for more than kScanStaleTimeout
  notifier,  \* fScanNotifierThread; NoThread is -1
  request,   \* [Requesters -> pc, and the thread it spawned]
  crowded,   \* history: the last request met another, or a notifier, still at it
  sweep,     \* [ThreadIds -> pc, next channel, channel to return to]
  channel,   \* the channel the chip is on
  joining,   \* frames are exchanged with an access point, until it answers
  parked,    \* history: the channel the last join chose
  astray,    \* history: since a join last parked the chip outside any sweep, one did it
             \* in a sweep or could not, two sweeps crossed or a return failed
  removed,   \* fRemoved
  teardown,  \* where in the destructor: "no", "wait", "gone"
  reaped,    \* the thread the destructor waits for
  faults     \* what is left of the bound

reqVars   == <<notifier, request, crowded>>
chipVars  == <<channel, joining, parked, astray>>
downVars  == <<removed, teardown, reaped>>
scanVars == <<state, reqVars, sweep, chipVars, downVars, faults>>

ScanTypeOK ==
  /\ state \in {"Disconnected", "Scanning", "Stale", "Connected"}
  /\ notifier \in ThreadIds \cup {NoThread}
  /\ request \in [Requesters -> [pc : {"idle", "start", "send", "spawn", "publish",
                                       "resume"},
                                 thread : ThreadIds \cup {NoThread}]]
  /\ sweep \in [ThreadIds -> [pc : {"none", "suspended", "check", "begin", "hop",
                                    "return", "finish", "clear"},
                              next : Nat, back : 0 .. SweepLength]]
  /\ channel \in ChannelIds /\ parked \in ChannelIds
  /\ joining \in BOOLEAN /\ astray \in BOOLEAN /\ crowded \in BOOLEAN
  /\ removed \in BOOLEAN /\ teardown \in {"no", "wait", "gone"}
  /\ reaped \in ThreadIds \cup {NoThread} /\ faults \in Nat

NoSweep == [pc |-> "none", next |-> 0, back |-> 0]

ScanInit ==
  /\ state = "Disconnected" /\ notifier = NoThread
  /\ request = [r \in Requesters |-> [pc |-> "idle", thread |-> NoThread]]
  /\ sweep = [t \in ThreadIds |-> NoSweep]
  /\ channel = 1 /\ joining = FALSE /\ parked = 1
  /\ astray = FALSE /\ crowded = FALSE
  /\ removed = FALSE /\ teardown = "no" /\ reaped = NoThread
  /\ faults = MaxFaults

Fault == faults > 0 /\ faults' = faults - 1

SweepAt(pcs) == {t \in ThreadIds : sweep[t].pc \in pcs}

\* The threads between reading the channel to return to and returning.
Sweeping == SweepAt({"hop", "return"})

-----------------------------------------------------------------------------
(* IOC_SCAN_REQ: _DoScanRequest.                                           *)

RequestAt(r, from, to) ==
  /\ request[r].pc = from
  /\ request' = [request EXCEPT ![r].pc = to]

RequestCheck(r) ==
  /\ ~removed /\ notifier = NoThread
  /\ RequestAt(r, "idle", "start")
  /\ crowded' = (\/ \E q \in Requesters \ {r} : request[q].pc # "idle"
                 \/ SweepAt({"none"}) # ThreadIds)
  /\ UNCHANGED <<state, notifier, sweep, chipVars, downVars, faults>>

\* A scan may start: none is in progress, or the one that is has gone stale.
MayStart == state # "Scanning"

\* StartScan, under the manager's lock.
RequestStart(r) ==
  /\ \/ /\ MayStart /\ RequestAt(r, "start", "send")
        /\ state' = "Scanning"
     \/ /\ ~MayStart /\ RequestAt(r, "start", "idle")
        /\ UNCHANGED state
  /\ UNCHANGED <<notifier, crowded, sweep, chipVars, downVars, faults>>

\* _SendScanCommand; if it fails the manager is left Scanning.
RequestSend(r) ==
  /\ \/ ~removed /\ RequestAt(r, "send", "spawn") /\ UNCHANGED faults
     \/ removed /\ RequestAt(r, "send", "idle") /\ UNCHANGED faults
     \/ Fault /\ RequestAt(r, "send", "idle")
  /\ UNCHANGED <<state, notifier, crowded, sweep, chipVars, downVars>>

\* spawn_kernel_thread, which may fail: a scan without a notifier.
RequestSpawn(r) ==
  /\ \/ \E t \in SweepAt({"none"}) :
          /\ \A u \in SweepAt({"none"}) : t <= u
          /\ request[r].pc = "spawn"
          /\ request' = [request EXCEPT ![r] = [pc |-> "publish", thread |-> t]]
          /\ sweep' = [sweep EXCEPT ![t].pc = "suspended"]
          /\ UNCHANGED faults
     \/ Fault /\ RequestAt(r, "spawn", "idle") /\ UNCHANGED sweep
  /\ UNCHANGED <<state, notifier, crowded, chipVars, downVars>>

RequestPublish(r) ==
  /\ RequestAt(r, "publish", "resume")
  /\ notifier' = request[r].thread
  /\ UNCHANGED <<state, crowded, sweep, chipVars, downVars, faults>>

\* Mutation: the thread runs from the moment it is spawned.
RunsAtOnce(t) == sweep[t].pc \in {"suspended", "check"}

\* A spawned thread runs once it is resumed.
Runs(t) == sweep[t].pc = "check"

RequestResume(r) ==
  /\ request[r].pc = "resume"
  /\ request' = [request EXCEPT ![r] = [pc |-> "idle", thread |-> NoThread]]
  /\ sweep' = IF sweep[request[r].thread].pc = "suspended"
              THEN [sweep EXCEPT ![request[r].thread].pc = "check"] ELSE sweep
  /\ UNCHANGED <<state, notifier, crowded, chipVars, downVars, faults>>

\* kScanStaleTimeout passes.
ScanGoesStale ==
  /\ state = "Scanning" /\ state' = "Stale"
  /\ UNCHANGED <<reqVars, sweep, chipVars, downVars, faults>>

-----------------------------------------------------------------------------
(* _ScanNotifierLoop, with _ScanSweep inlined.                             *)

SweepOnly == UNCHANGED <<request, crowded, joining, parked, downVars>>

\* What a sweep remembers goes with it.
Goto(t, pc) == sweep' = [sweep EXCEPT ![t] = [NoSweep EXCEPT !.pc = pc]]

SweepCheck(t) ==
  /\ Runs(t)
  /\ Goto(t, IF removed \/ state = "Connected" THEN "finish" ELSE "begin")
  /\ UNCHANGED <<state, notifier, channel, astray, faults>> /\ SweepOnly

SweepBegin(t) ==
  /\ sweep[t].pc = "begin"
  /\ sweep' = [sweep EXCEPT ![t] = [pc |-> "hop", next |-> 1, back |-> channel]]
  /\ astray' = (astray \/ Sweeping # {})
  /\ UNCHANGED <<state, notifier, channel, faults>> /\ SweepOnly

MoreChannels(t) == sweep[t].next <= SweepLength

\* The next channel; one that cannot be set is skipped, an unplugged device
\* ends the sweep where it is.
SweepHop(t) ==
  /\ sweep[t].pc = "hop"
  /\ \/ /\ MoreChannels(t) /\ removed
        /\ Goto(t, "finish") /\ UNCHANGED <<channel, faults>>
     \/ /\ MoreChannels(t) /\ ~removed
        /\ \/ channel' = sweep[t].next /\ UNCHANGED faults
           \/ Fault /\ UNCHANGED channel
        /\ sweep' = [sweep EXCEPT ![t].next = @ + 1]
     \/ /\ ~MoreChannels(t)
        /\ sweep' = [sweep EXCEPT ![t].pc = "return"] /\ UNCHANGED <<channel, faults>>
  /\ UNCHANGED <<state, notifier, astray>> /\ SweepOnly

\* Mutation: the chip stays where the sweep ended.
StayThere(t) == channel

ReturnTo(t) == sweep[t].back

SweepReturn(t) ==
  /\ sweep[t].pc = "return" /\ Goto(t, "finish")
  /\ \/ channel' = (IF removed THEN channel ELSE ReturnTo(t)) /\ UNCHANGED <<astray, faults>>
     \/ ~removed /\ Fault /\ astray' = TRUE /\ UNCHANGED channel
  /\ UNCHANGED <<state, notifier>> /\ SweepOnly

InScan == state \in {"Scanning", "Stale"}

\* FinishScan.  B_NETWORK_WLAN_SCANNED is sent after it; whoever hears it may
\* request again at once.
SweepFinish(t) ==
  /\ sweep[t].pc = "finish" /\ Goto(t, "clear")
  /\ state' = IF InScan THEN "Disconnected" ELSE state
  /\ UNCHANGED <<notifier, channel, astray, faults>> /\ SweepOnly

SweepClear(t) ==
  /\ sweep[t].pc = "clear"
  /\ notifier' = NoThread
  /\ sweep' = [sweep EXCEPT ![t] = NoSweep]
  /\ UNCHANGED <<state, channel, astray, faults>> /\ SweepOnly

-----------------------------------------------------------------------------
(* What else moves the manager's state and the channel.                    *)

ElseOnly == UNCHANGED <<reqVars, sweep, downVars, faults>>

\* _DoJoin parks the chip on the channel of the access point; if it cannot, it
\* logs that and goes on.
JoinPark(c) ==
  /\ ~removed
  /\ parked' = c /\ joining' = TRUE
  /\ \/ channel' = c /\ astray' = (Sweeping # {}) /\ UNCHANGED faults
     \/ Fault /\ astray' = TRUE /\ UNCHANGED channel
  /\ UNCHANGED <<state, reqVars, sweep, downVars>>

\* The association response, which is heard on the access point's channel
\* only: fJoinState Connected and MarkConnected().
JoinConnect ==
  /\ joining /\ channel = parked /\ ~removed
  /\ joining' = FALSE /\ state' = "Connected"
  /\ UNCHANGED <<channel, parked, astray>> /\ ElseOnly

\* IOC_MLME DEAUTH: both states; Close(): the manager's only.
Disconnect ==
  /\ joining' \in {FALSE, joining} /\ state' = "Disconnected"
  /\ teardown = "no"
  /\ UNCHANGED <<channel, parked, astray>> /\ ElseOnly

\* The firmware events the manager has handlers for: ScanComplete, and
\* ConnectionStatus with a status of connected or not.
FirmwareEvent ==
  /\ ~removed
  /\ \/ InScan /\ state' = "Disconnected"
     \/ state' \in {"Connected", "Disconnected"}
  /\ UNCHANGED chipVars /\ ElseOnly

-----------------------------------------------------------------------------
(* Unplugging, and the destructor once nobody is in a call.                *)

Unplug ==
  /\ ~removed /\ removed' = TRUE
  /\ UNCHANGED <<state, reqVars, sweep, chipVars, teardown, reaped, faults>>

ShutdownReap ==
  /\ removed /\ teardown = "no" /\ \A r \in Requesters : request[r].pc = "idle"
  /\ reaped' = notifier /\ notifier' = NoThread
  /\ teardown' = "wait"
  /\ UNCHANGED <<state, request, crowded, sweep, chipVars, removed, faults>>

\* Mutation: the thread's id is cleared and the thread left alone.
NotWaitedFor == TRUE

\* wait_for_thread returns.
WaitedFor == reaped # NoThread => sweep[reaped].pc = "none"

ShutdownDelete ==
  /\ teardown = "wait" /\ WaitedFor
  /\ teardown' = "gone"
  /\ UNCHANGED <<state, reqVars, sweep, chipVars, removed, reaped, faults>>

-----------------------------------------------------------------------------
Request(r) == \/ RequestCheck(r) \/ RequestStart(r) \/ RequestSend(r)
              \/ RequestSpawn(r) \/ RequestPublish(r) \/ RequestResume(r)

Notifier(t) == \/ SweepCheck(t) \/ SweepBegin(t) \/ SweepHop(t) \/ SweepReturn(t)
               \/ SweepFinish(t) \/ SweepClear(t)

ScanNext == \/ \E r \in Requesters : Request(r)
            \/ \E t \in ThreadIds : Notifier(t)
            \/ ScanGoesStale
            \/ \E c \in ChannelIds : JoinPark(c)
            \/ JoinConnect \/ Disconnect \/ FirmwareEvent
            \/ Unplug \/ ShutdownReap \/ ShutdownDelete

ScanSpec == ScanInit /\ [][ScanNext]_scanVars

\* Threads run on, time passes, and somebody goes on asking for scans.
FairScanSpec == /\ ScanSpec /\ WF_scanVars(ScanGoesStale)
                /\ \A r \in Requesters : WF_scanVars(Request(r))
                /\ \A t \in ThreadIds : WF_scanVars(Notifier(t))

-----------------------------------------------------------------------------
(* Properties.                                                             *)

\* _Shutdown: "Reap the scan-notifier thread before tearing down WiFiManager".
\* When the manager is deleted no notifier thread is left, whichever threads had
\* requested scans, unless the last request met another one under way: that two
\* can pass the check together is a fault of the code that README reports.
NotifierReaped == teardown = "gone" /\ ~crowded => SweepAt({"none"}) = ThreadIds

\* _ScanSweep puts "the chip back where we found it so an unrelated join doesn't
\* inherit whatever channel the sweep happened to end on": between sweeps the
\* chip is on the channel the last join chose.  A join in the middle of a sweep,
\* two sweeps at once, and a return or a join that cannot tune break this, but
\* only until a join parks it between sweeps; channels the sweep could not set,
\* stale scans, refused requests and connections never do.
ParkedBetweenSweeps == Sweeping = {} /\ ~astray /\ ~removed => channel = parked

\* Scans do not stay refused for the rest of the boot: one that failed to reach
\* the firmware, or has no notifier, does not leave the manager Scanning; and
\* however a notifier, a join, a disconnection and a firmware event fall
\* together, the thread id is given back.
ScanEnds == /\ InScan ~> ~InScan \/ removed
            /\ notifier # NoThread ~> notifier = NoThread
=============================================================================
