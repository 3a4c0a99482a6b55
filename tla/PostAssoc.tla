----------------------------- MODULE PostAssoc -----------------------------
(* The setup of an association (Device.cpp, _PostAssocLoop) over the H2C     *)
(* mailboxes (WiFiManagement.cpp) and the control endpoint (Control).  The   *)
(* receive callback, on the USB thread, accepts an association and wakes the *)
(* worker, which writes the BSSID register and sends the firmware two        *)
(* commands.  A command holds the manager's lock over two bounded writes; the*)
(* receive callback takes the same lock, for beacons and associations, and   *)
(* the USB thread delivers no completion while it waits for it.              *)
(*                                                                           *)
(* Joiner is the thread of the join and disconnect ioctls.                   *)
EXTENDS Control

CONSTANTS Worker, Joiner, Usb,
  Boxes,          \* kH2CMailboxCount
  MaxJoins, MaxDisconnects, MaxInterrupts, MaxBeacons   \* bounds

Bssid  == <<"BSSID", 0>>
Ext(b) == <<"HMEBoxExt", b>>
Std(b) == <<"HMEBox", b>>
Registers == {Bssid} \cup {Ext(b) : b \in 0 .. Boxes - 1}
                         \cup {Std(b) : b \in 0 .. Boxes - 1}

ASSUME PostAssocAssumption ==
  /\ Callers = {Worker, Joiner} /\ Usb \notin Callers \cup {NoCaller}
  /\ Worker # Joiner
  /\ Boxes \in Nat \ {0} /\ Registers \subseteq Addrs

VARIABLES
  mgrLock,   \* the owner of the manager's fLock
  mgrState,  \* the manager's fState, as far as it is Connected or not
  box,       \* fH2CMailboxIndex
  cmd,       \* [Callers -> the H2C command it is sending]
  unsure,    \* history: commands whose first write was answered by a wait that
             \* an abandoned request could satisfy
  work,      \* where the worker is
  woken,     \* what acquire_sem returned to it
  snapshot,  \* the BSSID it read
  post,      \* the count of fPostAssocSem
  stop,      \* fPostAssocStop
  target,    \* fJoinBssid, as the number of the join
  joinState, \* fJoinState
  join,      \* where _DoJoin or Disconnect is
  joining,   \* the BSSID _DoJoin was called with
  joinTry,   \* its attempt at the BSSID register
  usb,       \* what the receive callback waits for the manager's lock for
  setUp,     \* history: the join the worker last finished the setup of
  joins, disconnects, interrupts, beacons   \* what is left of the bounds

h2cVars    == <<mgrLock, box, cmd, unsure>>
workerVars == <<work, woken, snapshot, setUp>>
joinVars   == <<target, joinState, join, joining, joinTry>>
boundVars  == <<joins, disconnects, interrupts, beacons>>
postVars == <<mgrLock, mgrState, box, cmd, unsure, work, woken, snapshot,
              setUp, post, stop, target, joinState, join, joining, joinTry, usb,
              joins, disconnects, interrupts, beacons>>
vars == <<controlVars, postVars>>

PostTypeOK ==
  /\ mgrLock \in Callers \cup {NoCaller}
  /\ mgrState \in {"Connected", "Disconnected"} /\ box \in 0 .. Boxes - 1
  /\ cmd \in [Callers -> [pc : {"none", "lock", "ext", "extWait", "stdWait"},
                           id : 0 .. MaxValue]]
  /\ unsure \subseteq 1 .. MaxValue
  /\ work \in {"acquire", "woken", "snapshot", "bssid", "rateInfo",
               "mediaStatus", "report", "gone"}
  /\ woken \in {"OK", "INTERRUPTED"}
  /\ {snapshot, target, joining, setUp} \subseteq 0 .. MaxValue
  /\ post \in Nat /\ stop \in BOOLEAN /\ joinTry \in 0 .. 2
  /\ joinState \in {"Idle", "Authenticating", "Connected"}
  /\ join \in {"idle", "write", "read", "verify", "commit", "sending"}
  /\ usb \in {"free", "beacon", "markConnected"}

NoCmd == [pc |-> "none", id |-> 0]

Init ==
  /\ ControlInit
  /\ mgrLock = NoCaller /\ mgrState = "Disconnected" /\ box = 0
  /\ cmd = [t \in Callers |-> NoCmd] /\ unsure = {}
  /\ work = "acquire" /\ woken = "OK" /\ snapshot = 0 /\ post = 0 /\ stop = FALSE
  /\ target = 0 /\ joinState = "Idle" /\ join = "idle" /\ joining = 0
  /\ joinTry = 0 /\ usb = "free" /\ setUp = 0
  /\ joins = MaxJoins /\ disconnects = MaxDisconnects
  /\ interrupts = MaxInterrupts /\ beacons = MaxBeacons

-----------------------------------------------------------------------------
(* _SendH2CCommand.                                                        *)

\* A number no command or join has had.
FreshOnly ==
  /\ fresh < MaxValue /\ fresh' = fresh + 1
  /\ UNCHANGED <<owner, call, answer, waitVars, wire, done, deviceVars, present>>

\* The answer of a call has been looked at and is not needed any more.
Forget(t) ==
  /\ answer' = [answer EXCEPT ![t] = NoAnswer]
  /\ UNCHANGED <<owner, call, waitVars, wire, done, deviceVars, present, fresh>>

CmdGoto(t, where) == cmd' = [cmd EXCEPT ![t].pc = where]
CmdEnds(t) ==
  /\ mgrLock' = NoCaller /\ cmd' = [cmd EXCEPT ![t] = NoCmd] /\ Forget(t)

H2CLock(t) ==
  /\ cmd[t].pc = "lock" /\ mgrLock = NoCaller
  /\ mgrLock' = t /\ FreshOnly
  /\ cmd' = [cmd EXCEPT ![t] = [pc |-> "ext", id |-> fresh']]
  /\ UNCHANGED <<mgrState, box, unsure, workerVars, post, stop, joinVars,
                 usb, boundVars>>

\* Mutation: the writes of a command wait without a deadline.
H2CWriteUnbounded(t, addr) == Call(t, "write", addr, cmd[t].id)

H2CWrite(t, addr) == Call(t, "bounded", addr, cmd[t].id)

H2CExt(t) ==
  /\ cmd[t].pc = "ext" /\ H2CWrite(t, Ext(box)) /\ CmdGoto(t, "extWait")
  /\ UNCHANGED <<mgrLock, mgrState, box, unsure, workerVars, post, stop,
                 joinVars, usb, fresh, boundVars>>

\* Mutation: the outcome of the first write is not looked at.
H2CStdAnyway(t) ==
  /\ cmd[t].pc = "extWait" /\ Idle(t)
  /\ CmdGoto(t, "stdWait") /\ H2CWrite(t, Std(box))
  /\ UNCHANGED <<mgrLock, unsure, mgrState, box, workerVars, post, stop,
                 joinVars, usb, fresh, boundVars>>

\* The second write triggers the command: only after the first succeeded.
H2CStd(t) ==
  /\ cmd[t].pc = "extWait" /\ Idle(t)
  /\ IF answer[t].st = "OK"
     THEN /\ CmdGoto(t, "stdWait") /\ H2CWrite(t, Std(box))
          /\ unsure' = IF answer[t].clean THEN unsure ELSE unsure \cup {cmd[t].id}
          /\ UNCHANGED mgrLock
     ELSE CmdEnds(t) /\ UNCHANGED unsure
  /\ UNCHANGED <<mgrState, box, workerVars, post, stop, joinVars, usb, fresh,
                 boundVars>>

NextBox(b) == (b + 1) % Boxes

H2CDone(t) ==
  /\ cmd[t].pc = "stdWait" /\ Idle(t)
  /\ box' = IF answer[t].st = "OK" THEN NextBox(box) ELSE box
  /\ CmdEnds(t)
  /\ UNCHANGED <<mgrState, unsure, workerVars, post, stop, joinVars,
                 usb, boundVars>>

SendH2C(t) == cmd[t].pc = "none" /\ CmdGoto(t, "lock")

-----------------------------------------------------------------------------
(* _PostAssocLoop and _DoPostAssocSetup.                                   *)

WorkUnchanged ==
  UNCHANGED <<mgrLock, mgrState, box, unsure, stop, joinVars, usb, boundVars>>

\* acquire_sem returns: a permit, or an interruption of its wait.
WorkAcquire ==
  /\ work = "acquire" /\ work' = "woken"
  /\ \/ post > 0 /\ post' = post - 1 /\ woken' = "OK" /\ UNCHANGED interrupts
     \/ /\ interrupts > 0 /\ interrupts' = interrupts - 1
        /\ woken' = "INTERRUPTED" /\ UNCHANGED post
  /\ UNCHANGED <<controlVars, h2cVars, mgrState, snapshot, setUp, stop, joinVars,
                 usb, joins, disconnects, beacons>>

\* Mutation: the worker leaves its loop whatever acquire_sem returned.
WokenAnyError ==
  /\ work = "woken"
  /\ work' = IF stop \/ woken # "OK" THEN "gone"
             ELSE IF ~present THEN "acquire" ELSE "snapshot"
  /\ woken' = "OK"
  /\ UNCHANGED <<controlVars, cmd, snapshot, setUp, post>>
  /\ WorkUnchanged

\* Only a shutdown ends the worker; a failed wait or a device that is gone
\* sends it back to wait.
Woken ==
  /\ work = "woken"
  /\ work' = IF stop THEN "gone"
             ELSE IF woken # "OK" \/ ~present THEN "acquire" ELSE "snapshot"
  /\ woken' = "OK"
  /\ UNCHANGED <<controlVars, cmd, snapshot, setUp, post>>
  /\ WorkUnchanged

WorkSnapshot ==
  /\ work = "snapshot" /\ snapshot' = target /\ work' = "bssid"
  /\ UNCHANGED <<controlVars, cmd, woken, setUp, post>>
  /\ WorkUnchanged

WorkBssid ==
  /\ work = "bssid" /\ Call(Worker, "write", Bssid, snapshot) /\ work' = "rateInfo"
  /\ UNCHANGED <<cmd, woken, snapshot, setUp, post, fresh>>
  /\ WorkUnchanged

WorkRateInfo ==
  /\ work = "rateInfo" /\ Idle(Worker) /\ SendH2C(Worker)
  /\ work' = "mediaStatus"
  /\ UNCHANGED <<controlVars, woken, snapshot, setUp, post>>
  /\ WorkUnchanged

WorkMediaStatus ==
  /\ work = "mediaStatus" /\ cmd[Worker].pc = "none" /\ SendH2C(Worker)
  /\ work' = "report"
  /\ UNCHANGED <<controlVars, woken, snapshot, setUp, post>>
  /\ WorkUnchanged

WorkDone ==
  /\ work = "report" /\ cmd[Worker].pc = "none"
  /\ setUp' = snapshot /\ work' = IF stop THEN "gone" ELSE "acquire"
  /\ UNCHANGED <<controlVars, cmd, woken, snapshot, post>>
  /\ WorkUnchanged

-----------------------------------------------------------------------------
(* _DoJoin, from its writes of the BSSID register on, and Disconnect.       *)

JoinUnchanged ==
  UNCHANGED <<mgrLock, box, unsure, workerVars, post, stop, usb,
              interrupts, beacons>>

JoinBegin ==
  /\ join = "idle" /\ ~stop /\ joins > 0 /\ joins' = joins - 1
  /\ FreshOnly
  /\ join' = "write" /\ joining' = fresh' /\ joinTry' = 1
  /\ joinState' = IF joinState = "Authenticating" THEN "Idle" ELSE joinState
  /\ UNCHANGED <<cmd, mgrState, target, disconnects>>
  /\ JoinUnchanged

\* The BSSID register is written, read back and written once more if it does
\* not hold the value.
JoinWriteBssid ==
  /\ join = "write" /\ Idle(Joiner) /\ Call(Joiner, "write", Bssid, joining)
  /\ join' = "read"
  /\ UNCHANGED <<cmd, mgrState, target, joinState, joining, joinTry, fresh, joins,
                 disconnects>>
  /\ JoinUnchanged

JoinReadBssid ==
  /\ join = "read" /\ Idle(Joiner) /\ Call(Joiner, "read", Bssid, joining)
  /\ join' = "verify"
  /\ UNCHANGED <<cmd, mgrState, target, joinState, joining, joinTry, fresh, joins,
                 disconnects>>
  /\ JoinUnchanged

JoinVerify ==
  /\ join = "verify" /\ Idle(Joiner) /\ Forget(Joiner)
  /\ IF answer[Joiner].word = <<joining, joining>> \/ joinTry = 2
     THEN join' = "commit" /\ joinTry' = 0
     ELSE join' = "write" /\ joinTry' = joinTry + 1
  /\ UNCHANGED <<cmd, mgrState, target, joinState, joining, joins, disconnects>>
  /\ JoinUnchanged

\* fJoinBssid is set only now, without fLock, and the request goes out.
JoinCommit ==
  /\ join = "commit" /\ join' = "idle"
  /\ target' = joining /\ joinState' = "Authenticating"
  /\ UNCHANGED <<controlVars, cmd, mgrState, joining, joinTry, joins,
                 disconnects>>
  /\ JoinUnchanged

\* The manager's Disconnect: the state under the lock, the command after it.
Disconnect ==
  /\ join = "idle" /\ ~stop /\ mgrLock = NoCaller /\ mgrState = "Connected"
  /\ disconnects > 0 /\ disconnects' = disconnects - 1
  /\ mgrState' = "Disconnected" /\ SendH2C(Joiner) /\ join' = "sending"
  /\ UNCHANGED <<controlVars, target, joinState, joining, joinTry, joins>>
  /\ JoinUnchanged

DisconnectDone ==
  /\ join = "sending" /\ cmd[Joiner].pc = "none" /\ join' = "idle"
  /\ UNCHANGED <<controlVars, cmd, mgrState, target, joinState, joining, joinTry, joins, disconnects>>
  /\ JoinUnchanged

-----------------------------------------------------------------------------
(* The receive callback on the USB thread, and the end.                    *)

UsbUnchanged ==
  UNCHANGED <<controlVars, h2cVars, workerVars, stop, target, join, joining,
              joinTry, joins, disconnects,
              interrupts>>

\* A beacon, for UpdateBssEntry, or the response that completes the join.
RxBeacon ==
  /\ usb = "free" /\ present /\ usb' = "beacon"
  /\ beacons > 0 /\ beacons' = beacons - 1
  /\ UNCHANGED <<mgrState, post, joinState>> /\ UsbUnchanged

RxAssocResponse ==
  /\ usb = "free" /\ present /\ joinState = "Authenticating"
  /\ joinState' = "Connected" /\ usb' = "markConnected"
  /\ UNCHANGED <<mgrState, post, beacons>> /\ UsbUnchanged

UpdateBssEntry ==
  /\ usb = "beacon" /\ mgrLock = NoCaller /\ usb' = "free"
  /\ UNCHANGED <<mgrState, post, joinState, beacons>> /\ UsbUnchanged

MarkConnected ==
  /\ usb = "markConnected" /\ mgrLock = NoCaller /\ usb' = "free"
  /\ mgrState' = "Connected" /\ post' = post + 1
  /\ UNCHANGED <<joinState, beacons>> /\ UsbUnchanged

\* _Shutdown: nobody uses the device any more.
Shutdown ==
  /\ ~stop /\ join = "idle"
  /\ stop' = TRUE /\ post' = post + 1
  /\ UNCHANGED <<controlVars, h2cVars, mgrState, workerVars, joinVars, usb,
                 boundVars>>

\* The USB thread delivers a completion when it is not in the receive callback.
DeliverFree == usb = "free" /\ Deliver

ControlStep ==
  /\ \/ \E t \in Callers : CallStep(t)
     \/ Execute \/ DeliverFree \/ Unplug
  /\ UNCHANGED postVars

WorkerStep == WorkAcquire \/ Woken \/ WorkSnapshot \/ WorkBssid \/ WorkRateInfo
              \/ WorkMediaStatus \/ WorkDone
H2CStep(t) == H2CLock(t) \/ H2CExt(t) \/ H2CStd(t) \/ H2CDone(t)
JoinStep == JoinWriteBssid \/ JoinReadBssid \/ JoinVerify \/ JoinCommit
            \/ DisconnectDone
UsbStep == UpdateBssEntry \/ MarkConnected

Next ==
  \/ ControlStep \/ WorkerStep \/ (\E t \in Callers : H2CStep(t))
  \/ JoinBegin \/ JoinStep \/ Disconnect
  \/ RxBeacon \/ RxAssocResponse \/ UsbStep \/ Shutdown

Spec == Init /\ [][Next]_vars

\* What the threads, the endpoint and passing deadlines do by themselves.
Progress ==
  \/ (\E t \in Callers : CallStep(t) \/ Execute \/ DeliverFree) /\ UNCHANGED postVars
  \/ WorkerStep \/ JoinStep \/ UsbStep \/ \E t \in Callers : H2CStep(t)

\* The system goes on while anything in it can: as none of its steps repeats
\* for ever, this is the fairness of every thread.  Nothing is assumed about
\* joins, disconnects, beacons or unplugging.
FairSpec == Spec /\ WF_vars(Progress)

-----------------------------------------------------------------------------
(* Properties.                                                             *)

\* The extended register "must be written BEFORE the standard register", whose
\* write triggers the command (_SendH2CCommand): a command takes effect with
\* its own extended payload in the box, in spite of refused, late and abandoned
\* writes and of the other sender, unless a wait was answered by a stale
\* completion (README, disagreements) or the ring of buffers has come round.
CommandWhole ==
  [][\A b \in 0 .. Boxes - 1 :
       reg'[Std(b)] # reg[Std(b)] =>
         \/ reg[Ext(b)] = reg'[Std(b)] \/ reg'[Std(b)][1] \in unsure
         \/ copies - Head(wire).stamp >= Ring]_vars

\* Three threads wait for each other: a sender holds the manager's lock and
\* waits for the register lock, its owner waits for a completion, and the USB
\* thread that would deliver it waits for the manager's lock.
Entangled ==
  /\ mgrLock \in Callers /\ At(mgrLock, "lock") /\ usb # "free"
  /\ owner \in Callers \ {mgrLock}

\* The worker survives interruptions, refusals and missed deadlines: every
\* association that stands is set up (Device.cpp, _PostAssocLoop: "a worker
\* that dies quietly is much worse than one that dies loudly").
AssociationSetUp ==
  joinState = "Connected" ~>
    setUp = target \/ joinState # "Connected" \/ ~present \/ stop \/ Entangled

\* _Shutdown's wait for the worker ends.
WorkerStops == stop ~> work = "gone" \/ Entangled
=============================================================================
