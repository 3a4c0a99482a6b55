----------------------------- MODULE Lifecycle -----------------------------
(***************************************************************************)
(* How devices come, are opened, closed and freed, and go: Driver.cpp, and *)
(* the constructor, the destructor, SetRemoved(), Open(), Close() and      *)
(* Free() of RTL8814AUDevice.                                              *)
(*                                                                         *)
(* Three kinds of threads meet here: the USB bus manager's, in DeviceAdded *)
(* and DeviceRemoved; the clients', each with one descriptor; and the      *)
(* kernel's, which publishes the devices and unloads the driver.  The list *)
(* lock serialises Open() and the bus manager, but Close() never takes it  *)
(* and Free() gives its reference back before it does.                     *)
(*                                                                         *)
(* The bring-up is one step here, with the ways it can end that the rest   *)
(* can tell apart; module BringUp has its inside.  Stopping and starting   *)
(* reception is one step each; module RxStream has theirs.                 *)
(***************************************************************************)
EXTENDS Integers, FiniteSets, FiniteSetsExt

CONSTANTS
  Devices,    \* the RTL8814AUDevice objects ever constructed
  SlotCount,  \* kMaxDeviceCount
  Clients,    \* threads, each with at most one descriptor
  NoDevice,   \* NULL
  NoOne,      \* who holds a free lock
  Bus,        \* the bus manager's thread
  MaxOpens    \* bound: calls of Open()

ASSUME LifecycleAssumption ==
  /\ SlotCount \in Nat \ {0} /\ MaxOpens \in Nat
  /\ NoDevice \notin Devices /\ NoOne \notin Clients \union {Bus} /\ Bus \notin Clients

VARIABLES
  list,       \* gDeviceList
  count,      \* gDeviceCount
  holder,     \* of gDeviceListLock
  device,     \* the objects
  client,     \* where each client is, and its cookie
  bus,        \* where the bus manager is, and with which device
  published,  \* the slots last published
  opens,      \* calls of Open() so far
  raced,      \* a removal met a Free() between its decrement and its test
  disturbed   \* devices one of whose descriptors was closed beside another

vars == <<list, count, holder, device, client, bus, published, opens, raced, disturbed>>

Slots == 0 .. SlotCount - 1
NewDevice == [life |-> "unborn", slot |-> 0, removed |-> FALSE, up |-> FALSE, closing |-> FALSE,
              rx |-> FALSE, workers |-> FALSE, count |-> 0]

Init ==
  /\ list = [s \in Slots |-> NoDevice] /\ count = 0 /\ holder = NoOne
  /\ device = [d \in Devices |-> NewDevice]
  /\ client = [c \in Clients |-> [pc |-> "idle", dev |-> NoDevice]]
  /\ bus = [pc |-> "idle", dev |-> NoDevice]
  /\ published = {} /\ opens = 0 /\ raced = FALSE /\ disturbed = {}

At(c, pc) == client[c].pc = pc
Goes(c, pc) == client' = [client EXCEPT ![c].pc = pc]
Leaves(c) == client' = [client EXCEPT ![c] = [pc |-> "idle", dev |-> NoDevice]]
Cookie(c) == client[c].dev

\* ~RTL8814AUDevice: _Shutdown reaps the workers if the bring-up had finished,
\* and the paths stop themselves in any case.
Destroyed(r) == [r EXCEPT !.life = "deleted", !.up = FALSE, !.rx = FALSE,
                          !.workers = IF r.up THEN FALSE ELSE r.workers]

------------------------------------------------------------------------------
(* The bus manager.                                                        *)

\* Mutation: the search does not look at what a slot holds.
AnySlots == Slots

FreeSlots == {s \in Slots : list[s] = NoDevice}

\* DeviceAdded: the first free slot, the constructor, the list, all under the
\* lock.
DeviceAdded(d) ==
  /\ bus.pc = "idle" /\ holder = NoOne /\ device[d].life = "unborn"
  /\ FreeSlots # {}
  /\ list' = [list EXCEPT ![Min(FreeSlots)] = d] /\ count' = count + 1
  /\ device' = [device EXCEPT ![d] = [NewDevice EXCEPT !.life = "alive",
                                                       !.slot = Min(FreeSlots)]]
  /\ UNCHANGED <<holder, client, bus, published, opens, raced, disturbed>>

\* The adapter is not claimed: there is no slot, or the object could not be set
\* up (an endpoint is missing, say) and is deleted half-built on the spot.
DeviceRefused(d) ==
  /\ bus.pc = "idle" /\ holder = NoOne /\ device[d].life = "unborn"
  /\ device' = [device EXCEPT ![d].life = "deleted"]
  /\ UNCHANGED <<list, count, holder, client, bus, published, opens, raced, disturbed>>

\* A removal has crossed a Free() that has given its reference back and not yet
\* looked at fRemoved, or is on its way to the lock.
Crosses(d) == \E c \in Clients : Cookie(c) = d /\ client[c].pc \in {"freed", "last"}

\* The adapter is unplugged: SetRemoved() under the lock.
DeviceRemoved(d) ==
  /\ bus.pc = "idle" /\ holder = NoOne
  /\ device[d].life = "alive" /\ ~device[d].removed
  /\ holder' = Bus /\ bus' = [pc |-> "marked", dev |-> d]
  /\ device' = [device EXCEPT ![d].removed = TRUE]
  /\ raced' = (raced \/ Crosses(d))
  /\ UNCHANGED <<list, count, client, published, opens, disturbed>>

Unlisted(d) == list' = [list EXCEPT ![device[d].slot] = NoDevice]

\* Mutation: the removal does not ask who has the device open.
NeverLeaves(d) == FALSE

\* A device in use is left to its last Free().
LeavesToFree(d) == device[d].count # 0

RemoveOrLeave ==
  /\ bus.pc = "marked"
  /\ holder' = NoOne
  /\ IF LeavesToFree(bus.dev)
     THEN /\ bus' = [pc |-> "idle", dev |-> NoDevice]
          /\ UNCHANGED <<list, count>>
     ELSE /\ Unlisted(bus.dev) /\ count' = count - 1
          /\ bus' = [bus EXCEPT !.pc = "delete"]
  /\ raced' = (raced \/ Crosses(bus.dev))
  /\ UNCHANGED <<device, client, published, opens, disturbed>>

BusDeletes ==
  /\ bus.pc = "delete"
  /\ device' = [device EXCEPT ![bus.dev] = Destroyed(@)]
  /\ bus' = [pc |-> "idle", dev |-> NoDevice]
  /\ UNCHANGED <<list, count, holder, client, published, opens, raced, disturbed>>

------------------------------------------------------------------------------
(* Open(): the lock is held from the look at the list to the reference.    *)

LookUp(c, s) ==
  /\ At(c, "idle") /\ holder = NoOne /\ opens < MaxOpens /\ s \in published
  /\ opens' = opens + 1
  /\ IF list[s] = NoDevice \/ (list[s] # NoDevice /\ device[list[s]].removed)
     THEN UNCHANGED <<holder, client>>
     ELSE /\ holder' = c
          /\ client' = [client EXCEPT ![c] = [pc |-> "opening", dev |-> list[s]]]
  /\ UNCHANGED <<list, count, device, bus, published, raced, disturbed>>

OpenFails(c) == holder' = NoOne /\ Leaves(c)

\* _InitHardware succeeds, with or without the workers, whose creation may fail
\* without it; or it fails; or it fails with reception running.
BringUp(c) ==
  LET d == Cookie(c)
  IN /\ At(c, "opening")
     /\ \/ /\ device[d].up
           /\ Goes(c, "readable") /\ UNCHANGED <<device, holder>>
        \/ /\ ~device[d].up /\ Goes(c, "readable") /\ UNCHANGED holder
           /\ \E w \in BOOLEAN :
                device' = [device EXCEPT ![d].up = TRUE, ![d].rx = TRUE, ![d].workers = w]
        \/ /\ ~device[d].up /\ OpenFails(c)
           /\ \E rx \in {device[d].rx, TRUE} : device' = [device EXCEPT ![d].rx = rx]
     /\ UNCHANGED <<list, count, bus, published, opens, raced, disturbed>>

\* Mutation: fClosing stays as the last close set it.
ReopenNot(r) == r

\* Reads are allowed again ...
Reopen(r) == [r EXCEPT !.closing = FALSE]

AllowReads(c) ==
  /\ At(c, "readable")
  /\ device' = [device EXCEPT ![Cookie(c)] = Reopen(@)]
  /\ Goes(c, "restart")
  /\ UNCHANGED <<list, count, holder, bus, published, opens, raced, disturbed>>

\* ... and reception restarted if a close stopped it, which may be refused.
Restart(c) ==
  LET d == Cookie(c)
  IN /\ At(c, "restart")
     /\ \/ /\ Goes(c, "count") /\ UNCHANGED holder
           /\ device' = [device EXCEPT ![d].rx = TRUE]
        \/ /\ ~device[d].rx /\ OpenFails(c) /\ UNCHANGED device
     /\ UNCHANGED <<list, count, bus, published, opens, raced, disturbed>>

Opened(c) ==
  /\ At(c, "count")
  /\ device' = [device EXCEPT ![Cookie(c)].count = @ + 1]
  /\ holder' = NoOne /\ Goes(c, "open")
  /\ UNCHANGED <<list, count, bus, published, opens, raced, disturbed>>

------------------------------------------------------------------------------
(* Close() stops the device whoever else has it open.                      *)

Opening == {"opening", "readable", "restart", "count"}
Closing == {"closing", "disconnected"}

\* Another descriptor of the same device is open, or being opened.
Beside(c) == \E o \in Clients \ {c} : Cookie(o) = Cookie(c)
                                      /\ client[o].pc \in Opening \union {"open"}

StartClose(c) ==
  /\ At(c, "open")
  /\ device' = [device EXCEPT ![Cookie(c)].closing = TRUE]
  /\ disturbed' = IF Beside(c) THEN disturbed \union {Cookie(c)} ELSE disturbed
  /\ Goes(c, "closing")
  /\ UNCHANGED <<list, count, holder, bus, published, opens, raced>>

Disconnect(c) ==
  /\ At(c, "closing") /\ Goes(c, "disconnected")
  /\ disturbed' = IF Beside(c) THEN disturbed \union {Cookie(c)} ELSE disturbed
  /\ UNCHANGED <<list, count, holder, device, bus, published, opens, raced>>

StopReceiving(c) ==
  /\ At(c, "disconnected")
  /\ device' = [device EXCEPT ![Cookie(c)].rx = FALSE]
  /\ disturbed' = IF Beside(c) THEN disturbed \union {Cookie(c)} ELSE disturbed
  /\ Goes(c, "closed")
  /\ UNCHANGED <<list, count, holder, bus, published, opens, raced>>

------------------------------------------------------------------------------
(* Free(): the kernel calls it once nothing runs on the descriptor.        *)

Decrement(c) ==
  /\ At(c, "closed")
  /\ device' = [device EXCEPT ![Cookie(c)].count = @ - 1]
  /\ IF device[Cookie(c)].count = 1 THEN Goes(c, "freed") ELSE Leaves(c)
  /\ UNCHANGED <<list, count, holder, bus, published, opens, raced, disturbed>>

\* Mutation: the last reference does not ask.
NeverDeletes(d) == FALSE

\* The last reference to a removed device cleans up.
MustDelete(d) == device[d].removed

LooksRemoved(c) ==
  /\ At(c, "freed")
  /\ IF MustDelete(Cookie(c)) THEN Goes(c, "last") ELSE Leaves(c)
  /\ UNCHANGED <<list, count, holder, device, bus, published, opens, raced, disturbed>>

\* The slot is emptied and, the lock given back, the device deleted.
LastFree(c) ==
  /\ At(c, "last") /\ holder = NoOne
  /\ Unlisted(Cookie(c)) /\ count' = count - 1
  /\ Goes(c, "delete")
  /\ UNCHANGED <<holder, device, bus, published, opens, raced, disturbed>>

ClientDeletes(c) ==
  /\ At(c, "delete")
  /\ device' = [device EXCEPT ![Cookie(c)] = Destroyed(@)]
  /\ Leaves(c)
  /\ UNCHANGED <<list, count, holder, bus, published, opens, raced, disturbed>>

------------------------------------------------------------------------------
(* The kernel.                                                             *)

PublishDevices ==
  /\ holder = NoOne
  /\ published' = {s \in Slots : list[s] # NoDevice} /\ published' # published
  /\ UNCHANGED <<list, count, holder, device, client, bus, opens, raced, disturbed>>

\* uninit_driver: the kernel unloads a driver without descriptors: the devices
\* still listed are deleted, and with the hooks gone nothing more is added.
UninitDriver ==
  /\ holder = NoOne /\ bus.pc = "idle" /\ \A c \in Clients : At(c, "idle")
  /\ \E s \in Slots : list[s] # NoDevice
  /\ device' = [d \in Devices |-> IF \E s \in Slots : list[s] = d
                                  THEN Destroyed(device[d])
                                  ELSE [device[d] EXCEPT !.life = "deleted"]]
  /\ list' = [s \in Slots |-> NoDevice] /\ count' = 0 /\ published' = {}
  /\ UNCHANGED <<holder, client, bus, opens, raced, disturbed>>

BusManager ==
  \/ BusDeletes \/ RemoveOrLeave
  \/ \E d \in Devices : DeviceAdded(d) \/ DeviceRefused(d) \/ DeviceRemoved(d)

\* A thread inside Open(), Close() or Free().
InCall(c) ==
  \/ BringUp(c) \/ AllowReads(c) \/ Restart(c) \/ Opened(c)
  \/ Disconnect(c) \/ StopReceiving(c)
  \/ Decrement(c) \/ LooksRemoved(c) \/ LastFree(c) \/ ClientDeletes(c)

Client(c) == (\E s \in Slots : LookUp(c, s)) \/ StartClose(c) \/ InCall(c)

Next == BusManager \/ PublishDevices \/ UninitDriver \/ \E c \in Clients : Client(c)

Spec == Init /\ [][Next]_vars

\* A thread inside the driver runs on, and the kernel frees what it has closed;
\* nobody need open, close or plug anything.
Fairness == WF_vars(BusDeletes \/ RemoveOrLeave) /\ \A c \in Clients : WF_vars(InCall(c))

FairSpec == Spec /\ Fairness

------------------------------------------------------------------------------
(* Properties.                                                             *)

ClientStates == {"idle", "open", "closed", "freed", "last", "delete"} \union Opening \union Closing

TypeOK ==
  /\ list \in [Slots -> Devices \union {NoDevice}]
  /\ count \in Int /\ (count \in 0 .. SlotCount \/ raced)
  /\ holder \in Clients \union {Bus, NoOne}
  /\ device \in [Devices -> [life : {"unborn", "alive", "deleted"}, slot : Slots,
                             removed : BOOLEAN, up : BOOLEAN, closing : BOOLEAN,
                             rx : BOOLEAN, workers : BOOLEAN, count : Int]]
  /\ client \in [Clients -> [pc : ClientStates, dev : Devices \union {NoDevice}]]
  /\ bus \in [pc : {"idle", "marked", "delete"}, dev : Devices \union {NoDevice}]
  /\ published \subseteq Slots /\ opens \in Nat /\ raced \in BOOLEAN
  /\ disturbed \subseteq Devices

\* gDeviceCount is the number of devices in the list, and each of them is a
\* live object that knows its slot; unless a removal has crossed a Free().
ListExact ==
  ~raced => /\ count = Cardinality({s \in Slots : list[s] # NoDevice})
            /\ \A s \in Slots : list[s] # NoDevice =>
                 device[list[s]].life = "alive" /\ device[list[s]].slot = s

\* No thread works on a device that is gone, and none is deleted under another:
\* whoever holds a cookie, or the pointer the bus manager passed, holds a live
\* object, only one of them is about to delete it, and neither its workers nor
\* its transfers outlive it; with the same exception.
NoUseAfterDelete ==
  ~raced =>
    /\ \A c \in Clients : ~At(c, "idle") => device[Cookie(c)].life = "alive"
    /\ bus.pc # "idle" => device[bus.dev].life = "alive"
    /\ \A c \in Clients : At(c, "delete") => \A o \in Clients \ {c} : Cookie(o) # Cookie(c)
    /\ bus.pc = "delete" => \A c \in Clients : Cookie(c) # bus.dev
    /\ \A d \in Devices : device[d].life = "deleted" => ~device[d].workers /\ ~device[d].rx

\* Whoever has a device open, and has had no Close() of another descriptor
\* beside it, finds it up, receiving, and its reads not refused: Open() undoes
\* what the last Close() did.
OpenReceives ==
  \A c \in Clients :
    At(c, "open") /\ Cookie(c) \notin disturbed /\ ~raced =>
      LET r == device[Cookie(c)] IN r.up /\ r.rx /\ ~r.closing

\* A removed device that nobody has open is deleted in the end: whoever is
\* still inside a call comes out of it, and one of them cleans up.
RemovedDeviceDies ==
  \A d \in Devices :
    (device[d].removed /\ \A c \in Clients : Cookie(c) = d => ~At(c, "open"))
      ~> (device[d].life = "deleted" \/ raced)
=============================================================================
