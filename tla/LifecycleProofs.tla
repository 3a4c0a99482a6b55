-------------------------- MODULE LifecycleProofs --------------------------
(* The device list is exact, no thread works on a deleted device, and whoever *)
(* has a device open receives, for any number of devices, slots and clients; *)
(* with the exceptions the properties name.                                  *)
EXTENDS Lifecycle, FiniteSetTheorems, WellFoundedInduction, TLAPS

------------------------------------------------------------------------------
(* The inductive invariant.                                                *)

Counted == {"open", "closing", "disconnected", "closed"}
Leaving == {"freed", "last", "delete"}

\* A descriptor or a call in progress has a cookie, an idle client has none.
Pointers ==
  /\ \A c \in Clients : IF At(c, "idle") THEN Cookie(c) = NoDevice ELSE Cookie(c) \in Devices
  /\ bus.pc # "idle" => bus.dev \in Devices

\* The descriptors fOpenCount counts.
Holders(d) == {c \in Clients : Cookie(c) = d /\ client[c].pc \in Counted}

\* Each slot's device is alive and knows its slot; one is out of the list only
\* while somebody is about to delete it.
Listed ==
  /\ count = Cardinality({s \in Slots : list[s] # NoDevice})
  /\ \A s \in Slots : list[s] # NoDevice =>
       device[list[s]].life = "alive" /\ device[list[s]].slot = s
  /\ \A d \in Devices :
       device[d].life = "alive" =>
         \/ list[device[d].slot] = d
         \/ bus.pc = "delete" /\ bus.dev = d
         \/ \E c \in Clients : At(c, "delete") /\ Cookie(c) = d

\* Whoever works on a device works on a living one.
Live ==
  /\ \A c \in Clients : ~At(c, "idle") => device[Cookie(c)].life = "alive"
  /\ bus.pc # "idle" => device[bus.dev].life = "alive"

\* fOpenCount is the number of descriptors.
RefCount ==
  \A d \in Devices : /\ IsFiniteSet(Holders(d))
                     /\ device[d].count = Cardinality(Holders(d))

\* Open() and the bus manager work under the list lock, and nobody opens a
\* device that has been removed.
Locked ==
  /\ \A c \in Clients : client[c].pc \in Opening => holder = c /\ ~device[Cookie(c)].removed
  /\ bus.pc = "marked" => holder = Bus

\* A removed device is on its way out through one door: the bus manager's, when
\* nobody is concerned with it, or that of the only one who freed it last.
OneDoor ==
  /\ bus.pc # "idle" => device[bus.dev].removed
  /\ bus.pc = "delete" => /\ \A c \in Clients : Cookie(c) # bus.dev
                          /\ \A s \in Slots : list[s] # bus.dev
  /\ \A c \in Clients : client[c].pc \in {"last", "delete"} => device[Cookie(c)].removed
  /\ \A c \in Clients : client[c].pc \in Leaving /\ device[Cookie(c)].removed =>
       \A o \in Clients \ {c} : Cookie(o) # Cookie(c)
  /\ \A c \in Clients : At(c, "delete") => /\ bus.pc = "idle" \/ bus.dev # Cookie(c)
                                           /\ \A s \in Slots : list[s] # Cookie(c)

\* What runs in a device: nothing unless it is alive, and workers only from the
\* bring-up on.
Running ==
  \A d \in Devices : /\ device[d].workers => device[d].up
                     /\ device[d].life # "alive" => ~device[d].up /\ ~device[d].rx

\* What an Open() has reached stands, but for a Close() beside it.
Ready ==
  \A c \in Clients :
    /\ client[c].pc \in {"readable", "restart", "count", "open"} => device[Cookie(c)].up
    /\ Cookie(c) \notin disturbed =>
         /\ client[c].pc \in {"restart", "count", "open"} => ~device[Cookie(c)].closing
         /\ client[c].pc \in {"count", "open"} => device[Cookie(c)].rx

Core == Listed /\ Live /\ RefCount /\ Locked /\ OneDoor /\ Running /\ Ready

LInv == TypeOK /\ Pointers /\ (raced \/ Core)

------------------------------------------------------------------------------
(* Types.                                                                  *)

Records == [life : {"unborn", "alive", "deleted"}, slot : Slots, removed : BOOLEAN,
            up : BOOLEAN, closing : BOOLEAN, rx : BOOLEAN, workers : BOOLEAN, count : Int]

\* TypeOK but for the bound of the count, which is a matter of Core.
Types ==
  /\ list \in [Slots -> Devices \union {NoDevice}] /\ count \in Int
  /\ holder \in Clients \union {Bus, NoOne}
  /\ device \in [Devices -> Records]
  /\ client \in [Clients -> [pc : ClientStates, dev : Devices \union {NoDevice}]]
  /\ bus \in [pc : {"idle", "marked", "delete"}, dev : Devices \union {NoDevice}]
  /\ published \subseteq Slots /\ opens \in Nat /\ raced \in BOOLEAN
  /\ disturbed \subseteq Devices

LEMMA TypesOfTypeOK == TypeOK <=> Types /\ (count \in 0 .. SlotCount \/ raced)
BY DEF TypeOK, Types, Records

\* There is a first free slot.
LEMMA FirstFree ==
  ASSUME FreeSlots # {}
  PROVE  Min(FreeSlots) \in FreeSlots
<1>. DEFINE Below == {p \in Nat \X Nat : p[1] < p[2]}
<1>1. IsWellFoundedOn(Below, Nat)
  BY NatLessThanWellFounded, Zenon DEF OpToRel
<1>2. \A k, m \in Nat : k < m <=> <<k, m>> \in Below
  OBVIOUS
<1>. HIDE DEF Below
<1>3. FreeSlots \in SUBSET Nat
  BY LifecycleAssumption DEF FreeSlots, Slots
<1>4. PICK m \in FreeSlots : \A k \in FreeSlots : <<k, m>> \notin Below
  BY <1>1, <1>3, WFMin
<1>5. \A k \in FreeSlots : m =< k
  <2>1. ASSUME NEW k \in FreeSlots  PROVE m =< k
    <3>1. ~ (k < m) /\ k \in Nat /\ m \in Nat
      BY <1>2, <1>3, <1>4
    <3>. QED
      BY <3>1
  <2>. QED
    BY <2>1
<1>. QED
  BY <1>5, Zenon DEF Min

\* The types of the objects hold across the changes the actions make.
LEMMA RecordChanges ==
  ASSUME NEW r \in Records
  PROVE  /\ [r EXCEPT !.life = "deleted"] \in Records
         /\ [r EXCEPT !.removed = TRUE] \in Records
         /\ \A b \in BOOLEAN : [r EXCEPT !.rx = b] \in Records
         /\ \A b \in BOOLEAN : [r EXCEPT !.closing = b] \in Records
         /\ \A n \in Int : [r EXCEPT !.count = n] \in Records
<1>1. [r EXCEPT !.life = "deleted"] \in Records
  BY DEF Records
<1>2. [r EXCEPT !.removed = TRUE] \in Records
  BY DEF Records
<1>3. \A b \in BOOLEAN : [r EXCEPT !.rx = b] \in Records
  BY DEF Records
<1>4. \A b \in BOOLEAN : [r EXCEPT !.closing = b] \in Records
  BY DEF Records
<1>5. \A n \in Int : [r EXCEPT !.count = n] \in Records
  BY DEF Records
<1>. QED
  BY <1>1, <1>2, <1>3, <1>4, <1>5

LEMMA RecordBroughtUp ==
  ASSUME NEW r \in Records, NEW w \in BOOLEAN
  PROVE  [[[r EXCEPT !.up = TRUE] EXCEPT !.rx = TRUE] EXCEPT !.workers = w] \in Records
<1>1. [r EXCEPT !.up = TRUE] \in Records
  BY DEF Records
<1>2. [[r EXCEPT !.up = TRUE] EXCEPT !.rx = TRUE] \in Records
  BY <1>1 DEF Records
<1>. QED
  BY <1>2 DEF Records

LEMMA RecordDestroyed ==
  ASSUME NEW r \in Records
  PROVE  /\ Destroyed(r) \in Records
         /\ Destroyed(r).life = "deleted" /\ ~Destroyed(r).up /\ ~Destroyed(r).rx
         /\ Destroyed(r).workers = IF r.up THEN FALSE ELSE r.workers
         /\ Destroyed(r).slot = r.slot /\ Destroyed(r).removed = r.removed
         /\ Destroyed(r).count = r.count
BY DEF Records, Destroyed

LEMMA RecordBorn ==
  ASSUME NEW r \in Records, NEW s \in Slots
  PROVE  LET n == [r EXCEPT !.life = "alive", !.slot = s]
         IN /\ n \in Records /\ n.life = "alive" /\ n.slot = s /\ n.removed = r.removed
            /\ n.up = r.up /\ n.rx = r.rx /\ n.workers = r.workers /\ n.count = r.count
BY DEF Records

LEMMA NewRecord ==
  /\ NewDevice \in Records
  /\ ~NewDevice.removed /\ ~NewDevice.up /\ ~NewDevice.rx /\ ~NewDevice.workers
  /\ NewDevice.count = 0
BY LifecycleAssumption DEF Records, NewDevice, Slots

------------------------------------------------------------------------------
(* What one action does to the types.                                      *)

LEMMA ClientSteps ==
  ASSUME Types, Pointers, NEW c \in Clients
  PROVE  /\ \A p \in ClientStates : Goes(c, p) =>
              /\ client' \in [Clients -> [pc : ClientStates, dev : Devices \union {NoDevice}]]
              /\ client'[c].pc = p /\ client'[c].dev = client[c].dev
              /\ \A o \in Clients \ {c} : client'[o] = client[o]
         /\ Leaves(c) =>
              /\ client' \in [Clients -> [pc : ClientStates, dev : Devices \union {NoDevice}]]
              /\ client'[c].pc = "idle" /\ client'[c].dev = NoDevice
              /\ \A o \in Clients \ {c} : client'[o] = client[o]
BY SMTT(30) DEF Types, Goes, Leaves, ClientStates, Opening, Closing

LEMMA DeviceSteps ==
  ASSUME Types, NEW d \in Devices, NEW r \in Records, device' = [device EXCEPT ![d] = r]
  PROVE  /\ device' \in [Devices -> Records] /\ device'[d] = r
         /\ \A e \in Devices \ {d} : device'[e] = device[e]
BY DEF Types

\* What the list, the count, the lock and the removal depend on is the same.
Kept(e) == /\ device'[e].life = device[e].life /\ device'[e].slot = device[e].slot
           /\ device'[e].removed = device[e].removed /\ device'[e].count = device[e].count

\* A step of a client that neither leaves the device nor counts it: its stage
\* changes, or it gives an Open() up.
Calm(c) ==
  /\ UNCHANGED <<list, count, bus>>
  /\ \A e \in Devices : Kept(e)
  /\ \A o \in Clients \ {c} : client'[o] = client[o]
  /\ client[c].pc # "idle" /\ client[c].pc \notin Leaving /\ client'[c].pc \notin Leaving
  /\ client[c].pc \in Counted <=> client'[c].pc \in Counted
  /\ \/ client'[c].dev = client[c].dev /\ client'[c].pc # "idle"
     \/ client'[c].dev = NoDevice /\ client'[c].pc = "idle" /\ client[c].pc \notin Counted

LEMMA CalmStep ==
  ASSUME Types, Pointers, Core, NEW c \in Clients, Calm(c)
  PROVE  Pointers' /\ Listed' /\ Live' /\ RefCount' /\ OneDoor'
<1>. USE DEF Types, Pointers, Calm, Kept, At, Cookie
<1>. USE LifecycleAssumption
<1>1. Pointers'
  OBVIOUS
<1>2. Listed'
  BY DEF Core, Listed, Leaving
<1>3. Live'
  BY DEF Core, Live
<1>4. RefCount'
  <2>1. \A d \in Devices : Holders(d)' = Holders(d)
    BY DEF Holders
  <2>. QED
    BY <2>1 DEF Core, RefCount
<1>5. OneDoor'
  BY DEF Core, OneDoor, Leaving
<1>. QED
  BY <1>1, <1>2, <1>3, <1>4, <1>5

------------------------------------------------------------------------------
(* Every step keeps the types and the pointers, races or not.              *)

LEMMA BusTypes ==
  ASSUME Types, Pointers, BusManager
  PROVE  Types' /\ Pointers'
<1>. USE DEF At, Cookie
<1>1. CASE BusDeletes
  <2>1. /\ bus.dev \in Devices /\ device[bus.dev] \in Records
        /\ bus' = [pc |-> "idle", dev |-> NoDevice]
    BY <1>1 DEF BusDeletes, Pointers, Types
  <2>2. device' = [device EXCEPT ![bus.dev] = Destroyed(device[bus.dev])]
    BY <1>1, <2>1 DEF BusDeletes, Types
  <2>3. device' \in [Devices -> Records]
    BY <2>1, <2>2, RecordDestroyed DEF Types
  <2>. QED
    BY <1>1, <2>1, <2>3 DEF BusDeletes, Pointers, Types
<1>2. CASE RemoveOrLeave
  <2>1. bus.dev \in Devices
    BY <1>2 DEF RemoveOrLeave, Pointers
  <2>2. /\ holder' = NoOne /\ raced' \in BOOLEAN
        /\ list' \in [Slots -> Devices \union {NoDevice}] /\ count' \in Int
    BY <1>2, <2>1 DEF RemoveOrLeave, Types, Unlisted, Crosses
  <2>3. /\ bus' \in [pc : {"idle", "marked", "delete"}, dev : Devices \union {NoDevice}]
        /\ bus'.pc # "idle" => bus'.dev \in Devices
    BY <1>2, <2>1 DEF RemoveOrLeave, Types
  <2>. QED
    BY <1>2, <2>2, <2>3 DEF RemoveOrLeave, Pointers, Types
<1>3. ASSUME NEW d \in Devices, DeviceAdded(d)  PROVE Types' /\ Pointers'
  <2>1. Min(FreeSlots) \in Slots
    BY <1>3, FirstFree DEF DeviceAdded, FreeSlots
  <2>2. device' \in [Devices -> Records]
    BY <1>3, <2>1, NewRecord, RecordBorn, Zenon DEF DeviceAdded, Types
  <2>3. list' \in [Slots -> Devices \union {NoDevice}] /\ count' \in Int
    BY <1>3, <2>1 DEF DeviceAdded, Types
  <2>. QED
    BY <1>3, <2>2, <2>3 DEF DeviceAdded, Pointers, Types
<1>4. ASSUME NEW d \in Devices, DeviceRefused(d)  PROVE Types' /\ Pointers'
  <2>1. device' \in [Devices -> Records]
    BY <1>4, RecordChanges DEF DeviceRefused, Types
  <2>. QED
    BY <1>4, <2>1 DEF DeviceRefused, Pointers, Types
<1>5. ASSUME NEW d \in Devices, DeviceRemoved(d)  PROVE Types' /\ Pointers'
  <2>1. device' \in [Devices -> Records]
    BY <1>5, RecordChanges DEF DeviceRemoved, Types
  <2>2. holder' \in Clients \union {Bus, NoOne} /\ raced' \in BOOLEAN
    BY <1>5 DEF DeviceRemoved, Types, Crosses
  <2>. QED
    BY <1>5, <2>1, <2>2 DEF DeviceRemoved, Pointers, Types
<1>. QED
  BY <1>1, <1>2, <1>3, <1>4, <1>5 DEF BusManager

LEMMA KernelTypes ==
  ASSUME Types, Pointers, PublishDevices \/ UninitDriver
  PROVE  Types' /\ Pointers'
<1>. USE DEF At, Cookie
<1>1. CASE PublishDevices
  BY <1>1 DEF PublishDevices, Types, Pointers
<1>2. CASE UninitDriver
  <2>1. device' \in [Devices -> Records]
    <3>1. \A d \in Devices : /\ Destroyed(device[d]) \in Records
                             /\ [device[d] EXCEPT !.life = "deleted"] \in Records
      BY RecordDestroyed, RecordChanges DEF Types
    <3>. QED
      BY <1>2, <3>1, Zenon DEF UninitDriver
  <2>2. list' \in [Slots -> Devices \union {NoDevice}]
    BY <1>2 DEF UninitDriver
  <2>. QED
    BY <1>2, <2>1, <2>2 DEF UninitDriver, Types, Pointers
<1>. QED
  BY <1>1, <1>2

\* What a client's step may write, as the types see it.
LEMMA ClientTypes ==
  ASSUME Types, Pointers, NEW c \in Clients, Client(c)
  PROVE  Types' /\ Pointers'
<1>. DEFINE States == [Clients -> [pc : ClientStates, dev : Devices \union {NoDevice}]]
<1>1. bus' = bus
  BY DEF Client, InCall, LookUp, StartClose, BringUp, AllowReads, Restart, Opened, Disconnect,
         StopReceiving, Decrement, LooksRemoved, LastFree, ClientDeletes
<1>2. CASE \E s \in Slots : LookUp(c, s)
  <2>1. PICK s \in Slots : LookUp(c, s)
    BY <1>2
  <2>2. CASE list[s] = NoDevice \/ (list[s] # NoDevice /\ device[list[s]].removed)
    BY <2>1, <2>2, <1>1 DEF LookUp, Types, Pointers, At, Cookie
  <2>3. CASE ~(list[s] = NoDevice \/ (list[s] # NoDevice /\ device[list[s]].removed))
    <3>1. /\ list[s] \in Devices /\ holder' = c
          /\ client' = [client EXCEPT ![c] = [pc |-> "opening", dev |-> list[s]]]
      BY <2>1, <2>3 DEF LookUp, Types
    <3>2. client' \in States
      BY <3>1 DEF Types, ClientStates, Opening
    <3>3. Pointers'
      BY <3>1, <1>1, LifecycleAssumption DEF Types, Pointers, At, Cookie
    <3>. QED
      BY <2>1, <3>1, <3>2, <3>3, <1>1 DEF LookUp, Types
  <2>. QED
    BY <2>2, <2>3
<1>3. CASE StartClose(c) \/ InCall(c)
  <2>1. Cookie(c) \in Devices /\ device[Cookie(c)] \in Records /\ ~At(c, "idle")
    BY <1>3 DEF Types, Pointers, At, Cookie, StartClose, InCall, BringUp, AllowReads, Restart,
                Opened, Disconnect, StopReceiving, Decrement, LooksRemoved, LastFree, ClientDeletes
  <2>2. (\E p \in ClientStates \ {"idle"} : Goes(c, p)) \/ Leaves(c)
    BY <1>3 DEF ClientStates, Opening, Closing, OpenFails, StartClose, InCall, BringUp, AllowReads,
                Restart, Opened, Disconnect, StopReceiving, Decrement, LooksRemoved, LastFree,
                ClientDeletes
  <2>3. client' \in States /\ Pointers'
    BY <2>1, <2>2, <1>1, ClientSteps DEF Pointers, At, Cookie
  <2>4. device' \in [Devices -> Records]
    <3>1. (\E r \in Records : device' = [device EXCEPT ![Cookie(c)] = r]) \/ UNCHANGED device
      <4>. DEFINE d == Cookie(c)
      <4>1. CASE BringUp(c)
        <5>1. CASE \E w \in BOOLEAN :
                     device' = [device EXCEPT ![d].up = TRUE, ![d].rx = TRUE, ![d].workers = w]
          <6>1. PICK w \in BOOLEAN :
                  device' = [device EXCEPT ![d].up = TRUE, ![d].rx = TRUE, ![d].workers = w]
            BY <5>1
          <6>2. device' = [device EXCEPT ![d] = [[[device[d] EXCEPT !.up = TRUE] EXCEPT !.rx = TRUE]
                                                 EXCEPT !.workers = w]]
            BY <6>1, <2>1 DEF Types
          <6>. QED
            BY <6>2, <2>1, RecordBroughtUp, Zenon
        <5>2. CASE \E rx \in {device[d].rx, TRUE} : device' = [device EXCEPT ![d].rx = rx]
          <6>1. PICK rx \in BOOLEAN : device' = [device EXCEPT ![d] = [device[d] EXCEPT !.rx = rx]]
            BY <5>2, <2>1 DEF Types, Records
          <6>. QED
            BY <6>1, <2>1, RecordChanges, Zenon
        <5>. QED
          BY <4>1, <5>1, <5>2 DEF BringUp
      <4>2. CASE AllowReads(c)
        BY <4>2, <2>1, RecordChanges, Zenon DEF AllowReads, Reopen
      <4>3. CASE Restart(c)
        BY <4>3, <2>1, RecordChanges, Zenon DEF Restart
      <4>4. CASE Opened(c)
        <5>1. device[d].count + 1 \in Int
          BY <2>1 DEF Records
        <5>. QED
          BY <4>4, <5>1, <2>1, RecordChanges, Zenon DEF Opened
      <4>5. CASE StartClose(c)
        BY <4>5, <2>1, RecordChanges, Zenon DEF StartClose
      <4>6. CASE StopReceiving(c)
        BY <4>6, <2>1, RecordChanges, Zenon DEF StopReceiving
      <4>7. CASE Decrement(c)
        <5>1. device[d].count - 1 \in Int
          BY <2>1 DEF Records
        <5>. QED
          BY <4>7, <5>1, <2>1, RecordChanges, Zenon DEF Decrement
      <4>8. CASE ClientDeletes(c)
        BY <4>8, <2>1, RecordDestroyed, Zenon DEF ClientDeletes
      <4>9. CASE Disconnect(c) \/ LooksRemoved(c) \/ LastFree(c)
        BY <4>9 DEF Disconnect, LooksRemoved, LastFree
      <4>. QED
        BY <1>3, <4>1, <4>2, <4>3, <4>4, <4>5, <4>6, <4>7, <4>8, <4>9, Zenon DEF InCall
    <3>. QED
      BY <3>1, <2>1 DEF Types
  <2>5. list' \in [Slots -> Devices \union {NoDevice}] /\ count' \in Int
    BY <1>3, <2>1 DEF Types, Unlisted, StartClose, InCall, BringUp, AllowReads, Restart,
                Opened, Disconnect, StopReceiving, Decrement, LooksRemoved, LastFree, ClientDeletes
  <2>6. /\ holder' \in Clients \union {Bus, NoOne} /\ disturbed' \subseteq Devices
        /\ UNCHANGED <<published, opens, raced>>
    BY <1>3, <2>1 DEF Types, OpenFails, StartClose, InCall, BringUp, AllowReads, Restart,
                Opened, Disconnect, StopReceiving, Decrement, LooksRemoved, LastFree, ClientDeletes
  <2>. QED
    BY <2>3, <2>4, <2>5, <2>6, <1>1 DEF Types
<1>. QED
  BY <1>2, <1>3 DEF Client

------------------------------------------------------------------------------
(* The steps that neither open nor free a descriptor.                      *)

\* What a change of one field leaves of the others.
LEMMA RecordFields ==
  ASSUME NEW r \in Records
  PROVE  /\ \A b \in BOOLEAN : LET n == [r EXCEPT !.rx = b]
              IN /\ n.rx = b /\ n.life = r.life /\ n.slot = r.slot /\ n.removed = r.removed
                 /\ n.up = r.up /\ n.closing = r.closing /\ n.workers = r.workers
                 /\ n.count = r.count
         /\ \A b \in BOOLEAN : LET n == [r EXCEPT !.closing = b]
              IN /\ n.closing = b /\ n.life = r.life /\ n.slot = r.slot /\ n.removed = r.removed
                 /\ n.up = r.up /\ n.rx = r.rx /\ n.workers = r.workers /\ n.count = r.count
         /\ \A k \in Int : LET n == [r EXCEPT !.count = k]
              IN /\ n.count = k /\ n.life = r.life /\ n.slot = r.slot /\ n.removed = r.removed
                 /\ n.up = r.up /\ n.rx = r.rx /\ n.closing = r.closing /\ n.workers = r.workers
         /\ LET n == [r EXCEPT !.removed = TRUE]
            IN /\ n.removed /\ n.life = r.life /\ n.slot = r.slot /\ n.up = r.up
               /\ n.rx = r.rx /\ n.closing = r.closing /\ n.workers = r.workers
               /\ n.count = r.count
         /\ LET n == [r EXCEPT !.life = "deleted"]
            IN /\ n.life = "deleted" /\ n.slot = r.slot /\ n.removed = r.removed /\ n.up = r.up
               /\ n.rx = r.rx /\ n.closing = r.closing /\ n.workers = r.workers
               /\ n.count = r.count
         /\ \A w \in BOOLEAN :
              LET n == [[[r EXCEPT !.up = TRUE] EXCEPT !.rx = TRUE] EXCEPT !.workers = w]
              IN /\ n.up = TRUE /\ n.rx = TRUE /\ n.life = r.life /\ n.slot = r.slot
                 /\ n.removed = r.removed /\ n.closing = r.closing /\ n.count = r.count
BY DEF Records

\* A step inside Open(): the stage goes on, or the lock is given back.
LEMMA OpenStep ==
  ASSUME Types, Pointers, Core, NEW c \in Clients, Calm(c), client[c].pc \in Opening,
         \/ client'[c].pc \in Opening /\ holder' = holder
         \/ client'[c].pc = "idle" /\ holder' = NoOne
  PROVE  Locked'
BY LifecycleAssumption DEF Types, Pointers, Core, Locked, Opening, Calm, Kept, At, Cookie

\* A step of Close().
LEMMA CloseStep ==
  ASSUME Types, Pointers, Core, NEW c \in Clients, Calm(c), client[c].pc \notin Opening,
         client'[c].pc \notin Opening, holder' = holder
  PROVE  Locked'
BY LifecycleAssumption DEF Types, Pointers, Core, Locked, Opening, Calm, Kept, At, Cookie

LEMMA BringUpStep ==
  ASSUME Types, Pointers, Core, NEW c \in Clients, BringUp(c)
  PROVE  Core'
<1>. DEFINE d == Cookie(c)
<1>1. /\ d \in Devices /\ device[d] \in Records /\ client[c].pc = "opening" /\ d # NoDevice
      /\ device[d].life = "alive"
  BY LifecycleAssumption DEF BringUp, Types, Pointers, Core, Live, At, Cookie
<1>2. /\ Goes(c, "readable") => client'[c].pc = "readable" /\ client'[c].dev = d
      /\ Leaves(c) => client'[c].pc = "idle" /\ client'[c].dev = NoDevice
      /\ Goes(c, "readable") \/ Leaves(c) => \A o \in Clients \ {c} : client'[o] = client[o]
  BY ClientSteps DEF ClientStates, Opening, Cookie
<1>3. /\ \A e \in Devices \ {d} : device'[e] = device[e]
      /\ Kept(d) /\ device'[d].closing = device[d].closing
      /\ device[d].up => device'[d].up
      /\ device[d].rx => device'[d].rx
      /\ device'[d].workers => device'[d].up
      /\ Goes(c, "readable") \/ Leaves(c)
      /\ ~Leaves(c) => device'[d].up
  <2>0. device[d].workers => device[d].up
    BY <1>1 DEF Core, Running
  <2>1. CASE device[d].up /\ Goes(c, "readable") /\ UNCHANGED <<device, holder>>
    BY <2>0, <2>1 DEF Kept
  <2>2. CASE /\ Goes(c, "readable")
             /\ \E w \in BOOLEAN :
                  device' = [device EXCEPT ![d].up = TRUE, ![d].rx = TRUE, ![d].workers = w]
    <3>0. PICK w \in BOOLEAN :
            device' = [device EXCEPT ![d].up = TRUE, ![d].rx = TRUE, ![d].workers = w]
      BY <2>2
    <3>. DEFINE r == [[[device[d] EXCEPT !.up = TRUE] EXCEPT !.rx = TRUE]
                                              EXCEPT !.workers = w]
    <3>1. device' = [device EXCEPT ![d] = r]
      BY <3>0, <1>1 DEF Types
    <3>2. r \in Records
      BY <1>1, RecordBroughtUp
    <3>3. /\ r.up = TRUE /\ r.rx = TRUE
          /\ r.life = device[d].life /\ r.slot = device[d].slot
          /\ r.removed = device[d].removed /\ r.closing = device[d].closing
          /\ r.count = device[d].count
      BY <1>1, RecordFields
    <3>. HIDE DEF r
    <3>4. device'[d] = r /\ \A e \in Devices \ {d} : device'[e] = device[e]
      BY <3>1, <3>2, <1>1, DeviceSteps
    <3>. QED
      BY <3>3, <3>4, <2>2 DEF Kept
  <2>3. CASE /\ ~device[d].up /\ OpenFails(c)
             /\ \E rx \in {device[d].rx, TRUE} : device' = [device EXCEPT ![d].rx = rx]
    <3>1. PICK rx \in {device[d].rx, TRUE} : device' = [device EXCEPT ![d] = [device[d] EXCEPT !.rx = rx]]
      BY <2>3, <1>1 DEF Types
    <3>2. rx \in BOOLEAN
      BY <1>1 DEF Records
    <3>. DEFINE r == [device[d] EXCEPT !.rx = rx]
    <3>3. r \in Records
      BY <1>1, <3>2, RecordChanges
    <3>4. /\ r.rx = rx /\ r.life = device[d].life /\ r.slot = device[d].slot
          /\ r.removed = device[d].removed /\ r.up = device[d].up
          /\ r.closing = device[d].closing /\ r.workers = device[d].workers
          /\ r.count = device[d].count
      BY <1>1, <3>2, RecordFields
    <3>. HIDE DEF r
    <3>5. device'[d] = r /\ \A e \in Devices \ {d} : device'[e] = device[e]
      BY <3>1, <3>3, <1>1, DeviceSteps DEF r
    <3>. QED
      BY <3>1, <3>4, <3>5, <2>0, <2>3 DEF Kept, OpenFails
  <2>. QED
    BY <2>1, <2>2, <2>3 DEF BringUp
<1>4. Calm(c)
  BY <1>1, <1>2, <1>3 DEF BringUp, Calm, Kept, Leaving, Counted, Cookie
<1>5. Listed' /\ Live' /\ RefCount' /\ OneDoor'
  BY <1>4, CalmStep
<1>6. Locked'
  BY <1>1, <1>2, <1>4, OpenStep DEF BringUp, OpenFails, Opening
<1>7. Running'
  BY <1>1, <1>3 DEF Core, Running, Kept
<1>8. Ready'
  <2>1. disturbed' = disturbed
    BY DEF BringUp
  <2>. QED
    BY <2>1, <1>1, <1>2, <1>3 DEF Core, Ready, Pointers, At, Cookie
<1>. QED
  BY <1>5, <1>6, <1>7, <1>8 DEF Core

\* A step that only writes one field of the client's device, which says nothing
\* of its life.
LEMMA OneField ==
  ASSUME Types, NEW d \in Devices, NEW b \in BOOLEAN,
         \/ device' = [device EXCEPT ![d] = [device[d] EXCEPT !.closing = b]]
         \/ device' = [device EXCEPT ![d] = [device[d] EXCEPT !.rx = b]]
  PROVE  /\ \A e \in Devices : /\ Kept(e) /\ device'[e].up = device[e].up
                               /\ device'[e].workers = device[e].workers
         /\ \A e \in Devices \ {d} : device'[e] = device[e]
         /\ device' = [device EXCEPT ![d] = [device[d] EXCEPT !.closing = b]] =>
              device'[d].closing = b /\ device'[d].rx = device[d].rx
         /\ device' = [device EXCEPT ![d] = [device[d] EXCEPT !.rx = b]] =>
              device'[d].rx = b /\ device'[d].closing = device[d].closing
<1>1. device[d] \in Records
  BY DEF Types
<1>. DEFINE q == [device[d] EXCEPT !.closing = b]
            r == [device[d] EXCEPT !.rx = b]
<1>2. q \in Records /\ r \in Records
  BY <1>1, RecordChanges
<1>3. /\ r.rx = b /\ r.life = device[d].life /\ r.slot = device[d].slot
      /\ r.removed = device[d].removed /\ r.up = device[d].up /\ r.closing = device[d].closing
      /\ r.workers = device[d].workers /\ r.count = device[d].count
  BY <1>1, RecordFields
<1>4. /\ q.closing = b /\ q.life = device[d].life /\ q.slot = device[d].slot
      /\ q.removed = device[d].removed /\ q.up = device[d].up /\ q.rx = device[d].rx
      /\ q.workers = device[d].workers /\ q.count = device[d].count
  BY <1>1, RecordFields
<1>. HIDE DEF q, r
<1>5. /\ device' = [device EXCEPT ![d] = q] =>
           device'[d] = q /\ \A e \in Devices \ {d} : device'[e] = device[e]
      /\ device' = [device EXCEPT ![d] = r] =>
           device'[d] = r /\ \A e \in Devices \ {d} : device'[e] = device[e]
  BY <1>2, DeviceSteps
<1>6. \/ device' = [device EXCEPT ![d] = q] \/ device' = [device EXCEPT ![d] = r]
  BY DEF q, r
<1>7. /\ \A e \in Devices : /\ Kept(e) /\ device'[e].up = device[e].up
                            /\ device'[e].workers = device[e].workers
      /\ \A e \in Devices \ {d} : device'[e] = device[e]
  BY <1>3, <1>4, <1>5, <1>6 DEF Kept
<1>8. /\ device' = [device EXCEPT ![d] = q] =>
           device'[d].closing = b /\ device'[d].rx = device[d].rx
      /\ device' = [device EXCEPT ![d] = r] =>
           device'[d].rx = b /\ device'[d].closing = device[d].closing
  BY <1>3, <1>4, <1>5
<1>. QED
  BY <1>7, <1>8 DEF q, r

LEMMA AllowReadsStep ==
  ASSUME Types, Pointers, Core, NEW c \in Clients, AllowReads(c)
  PROVE  Core'
<1>. DEFINE d == Cookie(c)
<1>1. d \in Devices /\ client[c].pc = "readable" /\ d # NoDevice
  BY LifecycleAssumption DEF AllowReads, Types, Pointers, At, Cookie
<1>2. /\ client'[c].pc = "restart" /\ client'[c].dev = d
      /\ \A o \in Clients \ {c} : client'[o] = client[o]
  BY ClientSteps DEF AllowReads, ClientStates, Opening, Cookie
<1>3. /\ \A e \in Devices : /\ Kept(e) /\ device'[e].up = device[e].up
                            /\ device'[e].workers = device[e].workers
      /\ \A e \in Devices \ {d} : device'[e] = device[e]
      /\ device'[d].closing = FALSE /\ device'[d].rx = device[d].rx
  <2>1. device' = [device EXCEPT ![d] = [device[d] EXCEPT !.closing = FALSE]]
    BY DEF AllowReads, Reopen
  <2>. QED
    BY <1>1, <2>1, OneField
<1>4. Calm(c)
  BY <1>1, <1>2, <1>3 DEF AllowReads, Calm, Leaving, Counted, Cookie
<1>5. Listed' /\ Live' /\ RefCount' /\ OneDoor'
  BY <1>4, CalmStep
<1>6. Locked'
  BY <1>1, <1>2, <1>4, OpenStep DEF AllowReads, Opening
<1>7. Running'
  BY <1>3 DEF Core, Running, Kept
<1>8. Ready'
  <2>1. disturbed' = disturbed
    BY DEF AllowReads
  <2>. QED
    BY <2>1, <1>1, <1>2, <1>3 DEF Core, Ready, Pointers, At, Cookie
<1>. QED
  BY <1>5, <1>6, <1>7, <1>8 DEF Core

LEMMA RestartStep ==
  ASSUME Types, Pointers, Core, NEW c \in Clients, Restart(c)
  PROVE  Core'
<1>. DEFINE d == Cookie(c)
<1>1. d \in Devices /\ client[c].pc = "restart" /\ d # NoDevice /\ device[d].life = "alive"
  BY LifecycleAssumption DEF Restart, Types, Pointers, Core, Live, At, Cookie
<1>2. /\ Goes(c, "count") => client'[c].pc = "count" /\ client'[c].dev = d
      /\ Leaves(c) => client'[c].pc = "idle" /\ client'[c].dev = NoDevice
      /\ Goes(c, "count") \/ Leaves(c)
      /\ \A o \in Clients \ {c} : client'[o] = client[o]
  BY ClientSteps DEF Restart, OpenFails, ClientStates, Opening, Cookie
<1>3. /\ \A e \in Devices : /\ Kept(e) /\ device'[e].up = device[e].up
                            /\ device'[e].workers = device[e].workers
                            /\ device'[e].closing = device[e].closing
      /\ \A e \in Devices \ {d} : device'[e] = device[e]
      /\ (Leaves(c) /\ device' = device) \/ (Goes(c, "count") /\ device'[d].rx = TRUE)
  <2>1. CASE Goes(c, "count") /\ device' = [device EXCEPT ![d].rx = TRUE]
    <3>1. device' = [device EXCEPT ![d] = [device[d] EXCEPT !.rx = TRUE]]
      BY <2>1
    <3>2. /\ \A e \in Devices : /\ Kept(e) /\ device'[e].up = device[e].up
                                /\ device'[e].workers = device[e].workers
          /\ \A e \in Devices \ {d} : device'[e] = device[e]
          /\ device'[d].rx = TRUE /\ device'[d].closing = device[d].closing
      BY <1>1, <3>1, OneField
    <3>. QED
      BY <2>1, <3>2
  <2>2. CASE Leaves(c) /\ device' = device
    BY <2>2 DEF Kept
  <2>. QED
    BY <2>1, <2>2 DEF Restart, OpenFails
<1>4. Calm(c)
  BY <1>1, <1>2, <1>3 DEF Restart, Calm, Leaving, Counted, Cookie
<1>5. Listed' /\ Live' /\ RefCount' /\ OneDoor'
  BY <1>4, CalmStep
<1>6. Locked'
  BY <1>1, <1>2, <1>4, OpenStep DEF Restart, OpenFails, Opening
<1>7. Running'
  BY <1>1, <1>3 DEF Core, Running, Kept
<1>8. Ready'
  <2>1. disturbed' = disturbed
    BY DEF Restart
  <2>2. \A e \in Devices : device[e].rx => device'[e].rx
    BY <1>3
  <2>. QED
    BY <2>1, <2>2, <1>1, <1>2, <1>3 DEF Core, Ready, Pointers, At, Cookie
<1>. QED
  BY <1>5, <1>6, <1>7, <1>8 DEF Core

\* What the three steps of Close() have in common: the client goes from one
\* stage in which it counts to the next, and whoever is beside it is disturbed.
LEMMA ClosingStep ==
  ASSUME Types, Pointers, Core, NEW c \in Clients, NEW p \in {"closing", "disconnected", "closed"},
         client[c].pc \in {"open", "closing", "disconnected"}, Goes(c, p),
         UNCHANGED <<list, count, bus, holder>>,
         disturbed' = (IF Beside(c) THEN disturbed \union {Cookie(c)} ELSE disturbed),
         \A e \in Devices : /\ Kept(e) /\ device'[e].up = device[e].up
                            /\ device'[e].workers = device[e].workers,
         \A e \in Devices \ {Cookie(c)} : device'[e] = device[e],
         device'[Cookie(c)].rx => device[Cookie(c)].rx
  PROVE  Core'
<1>. DEFINE d == Cookie(c)
<1>1. d \in Devices /\ d # NoDevice
  BY LifecycleAssumption DEF Types, Pointers, At, Cookie
<1>2. /\ client'[c].pc = p /\ client'[c].dev = d
      /\ \A o \in Clients \ {c} : client'[o] = client[o]
  BY ClientSteps DEF ClientStates, Closing, Cookie
<1>3. Calm(c)
  BY <1>1, <1>2 DEF Calm, Leaving, Counted, Cookie
<1>4. Listed' /\ Live' /\ RefCount' /\ OneDoor'
  BY <1>3, CalmStep
<1>5. Locked'
  BY <1>2, <1>3, CloseStep DEF Opening
<1>6. Running'
  BY DEF Core, Running, Kept
<1>7. Ready'
  <2>. SUFFICES ASSUME NEW o \in Clients
                PROVE  /\ client'[o].pc \in {"readable", "restart", "count", "open"} =>
                            device'[client'[o].dev].up
                       /\ client'[o].dev \notin disturbed' =>
                            /\ client'[o].pc \in {"restart", "count", "open"} =>
                                 ~device'[client'[o].dev].closing
                            /\ client'[o].pc \in {"count", "open"} => device'[client'[o].dev].rx
    BY DEF Ready, Cookie
  <2>1. CASE o = c
    BY <2>1, <1>2
  <2>2. CASE o # c /\ client[o].pc \in {"readable", "restart", "count", "open"}
    <3>1. client'[o] = client[o] /\ client[o].dev \in Devices
      BY <2>2, <1>2 DEF Pointers, At, Cookie
    <3>2. device'[client[o].dev].up
      BY <2>2, <3>1 DEF Core, Ready, Cookie
    <3>3. client[o].dev = d => d \in disturbed'
      BY <2>2 DEF Beside, Opening, Cookie
    <3>4. client[o].dev # d => /\ device'[client[o].dev] = device[client[o].dev]
                               /\ client[o].dev \in disturbed => client[o].dev \in disturbed'
      BY <3>1
    <3>. QED
      BY <2>2, <3>1, <3>2, <3>3, <3>4 DEF Core, Ready, Cookie
  <2>3. CASE o # c /\ client[o].pc \notin {"readable", "restart", "count", "open"}
    BY <2>3, <1>2
  <2>. QED
    BY <2>1, <2>2, <2>3
<1>. QED
  BY <1>4, <1>5, <1>6, <1>7 DEF Core

LEMMA CloseSteps ==
  ASSUME Types, Pointers, Core, NEW c \in Clients,
         StartClose(c) \/ Disconnect(c) \/ StopReceiving(c)
  PROVE  Core'
<1>. DEFINE d == Cookie(c)
<1>1. d \in Devices
  BY DEF StartClose, Disconnect, StopReceiving, Pointers, At, Cookie
<1>2. CASE StartClose(c)
  <2>1. device' = [device EXCEPT ![d] = [device[d] EXCEPT !.closing = TRUE]]
    BY <1>2 DEF StartClose
  <2>2. /\ \A e \in Devices : /\ Kept(e) /\ device'[e].up = device[e].up
                              /\ device'[e].workers = device[e].workers
        /\ \A e \in Devices \ {d} : device'[e] = device[e]
        /\ device'[d].rx = device[d].rx
    BY <1>1, <2>1, OneField
  <2>. QED
    BY <1>2, <2>2, ClosingStep DEF StartClose, At
<1>3. CASE Disconnect(c)
  BY <1>3, ClosingStep DEF Disconnect, At, Kept
<1>4. CASE StopReceiving(c)
  <2>1. device' = [device EXCEPT ![d] = [device[d] EXCEPT !.rx = FALSE]]
    BY <1>4 DEF StopReceiving
  <2>2. /\ \A e \in Devices : /\ Kept(e) /\ device'[e].up = device[e].up
                              /\ device'[e].workers = device[e].workers
        /\ \A e \in Devices \ {d} : device'[e] = device[e]
        /\ device'[d].rx = FALSE
    BY <1>1, <2>1, OneField
  <2>. QED
    BY <1>4, <2>2, ClosingStep DEF StopReceiving, At
<1>. QED
  BY <1>2, <1>3, <1>4

------------------------------------------------------------------------------
(* Descriptors come and go.                                                *)

LEMMA StillStep ==
  ASSUME Core, UNCHANGED <<list, count, holder, device, client, bus, disturbed>>
  PROVE  Core'
<1>1. RefCount'
  <2>1. \A e \in Devices : Holders(e)' = Holders(e)
    BY DEF Holders, Cookie
  <2>. QED
    BY <2>1 DEF Core, RefCount
<1>2. Listed' /\ Live'
  BY DEF Core, Listed, Live, At, Cookie
<1>3. Locked' /\ OneDoor'
  BY DEF Core, Locked, OneDoor, At, Cookie
<1>4. Running' /\ Ready'
  BY DEF Core, Running, Ready, Cookie
<1>. QED
  BY <1>1, <1>2, <1>3, <1>4 DEF Core

LEMMA LookUpStep ==
  ASSUME Types, Pointers, Core, NEW c \in Clients, NEW s \in Slots, LookUp(c, s)
  PROVE  Core'
<1>1. CASE UNCHANGED <<holder, client>>
  BY <1>1, StillStep DEF LookUp
<1>2. CASE ~(list[s] = NoDevice \/ (list[s] # NoDevice /\ device[list[s]].removed))
  <2>. DEFINE d == list[s]
  <2>1. /\ d \in Devices /\ device[d].life = "alive" /\ ~device[d].removed
        /\ client[c].pc = "idle" /\ holder = NoOne /\ holder' = c
    BY <1>2 DEF LookUp, Types, Core, Listed, At
  <2>2. /\ client'[c].pc = "opening" /\ client'[c].dev = d
        /\ \A o \in Clients \ {c} : client'[o] = client[o]
    BY <1>2 DEF LookUp, Types
  <2>3. UNCHANGED <<list, count, device, bus, disturbed>>
    BY DEF LookUp
  <2>4. Listed'
    BY <2>1, <2>2, <2>3 DEF Core, Listed, At, Cookie
  <2>5. Live'
    BY <2>1, <2>2, <2>3 DEF Core, Live, At, Cookie
  <2>6. RefCount'
    <3>1. \A e \in Devices : Holders(e)' = Holders(e)
      BY <2>1, <2>2 DEF Holders, Counted, Cookie
    <3>. QED
      BY <2>3, <3>1 DEF Core, RefCount
  <2>7. Locked'
    BY <2>1, <2>2, <2>3, LifecycleAssumption DEF Core, Locked, Opening, At, Cookie
  <2>8. OneDoor'
    <3>1. d # bus.dev \/ bus.pc # "delete"
      BY DEF Core, OneDoor
    <3>2. \A o \in Clients : client[o].pc \in Leaving /\ device[Cookie(o)].removed => Cookie(o) # d
      BY <2>1
    <3>. QED
      BY <2>1, <2>2, <2>3, <3>1, <3>2 DEF Core, OneDoor, Leaving, At, Cookie
  <2>9. Running' /\ Ready'
    BY <2>1, <2>2, <2>3 DEF Core, Running, Ready, Cookie
  <2>. QED
    BY <2>4, <2>5, <2>6, <2>7, <2>8, <2>9 DEF Core
<1>. QED
  BY <1>1, <1>2 DEF LookUp

LEMMA CountStep ==
  ASSUME Types, NEW d \in Devices, NEW k \in Int,
         device' = [device EXCEPT ![d] = [device[d] EXCEPT !.count = k]]
  PROVE  /\ device'[d].count = k
         /\ \A e \in Devices \ {d} : device'[e] = device[e]
         /\ \A e \in Devices :
              /\ device'[e].life = device[e].life /\ device'[e].slot = device[e].slot
              /\ device'[e].removed = device[e].removed /\ device'[e].up = device[e].up
              /\ device'[e].rx = device[e].rx /\ device'[e].closing = device[e].closing
              /\ device'[e].workers = device[e].workers
<1>. DEFINE r == [device[d] EXCEPT !.count = k]
<1>1. device[d] \in Records
  BY DEF Types
<1>2. /\ r \in Records
      /\ r.count = k /\ r.life = device[d].life /\ r.slot = device[d].slot
      /\ r.removed = device[d].removed /\ r.up = device[d].up /\ r.rx = device[d].rx
      /\ r.closing = device[d].closing /\ r.workers = device[d].workers
  BY <1>1 DEF Records
<1>. HIDE DEF r
<1>3. device'[d] = r /\ \A e \in Devices \ {d} : device'[e] = device[e]
  BY <1>2, DeviceSteps DEF r
<1>. QED
  BY <1>2, <1>3

\* A step of a client that changes neither the list nor who is removed, and
\* after which, if it is leaving a removed device, it is alone with it.
LEMMA DoorStep ==
  ASSUME Types, Pointers, Core, NEW c \in Clients,
         UNCHANGED <<list, count, bus>>,
         \A e \in Devices : /\ device'[e].life = device[e].life
                            /\ device'[e].slot = device[e].slot
                            /\ device'[e].removed = device[e].removed,
         \A o \in Clients \ {c} : client'[o] = client[o],
         client[c].pc # "idle", client[c].pc # "delete", client'[c].pc # "delete",
         \/ client'[c].dev = client[c].dev /\ client'[c].pc # "idle"
         \/ client'[c].dev = NoDevice /\ client'[c].pc = "idle",
         client'[c].pc = "last" => device[Cookie(c)].removed,
         client'[c].pc \in Leaving /\ device[Cookie(c)].removed =>
           \A o \in Clients \ {c} : Cookie(o) # Cookie(c)
  PROVE  Listed' /\ Live' /\ OneDoor'
<1>1. Cookie(c) \in Devices /\ Cookie(c) # NoDevice
  BY LifecycleAssumption DEF Types, Pointers, At, Cookie
<1>2. Listed'
  <2>1. count = Cardinality({s \in Slots : list[s] # NoDevice})
    BY DEF Core, Listed
  <2>2. \A s \in Slots : list[s] # NoDevice =>
           device'[list[s]].life = "alive" /\ device'[list[s]].slot = s
    BY DEF Types, Core, Listed
  <2>3. ASSUME NEW e \in Devices, device'[e].life = "alive"
        PROVE  \/ list[device'[e].slot] = e
               \/ bus.pc = "delete" /\ bus.dev = e
               \/ \E o \in Clients : client'[o].pc = "delete" /\ client'[o].dev = e
    <3>1. \/ list[device[e].slot] = e
          \/ bus.pc = "delete" /\ bus.dev = e
          \/ \E o \in Clients \ {c} : client[o].pc = "delete" /\ client[o].dev = e
      BY <2>3 DEF Core, Listed, At, Cookie
    <3>. QED
      BY <3>1
  <2>. QED
    BY <2>1, <2>2, <2>3 DEF Listed, At, Cookie
<1>3. Live'
  BY <1>1 DEF Types, Pointers, Core, Live, At, Cookie
<1>4. bus.pc # "idle" => bus.dev \in Devices /\ device[bus.dev].removed
  BY DEF Pointers, Core, OneDoor
<1>5. bus.pc = "delete" => /\ \A o \in Clients : client'[o].dev # bus.dev
                           /\ \A s \in Slots : list[s] # bus.dev
  BY <1>1, <1>4, LifecycleAssumption DEF Core, OneDoor, Cookie
<1>6. \A o \in Clients : client[o].pc # "idle" => client[o].dev \in Devices
  BY DEF Pointers, At, Cookie
<1>7. ASSUME NEW o \in Clients, client'[o].pc \in {"last", "delete"}
      PROVE  device'[client'[o].dev].removed
  BY <1>1, <1>6, <1>7 DEF Core, OneDoor, Cookie
<1>8. ASSUME NEW o \in Clients, client'[o].pc \in Leaving, device'[client'[o].dev].removed,
             NEW q \in Clients \ {o}
      PROVE  client'[q].dev # client'[o].dev
  <2>1. CASE o = c
    BY <1>1, <1>8, <2>1 DEF Leaving, Cookie
  <2>2. CASE o # c
    <3>1. /\ client'[o] = client[o] /\ client[o].dev \in Devices /\ device[client[o].dev].removed
          /\ client[q].dev # client[o].dev /\ client[o].dev # NoDevice
      BY <1>6, <1>8, <2>2, LifecycleAssumption DEF Core, OneDoor, Leaving, Cookie
    <3>. QED
      BY <3>1
  <2>. QED
    BY <2>1, <2>2
<1>9. ASSUME NEW o \in Clients, client'[o].pc = "delete"
      PROVE  /\ bus.pc = "idle" \/ bus.dev # client'[o].dev
             /\ \A s \in Slots : list[s] # client'[o].dev
  BY <1>9 DEF Core, OneDoor, At, Cookie
<1>10. OneDoor'
  BY <1>4, <1>5, <1>7, <1>8, <1>9 DEF OneDoor, At, Cookie
<1>. QED
  BY <1>2, <1>3, <1>10

LEMMA OpenedStep ==
  ASSUME Types, Pointers, Core, NEW c \in Clients, Opened(c)
  PROVE  Core'
<1>0. PICK d \in Devices : d = Cookie(c)
  BY DEF Opened, Pointers, At, Cookie
<1>1. /\ client[c].pc = "count" /\ d # NoDevice /\ device[d].count \in Int
      /\ holder' = NoOne
  BY <1>0, LifecycleAssumption DEF Opened, Types, Records, Pointers, At, Cookie
<1>2. /\ client'[c].pc = "open" /\ client'[c].dev = d
      /\ \A o \in Clients \ {c} : client'[o] = client[o]
  BY <1>0, ClientSteps DEF Opened, ClientStates, Cookie
<1>3. device' = [device EXCEPT ![d] = [device[d] EXCEPT !.count = device[d].count + 1]]
  BY <1>0 DEF Opened
<1>4. /\ device'[d].count = device[d].count + 1
      /\ \A e \in Devices \ {d} : device'[e] = device[e]
      /\ \A e \in Devices :
           /\ device'[e].life = device[e].life /\ device'[e].slot = device[e].slot
           /\ device'[e].removed = device[e].removed /\ device'[e].up = device[e].up
           /\ device'[e].rx = device[e].rx /\ device'[e].closing = device[e].closing
           /\ device'[e].workers = device[e].workers
  <2>1. device[d].count + 1 \in Int
    BY <1>1
  <2>. QED
    BY <1>0, <1>1, <1>3, <2>1, CountStep
<1>5. UNCHANGED <<list, count, bus, disturbed>>
  BY <1>0 DEF Opened
<1>6. Listed' /\ Live' /\ OneDoor'
  BY <1>0, <1>1, <1>2, <1>4, <1>5, DoorStep DEF Leaving, Cookie
<1>7. RefCount'
  <2>1. Holders(d)' = Holders(d) \union {c} /\ c \notin Holders(d)
    BY <1>0, <1>1, <1>2 DEF Holders, Counted, Cookie
  <2>2. \A e \in Devices \ {d} : Holders(e)' = Holders(e)
    BY <1>0, <1>1, <1>2 DEF Holders, Cookie
  <2>3. IsFiniteSet(Holders(d)) /\ device[d].count = Cardinality(Holders(d))
    BY <1>0, <1>1 DEF Core, RefCount
  <2>4. IsFiniteSet(Holders(d)') /\ Cardinality(Holders(d)') = Cardinality(Holders(d)) + 1
    BY <2>1, <2>3, FS_AddElement
  <2>5. \A e \in Devices : IsFiniteSet(Holders(e)') /\ device'[e].count = Cardinality(Holders(e)')
    BY <1>4, <2>2, <2>3, <2>4 DEF Core, RefCount
  <2>. QED
    BY <2>5 DEF RefCount
<1>8. Locked'
  BY <1>0, <1>1, <1>2, <1>4, <1>5, LifecycleAssumption DEF Core, Locked, Opening, At
<1>9. Running' /\ Ready'
  BY <1>0, <1>1, <1>2, <1>4, <1>5 DEF Pointers, Core, Running, Ready, At, Cookie
<1>. QED
  BY <1>6, <1>7, <1>8, <1>9 DEF Core

LEMMA DecrementStep ==
  ASSUME Types, Pointers, Core, NEW c \in Clients, Decrement(c)
  PROVE  Core'
<1>0. PICK d \in Devices : d = Cookie(c)
  BY DEF Decrement, Pointers, At, Cookie
<1>1. /\ client[c].pc = "closed" /\ d # NoDevice /\ device[d].count \in Int
  BY <1>0, LifecycleAssumption DEF Decrement, Types, Records, Pointers, At, Cookie
<1>2. /\ \/ client'[c].pc = "idle" /\ client'[c].dev = NoDevice
         \/ client'[c].pc = "freed" /\ client'[c].dev = d /\ device[d].count = 1
      /\ \A o \in Clients \ {c} : client'[o] = client[o]
  BY <1>0, ClientSteps DEF Decrement, ClientStates, Cookie
<1>3. device' = [device EXCEPT ![d] = [device[d] EXCEPT !.count = device[d].count - 1]]
  BY <1>0 DEF Decrement
<1>4. /\ device'[d].count = device[d].count - 1
      /\ \A e \in Devices \ {d} : device'[e] = device[e]
      /\ \A e \in Devices :
           /\ device'[e].life = device[e].life /\ device'[e].slot = device[e].slot
           /\ device'[e].removed = device[e].removed /\ device'[e].up = device[e].up
           /\ device'[e].rx = device[e].rx /\ device'[e].closing = device[e].closing
           /\ device'[e].workers = device[e].workers
  <2>1. device[d].count - 1 \in Int
    BY <1>1
  <2>. QED
    BY <1>0, <1>1, <1>3, <2>1, CountStep
<1>5. UNCHANGED <<list, count, holder, bus, disturbed>>
  BY <1>0 DEF Decrement
<1>7. IsFiniteSet(Holders(d)) /\ device[d].count = Cardinality(Holders(d)) /\ c \in Holders(d)
  BY <1>0, <1>1 DEF Core, RefCount, Holders, Counted
<1>8. RefCount'
  <2>1. Holders(d)' = Holders(d) \ {c}
    BY <1>0, <1>1, <1>2 DEF Holders, Counted, Cookie
  <2>2. \A e \in Devices \ {d} : Holders(e)' = Holders(e)
    BY <1>0, <1>1, <1>2 DEF Holders, Counted, Cookie
  <2>3. IsFiniteSet(Holders(d)') /\ Cardinality(Holders(d)') = Cardinality(Holders(d)) - 1
    BY <2>1, <1>7, FS_RemoveElement
  <2>4. \A e \in Devices : IsFiniteSet(Holders(e)') /\ device'[e].count = Cardinality(Holders(e)')
    BY <1>4, <1>7, <2>2, <2>3 DEF Core, RefCount
  <2>. QED
    BY <2>4 DEF RefCount
<1>9. Locked'
  BY <1>0, <1>1, <1>2, <1>4, <1>5 DEF Core, Locked, Pointers, Opening, At, Cookie
<1>10. Listed' /\ Live' /\ OneDoor'
  <2>1. device[d].count = 1 /\ device[d].removed => \A o \in Clients \ {c} : Cookie(o) # d
    <3>. SUFFICES ASSUME device[d].count = 1, device[d].removed, NEW o \in Clients \ {c},
                         Cookie(o) = d
                  PROVE  FALSE
      OBVIOUS
    <3>1. Holders(d) = {c}
      BY <1>7, FS_Singleton
    <3>2. client[o].pc \notin Counted
      BY <3>1 DEF Holders
    <3>3. client[o].pc # "idle"
      BY <1>0, <1>1 DEF Pointers, At
    <3>4. client[o].pc \notin Opening
      BY DEF Core, Locked
    <3>5. client[o].pc \in Leaving
      BY <3>2, <3>3, <3>4 DEF Types, ClientStates, Counted, Leaving, Closing
    <3>. QED
      BY <1>0, <3>5 DEF Core, OneDoor
  <2>. QED
    BY <1>0, <1>1, <1>2, <1>4, <1>5, <2>1, DoorStep DEF Leaving, Cookie
<1>11. Running'
  BY <1>4 DEF Core, Running
<1>12. Ready'
  BY <1>0, <1>1, <1>2, <1>4, <1>5 DEF Pointers, Core, Ready, At, Cookie
<1>. QED
  BY <1>8, <1>9, <1>10, <1>11, <1>12 DEF Core

LEMMA LooksRemovedStep ==
  ASSUME Types, Pointers, Core, NEW c \in Clients, LooksRemoved(c)
  PROVE  Core'
<1>. DEFINE d == Cookie(c)
<1>1. /\ d \in Devices /\ client[c].pc = "freed" /\ d # NoDevice
      /\ UNCHANGED <<list, count, holder, device, bus, disturbed>>
  BY LifecycleAssumption DEF LooksRemoved, Types, Pointers, At, Cookie
<1>2. /\ \/ client'[c].pc = "idle" /\ client'[c].dev = NoDevice
         \/ client'[c].pc = "last" /\ client'[c].dev = d /\ device[d].removed
      /\ \A o \in Clients \ {c} : client'[o] = client[o]
  BY ClientSteps DEF LooksRemoved, MustDelete, ClientStates, Cookie
<1>3. Locked' /\ Running' /\ Ready'
  BY <1>1, <1>2 DEF Pointers, Core, Locked, Running, Ready, Opening, At, Cookie
<1>4. RefCount'
  <2>1. \A e \in Devices : Holders(e)' = Holders(e)
    BY <1>1, <1>2 DEF Holders, Counted, Cookie
  <2>. QED
    BY <1>1, <2>1 DEF Core, RefCount
<1>5. Listed' /\ Live' /\ OneDoor'
  <2>1. device[d].removed => \A o \in Clients \ {c} : Cookie(o) # d
    BY <1>1 DEF Core, OneDoor, Leaving
  <2>. QED
    BY <1>1, <1>2, <2>1, DoorStep DEF Cookie
<1>. QED
  BY <1>3, <1>4, <1>5 DEF Core

------------------------------------------------------------------------------
(* Devices come and go.                                                    *)

Used == {s \in Slots : list[s] # NoDevice}

LEMMA SlotsFinite ==
  /\ IsFiniteSet(Slots) /\ Cardinality(Slots) = SlotCount
  /\ \A S \in SUBSET Slots : IsFiniteSet(S) /\ Cardinality(S) \in 0 .. SlotCount
<1>1. SlotCount \in Nat \ {0}
  BY LifecycleAssumption
<1>2. IsFiniteSet(Slots) /\ Cardinality(Slots) = SlotCount
  BY <1>1, FS_Interval DEF Slots
<1>3. ASSUME NEW S \in SUBSET Slots  PROVE IsFiniteSet(S) /\ Cardinality(S) \in 0 .. SlotCount
  <2>1. IsFiniteSet(S) /\ Cardinality(S) =< SlotCount
    BY <1>2, FS_Subset
  <2>2. Cardinality(S) \in Nat
    BY <2>1, FS_CardinalityType
  <2>. QED
    BY <1>1, <2>1, <2>2
<1>. QED
  BY <1>2, <1>3

\* A device leaves the list: its slot was its own, and the count follows.
LEMMA UnlistedStep ==
  ASSUME Types, Core, NEW d \in Devices, list[device[d].slot] = d, Unlisted(d), count' = count - 1
  PROVE  /\ \A s \in Slots : list'[s] = IF list[s] = d THEN NoDevice ELSE list[s]
         /\ count' = Cardinality(Used')
<1>. DEFINE t == device[d].slot
<1>1. t \in Slots /\ d # NoDevice
  BY LifecycleAssumption DEF Types, Records
<1>2. \A s \in Slots : list[s] = d => s = t
  BY <1>1 DEF Core, Listed
<1>3. \A s \in Slots : list'[s] = IF s = t THEN NoDevice ELSE list[s]
  BY <1>1 DEF Unlisted, Types
<1>4. \A s \in Slots : list'[s] = IF list[s] = d THEN NoDevice ELSE list[s]
  BY <1>2, <1>3
<1>5. Used' = Used \ {t}
  BY <1>1, <1>3 DEF Used
<1>6. IsFiniteSet(Used) /\ count = Cardinality(Used) /\ t \in Used
  BY <1>1, SlotsFinite DEF Used, Core, Listed
<1>7. Cardinality(Used') = Cardinality(Used) - 1
  BY <1>5, <1>6, FS_RemoveElement
<1>. QED
  BY <1>4, <1>6, <1>7

LEMMA LastFreeStep ==
  ASSUME Types, Pointers, Core, NEW c \in Clients, LastFree(c)
  PROVE  Core'
<1>0. PICK d \in Devices : d = Cookie(c)
  BY DEF LastFree, Pointers, At, Cookie
<1>1. /\ client[c].pc = "last" /\ holder = NoOne /\ d # NoDevice
      /\ UNCHANGED <<holder, device, bus, disturbed>>
  BY LifecycleAssumption DEF LastFree, At
<1>2. /\ client'[c].pc = "delete" /\ client'[c].dev = d
      /\ \A o \in Clients \ {c} : client'[o] = client[o]
  BY <1>0, ClientSteps DEF LastFree, ClientStates, Cookie
<1>3. /\ device[d].removed /\ device[d].life = "alive"
      /\ \A o \in Clients \ {c} : client[o].dev # d
  BY <1>0, <1>1 DEF Core, Live, OneDoor, Leaving, At, Cookie
<1>4. bus.pc = "idle" \/ bus.dev # d
  BY <1>0, <1>1, LifecycleAssumption DEF Core, Locked, OneDoor, Types
<1>5. list[device[d].slot] = d
  BY <1>1, <1>3, <1>4 DEF Core, Listed, At, Cookie
<1>6. /\ \A s \in Slots : list'[s] = IF list[s] = d THEN NoDevice ELSE list[s]
      /\ count' = Cardinality(Used')
  BY <1>0, <1>5, UnlistedStep DEF LastFree
<1>7. Listed'
  <2>1. count' = Cardinality({s \in Slots : list'[s] # NoDevice})
    BY <1>6 DEF Used
  <2>2. \A s \in Slots : list'[s] # NoDevice =>
           device'[list'[s]].life = "alive" /\ device'[list'[s]].slot = s
    BY <1>1, <1>6 DEF Core, Listed
  <2>3. ASSUME NEW e \in Devices, device'[e].life = "alive"
        PROVE  \/ list'[device'[e].slot] = e
               \/ bus'.pc = "delete" /\ bus'.dev = e
               \/ \E o \in Clients : client'[o].pc = "delete" /\ client'[o].dev = e
    <3>1. CASE e = d
      BY <1>2, <3>1
    <3>2. CASE e # d
      <4>1. device[e].slot \in Slots
        BY DEF Types, Records
      <4>2. \/ list[device[e].slot] = e
            \/ bus.pc = "delete" /\ bus.dev = e
            \/ \E o \in Clients : client[o].pc = "delete" /\ client[o].dev = e
        BY <1>1, <2>3 DEF Core, Listed, At, Cookie
      <4>. QED
        BY <1>1, <1>2, <1>6, <3>2, <4>1, <4>2
    <3>. QED
      BY <3>1, <3>2
  <2>. QED
    BY <2>1, <2>2, <2>3 DEF Listed, At, Cookie
<1>8. Live' /\ Locked' /\ Running' /\ Ready'
  BY <1>0, <1>1, <1>2 DEF Core, Live, Locked, Running, Ready, Opening, At, Cookie
<1>9. RefCount'
  <2>1. \A e \in Devices : Holders(e)' = Holders(e)
    BY <1>0, <1>1, <1>2 DEF Holders, Counted, Cookie
  <2>. QED
    BY <1>1, <2>1 DEF Core, RefCount
<1>10. OneDoor'
  <2>1. /\ bus.pc # "idle" => device[bus.dev].removed /\ bus.dev \in Devices
        /\ bus.pc = "delete" => /\ \A o \in Clients : client'[o].dev # bus.dev
                                /\ \A s \in Slots : list'[s] # bus.dev
    BY <1>0, <1>2, <1>4, <1>6, LifecycleAssumption DEF Pointers, Core, OneDoor, Cookie
  <2>2. \A o \in Clients : client'[o].pc \in {"last", "delete"} => device[client'[o].dev].removed
    BY <1>0, <1>2, <1>3 DEF Core, OneDoor, Cookie
  <2>3. ASSUME NEW o \in Clients, client'[o].pc \in Leaving, device[client'[o].dev].removed,
               NEW q \in Clients \ {o}
        PROVE  client'[q].dev # client'[o].dev
    BY <1>0, <1>1, <1>2, <1>3, <2>3 DEF Core, OneDoor, Leaving, Cookie
  <2>4. ASSUME NEW o \in Clients, client'[o].pc = "delete"
        PROVE  /\ bus.pc = "idle" \/ bus.dev # client'[o].dev
               /\ \A s \in Slots : list'[s] # client'[o].dev
    <3>1. CASE o = c
      BY <1>1, <1>2, <1>4, <1>6, <3>1
    <3>2. CASE o # c
      <4>1. client'[o] = client[o] /\ client[o].dev \in Devices
        BY <1>2, <2>4, <3>2 DEF Pointers, At, Cookie
      <4>. QED
        BY <1>6, <2>4, <4>1, LifecycleAssumption DEF Core, OneDoor, At, Cookie
    <3>. QED
      BY <3>1, <3>2
  <2>. QED
    BY <1>1, <2>1, <2>2, <2>3, <2>4 DEF OneDoor, At, Cookie
<1>. QED
  BY <1>7, <1>8, <1>9, <1>10 DEF Core

\* A device is deleted when nobody but the one who deletes it has it.
LEMMA DestroyStep ==
  ASSUME Types, Core, NEW d \in Devices,
         device' = [device EXCEPT ![d] = Destroyed(device[d])]
  PROVE  /\ \A e \in Devices \ {d} : device'[e] = device[e]
         /\ device'[d].life = "deleted" /\ device'[d].slot = device[d].slot
         /\ device'[d].removed = device[d].removed /\ device'[d].count = device[d].count
         /\ Running'
<1>1. device[d] \in Records
  BY DEF Types
<1>. DEFINE r == Destroyed(device[d])
<1>2. /\ r \in Records /\ r.life = "deleted" /\ ~r.up /\ ~r.rx
      /\ r.workers = IF device[d].up THEN FALSE ELSE device[d].workers
      /\ r.slot = device[d].slot /\ r.removed = device[d].removed /\ r.count = device[d].count
  BY <1>1, RecordDestroyed
<1>3. device[d].workers => device[d].up
  BY DEF Core, Running
<1>4. r.workers => r.up
  <2>1. r.up = FALSE /\ r.workers = FALSE
    BY <1>1, <1>2, <1>3 DEF Records
  <2>. QED
    BY <2>1
<1>. HIDE DEF r
<1>5. device'[d] = r /\ \A e \in Devices \ {d} : device'[e] = device[e]
  BY <1>2, DeviceSteps DEF r
<1>6. Running'
  BY <1>2, <1>4, <1>5 DEF Core, Running
<1>. QED
  BY <1>2, <1>5, <1>6

LEMMA ClientDeletesStep ==
  ASSUME Types, Pointers, Core, NEW c \in Clients, ClientDeletes(c)
  PROVE  Core'
<1>0. PICK d \in Devices : d = Cookie(c)
  BY DEF ClientDeletes, Pointers, At, Cookie
<1>1. /\ client[c].pc = "delete" /\ client[c].dev = d /\ d # NoDevice
      /\ UNCHANGED <<list, count, holder, bus, disturbed>>
  BY <1>0, LifecycleAssumption DEF ClientDeletes, At, Cookie
<1>2. /\ client'[c].pc = "idle" /\ client'[c].dev = NoDevice
      /\ \A o \in Clients \ {c} : client'[o] = client[o]
  BY ClientSteps DEF ClientDeletes
<1>3. /\ \A o \in Clients \ {c} : client[o].dev # d
      /\ bus.pc = "idle" \/ bus.dev # d
      /\ \A s \in Slots : list[s] # d
  BY <1>0, <1>1 DEF Core, OneDoor, Leaving, At, Cookie
<1>4. /\ \A e \in Devices \ {d} : device'[e] = device[e]
      /\ device'[d].life = "deleted" /\ device'[d].slot = device[d].slot
      /\ device'[d].removed = device[d].removed /\ device'[d].count = device[d].count
      /\ Running'
  BY <1>0, DestroyStep DEF ClientDeletes
<1>5. \A o \in Clients : client[o].pc # "idle" => client[o].dev \in Devices
  BY DEF Pointers, At, Cookie
<1>6. Listed'
  <2>1. \A s \in Slots : list[s] # NoDevice => list[s] \in Devices \ {d}
    BY <1>3 DEF Types
  <2>2. ASSUME NEW e \in Devices, device'[e].life = "alive"
        PROVE  \/ list[device'[e].slot] = e
               \/ bus.pc = "delete" /\ bus.dev = e
               \/ \E o \in Clients : client'[o].pc = "delete" /\ client'[o].dev = e
    <3>1. e # d
      BY <1>4, <2>2
    <3>. QED
      BY <1>1, <1>2, <1>4, <2>2, <3>1 DEF Core, Listed, At, Cookie
  <2>. QED
    BY <1>1, <1>4, <2>1, <2>2 DEF Core, Listed, At, Cookie
<1>7. Live'
  BY <1>1, <1>2, <1>3, <1>4, <1>5 DEF Pointers, Core, Live, At, Cookie
<1>8. RefCount'
  <2>1. \A e \in Devices : Holders(e)' = Holders(e)
    BY <1>1, <1>2 DEF Holders, Counted, Cookie
  <2>2. \A e \in Devices : device'[e].count = device[e].count
    BY <1>4
  <2>. QED
    BY <2>1, <2>2 DEF Core, RefCount
<1>9. Locked'
  BY <1>1, <1>2, <1>4, <1>5 DEF Core, Locked, Opening, At, Cookie
<1>10. OneDoor'
  <2>1. \A e \in Devices : device'[e].removed = device[e].removed
    BY <1>4
  <2>2. bus.pc # "idle" => bus.dev \in Devices
    BY DEF Pointers
  <2>. QED
    BY <1>1, <1>2, <1>3, <1>5, <2>1, <2>2, LifecycleAssumption DEF Core, OneDoor, Leaving, At, Cookie
<1>11. Ready'
  BY <1>1, <1>2, <1>3, <1>4, <1>5 DEF Core, Ready, Cookie
<1>. QED
  BY <1>4, <1>6, <1>7, <1>8, <1>9, <1>10, <1>11 DEF Core

LEMMA BusDeletesStep ==
  ASSUME Types, Pointers, Core, BusDeletes
  PROVE  Core'
<1>0. PICK d \in Devices : d = bus.dev
  BY DEF BusDeletes, Pointers
<1>1. /\ bus.pc = "delete" /\ bus'.pc = "idle" /\ d # NoDevice
      /\ UNCHANGED <<list, count, holder, client, disturbed>>
  BY LifecycleAssumption DEF BusDeletes
<1>2. (\A o \in Clients : client[o].dev # d) /\ (\A s \in Slots : list[s] # d)
  BY <1>0, <1>1 DEF Core, OneDoor, Cookie
<1>3. /\ \A e \in Devices \ {d} : device'[e] = device[e]
      /\ device'[d].life = "deleted" /\ device'[d].slot = device[d].slot
      /\ device'[d].removed = device[d].removed /\ device'[d].count = device[d].count
      /\ Running'
  BY <1>0, DestroyStep DEF BusDeletes
<1>4. \A o \in Clients : client[o].pc # "idle" => client[o].dev \in Devices
  BY DEF Pointers, At, Cookie
<1>5. Listed'
  <2>1. \A s \in Slots : list[s] # NoDevice => list[s] \in Devices \ {d}
    BY <1>2 DEF Types
  <2>2. ASSUME NEW e \in Devices, device'[e].life = "alive"
        PROVE  \/ list[device'[e].slot] = e
               \/ \E o \in Clients : client[o].pc = "delete" /\ client[o].dev = e
    <3>1. e # d
      BY <1>3, <2>2
    <3>. QED
      BY <1>0, <1>3, <2>2, <3>1 DEF Core, Listed, At, Cookie
  <2>. QED
    BY <1>1, <1>3, <2>1, <2>2 DEF Core, Listed, At, Cookie
<1>6. Live'
  BY <1>1, <1>2, <1>3, <1>4 DEF Core, Live, At, Cookie
<1>7. RefCount'
  <2>1. \A e \in Devices : Holders(e)' = Holders(e)
    BY <1>1 DEF Holders, Cookie
  <2>2. \A e \in Devices : device'[e].count = device[e].count
    BY <1>3
  <2>. QED
    BY <2>1, <2>2 DEF Core, RefCount
<1>8. Locked'
  BY <1>1, <1>3, <1>4 DEF Core, Locked, Opening, At, Cookie
<1>9. OneDoor'
  <2>1. \A e \in Devices : device'[e].removed = device[e].removed
    BY <1>3
  <2>. QED
    BY <1>1, <1>4, <2>1 DEF Core, OneDoor, Leaving, At, Cookie
<1>10. Ready'
  BY <1>1, <1>2, <1>3, <1>4 DEF Core, Ready, Cookie
<1>. QED
  BY <1>3, <1>5, <1>6, <1>7, <1>8, <1>9, <1>10 DEF Core

\* A device nobody has met has no descriptor.
LEMMA Unmet ==
  ASSUME Types, Pointers, Core, NEW d \in Devices, device[d].life # "alive"
  PROVE  /\ \A c \in Clients : client[c].dev # d
         /\ bus.pc # "idle" => bus.dev # d
         /\ \A s \in Slots : list[s] # d
         /\ Holders(d) = {} /\ device[d].count = 0
<1>1. \A c \in Clients : client[c].dev # d
  BY LifecycleAssumption DEF Pointers, Core, Live, At, Cookie
<1>2. (bus.pc # "idle" => bus.dev # d) /\ (\A s \in Slots : list[s] # d)
  BY LifecycleAssumption DEF Core, Live, Listed
<1>3. Holders(d) = {}
  BY <1>1 DEF Holders, Cookie
<1>4. device[d].count = 0
  BY <1>3, FS_EmptySet DEF Core, RefCount
<1>. QED
  BY <1>1, <1>2, <1>3, <1>4

LEMMA DeviceRefusedStep ==
  ASSUME Types, Pointers, Core, NEW d \in Devices, DeviceRefused(d)
  PROVE  Core'
<1>1. device[d].life = "unborn" /\ UNCHANGED <<list, count, holder, client, bus, disturbed>>
  BY DEF DeviceRefused
<1>2. /\ \A c \in Clients : client[c].dev # d
      /\ bus.pc # "idle" => bus.dev # d
      /\ \A s \in Slots : list[s] # d
  BY <1>1, Unmet
<1>3. /\ \A e \in Devices \ {d} : device'[e] = device[e]
      /\ device'[d].life = "deleted"
      /\ \A e \in Devices :
           /\ device'[e].slot = device[e].slot /\ device'[e].removed = device[e].removed
           /\ device'[e].count = device[e].count /\ device'[e].up = device[e].up
           /\ device'[e].rx = device[e].rx /\ device'[e].workers = device[e].workers
  <2>. DEFINE r == [device[d] EXCEPT !.life = "deleted"]
  <2>1. device[d] \in Records
    BY DEF Types
  <2>2. /\ r \in Records /\ r.life = "deleted" /\ r.slot = device[d].slot
        /\ r.removed = device[d].removed /\ r.count = device[d].count /\ r.up = device[d].up
        /\ r.rx = device[d].rx /\ r.workers = device[d].workers
    BY <2>1 DEF Records
  <2>. HIDE DEF r
  <2>3. device'[d] = r /\ \A e \in Devices \ {d} : device'[e] = device[e]
    BY <2>2, DeviceSteps DEF DeviceRefused, r
  <2>. QED
    BY <2>2, <2>3
<1>4. \A o \in Clients : client[o].pc # "idle" => client[o].dev \in Devices
  BY DEF Pointers, At, Cookie
<1>5. Listed'
  <2>1. \A s \in Slots : list[s] # NoDevice => list[s] \in Devices \ {d}
    BY <1>2 DEF Types
  <2>. QED
    BY <1>1, <1>3, <2>1 DEF Core, Listed, At, Cookie
<1>6. Live'
  <2>1. bus.pc # "idle" => bus.dev \in Devices \ {d}
    BY <1>2 DEF Pointers
  <2>. QED
    BY <1>1, <1>2, <1>3, <1>4, <2>1 DEF Core, Live, At, Cookie
<1>7. RefCount'
  <2>1. \A e \in Devices : Holders(e)' = Holders(e)
    BY <1>1 DEF Holders, Cookie
  <2>. QED
    BY <1>3, <2>1 DEF Core, RefCount
<1>8. Locked'
  BY <1>1, <1>3, <1>4 DEF Core, Locked, Opening, At, Cookie
<1>9. OneDoor'
  BY <1>1, <1>3, <1>4 DEF Pointers, Core, OneDoor, Leaving, At, Cookie
<1>10. Running'
  BY <1>1, <1>3 DEF Core, Running
<1>11. Ready'
  BY <1>1, <1>2, <1>3, <1>4 DEF Core, Ready, Cookie
<1>. QED
  BY <1>5, <1>6, <1>7, <1>8, <1>9, <1>10, <1>11 DEF Core

LEMMA DeviceAddedStep ==
  ASSUME Types, Pointers, Core, NEW d \in Devices, DeviceAdded(d)
  PROVE  Core'
<1>0. PICK t \in Slots : t = Min(FreeSlots) /\ list[t] = NoDevice
  BY FirstFree DEF DeviceAdded, FreeSlots
<1>1. /\ device[d].life = "unborn" /\ bus.pc = "idle" /\ d # NoDevice
      /\ UNCHANGED <<holder, client, bus, disturbed>>
  BY LifecycleAssumption DEF DeviceAdded
<1>2. /\ \A c \in Clients : client[c].dev # d
      /\ \A s \in Slots : list[s] # d
      /\ Holders(d) = {}
  BY <1>1, Unmet
<1>3. /\ \A e \in Devices \ {d} : device'[e] = device[e]
      /\ device'[d].life = "alive" /\ device'[d].slot = t /\ ~device'[d].removed
      /\ ~device'[d].up /\ ~device'[d].rx /\ device'[d].workers = device'[d].up
      /\ device'[d].count = 0
  <2>. DEFINE r == [NewDevice EXCEPT !.life = "alive", !.slot = t]
  <2>1. /\ r \in Records /\ r.life = "alive" /\ r.slot = t /\ r.removed = FALSE
        /\ r.up = FALSE /\ r.rx = FALSE /\ r.workers = FALSE /\ r.count = 0
    BY NewRecord DEF Records, NewDevice
  <2>2. device' = [device EXCEPT ![d] = r]
    BY <1>0 DEF DeviceAdded
  <2>. HIDE DEF r
  <2>3. device'[d] = r /\ \A e \in Devices \ {d} : device'[e] = device[e]
    BY <2>1, <2>2, DeviceSteps
  <2>. QED
    BY <2>1, <2>3
<1>4. \A s \in Slots : list'[s] = IF s = t THEN d ELSE list[s]
  BY <1>0 DEF DeviceAdded, Types
<1>5. \A o \in Clients : client[o].pc # "idle" => client[o].dev \in Devices
  BY DEF Pointers, At, Cookie
<1>6. Listed'
  <2>1. count' = Cardinality({s \in Slots : list'[s] # NoDevice})
    <3>1. Used' = Used \union {t} /\ t \notin Used
      BY <1>0, <1>1, <1>4 DEF Used
    <3>2. IsFiniteSet(Used) /\ count = Cardinality(Used)
      BY SlotsFinite DEF Used, Core, Listed
    <3>3. Cardinality(Used') = Cardinality(Used) + 1
      BY <3>1, <3>2, FS_AddElement
    <3>. QED
      BY <3>2, <3>3 DEF DeviceAdded, Used
  <2>2. \A s \in Slots : list'[s] # NoDevice =>
           device'[list'[s]].life = "alive" /\ device'[list'[s]].slot = s
    <3>1. \A s \in Slots : list[s] # NoDevice => list[s] \in Devices \ {d}
      BY <1>2 DEF Types
    <3>. QED
      BY <1>0, <1>3, <1>4, <3>1 DEF Core, Listed
  <2>3. ASSUME NEW e \in Devices, device'[e].life = "alive"
        PROVE  \/ list'[device'[e].slot] = e
               \/ \E o \in Clients : client[o].pc = "delete" /\ client[o].dev = e
    <3>1. CASE e = d
      BY <1>0, <1>3, <1>4, <3>1
    <3>2. CASE e # d
      <4>1. device[e].slot \in Slots /\ device'[e] = device[e] /\ e # NoDevice
        BY <1>3, <3>2, LifecycleAssumption DEF Types, Records
      <4>2. \/ list[device[e].slot] = e
            \/ \E o \in Clients : client[o].pc = "delete" /\ client[o].dev = e
        BY <1>1, <2>3, <4>1 DEF Core, Listed, At, Cookie
      <4>. QED
        BY <1>0, <1>4, <4>1, <4>2
    <3>. QED
      BY <3>1, <3>2
  <2>. QED
    BY <1>1, <2>1, <2>2, <2>3 DEF Listed, At, Cookie
<1>7. Live'
  BY <1>1, <1>2, <1>3, <1>5 DEF Core, Live, At, Cookie
<1>8. RefCount'
  <2>1. \A e \in Devices : Holders(e)' = Holders(e)
    BY <1>1 DEF Holders, Cookie
  <2>. QED
    BY <1>2, <1>3, <2>1, FS_EmptySet DEF Core, RefCount
<1>9. Locked'
  BY <1>1, <1>2, <1>3, <1>5 DEF Core, Locked, Opening, At, Cookie
<1>10. OneDoor'
  <2>1. \A o \in Clients : client[o].pc # "idle" => device'[client[o].dev] = device[client[o].dev]
    BY <1>2, <1>3, <1>5
  <2>2. \A o \in Clients : client[o].pc = "delete" => \A s \in Slots : list'[s] # client[o].dev
    BY <1>2, <1>4 DEF Core, OneDoor, At, Cookie
  <2>. QED
    BY <1>1, <2>1, <2>2 DEF Core, OneDoor, Leaving, At, Cookie
<1>11. Running'
  BY <1>3 DEF Core, Running
<1>12. Ready'
  BY <1>1, <1>2, <1>3, <1>5 DEF Core, Ready, Cookie
<1>. QED
  BY <1>6, <1>7, <1>8, <1>9, <1>10, <1>11, <1>12 DEF Core

LEMMA DeviceRemovedStep ==
  ASSUME Types, Pointers, Core, NEW d \in Devices, DeviceRemoved(d), ~raced'
  PROVE  Core'
<1>1. /\ device[d].life = "alive" /\ ~device[d].removed /\ d # NoDevice
      /\ bus.pc = "idle" /\ holder = NoOne
      /\ bus' = [pc |-> "marked", dev |-> d] /\ holder' = Bus
      /\ UNCHANGED <<list, count, client, disturbed>>
  BY LifecycleAssumption DEF DeviceRemoved
<1>2. \A c \in Clients : client[c].dev = d => client[c].pc \notin Leaving
  <2>1. \A c \in Clients : client[c].dev = d => client[c].pc \notin {"freed", "last"}
    BY DEF DeviceRemoved, Crosses, Cookie
  <2>2. \A c \in Clients : client[c].dev = d => client[c].pc # "delete"
    BY <1>1 DEF Core, OneDoor, Cookie
  <2>. QED
    BY <2>1, <2>2 DEF Leaving
<1>3. /\ \A e \in Devices \ {d} : device'[e] = device[e]
      /\ device'[d].removed
      /\ \A e \in Devices :
           /\ device'[e].life = device[e].life /\ device'[e].slot = device[e].slot
           /\ device'[e].count = device[e].count /\ device'[e].up = device[e].up
           /\ device'[e].rx = device[e].rx /\ device'[e].workers = device[e].workers
           /\ device'[e].closing = device[e].closing
  <2>. DEFINE r == [device[d] EXCEPT !.removed = TRUE]
  <2>1. device[d] \in Records
    BY DEF Types
  <2>2. /\ r \in Records /\ r.removed /\ r.life = device[d].life /\ r.slot = device[d].slot
        /\ r.count = device[d].count /\ r.up = device[d].up /\ r.rx = device[d].rx
        /\ r.workers = device[d].workers /\ r.closing = device[d].closing
    BY <2>1 DEF Records
  <2>. HIDE DEF r
  <2>3. device'[d] = r /\ \A e \in Devices \ {d} : device'[e] = device[e]
    BY <2>2, DeviceSteps DEF DeviceRemoved, r
  <2>. QED
    BY <2>2, <2>3
<1>4. \A o \in Clients : client[o].pc # "idle" => client[o].dev \in Devices
  BY DEF Pointers, At, Cookie
<1>5. Listed' /\ Live'
  <2>1. \A s \in Slots : list[s] # NoDevice => list[s] \in Devices
    BY DEF Types
  <2>. QED
    BY <1>1, <1>3, <1>4, <2>1 DEF Core, Listed, Live, At, Cookie
<1>6. RefCount'
  <2>1. \A e \in Devices : Holders(e)' = Holders(e)
    BY <1>1 DEF Holders, Cookie
  <2>. QED
    BY <1>3, <2>1 DEF Core, RefCount
<1>7. Locked'
  BY <1>1, LifecycleAssumption DEF Core, Locked, At
<1>8. OneDoor'
  <2>1. \A o \in Clients : client[o].pc \in Leaving =>
           client[o].dev \in Devices \ {d} /\ client[o].pc # "idle"
    BY <1>2, <1>4 DEF Leaving
  <2>2. ASSUME NEW o \in Clients, client[o].pc \in Leaving
        PROVE  device'[client[o].dev] = device[client[o].dev] /\ client[o].dev # d
    BY <1>3, <2>1, <2>2
  <2>. QED
    BY <1>1, <1>3, <2>2 DEF Core, OneDoor, Leaving, At, Cookie
<1>9. Running' /\ Ready'
  BY <1>1, <1>3, <1>4 DEF Core, Running, Ready, Cookie
<1>. QED
  BY <1>5, <1>6, <1>7, <1>8, <1>9 DEF Core

LEMMA RemoveOrLeaveStep ==
  ASSUME Types, Pointers, Core, RemoveOrLeave, ~raced'
  PROVE  Core'
<1>0. PICK d \in Devices : d = bus.dev
  BY DEF RemoveOrLeave, Pointers
<1>1. /\ bus.pc = "marked" /\ holder = Bus /\ holder' = NoOne /\ d # NoDevice
      /\ device[d].removed /\ device[d].life = "alive"
      /\ UNCHANGED <<device, client, disturbed>>
  BY <1>0, LifecycleAssumption DEF RemoveOrLeave, Core, Locked, OneDoor, Live
<1>2. \A c \in Clients : client[c].pc \notin Opening
  BY <1>1, LifecycleAssumption DEF Core, Locked
<1>3. Locked' /\ Running' /\ Ready'
  <2>1. bus'.pc # "marked"
    BY DEF RemoveOrLeave, Types
  <2>. QED
    BY <1>1, <1>2, <2>1 DEF Core, Locked, Running, Ready, Cookie, At
<1>4. RefCount'
  <2>1. \A e \in Devices : Holders(e)' = Holders(e)
    BY <1>1 DEF Holders, Cookie
  <2>. QED
    BY <1>1, <2>1 DEF Core, RefCount
<1>5. CASE device[d].count # 0
  <2>1. bus'.pc = "idle" /\ UNCHANGED <<list, count>>
    BY <1>0, <1>5 DEF RemoveOrLeave, LeavesToFree
  <2>2. Listed' /\ Live' /\ OneDoor'
    BY <1>1, <2>1 DEF Core, Listed, Live, OneDoor, At, Cookie
  <2>. QED
    BY <1>3, <1>4, <2>2 DEF Core
<1>6. CASE device[d].count = 0
  <2>1. /\ bus' = [pc |-> "delete", dev |-> d]
        /\ Unlisted(d) /\ count' = count - 1
    BY <1>0, <1>6 DEF RemoveOrLeave, LeavesToFree, Types
  <2>2. \A c \in Clients : client[c].dev # d
    <3>. SUFFICES ASSUME NEW c \in Clients, client[c].dev = d  PROVE FALSE
      OBVIOUS
    <3>1. client[c].pc # "idle"
      BY <1>1 DEF Pointers, At, Cookie
    <3>2. client[c].pc \notin {"freed", "last"}
      BY <1>0 DEF RemoveOrLeave, Crosses, Cookie
    <3>3. client[c].pc # "delete"
      BY <1>0, <1>1 DEF Core, OneDoor, At, Cookie
    <3>4. Holders(d) = {}
      BY <1>6, FS_EmptySet DEF Core, RefCount
    <3>5. client[c].pc \notin Counted
      BY <3>4 DEF Holders, Cookie
    <3>. QED
      BY <1>2, <3>1, <3>2, <3>3, <3>5 DEF Types, ClientStates, Counted, Closing
  <2>3. list[device[d].slot] = d
    BY <1>1, <2>2 DEF Core, Listed, At, Cookie
  <2>4. /\ \A s \in Slots : list'[s] = IF list[s] = d THEN NoDevice ELSE list[s]
        /\ count' = Cardinality(Used')
    BY <2>1, <2>3, UnlistedStep
  <2>5. Listed'
    <3>1. count' = Cardinality({s \in Slots : list'[s] # NoDevice})
      BY <2>4 DEF Used
    <3>2. \A s \in Slots : list'[s] # NoDevice =>
             device[list'[s]].life = "alive" /\ device[list'[s]].slot = s
      BY <2>4 DEF Core, Listed
    <3>3. ASSUME NEW e \in Devices, device[e].life = "alive"
          PROVE  \/ list'[device[e].slot] = e
                 \/ bus'.pc = "delete" /\ bus'.dev = e
                 \/ \E o \in Clients : client[o].pc = "delete" /\ client[o].dev = e
      <4>1. device[e].slot \in Slots
        BY DEF Types, Records
      <4>2. \/ list[device[e].slot] = e
            \/ \E o \in Clients : client[o].pc = "delete" /\ client[o].dev = e
        BY <1>1, <3>3 DEF Core, Listed, At, Cookie
      <4>. QED
        BY <2>1, <2>4, <4>1, <4>2
    <3>. QED
      BY <1>1, <3>1, <3>2, <3>3 DEF Listed, At, Cookie
  <2>6. Live'
    BY <1>1, <2>1 DEF Core, Live, At, Cookie
  <2>7. OneDoor'
    <3>1. \A s \in Slots : list'[s] # d
      BY <1>1, <2>4
    <3>2. \A o \in Clients : client[o].pc = "delete" =>
             client[o].dev # d /\ \A s \in Slots : list'[s] # client[o].dev
      <4>1. \A o \in Clients : client[o].pc = "delete" => client[o].dev # NoDevice
        BY LifecycleAssumption DEF Pointers, At, Cookie
      <4>. QED
        BY <2>2, <2>4, <4>1 DEF Core, OneDoor, At, Cookie
    <3>. QED
      BY <1>1, <2>1, <2>2, <3>1, <3>2 DEF Core, OneDoor, Leaving, At, Cookie
  <2>. QED
    BY <1>3, <1>4, <2>5, <2>6, <2>7 DEF Core
<1>. QED
  BY <1>5, <1>6

LEMMA UninitDriverStep ==
  ASSUME Types, Pointers, Core, UninitDriver
  PROVE  Core'
<1>1. /\ bus.pc = "idle" /\ (\A c \in Clients : client[c].pc = "idle") /\ holder = NoOne
      /\ (\A s \in Slots : list'[s] = NoDevice) /\ count' = 0
      /\ UNCHANGED <<holder, client, bus, disturbed>>
  BY DEF UninitDriver, At
<1>2. ASSUME NEW e \in Devices
      PROVE  /\ device'[e].life = "deleted" /\ ~device'[e].up /\ ~device'[e].rx
             /\ (device'[e].workers => device'[e].up) /\ device'[e].count = device[e].count
  <2>1. device[e] \in Records /\ device[e].slot \in Slots
    BY DEF Types, Records
  <2>2. device[e].workers => device[e].up
    BY DEF Core, Running
  <2>3. CASE \E s \in Slots : list[s] = e
    <3>1. device'[e] = Destroyed(device[e])
      BY <2>3 DEF UninitDriver
    <3>. QED
      BY <2>1, <2>2, <3>1 DEF Destroyed, Records
  <2>4. CASE ~ \E s \in Slots : list[s] = e
    <3>1. device'[e] = [device[e] EXCEPT !.life = "deleted"]
      BY <2>4 DEF UninitDriver
    <3>2. device[e].life # "alive"
      BY <1>1, <2>1, <2>4 DEF Core, Listed, At
    <3>3. ~device[e].up /\ ~device[e].rx
      BY <3>2 DEF Core, Running
    <3>. QED
      BY <2>1, <2>2, <3>1, <3>3 DEF Records
  <2>. QED
    BY <2>3, <2>4
<1>3. Listed'
  <2>1. {s \in Slots : list'[s] # NoDevice} = {}
    BY <1>1
  <2>. QED
    BY <1>1, <1>2, <2>1, FS_EmptySet DEF Listed
<1>4. RefCount'
  <2>1. \A e \in Devices : Holders(e)' = Holders(e)
    BY <1>1 DEF Holders, Cookie
  <2>. QED
    BY <1>2, <2>1 DEF Core, RefCount
<1>5. Live' /\ Locked' /\ Running' /\ Ready'
  BY <1>1, <1>2 DEF Live, Locked, Running, Ready, Opening, At, Cookie
<1>6. OneDoor'
  BY <1>1 DEF OneDoor, Leaving, At
<1>. QED
  BY <1>3, <1>4, <1>5, <1>6 DEF Core

------------------------------------------------------------------------------
(* The invariant holds.                                                    *)

LEMMA InitLInv == Init => LInv
<1>. SUFFICES ASSUME Init  PROVE LInv
  OBVIOUS
<1>1. Types
  BY LifecycleAssumption, NewRecord DEF Init, Types, Records, ClientStates
<1>2. Pointers
  BY DEF Init, Pointers, At, Cookie
<1>3. Listed
  <2>1. {s \in Slots : list[s] # NoDevice} = {}
    BY DEF Init
  <2>. QED
    BY <2>1, FS_EmptySet DEF Init, Listed, NewDevice
<1>4. RefCount
  <2>1. \A d \in Devices : Holders(d) = {}
    BY DEF Init, Holders, Counted
  <2>. QED
    BY <2>1, FS_EmptySet DEF Init, RefCount, NewDevice
<1>5. Live /\ Locked /\ OneDoor /\ Running /\ Ready
  BY DEF Init, Live, Locked, OneDoor, Running, Ready, Opening, Leaving, NewDevice, At, Cookie
<1>6. count \in 0 .. SlotCount
  BY LifecycleAssumption DEF Init
<1>. QED
  BY <1>1, <1>2, <1>3, <1>4, <1>5, <1>6, TypesOfTypeOK DEF LInv, Core

\* A removal that has met a Free() is not forgotten.
LEMMA RacedStays ==
  ASSUME Types, [Next]_vars
  PROVE  raced => raced'
<1>1. CASE UNCHANGED vars
  BY <1>1 DEF vars
<1>2. CASE PublishDevices \/ UninitDriver
  BY <1>2 DEF PublishDevices, UninitDriver
<1>3. CASE BusManager
  BY <1>3 DEF BusManager, BusDeletes, RemoveOrLeave, DeviceAdded, DeviceRefused, DeviceRemoved
<1>4. CASE \E c \in Clients : Client(c)
  BY <1>4 DEF Client, InCall, LookUp, StartClose, BringUp, AllowReads, Restart, Opened, Disconnect,
              StopReceiving, Decrement, LooksRemoved, LastFree, ClientDeletes
<1>. QED
  BY <1>1, <1>2, <1>3, <1>4 DEF Next

LEMMA NextLInv == LInv /\ [Next]_vars => LInv'
<1>. SUFFICES ASSUME LInv, [Next]_vars  PROVE LInv'
  OBVIOUS
<1>1. Types /\ Pointers
  BY TypesOfTypeOK DEF LInv
<1>2. Types' /\ Pointers'
  <2>1. CASE UNCHANGED vars
    BY <1>1, <2>1 DEF vars, Types, Pointers, At, Cookie
  <2>2. CASE Next
    BY <1>1, <2>2, BusTypes, KernelTypes, ClientTypes, Zenon DEF Next
  <2>. QED
    BY <2>1, <2>2
<1>3. ~raced' => Core'
  <2>. SUFFICES ASSUME ~raced'  PROVE Core'
    OBVIOUS
  <2>0. Core
    BY <1>1, RacedStays DEF LInv
  <2>1. CASE UNCHANGED vars \/ PublishDevices
    BY <2>0, <2>1, StillStep DEF vars, PublishDevices
  <2>2. CASE UninitDriver
    BY <1>1, <2>0, <2>2, UninitDriverStep
  <2>3. CASE BusManager
    BY <1>1, <2>0, <2>3, BusDeletesStep, RemoveOrLeaveStep, DeviceAddedStep, DeviceRefusedStep,
       DeviceRemovedStep, Zenon DEF BusManager
  <2>4. ASSUME NEW c \in Clients, Client(c)  PROVE Core'
    <3>1. CASE \E s \in Slots : LookUp(c, s)
      BY <1>1, <2>0, <3>1, LookUpStep, Zenon
    <3>2. CASE StartClose(c) \/ Disconnect(c) \/ StopReceiving(c)
      BY <1>1, <2>0, <3>2, CloseSteps
    <3>3. CASE BringUp(c) \/ AllowReads(c) \/ Restart(c) \/ Opened(c)
      BY <1>1, <2>0, <3>3, BringUpStep, AllowReadsStep, RestartStep, OpenedStep, Zenon
    <3>4. CASE Decrement(c) \/ LooksRemoved(c) \/ LastFree(c) \/ ClientDeletes(c)
      BY <1>1, <2>0, <3>4, DecrementStep, LooksRemovedStep, LastFreeStep, ClientDeletesStep, Zenon
    <3>. QED
      BY <2>4, <3>1, <3>2, <3>3, <3>4, Zenon DEF Client, InCall
  <2>. QED
    BY <2>1, <2>2, <2>3, <2>4, Zenon DEF Next
<1>4. count' \in 0 .. SlotCount \/ raced'
  <2>1. Core' => count' = Cardinality(Used')
    BY DEF Core, Listed, Used
  <2>2. Used' \in SUBSET Slots
    BY DEF Used
  <2>. QED
    BY <1>3, <2>1, <2>2, SlotsFinite
<1>5. TypeOK'
  BY <1>2, <1>4 DEF TypeOK, Types, Records
<1>. QED
  BY <1>2, <1>3, <1>5 DEF LInv

LEMMA SpecLInv == Spec => []LInv
BY InitLInv, NextLInv, PTL DEF Spec

\* Every variable keeps to its type, and gDeviceCount to 0 .. kMaxDeviceCount
\* unless a removal has crossed a Free().
THEOREM LifecycleTypes == Spec => []TypeOK
<1>1. LInv => TypeOK
  BY DEF LInv
<1>. QED
  BY <1>1, SpecLInv, PTL

\* gDeviceCount counts the devices in gDeviceList, and every entry of the list
\* is a living device that knows its slot, whatever DeviceAdded, DeviceRemoved,
\* Free() and uninit_driver did to it, as long as no removal crosses a Free().
THEOREM ListIsExact == Spec => []ListExact
<1>1. LInv => ListExact
  BY DEF LInv, Core, Listed, ListExact
<1>. QED
  BY <1>1, SpecLInv, PTL

\* Nobody in Open(), Close(), Free() or DeviceRemoved works on a deleted device,
\* and none is deleted twice or with its workers or transfers running, for any
\* number of adapters and descriptors, as long as no removal crosses a Free().
THEOREM DevicesOutliveTheirUsers == Spec => []NoUseAfterDelete
<1>1. LInv => NoUseAfterDelete
  <2>. SUFFICES ASSUME LInv, ~raced  PROVE NoUseAfterDelete
    BY DEF NoUseAfterDelete
  <2>1. Core /\ Types
    BY TypesOfTypeOK DEF LInv
  <2>2. \A c \in Clients : At(c, "delete") => \A o \in Clients \ {c} : Cookie(o) # Cookie(c)
    BY <2>1 DEF Core, OneDoor, Leaving, At
  <2>3. \A d \in Devices : device[d].life = "deleted" => ~device[d].workers /\ ~device[d].rx
    BY <2>1 DEF Core, Running
  <2>. QED
    BY <2>1, <2>2, <2>3 DEF Core, Live, OneDoor, NoUseAfterDelete
<1>. QED
  BY <1>1, SpecLInv, PTL

\* Open() undoes what the last Close() did: whoever has a device open, and has
\* had no Close() of another descriptor beside it, finds it up and receiving and
\* its reads not refused.
THEOREM OpenDescriptorsReceive == Spec => []OpenReceives
<1>1. LInv => OpenReceives
  <2>. SUFFICES ASSUME LInv, NEW c \in Clients, At(c, "open"), Cookie(c) \notin disturbed, ~raced
                PROVE  LET r == device[Cookie(c)] IN r.up /\ r.rx /\ ~r.closing
    BY DEF OpenReceives
  <2>1. Core /\ Cookie(c) \in Devices
    BY DEF LInv, Pointers, At
  <2>. QED
    BY <2>1 DEF Core, Running, Ready, At
<1>. QED
  BY <1>1, SpecLInv, PTL

=============================================================================
