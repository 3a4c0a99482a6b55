# TLA+ models of the RTL8814AU driver

This directory holds TLA+ modules that model the Haiku driver for the Realtek
RTL8814AU (`src/src/`), TLC configurations that check them on small instances,
and TLAPS proofs about all that describe the driver. Paths below are relative to `src/`; line
numbers are those of the commit the models were made from. `PROJECT.json` maps
every modelling definition to its lines and lists the runs, the mutants that
show each property can fail, the hazards and the theorems.

## 1. Inventory

| Component | State | Operations | Talks to | Module |
|---|---|---|---|---|
| Connection core (`Device.cpp`: `_Set80211`, `_DoJoin`, `_Handle*Response`) | `fJoinState`, `fJoinBssid`, `fJoinSsid`, manager `fState` | `IOC_HAIKU_JOIN`, `IOC_SSID`/`IOC_BSSID`, `IOC_MLME`, `IOC_APPIE`; authentication and association responses | TX path (frames), RX callback, manager, access point | `Station` |
| WPA2 handshake (`_Eapol4WayLoop`, `_HandleEapolFrame`, `_InstallSessionKeys`) | `fPmk`, `fAnonce`, `fSnonce`, `fPtk`, `fPtkValid`, `fGtk`, `fEapolState`, `fEapolInbox` | M1, M3 on the EAPOL worker thread | RX callback (inbox), TX path (M2, M4), registers | `Station` |
| Supplicant keys (`IOC_WPAKEY`) | held half keys, `fPtk`, `fGtk`, `fCcmpEnabled`, `fTxPnPairwise` | store, install, arm | net_server / wpa_supplicant | `Station` |
| `Write()` and software CCMP | `fTxPnPairwise`, `fCcmpEnabled` | encrypt, transmit | handshake state (read without lock), TX path | `Station` |
| TX path (`TxPath.cpp`) | slots `inUse`, `fPipeSlotFree`, `fLock` | `Transmit`, `_RecoverStalledPipe`, `CancelAll`, `_TxCallback`, `SendFirmwareChunk` | USB stack, whose callbacks run on its own thread or inline in a cancel | `TxSlots`, `TxPool`, `BringUp` |
| RX loop (`RxPath.cpp`) | `fRunning`, `fTransfersInFlight` | `Start`, `Stop`, `_RxCallback`, `_SubmitTransfer` | USB stack, frame callback | `RxStream` |
| RX ring, `Read`, `Open`, `Close` | ring, `fRxDataReady`, `fBlockedReaders`, `fClosing` | enqueue, read, open, close | RX callback, net_server's reader | `RxStream` |
| RX transfer parsing | none | walk of a transfer, PHY block, beacon elements | frame callback | `RxTransfer` |
| Scanning (`_DoScanRequest`, `_ScanSweep`, `_ScanNotifierLoop`, `WiFiManagement.cpp`) | manager `fState`, `fScanStartTime`, `fScanNotifierThread`, channel | request, sweep, finish, notify | PHY, firmware (H2C), joins | `Scan` |
| BSS table | `fBssList`, `fBssCount` | update, evict, purge, find, copy out | RX callback, `_DoJoin`, scan results | `BssTable` |
| Post-association worker | `fPostAssocSem`, `fPostAssocStop` | BSSID register, two H2C commands | registers, manager | `PostAssoc` |
| H2C mailboxes | `fH2CMailboxIndex`, manager `fLock` | send a command | registers | `PostAssoc` |
| Register access (`RegisterIO.cpp`) | `fLock`, buffer ring, `fControlDone`, `fControlStatus` | read, write, bounded write with attempts, masked write | USB control pipe | `Control` |
| Lifecycle (`Driver.cpp`, `Open`, `Close`, `Free`) | device list, `gDeviceCount`, `fOpenCount`, `fRemoved`, `fHardwareInitialized` | add, remove, open, close, free, publish, unload | everything | `Lifecycle` |
| Bring-up (`_InitHardware`), firmware loader, EFUSE reader | `fLoaded`, EFUSE map, MAC address, chip | power, EFUSE, MAC, download, start, PHY, RX, manager | registers, bulk-OUT | `BringUp` |
| PHY (`PhyConfig.cpp`) | `fCurrentChannel`, `fCurrentBand`, `fTxPowerIndex` | `Initialize`, `SetChannel` | registers | `Phy` |
| Cryptography (`WPA2Crypto.cpp`) | none | PBKDF2, PRF, AES, CCM | | symbolic in `Station` |

What is hard here: there are seven kinds of threads (ioctl callers, readers and
writers, the USB callback thread, the EAPOL worker, the post-association worker,
one-shot scan notifiers, and whoever tears the device down). Most of the
handshake, join and key state is shared without a lock; locks are dropped around
USB calls; callbacks of cancelled transfers run on the cancelling thread; frames
are lost, repeated and overheard; USB transfers fail, come late or never
complete; register writes are mostly unchecked and a read given up answers all
ones. What makes each component correct, in short: the station is connected to
an access point that agrees, and both sides end with the same keys; a packet
number is used once per key; no slot or buffer is lost or used twice; nobody
sleeps through `Close()`; scans end, give the channel back and stay possible;
a network has one entry and the results are whole; a command reaches the
firmware with its own payload; every standing association is set up; a device is
deleted once, after its last user; a bring-up that succeeded left a working chip;
the radio is on the channel the driver believes in.

## 2. Modules

Every module is parameterised by constants with a named assumption; one action
stands for one atomic step of a handler. A handler is split where another thread
can read or change what it uses next: between dropping and taking a lock,
between a check and the use of an unlocked field, around every USB call. Locks
held over a single step are not variables. Bounds are spent in guards and are
named `Max...`. A definition that begins with the comment "Mutation:" is a
plausible slip in the definition that follows it and is used by no specification.

| Module | What it models |
|---|---|
| `Station` | connection core, four-way handshake, `IOC_WPAKEY`, packet numbers of `Write()`, with access points, the air and a supplicant as environment |
| `TxSlots` | the pool of TX transfers, slot by slot |
| `TxPool` | what that pool promises: anonymous buffers that are filled, sent, returned and freed; `TxSlots` implements it |
| `RxStream` | RX loop, ring, `Read`, `Open`, `Close` |
| `Scan` | scan request, sweep, notifier, manager state, reaping |
| `Control` | register access over the one control endpoint |
| `PostAssoc` | extends `Control`: the worker and the H2C commands over it, with the join, the disconnection and the receive callback that compete for the same locks |
| `RxTransfer` | layout of an aggregated transfer and the driver's walk over it; beacon elements, signal strength |
| `BssTable` | extends `RxTransfer`: the table of networks, its lookups and its results |
| `BringUp` | `_InitHardware` with firmware loader and EFUSE reader |
| `Lifecycle` | device list, open count, removal, deletion |
| `Phy` | `Initialize` and `SetChannel`, write by write |
| `MC...` | the modules for TLC |
| `StationProofs`, `TxSlotsProofs`, `RxStreamProofs`, `BssTableProofs`, `ControlProofs`, `RadioProofs` (of `Scan` and of `Phy`), `LifecycleProofs`, `BringUpProofs` | the theorems |

Every module of driver state has a `TypeOK` that states the ranges of its variables. They
are theorems; the runs spend their time on the properties below.

### Station

The program counters `join`, `rx`, `work`, `wpakey` and `writer` say where each
thread is. Join: `JoinPsk`, `SetTarget`/`JoinLegacy` or `JoinMlme`, then
`JoinLookup` (`_DoJoin` to the channel switch), `JoinArm`, `JoinSend`. Responses:
`RxAuthResp`, `RxSendAssoc` (the callback may wait two seconds in `Transmit`
before it gives up), `RxAssocResp`. EAPOL: `RxEapol` fills the inbox;
`WorkTake`, `HandleM1`, `SendM2`, `HandleM3`, `WorkInstall`, `WorkCommit`,
`WorkFinish`. Keys: `WpaKeyStore`, `WpaKeyInstall`, `WpaKeyArm`.

* One join ioctl runs at a time. `IOC_SSID` and `IOC_BSSID` are merged into
  `SetTarget`, and the pair of `fJoinSsid`/`fJoinBssid` that `IOC_HAIKU_JOIN`
  passes by pointer is snapshotted in `join`.
* Cryptography is symbolic: `Derive` is a tuple, a MIC is the key it was made
  with, nonces are fresh numbers.
* Authenticating again does not end an association at the access point. `dropped`
  records that an access point has dropped us (its deauthentication is only
  logged by the driver), until it accepts us again.
* A frame that `Write()` sends in the clear changes no modelled state.

### TxSlots and TxPool

`Transmit` is `CallTransmit`, `TransmitLock`, then `TransmitClaim` or
`TransmitFull`/`TransmitWake`, and `TransmitSubmit` (with `TransmitUnclaim` if
`queue_bulk` fails); after the deadline `RecoverStalledPipe`,
`CancelStalledPipe`, `RecoverDone`. `CancelAll` cancels pipe by pipe without the
lock and then frees every slot. A callback is `Complete` or `CallBackCancelled`,
then `CallbackClear` under the lock and `CallbackRelease`. Threads in
`UsbCallers` are the USB callback thread in `Transmit` (the association request
is sent from the receive callback): while one of them is busy no completion is
delivered. The lock is a variable here, because callbacks that run inside a
cancel take it.

`TxPool` knows neither pipes, semaphores nor threads: a buffer is free, being
filled, with the USB stack, or being returned. `ImplementsPool` is the
instance of it under which a slot's stage is read off its holder; it ends with the
return of the first `CancelAll`, which frees slots that may still be claimed.

### RxStream

The USB thread: `Complete`, `CallbackEntry` (counts the transfer off),
`Enqueue`/`Signal` for each frame, `CallbackCheck` of `fRunning`,
`CallbackSubmit`, `CallbackCount`. Readers: `ReadCheck`, `ReadRegister`,
`ReadAcquire`, `ReadDeregister`, `ReadDequeue`, `ReadInterrupted`. Control
thread: `Open`, `Start...`; `Close`, `CloseCount`, `CloseRelease`, `Stop...`.
The ring is its number of frames; it holds one less than it has slots. A
semaphore hands a released token to the longest waiting thread.

### Scan

A request is `RequestCheck`, `RequestStart`, `RequestSend`, `RequestSpawn`,
`RequestPublish`, `RequestResume`, in the order of `_DoScanRequest`; nothing keeps
two of them apart. A notifier is `SweepCheck`, `SweepBegin`, `SweepHop`,
`SweepReturn`, `SweepFinish`, `SweepClear`. `JoinPark`/`JoinConnect`, `Disconnect` and
`FirmwareEvent` are what else moves the manager's state or the channel; a join
that cannot tune goes on, as in the code. A `SetChannel` is one step here and a
program in `Phy`. The system's teardown is `ShutdownReap` and `ShutdownDelete`,
which need the device unplugged and no request under way. Two histories say when
the code promises nothing: `crowded`, the last request to pass the check passed it
beside another request or a live notifier; `astray`, the chip was last
moved by a join in a sweep, by two sweeps at once or by a tuning that failed.

### Control and PostAssoc

`TakeLock`, then for a bounded write `Drain` (stale completions of
`fControlDone`), `Queue`, `Acquire` or `GiveUp`, `Judge`; for the other kinds
`Request`. The device executes requests in order (`Execute`) and their
completions are delivered in order, whenever it likes; a request whose caller
gave up stays on the wire. A register is a pair: a masked write is about the
first field, `MaskedSparesOthers` about the second. Histories: `clean` says that
nothing abandoned was outstanding as a call began, `stamp` and `copies` how often
the ring was filled since. Retries: the constants of the code are 1 attempt
(`kControlWriteAttempts`), 3 retries, 4 buffers.

In `PostAssoc` every register access is a call of `Control`, under `Control`'s
lock; a command (`H2CLock`, `H2CExt`, `H2CStd`, `H2CDone`) holds the manager's
lock over its two bounded writes, and the receive callback (`RxBeacon`,
`RxAssocResponse`, `UsbStep`) waits for that lock on the thread that delivers
completions. The command number is its payload, so that a mixture of two is seen.

### RxTransfer and BssTable

`RxTransfer` has a layout (where the chip puts each frame) and a walk (where the
driver looks for the next); `WalkDelivers` compares them. A beacon is entered in
three steps under the manager's lock: `FindOrCreate`, `FillName`, `FillRest`;
`Purge`, `GetScanResults` take the lock; a join reads entries without it, step by
step (`JoinStep`), twice. Ages are one bit, set by `Ages` when the purge
interval has passed.

### BringUp

One thread goes from stage to stage (`pc`), the adapter acts on its own
(`Adapter`: blocks arriving, acknowledgement, DDMA copy, the MCU starting). The
register sequence of a stage is one step over the fields of the chip that later
stages or the properties depend on. A failure leaves
`_InitHardware` at the stage it is in, through the cleanup the code has there, and
the next `Open()` begins over what was left. Reads that are given up are modelled where the answer
decides what happens next. Writes are given up too, with the adapter there
(`_VendorWrite` returns an error after its retries) and the code looks at that of few:
the write that enters download mode (`BeginLoad`), those that resume the MCU and leave
it (`ResumeFirmware`), and the baseband's table. All others go through `Write` (one
register) or `Lands` (a stage's), in which any of those that would change something
may be lost (`Loses`): the register keeps what it had. `lost.of` names the
registers whose last write was lost; the next write of such a register by a stage
that gives it its value whatever it held (`afresh`) takes it off. So `StartCopy`
can lose the source (the engine copies from anywhere), the destination, the
command or the clearing of the checksum; `EnableMac` can lose REG_CR or the
aggregation, `InitMAC` the pages, their boundary and the queues, `BeginLoad` the release
of the DDMA engine from its reset (`StaysReset`). A lost write of EFUSE_CTRL leaves the
ready bit and the byte of the reading before (`Stale`). The steps that lose writes and the
reads given up are together at most `MaxFaults`, and so are the writes lost within one step;
the unplugging needs one of them left and ends them all.

A DDMA checksum is the set of blocks accumulated so
far: an exclusive or cannot see order, and copying a block twice takes it out.
The EFUSE is cells; the decoder walks them entry by entry. `MapOfFuses` says
without the walk what the map should be: the entry starts are the one set of cells that is
a chain (`IsChain`), and each byte of the map is the one of the last entry of the
chain that carries it. The map is made of words (`MapSize` is even): the code's test
`targetOffset + 1 < kEfuseMapSize` drops whole words. The firmware chunk's callback is one
step (in `TxSlots` it is two), because nobody competes for its slot.

### Lifecycle

The bus manager (`DeviceAdded`, `DeviceRemoved`, `BusDeletes`), clients (`Open`
under the list lock, `Close` without it, `Free` in `Decrement`, `LooksRemoved`,
`LastFree`, `ClientDeletes`), publishing and unloading. The bring-up is one step
with the outcomes the rest can tell apart: up already, up now with or without its
workers (a semaphore or thread that cannot be had is only logged), and failed with or
without reception started.

### Phy

`SetChannel` is a program, a sequence of writes computed from the channel and
whether the band changes (`Program`), which each caller goes through at its own
pace; nothing serialises callers. `Setting(r, channel, width)` is what a channel asks
of a group of registers. Of registers written under a mask only the field is kept,
of RF register 0x18 the channel, the code and the width, of the six power registers of a
path the set of indices they hold. A write that was given up may have landed or not.
Callers ask for 20 MHz only, so the run does.

Before `Initialize` nothing is any channel's (`Cold`, `Unset`). The replayed table is
checked write by write, but it is not channel 1 at 20 MHz: it leaves the width bits of RF
register 0x18 at ones, the LNA as for 5 GHz, the routing as for one class of board, and does
not write the CCK check, the sub-channel or the power (`TableSets` are the groups it does
leave as channel 1 asks; section 6 has the lines). `Initialize` then writes the power of
channel 1, unchecked, and each path may keep some or all of what it held.

## 3. Runs

| Run | Instance | What it shows |
|---|---|---|
| `station_psk` | 2 access points (one secure, one not in the scan results), 2 joins by passphrase or open, 1 fault, 1 crossing repetition, 1 stray response | `AssociationMutual`, `M3Verifies`, `SessionKeysAgree` |
| `station_supplicant` | 2 secure access points, 2 supplicant joins, 1 fault, 1 group rekey, 1 writer, 2 encrypted frames | `SupplicantKeysAgree`, `PnUniqueInSession` |
| `station_live` | as `station_psk`, no crossing | `HandshakeCompletes`, `JoinSettles` |
| `tx_pool` | 2 pipes of 1 slot, 2 senders (one on the USB thread), 3 calls, 1 `CancelAll` | no slot leaks, one holder per slot, calls return, the abstract pool is implemented |
| `rx_stream` | 2 buffers, ring of 2 frames, 2 readers, 3 frames, 1 failed submission, 2 closes | exact in-flight count, frames have tokens, `Close` wakes the readers it can count |
| `scan` | 2 requesters, 2 threads, 2 channels, 1 fault, unbounded requests and joins | the notifier is reaped, the channel and the id are given back, scans end |
| `control` | 2 callers, 1 register of two fields, ring of 2, 2 attempts and retries, 2 failures, 3 values | queued data survives, an answer is about its own request, masked writes spare the other field |
| `post_assoc` | worker and joiner, 2 mailboxes, ring of 2, 1 attempt, 1 join, disconnection, interruption and beacon | commands take effect whole, associations are set up, the worker stops |
| `bss` | 3 networks (two of one name), table of 2, 5 kinds of transfer, 3 delivered, 1 join, 1 ageing | the walk, the bookkeeping, reasons to leave, whole results, join targets |
| `bring_up` | 2 opens, 2 attempts, sections of 2 and 1 blocks, three EFUSEs of 8 cells, 1 read given up or 1 write lost or an unplugging | whole image, ready chip, EFUSE map, every `Open()` returns |
| `lifecycle` | 2 devices, 2 slots, 2 clients, 4 opens | exact list, no use after delete, who has a device open receives, removed devices die |
| `phy` | 2 paths, channels 6, 36 and 149, 3 calls by 2 callers, 1 lost access | registers match the belief, band before synthesizer, a clean call sets everything, B_OK means tuned |

Why the bounds are enough to be interesting. Two joins let an attempt, or the
worker of one, overtake or collide with the next; two access points tell a
response of the wrong one apart. One fault separates each error path from the
others; one crossing repetition produces the M1/M2 crossing that the comment on
`sameAnonce` is about. One slot per pipe makes every second call wait, two pipes
let a cancel miss the right one. A ring of two frames with three to deliver
overflows; two closes let a transfer of one run meet the start of the next. A
control ring of two comes round with the third write; two attempts make a retry
meet its own abandoned request. Two table entries for three networks evict, purge
and refill. Two blocks in a section can change places, and a second attempt can
meet a chunk of the first; two opens let one begin on what a failed one left; every
register has its write lost alone, at every stage. The three EFUSEs have between them an unburnt
chain, one that fills the cells, both header forms, a word burnt over and a group outside
the map. Two requesters pass the check together, their notifiers cross, and one is lost to
the destructor; two channels tell the one parked on from the one swept.
Three devices' worth of slots are not needed: two are enough to reuse a slot while
the other is taken. Two paths let one be tuned and the other not; the three
channels lie in the 2.4 GHz band and in two sub-bands of the 5 GHz band, so every
table of boundaries is crossed; three calls go there, back and again.

Fairness. Driver threads that can take a step eventually do (weak fairness per
thread; in `post_assoc` of everything under way at once, no step of which repeats
for ever); deadlines pass. The device is not assumed to complete bulk transfers
(`tx_pool`) or to answer anything in a bring-up (`bring_up`); access points are assumed to
answer and repeat, within the fault bound (`station_live`); somebody is assumed to
go on asking for scans (`scan`; net_server and wpa_supplicant do), since only
another request ends a stale scan; in `lifecycle` the kernel frees what was closed,
and a thread inside the driver comes out. Nothing is assumed about users
joining, opening, closing or unplugging. `station_psk`, `station_supplicant`,
`rx_stream`, `control`, `bss` and `phy` are safety only. Deadlock is not checked: every
bounded model legitimately stops when its bounds are spent.

Conditions in the properties state what the code can promise.

* `AssociationMutual` excepts a refused join by name, which leaves the old
  association and a BSSID of zero.
* `SessionKeysAgree` and `SupplicantKeysAgree` ask for CCMP and the group key only
  when nothing failed; `PnUniqueInSession` is about the first installation;
  `JoinSettles` gives way once something is lost, there being no authentication
  timeout.
* `SlotExclusive` and `ImplementsPool` hold until `CancelAll` has returned;
  `CallsReturn` excepts a USB thread that reads a register and so waits for itself.
* `FramesHaveTokens` holds until the first `Close`; `CloseWakesReaders` leaves out
  the readers between their check and their registration (`late`).
* `NotifierReaped` excepts a last request that met another one, or a live notifier,
  when it passed the check (`crowded`). `ParkedBetweenSweeps` excepts what a join in a
  sweep, two sweeps at once or a tuning that failed left, until a join parks the chip
  between sweeps again (`astray`), and with `ScanEnds` an unplugged device.
* `AnswersTrue` is about bounded writes that began with nothing abandoned
  outstanding (`clean`); `CommandWhole` excepts a wait such a request may have
  answered (`unsure`) and a ring that has come round; `AssociationSetUp` and
  `WorkerStops` except the three-thread deadlock `Entangled`.
* `JoinTargetHeard` is about joins by name whose entry kept its owner (`clean`). It
  asks that a beacon of the network gave the name and one gave the channel, not
  that one beacon gave both: a network that changes name and channel together can
  be joined by the old name on the new channel, between the two halves of the
  update of its entry.
* `LoadedImageWhole` excepts a lost DDMA destination and a lost clearing of the checksum
  (`"to"`, `"sum"` in `lost.of`), which the checksum cannot tell, and promises the
  order of blocks only if no chunk of an earlier attempt was under way (`leftover`) and every
  acknowledgement was cleared (`"valid"`). Every other lost write, of the source, the
  command, the halt, the flags, the boundary, the queues or REG_CR, it allows.
* `UpMeansReady` is about bring-ups in which no deciding read was given up (`blind`). A lost
  write it excepts register by register: with that of REG_CR lost, `Open()` can say
  B_OK with the MAC off, but all the rest is as it should be. Of the firmware, download
  mode, the pages and the loader's queue it excepts none. `MapIsTheFuses` excepts both a
  read given up and a lost EFUSE_CTRL (`"efuse"`).
* The invariants of `Lifecycle` except a removal that crosses a `Free()` (`raced`),
  `OpenReceives` also a device closed beside another descriptor (`disturbed`). It says
  nothing of the workers: `Open()` succeeds without them.
* `RadioWhole` and `BandBeforeSynth` are about a radio that lost nothing since
  `Initialize` or since its last undisturbed band switch (`spoiled`). What the cold start
  leaves (`Cold`) is let pass in the widths until the first call is through, and in the band's
  groups while the radio stays on 2.4 GHz. `CleanCallSets` is about a call with
  no other beside it that lost no access itself (`clean`), whatever was lost before;
  `OkMeansTuned` about a call with no other beside it (`alone`) whose reads succeeded
  (`seen`).

## 4. Proofs

`StationProofs` proves for any number of access points, writers, joins and faults:

* `StationTypes`: `TypeOK`. Not inductive by itself: the messages are one record
  type, so that a nonce or a key is where the handlers look for it rests on `Shapes`
  (what the inbox and the worker hold is an M1 or an M3, an M3 carries a key, what
  is to be installed came with a handshake).
* `AssociatedMutually`: `AssociationMutual`. Three invariants carry it. `AcceptedInv`:
  an access point whose acceptance or M1 for us is in flight, or that is in a
  handshake with us, has accepted us, and may have dropped us since. `ConnectedInv`:
  a driver that is Connected and not between the beginning of a join and its arming
  has a BSSID that accepted it, or was refused by name. `LookupInv`: a join that
  looks its BSSID up carries the name the driver has, so that refusing it leaves
  the exception and nothing else. Responses overheard, of the wrong access
  point or of an attempt that was overtaken fall under `FromOurAp`.
* `M3AlwaysVerifies` and `KeysAgree`: `M3Verifies` and `SessionKeysAgree`, for a
  driver that no supplicant joins with (`InDriverOnly`, as in the run
  `station_psk`). The condition is needed for the second: when both kinds of join are used, an
  `IOC_WPAKEY` of an earlier session that comes late puts its TK over the one of
  the handshake, and `SessionKeysAgree` is false.

The two properties of the handshake speak of moments when the worker is idle and
the access point has moved on. What makes them true is where its messages can be
at every other moment. The invariant `FourWayInv` says it:

* `InDriverInv`: nobody but the driver holds keys, and before the first join by
  passphrase there is no handshake anywhere.
* `NonceInv`: every nonce anywhere is older than the next one drawn and the key an
  access point took was made from the nonce it sent (`AirNonces`); the PTK held was
  made from the nonce held (`KeyNonces`).
* `Handshake(a)`, for each access point in a handshake. About the queue alone:
  no old M1 lies behind a current one, and no M1 at all behind M3 (`DownOrder`); while
  the response that will make the driver Connected is on its way, the driver has
  nothing of the handshake yet (`Pending`); before M2 there is no M3 and no M4
  (`Unopened`). About a driver that is associated (`Settled`): what it, its inbox or
  its worker has come to, the messages behind it have come to as well (`Order`), so
  a repeated M1 finds `sameAnonce` and a key that was already used is not
  derived again; each M2 the access point can take is made with the PTK held
  (`Answered`); and once M4 is on its way nothing that could begin the handshake again
  is left, and the worker's way to `Done` installs the keys (`Closed`).

Steps that are none of a handshake with `a` leave `Handshake(a)` alone by one lemma
(`CalmKeeps`); the worker's steps, the receive callback, and a's own have one each.

* `SupplicantKeysHold`: `SupplicantKeysAgree`, for a driver that is given no
  passphrase (`NoPassphrase`, as in the run `station_supplicant`). Without the
  condition it is false: a join by passphrase that no scan result answers is refused
  after it has switched CCMP off, and `IOC_WPAKEY` can put the old BSSID back before
  the refusal.

The property speaks of moments when everything is installed. `SuppliedInv` follows
the keys there:

* `SuppliedOnly`: the worker has nothing to do, and the supplicant installs the
  pairwise key first. The nonces are those of `AirNonces`.
* `KeyOrder(a)`, for each access point in a handshake: `Pending` and `Unopened`
  again, of the key the supplicant would answer M1 with (`KeyPending`: nobody can
  answer M1 while the response that connects the driver is still ahead of it;
  `KeyUnopened`: before M2 nothing that ends the handshake exists, and an
  installed key is not of this one). So M2 cannot arrive before the driver is
  Connected, nor be made with a key that was installed already.
* `Installs(a)`: from the supplicant's M4 on, either both keys are still to come, or
  the pairwise one is the one held (`fSupplicantTk`) and the group key is still to
  come, or a call of `IOC_WPAKEY` has copies of this session's two (`Arming`), or
  it has put them in force (`Armed`). A group half of an earlier session makes the
  first call install early, and a rekey makes a third one do so; both go through
  the same states.

* `NumbersAreUnique`: `PnUniqueInSession`, for a driver that is given no passphrase and
  has one writer (`NoPassphrase`, `OneWriter`, as in the run `station_supplicant`).
  With two writers it is false: both can load the same number (section 6).

What a first session must not see is a second installation, which would start the
numbers over. `SessionInv` traces that back to the join:

* `OneAttempt`: the right to associate is in one place at a time: with the caller of
  the one join, in a request, in a response, or with the receive callback that
  sends the association request.
* `OneHandshake`: the access point that takes it begins the only handshake. Repeated
  M1s, the access point's state and the supplicant's key speak of the same access
  point and nonce, and of none while the attempt is still under way; so a repeat finds
  the key of the handshake it belongs to and begins no other.
* `OneInstallation`: the supplicant has its keys installed once. Until the group key has
  been handed over nothing was encrypted and no writer is under way, and holding the
  first key makes one installation of the two calls.
* `NumbersRise`: the numbers used differ and are below the next one.

`TxSlotsProofs` proves for any number of pipes, slots and threads:

* `TypeCorrect`: `TypeOK` is an invariant. It is inductive as it stands.
* `NoLeaks`: `NoSlotLeaks`. Inductive together with `TypeOK`: each step that ends
  one way of holding a slot (claim, flight, cancelled transfer, running
  callback) begins another or clears `inUse` in the same step.
* `Exclusion`: `SlotExclusive`. It is proved with `TypeOK`; the property is itself
  stated as the strengthening, since "at most one transfer" alone is not
  inductive: it needs that every holder excludes every other kind of holder.
  `CancelAll`'s last step leaves the scope of the property (`cancelled` changes).

It also proves the refinement, `Implements`: `Spec => ImplementsPool`, which
rests on `TypeOK` and `SlotExclusive`. Each step of `TxSlots` moves the slots it
touches one place on along free, filling, sent, returning (a cancel moves all
of a pipe's at once) and leaves the others where they are, which is a step of
`TxPool` or a stutter.

`RadioProofs` proves of `Scan`, for any number of channels, threads and faults:

* `ScanTypeCorrect`: `ScanTypeOK`. Not inductive by itself: a sweep sets the chip to
  the channel it is at and to the one it began on, so the invariant adds that
  these are channels (`SweepingAChannel`), and that a requester publishes and
  resumes a thread it has spawned (`HasSpawned`).
* `Reaped`: `NotifierReaped`, for any number of requesters. The destructor
  reads an id, so the invariant `ReapInv` relates the id to the thread, as long as
  the last request past the check met nobody: while it is under way it is the only
  request, and the notifier it makes the only one, which stays suspended until it is
  published (`RequestAlone`); while nobody requests, the published id is that of the
  only live notifier (`IdIsKnown`); the destructor, which no request survives
  (`TeardownAlone`), waits for the only live one (`ReapsTheLive`). A check that
  meets nobody starts all of this afresh, whatever crowd there was before
  (`CheckReap`). In a crowd the property is false (section 6).
* `ParkedBetween`: `ParkedBetweenSweeps`, for any number of requesters and faults. The
  property speaks of the time between sweeps, so its invariant `ParkInv` says what a sweep
  owes: unless the chip went astray there is one sweep, which remembers the
  channel the chip is parked on, and every exit of a sweep but the unplugged one
  passes `SweepReturn`, which pays it.

`BssTableProofs` proves for any table size, networks, channels and transfers
(packed as `PackingAssumption` says):

* `TableTypeCorrect` and `TableBookkeeping`, from `IInv`, the conjunction of
  `TypeOK`, `BssidsUnique` and `CountExact`, which is inductive. The argument is
  about `EntryFor`: it picks the network's entry if there is one, else the first
  empty one, else the weakest, which exists because a finite set of signal
  strengths has a least; the count grows in the second case only.
* `NobodyLeavesUnasked`: `LeavesForAReason`, an action property. Only `Purge` and
  `FindOrCreate` can end an entry; the second only when there is no empty entry
  (`FullTable`), and then of the weakest (`WeakestIsWeakest`); every other action
  leaves the owners alone (`EntriesStay`).
* `ResultsAreWhole` and `JoinsGoWhereHeard`: `ResultsWhole` and `JoinTargetHeard`.
  They rest on `SInv`. `SlotInv`: the entry under update is the beacon's own, and
  between the two halves the beacon counts as heard already. `WholeInv`: every
  other valid entry says what one beacon said. `HeardInv`: the last beacon of
  a network is one of those heard. `JoinInv`: what a join has read so far, in
  steps without the lock, was heard of the network its entry stands for, unless
  that entry changed hands. Results need the lock, which an update holds over
  both halves; joins do not, and so get only the name and the channel apart.
* `WalksDeliver`: `WalkDelivers`, for transfers of any number of frames of any lengths.
  The driver finds the next descriptor by arithmetic on the last one; that the
  chip's own sum over all frames before it gives the same place is `WalkInv`: between
  turns the walk is where some frame begins, or at the end of the last, and has
  delivered the sound ones before it in order (`WalkedTo`). `BeginsStepwise` shows,
  by descent on the number of frames, that the places exist and follow one from the
  other, `BeginsRise` that they differ, `VerdictThere` what a turn makes of each.
  It assumes of the chip (`PackingAssumption`) that a frame is longer than its check
  sequence and that a PHY block has the size its descriptor reports, or the
  observed one where it reports none.

`ControlProofs` proves for any number of callers, any buffer ring, attempts and
retries: `ControlTypes`, `RingHoldsAlways` (`RingHolds`), `AnswersAlwaysTrue`
(`AnswersTrue`) and `MaskedWritesSpareOthers` (`MaskedSparesOthers`). The
invariant `CInv` is `TypeOK` with:

* `Locked`, `Ways`: whoever is past the lock owns it; bounded writes and synchronous
  requests go different ways through an access.
* `LastInLine`: a synchronous request is the last on the wire and its caller waits for
  it, since requests are queued under the lock only.
* `RingInv`: a request on the wire still has the buffer it was given unless the
  ring has come round since, which `copies` counts.
* `CleanInv`, `AnswersTrue`: in a call that began with nothing abandoned, after the
  drain, a completion can only be that of one of the call's own requests.
  `AnswersTrue` alone is not inductive, because a completion delivered
  late is judged later.
* `MaskInv`: between the read of a masked write and its write nothing is on the wire
  that could change the register, so the second field it writes back is the
  register's.

The same module proves `PostAssocTypes` and `CommandsWhole` (`CommandWhole`) of
`PostAssoc`, for any number of mailboxes, buffers, attempts, joins and faults. A
command's first write is judged by one thread, perhaps long before its second
takes effect, and abandoned writes of both senders may still be queued. `PInv` is
`CInv` with:

* `Turn`, `Writing`: who is between the steps of a command holds the manager's lock,
  so there is one, and the worker or the disconnection is waiting for it; bounded
  writes are those of commands and go to the box in turn, everything else is
  about the BSSID register.
* `OwnSays`: the request a write waits for says what the write says.
* `SureLoaded`: from the moment the sender knows that its first write took effect (its
  own request was carried out, by `CleanInv`; or B_OK, and nothing abandoned was
  outstanding) to the end of the command, the extended register has the payload, and
  nothing queued would change it.
* `InLine`: each queued write of a standard register, however long abandoned,
  will find its payload in the extended one: the register has it, and nothing
  before it in line is about that register.

`MaskedWritesSpareOthers` and `CommandsWhole` then look at the request at the
head of the queue only.

`RxStreamProofs` proves for any number of readers, buffers, ring slots and
frames: `StreamTypes`, `TransfersCounted` (`InFlightExact`), `NoFrameStranded`
(`FramesHaveTokens`) and `CloseWakes` (`CloseWakesReaders`). The invariant `RInv`
is `TypeOK` with:

* `Places`, `Waiting`: what the thread that opens and closes has set at each place; a
  reader is in the semaphore's queue once, only while it sleeps, and nobody is
  while a token is free.
* `Counted`, `InFlightExact`: `fBlockedReaders` is the number of readers between their
  registration and its end; `fTransfersInFlight` is the number of queued transfers,
  but for the one a thread is about to count.
* `FramesHaveTokens`: until the first `Close()`, each frame in the ring has a token
  that is free, handed to a reader on its way to the ring, or about to be released.
* `Served`: from the count in `Close()` on, the readers who have yet to get a token are
  no more than the tokens still to come and the `late` ones.

The transfers are counted by a sum over the buffers. `SumFunction` shows that the recursively
defined sum exists and adds up as it should, by descent: of the finite sets for
which it fails one has the fewest members, and a member can be taken away.
The numbers of readers need that there are finitely many (`RxStreamAssumption`).

`RadioProofs` proves of `Phy`, for any number of paths and callers, any channels of
the two lists and any EFUSE contents:

* `PhyTypeCorrect`: `TypeOK`. The invariant `TypeInv` adds
  that a call stands at a step of its own program and runs only on an initialised
  radio, and that the table of an initialised radio holds gains only; each channel falls in a
  power group of the table.
* `RadioMatchesBelief`, `BandComesFirst`, `CleanCallIsWhole` and `OkMeansOnChannel`:
  `RadioWhole`, `BandBeforeSynth`, `CleanCallSets` and `OkMeansTuned`. `RadioWhole` is about
  the time between calls,
  so the invariant `RadioInv` says what holds at every step of one. `Marks`: an
  undisturbed call is the only one and decided to switch by the band still believed
  in. `DoneInv`: the steps it has taken (`Done`) are in place. `TuningInv`: those
  of a call alone that lost writes only are, as far as the synthesizers' channels
  go, and what it writes back it has just read. `LeftInv`: what nobody has come to
  yet is as the driver believes, or as the cold start left it where that is let pass
  (`LeftCold`; the widths only while the first call is `Fresh`).
* `Initialize` needs `BeforeHolds`: until it has succeeded nobody is in a call and the belief is
  that of the constructor.
* They need the shape of every program (`ProgramShape`): which steps it has, that the
  band's groups precede the tuning, that the width comes after it, and that each
  read of a synthesizer is followed by its write.

`LifecycleProofs` proves for any number of adapters, slots and clients:
`LifecycleTypes`, `ListIsExact` (`ListExact`), `DevicesOutliveTheirUsers`
(`NoUseAfterDelete`) and `OpenDescriptorsReceive` (`OpenReceives`). None of the
three properties is inductive: who is about to delete a device says nothing of
who may still come to it. The invariant `LInv` is `TypeOK`, `Pointers` and, until
a removal has crossed a `Free()`, `Core`:

* `Listed` and `Live`: a living device is in its slot of the list, or somebody is about
  to delete it; whoever has a cookie has a living device.
* `RefCount`: `fOpenCount` is the number of descriptors, so the one that takes it
  from one to zero was the last, and a removal that finds zero finds nobody.
* `Locked`: whoever is inside `Open()` holds the list lock and its device was not
  removed, so none enters behind a removal.
* `OneDoor`: a removed device leaves through the bus manager, with no client
  left, or through its last `Free()`, with no other client and no bus manager on it.
* `Running` and `Ready`: workers run only in a device that is up, nothing
  in one that is not alive, and what an `Open()` has reached stands until a
  `Close()` beside it.

The exception is needed: with a removal between the decrement and the test of
`fRemoved`, two would go through the door (the hazard at `Device.cpp:2655`).

`BringUpProofs` proves for any number of attempts, calls, blocks, reads given
up and writes lost, any size of EFUSE and map and any EFUSE contents:

* `BringUpTypes`: `TypeOK`. It needs `TypeInv`: a queued transfer carries a block of the file,
  and a further attempt is begun only while one is left. The decoder's address stays
  below `Cells + 10`: a turn that begins in the last cell reads at most ten.
* `UpIsReady`: `UpMeansReady`. The invariant `UpInv` says at each stage what the
  chip has by then. `Resources`, conditional on no read given up (`Calm`): each register
  that kept no old value (`Kept`) has what its last write gave it. `Shown`,
  whatever is lost: what a later event could not have happened without. A chunk that left
  the pipe shows that the loader's pages and queue are set, a firmware that came up that
  the MCU runs, and the checked write that download mode is left. `DriverInv`: what the
  driver itself has started, and that a taken slot has its transfer queued.
* `LoadedImageIsWhole`: `LoadedImageWhole`. The checksum is a set from which copies also
  take away, so `SumInv` only has it *among* what was copied to the places so far: a good
  checksum then means that all blocks of the section are among as many copies, hence each
  exactly once. A copy that never began or came from anywhere shows in it, and needs no
  exception. That they are in place is `PlaceInv`: with no leftover chunk and every
  acknowledgement cleared the one chunk on its way is on the pipe, in the FIFO or parked
  (`InStep`) while the boundary stands; once a poll given up has moved it, every later
  copy is of the one block parked (`Stuck`), which no good checksum survives if there were
  two. `OwnInv`: the DDMA engine works for the copy under way, or, where a reset was lost,
  for one of an attempt before the first copy of this one.
* `MapIsWhatIsBurnt`: `MapIsTheFuses`. The invariant `MapInv` holds, unless a read was given
  up or an EFUSE_CTRL lost, the entries walked
  over (`Walked`) and that the map is what these carry. `EntryRead` shows, through
  the sixteen masks, that one turn of the decoder reads what the entry carries;
  `LastEntryCounts` that a further entry overrules; `OneChain`, by descent to the
  least cell on which two chains differ, that there is only one chain; `WalkEnds` that
  the walk ends with it.

The assumptions are those named in the modules (`PostAssocAssumption`: the worker and
the thread of the ioctls are two threads, and the registers of the commands are
registers); for `M3AlwaysVerifies` and `KeysAgree` also
that no supplicant joins; for `SupplicantKeysHold` that nobody gives a passphrase, and
for `NumbersAreUnique` besides that there is one writer.
Checked by TLC only: all liveness. Induction over data as a rule is not
available to the provers; where a theorem needs one fact of that kind, it is
had by descent on a smallest counterexample (sums, strengths, chains of entries,
places of frames).

## 5. Not modelled

The cipher and hash algorithms; the vendor's register tables, applied as one step
(`PhyRegTables.h`); the register offsets (`RTL8814AU.h`); the bytes of frames
and TX descriptors; statistics, debugging and logging; the informational ioctls;
`wifi-join` and the scripts. `_InitBBRegisters`, `_InitRFRegisters`,
`_ApplyRFTable` and `_RunIQCalibration` are called by nobody. The group-key
handshake after M4 does not exist in the driver. IRQ-level details of the USB
stack are reduced to: requests of a pipe complete in order, a cancel calls back
inline, a callback runs on one thread.

## 6. Disagreements between the repository and the code

Met while modelling. The properties state what holds; the cases below are the
conditions of section 3, or lie outside the models.

Joins and handshake:

* The worker enables CCMP before it resets the packet number (`Device.cpp:4661`);
  the comment at `Device.cpp:4667` and `docs/wpa2-in-driver.md:186` say otherwise.
* A worker finishing an earlier join's handshake marks the new one done
  (`Device.cpp:4674`); a deauthentication then takes effect in the middle of it
  (`Device.cpp:1664`).
* `IOC_WPAKEY` restarts the packet number on a group rekey, under the same
  pairwise key (`Device.cpp:1843`), and two writers can take the same number
  (`Device.cpp:3082`).
* `fPmkValid` is never cleared (`Device.cpp:1929`), so after a join by passphrase
  the EAPOL frames of a supplicant join are diverted to the worker, which the
  comments at `Device.cpp:3405` and `Device.cpp:3420` exclude.
* `docs/wpa2-in-driver.md:219` calls the worker the only writer of the handshake
  state; the ioctls write it too (`Device.cpp:1931`, `Device.cpp:1835`).
* `docs/wifi-management.md:205` says `Disconnect` resets `fJoinState`; it does not.
* `_DoJoin` switches CCMP off while the old association is still Connected
  (`Device.cpp:3694`), so a `Write()` then goes out in the clear.
* A join by SSID that is refused clears the BSSID under a standing association
  (`Device.cpp:3777`), so `fJoinState` is Connected to nobody: the exception in
  `AssociationMutual`.
* A join that gives a BSSID takes the channel of the first entry of the same
  name (`Device.cpp:3761`).
* A join reads entries without the manager's lock (`Device.cpp:3755`): of a network
  that changes name and channel together it can take the new channel under the
  old name.

Scanning and table:

* A scan requested while connected sweeps under the link: `StartScan` replaces
  the state the sweep tests (`WiFiManagement.cpp:197`, `Device.cpp:2249`,
  `docs/command-line-usage.md:29`).
* Two requests that pass the check together each make a notifier, of which one is unknown
  to `_Shutdown` (`Device.cpp:2403`, `Device.cpp:1493`); so is one whose request passed
  the check after the other's notifier had cleared the id that was not its own. Hence the
  exception `crowded`.
* A join during a sweep overlaps its `SetChannel`, and the sweep then returns to the channel
  before the join (`Device.cpp:2304`, `Device.cpp:3812`). Hence the exception `astray`.

Transfers:

* A reader between its check of `fClosing` and its registration parks for good
  (`Device.cpp:2876`, `Device.cpp:2864`). After a `Close()` the tokens of
  `fRxDataReady` and the frames in the ring need not match (`Device.cpp:2556`
  says nothing has to be drained).
* A callback past its check of `fRunning` resubmits after `Stop()` has found
  nothing in flight; a buffer is queued twice (`RxPath.cpp:613`,
  `RxPath.cpp:141`, `RxPath.cpp:197`).
* `TxPath.cpp:620` says no callback fires after `CancelAll()`; a `Transmit()` that
  claimed its slot before submits afterwards.
* `docs/STYLE_GUIDE.md:1285` forbids blocking in a USB callback; the association
  request is transmitted from one (`Device.cpp:4074`), with a wait for a slot and
  possibly a register read.

Registers and commands:

* A completion of an abandoned request satisfies a later bounded wait, so a
  command can be triggered without its payload (`RegisterIO.cpp:445`);
  `RegisterIO.h:142` speaks of "completed or cancelled and reaped", requests are
  abandoned (`RegisterIO.cpp:396`).
* A masked write goes on with the ones of a failed read (`RegisterIO.cpp:242`), and
  failed reads satisfy polls for a set bit (`RegisterIO.cpp:270`).
* Three threads can wait for each other: a sender with the manager's lock for the
  register lock, its owner for a completion, the USB thread for the manager's lock
  (`WiFiManagement.cpp:587` says the bounded write makes this safe).
* The post-association worker's write of the BSSID register can overwrite a
  newer join's (`Device.cpp:5145`, `Device.cpp:3834`).

Lifecycle and bring-up:

* The last `Free()` and `DeviceRemoved()` can both delete a device: `fOpenCount` is
  decremented before the list lock is taken and before `fRemoved` is read
  (`Device.cpp:2655`, against `Driver.cpp:167`). Dropping `~raced` from
  `NoUseAfterDelete` shows it.
* `Close()` of one of two descriptors stops the other (`Device.cpp:2613`).
* A failed firmware load is said to leave the MCU halted (`Device.cpp:431`); the
  cleanup resumes it. The halt is described as bit 12 (`Firmware.cpp:427`) and
  is bit 10.
* The EFUSE reader's comment describes groups of four bytes (`EfuseReader.cpp:215`);
  the code has eight (`EfuseReader.cpp:259`).
* Bring-up does not look at most of its writes. REG_CR (`Device.cpp:807`, `Device.cpp:565`),
  the quotas of the data queues (`Device.cpp:1276`) and the aggregation (`Device.cpp:1124`)
  can keep their old values and `Open()` says B_OK, with the MAC off for one.
* A lost DDMA destination (`Firmware.cpp:725`) puts a block over the one before, and the
  exclusive or of the section is good all the same; so it can be when the write that clears
  the checksum is lost (`Firmware.cpp:712`).
* The write that starts the reading of an EFUSE cell is not checked (`EfuseReader.cpp:196`):
  if it is lost, the ready bit and the byte of the cell before are taken.
* A failed `create_sem` or `spawn_kernel_thread` is logged and `Open()` succeeds without the
  worker (`Device.cpp:621`).

Radio:

* `SetChannel` leaves `fCurrentBand` stale after a failed synthesizer write
  (`PhyConfig.cpp:231`): the next call to the old band does not switch it back.
* A read given up while the width is set detunes a path and `SetChannel` says
  B_OK (`PhyConfig.cpp:936`).
* `_SwitchBand` is said to run with the clocks gated (`PhyConfig.cpp:313`,
  `PhyConfig.h:116`), the code deliberately does not gate them; and to read back
  what landed (`docs/phy-channel-and-band.md`), which it does not.
* `PhyConfig.h:44` and the comment at `PhyConfig.cpp:877` count 9 power groups for 5 GHz,
  the latter with ranges of up to eight channels; the code has 14 of two channels each.
* `Initialize` says B_OK whether or not its power writes landed (`PhyConfig.cpp:857`), and the
  table writes none of those registers: a path can keep what power-on left.
* After the cold start the radio is not quite on the channel the driver believes in: the table
  leaves the width bits of RF 0x18 at ones (`PhyRegTables.h:4704`), where `_SetBandwidth`
  writes zeros (`PhyConfig.cpp:937`); the LNA's RF 0xDF at 1 (`PhyRegTables.h:3460`), where
  `_SwitchBand` writes 0 for 2.4 GHz; and the routing of another class of board
  (`PhyRegTables.h:4342`, `RTL8814AU.h:726`). Registers 0x454 and 0x668, which
  `_SwitchBand` and `_SetBandwidth` write, are not in it. The first switch of band sets all of this.

## 7. Plan

What is left, in this order:

1. An abstract link (`Idle`, `Joining`, `Up`) that `Station`'s join part implements.
2. A composition of `Scan` and `Phy`: the sweep's channel switches as programs.
