------------------------------ MODULE BringUp ------------------------------
(***************************************************************************)
(* Bringing the adapter up: RTL8814AUDevice::_InitHardware (Device.cpp)    *)
(* with the power-on sequence, the EFUSE reader (EfuseReader.cpp), the MAC *)
(* set-up and the firmware loader (Firmware.cpp, and SendFirmwareChunk of  *)
(* TxPath.cpp).                                                            *)
(*                                                                         *)
(* One thread, the one in Open(), drives all of it under the list lock.    *)
(* What makes it hard is the other side of the cable: a register read that *)
(* was given up answers all ones, which half of the polls take for yes; a  *)
(* register write that was given up is lost, and hardly any write is       *)
(* checked; a firmware chunk is acknowledged by one bit that is not the    *)
(* chunk's own; a chunk given up may be parked in the middle of the next   *)
(* attempt; and what Open() leaves behind when it fails is where the next  *)
(* one starts.                                                             *)
(*                                                                         *)
(* The firmware file is a number of blocks for each of two sections.  The  *)
(* checksum the DDMA engine computes is an exclusive or, so what it has    *)
(* accumulated is a set of blocks, and copying a block puts it in or takes *)
(* it out.  A byte of the EFUSE is itself, headers included.               *)
(***************************************************************************)
EXTENDS Naturals, Sequences, FiniteSets

CONSTANTS
  LoadAttempts, \* kFirmwareLoadAttempts
  Chunks,       \* blocks of kFwPageSize bytes in each section of the firmware
  Cells,        \* kEfuseTotalSize: bytes of the physical EFUSE
  MapSize,      \* kEfuseMapSize: bytes of the logical map
  MacAt,        \* kEfuseMacAddr: where the map holds the address
  MacLength,    \* bytes of the address
  Fuses,        \* what may have been burnt into an EFUSE
  MaxOpens,     \* bound: calls of Open() that find the hardware down
  MaxFaults     \* bound: register reads given up with the adapter present and steps in
                \* which writes were lost, before it is unplugged; writes lost in a step

ASSUME BringUpAssumption ==
  /\ LoadAttempts \in Nat \ {0} /\ Chunks \in [{"dmem", "imem"} -> Nat \ {0}]
  /\ Cells \in Nat \ {0} /\ MapSize \in Nat /\ MapSize % 2 = 0
  /\ Fuses \subseteq [0 .. Cells - 1 -> 0 .. 255]
  /\ MacAt \in Nat /\ MacLength \in Nat \ {0} /\ MacAt + MacLength <= MapSize
  /\ MaxOpens \in Nat /\ MaxFaults \in Nat

VARIABLES
  pc,       \* where _InitHardware is
  fuses,    \* the cells of the EFUSE, while it is being read
  efuse,    \* RTL8814AUEfuseReader: fMap, fMapValid and where the decoder is
  mac,      \* fMacAddress: "unset", "fuses" or "random"
  loader,   \* RTL8814AUFirmware and the retry loop around it
  chip,     \* the registers and memories the loader works on
  slot,     \* the transfer SendFirmwareChunk uses
  driver,   \* what a finished bring-up has started
  present,  \* the adapter is plugged in
  opens,    \* calls so far
  blind,    \* register reads given up so far
  lost,     \* steps in which register writes were lost so far, and the registers
            \* that were not given a value afresh since
  leftover  \* a chunk of an earlier attempt was still under way when one began

vars == <<pc, fuses, efuse, mac, loader, chip, slot, driver, present, opens, blind,
          lost, leftover>>

Sections == {"dmem", "imem"}
File(section) == {section} \X (1 .. Chunks[section])
Blocks == UNION {File(section) : section \in Sections}
Junk == <<"junk", 0>>
Unread == [c \in 0 .. Cells - 1 |-> 255]
Blank == [b \in 0 .. MapSize - 1 |-> 255]
Flags == {"DlEn", "DmemOk", "ImemOk", "FwReady", "CpuReady"}
Engines == {"Engines", "Beacon", "MacTx", "MacRx"}

\* What a lost write leaves as it was, each named for the field of chip it is for.
Registers == {"cr", "ctl", "mcu", "pages", "quotas", "boundary", "queues", "agg", "valid",
              "own", "reset", "src", "to", "sum", "bb"}

Init ==
  /\ pc = "idle" /\ opens = 0 /\ blind = 0 /\ present = TRUE /\ leftover = FALSE
  /\ lost = [steps |-> 0, of |-> {}]
  /\ fuses = Unread
  /\ efuse = [addr |-> 0, map |-> Blank, valid |-> FALSE]
  /\ mac = "unset"
  /\ loader = [attempt |-> 1, section |-> "dmem", chunk |-> 1, loaded |-> FALSE, saved |-> {}]
  /\ chip = [cr |-> {}, ctl |-> {}, mcu |-> FALSE, pages |-> FALSE, quotas |-> FALSE,
             boundary |-> FALSE, queues |-> FALSE, agg |-> FALSE,
             valid |-> FALSE, fifo |-> <<>>, parked |-> Junk, own |-> FALSE,
             reset |-> FALSE, src |-> FALSE, to |-> <<"dmem", 1>>, sum |-> {}, bb |-> "reset",
             image |-> [b \in Blocks |-> Junk]]
  /\ slot = [inUse |-> FALSE, queued |-> FALSE, block |-> Junk]
  /\ driver = [up |-> FALSE, rx |-> FALSE, manager |-> FALSE, workers |-> {}]

------------------------------------------------------------------------------
(* The register path.  Read8/16/32 answer all ones when the transfer was   *)
(* given up, whatever the reason, and nobody asks which.  Write8/16/32     *)
(* give up as well, and say so; but bring-up asks for the answer only at   *)
(* the writes that are marked as checked.                                  *)

MayFail == present /\ blind + lost.steps < MaxFaults

Gone == ~present /\ UNCHANGED blind
GivesUp == Gone \/ (MayFail /\ blind' = blind + 1)

\* Registers keep what they had.  Others are given a value afresh, and a loss of
\* theirs before is made good.
Loses(registers, afresh) ==
  /\ MayFail /\ Cardinality(registers) <= MaxFaults
  /\ lost' = [steps |-> lost.steps + 1, of |-> (lost.of \ afresh) \union registers]

Changes(c) == {r \in Registers : c[r] # chip[r]}

\* Of the writes that would make the chip c, those for kept are lost.
Mixed(c, kept) == [f \in DOMAIN chip |-> IF f \in kept THEN chip[f] ELSE c[f]]
Partly(c, kept, afresh) == Loses(kept, afresh) /\ chip' = Mixed(c, kept)

\* Writes that would make the chip c, none of them checked.
Lands(c, afresh) ==
  \/ ~present /\ UNCHANGED <<chip, lost>>
  \/ present /\ chip' = c /\ lost' = [lost EXCEPT !.of = @ \ afresh]
  \/ \E kept \in (SUBSET Changes(c)) \ {{}} : Partly(c, kept, afresh)

\* The one write of a register.
Write(register, c) ==
  \/ ~present /\ UNCHANGED <<chip, lost>>
  \/ present /\ chip' = c /\ UNCHANGED lost
  \/ Loses({register}, {}) /\ UNCHANGED chip

\* _InitHardware returns an error: Open() passes it on.
Fails == pc' = "idle"

------------------------------------------------------------------------------
(* Open(), and _PowerOnSequence, run first and before every further        *)
(* attempt to load the firmware.                                           *)

Open ==
  /\ pc = "idle" /\ ~driver.up /\ opens < MaxOpens
  /\ opens' = opens + 1
  /\ pc' = "power" /\ loader' = [loader EXCEPT !.attempt = 1]
  /\ UNCHANGED <<fuses, efuse, mac, chip, slot, driver, present, blind, lost, leftover>>

\* REG_CR is cleared, read back and written with the DMA, protocol, schedule
\* and security bits added to what was read.  Either write may be lost, the read
\* given up.  Whether the chunks waiting inside the chip survive is the chip's
\* affair.
PowersUp(next, afresh) ==
  \E fifo \in {chip.fifo, <<>>}, cleared, enabled \in BOOLEAN :
    LET was == IF cleared THEN {} ELSE chip.cr
    IN /\ present /\ pc' = next
       /\ IF cleared /\ enabled THEN lost' = [lost EXCEPT !.of = @ \ (afresh \union {"cr"})]
          ELSE Loses({"cr"}, afresh)
       /\ \E read \in {was, Engines} :
            /\ IF read = was THEN UNCHANGED blind ELSE GivesUp
            /\ chip' = [chip EXCEPT !.fifo = fifo,
                                    !.cr = IF enabled THEN read \union {"Engines"} ELSE was]

\* A clock or the power state machine does not come round in time.
PowerFails == Fails /\ UNCHANGED <<chip, blind, lost>>

PowerOn ==
  /\ pc = "power"
  /\ \/ PowersUp("efuse", {"efuse"}) /\ fuses' \in Fuses
     \/ PowerFails /\ UNCHANGED fuses
  /\ efuse' = [addr |-> 0, map |-> Blank, valid |-> FALSE]
  /\ UNCHANGED <<mac, loader, slot, driver, present, opens, leftover>>

PowerOnAgain ==
  /\ pc = "repower"
  /\ \/ PowersUp("load", {}) /\ loader' = [loader EXCEPT !.attempt = @ + 1]
     \/ PowerFails /\ UNCHANGED loader
  /\ UNCHANGED <<fuses, efuse, mac, slot, driver, present, opens, leftover>>

------------------------------------------------------------------------------
(* The EFUSE: a chain of entries, each a header of one or two bytes, a     *)
(* group of four words, and the words its mask does not leave out.         *)

Extended(h) == h % 32 = 15

\* Mutation: two nibbles, high and low, as the comment above _DecodeMap has it.
GroupNibbles(h, h2) == IF Extended(h) THEN 16 * (h \div 16) + (h2 \div 16) ELSE h \div 16

Group(h, h2) == IF Extended(h) THEN (h \div 32) + 8 * (h2 \div 16) ELSE h \div 16
Mask(h, h2) == (IF Extended(h) THEN h2 ELSE h) % 16
Bits == <<1, 2, 4, 8>>
Holds(mask, w) == (mask \div Bits[w + 1]) % 2 = 0

\* The address register has ten bits: past the end the cells start again.  The
\* read of one cell may go wrong, and then bad.byte is what it gives.
Cell(a, bad) == IF a = bad.cell THEN bad.byte ELSE fuses[a % Cells]

\* No cell of any turn has this number.
NotBad == [cell |-> Cells + 10, byte |-> 255]

\* A word that does not fit the map is skipped, cells and all.
ReadWord(at, group, mask, w, bad) ==
  LET target == group * 8 + w * 2
  IN IF ~Holds(mask, w) THEN at
     ELSE [addr |-> at.addr + 2,
           map |-> IF target + 1 >= MapSize THEN at.map
                   ELSE [at.map EXCEPT ![target] = Cell(at.addr, bad),
                                       ![target + 1] = Cell(at.addr + 1, bad)]]

ReadEntry(at, bad) ==
  LET h == Cell(at.addr, bad)
      h2 == Cell(at.addr + 1, bad)
      word(r, w) == ReadWord(r, Group(h, h2), Mask(h, h2), w, bad)
      data == [at EXCEPT !.addr = @ + (IF Extended(h) THEN 2 ELSE 1)]
  IN word(word(word(word(data, 0), 1), 2), 3)

Step(bad) ==
  IF efuse.addr >= Cells \/ Cell(efuse.addr, bad) = 255
  THEN efuse' = [efuse EXCEPT !.valid = TRUE] /\ pc' = "mac"
  ELSE /\ LET r == ReadEntry([addr |-> efuse.addr, map |-> efuse.map], bad)
          IN efuse' = [efuse EXCEPT !.addr = r.addr, !.map = r.map]
       /\ UNCHANGED pc

\* The cells one turn reads.
EntryReads ==
  efuse.addr .. IF efuse.addr >= Cells \/ Cell(efuse.addr, NotBad) = 255 THEN efuse.addr
                ELSE ReadEntry([addr |-> efuse.addr, map |-> efuse.map], NotBad).addr - 1

\* What the EFUSE register holds when it is told to read cell a: a byte read
\* before, of the last time if this is the first.
Stale(a) == {fuses[x % Cells] : x \in IF a = 0 THEN 0 .. Cells - 1 ELSE 0 .. a - 1}

\* One turn of _DecodeMap's loop: all its reads succeed; or a register read is
\* given up, and all ones pass for a ready bit and for the byte; or the write
\* that starts a reading is lost, and the ready bit and the byte are those of the
\* reading before; or a reading times out, which ends the bring-up.
DecodeEntry ==
  /\ pc = "efuse"
  /\ \/ present /\ Step(NotBad) /\ UNCHANGED <<blind, lost>>
     \/ Gone /\ Step([cell |-> efuse.addr, byte |-> 255]) /\ UNCHANGED lost
     \/ /\ present /\ GivesUp /\ UNCHANGED lost
        /\ \E a \in EntryReads : \E byte \in {255} \union Stale(a) : Step([cell |-> a, byte |-> byte])
     \/ /\ Loses({"efuse"}, {}) /\ UNCHANGED blind
        /\ \E a \in EntryReads : \E byte \in Stale(a) : Step([cell |-> a, byte |-> byte])
     \/ /\ Fails /\ efuse' = [addr |-> 0, map |-> Blank, valid |-> FALSE]
        /\ UNCHANGED <<blind, lost>>
  /\ fuses' = IF pc' = "idle" THEN Unread ELSE fuses
  /\ UNCHANGED <<mac, loader, chip, slot, driver, present, opens, leftover>>

\* _ReadMacAddress: an address of all zeros, of all ones or of a group is
\* replaced by a random one.
BadMac(map) ==
  LET bytes == {map[b] : b \in MacAt .. MacAt + MacLength - 1}
  IN bytes = {0} \/ bytes = {255} \/ map[MacAt] % 2 = 1

\* _InitPageAllocation: the pages the loader's queue draws from, those of the
\* other queues, and the boundary of the beacon's.
PagesAllocated(c) == [c EXCEPT !.pages = TRUE, !.quotas = TRUE, !.boundary = TRUE]

\* _InitQueuePriority: which queue a bulk-OUT pipe feeds.
QueuesMapped(c) == [c EXCEPT !.queues = TRUE]

\* _ReadMacAddress and _InitMAC: pages for the transmit queues, the queue to pipe
\* map, and the timing, rate and filter registers, which no property tells apart.
\* Nothing of it is checked, so nothing of it fails, whatever is lost.  What was
\* read of the EFUSE is put out of mind here: nothing further asks for it.
InitMAC ==
  /\ pc = "mac"
  /\ mac' = IF BadMac(efuse.map) THEN "random" ELSE "fuses"
  /\ Lands(QueuesMapped(PagesAllocated(chip)), {"pages", "quotas", "boundary", "queues"})
  /\ pc' = "load"
  /\ fuses' = Unread /\ efuse' = [efuse EXCEPT !.addr = 0, !.map = Blank]
  /\ UNCHANGED <<loader, slot, driver, present, opens, blind, leftover>>

------------------------------------------------------------------------------
(* Load().  A failed attempt restores what it saved, resumes the MCU and   *)
(* leaves download mode; the caller tries again after another power-on.    *)

\* Mutation: the beacon's DMA is left on.
NotRestored(c) == c

Restored(c) == [c EXCEPT !.cr = (@ \ {"Beacon"}) \union loader.saved]

Resumed(c) == [c EXCEPT !.mcu = TRUE, !.ctl = @ \ {"DlEn"}]

MayRetry(attempt) == attempt < LoadAttempts

GiveUpAttempt == pc' = IF MayRetry(loader.attempt) THEN "repower" ELSE "idle"

\* An attempt that fails with the chip c.
FailsWith(c) == Lands(Resumed(Restored(c)), {"mcu"}) /\ GiveUpAttempt

AttemptFails == FailsWith(chip)

\* A driver that has loaded the firmware once does not do it again.
LoadSkipped ==
  /\ pc = "load" /\ loader.loaded
  /\ pc' = "address"
  /\ UNCHANGED <<fuses, efuse, mac, loader, chip, slot, driver, present, opens, blind, lost, leftover>>

\* The file cannot be read or its header does not fit it: nothing was touched.
FileUnusable ==
  /\ pc = "load" /\ ~loader.loaded
  /\ GiveUpAttempt
  /\ UNCHANGED <<fuses, efuse, mac, loader, chip, slot, driver, present, opens, blind, lost, leftover>>

\* Download mode (every flag cleared), the MCU halted, the DDMA engine reset,
\* beacon DMA on, the beacon queue at its boundary and a stale acknowledgement
\* cleared.  The engine forgets in the reset where to copy from.
Prepared(c) ==
  [c EXCEPT !.ctl = {"DlEn"}, !.mcu = FALSE, !.own = FALSE, !.reset = FALSE, !.src = FALSE,
            !.cr = @ \union {"Beacon"}, !.boundary = TRUE, !.valid = FALSE]

\* With an attempt everything about the copying begins afresh.
Begun == {"ctl", "mcu", "own", "reset", "src", "to", "sum", "boundary", "valid"}

\* The write that would release the engine from its reset is lost.
StaysReset ==
  LET c == [Prepared(chip) EXCEPT !.reset = TRUE]
  IN \E kept \in SUBSET (Changes(c) \ {"own", "src", "reset"}) :
       Loses(kept \union {"reset"}, Begun) /\ chip' = Mixed(c, kept)

\* _TransferSection begins at the first block.
SectionBegun(l, section) == [l EXCEPT !.section = section, !.chunk = 1]

\* The write that begins download mode is checked.
BeginLoad ==
  /\ pc = "load" /\ ~loader.loaded
  /\ \/ /\ present /\ (Lands(Prepared(chip), Begun) \/ StaysReset)
        /\ chip'.ctl = {"DlEn"} /\ pc' = "send"
        /\ loader' = [SectionBegun(loader, "dmem") EXCEPT !.saved = chip.cr \intersect {"Beacon"}]
     \/ /\ \/ ~present /\ UNCHANGED <<chip, lost>>
           \/ Loses({"ctl"}, {}) /\ chip' \in {chip, [chip EXCEPT !.ctl = @ \ {"DlEn"}]}
        /\ GiveUpAttempt /\ UNCHANGED loader
  /\ leftover' = (leftover \/ chip.fifo # <<>> \/ slot.queued)
  /\ UNCHANGED <<fuses, efuse, mac, slot, driver, present, opens, blind>>

------------------------------------------------------------------------------
(* SendFirmwareChunk: slot 0 of the first pipe, one second to complete.    *)

Block == <<loader.section, loader.chunk>>

\* What becomes of the slot when queue_bulk refuses the transfer.
Refused(s) == [s EXCEPT !.inUse = FALSE]

Send ==
  /\ pc = "send"
  /\ IF slot.inUse
     THEN AttemptFails /\ UNCHANGED slot
     ELSE \/ /\ slot' = [inUse |-> TRUE, queued |-> TRUE, block |-> Block]
             /\ pc' = "sending" /\ UNCHANGED <<chip, lost>>
          \/ /\ slot' = Refused([slot EXCEPT !.inUse = TRUE])
             /\ AttemptFails
  /\ UNCHANGED <<fuses, efuse, mac, loader, driver, present, opens, blind, leftover>>

\* The chip takes a chunk only into pages of its own, for a queue the pipe feeds,
\* and with the MAC's transmitter off.
Draws == present /\ chip.pages /\ chip.queues /\ "Engines" \in chip.cr /\ "MacTx" \notin chip.cr

\* The transfer completes, or is cancelled: _TxCallback frees the slot.
TransferDone ==
  /\ slot.queued /\ Draws
  /\ slot' = [slot EXCEPT !.inUse = FALSE, !.queued = FALSE]
  /\ chip' = [chip EXCEPT !.fifo = Append(@, slot.block)]
  /\ UNCHANGED <<pc, fuses, efuse, mac, loader, driver, present, opens, blind, lost, leftover>>

TransferCancelled ==
  /\ slot.queued /\ pc # "sending"
  /\ slot' = [slot EXCEPT !.inUse = FALSE, !.queued = FALSE]
  /\ UNCHANGED <<pc, fuses, efuse, mac, loader, chip, driver, present, opens, blind, lost, leftover>>

\* The wait ends by the completion, or after a second by a cancellation whose
\* callback comes in its own time.
Sent ==
  /\ pc = "sending" /\ ~slot.queued
  /\ pc' = "ack"
  /\ UNCHANGED <<fuses, efuse, mac, loader, chip, slot, driver, present, opens, blind, lost, leftover>>

SendTimesOut ==
  /\ pc = "sending" /\ slot.queued
  /\ AttemptFails
  /\ UNCHANGED <<fuses, efuse, mac, loader, slot, driver, present, opens, blind, leftover>>

\* The chip moves a chunk to the reserved page and says so.  With the wrong
\* boundary it goes to another page.
Park ==
  /\ chip.fifo # <<>> /\ present
  /\ chip' = [chip EXCEPT !.fifo = Tail(@), !.valid = TRUE,
                          !.parked = IF chip.boundary THEN Head(chip.fifo) ELSE @]
  /\ UNCHANGED <<pc, fuses, efuse, mac, loader, slot, driver, present, opens, blind, lost, leftover>>

\* Mutation: the poll does not count its turns.
AckNeverOverdue == FALSE

\* The poll stops after its last turn.
AckOverdue == ~chip.valid

\* _WaitForRsvdPageOK.  The bit shares its byte with the boundary, and what was
\* read is written back.
Acknowledged ==
  /\ pc = "ack"
  /\ \/ /\ present /\ chip.valid /\ UNCHANGED blind
        /\ Write("valid", [chip EXCEPT !.valid = FALSE]) /\ pc' = "copy"
     \/ /\ GivesUp /\ pc' = "copy"
        /\ Write("valid", [chip EXCEPT !.valid = FALSE, !.boundary = FALSE])
     \/ AckOverdue /\ AttemptFails /\ UNCHANGED blind
  /\ UNCHANGED <<fuses, efuse, mac, loader, slot, driver, present, opens, leftover>>

------------------------------------------------------------------------------
(* _IDDMATransfer copies what is parked, and adds it to the checksum.      *)

XorIn(sum, block) == (sum \ {block}) \union ({block} \ sum)

\* The source, the destination and the command; the first copy of a section starts
\* the checksum afresh.  With the command lost the engine is as idle as after the
\* copy.  Held in its reset it looks busy.
Commanded(c) ==
  [c EXCEPT !.sum = IF loader.chunk = 1 THEN {} ELSE @, !.src = TRUE, !.to = Block, !.own = TRUE]

StartCopy ==
  /\ pc = "copy"
  /\ IF ~present \/ chip.own \/ chip.reset
     THEN AttemptFails
     ELSE Lands(Commanded(chip), {"own", "src"}) /\ pc' = "copying"
  /\ UNCHANGED <<fuses, efuse, mac, loader, slot, driver, present, opens, blind, leftover>>

\* Without its source address the engine copies from anywhere.
Copy ==
  /\ chip.own /\ present
  /\ LET block == IF chip.src THEN chip.parked ELSE Junk
     IN chip' = [chip EXCEPT !.own = FALSE, !.image[chip.to] = block, !.sum = XorIn(@, block)]
  /\ UNCHANGED <<pc, fuses, efuse, mac, loader, slot, driver, present, opens, blind, lost, leftover>>

Copied ==
  /\ pc = "copying"
  /\ IF ~present \/ chip.own
     THEN AttemptFails /\ UNCHANGED loader
     ELSE /\ UNCHANGED <<chip, lost>>
          /\ IF loader.chunk < Chunks[loader.section]
             THEN pc' = "send" /\ loader' = [loader EXCEPT !.chunk = @ + 1]
             ELSE pc' = "check" /\ UNCHANGED loader
  /\ UNCHANGED <<fuses, efuse, mac, slot, driver, present, opens, blind, leftover>>

\* Mutation: the copies are trusted.
SumTrusted(section) == TRUE

\* The checksum of a section with its trailer is zero.
SumGood(section) == chip.sum = File(section)

OkFlag == [dmem |-> "DmemOk", imem |-> "ImemOk"]

\* A section with a bad checksum has it cleared, and ends the attempt.
CheckSection ==
  /\ pc = "check"
  /\ IF present /\ SumGood(loader.section)
     THEN /\ Write("ctl", [chip EXCEPT !.ctl = @ \union {OkFlag[loader.section]}])
          /\ IF loader.section = "dmem"
             THEN pc' = "send" /\ loader' = SectionBegun(loader, "imem")
             ELSE pc' = "start" /\ UNCHANGED loader
     ELSE FailsWith([chip EXCEPT !.sum = {}]) /\ UNCHANGED loader
  /\ UNCHANGED <<fuses, efuse, mac, slot, driver, present, opens, blind, leftover>>

\* Both checksums good: the MCU is told.
ReadyFlag(ctl) == IF {"DmemOk", "ImemOk"} \subseteq ctl THEN {"FwReady"} ELSE {}

StartFirmware ==
  /\ pc = "start" /\ pc' = "resume"
  /\ Write("ctl", [chip EXCEPT !.ctl = @ \union ReadyFlag(@)])
  /\ UNCHANGED <<fuses, efuse, mac, loader, slot, driver, present, opens, blind, leftover>>

\* The MCU is resumed, and download mode left: this write is checked, and tried
\* once more on the way out.
ResumeFirmware ==
  /\ pc = "resume"
  /\ LET c == Resumed(Restored(chip))
     IN \/ /\ present /\ Lands(c, {"mcu"}) /\ "DlEn" \notin chip'.ctl
           /\ pc' = "ready"
        \/ /\ \/ ~present /\ UNCHANGED <<chip, lost>>
              \/ \E kept \in SUBSET Changes(c) : Partly(c, kept, {"mcu"})
           /\ GiveUpAttempt
  /\ UNCHANGED <<fuses, efuse, mac, loader, slot, driver, present, opens, blind, leftover>>

\* The firmware may come to life, one boot in five it does not.
Boot ==
  /\ present /\ chip.mcu /\ "FwReady" \in chip.ctl /\ "CpuReady" \notin chip.ctl
  /\ chip' = [chip EXCEPT !.ctl = @ \union {"CpuReady"}]
  /\ UNCHANGED <<pc, fuses, efuse, mac, loader, slot, driver, present, opens, blind, lost, leftover>>

PollForReady ==
  /\ pc = "ready"
  /\ \/ /\ present /\ "CpuReady" \in chip.ctl /\ UNCHANGED <<blind, chip, lost>>
        /\ loader' = [loader EXCEPT !.loaded = TRUE] /\ pc' = "address"
     \/ /\ GivesUp /\ UNCHANGED <<chip, lost>>
        /\ loader' = [loader EXCEPT !.loaded = TRUE] /\ pc' = "address"
     \/ /\ present /\ "CpuReady" \notin chip.ctl /\ UNCHANGED <<blind, loader>>
        /\ Write("ctl", [chip EXCEPT !.ctl = @ \ {"DlEn"}]) /\ GiveUpAttempt
  /\ UNCHANGED <<fuses, efuse, mac, slot, driver, present, opens, leftover>>

------------------------------------------------------------------------------
(* The rest of _InitHardware, each step with its own way out.              *)

Proceed(at, next, c, afresh, d) ==
  /\ pc = at
  /\ pc' = next /\ Lands(c, afresh) /\ driver' = d
  /\ UNCHANGED <<fuses, efuse, mac, loader, slot, present, opens, blind, leftover>>

StopHere(at) ==
  /\ pc = at /\ Fails
  /\ UNCHANGED <<fuses, efuse, mac, loader, chip, slot, driver, present, opens, blind, lost, leftover>>

WriteMacAddress == present /\ Proceed("address", "phy", chip, {}, driver)

\* The baseband out of reset, the RF paths on and the pin routing, none of it
\* checked; then the table of PhyConfig::Initialize, every write of which is.  A
\* baseband still in reset drops what the table writes.
InitPhy == present /\ Proceed("phy", "enable", [chip EXCEPT !.bb = "set"], {"bb"}, driver)

\* _InitRxAggregation: without it nothing reaches the bulk-IN pipe.
Aggregating(c) == [c EXCEPT !.agg = TRUE]

\* ... and the MAC's transmitter and receiver at last.
EnableMac ==
  Proceed("enable", "rx", [Aggregating(chip) EXCEPT !.cr = @ \union {"MacTx", "MacRx"}],
          {"agg"}, driver)

\* RxPath::Start and WiFiManager::Start do nothing when they run already.
StartRx == Proceed("rx", "manager", chip, {}, [driver EXCEPT !.rx = TRUE])
StartManager == Proceed("manager", "finish", chip, {}, [driver EXCEPT !.manager = TRUE])

\* The workers that could be created; Open() succeeds without them.
Finish == \E w \in SUBSET {"post_assoc", "eapol"} :
            Proceed("finish", "idle", chip, {}, [driver EXCEPT !.up = TRUE, !.workers = w])

StageFails == \E at \in {"address", "phy", "rx", "manager"} : StopHere(at)

Unplug ==
  /\ MayFail /\ present' = FALSE
  /\ UNCHANGED <<pc, fuses, efuse, mac, loader, chip, slot, driver, opens, blind, lost, leftover>>

Loading ==
  \/ LoadSkipped \/ FileUnusable \/ BeginLoad
  \/ Send \/ Sent \/ SendTimesOut \/ Acknowledged \/ StartCopy \/ Copied
  \/ CheckSection \/ StartFirmware \/ ResumeFirmware \/ PollForReady

OpenThread ==
  \/ PowerOn \/ PowerOnAgain \/ DecodeEntry \/ InitMAC \/ Loading
  \/ WriteMacAddress \/ InitPhy \/ EnableMac \/ StartRx \/ StartManager \/ Finish
  \/ StageFails

Adapter == TransferDone \/ TransferCancelled \/ Park \/ Copy \/ Boot

Next == Open \/ OpenThread \/ Adapter \/ Unplug

Spec == Init /\ [][Next]_vars

\* The thread in Open() is scheduled, and every one of its waits ends by
\* itself.  Nothing is asked of the adapter.
FairSpec == Spec /\ WF_vars(OpenThread)

------------------------------------------------------------------------------
(* Properties.                                                             *)

TypeOK ==
  /\ pc \in {"idle", "power", "repower", "efuse", "mac", "load", "send", "sending", "ack",
             "copy", "copying", "check", "start", "resume", "ready", "address", "phy", "enable",
             "rx", "manager", "finish"}
  /\ efuse.map \in [0 .. MapSize - 1 -> 0 .. 255] /\ efuse.valid \in BOOLEAN
  /\ efuse.addr \in 0 .. Cells + 9
  /\ mac \in {"unset", "fuses", "random"}
  /\ loader.attempt \in 1 .. LoadAttempts /\ loader.loaded \in BOOLEAN
  /\ loader.section \in Sections /\ loader.chunk \in 1 .. Chunks[loader.section]
  /\ loader.saved \subseteq {"Beacon"}
  /\ chip.cr \subseteq Engines /\ chip.ctl \subseteq Flags
  /\ chip.fifo \in Seq(Blocks) /\ chip.parked \in Blocks \union {Junk}
  /\ chip.image \in [Blocks -> Blocks \union {Junk}]
  /\ slot.block \in Blocks \union {Junk}
  /\ opens \in 0 .. MaxOpens /\ blind \in 0 .. MaxFaults
  /\ lost.steps \in 0 .. MaxFaults /\ lost.of \subseteq Registers \union {"efuse"}

\* Once Load() has reported success, every block of the file is in the chip
\* exactly once, whatever acknowledgement was late or misread, and whatever write
\* was lost but that of a destination or the one that clears the checksum, which
\* the checksum cannot tell; and it is in its place, unless an attempt began with
\* a chunk of an earlier one still under way or an acknowledgement was not
\* cleared: two blocks that changed places have the same checksum.
LoadedImageWhole ==
  loader.loaded /\ lost.of \intersect {"sum", "to"} = {} =>
    /\ \A s \in Sections : {chip.image[b] : b \in File(s)} = File(s)
    /\ ~leftover /\ "valid" \notin lost.of => chip.image = [b \in Blocks |-> b]

\* An Open() that succeeded without a read being given up left a chip whose
\* firmware said it runs, with its MCU on and out of download mode, and with pages
\* and a pipe for the loader's queue, whatever writes were lost; with its MAC on,
\* its other queues and aggregation set up and its baseband out of reset, but for
\* the register whose own last write was lost; and with both input paths started.
\* No refused, late or cancelled chunk has left the loader's transfer slot taken,
\* which the management frames of the pipe need.
UpMeansReady ==
  driver.up /\ pc = "idle" /\ blind = 0 /\ present =>
    /\ chip.mcu /\ "CpuReady" \in chip.ctl /\ "DlEn" \notin chip.ctl
    /\ chip.pages /\ chip.queues
    /\ "cr" \notin lost.of => chip.cr = {"Engines", "MacTx", "MacRx"}
    /\ "quotas" \notin lost.of => chip.quotas
    /\ "agg" \notin lost.of => chip.agg
    /\ "bb" \notin lost.of => chip.bb = "set"
    /\ driver.rx /\ driver.manager /\ mac # "unset"
    /\ slot.inUse => slot.queued

\* What the format says, without the decoder's walk: the entries start at
\* cell 0 and one behind the other until an unburnt header, and a byte of the
\* map is the one of the last entry that carries it.
Header2(a) == fuses[(a + 1) % Cells]
Long(a) == fuses[a] % 32 = 15
MaskAt(a) == IF Long(a) THEN Header2(a) % 16 ELSE fuses[a] % 16
WordsAt(a) == CHOOSE ws \in SUBSET {0, 1, 2, 3} :
                LET worth(w, n) == IF w \in ws THEN n ELSE 0
                IN worth(0, 1) + worth(1, 2) + worth(2, 4) + worth(3, 8) + MaskAt(a) = 15
GroupAt(a) == IF Long(a) THEN fuses[a] \div 32 + (Header2(a) \div 16) * 8
              ELSE fuses[a] \div 16
DataAt(a) == IF Long(a) THEN a + 2 ELSE a + 1
Behind(a) == DataAt(a) + 2 * Cardinality(WordsAt(a))

Burnt(a) == a < Cells /\ fuses[a] # 255

\* A burnt header begins an entry if, and only if, it is the first or stands
\* behind one.
IsChain(starts) ==
  \A a \in 0 .. Cells - 1 :
    a \in starts <=> Burnt(a) /\ (a = 0 \/ \E p \in starts : Behind(p) = a)
EntryStarts == CHOOSE starts \in SUBSET (0 .. Cells - 1) : IsChain(starts)

Carries(a, b) == b \div 8 = GroupAt(a) /\ (b % 8) \div 2 \in WordsAt(a)
Carried(a, b) ==
  LET before == Cardinality({w \in WordsAt(a) : w < (b % 8) \div 2})
  IN fuses[(DataAt(a) + 2 * before + (b % 2)) % Cells]
MapOf(starts) ==
  [b \in 0 .. MapSize - 1 |->
    LET with == {a \in starts : Carries(a, b)}
    IN IF with = {} THEN 255
       ELSE Carried(CHOOSE a \in with : \A x \in with : x <= a, b)]
MapOfFuses == MapOf(EntryStarts)

\* A map the decoder calls valid is what the cells say, unless a read was given up
\* or the write that starts a reading was lost.
MapIsTheFuses ==
  pc = "mac" /\ blind = 0 /\ "efuse" \notin lost.of /\ present => efuse.map = MapOfFuses

\* Every Open() comes back, whatever the adapter does: each wait has an end
\* and there are only so many attempts.
BringUpEnds == pc # "idle" ~> pc = "idle"
=============================================================================
