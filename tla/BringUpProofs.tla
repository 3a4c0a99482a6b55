--------------------------- MODULE BringUpProofs ---------------------------
(* Theorems about BringUp, for any number of blocks, attempts and calls of     *)
(* Open(), of reads given up and of writes lost, any size of EFUSE and map,    *)
(* and any EFUSE.                                                              *)
EXTENDS BringUp, FiniteSetTheorems, WellFoundedInduction, TLAPS

-----------------------------------------------------------------------------
(* Types.                                                                    *)

MapValues == [0 .. MapSize - 1 -> 0 .. 255]
FuseValues == [0 .. Cells - 1 -> 0 .. 255]
Held == Blocks \union {Junk}

ChipValues ==
  [cr : SUBSET Engines, ctl : SUBSET Flags, mcu : BOOLEAN, pages : BOOLEAN,
   quotas : BOOLEAN, boundary : BOOLEAN, queues : BOOLEAN, agg : BOOLEAN, valid : BOOLEAN,
   fifo : Seq(Blocks), parked : Held, own : BOOLEAN, reset : BOOLEAN, src : BOOLEAN,
   to : Blocks, sum : SUBSET Held, bb : {"reset", "set"}, image : [Blocks -> Held]]

LostValues == [steps : 0 .. MaxFaults, of : SUBSET (Registers \union {"efuse"})]

LoaderValues ==
  [attempt : 1 .. LoadAttempts, section : Sections, chunk : Nat \ {0}, loaded : BOOLEAN,
   saved : SUBSET {"Beacon"}]

SlotValues == [inUse : BOOLEAN, queued : BOOLEAN, block : Held]

DriverValues == [up : BOOLEAN, rx : BOOLEAN, manager : BOOLEAN,
                 workers : SUBSET {"post_assoc", "eapol"}]

EfuseValues == [addr : 0 .. Cells + 9, map : MapValues, valid : BOOLEAN]

SendingPcs == {"send", "sending", "ack", "copy", "copying", "check", "start",
                "resume"}
LatePcs == {"address", "phy", "enable", "rx", "manager", "finish"}
Pcs == {"idle", "power", "repower", "efuse", "mac", "load", "ready"}
         \union SendingPcs \union LatePcs

\* TypeOK, with what a step needs of it: the records are whole, a queued
\* transfer carries a block, and a further attempt is one there may be.
TypeInv ==
  /\ pc \in Pcs
  /\ fuses \in FuseValues /\ efuse \in EfuseValues
  /\ mac \in {"unset", "fuses", "random"}
  /\ loader \in LoaderValues /\ loader.chunk <= Chunks[loader.section]
  /\ pc = "repower" => MayRetry(loader.attempt)
  /\ chip \in ChipValues
  /\ slot \in SlotValues
  /\ slot.queued => slot.block \in Blocks
  /\ driver \in DriverValues
  /\ present \in BOOLEAN /\ leftover \in BOOLEAN
  /\ opens \in 0 .. MaxOpens /\ blind \in 0 .. MaxFaults
  /\ lost \in LostValues

\* A block of the file is named by its section and its number in it.
LEMMA FileBlocks ==
  /\ \A s \in Sections : \A n \in 1 .. Chunks[s] : <<s, n>> \in File(s) /\ <<s, n>> \in Blocks
  /\ \A s \in Sections : Chunks[s] \in Nat \ {0} /\ File(s) \subseteq Blocks
<1>1. \A s \in Sections : Chunks[s] \in Nat \ {0}
  BY BringUpAssumption DEF BringUpAssumption, Sections
<1>2. \A s \in Sections : File(s) \subseteq Blocks
  BY DEF Blocks
<1>3. \A s \in Sections : \A n \in 1 .. Chunks[s] : <<s, n>> \in File(s)
  BY DEF File
<1> QED
  BY <1>1, <1>2, <1>3

\* The loader at the first block of a section.
LEMMA AtFirstBlock ==
  ASSUME NEW l \in LoaderValues, NEW s \in Sections
  PROVE  /\ SectionBegun(l, s) \in LoaderValues
         /\ SectionBegun(l, s).section = s /\ SectionBegun(l, s).chunk = 1
         /\ SectionBegun(l, s).chunk <= Chunks[s]
         /\ SectionBegun(l, s).loaded = l.loaded /\ SectionBegun(l, s).attempt = l.attempt
         /\ SectionBegun(l, s).saved = l.saved
<1> DEFINE a == [l EXCEPT !.section = s]
           b == [a EXCEPT !.chunk = 1]
<1>1. LoadAttempts \in Nat /\ 1 <= Chunks[s]
  BY BringUpAssumption, FileBlocks DEF BringUpAssumption
<1>2. a \in LoaderValues
  BY <1>1 DEF LoaderValues
<1>3. a.section = s /\ a.attempt = l.attempt /\ a.loaded = l.loaded /\ a.saved = l.saved
  BY DEF LoaderValues
<1>4. SectionBegun(l, s) = b
  BY DEF SectionBegun
<1> HIDE DEF a
<1>5. b \in LoaderValues
  BY <1>1, <1>2 DEF LoaderValues
<1>6. /\ b.chunk = 1 /\ b.section = a.section /\ b.attempt = a.attempt
      /\ b.loaded = a.loaded /\ b.saved = a.saved
  BY <1>2 DEF LoaderValues
<1> HIDE DEF b
<1> QED
  BY <1>1, <1>3, <1>4, <1>5, <1>6

LEMMA BlockIsBlock ==
  ASSUME loader \in LoaderValues, loader.chunk <= Chunks[loader.section]
  PROVE  Block \in File(loader.section) /\ Block \in Blocks
BY FileBlocks DEF Block, LoaderValues

\* What the steps of the loader make of the chip is a chip.
LEMMA ChipSteps ==
  ASSUME NEW c \in ChipValues, loader \in LoaderValues
  PROVE  /\ PagesAllocated(c) \in ChipValues /\ QueuesMapped(c) \in ChipValues
         /\ Aggregating(c) \in ChipValues
         /\ Restored(c) \in ChipValues /\ Resumed(c) \in ChipValues
         /\ Prepared(c) \in ChipValues
<1>1. PagesAllocated(c) \in ChipValues /\ QueuesMapped(c) \in ChipValues
      /\ Aggregating(c) \in ChipValues
  BY DEF PagesAllocated, QueuesMapped, Aggregating, ChipValues
<1>2. Restored(c) \in ChipValues
  <2>1. loader.saved \subseteq Engines
    BY DEF LoaderValues, Engines
  <2>2. (c.cr \ {"Beacon"}) \union loader.saved \in SUBSET Engines
    BY <2>1 DEF ChipValues
  <2> QED
    BY <2>2 DEF Restored, ChipValues
<1>3. Resumed(c) \in ChipValues
  BY DEF Resumed, ChipValues
<1>4. Prepared(c) \in ChipValues
  <2>1. c.cr \union {"Beacon"} \in SUBSET Engines /\ {"DlEn"} \in SUBSET Flags
    BY DEF ChipValues, Engines, Flags
  <2> QED
    BY <2>1 DEF Prepared, ChipValues
<1> QED
  BY <1>1, <1>2, <1>3, <1>4

\* Writes of which some are lost: each register has what it was given or what it
\* had, and the rest of the chip is as meant.
LEMMA MixedChip ==
  ASSUME NEW c \in ChipValues, chip \in ChipValues, NEW kept \in SUBSET Registers
  PROVE  /\ Mixed(c, kept) \in ChipValues
         /\ \A r \in Registers : Mixed(c, kept)[r] = IF r \in kept THEN chip[r] ELSE c[r]
         /\ Mixed(c, kept).fifo = c.fifo /\ Mixed(c, kept).parked = c.parked
         /\ Mixed(c, kept).image = c.image
<1>1. DOMAIN chip = Registers \union {"fifo", "parked", "image"}
  BY DEF ChipValues, Registers
<1>2. \A f \in Registers \union {"fifo", "parked", "image"} :
        Mixed(c, kept)[f] = IF f \in kept THEN chip[f] ELSE c[f]
  BY <1>1 DEF Mixed
<1>3. Mixed(c, kept).fifo = c.fifo /\ Mixed(c, kept).parked = c.parked
      /\ Mixed(c, kept).image = c.image
  BY <1>2 DEF Registers
<1>4. Mixed(c, kept) \in ChipValues
  BY <1>1 DEF ChipValues, Mixed, Registers
<1> QED
  BY <1>2, <1>3, <1>4

\* A register has the value of c or, with its write lost, the one it had.
Gives(c) ==
  /\ \A r \in Registers : chip'[r] = c[r] \/ (chip'[r] = chip[r] /\ r \in lost'.of)
  /\ chip'.fifo = c.fifo /\ chip'.parked = c.parked /\ chip'.image = c.image

LEMMA LosesType ==
  ASSUME TypeInv, NEW registers \in SUBSET (Registers \union {"efuse"}), NEW afresh,
         Loses(registers, afresh)
  PROVE  /\ present /\ lost' \in LostValues
         /\ lost.of \ afresh \subseteq lost'.of /\ registers \subseteq lost'.of
<1>1. lost.steps \in Nat /\ lost.steps + 1 <= MaxFaults
  BY BringUpAssumption DEF TypeInv, LostValues, Loses, MayFail, BringUpAssumption
<1> QED
  BY <1>1, BringUpAssumption DEF TypeInv, LostValues, Loses, MayFail, BringUpAssumption

LEMMA PartlyType ==
  ASSUME TypeInv, NEW c \in ChipValues, NEW kept \in SUBSET Registers, NEW afresh,
         Partly(c, kept, afresh)
  PROVE  /\ present /\ chip' \in ChipValues /\ lost' \in LostValues
         /\ Gives(c) /\ lost.of \ afresh \subseteq lost'.of /\ kept \subseteq lost'.of
<1>1. Loses(kept, afresh) /\ chip' = Mixed(c, kept)
  BY DEF Partly
<1>2. present /\ lost' \in LostValues /\ lost.of \ afresh \subseteq lost'.of /\ kept \subseteq lost'.of
  BY <1>1, LosesType
<1>3. /\ Mixed(c, kept) \in ChipValues
      /\ \A r \in Registers : Mixed(c, kept)[r] = IF r \in kept THEN chip[r] ELSE c[r]
      /\ Mixed(c, kept).fifo = c.fifo /\ Mixed(c, kept).parked = c.parked
      /\ Mixed(c, kept).image = c.image
  BY MixedChip DEF TypeInv
<1> QED
  BY <1>1, <1>2, <1>3 DEF Gives

\* What unchecked writes leave, the adapter there or not.
LEMMA LandsType ==
  ASSUME TypeInv, NEW c \in ChipValues, NEW afresh, Lands(c, afresh)
  PROVE  /\ chip' \in ChipValues /\ lost' \in LostValues
         /\ \/ ~present /\ UNCHANGED <<chip, lost>>
            \/ present /\ Gives(c) /\ lost.of \ afresh \subseteq lost'.of
<1>1. CASE ~present /\ UNCHANGED <<chip, lost>>
  BY <1>1 DEF TypeInv
<1>2. CASE present /\ chip' = c /\ lost' = [lost EXCEPT !.of = @ \ afresh]
  <2>1. lost' \in LostValues /\ lost'.of = lost.of \ afresh
    BY <1>2 DEF TypeInv, LostValues
  <2> QED
    BY <1>2, <2>1 DEF Gives
<1>3. CASE \E kept \in (SUBSET Changes(c)) \ {{}} : Partly(c, kept, afresh)
  <2>1. PICK kept \in SUBSET Registers : Partly(c, kept, afresh)
    BY <1>3 DEF Changes
  <2> QED
    BY <2>1, PartlyType
<1> QED
  BY <1>1, <1>2, <1>3 DEF Lands

\* ... and what the write of one register leaves.
LEMMA WriteType ==
  ASSUME TypeInv, NEW c \in ChipValues, NEW register \in Registers, Write(register, c)
  PROVE  /\ chip' \in ChipValues /\ lost' \in LostValues /\ lost.of \subseteq lost'.of
         /\ \/ UNCHANGED chip /\ (present => register \in lost'.of)
            \/ present /\ chip' = c
<1>1. CASE Loses({register}, {}) /\ UNCHANGED chip
  <2>1. {register} \in SUBSET (Registers \union {"efuse"})
    OBVIOUS
  <2>2. lost' \in LostValues /\ lost.of \ {} \subseteq lost'.of /\ {register} \subseteq lost'.of
    BY <1>1, <2>1, LosesType
  <2> QED
    BY <1>1, <2>2 DEF TypeInv
<1> QED
  BY <1>1 DEF Write, TypeInv

LEMMA StaysResetType ==
  ASSUME TypeInv, StaysReset
  PROVE  /\ present /\ chip' \in ChipValues /\ lost' \in LostValues
         /\ Gives([Prepared(chip) EXCEPT !.reset = TRUE])
         /\ lost.of \ Begun \subseteq lost'.of
<1> DEFINE c == [Prepared(chip) EXCEPT !.reset = TRUE]
<1>1. c \in ChipValues
  <2>1. Prepared(chip) \in ChipValues
    BY ChipSteps DEF TypeInv
  <2> QED
    BY <2>1 DEF ChipValues
<1> HIDE DEF c
<1>2. PICK kept \in SUBSET (Registers \ {"own", "src", "reset"}) :
        Loses(kept \union {"reset"}, Begun) /\ chip' = Mixed(c, kept)
  BY DEF StaysReset, Changes, c
<1>3. kept \union {"reset"} \in SUBSET (Registers \union {"efuse"})
  BY <1>2 DEF Registers
<1>4. /\ present /\ lost' \in LostValues /\ lost.of \ Begun \subseteq lost'.of
      /\ kept \union {"reset"} \subseteq lost'.of
  BY <1>2, <1>3, LosesType
<1>5. /\ Mixed(c, kept) \in ChipValues
      /\ \A r \in Registers : Mixed(c, kept)[r] = IF r \in kept THEN chip[r] ELSE c[r]
      /\ Mixed(c, kept).fifo = c.fifo /\ Mixed(c, kept).parked = c.parked
      /\ Mixed(c, kept).image = c.image
  <2>1. kept \in SUBSET Registers
    OBVIOUS
  <2> QED
    BY <1>1, <2>1, MixedChip DEF TypeInv
<1> QED
  BY <1>2, <1>4, <1>5 DEF Gives, c

-----------------------------------------------------------------------------
(* One turn of the EFUSE decoder.                                            *)

Reads == [addr : Nat, map : MapValues]

\* Which cell may be read wrong, and the byte it then gives.
WrongReads == [cell : Nat, byte : 0 .. 255]

LEMMA CellByte ==
  ASSUME fuses \in FuseValues, NEW a \in Nat, NEW bad \in WrongReads
  PROVE  Cell(a, bad) \in 0 .. 255
<1>1. a % Cells \in 0 .. Cells - 1
  BY BringUpAssumption DEF BringUpAssumption
<1> QED
  BY <1>1 DEF Cell, FuseValues, WrongReads

LEMMA ReadWordType ==
  ASSUME fuses \in FuseValues, NEW at \in Reads, NEW group \in Nat, NEW mask, NEW w \in 0 .. 3,
         NEW bad \in WrongReads
  PROVE  LET r == ReadWord(at, group, mask, w, bad)
         IN r \in Reads /\ at.addr <= r.addr /\ r.addr <= at.addr + 2
<1> DEFINE x == Cell(at.addr, bad)
           y == Cell(at.addr + 1, bad)
<1>1. x \in 0 .. 255 /\ y \in 0 .. 255
  BY CellByte DEF Reads
<1> HIDE DEF x, y
<1>2. \A t \in Nat : [at.map EXCEPT ![t] = x, ![t + 1] = y] \in MapValues
  BY <1>1 DEF Reads, MapValues
<1>3. group * 8 + w * 2 \in Nat
  OBVIOUS
<1>4. at.addr \in Nat /\ at.map \in MapValues
  BY DEF Reads
<1>5. CASE ~Holds(mask, w)
  BY <1>4, <1>5 DEF ReadWord
<1>6. CASE Holds(mask, w) /\ group * 8 + w * 2 + 1 >= MapSize
  BY <1>4, <1>6 DEF ReadWord, Reads
<1>7. CASE Holds(mask, w) /\ ~(group * 8 + w * 2 + 1 >= MapSize)
  <2>1. ReadWord(at, group, mask, w, bad) =
          [addr |-> at.addr + 2,
           map |-> [at.map EXCEPT ![group * 8 + w * 2] = x, ![group * 8 + w * 2 + 1] = y]]
    BY <1>7 DEF ReadWord, x, y
  <2> QED
    BY <2>1, <1>2, <1>3, <1>4 DEF Reads
<1> QED
  BY <1>5, <1>6, <1>7

LEMMA GroupNat ==
  ASSUME NEW h \in 0 .. 255, NEW h2 \in 0 .. 255
  PROVE  Group(h, h2) \in Nat /\ Mask(h, h2) \in 0 .. 15
BY DEF Group, Mask

LEMMA ReadEntryType ==
  ASSUME fuses \in FuseValues, NEW at \in Reads, NEW bad \in WrongReads
  PROVE  LET r == ReadEntry(at, bad)
         IN r \in Reads /\ at.addr < r.addr /\ r.addr <= at.addr + 10
<1> DEFINE h == Cell(at.addr, bad)
           h2 == Cell(at.addr + 1, bad)
           word(r, w) == ReadWord(r, Group(h, h2), Mask(h, h2), w, bad)
           r0 == [at EXCEPT !.addr = @ + (IF Extended(h) THEN 2 ELSE 1)]
           r1 == word(r0, 0)
           r2 == word(r1, 1)
           r3 == word(r2, 2)
           r4 == word(r3, 3)
<1>1. h \in 0 .. 255 /\ h2 \in 0 .. 255
  <2>1. at.addr \in Nat /\ at.addr + 1 \in Nat
    BY DEF Reads
  <2> QED
    BY <2>1, CellByte, Zenon
<1>2. Group(h, h2) \in Nat
  <2> HIDE DEF h, h2
  <2> QED
    BY <1>1, GroupNat, Zenon
<1>3. r0 \in Reads /\ at.addr < r0.addr /\ r0.addr <= at.addr + 2
  <2> HIDE DEF h
  <2> QED
    BY DEF Reads
<1> HIDE DEF h, h2, r0
<1>9. \A r \in Reads : \A w \in 0 .. 3 :
        word(r, w) \in Reads /\ r.addr <= word(r, w).addr /\ word(r, w).addr <= r.addr + 2
  BY <1>2, ReadWordType
<1>4. r1 \in Reads /\ r0.addr <= r1.addr /\ r1.addr <= r0.addr + 2
  BY <1>3, <1>9
<1> HIDE DEF r1
<1>5. r2 \in Reads /\ r1.addr <= r2.addr /\ r2.addr <= r1.addr + 2
  BY <1>4, <1>9
<1> HIDE DEF r2
<1>6. r3 \in Reads /\ r2.addr <= r3.addr /\ r3.addr <= r2.addr + 2
  BY <1>5, <1>9
<1> HIDE DEF r3
<1>7. r4 \in Reads /\ r3.addr <= r4.addr /\ r4.addr <= r3.addr + 2
  BY <1>6, <1>9
<1>8. ReadEntry(at, bad) = r4
  BY DEF ReadEntry, h, h2, r0, r1, r2, r3
<1> HIDE DEF r4
<1> QED
  BY <1>3, <1>4, <1>5, <1>6, <1>7, <1>8 DEF Reads

\* A turn leaves the decoder at most nine cells past the end.
LEMMA StepType ==
  ASSUME TypeInv, NEW bad \in WrongReads, Step(bad)
  PROVE  efuse' \in EfuseValues /\ pc' \in {pc, "mac"}
<1>1. CASE efuse.addr >= Cells \/ Cell(efuse.addr, bad) = 255
  <2>1. efuse' = [efuse EXCEPT !.valid = TRUE] /\ pc' = "mac"
    BY <1>1 DEF Step
  <2> QED
    BY <2>1 DEF TypeInv, EfuseValues
<1>2. CASE ~(efuse.addr >= Cells \/ Cell(efuse.addr, bad) = 255)
  <2> DEFINE at == [addr |-> efuse.addr, map |-> efuse.map]
             r == ReadEntry(at, bad)
  <2>1. at \in Reads /\ at.addr < Cells /\ Cells \in Nat
    BY <1>2, BringUpAssumption DEF TypeInv, EfuseValues, Reads, BringUpAssumption
  <2>2. r \in Reads /\ at.addr < r.addr /\ r.addr <= at.addr + 10
    BY <2>1, ReadEntryType DEF TypeInv
  <2>3. efuse' = [efuse EXCEPT !.addr = r.addr, !.map = r.map] /\ pc' = pc
    BY <1>2 DEF Step
  <2> HIDE DEF r
  <2>4. r.addr \in 0 .. Cells + 9 /\ r.map \in MapValues
    BY <2>1, <2>2 DEF Reads
  <2> QED
    BY <2>3, <2>4 DEF TypeInv, EfuseValues
<1> QED
  BY <1>1, <1>2

LEMMA NotBadReads == NotBad \in WrongReads
BY BringUpAssumption DEF NotBad, WrongReads, BringUpAssumption

\* A wrong byte is all ones or a byte read before.
LEMMA StaleBytes ==
  ASSUME TypeInv, NEW a \in EntryReads
  PROVE  a \in Nat /\ Stale(a) \subseteq 0 .. 255
<1>1. a \in Nat
  <2> DEFINE at == [addr |-> efuse.addr, map |-> efuse.map]
  <2>1. at \in Reads /\ efuse.addr \in Nat
    BY BringUpAssumption DEF TypeInv, EfuseValues, Reads, BringUpAssumption
  <2>2. ReadEntry(at, NotBad) \in Reads
    BY <2>1, NotBadReads, ReadEntryType DEF TypeInv
  <2>3. ReadEntry(at, NotBad).addr \in Nat
    BY <2>2 DEF Reads
  <2> QED
    BY <2>1, <2>3, BringUpAssumption DEF EntryReads, BringUpAssumption
<1>2. \A x \in Nat : fuses[x % Cells] \in 0 .. 255
  <2>1. \A x \in Nat : x % Cells \in 0 .. Cells - 1
    BY BringUpAssumption DEF BringUpAssumption
  <2>2. fuses \in [0 .. Cells - 1 -> 0 .. 255]
    BY DEF TypeInv, FuseValues
  <2> QED
    BY <2>1, <2>2
<1>3. \A x \in 0 .. Cells - 1 : x \in Nat
  BY BringUpAssumption DEF BringUpAssumption
<1> QED
  BY <1>1, <1>2, <1>3 DEF Stale

-----------------------------------------------------------------------------
(* Every step keeps the types.                                               *)

LEMMA InitType == Init => TypeInv
<1> SUFFICES ASSUME Init PROVE TypeInv
  OBVIOUS
<1> USE DEF Init
<1>1. fuses \in FuseValues /\ efuse \in EfuseValues
  <2>1. Unread \in FuseValues /\ Blank \in MapValues
    BY DEF Unread, FuseValues, Blank, MapValues
  <2> QED
    BY <2>1, BringUpAssumption DEF EfuseValues, BringUpAssumption
<1>2. loader \in LoaderValues /\ loader.chunk <= Chunks[loader.section]
  BY BringUpAssumption, FileBlocks DEF LoaderValues, BringUpAssumption, Sections
<1>3. chip \in ChipValues
  <2>1. <<"dmem", 1>> \in Blocks
    BY FileBlocks DEF Sections
  <2>2. [b \in Blocks |-> Junk] \in [Blocks -> Held] /\ Junk \in Held
    BY DEF Held
  <2>3. <<>> \in Seq(Blocks)
    OBVIOUS
  <2> QED
    BY <2>1, <2>2, <2>3 DEF ChipValues
<1>4. slot \in SlotValues /\ ~slot.queued /\ driver \in DriverValues
  BY DEF SlotValues, DriverValues, Held
<1>5. pc \in Pcs /\ pc # "repower" /\ present \in BOOLEAN /\ leftover \in BOOLEAN
  BY DEF Pcs
<1>6. opens \in 0 .. MaxOpens /\ blind \in 0 .. MaxFaults
  BY BringUpAssumption DEF BringUpAssumption
<1>7. lost \in LostValues
  BY BringUpAssumption DEF LostValues, BringUpAssumption
<1> QED
  BY <1>1, <1>2, <1>3, <1>4, <1>5, <1>6, <1>7 DEF TypeInv

\* A read is given up within the bound, or for want of an adapter.
LEMMA BlindType ==
  ASSUME TypeInv, GivesUp \/ UNCHANGED blind
  PROVE  blind' \in 0 .. MaxFaults /\ blind <= blind'
BY BringUpAssumption DEF BringUpAssumption, TypeInv, GivesUp, Gone, MayFail, LostValues

\* A failed attempt leaves a chip, and another one only if there may be one.
LEMMA FailsWithType ==
  ASSUME TypeInv, NEW c \in ChipValues, FailsWith(c)
  PROVE  /\ chip' \in ChipValues /\ lost' \in LostValues /\ pc' \in {"repower", "idle"}
         /\ pc' = "repower" => MayRetry(loader.attempt)
         /\ \/ ~present /\ UNCHANGED <<chip, lost>>
            \/ present /\ Gives(Resumed(Restored(c))) /\ lost.of \ {"mcu"} \subseteq lost'.of
<1>1. Resumed(Restored(c)) \in ChipValues
  <2>1. Restored(c) \in ChipValues
    BY ChipSteps DEF TypeInv
  <2> QED
    BY <2>1, ChipSteps DEF TypeInv
<1>2. Lands(Resumed(Restored(c)), {"mcu"})
  BY DEF FailsWith
<1>3. pc' \in {"repower", "idle"} /\ (pc' = "repower" => MayRetry(loader.attempt))
  BY DEF FailsWith, GiveUpAttempt
<1> QED
  BY <1>1, <1>2, <1>3, LandsType

LEMMA AttemptFailsType ==
  ASSUME TypeInv, AttemptFails
  PROVE  /\ chip' \in ChipValues /\ lost' \in LostValues /\ pc' \in {"repower", "idle"}
         /\ pc' = "repower" => MayRetry(loader.attempt)
         /\ \/ ~present /\ UNCHANGED <<chip, lost>>
            \/ present /\ Gives(Resumed(Restored(chip))) /\ lost.of \ {"mcu"} \subseteq lost'.of
<1>1. chip \in ChipValues /\ FailsWith(chip)
  BY DEF AttemptFails, TypeInv
<1> QED
  BY <1>1, FailsWithType

\* A power-on leaves a chip whose queued chunks are kept or dropped.
LEMMA PowersUpType ==
  ASSUME TypeInv, NEW next, NEW afresh, PowersUp(next, afresh)
  PROVE  /\ present /\ chip' \in ChipValues /\ lost' \in LostValues
         /\ blind' \in 0 .. MaxFaults /\ blind <= blind' /\ pc' = next
         /\ lost.of \ (afresh \union {"cr"}) \subseteq lost'.of
         /\ \A r \in Registers \ {"cr"} : chip'[r] = chip[r]
         /\ chip'.parked = chip.parked /\ chip'.image = chip.image
         /\ chip'.fifo = chip.fifo \/ chip'.fifo = <<>>
         /\ blind' = blind /\ "cr" \notin lost'.of => chip'.cr = {"Engines"}
<1>0. present /\ pc' = next
  BY DEF PowersUp
<1>1. PICK fifo \in {chip.fifo, <<>>}, cleared, enabled \in BOOLEAN :
        /\ IF cleared /\ enabled THEN lost' = [lost EXCEPT !.of = @ \ (afresh \union {"cr"})]
           ELSE Loses({"cr"}, afresh)
        /\ \E read \in {IF cleared THEN {} ELSE chip.cr, Engines} :
             /\ IF read = (IF cleared THEN {} ELSE chip.cr) THEN UNCHANGED blind ELSE GivesUp
             /\ chip' = [chip EXCEPT !.fifo = fifo,
                           !.cr = IF enabled THEN read \union {"Engines"}
                                  ELSE IF cleared THEN {} ELSE chip.cr]
  BY Zenon DEF PowersUp
<1> DEFINE was == IF cleared THEN {} ELSE chip.cr
<1>2. PICK read \in {was, Engines} :
        /\ IF read = was THEN UNCHANGED blind ELSE GivesUp
        /\ chip' = [chip EXCEPT !.fifo = fifo, !.cr = IF enabled THEN read \union {"Engines"} ELSE was]
  BY <1>1
<1>3. fifo \in Seq(Blocks) /\ was \in SUBSET Engines /\ read \union {"Engines"} \in SUBSET Engines
  <2>1. chip.fifo \in Seq(Blocks) /\ <<>> \in Seq(Blocks) /\ chip.cr \in SUBSET Engines
    BY DEF TypeInv, ChipValues
  <2>2. {"Engines"} \subseteq Engines
    BY DEF Engines
  <2> QED
    BY <2>1, <2>2
<1> DEFINE cr == IF enabled THEN read \union {"Engines"} ELSE was
<1>4. cr \in SUBSET Engines
  BY <1>3
<1>5. blind' \in 0 .. MaxFaults /\ blind <= blind'
  BY <1>2, BlindType DEF TypeInv
<1>6. chip' = [chip EXCEPT !.fifo = fifo, !.cr = cr]
  BY <1>2
<1>7. cleared /\ enabled /\ blind' = blind => cr = {"Engines"}
  <2>1. blind' = blind => read = was
    BY <1>2, BringUpAssumption DEF GivesUp, Gone, PowersUp, TypeInv, BringUpAssumption
  <2> QED
    BY <2>1
<1> HIDE DEF cr, was
<1>8. /\ chip' \in ChipValues /\ chip'.parked = chip.parked /\ chip'.image = chip.image
      /\ chip'.fifo = fifo /\ chip'.cr = cr
  BY <1>3, <1>4, <1>6 DEF TypeInv, ChipValues
<1>9. \A r \in Registers \ {"cr"} : chip'[r] = chip[r]
  BY <1>6 DEF TypeInv, ChipValues, Registers
<1>10. /\ lost' \in LostValues /\ lost.of \ (afresh \union {"cr"}) \subseteq lost'.of
       /\ "cr" \notin lost'.of => cleared /\ enabled
  <2>1. CASE cleared /\ enabled
    <3>1. lost' = [lost EXCEPT !.of = @ \ (afresh \union {"cr"})]
      BY <1>1, <2>1
    <3> QED
      BY <2>1, <3>1 DEF TypeInv, LostValues
  <2>2. CASE ~(cleared /\ enabled)
    <3>1. Loses({"cr"}, afresh) /\ {"cr"} \in SUBSET (Registers \union {"efuse"})
      BY <1>1, <2>2 DEF Registers
    <3> QED
      BY <3>1, LosesType
  <2> QED
    BY <2>1, <2>2
<1> QED
  BY <1>0, <1>1, <1>5, <1>7, <1>8, <1>9, <1>10

LEMMA PowerType ==
  ASSUME TypeInv, Open \/ PowerOn \/ PowerOnAgain \/ DecodeEntry \/ InitMAC
  PROVE  TypeInv'
<1> USE DEF TypeInv
<1>0. [addr |-> 0, map |-> Blank, valid |-> FALSE] \in EfuseValues /\ Unread \in FuseValues
      /\ Blank \in MapValues
  BY BringUpAssumption DEF EfuseValues, Blank, MapValues, BringUpAssumption, Unread, FuseValues
<1>1. CASE Open
  <2>1. loader' \in LoaderValues /\ loader'.chunk <= Chunks[loader'.section]
    <3>1. loader' = [loader EXCEPT !.attempt = 1] /\ 1 \in 1 .. LoadAttempts
      BY <1>1, BringUpAssumption DEF Open, BringUpAssumption
    <3> QED
      BY <3>1 DEF LoaderValues
  <2>2. opens' \in 0 .. MaxOpens
    BY <1>1, BringUpAssumption DEF Open, BringUpAssumption
  <2> QED
    BY <1>1, <2>1, <2>2 DEF Open, Pcs
<1>2. CASE PowerOn
  <2>1. chip' \in ChipValues /\ blind' \in 0 .. MaxFaults /\ pc' \in {"efuse", "idle"}
    BY <1>2, PowersUpType DEF PowerOn, PowerFails, Fails
  <2>3. lost' \in LostValues
    BY <1>2, PowersUpType DEF PowerOn, PowerFails
  <2>2. fuses' \in FuseValues
    BY <1>2, BringUpAssumption DEF PowerOn, BringUpAssumption, FuseValues
  <2> QED
    BY <1>0, <1>2, <2>1, <2>2, <2>3 DEF PowerOn, Pcs
<1>3. CASE PowerOnAgain
  <2>1. chip' \in ChipValues /\ blind' \in 0 .. MaxFaults /\ pc' \in {"load", "idle"}
    BY <1>3, PowersUpType DEF PowerOnAgain, PowerFails, Fails
  <2>3. lost' \in LostValues
    BY <1>3, PowersUpType DEF PowerOnAgain, PowerFails
  <2>2. loader' \in LoaderValues /\ loader'.chunk <= Chunks[loader'.section]
    <3>1. LoadAttempts \in Nat \ {0}
      BY BringUpAssumption DEF BringUpAssumption
    <3>2. loader' = loader \/ loader' = [loader EXCEPT !.attempt = @ + 1]
      BY <1>3 DEF PowerOnAgain
    <3>3. loader.attempt < LoadAttempts
      BY <1>3 DEF PowerOnAgain, MayRetry
    <3> QED
      BY <3>1, <3>2, <3>3 DEF LoaderValues
  <2> QED
    BY <1>3, <2>1, <2>2, <2>3 DEF PowerOnAgain, Pcs
<1>4. CASE DecodeEntry
  <2>1. efuse' \in EfuseValues /\ pc' \in {"efuse", "mac", "idle"}
    <3>1. CASE \E a \in EntryReads : \E byte \in {255} \union Stale(a) :
                 Step([cell |-> a, byte |-> byte])
      <4>1. PICK a \in EntryReads : \E byte \in {255} \union Stale(a) :
              Step([cell |-> a, byte |-> byte])
        BY <3>1
      <4>3. PICK byte \in {255} \union Stale(a) : Step([cell |-> a, byte |-> byte])
        BY <4>1
      <4>2. [cell |-> a, byte |-> byte] \in WrongReads
        BY StaleBytes DEF WrongReads
      <4> QED
        BY <1>4, <4>2, <4>3, StepType DEF DecodeEntry
    <3>2. CASE Step(NotBad) \/ Step([cell |-> efuse.addr, byte |-> 255])
      <4>1. [cell |-> efuse.addr, byte |-> 255] \in WrongReads
        BY BringUpAssumption DEF WrongReads, EfuseValues, BringUpAssumption
      <4> QED
        BY <1>4, <3>2, <4>1, NotBadReads, StepType DEF DecodeEntry
    <3>3. CASE Fails /\ efuse' = [addr |-> 0, map |-> Blank, valid |-> FALSE]
      BY <1>0, <3>3 DEF Fails
    <3> QED
      BY <1>4, <3>1, <3>2, <3>3 DEF DecodeEntry
  <2>4. lost' \in LostValues
    BY <1>4, LosesType DEF DecodeEntry
  <2>2. blind' \in 0 .. MaxFaults
    BY <1>4, BlindType DEF DecodeEntry, Gone, Loses
  <2>3. fuses' \in FuseValues
    BY <1>0, <1>4 DEF DecodeEntry
  <2> QED
    BY <1>4, <2>1, <2>2, <2>3, <2>4 DEF DecodeEntry, Pcs
<1>5. CASE InitMAC
  <2>1. chip' \in ChipValues /\ lost' \in LostValues
    <3>1. QueuesMapped(PagesAllocated(chip)) \in ChipValues
      <4>1. PagesAllocated(chip) \in ChipValues
        BY ChipSteps
      <4> QED
        BY <4>1, ChipSteps
    <3> QED
      BY <1>5, <3>1, LandsType DEF InitMAC
  <2>2. efuse' \in EfuseValues
    BY <1>0, <1>5, BringUpAssumption DEF InitMAC, EfuseValues, BringUpAssumption
  <2> QED
    BY <1>0, <1>5, <2>1, <2>2 DEF InitMAC, Pcs
<1> QED
  BY <1>1, <1>2, <1>3, <1>4, <1>5

LEMMA LoadType ==
  ASSUME TypeInv, Loading
  PROVE  TypeInv'
<1> USE DEF TypeInv
<1>1. CASE LoadSkipped
  BY <1>1 DEF LoadSkipped, Pcs, LatePcs
<1>2. CASE FileUnusable
  BY <1>2 DEF FileUnusable, GiveUpAttempt, Pcs
<1>3. CASE BeginLoad
  <2>1. loader' \in LoaderValues /\ loader'.chunk <= Chunks[loader'.section]
    <3>1. CASE loader' # loader
      <4> DEFINE l == SectionBegun(loader, "dmem")
      <4>1. l \in LoaderValues /\ l.section = "dmem" /\ l.chunk = 1 /\ 1 <= Chunks["dmem"]
        BY AtFirstBlock DEF Sections
      <4>2. loader' = [l EXCEPT !.saved = chip.cr \intersect {"Beacon"}]
        BY <1>3, <3>1 DEF BeginLoad
      <4> HIDE DEF l
      <4> QED
        BY <4>1, <4>2 DEF LoaderValues
    <3> QED
      BY <1>3, <3>1 DEF BeginLoad
  <2>2. chip' \in ChipValues /\ lost' \in LostValues
    <3>1. CASE Lands(Prepared(chip), Begun)
      BY <3>1, ChipSteps, LandsType
    <3>2. CASE StaysReset
      BY <3>2, StaysResetType
    <3>3. CASE Loses({"ctl"}, {}) /\ chip' \in {chip, [chip EXCEPT !.ctl = @ \ {"DlEn"}]}
      <4>1. {"ctl"} \in SUBSET (Registers \union {"efuse"})
        BY DEF Registers
      <4>2. [chip EXCEPT !.ctl = @ \ {"DlEn"}] \in ChipValues
        BY DEF ChipValues
      <4> QED
        BY <3>3, <4>1, <4>2, LosesType
    <3> QED
      BY <1>3, <3>1, <3>2, <3>3 DEF BeginLoad
  <2>3. leftover' \in BOOLEAN
    BY <1>3 DEF BeginLoad, SlotValues
  <2>4. pc' \in {"send", "repower", "idle"} /\ (pc' = "repower" => MayRetry(loader'.attempt))
    BY <1>3 DEF BeginLoad, GiveUpAttempt
  <2> QED
    BY <1>3, <2>1, <2>2, <2>3, <2>4 DEF BeginLoad, Pcs, SendingPcs
<1>4. CASE Send
  <2>1. Block \in Blocks
    BY BlockIsBlock
  <2>2. slot' \in SlotValues /\ (slot'.queued => slot'.block \in Blocks)
    <3>1. slot' = slot \/ slot' = [inUse |-> TRUE, queued |-> TRUE, block |-> Block]
          \/ slot' = [[slot EXCEPT !.inUse = TRUE] EXCEPT !.inUse = FALSE]
      BY <1>4 DEF Send, Refused
    <3>2. CASE slot' = [inUse |-> TRUE, queued |-> TRUE, block |-> Block]
      BY <2>1, <3>2 DEF SlotValues, Held
    <3>3. CASE slot' = [[slot EXCEPT !.inUse = TRUE] EXCEPT !.inUse = FALSE]
      <4>1. slot' \in SlotValues
        BY <3>3 DEF SlotValues
      <4>2. slot'.queued = slot.queued /\ slot'.block = slot.block
        BY <3>3 DEF SlotValues
      <4> QED
        BY <4>1, <4>2
    <3> QED
      BY <3>1, <3>2, <3>3
  <2>3. /\ chip' \in ChipValues /\ lost' \in LostValues /\ pc' \in {"sending", "repower", "idle"}
        /\ pc' = "repower" => MayRetry(loader.attempt)
    BY <1>4, AttemptFailsType DEF Send
  <2> QED
    BY <1>4, <2>2, <2>3 DEF Send, Pcs, SendingPcs
<1>5. CASE Sent
  BY <1>5 DEF Sent, Pcs, SendingPcs
<1>6. CASE SendTimesOut
  BY <1>6, AttemptFailsType DEF SendTimesOut, Pcs
<1>7. CASE Acknowledged
  <2>1. /\ chip' \in ChipValues /\ lost' \in LostValues /\ pc' \in {"copy", "repower", "idle"}
        /\ pc' = "repower" => MayRetry(loader.attempt)
    <3>1. [chip EXCEPT !.valid = FALSE] \in ChipValues
          /\ [chip EXCEPT !.valid = FALSE, !.boundary = FALSE] \in ChipValues
      BY DEF ChipValues
    <3> QED
      <4>1. "valid" \in Registers
        BY DEF Registers
      <4> QED
        BY <1>7, <3>1, <4>1, WriteType, AttemptFailsType DEF Acknowledged
  <2>2. blind' \in 0 .. MaxFaults
    BY <1>7, BlindType DEF Acknowledged
  <2> QED
    BY <1>7, <2>1, <2>2 DEF Acknowledged, Pcs, SendingPcs
<1>8. CASE StartCopy
  <2>1. Block \in Blocks
    BY BlockIsBlock
  <2>2. /\ chip' \in ChipValues /\ lost' \in LostValues /\ pc' \in {"copying", "repower", "idle"}
        /\ pc' = "repower" => MayRetry(loader.attempt)
    <3>1. Commanded(chip) \in ChipValues
      <4> DEFINE sum == IF loader.chunk = 1 THEN {} ELSE chip.sum
      <4>1. sum \in SUBSET Held
        BY DEF ChipValues
      <4>2. Commanded(chip) = [chip EXCEPT !.sum = sum, !.src = TRUE, !.to = Block, !.own = TRUE]
        BY DEF Commanded
      <4> HIDE DEF sum
      <4> QED
        BY <2>1, <4>1, <4>2 DEF ChipValues
    <3>2. CASE AttemptFails
      BY <3>2, AttemptFailsType
    <3>3. CASE Lands(Commanded(chip), {"own", "src"}) /\ pc' = "copying"
      BY <3>1, <3>3, LandsType
    <3> QED
      BY <1>8, <3>2, <3>3 DEF StartCopy
  <2> QED
    BY <1>8, <2>2 DEF StartCopy, Pcs, SendingPcs
<1>9. CASE Copied
  <2>1. loader' \in LoaderValues /\ loader'.chunk <= Chunks[loader'.section]
    BY <1>9, FileBlocks DEF Copied, LoaderValues
  <2>2. /\ chip' \in ChipValues /\ lost' \in LostValues
        /\ pc' \in {"send", "check", "repower", "idle"}
        /\ pc' = "repower" => MayRetry(loader'.attempt)
    BY <1>9, AttemptFailsType DEF Copied
  <2> QED
    BY <1>9, <2>1, <2>2 DEF Copied, Pcs, SendingPcs
<1>10. CASE CheckSection
  <2>1. loader' \in LoaderValues /\ loader'.chunk <= Chunks[loader'.section]
    <3>1. loader' = loader \/ loader' = SectionBegun(loader, "imem")
      BY <1>10 DEF CheckSection
    <3> QED
      BY <3>1, AtFirstBlock DEF Sections
  <2>2. /\ chip' \in ChipValues /\ lost' \in LostValues
        /\ pc' \in {"send", "start", "repower", "idle"}
        /\ pc' = "repower" => MayRetry(loader'.attempt)
    <3>1. CASE present /\ SumGood(loader.section)
      <4>1. OkFlag[loader.section] \in Flags /\ "ctl" \in Registers
        BY DEF LoaderValues, Sections, OkFlag, Flags, Registers
      <4>2. [chip EXCEPT !.ctl = @ \union {OkFlag[loader.section]}] \in ChipValues
        BY <4>1 DEF ChipValues
      <4>3. pc' \in {"send", "start"}
        BY <1>10, <3>1 DEF CheckSection
      <4> QED
        BY <1>10, <3>1, <4>1, <4>2, <4>3, WriteType DEF CheckSection
    <3>2. CASE ~(present /\ SumGood(loader.section))
      <4>1. [chip EXCEPT !.sum = {}] \in ChipValues
        BY DEF ChipValues
      <4>2. FailsWith([chip EXCEPT !.sum = {}]) /\ UNCHANGED loader
        BY <1>10, <3>2 DEF CheckSection
      <4> QED
        BY <4>1, <4>2, FailsWithType
    <3> QED
      BY <3>1, <3>2
  <2> QED
    BY <1>10, <2>1, <2>2 DEF CheckSection, Pcs, SendingPcs
<1>11. CASE StartFirmware
  <2>1. chip' \in ChipValues /\ lost' \in LostValues
    <3>1. "ctl" \in Registers
      BY DEF Registers
    <3>2. chip.ctl \union ReadyFlag(chip.ctl) \in SUBSET Flags
      BY DEF ReadyFlag, Flags, ChipValues
    <3>3. [chip EXCEPT !.ctl = @ \union ReadyFlag(@)] \in ChipValues
      BY <3>2 DEF ChipValues
    <3> QED
      BY <1>11, <3>1, <3>3, WriteType DEF StartFirmware
  <2> QED
    BY <1>11, <2>1 DEF StartFirmware, Pcs, SendingPcs
<1>12. CASE ResumeFirmware
  <2>1. chip' \in ChipValues /\ lost' \in LostValues
    <3> DEFINE c == Resumed(Restored(chip))
    <3>1. c \in ChipValues
      <4>1. Restored(chip) \in ChipValues
        BY ChipSteps
      <4> QED
        BY <4>1, ChipSteps
    <3> HIDE DEF c
    <3>2. \/ Lands(c, {"mcu"})
          \/ UNCHANGED <<chip, lost>>
          \/ \E kept \in SUBSET Registers : Partly(c, kept, {"mcu"})
      BY <1>12 DEF ResumeFirmware, c, Changes
    <3> QED
      BY <3>1, <3>2, LandsType, PartlyType
  <2>2. pc' \in {"ready", "repower", "idle"} /\ (pc' = "repower" => MayRetry(loader'.attempt))
    BY <1>12 DEF ResumeFirmware, GiveUpAttempt
  <2> QED
    BY <1>12, <2>1, <2>2 DEF ResumeFirmware, Pcs
<1>13. CASE PollForReady
  <2>1. loader' \in LoaderValues /\ loader'.chunk <= Chunks[loader'.section]
    BY <1>13 DEF PollForReady, LoaderValues
  <2>2. blind' \in 0 .. MaxFaults
    BY <1>13, BlindType DEF PollForReady
  <2>3. /\ chip' \in ChipValues /\ lost' \in LostValues
        /\ pc' \in {"address", "repower", "idle"}
        /\ pc' = "repower" => MayRetry(loader'.attempt)
    <3>1. [chip EXCEPT !.ctl = @ \ {"DlEn"}] \in ChipValues /\ "ctl" \in Registers
      BY DEF ChipValues, Registers
    <3> QED
      BY <1>13, <3>1, WriteType DEF PollForReady, GiveUpAttempt
  <2> QED
    BY <1>13, <2>1, <2>2, <2>3 DEF PollForReady, Pcs, LatePcs
<1> QED
  BY <1>1, <1>2, <1>3, <1>4, <1>5, <1>6, <1>7, <1>8, <1>9, <1>10, <1>11, <1>12, <1>13
     DEF Loading

\* The steps after the firmware.
Finishing == \/ WriteMacAddress \/ InitPhy \/ EnableMac \/ StartRx \/ StartManager \/ Finish
             \/ StageFails

\* What such a step does: it goes on, with a chip and a driver of the right
\* types, or it goes back.
LEMMA FinishingType ==
  ASSUME TypeInv, Finishing
  PROVE  TypeInv'
<1> USE DEF TypeInv
<1>1. /\ chip' \in ChipValues /\ lost' \in LostValues /\ driver' \in DriverValues
      /\ pc' \in LatePcs \union {"idle"}
      /\ UNCHANGED <<fuses, efuse, mac, loader, slot, present, opens, blind, leftover>>
  <2> USE DEF LatePcs
  <2>1. CASE WriteMacAddress
    BY <2>1, LandsType DEF WriteMacAddress, Proceed
  <2>2. CASE InitPhy
    <3>1. [chip EXCEPT !.bb = "set"] \in ChipValues
      BY DEF ChipValues
    <3> QED
      BY <2>2, <3>1, LandsType DEF InitPhy, Proceed
  <2>3. CASE EnableMac
    <3> DEFINE c == Aggregating(chip)
    <3>1. c \in ChipValues
      BY ChipSteps
    <3>2. {"MacTx", "MacRx"} \subseteq Engines
      BY DEF Engines
    <3>3. /\ Lands([c EXCEPT !.cr = @ \union {"MacTx", "MacRx"}], {"agg"}) /\ pc' = "rx"
          /\ driver' = driver
          /\ UNCHANGED <<fuses, efuse, mac, loader, slot, present, opens, blind, leftover>>
      BY <2>3 DEF EnableMac, Proceed
    <3> HIDE DEF c
    <3>4. c.cr \union {"MacTx", "MacRx"} \in SUBSET Engines
      BY <3>1, <3>2 DEF ChipValues
    <3>5. \A engines \in SUBSET Engines : [c EXCEPT !.cr = engines] \in ChipValues
      BY <3>1 DEF ChipValues
    <3>6. chip' \in ChipValues /\ lost' \in LostValues
      BY <3>3, <3>4, <3>5, LandsType
    <3> QED
      BY <3>3, <3>6
  <2>4. CASE StartRx
    BY <2>4, LandsType DEF StartRx, Proceed, DriverValues
  <2>5. CASE StartManager
    BY <2>5, LandsType DEF StartManager, Proceed, DriverValues
  <2>6. CASE Finish
    BY <2>6, LandsType DEF Finish, Proceed, DriverValues
  <2>7. CASE StageFails
    BY <2>7 DEF StageFails, StopHere, Fails
  <2> QED
    BY <2>1, <2>2, <2>3, <2>4, <2>5, <2>6, <2>7 DEF Finishing
<1> QED
  BY <1>1 DEF Pcs, LatePcs

\* The chip's end of the transfers.
LEMMA AdapterType ==
  ASSUME TypeInv, Adapter \/ Unplug
  PROVE  TypeInv'
<1> USE DEF TypeInv
<1>1. CASE TransferDone
  <2>1. Append(chip.fifo, slot.block) \in Seq(Blocks)
    BY <1>1 DEF TransferDone, ChipValues
  <2>2. chip' \in ChipValues
    BY <1>1, <2>1 DEF TransferDone, ChipValues
  <2>3. slot' \in SlotValues /\ ~slot'.queued
    BY <1>1 DEF TransferDone, SlotValues
  <2> QED
    BY <1>1, <2>2, <2>3 DEF TransferDone
<1>2. CASE TransferCancelled
  <2>1. slot' \in SlotValues /\ ~slot'.queued
    BY <1>2 DEF TransferCancelled, SlotValues
  <2> QED
    BY <1>2, <2>1 DEF TransferCancelled
<1>3. CASE Park
  <2>1. chip.fifo \in Seq(Blocks) /\ chip.fifo # <<>>
    BY <1>3 DEF Park, ChipValues
  <2>2. Tail(chip.fifo) \in Seq(Blocks) /\ Head(chip.fifo) \in Held
    BY <2>1 DEF Held
  <2> DEFINE spot == IF chip.boundary THEN Head(chip.fifo) ELSE chip.parked
             rest == Tail(chip.fifo)
  <2>3. spot \in Held /\ rest \in Seq(Blocks)
    BY <2>2 DEF ChipValues
  <2>4. chip' = [chip EXCEPT !.fifo = rest, !.valid = TRUE, !.parked = spot]
    BY <1>3 DEF Park
  <2> HIDE DEF spot, rest
  <2>5. chip' \in ChipValues
    BY <2>3, <2>4 DEF ChipValues
  <2> QED
    BY <1>3, <2>5 DEF Park
<1>4. CASE Copy
  <2> DEFINE block == IF chip.src THEN chip.parked ELSE Junk
             image == [chip.image EXCEPT ![chip.to] = block]
             sum == XorIn(chip.sum, block)
  <2>0. block \in Held
    BY DEF ChipValues, Held
  <2>1. chip' = [chip EXCEPT !.own = FALSE, !.image = image, !.sum = sum]
    BY <1>4 DEF Copy
  <2> HIDE DEF block
  <2>2. image \in [Blocks -> Held]
    BY <2>0 DEF ChipValues
  <2>3. sum \in SUBSET Held
    BY <2>0 DEF ChipValues, XorIn
  <2> HIDE DEF image, sum
  <2>4. chip' \in ChipValues
    BY <2>1, <2>2, <2>3 DEF ChipValues
  <2> QED
    BY <1>4, <2>4 DEF Copy
<1>5. CASE Boot
  <2>1. chip.ctl \union {"CpuReady"} \in SUBSET Flags
    BY DEF ChipValues, Flags
  <2>2. chip' \in ChipValues
    BY <1>5, <2>1 DEF Boot, ChipValues
  <2> QED
    BY <1>5, <2>2 DEF Boot
<1>6. CASE Unplug
  BY <1>6 DEF Unplug
<1> QED
  BY <1>1, <1>2, <1>3, <1>4, <1>5, <1>6 DEF Adapter

LEMMA NextType == TypeInv /\ [Next]_vars => TypeInv'
<1> SUFFICES ASSUME TypeInv, [Next]_vars PROVE TypeInv'
  OBVIOUS
<1>1. CASE Open \/ PowerOn \/ PowerOnAgain \/ DecodeEntry \/ InitMAC
  BY <1>1, PowerType
<1>2. CASE Loading
  BY <1>2, LoadType
<1>3. CASE Finishing
  BY <1>3, FinishingType
<1>4. CASE Adapter \/ Unplug
  BY <1>4, AdapterType
<1>5. CASE UNCHANGED vars
  BY <1>5 DEF vars, TypeInv
<1> QED
  BY <1>1, <1>2, <1>3, <1>4, <1>5, Zenon DEF Next, OpenThread, Finishing

LEMMA TypesHold == Spec => []TypeInv
BY InitType, NextType, PTL DEF Spec

\* Every variable of the bring-up keeps its type: the decoder never runs more
\* than nine cells past the end of the EFUSE, nor writes outside the map, and
\* the loader is always at a block of the file (_DecodeMap, _TransferSection).
THEOREM BringUpTypes == Spec => []TypeOK
<1>1. TypeInv => TypeOK
  BY DEF TypeInv, TypeOK, Pcs, SendingPcs, LatePcs, EfuseValues, MapValues, LoaderValues,
         ChipValues, SlotValues, Held, LostValues
<1> QED
  BY <1>1, TypesHold, PTL

-----------------------------------------------------------------------------
(* An Open() that succeeded.  Where the bring-up is tells what it has put    *)
(* into the chip so far, as long as every read was answered, but for the     *)
(* register whose own write was lost; that the MCU runs and that the chip    *)
(* has pages and a pipe for a chunk shows in what came of it, whatever was   *)
(* lost; and what the driver itself has started, and that the loader's slot  *)
(* is taken only while its transfer is queued, holds whatever happens.       *)

Calm == blind = 0 /\ present

\* The bring-up is at one of these, or over and done.
PastTo(pcs) == pc \in pcs \/ driver.up

StartedPcs == {"rx", "manager", "finish"}
MacPcs == {"load", "ready", "repower"} \union SendingPcs \union LatePcs

DriverInv ==
  /\ slot.inUse => slot.queued
  /\ driver.up => pc = "idle"
  /\ loader.loaded => pc \notin SendingPcs \union {"ready", "repower"}
  /\ PastTo(LatePcs) => loader.loaded
  /\ PastTo({"manager", "finish"}) => driver.rx
  /\ PastTo({"finish"}) => driver.manager
  /\ PastTo(MacPcs) => mac # "unset"

Kept(register) == register \notin lost.of

Resources ==
  /\ pc \in {"efuse", "mac", "load", "ready", "address", "phy", "enable"} /\ Kept("cr") =>
       chip.cr = {"Engines"}
  /\ pc \in SendingPcs /\ Kept("cr") => chip.cr = {"Engines", "Beacon"} /\ loader.saved = {}
  /\ PastTo(StartedPcs) /\ Kept("cr") => chip.cr = {"Engines", "MacTx", "MacRx"}
  /\ PastTo(StartedPcs) /\ Kept("agg") => chip.agg
  /\ PastTo({"enable"} \union StartedPcs) /\ Kept("bb") => chip.bb = "set"
  /\ PastTo(MacPcs) /\ Kept("quotas") => chip.quotas
  /\ loader.loaded => "CpuReady" \in chip.ctl

\* A chunk has gone to the chip.
TakenPcs == {"ack", "copy", "copying", "check", "start", "resume", "ready"}
Took == loader.loaded \/ pc \in TakenPcs \/ (pc = "sending" /\ ~slot.queued)

Shown ==
  /\ Took => chip.pages /\ chip.queues
  /\ "CpuReady" \in chip.ctl => chip.mcu
  /\ loader.loaded \/ pc = "ready" => "DlEn" \notin chip.ctl

UpInv == DriverInv /\ Shown /\ (Calm => Resources)

LEMMA InitUp == Init => UpInv
BY DEF Init, UpInv, DriverInv, Shown, Took, TakenPcs, Resources, Calm, PastTo, StartedPcs, MacPcs,
       SendingPcs, LatePcs

\* An adapter that answers now has answered all along.
LEMMA CalmBefore == TypeInv /\ [Next]_vars /\ Calm' => Calm
<1> SUFFICES ASSUME TypeInv, [Next]_vars, Calm' PROVE Calm
  OBVIOUS
<1>1. blind \in Nat /\ blind <= blind' /\ (present' => present)
  <2> USE DEF TypeInv
  <2>0. blind \in Nat
    OBVIOUS
  <2>1. CASE Open
    BY <2>0, <2>1 DEF Open
  <2>2. CASE PowerOn \/ PowerOnAgain
    BY <2>0, <2>2, PowersUpType DEF PowerOn, PowerOnAgain, PowerFails
  <2>3. CASE DecodeEntry
    BY <2>0, <2>3 DEF DecodeEntry, GivesUp, Gone, Loses
  <2>4. CASE InitMAC
    BY <2>0, <2>4 DEF InitMAC
  <2>5. CASE Loading
    BY <2>0, <2>5 DEF Loading, LoadSkipped, FileUnusable, BeginLoad, Send, Sent, SendTimesOut,
       Acknowledged, StartCopy, Copied, CheckSection, StartFirmware, ResumeFirmware, PollForReady, GivesUp, Gone
  <2>6. CASE Finishing
    <3>1. CASE Finish
      BY <2>0, <3>1 DEF Finish, Proceed
    <3>2. CASE StageFails
      BY <2>0, <3>2 DEF StageFails, StopHere
    <3>3. CASE WriteMacAddress \/ InitPhy
      BY <2>0, <3>3 DEF WriteMacAddress, InitPhy, Proceed
    <3>4. CASE EnableMac \/ StartRx \/ StartManager
      BY <2>0, <3>4 DEF EnableMac, StartRx, StartManager, Proceed
    <3> QED
      BY <2>6, <3>1, <3>2, <3>3, <3>4 DEF Finishing
  <2>7. CASE Adapter
    BY <2>0, <2>7 DEF Adapter, TransferDone, TransferCancelled, Park, Copy, Boot
  <2>8. CASE Unplug
    BY <2>0, <2>8 DEF Unplug
  <2>9. CASE UNCHANGED vars
    BY <2>0, <2>9 DEF vars
  <2> QED
    BY <2>1, <2>2, <2>3, <2>4, <2>5, <2>6, <2>7, <2>8, <2>9 DEF Next, OpenThread, Finishing
<1> QED
  BY <1>1 DEF Calm

\* The registers one by one.
LEMMA GivesEach ==
  ASSUME NEW c, Gives(c)
  PROVE  /\ chip'.cr = c.cr \/ (chip'.cr = chip.cr /\ "cr" \in lost'.of)
         /\ chip'.ctl = c.ctl \/ (chip'.ctl = chip.ctl /\ "ctl" \in lost'.of)
         /\ chip'.mcu = c.mcu \/ (chip'.mcu = chip.mcu /\ "mcu" \in lost'.of)
         /\ chip'.pages = c.pages \/ (chip'.pages = chip.pages /\ "pages" \in lost'.of)
         /\ chip'.quotas = c.quotas \/ (chip'.quotas = chip.quotas /\ "quotas" \in lost'.of)
         /\ chip'.boundary = c.boundary
            \/ (chip'.boundary = chip.boundary /\ "boundary" \in lost'.of)
         /\ chip'.queues = c.queues \/ (chip'.queues = chip.queues /\ "queues" \in lost'.of)
         /\ chip'.agg = c.agg \/ (chip'.agg = chip.agg /\ "agg" \in lost'.of)
         /\ chip'.valid = c.valid \/ (chip'.valid = chip.valid /\ "valid" \in lost'.of)
         /\ chip'.own = c.own \/ (chip'.own = chip.own /\ "own" \in lost'.of)
         /\ chip'.reset = c.reset \/ (chip'.reset = chip.reset /\ "reset" \in lost'.of)
         /\ chip'.src = c.src \/ (chip'.src = chip.src /\ "src" \in lost'.of)
         /\ chip'.to = c.to \/ (chip'.to = chip.to /\ "to" \in lost'.of)
         /\ chip'.sum = c.sum \/ (chip'.sum = chip.sum /\ "sum" \in lost'.of)
         /\ chip'.bb = c.bb \/ (chip'.bb = chip.bb /\ "bb" \in lost'.of)
BY DEF Gives, Registers

\* What the beginning of one gives to the chip, register by register.
LEMMA PreparedEach ==
  ASSUME TypeInv, NEW c \in ChipValues
  PROVE  LET p == Prepared(c)
         IN /\ p \in ChipValues
            /\ p.cr = c.cr \union {"Beacon"} /\ p.ctl = {"DlEn"} /\ ~p.mcu
            /\ p.pages = c.pages /\ p.quotas = c.quotas /\ p.boundary
            /\ p.queues = c.queues /\ p.agg = c.agg /\ ~p.valid /\ ~p.own
            /\ ~p.reset /\ ~p.src /\ p.to = c.to /\ p.sum = c.sum
            /\ p.bb = c.bb /\ p.fifo = c.fifo /\ p.parked = c.parked /\ p.image = c.image
<1>1. Prepared(c) \in ChipValues
  BY ChipSteps DEF TypeInv
<1> QED
  BY <1>1 DEF Prepared, ChipValues

\* What the end of an attempt gives to the chip, register by register.
LEMMA ResumedEach ==
  ASSUME TypeInv, NEW c \in ChipValues
  PROVE  LET r == Resumed(Restored(c))
         IN /\ r \in ChipValues
            /\ r.cr = (c.cr \ {"Beacon"}) \union loader.saved
            /\ r.ctl = c.ctl \ {"DlEn"} /\ r.mcu
            /\ r.pages = c.pages /\ r.quotas = c.quotas /\ r.boundary = c.boundary
            /\ r.queues = c.queues /\ r.agg = c.agg /\ r.valid = c.valid /\ r.own = c.own
            /\ r.reset = c.reset /\ r.src = c.src /\ r.to = c.to /\ r.sum = c.sum
            /\ r.bb = c.bb /\ r.fifo = c.fifo /\ r.parked = c.parked /\ r.image = c.image
<1> DEFINE a == Restored(c)
           r == Resumed(a)
<1>1. /\ a \in ChipValues /\ a.cr = (c.cr \ {"Beacon"}) \union loader.saved
      /\ a.ctl = c.ctl /\ a.mcu = c.mcu
      /\ a.pages = c.pages /\ a.quotas = c.quotas /\ a.boundary = c.boundary
      /\ a.queues = c.queues /\ a.agg = c.agg /\ a.valid = c.valid /\ a.own = c.own
      /\ a.reset = c.reset /\ a.src = c.src /\ a.to = c.to /\ a.sum = c.sum
      /\ a.bb = c.bb /\ a.fifo = c.fifo /\ a.parked = c.parked /\ a.image = c.image
  <2>1. a \in ChipValues
    BY ChipSteps DEF TypeInv
  <2> QED
    BY <2>1 DEF Restored, ChipValues
<1> HIDE DEF a
<1>2. /\ r \in ChipValues /\ r.cr = a.cr
      /\ r.ctl = a.ctl \ {"DlEn"} /\ r.mcu
      /\ r.pages = a.pages /\ r.quotas = a.quotas /\ r.boundary = a.boundary
      /\ r.queues = a.queues /\ r.agg = a.agg /\ r.valid = a.valid /\ r.own = a.own
      /\ r.reset = a.reset /\ r.src = a.src /\ r.to = a.to /\ r.sum = a.sum
      /\ r.bb = a.bb /\ r.fifo = a.fifo /\ r.parked = a.parked /\ r.image = a.image
  <2>1. r \in ChipValues
    BY <1>1, ChipSteps DEF TypeInv
  <2> QED
    BY <1>1, <2>1 DEF Resumed, ChipValues
<1> HIDE DEF r
<1> QED
  BY <1>1, <1>2 DEF a, r

\* What a failed attempt leaves: the driver as it was, nothing of the loader's.
LEMMA FailsWithUp ==
  ASSUME TypeInv, UpInv, pc \in SendingPcs, NEW c \in ChipValues, FailsWith(c),
         c.quotas = chip.quotas, c.ctl = chip.ctl, c.mcu = chip.mcu,
         loader'.loaded = loader.loaded,
         slot'.inUse => slot'.queued, UNCHANGED <<mac, driver>>, Calm' => Calm
  PROVE  UpInv'
<1> USE DEF PastTo, StartedPcs, MacPcs, SendingPcs, LatePcs
<1>1. pc' \in {"repower", "idle"} /\ ~loader.loaded /\ ~driver.up
  BY FailsWithType DEF UpInv, DriverInv
<1>2. DriverInv'
  BY <1>1 DEF UpInv, DriverInv
<1> DEFINE r == Resumed(Restored(c))
<1>3. \/ UNCHANGED <<chip, lost>>
      \/ Gives(r) /\ lost.of \ {"mcu"} \subseteq lost'.of
  BY FailsWithType
<1>4. r.quotas = chip.quotas /\ r.ctl = chip.ctl \ {"DlEn"} /\ r.mcu
  BY ResumedEach
<1> HIDE DEF r
<1>5. \/ UNCHANGED <<chip, lost>>
      \/ /\ chip'.quotas = chip.quotas /\ lost.of \ {"mcu"} \subseteq lost'.of
         /\ chip'.ctl \subseteq chip.ctl /\ (chip.mcu => chip'.mcu)
  BY <1>3, <1>4, GivesEach
<1>6. Shown'
  BY <1>1, <1>5 DEF UpInv, Shown, Took, TakenPcs
<1>7. ASSUME Calm PROVE Resources'
  BY <1>1, <1>5, <1>7 DEF UpInv, Resources, Kept
<1> QED
  BY <1>2, <1>6, <1>7 DEF UpInv

LEMMA AttemptFailsUp ==
  ASSUME TypeInv, UpInv, pc \in SendingPcs, AttemptFails, loader'.loaded = loader.loaded,
         slot'.inUse => slot'.queued, UNCHANGED <<mac, driver>>, Calm' => Calm
  PROVE  UpInv'
<1>1. chip \in ChipValues /\ FailsWith(chip)
  BY DEF AttemptFails, TypeInv
<1> QED
  BY <1>1, FailsWithUp

LEMMA PowerUp ==
  ASSUME TypeInv, UpInv, Calm' => Calm, Open \/ PowerOn \/ PowerOnAgain \/ DecodeEntry \/ InitMAC
  PROVE  UpInv'
<1> USE DEF PastTo, StartedPcs, MacPcs, SendingPcs, LatePcs, UpInv, DriverInv, Shown, Took, TakenPcs,
           Resources, Kept
<1>1. CASE Open
  BY <1>1 DEF Open, TypeInv, LoaderValues, Calm
<1>2. CASE PowerOn
  <2>1. CASE PowersUp("efuse", {"efuse"})
    <3>1. /\ blind <= blind' /\ pc' = "efuse"
          /\ lost.of \ ({"efuse"} \union {"cr"}) \subseteq lost'.of
          /\ \A r \in Registers \ {"cr"} : chip'[r] = chip[r]
          /\ blind' = blind /\ "cr" \notin lost'.of => chip'.cr = {"Engines"}
      BY <2>1, PowersUpType
    <3>2. /\ chip'.mcu = chip.mcu /\ chip'.ctl = chip.ctl /\ chip'.pages = chip.pages
          /\ chip'.queues = chip.queues
      BY <3>1 DEF Registers
    <3> QED
      BY <1>2, <3>1, <3>2 DEF PowerOn, Calm
  <2>2. CASE PowerFails
    BY <1>2, <2>2 DEF PowerOn, PowerFails, Fails, Calm
  <2> QED
    BY <1>2, <2>1, <2>2 DEF PowerOn
<1>3. CASE PowerOnAgain
  <2>0. ~loader.loaded /\ ~loader'.loaded
    BY <1>3 DEF PowerOnAgain, TypeInv, LoaderValues
  <2>1. CASE PowersUp("load", {})
    <3>1. /\ blind <= blind' /\ pc' = "load"
          /\ lost.of \ ({} \union {"cr"}) \subseteq lost'.of
          /\ \A r \in Registers \ {"cr"} : chip'[r] = chip[r]
          /\ blind' = blind /\ "cr" \notin lost'.of => chip'.cr = {"Engines"}
      BY <2>1, PowersUpType
    <3>2. chip'.mcu = chip.mcu /\ chip'.ctl = chip.ctl /\ chip'.quotas = chip.quotas
      BY <3>1 DEF Registers
    <3> QED
      BY <1>3, <2>0, <3>1, <3>2 DEF PowerOnAgain, Calm
  <2>3. CASE PowerFails
    BY <1>3, <2>0, <2>3 DEF PowerOnAgain, PowerFails, Fails, Calm
  <2> QED
    BY <1>3, <2>1, <2>3 DEF PowerOnAgain
<1>4. CASE DecodeEntry
  <2>1. pc' \in {"efuse", "mac", "idle"}
    <3>1. \A bad : Step(bad) => pc' \in {pc, "mac"}
      BY DEF Step
    <3> QED
      BY <1>4, <3>1 DEF DecodeEntry, Fails
  <2>2. lost.of \subseteq lost'.of
    <3>1. CASE Loses({"efuse"}, {})
      <4>1. {"efuse"} \in SUBSET (Registers \union {"efuse"})
        OBVIOUS
      <4>2. lost.of \ {} \subseteq lost'.of
        BY <3>1, <4>1, LosesType
      <4> QED
        BY <4>2
    <3>2. CASE UNCHANGED lost
      BY <3>2
    <3> QED
      BY <1>4, <3>1, <3>2 DEF DecodeEntry
  <2> QED
    BY <1>4, <2>1, <2>2 DEF DecodeEntry, Calm
<1>5. CASE InitMAC
  <2>1. mac' # "unset" /\ pc' = "load"
    BY <1>5 DEF InitMAC
  <2> DEFINE p == PagesAllocated(chip)
             c == QueuesMapped(p)
  <2>2. /\ p \in ChipValues /\ p.pages /\ p.quotas /\ p.cr = chip.cr /\ p.mcu = chip.mcu
        /\ p.ctl = chip.ctl
    <3>1. chip \in ChipValues /\ p \in ChipValues
      BY ChipSteps DEF TypeInv
    <3> QED
      BY <3>1 DEF PagesAllocated, ChipValues
  <2> HIDE DEF p
  <2>3. /\ c \in ChipValues /\ c.pages /\ c.quotas /\ c.queues /\ c.cr = chip.cr
        /\ c.mcu = chip.mcu /\ c.ctl = chip.ctl
    <3>1. c \in ChipValues
      BY <2>2, ChipSteps DEF TypeInv
    <3> QED
      BY <2>2, <3>1 DEF QueuesMapped, ChipValues
  <2>4. Lands(c, {"pages", "quotas", "boundary", "queues"})
    BY <1>5 DEF InitMAC, p
  <2> HIDE DEF c
  <2>5. \/ ~present /\ UNCHANGED <<chip, lost>>
        \/ present /\ Gives(c) /\ lost.of \ {"pages", "quotas", "boundary", "queues"} \subseteq lost'.of
    BY <2>3, <2>4, LandsType
  <2>6. CASE ~present /\ UNCHANGED <<chip, lost>>
    BY <1>5, <2>1, <2>6 DEF InitMAC, Calm
  <2>7. CASE Gives(c) /\ lost.of \ {"pages", "quotas", "boundary", "queues"} \subseteq lost'.of
    <3>1. /\ chip'.cr = chip.cr /\ chip'.mcu = chip.mcu /\ chip'.ctl = chip.ctl
          /\ chip'.pages = chip.pages \/ chip'.pages
          /\ chip'.queues = chip.queues \/ chip'.queues
          /\ "quotas" \notin lost'.of => chip'.quotas
      BY <2>3, <2>7, GivesEach
    <3> QED
      BY <1>5, <2>1, <2>7, <3>1 DEF InitMAC, Calm
  <2> QED
    BY <2>5, <2>6, <2>7
<1> QED
  BY <1>1, <1>2, <1>3, <1>4, <1>5

LEMMA LoadUp ==
  ASSUME TypeInv, UpInv, Calm' => Calm, Loading
  PROVE  UpInv'
<1> USE DEF PastTo, StartedPcs, MacPcs, SendingPcs, LatePcs, UpInv, DriverInv, Shown, Took, TakenPcs,
           Resources, Kept
<1>0. /\ loader \in LoaderValues /\ chip \in ChipValues /\ slot \in SlotValues
      /\ present \in BOOLEAN
  BY DEF TypeInv
<1>1. CASE LoadSkipped
  BY <1>1 DEF LoadSkipped, Calm
<1>2. CASE FileUnusable
  BY <1>2 DEF FileUnusable, GiveUpAttempt, Calm
<1>3. CASE BeginLoad
  <2>0. ~loader.loaded /\ pc = "load" /\ UNCHANGED <<mac, slot, driver, present, blind>>
    BY <1>3 DEF BeginLoad
  <2>1. CASE /\ present /\ (Lands(Prepared(chip), Begun) \/ StaysReset)
             /\ chip'.ctl = {"DlEn"} /\ pc' = "send"
             /\ loader' = [SectionBegun(loader, "dmem") EXCEPT !.saved = chip.cr \intersect {"Beacon"}]
    <3> DEFINE p == Prepared(chip)
               s == [p EXCEPT !.reset = TRUE]
    <3>1. p \in ChipValues /\ p.cr = chip.cr \union {"Beacon"} /\ p.quotas = chip.quotas
      BY <1>0, PreparedEach
    <3>2. s.cr = p.cr /\ s.quotas = p.quotas
      <4> HIDE DEF p
      <4> QED
        BY <3>1 DEF ChipValues
    <3>3. lost.of \ Begun \subseteq lost'.of /\ (Gives(p) \/ Gives(s))
      <4>1. CASE Lands(p, Begun)
        <5> HIDE DEF p
        <5> QED
          BY <2>1, <3>1, <4>1, LandsType
      <4>2. CASE StaysReset
        BY <4>2, StaysResetType
      <4> QED
        BY <2>1, <4>1, <4>2
    <3> HIDE DEF p, s
    <3>4. /\ chip'.quotas = chip.quotas
          /\ Kept("cr")' => chip'.cr = chip.cr \union {"Beacon"}
      BY <3>1, <3>2, <3>3, GivesEach
    <3>5. (Kept("cr")' => Kept("cr")) /\ (Kept("quotas")' => Kept("quotas"))
      BY <3>3 DEF Begun
    <3>6. loader'.loaded = loader.loaded /\ loader'.saved = chip.cr \intersect {"Beacon"}
      <4> DEFINE l == SectionBegun(loader, "dmem")
      <4>1. l \in LoaderValues /\ l.loaded = loader.loaded
        BY <1>0, AtFirstBlock DEF Sections
      <4>2. loader' = [l EXCEPT !.saved = chip.cr \intersect {"Beacon"}]
        BY <2>1
      <4> HIDE DEF l
      <4> QED
        BY <4>1, <4>2 DEF LoaderValues
    <3>7. DriverInv'
      BY <2>0, <2>1, <3>6
    <3>8. Shown'
      BY <2>0, <2>1, <3>6
    <3>9. ASSUME Calm PROVE Resources'
      <4>1. Kept("cr") => chip.cr = {"Engines"}
        BY <2>0, <3>9
      <4>2. Kept("cr")' => chip'.cr = {"Engines", "Beacon"} /\ loader'.saved = {}
        BY <3>4, <3>5, <3>6, <4>1
      <4>3. Kept("quotas") => chip.quotas
        BY <2>0, <3>9
      <4> QED
        BY <2>0, <2>1, <3>4, <3>5, <3>6, <4>2, <4>3
    <3> QED
      BY <3>7, <3>8, <3>9
  <2>2. CASE /\ \/ ~present /\ UNCHANGED <<chip, lost>>
                \/ Loses({"ctl"}, {}) /\ chip' \in {chip, [chip EXCEPT !.ctl = @ \ {"DlEn"}]}
             /\ GiveUpAttempt /\ UNCHANGED loader
    <3>1. /\ chip'.ctl \subseteq chip.ctl /\ chip'.quotas = chip.quotas /\ chip'.mcu = chip.mcu
      BY <1>0, <2>2 DEF ChipValues
    <3>2. lost.of \subseteq lost'.of
      <4>1. {"ctl"} \in SUBSET (Registers \union {"efuse"})
        BY DEF Registers
      <4>2. Loses({"ctl"}, {}) => lost.of \ {} \subseteq lost'.of
        BY <4>1, LosesType
      <4> QED
        BY <2>2, <4>2
    <3>3. pc' \in {"repower", "idle"}
      BY <2>2 DEF GiveUpAttempt
    <3> QED
      BY <2>0, <2>2, <3>1, <3>2, <3>3 DEF Calm
  <2> QED
    BY <1>3, <2>1, <2>2 DEF BeginLoad
<1>4. CASE Send
  <2>1. slot'.inUse => slot'.queued
    <3>1. slot' = slot \/ slot' = [inUse |-> TRUE, queued |-> TRUE, block |-> Block]
          \/ slot' = [[slot EXCEPT !.inUse = TRUE] EXCEPT !.inUse = FALSE]
      BY <1>4 DEF Send, Refused
    <3>2. CASE slot' = [[slot EXCEPT !.inUse = TRUE] EXCEPT !.inUse = FALSE]
      BY <1>0, <3>2 DEF SlotValues
    <3> QED
      BY <3>1, <3>2
  <2>2. CASE AttemptFails
    BY <1>4, <2>1, <2>2, AttemptFailsUp DEF Send
  <2>3. CASE /\ slot' = [inUse |-> TRUE, queued |-> TRUE, block |-> Block]
             /\ pc' = "sending" /\ UNCHANGED <<chip, lost>>
    <3>1. slot'.queued
      BY <2>3
    <3>2. pc = "send" /\ UNCHANGED <<mac, loader, driver, present, blind>>
      BY <1>4 DEF Send
    <3> QED
      BY <2>1, <2>3, <3>1, <3>2 DEF Calm
  <2> QED
    BY <1>4, <2>2, <2>3 DEF Send
<1>5. CASE Sent
  BY <1>5 DEF Sent, Calm
<1>6. CASE SendTimesOut
  BY <1>6, AttemptFailsUp DEF SendTimesOut
<1>7. CASE Acknowledged
  <2>1. CASE AttemptFails
    BY <1>7, <2>1, AttemptFailsUp DEF Acknowledged
  <2>0. "valid" \in Registers
    BY DEF Registers
  <2>2. CASE /\ pc' = "copy" /\ UNCHANGED blind
             /\ Write("valid", [chip EXCEPT !.valid = FALSE])
    <3> DEFINE c == [chip EXCEPT !.valid = FALSE]
    <3>1. /\ c \in ChipValues /\ c.cr = chip.cr /\ c.pages = chip.pages /\ c.queues = chip.queues
          /\ c.quotas = chip.quotas /\ c.ctl = chip.ctl /\ c.mcu = chip.mcu
      BY <1>0 DEF ChipValues
    <3> HIDE DEF c
    <3>2. lost.of \subseteq lost'.of /\ (chip' = chip \/ chip' = c)
      BY <2>0, <2>2, <3>1, WriteType DEF c
    <3> QED
      BY <1>7, <2>2, <3>1, <3>2 DEF Acknowledged, Calm
  <2>3. CASE /\ pc' = "copy" /\ GivesUp
             /\ Write("valid", [chip EXCEPT !.valid = FALSE, !.boundary = FALSE])
    <3> DEFINE c == [chip EXCEPT !.valid = FALSE, !.boundary = FALSE]
    <3>1. /\ c \in ChipValues /\ c.pages = chip.pages /\ c.queues = chip.queues
          /\ c.ctl = chip.ctl /\ c.mcu = chip.mcu
      BY <1>0 DEF ChipValues
    <3> HIDE DEF c
    <3>2. chip' = chip \/ chip' = c
      BY <2>0, <2>3, <3>1, WriteType DEF c
    <3>3. ~Calm'
      BY <1>7, <2>3, BringUpAssumption DEF Acknowledged, Calm, GivesUp, Gone, TypeInv, BringUpAssumption
    <3> QED
      BY <1>7, <2>3, <3>1, <3>2, <3>3 DEF Acknowledged
  <2> QED
    BY <1>7, <2>1, <2>2, <2>3 DEF Acknowledged
<1>8. CASE StartCopy
  <2>1. CASE AttemptFails
    BY <1>8, <2>1, AttemptFailsUp DEF StartCopy
  <2>2. CASE Lands(Commanded(chip), {"own", "src"}) /\ pc' = "copying"
    <3> DEFINE sum == IF loader.chunk = 1 THEN {} ELSE chip.sum
               c == [chip EXCEPT !.sum = sum, !.src = TRUE, !.to = Block, !.own = TRUE]
    <3>1. c = Commanded(chip) /\ sum \in SUBSET Held /\ Block \in Blocks
      BY <1>0, BlockIsBlock DEF Commanded, ChipValues, TypeInv
    <3> HIDE DEF sum
    <3>2. /\ c \in ChipValues /\ c.cr = chip.cr /\ c.pages = chip.pages /\ c.queues = chip.queues
          /\ c.quotas = chip.quotas /\ c.ctl = chip.ctl /\ c.mcu = chip.mcu
      BY <1>0, <3>1 DEF ChipValues
    <3> HIDE DEF c
    <3>3. \/ ~present /\ UNCHANGED <<chip, lost>>
          \/ Gives(c) /\ lost.of \ {"own", "src"} \subseteq lost'.of
      BY <2>2, <3>1, <3>2, LandsType
    <3>4. /\ chip'.cr = chip.cr /\ chip'.pages = chip.pages /\ chip'.queues = chip.queues
          /\ chip'.quotas = chip.quotas /\ chip'.ctl = chip.ctl /\ chip'.mcu = chip.mcu
      BY <3>2, <3>3, GivesEach
    <3> QED
      BY <1>8, <2>2, <3>3, <3>4 DEF StartCopy, Calm
  <2> QED
    BY <1>8, <2>1, <2>2 DEF StartCopy
<1>9. CASE Copied
  <2>1. CASE AttemptFails /\ UNCHANGED loader
    BY <1>9, <2>1, AttemptFailsUp DEF Copied
  <2>2. CASE /\ UNCHANGED <<chip, lost>>
             /\ \/ pc' = "send" /\ loader' = [loader EXCEPT !.chunk = @ + 1]
                \/ pc' = "check" /\ UNCHANGED loader
    <3>1. loader'.loaded = loader.loaded /\ loader'.saved = loader.saved
      BY <1>0, <2>2 DEF LoaderValues
    <3>2. pc = "copying" /\ UNCHANGED <<mac, slot, driver, present, blind>>
      BY <1>9 DEF Copied
    <3> QED
      BY <2>2, <3>1, <3>2 DEF Calm
  <2> QED
    BY <1>9, <2>1, <2>2 DEF Copied
<1>10. CASE CheckSection
  <2>1. CASE FailsWith([chip EXCEPT !.sum = {}]) /\ UNCHANGED loader
    <3> DEFINE c == [chip EXCEPT !.sum = {}]
    <3>1. c \in ChipValues /\ c.quotas = chip.quotas /\ c.ctl = chip.ctl /\ c.mcu = chip.mcu
      BY <1>0 DEF ChipValues
    <3> HIDE DEF c
    <3> QED
      BY <1>10, <2>1, <3>1, FailsWithUp DEF CheckSection, c
  <2>2. CASE /\ Write("ctl", [chip EXCEPT !.ctl = @ \union {OkFlag[loader.section]}])
             /\ \/ pc' = "send" /\ loader' = SectionBegun(loader, "imem")
                \/ pc' = "start" /\ UNCHANGED loader
    <3> DEFINE c == [chip EXCEPT !.ctl = @ \union {OkFlag[loader.section]}]
    <3>1. OkFlag[loader.section] \in Flags \ {"DlEn", "CpuReady"} /\ "ctl" \in Registers
      BY <1>0 DEF LoaderValues, Sections, OkFlag, Flags, Registers
    <3>2. /\ c \in ChipValues /\ c.cr = chip.cr /\ c.pages = chip.pages /\ c.queues = chip.queues
          /\ c.quotas = chip.quotas /\ c.mcu = chip.mcu
          /\ c.ctl = chip.ctl \union {OkFlag[loader.section]}
      BY <1>0, <3>1 DEF ChipValues
    <3> HIDE DEF c
    <3>3. lost.of \subseteq lost'.of /\ (chip' = chip \/ chip' = c)
      BY <2>2, <3>1, <3>2, WriteType DEF c
    <3>4. loader'.loaded = loader.loaded /\ loader'.saved = loader.saved
      BY <1>0, <2>2, AtFirstBlock DEF Sections
    <3>5. pc = "check" /\ UNCHANGED <<mac, slot, driver, present, blind>>
      BY <1>10 DEF CheckSection
    <3>6. "CpuReady" \in chip'.ctl => chip'.mcu
      BY <3>1, <3>2, <3>3
    <3> QED
      BY <2>2, <3>2, <3>3, <3>4, <3>5, <3>6 DEF Calm
  <2> QED
    BY <1>10, <2>1, <2>2 DEF CheckSection
<1>11. CASE StartFirmware
  <2> DEFINE flag == ReadyFlag(chip.ctl)
             c == [chip EXCEPT !.ctl = @ \union flag]
  <2>1. flag \subseteq Flags \ {"DlEn", "CpuReady"} /\ "ctl" \in Registers
    BY DEF ReadyFlag, Flags, Registers
  <2>2. Write("ctl", c)
    BY <1>11 DEF StartFirmware
  <2> HIDE DEF flag
  <2>3. /\ c \in ChipValues /\ c.cr = chip.cr /\ c.pages = chip.pages /\ c.queues = chip.queues
        /\ c.quotas = chip.quotas /\ c.mcu = chip.mcu /\ c.ctl = chip.ctl \union flag
    BY <1>0, <2>1 DEF ChipValues
  <2> HIDE DEF c
  <2>4. lost.of \subseteq lost'.of /\ (chip' = chip \/ chip' = c)
    BY <2>1, <2>2, <2>3, WriteType
  <2>5. "CpuReady" \in chip'.ctl => chip'.mcu
    BY <2>1, <2>3, <2>4
  <2> QED
    BY <1>11, <2>3, <2>4, <2>5 DEF StartFirmware, Calm
<1>12. CASE ResumeFirmware
  <2> DEFINE r == Resumed(Restored(chip))
  <2>1. /\ r \in ChipValues /\ r.cr = (chip.cr \ {"Beacon"}) \union loader.saved
        /\ r.ctl = chip.ctl \ {"DlEn"} /\ r.mcu /\ r.quotas = chip.quotas
        /\ r.pages = chip.pages /\ r.queues = chip.queues
    BY <1>0, ResumedEach
  <2>2. \/ present /\ Lands(r, {"mcu"}) /\ "DlEn" \notin chip'.ctl /\ pc' = "ready"
        \/ ~present /\ UNCHANGED <<chip, lost>> /\ pc' \in {"repower", "idle"}
        \/ (\E kept \in SUBSET Registers : Partly(r, kept, {"mcu"})) /\ pc' \in {"repower", "idle"}
    BY <1>12 DEF ResumeFirmware, Changes, GiveUpAttempt
  <2> HIDE DEF r
  <2>3. \/ UNCHANGED <<chip, lost>>
        \/ Gives(r) /\ lost.of \ {"mcu"} \subseteq lost'.of
    BY <2>1, <2>2, LandsType, PartlyType
  <2>4. \/ UNCHANGED <<chip, lost>> /\ pc' \in {"repower", "idle"}
        \/ Gives(r) /\ lost.of \ {"mcu"} \subseteq lost'.of
    BY <2>1, <2>2, <2>3, LandsType
  <2>5. /\ chip'.pages = chip.pages /\ chip'.queues = chip.queues /\ chip'.quotas = chip.quotas
        /\ chip'.ctl \subseteq chip.ctl /\ (chip.mcu => chip'.mcu)
    BY <2>1, <2>3, GivesEach
  <2>6. pc' \in {"ready", "repower", "idle"} /\ (pc' = "ready" => "DlEn" \notin chip'.ctl)
    BY <2>2
  <2>7. ASSUME Calm, pc' = "ready", Kept("cr")' PROVE chip'.cr = {"Engines"}
    <3>1. chip'.cr = r.cr /\ Kept("cr")
      BY <2>4, <2>7, GivesEach
    <3>2. chip.cr = {"Engines", "Beacon"} /\ loader.saved = {}
      BY <1>12, <2>7, <3>1 DEF ResumeFirmware
    <3> QED
      BY <2>1, <3>1, <3>2
  <2>8. Kept("quotas")' => Kept("quotas")
    BY <2>3
  <2>9. pc = "resume" /\ UNCHANGED <<mac, loader, slot, driver, present, blind>>
    BY <1>12 DEF ResumeFirmware
  <2> QED
    BY <2>5, <2>6, <2>7, <2>8, <2>9 DEF Calm
<1>13. CASE PollForReady
  <2>1. CASE present /\ "CpuReady" \in chip.ctl /\ UNCHANGED <<blind, chip, lost>> /\ pc' = "address"
             /\ loader' = [loader EXCEPT !.loaded = TRUE]
    <3>1. loader'.loaded /\ loader'.saved = loader.saved
      BY <1>0, <2>1 DEF LoaderValues
    <3> QED
      BY <1>13, <2>1, <3>1 DEF PollForReady, Calm
  <2>2. CASE GivesUp /\ UNCHANGED <<chip, lost>> /\ pc' = "address"
             /\ loader' = [loader EXCEPT !.loaded = TRUE]
    <3>1. loader'.loaded /\ loader'.saved = loader.saved
      BY <1>0, <2>2 DEF LoaderValues
    <3>2. ~Calm'
      BY <1>13, <2>2, BringUpAssumption
         DEF PollForReady, GivesUp, Gone, Calm, TypeInv, BringUpAssumption
    <3> QED
      BY <1>13, <2>2, <3>1, <3>2 DEF PollForReady
  <2>3. CASE UNCHANGED <<blind, loader>> /\ Write("ctl", [chip EXCEPT !.ctl = @ \ {"DlEn"}])
             /\ GiveUpAttempt
    <3> DEFINE c == [chip EXCEPT !.ctl = @ \ {"DlEn"}]
    <3>1. /\ c \in ChipValues /\ c.quotas = chip.quotas /\ c.mcu = chip.mcu
          /\ c.ctl \subseteq chip.ctl /\ "ctl" \in Registers
      BY <1>0 DEF ChipValues, Registers
    <3> HIDE DEF c
    <3>2. lost.of \subseteq lost'.of /\ (chip' = chip \/ chip' = c)
      BY <2>3, <3>1, WriteType DEF c
    <3> QED
      BY <1>13, <2>3, <3>1, <3>2 DEF PollForReady, GiveUpAttempt, Calm
  <2> QED
    BY <1>13, <2>1, <2>2, <2>3 DEF PollForReady
<1> QED
  BY <1>1, <1>2, <1>3, <1>4, <1>5, <1>6, <1>7, <1>8, <1>9, <1>10, <1>11, <1>12, <1>13
     DEF Loading

\* Without a write nothing is lost.
LEMMA SameLands ==
  ASSUME TypeInv, Lands(chip, {})
  PROVE  chip' = chip /\ lost.of \subseteq lost'.of
<1>1. ~\E kept \in (SUBSET Changes(chip)) \ {{}} : Partly(chip, kept, {})
  <2>1. Changes(chip) = {}
    BY DEF Changes
  <2>2. (SUBSET Changes(chip)) \ {{}} = {}
    BY <2>1, SMT
  <2> QED
    BY <2>2, Zenon
<1>2. chip' = chip /\ (lost' = lost \/ lost' = [lost EXCEPT !.of = @ \ {}])
  BY <1>1 DEF Lands
<1> QED
  BY <1>2 DEF TypeInv, LostValues

LEMMA FinishingUp ==
  ASSUME TypeInv, UpInv, Calm' => Calm, Finishing
  PROVE  UpInv'
<1> USE DEF PastTo, StartedPcs, MacPcs, SendingPcs, LatePcs, UpInv, DriverInv, Shown, Took, TakenPcs,
           Resources, Kept
<1>0. chip \in ChipValues /\ driver \in DriverValues
  BY DEF TypeInv
<1>1. CASE WriteMacAddress
  <2>1. lost.of \subseteq lost'.of /\ chip' = chip
    <3>1. Lands(chip, {})
      BY <1>1 DEF WriteMacAddress, Proceed
    <3> QED
      BY <1>0, <3>1, SameLands
  <2> QED
    BY <1>1, <2>1 DEF WriteMacAddress, Proceed, Calm
<1>2. CASE InitPhy
  <2> DEFINE c == [chip EXCEPT !.bb = "set"]
  <2>1. /\ c \in ChipValues /\ c.bb = "set" /\ c.cr = chip.cr /\ c.pages = chip.pages
        /\ c.queues = chip.queues /\ c.quotas = chip.quotas
        /\ c.mcu = chip.mcu /\ c.ctl = chip.ctl /\ c.agg = chip.agg
    BY <1>0 DEF ChipValues
  <2>2. Lands(c, {"bb"}) /\ present
    BY <1>2 DEF InitPhy, Proceed
  <2> HIDE DEF c
  <2>3. Gives(c) /\ lost.of \ {"bb"} \subseteq lost'.of
    BY <2>1, <2>2, LandsType
  <2>4. /\ Kept("bb")' => chip'.bb = "set"
        /\ chip'.cr = chip.cr /\ chip'.pages = chip.pages
        /\ chip'.queues = chip.queues /\ chip'.quotas = chip.quotas
        /\ chip'.mcu = chip.mcu /\ chip'.ctl = chip.ctl
    BY <2>1, <2>3, GivesEach
  <2> QED
    BY <1>2, <2>3, <2>4 DEF InitPhy, Proceed, Calm
<1>3. CASE EnableMac
  <2> DEFINE a == Aggregating(chip)
             c == [a EXCEPT !.cr = @ \union {"MacTx", "MacRx"}]
  <2>1. /\ a \in ChipValues /\ a.agg /\ a.bb = chip.bb /\ a.cr = chip.cr
        /\ a.pages = chip.pages /\ a.queues = chip.queues /\ a.quotas = chip.quotas
        /\ a.mcu = chip.mcu /\ a.ctl = chip.ctl
    BY <1>0, ChipSteps DEF Aggregating, ChipValues
  <2>2. Lands(c, {"agg"})
    BY <1>3 DEF EnableMac, Proceed
  <2> HIDE DEF a
  <2>3. /\ c \in ChipValues
        /\ c.agg = a.agg /\ c.bb = a.bb /\ c.cr = a.cr \union {"MacTx", "MacRx"}
        /\ c.pages = a.pages /\ c.queues = a.queues /\ c.quotas = a.quotas
        /\ c.mcu = a.mcu /\ c.ctl = a.ctl
    BY <2>1 DEF ChipValues, Engines
  <2> HIDE DEF c
  <2>4. \/ ~present /\ UNCHANGED <<chip, lost>>
        \/ Gives(c) /\ lost.of \ {"agg"} \subseteq lost'.of
    BY <2>2, <2>3, LandsType
  <2>5. /\ present /\ Kept("agg")' => chip'.agg
        /\ present /\ Kept("cr")' => chip'.cr = chip.cr \union {"MacTx", "MacRx"}
        /\ chip'.bb = chip.bb /\ chip'.pages = chip.pages
        /\ chip'.queues = chip.queues /\ chip'.quotas = chip.quotas
        /\ chip'.mcu = chip.mcu /\ chip'.ctl = chip.ctl
    BY <2>1, <2>3, <2>4, GivesEach
  <2>6. /\ Kept("cr")' => Kept("cr")
        /\ Kept("bb")' => Kept("bb")
        /\ Kept("quotas")' => Kept("quotas")
    BY <2>4
  <2>7. /\ pc = "enable" /\ pc' = "rx"
        /\ UNCHANGED <<mac, loader, slot, driver, present, blind>>
    BY <1>3 DEF EnableMac, Proceed
  <2> HIDE DEF Kept
  <2> QED
    BY <2>5, <2>6, <2>7 DEF Calm
<1>4. CASE StartRx
  <2>1. lost.of \subseteq lost'.of /\ chip' = chip
    BY <1>0, <1>4, SameLands DEF StartRx, Proceed
  <2> QED
    BY <1>0, <1>4, <2>1 DEF StartRx, Proceed, Calm, DriverValues
<1>5. CASE StartManager
  <2>1. lost.of \subseteq lost'.of /\ chip' = chip
    BY <1>0, <1>5, SameLands DEF StartManager, Proceed
  <2> QED
    BY <1>0, <1>5, <2>1 DEF StartManager, Proceed, Calm, DriverValues
<1>6. CASE Finish
  <2>1. lost.of \subseteq lost'.of /\ chip' = chip
    BY <1>0, <1>6, SameLands DEF Finish, Proceed
  <2> QED
    BY <1>0, <1>6, <2>1 DEF Finish, Proceed, Calm, DriverValues
<1>7. CASE StageFails
  BY <1>7 DEF StageFails, StopHere, Fails, Calm
<1> QED
  BY <1>1, <1>2, <1>3, <1>4, <1>5, <1>6, <1>7 DEF Finishing

LEMMA AdapterUp ==
  ASSUME TypeInv, UpInv, Calm' => Calm, Adapter \/ Unplug
  PROVE  UpInv'
<1> USE DEF PastTo, UpInv, DriverInv, Shown, Took, TakenPcs, Resources, Kept
<1>0. chip \in ChipValues /\ slot \in SlotValues
  BY DEF TypeInv
<1>1. CASE TransferDone
  <2>1. /\ chip'.cr = chip.cr /\ chip'.pages = chip.pages /\ chip'.queues = chip.queues
        /\ chip'.mcu = chip.mcu /\ chip'.ctl = chip.ctl /\ chip'.agg = chip.agg
        /\ chip'.bb = chip.bb /\ chip'.quotas = chip.quotas
    BY <1>0, <1>1 DEF TransferDone, ChipValues
  <2>2. ~slot'.inUse
    BY <1>0, <1>1 DEF TransferDone, SlotValues
  <2> QED
    BY <1>1, <2>1, <2>2 DEF TransferDone, Draws, Calm
<1>2. CASE TransferCancelled
  <2>2. ~slot'.inUse
    BY <1>0, <1>2 DEF TransferCancelled, SlotValues
  <2> QED
    BY <1>2, <2>2 DEF TransferCancelled, Calm
<1>3. CASE Park
  <2> DEFINE spot == IF chip.boundary THEN Head(chip.fifo) ELSE chip.parked
             rest == Tail(chip.fifo)
  <2>1. chip' = [chip EXCEPT !.fifo = rest, !.valid = TRUE, !.parked = spot]
    BY <1>3 DEF Park
  <2> HIDE DEF spot, rest
  <2>2. /\ chip'.cr = chip.cr /\ chip'.pages = chip.pages /\ chip'.queues = chip.queues
        /\ chip'.mcu = chip.mcu /\ chip'.ctl = chip.ctl /\ chip'.agg = chip.agg
        /\ chip'.bb = chip.bb /\ chip'.quotas = chip.quotas
    BY <1>0, <2>1 DEF ChipValues
  <2> QED
    BY <1>3, <2>2 DEF Park, Calm
<1>4. CASE Copy
  <2> DEFINE block == IF chip.src THEN chip.parked ELSE Junk
             image == [chip.image EXCEPT ![chip.to] = block]
             sum == XorIn(chip.sum, block)
  <2>1. chip' = [chip EXCEPT !.own = FALSE, !.image = image, !.sum = sum]
    BY <1>4 DEF Copy
  <2> HIDE DEF image, sum
  <2>2. /\ chip'.cr = chip.cr /\ chip'.pages = chip.pages /\ chip'.queues = chip.queues
        /\ chip'.mcu = chip.mcu /\ chip'.ctl = chip.ctl /\ chip'.agg = chip.agg
        /\ chip'.bb = chip.bb /\ chip'.quotas = chip.quotas
    BY <1>0, <2>1 DEF ChipValues
  <2> QED
    BY <1>4, <2>2 DEF Copy, Calm
<1>5. CASE Boot
  <2>1. /\ chip'.cr = chip.cr /\ chip'.pages = chip.pages /\ chip'.queues = chip.queues
        /\ chip'.mcu = chip.mcu /\ chip'.agg = chip.agg /\ chip'.bb = chip.bb
        /\ chip'.quotas = chip.quotas
        /\ chip'.ctl = chip.ctl \union {"CpuReady"}
    BY <1>0, <1>5 DEF Boot, ChipValues
  <2> QED
    BY <1>5, <2>1 DEF Boot, Calm
<1>6. CASE Unplug
  BY <1>6 DEF Unplug, Calm
<1> QED
  BY <1>1, <1>2, <1>3, <1>4, <1>5, <1>6 DEF Adapter

LEMMA NextUp == TypeInv /\ UpInv /\ [Next]_vars => UpInv'
<1> SUFFICES ASSUME TypeInv, UpInv, [Next]_vars PROVE UpInv'
  OBVIOUS
<1>0. Calm' => Calm
  BY CalmBefore
<1>1. CASE Open \/ PowerOn \/ PowerOnAgain \/ DecodeEntry \/ InitMAC
  BY <1>0, <1>1, PowerUp
<1>2. CASE Loading
  BY <1>0, <1>2, LoadUp
<1>3. CASE Finishing
  BY <1>0, <1>3, FinishingUp
<1>4. CASE Adapter \/ Unplug
  BY <1>0, <1>4, AdapterUp
<1>5. CASE UNCHANGED vars
  BY <1>5 DEF vars, UpInv, DriverInv, Shown, Took, Resources, Kept, Calm, PastTo
<1> QED
  BY <1>1, <1>2, <1>3, <1>4, <1>5, Zenon DEF Next, OpenThread, Finishing

LEMMA UpHolds == Spec => []UpInv
<1>1. TypeInv /\ UpInv /\ [Next]_vars => UpInv'
  BY NextUp
<1> QED
  BY <1>1, InitUp, TypesHold, PTL DEF Spec

\* An Open() that succeeded, every register read of which was answered, left a
\* chip whose firmware runs, out of download mode, and with pages and a pipe for
\* the frames of the loader's queue, whatever writes were lost; with its MAC on
\* and its baseband configured, but for a register whose own write was lost; and
\* a driver that receives, with no transfer of the loader, refused, late or
\* cancelled, on the slot it used (_InitHardware).
THEOREM UpIsReady == Spec => []UpMeansReady
<1>1. UpInv => UpMeansReady
  BY DEF UpInv, DriverInv, Shown, Took, Resources, Kept, Calm, PastTo, StartedPcs, MacPcs, LatePcs,
         UpMeansReady
<1> QED
  BY <1>1, UpHolds, PTL

-----------------------------------------------------------------------------
(* The firmware in the chip.  What the DDMA engine has accumulated is among  *)
(* the blocks it has copied, so that a good checksum means that they are all *)
(* there, a copy that never began or one from anywhere showing in it.  That  *)
(* each is in its place takes more: with no chunk of an earlier attempt      *)
(* about and every acknowledgement cleared, chip and loader go in step,      *)
(* block by block, until a poll given up makes the chip park no more, and    *)
(* then every further copy is one of the same block.                         *)

Placing == {"send", "sending", "ack", "copy", "copying", "check"}

At(j) == <<loader.section, j>>

\* Blocks of the section copied so far, or thought to be.
Copies == IF (pc = "copying" /\ ~chip.own) \/ pc = "check" THEN loader.chunk
          ELSE loader.chunk - 1

\* Since the attempt began no write was lost that the checksum cannot tell, and
\* none that leaves an old acknowledgement.
Sound == "sum" \notin lost.of /\ "to" \notin lost.of
InOrder == ~leftover /\ "valid" \notin lost.of

\* The engine works for the copy under way, for one that was given up, or, with
\* its reset lost, for one of an attempt before the first copy of this one.
OwnInv ==
  /\ pc \in SendingPcs \union {"ready"} => ~loader.loaded
  /\ chip.own => /\ ~loader.loaded /\ pc \notin {"check", "start", "resume", "ready"}
                 /\ pc \in {"send", "sending", "ack", "copy"} =>
                      loader.section = "dmem" /\ loader.chunk = 1
  /\ pc = "copying" /\ Sound => chip.to = Block
  /\ pc = "check" => loader.chunk = Chunks[loader.section]

\* The checksum is of this section.
Counted == pc = "copying" \/ Copies > 0

SumInv ==
  pc \in Placing /\ Counted /\ Sound =>
    chip.sum \subseteq {chip.image[At(j)] : j \in 1 .. Copies}

Whole(section) == {chip.image[b] : b \in File(section)} = File(section)
InPlace(section) == \A b \in File(section) : chip.image[b] = b

Placed(section) == \/ loader.loaded
                   \/ pc \in {"start", "resume", "ready"}
                   \/ section = "dmem" /\ loader.section = "imem" /\ pc \in Placing

PlacedInv ==
  \A section \in Sections :
    Placed(section) /\ Sound => Whole(section) /\ (InOrder => InPlace(section))

\* Where the one chunk on its way to the reserved page is.
Nowhere == ~slot.queued /\ chip.fifo = <<>> /\ ~chip.valid
OnPipe == slot.queued /\ slot.block = Block /\ chip.fifo = <<>> /\ ~chip.valid
InFifo == ~slot.queued /\ chip.fifo = <<Block>> /\ ~chip.valid
IsParked == ~slot.queued /\ chip.fifo = <<>> /\ chip.parked = Block

InStep ==
  /\ pc \in {"send", "check"} => Nowhere
  /\ pc = "sending" => OnPipe \/ InFifo \/ (IsParked /\ chip.valid)
  /\ pc = "ack" => InFifo \/ (IsParked /\ chip.valid)
  /\ pc \in {"copy", "copying"} => IsParked /\ ~chip.valid

\* The block x, which the checksum counts, was copied as the j-th: to its own place
\* before the k-th, and from then on as the one that was parked.
CopiedAs(x, j, k) == chip.image[At(j)] = x /\ (IF j < k THEN x = At(j) ELSE x = chip.parked)
Stuck(k) == Counted => \A x \in chip.sum : x = Junk \/ \E j \in 1 .. Copies : CopiedAs(x, j, k)

PlaceInv ==
  pc \in Placing /\ present /\ InOrder /\ Sound =>
    /\ chip.boundary => InStep /\ Stuck(Copies + 1)
    /\ ~chip.boundary => \E k \in 1 .. Copies + 1 : Stuck(k)

ImageInv == OwnInv /\ SumInv /\ PlacedInv /\ PlaceInv

LEMMA InitImage == Init => ImageInv
BY DEF Init, ImageInv, OwnInv, SumInv, PlacedInv, PlaceInv, Placed, Placing, SendingPcs

\* No loss that counts is made good: that is done where an attempt begins.
Remembers == \A r \in {"sum", "to", "valid"} : r \in lost.of => r \in lost'.of

LEMMA Remembering ==
  ASSUME Remembers
  PROVE  (Sound' => Sound) /\ (leftover' = leftover => (InOrder' => InOrder))
BY DEF Remembers, Sound, InOrder

\* Outside the loader's loop nothing is asked but that the image stays.
LEMMA OutsideImage ==
  ASSUME ImageInv, pc' \notin SendingPcs \union {"ready"}, chip'.image = chip.image,
         loader'.loaded = loader.loaded, loader.loaded => leftover' = leftover /\ Remembers,
         chip'.own => chip.own
  PROVE  ImageInv'
<1>1. OwnInv'
  BY DEF ImageInv, OwnInv, SendingPcs
<1>2. pc' \notin Placing /\ pc' \notin {"start", "resume", "ready"}
  BY DEF Placing, SendingPcs
<1>3. PlacedInv'
  <2>1. SUFFICES ASSUME loader.loaded PROVE PlacedInv'
    BY <1>2 DEF PlacedInv, Placed
  <2>2. (Sound' => Sound) /\ (InOrder' => InOrder)
    BY <2>1, Remembering
  <2> QED
    BY <2>1, <2>2 DEF ImageInv, PlacedInv, Placed, Whole, InPlace
<1> QED
  BY <1>1, <1>2, <1>3 DEF ImageInv, SumInv, PlaceInv

\* A failed attempt leaves the image as it is.
LEMMA FailsWithImage ==
  ASSUME TypeInv, ImageInv, NEW c \in ChipValues, FailsWith(c), c.image = chip.image,
         c.own = chip.own, loader'.loaded = loader.loaded, leftover' = leftover
  PROVE  ImageInv'
<1>1. /\ pc' \in {"repower", "idle"}
      /\ \/ UNCHANGED <<chip, lost>>
         \/ Gives(Resumed(Restored(c))) /\ lost.of \ {"mcu"} \subseteq lost'.of
  BY FailsWithType
<1>2. Remembers
  BY <1>1 DEF Remembers
<1>3. chip'.image = chip.image /\ chip'.own = chip.own
  <2> DEFINE r == Resumed(Restored(c))
  <2>1. r.image = chip.image /\ r.own = chip.own
    BY ResumedEach
  <2> HIDE DEF r
  <2>2. UNCHANGED chip \/ Gives(r)
    BY <1>1 DEF r
  <2>3. Gives(r) => chip'.image = r.image /\ (chip'.own = r.own \/ chip'.own = chip.own)
    BY DEF Gives, Registers
  <2> QED
    BY <2>1, <2>2, <2>3
<1>4. pc' \notin SendingPcs \union {"ready"}
  BY <1>1 DEF SendingPcs
<1> QED
  BY <1>2, <1>3, <1>4, OutsideImage

LEMMA AttemptFailsImage ==
  ASSUME TypeInv, ImageInv, AttemptFails, loader'.loaded = loader.loaded, leftover' = leftover
  PROVE  ImageInv'
<1>1. chip \in ChipValues /\ FailsWith(chip)
  BY DEF AttemptFails, TypeInv
<1> QED
  BY <1>1, FailsWithImage

LEMMA FileFinite ==
  ASSUME NEW section \in Sections
  PROVE  IsFiniteSet(File(section))
<1>1. Chunks[section] \in Nat
  BY FileBlocks
<1>2. 1 \in Int /\ Chunks[section] \in Int
  BY <1>1
<1>3. IsFiniteSet(1 .. Chunks[section])
  BY <1>2, FS_Interval
<1>4. IsFiniteSet({section})
  BY FS_Singleton
<1> QED
  BY <1>3, <1>4, FS_Product DEF File

\* So many blocks copied that they make the file are the file, each once.
LEMMA AllThere ==
  ASSUME NEW section \in Sections, NEW image \in [Blocks -> Held],
         File(section) \subseteq {image[b] : b \in File(section)}
  PROVE  {image[b] : b \in File(section)} = File(section)
<1> DEFINE S == File(section)
           T == {image[b] : b \in File(section)}
           f == [b \in S |-> image[b]]
<1>1. IsFiniteSet(S)
  BY FileFinite
<1>2. f \in Surjection(S, T)
  BY DEF Surjection
<1>3. IsFiniteSet(T) /\ Cardinality(T) <= Cardinality(S)
  <2> HIDE DEF S, T, f
  <2> QED
    BY <1>1, <1>2, FS_Surjection
<1>4. S \in SUBSET T
  OBVIOUS
<1> HIDE DEF S, T, f
<1>5. Cardinality(S) <= Cardinality(T) /\ (Cardinality(T) = Cardinality(S) => T = S)
  BY <1>3, <1>4, FS_Subset
<1>6. Cardinality(S) \in Nat /\ Cardinality(T) \in Nat
  BY <1>1, <1>3, FS_CardinalityType
<1>7. T = S
  BY <1>3, <1>5, <1>6
<1> QED
  BY <1>7 DEF S, T

\* What the checksum counts is known by the blocks copied, not by what happens to
\* the reserved page, as long as every one of them was the right one.
LEMMA StuckStays ==
  ASSUME TypeInv, loader'.section = loader.section, chip'.image = chip.image,
         chip'.sum = chip.sum, Copies' = Copies, pc' = "copying" => pc = "copying"
  PROVE  /\ Stuck(Copies + 1) => Stuck(Copies + 1)'
         /\ chip'.parked = chip.parked => \A k \in 1 .. Copies + 1 : Stuck(k) => Stuck(k)'
<1>1. Copies \in Nat
  BY DEF Copies, TypeInv, LoaderValues
<1>2. Counted' => Counted
  BY DEF Counted
<1>3. \A j : At(j)' = At(j)
  BY DEF At
<1>4. ASSUME Stuck(Copies + 1) PROVE Stuck(Copies + 1)'
  <2> SUFFICES ASSUME Counted', NEW x \in chip.sum, x # Junk
               PROVE  \E j \in 1 .. Copies : CopiedAs(x, j, Copies + 1)'
    BY DEF Stuck
  <2>1. PICK j \in 1 .. Copies : CopiedAs(x, j, Copies + 1)
    BY <1>2, <1>4 DEF Stuck
  <2>2. j < Copies + 1
    BY <1>1
  <2>3. CopiedAs(x, j, Copies + 1)'
    BY <1>3, <2>1, <2>2 DEF CopiedAs
  <2> QED
    BY <2>3
<1>5. ASSUME chip'.parked = chip.parked, NEW k \in 1 .. Copies + 1, Stuck(k)
      PROVE  Stuck(k)'
  <2>1. \A x, j : CopiedAs(x, j, k)' = CopiedAs(x, j, k)
    BY <1>3, <1>5 DEF CopiedAs
  <2> QED
    BY <1>2, <1>5, <2>1 DEF Stuck
<1> QED
  BY <1>4, <1>5

\* A step that moves no block: the reserved page stays as it is, or the boundary
\* is right.
LEMMA PlaceStays ==
  ASSUME TypeInv, ImageInv, Remembers, UNCHANGED <<loader, leftover>>, present' = present,
         chip'.image = chip.image, chip'.sum = chip.sum, Copies' = Copies,
         pc \in Placing \/ pc' \notin Placing, pc' = "copying" => pc = "copying",
         chip.boundary = chip'.boundary,
         chip'.parked = chip.parked \/ chip.boundary,
         chip.boundary /\ InOrder /\ pc \in Placing /\ InStep => InStep'
  PROVE  PlaceInv'
<1> SUFFICES ASSUME pc' \in Placing, present, InOrder', Sound'
             PROVE  /\ chip.boundary => InStep' /\ Stuck(Copies + 1)'
                    /\ ~chip.boundary => \E k \in 1 .. Copies + 1 : Stuck(k)'
  BY DEF PlaceInv
<1>1. pc \in Placing /\ Sound /\ InOrder
  BY Remembering
<1>2. Stuck(Copies + 1) => Stuck(Copies + 1)'
  BY StuckStays
<1>3. chip'.parked = chip.parked => \A k \in 1 .. Copies + 1 : Stuck(k) => Stuck(k)'
  BY StuckStays
<1> QED
  BY <1>1, <1>2, <1>3 DEF ImageInv, PlaceInv

\* A step of the loader that moves no block and leaves the engine alone.
LEMMA GoesOn ==
  ASSUME TypeInv, ImageInv, Remembers, pc \in {"send", "sending", "ack"},
         pc' \in {"sending", "ack", "copy"},
         UNCHANGED <<loader, leftover>>, present' = present, chip'.image = chip.image,
         chip'.sum = chip.sum, chip'.own = chip.own
  PROVE  OwnInv' /\ SumInv' /\ PlacedInv' /\ Copies' = Copies
<1>0. loader \in LoaderValues /\ (Sound' => Sound) /\ (InOrder' => InOrder)
  BY Remembering DEF TypeInv
<1>1. OwnInv'
  BY <1>0 DEF ImageInv, OwnInv, SendingPcs
<1>2. Copies' = Copies
  BY DEF Copies
<1>3. SumInv'
  BY <1>0, <1>2 DEF ImageInv, SumInv, At, Counted, Placing
<1>4. PlacedInv'
  BY <1>0 DEF ImageInv, PlacedInv, Placed, Whole, InPlace, Placing
<1> QED
  BY <1>1, <1>2, <1>3, <1>4

\* A new attempt: nothing of it is in the checksum, and what may still work is
\* an engine whose reset was lost.
LEMMA BeginImage ==
  ASSUME TypeInv, ImageInv, BeginLoad
  PROVE  ImageInv'
<1>0. /\ pc = "load" /\ UNCHANGED <<slot, present>> /\ ~loader.loaded
      /\ leftover' = (leftover \/ chip.fifo # <<>> \/ slot.queued)
      /\ chip \in ChipValues /\ loader \in LoaderValues
  BY DEF BeginLoad, TypeInv
<1>1. CASE /\ present /\ (Lands(Prepared(chip), Begun) \/ StaysReset)
           /\ chip'.ctl = {"DlEn"} /\ pc' = "send"
           /\ loader' = [SectionBegun(loader, "dmem") EXCEPT !.saved = chip.cr \intersect {"Beacon"}]
  <2> DEFINE l == SectionBegun(loader, "dmem")
  <2>1. ~loader'.loaded /\ loader'.chunk = 1 /\ loader'.section = "dmem"
    <3>1. l \in LoaderValues /\ l.loaded = loader.loaded /\ l.chunk = 1 /\ l.section = "dmem"
      BY <1>0, AtFirstBlock DEF Sections
    <3>2. loader' = [l EXCEPT !.saved = chip.cr \intersect {"Beacon"}]
      BY <1>1
    <3> HIDE DEF l
    <3> QED
      BY <1>0, <3>1, <3>2 DEF LoaderValues
  <2> HIDE DEF l
  <2>2. /\ chip'.fifo = chip.fifo /\ chip'.parked = chip.parked
        /\ "valid" \notin lost'.of => ~chip'.valid
    <3> DEFINE p == Prepared(chip)
               s == [p EXCEPT !.reset = TRUE]
    <3>1. p \in ChipValues /\ ~p.valid /\ p.fifo = chip.fifo /\ p.parked = chip.parked
      BY <1>0, PreparedEach
    <3>2. Gives(p) \/ Gives(s)
      BY <1>1, <3>1, LandsType, StaysResetType
    <3> HIDE DEF p
    <3>3. s \in ChipValues /\ s.valid = p.valid /\ s.fifo = p.fifo /\ s.parked = p.parked
      BY <3>1 DEF ChipValues
    <3> HIDE DEF s
    <3>4. CASE Gives(p)
      BY <3>1, <3>4 DEF Gives, Registers
    <3>5. CASE Gives(s)
      BY <3>1, <3>3, <3>5 DEF Gives, Registers
    <3> QED
      BY <3>2, <3>4, <3>5
  <2>3. Copies' = 0 /\ ~Counted'
    BY <1>1, <2>1 DEF Copies, Counted
  <2>4. OwnInv' /\ SumInv'
    BY <1>1, <2>1, <2>3 DEF OwnInv, SumInv, SendingPcs
  <2>5. PlacedInv'
    BY <1>1, <2>1 DEF PlacedInv, Placed
  <2>6. InOrder' => Nowhere'
    BY <1>0, <2>2 DEF InOrder, Nowhere
  <2>7. PlaceInv'
    <3>1. 1 \in 1 .. Copies' + 1 /\ (\A k : Stuck(k)')
      BY <2>3 DEF Stuck
    <3>2. Stuck(Copies + 1)'
      BY <2>3 DEF Stuck
    <3> QED
      BY <1>1, <2>6, <3>1, <3>2 DEF PlaceInv, InStep
  <2> QED
    BY <2>4, <2>5, <2>7 DEF ImageInv
<1>2. CASE /\ \/ ~present /\ UNCHANGED <<chip, lost>>
              \/ Loses({"ctl"}, {}) /\ chip' \in {chip, [chip EXCEPT !.ctl = @ \ {"DlEn"}]}
           /\ GiveUpAttempt /\ UNCHANGED loader
  <2>1. pc' \notin SendingPcs \union {"ready"}
    BY <1>2 DEF GiveUpAttempt, SendingPcs
  <2>2. chip'.image = chip.image /\ chip'.own = chip.own
    BY <1>0, <1>2 DEF ChipValues
  <2> QED
    BY <1>0, <1>2, <2>1, <2>2, OutsideImage
<1> QED
  BY <1>1, <1>2 DEF BeginLoad

LEMMA SendImage ==
  ASSUME TypeInv, ImageInv, Send
  PROVE  ImageInv'
<1>1. CASE AttemptFails
  BY <1>1, AttemptFailsImage DEF Send
<1>2. CASE ~AttemptFails
  <2>1. /\ slot' = [inUse |-> TRUE, queued |-> TRUE, block |-> Block]
        /\ pc = "send" /\ pc' = "sending" /\ UNCHANGED <<chip, lost, loader, leftover, present>>
    BY <1>2 DEF Send
  <2>2. Remembers
    BY <2>1 DEF Remembers
  <2>3. OwnInv' /\ SumInv' /\ PlacedInv' /\ Copies' = Copies
    BY <2>1, <2>2, GoesOn
  <2>4. Block' = Block /\ slot'.queued /\ slot'.block = Block
    BY <2>1 DEF Block
  <2>5. InStep => InStep'
    BY <2>1, <2>4 DEF InStep, Nowhere, OnPipe
  <2>6. PlaceInv'
    BY <2>1, <2>2, <2>3, <2>5, PlaceStays DEF Placing
  <2> QED
    BY <2>3, <2>6 DEF ImageInv
<1> QED
  BY <1>1, <1>2

LEMMA SentImage ==
  ASSUME TypeInv, ImageInv, Sent
  PROVE  ImageInv'
<1>1. /\ ~slot.queued /\ pc = "sending" /\ pc' = "ack"
      /\ UNCHANGED <<slot, chip, lost, loader, leftover, present>>
  BY DEF Sent
<1>2. Remembers
  BY <1>1 DEF Remembers
<1>3. OwnInv' /\ SumInv' /\ PlacedInv' /\ Copies' = Copies
  BY <1>1, <1>2, GoesOn
<1>4. InStep => InStep'
  BY <1>1 DEF InStep, OnPipe, InFifo, IsParked, Block
<1>5. PlaceInv'
  BY <1>1, <1>2, <1>3, <1>4, PlaceStays DEF Placing
<1> QED
  BY <1>3, <1>5 DEF ImageInv

\* An acknowledgement that was read and cleared lets the two go on in step; one
\* that was given up takes the boundary away, and the copies so far are in place.
LEMMA AcknowledgedImage ==
  ASSUME TypeInv, ImageInv, Acknowledged
  PROVE  ImageInv'
<1>0. /\ UNCHANGED <<slot, loader, leftover, present>> /\ pc = "ack" /\ chip \in ChipValues
      /\ "valid" \in Registers
  BY DEF Acknowledged, TypeInv, Registers
<1>1. CASE AttemptFails
  BY <1>0, <1>1, AttemptFailsImage
<1>2. CASE present /\ chip.valid /\ Write("valid", [chip EXCEPT !.valid = FALSE]) /\ pc' = "copy"
  <2> DEFINE c == [chip EXCEPT !.valid = FALSE]
  <2>1. /\ c \in ChipValues /\ ~c.valid /\ c.image = chip.image /\ c.sum = chip.sum
        /\ c.own = chip.own /\ c.fifo = chip.fifo /\ c.parked = chip.parked
        /\ c.boundary = chip.boundary
    BY <1>0 DEF ChipValues
  <2> HIDE DEF c
  <2>2. /\ lost.of \subseteq lost'.of
        /\ (UNCHANGED chip /\ "valid" \in lost'.of) \/ chip' = c
    BY <1>0, <1>2, <2>1, WriteType DEF c
  <2>3. /\ "valid" \notin lost'.of => ~chip'.valid
        /\ chip'.image = chip.image /\ chip'.sum = chip.sum /\ chip'.own = chip.own
        /\ chip'.fifo = chip.fifo /\ chip'.parked = chip.parked /\ chip'.boundary = chip.boundary
    BY <2>1, <2>2
  <2>4. Remembers
    BY <2>2 DEF Remembers
  <2>5. OwnInv' /\ SumInv' /\ PlacedInv' /\ Copies' = Copies
    BY <1>0, <1>2, <2>3, <2>4, GoesOn
  <2>6. PlaceInv'
    <3>1. CASE "valid" \in lost'.of
      BY <3>1 DEF PlaceInv, InOrder
    <3>2. CASE "valid" \notin lost'.of
      <4>1. InStep => InStep'
        BY <1>0, <1>2, <2>3, <3>2 DEF InStep, InFifo, IsParked, Block
      <4> QED
        BY <1>0, <1>2, <2>3, <2>4, <2>5, <4>1, PlaceStays DEF Placing
    <3> QED
      BY <3>1, <3>2
  <2> QED
    BY <2>5, <2>6 DEF ImageInv
<1>3. CASE /\ GivesUp /\ pc' = "copy"
           /\ Write("valid", [chip EXCEPT !.valid = FALSE, !.boundary = FALSE])
  <2> DEFINE c == [chip EXCEPT !.valid = FALSE, !.boundary = FALSE]
  <2>1. /\ c \in ChipValues /\ ~c.boundary /\ c.image = chip.image /\ c.sum = chip.sum
        /\ c.own = chip.own /\ c.parked = chip.parked
    BY <1>0 DEF ChipValues
  <2> HIDE DEF c
  <2>2. /\ lost.of \subseteq lost'.of
        /\ (UNCHANGED chip /\ (present => "valid" \in lost'.of)) \/ chip' = c
    BY <1>0, <1>3, <2>1, WriteType DEF c
  <2>3. /\ present /\ "valid" \notin lost'.of => ~chip'.boundary
        /\ chip'.image = chip.image /\ chip'.sum = chip.sum /\ chip'.own = chip.own
        /\ chip'.parked = chip.parked
    BY <2>1, <2>2
  <2>4. Remembers
    BY <2>2 DEF Remembers
  <2>5. OwnInv' /\ SumInv' /\ PlacedInv' /\ Copies' = Copies
    BY <1>0, <1>3, <2>3, <2>4, GoesOn
  <2>6. PlaceInv'
    <3> SUFFICES ASSUME present, InOrder', Sound'
                 PROVE  ~chip'.boundary /\ \E k \in 1 .. Copies + 1 : Stuck(k)'
      BY <1>0, <2>5 DEF PlaceInv
    <3>1. ~chip'.boundary /\ InOrder /\ Sound
      BY <1>0, <2>3, <2>4, Remembering DEF InOrder
    <3>2. \E k \in 1 .. Copies + 1 : Stuck(k)
      <4>1. Copies + 1 \in 1 .. Copies + 1
        BY <1>0 DEF Copies, TypeInv, LoaderValues
      <4> QED
        BY <1>0, <3>1, <4>1 DEF ImageInv, PlaceInv, Placing
    <3>3. \A k \in 1 .. Copies + 1 : Stuck(k) => Stuck(k)'
      BY <1>0, <1>3, <2>3, <2>5, StuckStays
    <3> QED
      BY <3>1, <3>2, <3>3
  <2> QED
    BY <2>5, <2>6 DEF ImageInv
<1> QED
  BY <1>1, <1>2, <1>3 DEF Acknowledged


\* The command, whichever of its writes was lost.  With the last of them lost
\* nothing is copied, and with the first something from anywhere.
LEMMA StartCopyImage ==
  ASSUME TypeInv, ImageInv, StartCopy
  PROVE  ImageInv'
<1> DEFINE afresh == IF loader.chunk = 1 THEN {} ELSE chip.sum
<1>0. /\ UNCHANGED <<slot, loader, leftover, present>> /\ pc = "copy" /\ chip \in ChipValues
      /\ loader \in LoaderValues
  BY DEF StartCopy, TypeInv
<1>1. CASE AttemptFails
  BY <1>0, <1>1, AttemptFailsImage
<1>2. CASE ~AttemptFails
  <2>1. /\ Lands(Commanded(chip), {"own", "src"}) /\ pc' = "copying" /\ ~chip.own /\ present
    BY <1>2 DEF StartCopy
  <2> DEFINE c == Commanded(chip)
  <2>2. /\ c \in ChipValues /\ c.sum = afresh /\ c.to = Block /\ c.image = chip.image
        /\ c.fifo = chip.fifo /\ c.parked = chip.parked /\ c.valid = chip.valid
        /\ c.boundary = chip.boundary
    <3>1. c = [chip EXCEPT !.sum = afresh, !.src = TRUE, !.to = Block, !.own = TRUE]
      BY DEF Commanded
    <3>2. afresh \in SUBSET Held /\ Block \in Blocks
      BY <1>0, BlockIsBlock DEF ChipValues, TypeInv
    <3> HIDE DEF afresh, c
    <3> QED
      BY <1>0, <3>1, <3>2 DEF ChipValues
  <2> HIDE DEF c, afresh
  <2>3. Gives(c) /\ lost.of \ {"own", "src"} \subseteq lost'.of
    BY <2>1, <2>2, LandsType DEF c
  <2>4. /\ "sum" \notin lost'.of => chip'.sum = afresh
        /\ "to" \notin lost'.of => chip'.to = Block
        /\ chip'.image = chip.image /\ chip'.fifo = chip.fifo /\ chip'.parked = chip.parked
        /\ chip'.valid = chip.valid /\ chip'.boundary = chip.boundary
    BY <2>2, <2>3, GivesEach DEF Gives
  <2>5. Remembers /\ (Sound' => Sound) /\ (InOrder' => InOrder)
    <3>1. Remembers
      BY <2>3 DEF Remembers
    <3> QED
      BY <1>0, <3>1, Remembering
  <2>6. OwnInv'
    BY <1>0, <2>1, <2>4 DEF ImageInv, OwnInv, SendingPcs, Block, Sound
  <2>7. /\ Copies = loader.chunk - 1 /\ loader.chunk \in Nat \ {0}
        /\ Copies \in Nat /\ Copies' \in Nat /\ Copies <= Copies'
    BY <1>0, <2>1 DEF Copies, LoaderValues
  <2>8. ASSUME Sound', NEW x \in chip'.sum
        PROVE  x \in chip.sum /\ Counted
    <3>1. loader.chunk # 1 /\ chip'.sum = chip.sum
      BY <2>4, <2>8 DEF Sound, afresh
    <3> QED
      BY <2>7, <2>8, <3>1 DEF Counted
  <2>9. SumInv'
    <3> SUFFICES ASSUME Sound', NEW x \in chip'.sum
                 PROVE  \E j \in 1 .. Copies' : x = chip'.image[At(j)']
      BY DEF SumInv
    <3>1. x \in chip.sum /\ Counted
      BY <2>8
    <3>2. PICK j \in 1 .. Copies : x = chip.image[At(j)]
      BY <1>0, <2>5, <3>1 DEF ImageInv, SumInv, Placing
    <3>3. j \in 1 .. Copies' /\ At(j)' = At(j)
      BY <1>0, <2>7, <3>2 DEF At
    <3> QED
      BY <2>4, <3>2, <3>3
  <2>10. PlacedInv'
    BY <1>0, <2>1, <2>4, <2>5 DEF ImageInv, PlacedInv, Placed, Whole, InPlace, Placing
  <2>11. InStep => InStep'
    BY <1>0, <2>1, <2>4 DEF InStep, IsParked, Block
  <2>12. PlaceInv'
    <3> SUFFICES ASSUME InOrder', Sound'
                 PROVE  /\ chip.boundary => InStep' /\ Stuck(Copies + 1)'
                        /\ ~chip.boundary => \E k \in 1 .. Copies' + 1 : Stuck(k)'
      BY <2>4 DEF PlaceInv
    <3>1. ASSUME NEW k \in 1 .. Copies + 1, NEW m \in {k, Copies' + 1}, Stuck(k),
                 k = Copies + 1 \/ m = k
          PROVE  Stuck(m)'
      <4> SUFFICES ASSUME NEW x \in chip'.sum, x # Junk
                   PROVE  \E j \in 1 .. Copies' : CopiedAs(x, j, m)'
        BY DEF Stuck
      <4>1. x \in chip.sum /\ Counted
        BY <2>8
      <4>2. PICK j \in 1 .. Copies : CopiedAs(x, j, k)
        BY <3>1, <4>1 DEF Stuck
      <4>3. j \in 1 .. Copies' /\ (m # k => j < k /\ j < m)
        <5>1. ASSUME NEW i \in Nat, NEW n \in Nat, i <= n, NEW h \in 1 .. i
              PROVE  h \in 1 .. n /\ h < i + 1 /\ h < n + 1
          BY <5>1
        <5>2. m # k => k = Copies + 1 /\ m = Copies' + 1
          BY <3>1
        <5> QED
          BY <2>7, <5>1, <5>2
      <4>4. At(j)' = At(j)
        BY <1>0 DEF At
      <4>5. CopiedAs(x, j, m)'
        BY <2>4, <3>1, <4>2, <4>3, <4>4 DEF CopiedAs
      <4> QED
        BY <4>3, <4>5
    <3>2. CASE chip.boundary
      <4>1. InStep /\ Stuck(Copies + 1) /\ Copies + 1 \in 1 .. Copies + 1
        BY <1>0, <2>1, <2>5, <2>7, <3>2 DEF ImageInv, PlaceInv, Placing
      <4>2. Stuck(Copies + 1)'
        BY <3>1, <4>1
      <4> QED
        BY <2>11, <3>2, <4>1, <4>2
    <3>3. CASE ~chip.boundary
      <4>1. PICK k \in 1 .. Copies + 1 : Stuck(k)
        BY <1>0, <2>1, <2>5, <3>3 DEF ImageInv, PlaceInv, Placing
      <4>2. Stuck(k)'
        BY <3>1, <4>1
      <4>3. k \in 1 .. Copies' + 1
        <5>1. \A i, j \in Nat : i <= j => \A h \in 1 .. i + 1 : h \in 1 .. j + 1
          OBVIOUS
        <5> QED
          BY <2>7, <5>1
      <4> QED
        BY <3>3, <4>2, <4>3
    <3> QED
      BY <3>2, <3>3
  <2> QED
    BY <2>6, <2>9, <2>10, <2>12 DEF ImageInv
<1> QED
  BY <1>1, <1>2

LEMMA CopiedImage ==
  ASSUME TypeInv, ImageInv, Copied
  PROVE  ImageInv'
<1>0. /\ UNCHANGED <<slot, leftover, present>> /\ pc = "copying" /\ chip \in ChipValues
      /\ loader \in LoaderValues /\ loader.chunk <= Chunks[loader.section]
      /\ Chunks[loader.section] \in Nat
  BY FileBlocks DEF Copied, TypeInv, LoaderValues
<1>1. CASE ~present \/ chip.own
  <2>1. AttemptFails /\ UNCHANGED loader
    BY <1>1 DEF Copied
  <2> QED
    BY <1>0, <2>1, AttemptFailsImage
<1>2. CASE present /\ ~chip.own
  <2>1. chip' = chip /\ lost' = lost /\ Copies = loader.chunk
    BY <1>0, <1>2 DEF Copied, Copies
  <2>2. /\ loader'.section = loader.section /\ loader'.loaded = loader.loaded
        /\ Copies' = Copies
        /\ \/ pc' = "send"
           \/ pc' = "check" /\ loader'.chunk = Chunks[loader.section]
    <3>1. CASE loader.chunk < Chunks[loader.section]
      <4>1. pc' = "send" /\ loader' = [loader EXCEPT !.chunk = @ + 1]
        BY <1>2, <3>1 DEF Copied
      <4> QED
        BY <1>0, <2>1, <4>1 DEF LoaderValues, Copies
    <3>2. CASE ~(loader.chunk < Chunks[loader.section])
      <4>1. pc' = "check" /\ loader' = loader
        BY <1>2, <3>2 DEF Copied
      <4>2. loader.chunk = Chunks[loader.section]
        BY <1>0, <3>2 DEF LoaderValues
      <4> QED
        BY <1>0, <2>1, <4>1, <4>2 DEF Copies
    <3> QED
      BY <3>1, <3>2
  <2>3. OwnInv'
    BY <1>0, <1>2, <2>1, <2>2 DEF ImageInv, OwnInv, SendingPcs
  <2>4. SumInv'
    BY <1>0, <2>1, <2>2 DEF ImageInv, SumInv, At, Placing, Counted, Sound
  <2>5. PlacedInv'
    BY <1>0, <2>1, <2>2 DEF ImageInv, PlacedInv, Placed, Whole, InPlace, Placing, Sound, InOrder
  <2>6. InStep => InStep'
    BY <1>0, <2>1, <2>2 DEF InStep, IsParked, Nowhere
  <2>7. PlaceInv'
    <3>1. /\ Stuck(Copies + 1) => Stuck(Copies + 1)'
          /\ \A k \in 1 .. Copies + 1 : Stuck(k) => Stuck(k)'
      BY <1>0, <2>1, <2>2, StuckStays
    <3> QED
      BY <1>0, <1>2, <2>1, <2>2, <2>6, <3>1 DEF ImageInv, PlaceInv, Placing, InOrder, Sound
  <2> QED
    BY <2>3, <2>4, <2>5, <2>7 DEF ImageInv
<1> QED
  BY <1>1, <1>2

\* A section whose checksum is good is in the chip.
LEMMA GoodSection ==
  ASSUME TypeInv, ImageInv, pc = "check", present, SumGood(loader.section), Sound
  PROVE  Whole(loader.section) /\ (InOrder => InPlace(loader.section))
<1> DEFINE s == loader.section
           n == Chunks[s]
<1>1. /\ s \in Sections /\ n \in Nat \ {0} /\ chip.image \in [Blocks -> Held]
      /\ Copies = n /\ chip.sum = File(s) /\ Counted
  BY FileBlocks DEF TypeInv, LoaderValues, ChipValues, ImageInv, OwnInv, Copies, SumGood, Counted
<1>2. \A b : b \in File(s) <=> \E j \in 1 .. n : b = <<s, j>>
  BY DEF File
<1>3. /\ \A j \in 1 .. n : At(j) = <<s, j>> /\ At(j) \in File(s)
      /\ \A i, j \in 1 .. n : At(i) = At(j) => i = j
  BY <1>2 DEF At
<1>4. File(s) \subseteq {chip.image[At(j)] : j \in 1 .. n}
  BY <1>1 DEF ImageInv, SumInv, Placing
<1>7. Junk \notin File(s)
  BY <1>1, <1>2 DEF Junk, Sections
<1> HIDE DEF s, n
<1>5. Whole(s)
  <2>1. File(s) \subseteq {chip.image[b] : b \in File(s)}
    BY <1>3, <1>4
  <2> QED
    BY <1>1, <2>1, AllThere DEF Whole
<1>6. ASSUME InOrder PROVE InPlace(s)
  <2>1. PICK k \in 1 .. n + 1 : Stuck(k)
    <3>1. CASE chip.boundary
      <4>1. Stuck(Copies + 1)
        BY <1>1, <1>6, <3>1 DEF ImageInv, PlaceInv, Placing
      <4> QED
        BY <1>1, <4>1
    <3>2. CASE ~chip.boundary
      BY <1>1, <1>6, <3>2 DEF ImageInv, PlaceInv, Placing
    <3> QED
      BY <3>1, <3>2
  <2>2. \A i \in 1 .. n : \E j \in 1 .. n : CopiedAs(At(i), j, k)
    BY <1>1, <1>3, <1>7, <2>1 DEF Stuck
  <2>3. \A i, j \in 1 .. n : CopiedAs(At(i), j, k) => IF j < k THEN i = j ELSE At(i) = chip.parked
    BY <1>3 DEF CopiedAs
  <2>4. PICK last \in 1 .. n : CopiedAs(At(n), last, k)
    BY <1>1, <2>2
  <2>5. ASSUME NEW i \in 1 .. n PROVE chip.image[At(i)] = At(i)
    <3>1. PICK j \in 1 .. n : CopiedAs(At(i), j, k)
      BY <2>2
    <3>2. CASE j < k
      BY <2>3, <3>1, <3>2 DEF CopiedAs
    <3>3. CASE ~(j < k)
      <4>1. At(i) = chip.parked
        BY <2>3, <3>1, <3>3
      <4>2. ~(last < k)
        BY <1>1, <2>3, <2>4, <3>1, <3>3
      <4>3. i = n
        BY <1>1, <1>3, <2>3, <2>4, <4>1, <4>2
      <4>4. CASE n = 1
        BY <1>1, <3>1, <4>3, <4>4 DEF CopiedAs
      <4>5. CASE n # 1
        <5>1. n - 1 \in 1 .. n
          BY <1>1, <4>5
        <5>2. PICK m \in 1 .. n : CopiedAs(At(n - 1), m, k)
          BY <2>2, <5>1
        <5>3. m = n - 1 /\ m < k
          <6>1. At(n - 1) # chip.parked
            BY <1>1, <1>3, <4>1, <4>3, <5>1
          <6> QED
            BY <1>1, <2>3, <5>1, <5>2, <6>1
        <5>4. j = n
          BY <1>1, <3>3, <5>3
        <5> QED
          BY <3>1, <4>3, <5>4 DEF CopiedAs
      <4> QED
        BY <4>4, <4>5
    <3> QED
      BY <3>2, <3>3
  <2> QED
    BY <1>2, <1>3, <2>5 DEF InPlace
<1> QED
  BY <1>5, <1>6 DEF s

LEMMA CheckImage ==
  ASSUME TypeInv, ImageInv, CheckSection
  PROVE  ImageInv'
<1>0. /\ UNCHANGED <<slot, leftover, present>> /\ pc = "check" /\ chip \in ChipValues
      /\ loader \in LoaderValues
  BY DEF CheckSection, TypeInv
<1>1. CASE ~(present /\ SumGood(loader.section))
  <2> DEFINE c == [chip EXCEPT !.sum = {}]
  <2>1. FailsWith(c) /\ UNCHANGED loader
    BY <1>1 DEF CheckSection
  <2>2. c \in ChipValues /\ c.image = chip.image /\ c.own = chip.own
    BY <1>0 DEF ChipValues
  <2> HIDE DEF c
  <2> QED
    BY <1>0, <2>1, <2>2, FailsWithImage
<1>2. CASE present /\ SumGood(loader.section)
  <2> DEFINE c == [chip EXCEPT !.ctl = @ \union {OkFlag[loader.section]}]
  <2>1. Write("ctl", c)
    BY <1>2 DEF CheckSection
  <2>2. /\ c \in ChipValues /\ c.sum = chip.sum /\ c.own = chip.own /\ c.image = chip.image
        /\ c.fifo = chip.fifo /\ c.parked = chip.parked /\ c.valid = chip.valid
        /\ c.boundary = chip.boundary
    <3>1. OkFlag[loader.section] \in Flags
      BY <1>0 DEF LoaderValues, Sections, OkFlag, Flags
    <3> QED
      BY <1>0, <3>1 DEF ChipValues
  <2> HIDE DEF c
  <2>3. (UNCHANGED chip \/ chip' = c) /\ lost.of \subseteq lost'.of
    <3>1. "ctl" \in Registers
      BY DEF Registers
    <3> QED
      BY <2>1, <2>2, <3>1, WriteType
  <2>4. /\ chip'.sum = chip.sum /\ chip'.own = chip.own /\ chip'.image = chip.image
        /\ chip'.fifo = chip.fifo /\ chip'.parked = chip.parked /\ chip'.valid = chip.valid
        /\ chip'.boundary = chip.boundary
    BY <2>2, <2>3
  <2>5. (Sound' => Sound) /\ (InOrder' => InOrder)
    <3>1. Remembers
      BY <2>3 DEF Remembers
    <3> QED
      BY <1>0, <3>1, Remembering
  <2>6. Sound => Whole(loader.section) /\ (InOrder => InPlace(loader.section))
    BY <1>0, <1>2, GoodSection
  <2>7. ~loader.loaded /\ ~chip.own
    BY <1>0 DEF ImageInv, OwnInv, SendingPcs
  <2>8. CASE loader.section = "dmem"
    <3>1. pc' = "send" /\ loader' = SectionBegun(loader, "imem")
      BY <1>2, <2>8 DEF CheckSection
    <3>2. loader'.loaded = loader.loaded /\ loader'.section = "imem" /\ loader'.chunk = 1
      BY <1>0, <3>1, AtFirstBlock DEF Sections
    <3>3. Copies' = 0 /\ ~Counted'
      BY <3>1, <3>2 DEF Copies, Counted
    <3>4. OwnInv' /\ SumInv'
      BY <2>4, <2>7, <3>1, <3>2, <3>3 DEF OwnInv, SumInv, SendingPcs
    <3>5. PlacedInv'
      BY <1>0, <2>4, <2>5, <2>6, <2>7, <2>8, <3>1, <3>2
         DEF PlacedInv, Placed, Whole, InPlace, Sections
    <3>6. InStep => InStep'
      BY <1>0, <2>4, <3>1 DEF InStep, Nowhere
    <3>7. (\A k : Stuck(k)') /\ Stuck(Copies + 1)' /\ 1 \in 1 .. Copies' + 1
      BY <3>3 DEF Stuck
    <3>8. PlaceInv'
      BY <1>0, <2>4, <2>5, <3>1, <3>3, <3>6, <3>7 DEF ImageInv, PlaceInv, Placing
    <3> QED
      BY <3>4, <3>5, <3>8 DEF ImageInv
  <2>9. CASE loader.section # "dmem"
    <3>1. pc' = "start" /\ UNCHANGED loader /\ loader.section = "imem"
      BY <1>0, <1>2, <2>9 DEF CheckSection, LoaderValues, Sections
    <3>2. OwnInv'
      BY <2>4, <2>7, <3>1 DEF OwnInv, SendingPcs
    <3>3. ASSUME Sound
          PROVE  \A section \in Sections : Whole(section) /\ (InOrder => InPlace(section))
      <4>1. Whole("dmem") /\ (InOrder => InPlace("dmem"))
        BY <1>0, <3>1, <3>3 DEF ImageInv, PlacedInv, Placed, Placing, Sections
      <4> QED
        BY <2>6, <3>1, <3>3, <4>1 DEF Sections
    <3>4. PlacedInv'
      BY <1>0, <2>4, <2>5, <3>3 DEF PlacedInv, Whole, InPlace
    <3> QED
      BY <3>1, <3>2, <3>4 DEF ImageInv, SumInv, PlaceInv, Placing
  <2> QED
    BY <2>8, <2>9
<1> QED
  BY <1>1, <1>2

\* From the good checksums on nothing moves a block.
LEMMA StartedImage ==
  ASSUME TypeInv, ImageInv, StartFirmware \/ ResumeFirmware \/ PollForReady
  PROVE  ImageInv'
<1>0. chip \in ChipValues /\ loader \in LoaderValues /\ "ctl" \in Registers
  BY DEF TypeInv, Registers
<1>1. CASE StartFirmware
  <2> DEFINE c == [chip EXCEPT !.ctl = @ \union ReadyFlag(@)]
  <2>1. Write("ctl", c) /\ pc = "start" /\ pc' = "resume" /\ UNCHANGED <<loader, leftover>>
    BY <1>1 DEF StartFirmware
  <2>2. c \in ChipValues /\ c.image = chip.image /\ c.own = chip.own
    <3>1. chip.ctl \union ReadyFlag(chip.ctl) \in SUBSET Flags
      BY <1>0 DEF ReadyFlag, Flags, ChipValues
    <3> QED
      BY <1>0, <3>1 DEF ChipValues
  <2> HIDE DEF c
  <2>3. /\ lost.of \subseteq lost'.of /\ chip'.image = chip.image /\ chip'.own = chip.own
    BY <1>0, <2>1, <2>2, WriteType
  <2>4. (Sound' => Sound) /\ (InOrder' => InOrder)
    <3>1. Remembers
      BY <2>3 DEF Remembers
    <3> QED
      BY <2>1, <3>1, Remembering
  <2>5. OwnInv'
    BY <2>1, <2>3 DEF ImageInv, OwnInv, SendingPcs
  <2>6. PlacedInv'
    BY <2>1, <2>3, <2>4 DEF ImageInv, PlacedInv, Placed, Whole, InPlace
  <2> QED
    BY <2>1, <2>5, <2>6 DEF ImageInv, SumInv, PlaceInv, Placing
<1>2. CASE ResumeFirmware
  <2> DEFINE c == Resumed(Restored(chip))
  <2>1. c \in ChipValues /\ c.image = chip.image /\ c.own = chip.own
    BY <1>0, ResumedEach
  <2> HIDE DEF c
  <2>2. /\ pc = "resume" /\ UNCHANGED <<loader, leftover>>
        /\ pc' = "ready" \/ pc' \notin SendingPcs \union {"ready"}
        /\ Lands(c, {"mcu"}) \/ UNCHANGED <<chip, lost>>
           \/ \E kept \in SUBSET Registers : Partly(c, kept, {"mcu"})
    BY <1>2 DEF ResumeFirmware, GiveUpAttempt, SendingPcs, c, Changes
  <2>3. UNCHANGED <<chip, lost>> \/ (Gives(c) /\ lost.of \ {"mcu"} \subseteq lost'.of)
    BY <2>1, <2>2, LandsType, PartlyType
  <2>4. chip'.image = chip.image /\ chip'.own = chip.own /\ Remembers
    BY <2>1, <2>3, GivesEach DEF Gives, Remembers
  <2>5. CASE pc' = "ready"
    <3>1. (Sound' => Sound) /\ (InOrder' => InOrder)
      BY <2>2, <2>4, Remembering
    <3>2. OwnInv'
      BY <2>2, <2>4, <2>5 DEF ImageInv, OwnInv, SendingPcs
    <3>3. PlacedInv'
      BY <2>2, <2>4, <2>5, <3>1 DEF ImageInv, PlacedInv, Placed, Whole, InPlace
    <3> QED
      BY <2>5, <3>2, <3>3 DEF ImageInv, SumInv, PlaceInv, Placing
  <2>6. CASE pc' \notin SendingPcs \union {"ready"}
    BY <2>2, <2>4, <2>6, OutsideImage
  <2> QED
    BY <2>2, <2>5, <2>6
<1>3. CASE PollForReady
  <2>1. CASE /\ UNCHANGED <<blind, loader>> /\ Write("ctl", [chip EXCEPT !.ctl = @ \ {"DlEn"}])
             /\ GiveUpAttempt
    <3> DEFINE c == [chip EXCEPT !.ctl = @ \ {"DlEn"}]
    <3>1. c \in ChipValues /\ c.image = chip.image /\ c.own = chip.own
      BY <1>0 DEF ChipValues
    <3> HIDE DEF c
    <3>2. lost.of \subseteq lost'.of /\ chip'.image = chip.image /\ chip'.own = chip.own
      BY <1>0, <2>1, <3>1, WriteType DEF c
    <3>3. pc' \notin SendingPcs \union {"ready"}
      BY <2>1 DEF GiveUpAttempt, SendingPcs
    <3>4. Remembers /\ UNCHANGED leftover
      BY <1>3, <3>2 DEF PollForReady, Remembers
    <3> QED
      BY <2>1, <3>2, <3>3, <3>4, OutsideImage
  <2>2. CASE UNCHANGED <<chip, lost>> /\ loader' = [loader EXCEPT !.loaded = TRUE] /\ pc' = "address"
    <3>1. pc = "ready" /\ ~chip.own /\ UNCHANGED leftover
      BY <1>3 DEF PollForReady, ImageInv, OwnInv
    <3>2. OwnInv'
      BY <2>2, <3>1 DEF OwnInv, SendingPcs
    <3>3. PlacedInv'
      BY <2>2, <3>1 DEF ImageInv, PlacedInv, Placed, Whole, InPlace, Sound, InOrder
    <3> QED
      BY <2>2, <3>2, <3>3 DEF ImageInv, SumInv, PlaceInv, Placing
  <2> QED
    BY <1>3, <2>1, <2>2 DEF PollForReady
<1> QED
  BY <1>1, <1>2, <1>3

\* A step of the adapter that copies nothing.
LEMMA AsideImage ==
  ASSUME TypeInv, ImageInv, UNCHANGED <<pc, loader, leftover, lost>>, chip'.image = chip.image,
         chip'.sum = chip.sum, chip'.own = chip.own, chip'.to = chip.to
  PROVE  OwnInv' /\ SumInv' /\ PlacedInv' /\ Copies' = Copies /\ Remembers
<1>1. Copies' = Copies
  BY DEF Copies
<1>2. OwnInv'
  BY DEF ImageInv, OwnInv, Block, Sound
<1>3. SumInv'
  BY <1>1 DEF ImageInv, SumInv, At, Counted, Sound
<1>4. PlacedInv'
  BY DEF ImageInv, PlacedInv, Placed, Whole, InPlace, Sound, InOrder
<1>5. Remembers
  BY DEF Remembers
<1> QED
  BY <1>1, <1>2, <1>3, <1>4, <1>5

\* The block the engine was told to copy goes where it belongs, or outside the
\* section that is being transferred.
LEMMA CopyImage ==
  ASSUME TypeInv, ImageInv, Copy
  PROVE  ImageInv'
<1> DEFINE block == IF chip.src THEN chip.parked ELSE Junk
           image == [chip.image EXCEPT ![chip.to] = block]
           sum == XorIn(chip.sum, block)
<1>0. /\ UNCHANGED <<pc, loader, leftover, lost, slot, present>> /\ chip.own
      /\ chip \in ChipValues /\ loader \in LoaderValues
  BY DEF Copy, TypeInv
<1>1. chip' = [chip EXCEPT !.own = FALSE, !.image = image, !.sum = sum]
  BY DEF Copy
<1>2. block = chip.parked \/ block = Junk
  OBVIOUS
<1> HIDE DEF block
<1>3. /\ \A b \in Blocks : image[b] = IF b = chip.to THEN block ELSE chip.image[b]
      /\ sum \subseteq chip.sum \union {block}
  BY <1>0 DEF ChipValues, XorIn
<1> HIDE DEF image, sum
<1>4. /\ chip'.image = image /\ chip'.sum = sum /\ ~chip'.own /\ chip'.fifo = chip.fifo
      /\ chip'.parked = chip.parked /\ chip'.valid = chip.valid
      /\ chip'.boundary = chip.boundary /\ chip'.to = chip.to
  BY <1>0, <1>1 DEF ChipValues
<1>5. /\ ~loader.loaded /\ pc \notin {"check", "start", "resume", "ready"}
      /\ pc \in {"send", "sending", "ack", "copy"} => loader.section = "dmem" /\ loader.chunk = 1
      /\ pc = "copying" /\ Sound => chip.to = Block
      /\ Sound' = Sound /\ InOrder' = InOrder
  BY <1>0 DEF ImageInv, OwnInv, Sound, InOrder
<1>6. OwnInv'
  BY <1>0, <1>4, <1>5 DEF ImageInv, OwnInv, Block, SendingPcs
<1>7. ASSUME pc = "copying", Sound
      PROVE  /\ Copies' = loader.chunk /\ Copies = loader.chunk - 1 /\ loader.chunk \in Nat \ {0}
             /\ \A j \in 1 .. loader.chunk : At(j)' = At(j) /\ At(j) \in Blocks
             /\ \A j \in 1 .. loader.chunk - 1 : image[At(j)] = chip.image[At(j)]
             /\ image[At(loader.chunk)] = block
  <2>1. /\ Copies' = loader.chunk /\ Copies = loader.chunk - 1 /\ loader.chunk \in Nat \ {0}
        /\ loader.chunk <= Chunks[loader.section] /\ loader.section \in Sections
        /\ Chunks[loader.section] \in Nat
    BY <1>0, <1>4, <1>7, FileBlocks DEF Copies, LoaderValues, TypeInv
  <2>2. \A j \in 1 .. loader.chunk : At(j)' = At(j) /\ At(j) \in Blocks
    BY <1>0, <2>1, FileBlocks DEF At
  <2>3. chip.to = At(loader.chunk)
    BY <1>5, <1>7 DEF At, Block
  <2>4. \A j \in 1 .. loader.chunk - 1 : At(j) # chip.to
    BY <2>1, <2>3 DEF At
  <2>5. image[At(loader.chunk)] = block
    BY <1>3, <2>1, <2>2, <2>3
  <2>6. \A j \in 1 .. loader.chunk - 1 : image[At(j)] = chip.image[At(j)]
    BY <1>3, <2>1, <2>2, <2>4
  <2> QED
    BY <2>1, <2>2, <2>5, <2>6
<1>8. pc \in Placing \ {"copying"} => ~Counted' /\ Copies' = 0 /\ Copies = 0
  BY <1>0, <1>5 DEF Counted, Copies, Placing
<1>9. SumInv'
  <2> SUFFICES ASSUME pc = "copying", Sound, NEW x \in sum
               PROVE  \E j \in 1 .. loader.chunk : x = image[At(j)]
    BY <1>0, <1>4, <1>5, <1>7, <1>8 DEF SumInv
  <2>1. CASE x = block
    BY <1>7, <2>1
  <2>2. CASE x # block
    <3>1. PICK j \in 1 .. loader.chunk - 1 : x = chip.image[At(j)]
      BY <1>3, <1>7, <2>2 DEF ImageInv, SumInv, Placing, Counted
    <3> QED
      BY <1>7, <3>1
  <2> QED
    BY <2>1, <2>2
<1>10. PlacedInv'
  <2> SUFFICES ASSUME NEW section \in Sections, Placed(section)', Sound
               PROVE  Whole(section)' /\ (InOrder => InPlace(section)')
    BY <1>0, <1>5 DEF PlacedInv
  <2>1. section = "dmem" /\ loader.section = "imem" /\ pc = "copying" /\ Placed(section)
    BY <1>0, <1>5 DEF Placed, Placing
  <2>2. \A b \in File(section) : b \in Blocks /\ b # chip.to
    BY <1>5, <2>1, FileBlocks DEF Block, File
  <2>3. \A b \in File(section) : image[b] = chip.image[b]
    BY <1>3, <2>2
  <2>4. Whole(section) /\ (InOrder => InPlace(section))
    BY <2>1 DEF ImageInv, PlacedInv
  <2> QED
    BY <1>4, <2>3, <2>4 DEF Whole, InPlace
<1>11. InStep => InStep'
  BY <1>0, <1>4 DEF InStep, OnPipe, InFifo, IsParked, Nowhere, Block
<1>12. ASSUME pc = "copying", Sound, NEW k \in 1 .. Copies + 1, NEW m, Stuck(k),
              NEW n, n = loader.chunk,
              m = k \/ (k = n /\ m = n + 1 /\ block \in {Junk, At(n)}),
              m = k => block \in {Junk, chip.parked}
       PROVE  Stuck(m)'
  <2> SUFFICES ASSUME NEW x \in sum, x # Junk
               PROVE  \E j \in 1 .. n : CopiedAs(x, j, m)'
    BY <1>4, <1>7, <1>12 DEF Stuck
  <2>1. CASE x = block
    <3>1. n \in 1 .. n /\ chip'.image[At(n)'] = x
      BY <1>4, <1>7, <1>12, <2>1
    <3>2. CASE m = k
      <4>1. x = chip.parked /\ ~(n < m)
        BY <1>7, <1>12, <2>1, <3>2
      <4>2. CopiedAs(x, n, m)'
        BY <1>0, <1>4, <3>1, <4>1 DEF CopiedAs
      <4> QED
        BY <3>1, <4>2
    <3>3. CASE m # k
      <4>1. x = At(n) /\ n < m
        BY <1>7, <1>12, <2>1, <3>3
      <4>2. CopiedAs(x, n, m)'
        BY <1>0, <1>4, <1>7, <1>12, <3>1, <4>1 DEF CopiedAs
      <4> QED
        BY <3>1, <4>2
    <3> QED
      BY <3>2, <3>3
  <2>2. CASE x # block
    <3>1. PICK j \in 1 .. n - 1 : CopiedAs(x, j, k)
      BY <1>3, <1>7, <1>12, <2>2 DEF Stuck, Counted
    <3>2. /\ j \in 1 .. n /\ At(j)' = At(j) /\ image[At(j)] = chip.image[At(j)]
          /\ m # k => j < k /\ j < m
      BY <1>7, <1>12, <3>1
    <3>3. CopiedAs(x, j, m)'
      BY <1>4, <3>1, <3>2 DEF CopiedAs
    <3> QED
      BY <3>2, <3>3
  <2> QED
    BY <2>1, <2>2
<1>13. PlaceInv'
  <2> SUFFICES ASSUME pc \in Placing, present, InOrder, Sound
               PROVE  /\ chip.boundary => InStep' /\ Stuck(Copies + 1)'
                      /\ ~chip.boundary => \E k \in 1 .. Copies' + 1 : Stuck(k)'
    BY <1>0, <1>4, <1>5 DEF PlaceInv
  <2>0. Copies \in Nat /\ Copies' \in Nat /\ Copies <= Copies'
    BY <1>7, <1>8
  <2>1. CASE pc # "copying"
    <3>1. (\A k : Stuck(k)') /\ Stuck(Copies + 1)' /\ 1 \in 1 .. Copies' + 1
      BY <1>8, <2>1 DEF Stuck
    <3> QED
      BY <1>11, <3>1 DEF ImageInv, PlaceInv
  <2>2. CASE pc = "copying" /\ chip.boundary
    <3>1. InStep /\ Stuck(Copies + 1)
      BY <2>2 DEF ImageInv, PlaceInv
    <3>2. PICK n \in Nat \ {0} : n = loader.chunk
      BY <1>7, <2>2
    <3>3. block \in {Junk, At(n)}
      BY <1>2, <2>2, <3>1, <3>2 DEF InStep, IsParked, Block, At
    <3>4. PICK m \in Nat : m = n + 1
      BY <3>2
    <3>5. n \in 1 .. Copies + 1 /\ Stuck(n) /\ m # n /\ Copies' + 1 = m
      BY <1>7, <2>2, <3>1, <3>2, <3>4
    <3>6. Stuck(m)'
      BY <1>12, <2>2, <3>2, <3>3, <3>4, <3>5
    <3>7. Stuck(Copies + 1)'
      BY <3>5, <3>6
    <3> QED
      BY <1>11, <2>2, <3>1, <3>7
  <2>3. CASE pc = "copying" /\ ~chip.boundary
    <3>1. PICK k \in 1 .. Copies + 1 : Stuck(k)
      BY <2>3 DEF ImageInv, PlaceInv
    <3>2. Stuck(k)'
      BY <1>2, <1>12, <2>3, <3>1
    <3>3. k \in 1 .. Copies' + 1
      <4>1. \A i, j \in Nat : i <= j => \A h \in 1 .. i + 1 : h \in 1 .. j + 1
        OBVIOUS
      <4> QED
        BY <2>0, <4>1
    <3> QED
      BY <2>3, <3>2, <3>3
  <2> QED
    BY <2>1, <2>2, <2>3
<1> QED
  BY <1>6, <1>9, <1>10, <1>13 DEF ImageInv

LEMMA AdapterImage ==
  ASSUME TypeInv, ImageInv, Adapter \/ Unplug
  PROVE  ImageInv'
<1>0. chip \in ChipValues /\ slot \in SlotValues
  BY DEF TypeInv
<1>1. CASE TransferDone
  <2>1. /\ chip' = [chip EXCEPT !.fifo = Append(@, slot.block)] /\ slot.queued
        /\ slot' = [slot EXCEPT !.inUse = FALSE, !.queued = FALSE]
        /\ UNCHANGED <<pc, loader, leftover, lost, present>>
    BY <1>1 DEF TransferDone
  <2>2. /\ chip'.fifo = Append(chip.fifo, slot.block) /\ chip'.image = chip.image
        /\ chip'.sum = chip.sum /\ chip'.own = chip.own /\ chip'.to = chip.to
        /\ chip'.parked = chip.parked /\ chip'.valid = chip.valid
        /\ chip'.boundary = chip.boundary /\ ~slot'.queued
    BY <1>0, <2>1 DEF ChipValues, SlotValues
  <2>3. OwnInv' /\ SumInv' /\ PlacedInv' /\ Copies' = Copies /\ Remembers
    BY <2>1, <2>2, AsideImage
  <2>4. pc \in Placing /\ InStep => InStep'
    <3>1. OnPipe => InFifo'
      BY <2>1, <2>2 DEF OnPipe, InFifo, Block
    <3> QED
      BY <2>1, <3>1 DEF InStep, InFifo, IsParked, Nowhere, Placing
  <2>5. PlaceInv'
    BY <2>1, <2>2, <2>3, <2>4, PlaceStays
  <2> QED
    BY <2>3, <2>5 DEF ImageInv
<1>2. CASE TransferCancelled
  <2>1. slot.queued /\ pc # "sending" /\ UNCHANGED <<pc, loader, leftover, lost, present, chip>>
    BY <1>2 DEF TransferCancelled
  <2>2. OwnInv' /\ SumInv' /\ PlacedInv' /\ Copies' = Copies /\ Remembers
    BY <2>1, AsideImage
  <2>3. pc \in Placing => ~InStep
    BY <2>1 DEF InStep, InFifo, IsParked, Nowhere, Placing
  <2>4. PlaceInv'
    BY <2>1, <2>2, <2>3, PlaceStays
  <2> QED
    BY <2>2, <2>4 DEF ImageInv
<1>3. CASE Park
  <2> DEFINE spot == IF chip.boundary THEN Head(chip.fifo) ELSE chip.parked
             rest == Tail(chip.fifo)
  <2>1. /\ chip' = [chip EXCEPT !.fifo = rest, !.valid = TRUE, !.parked = spot]
        /\ chip.fifo # <<>> /\ UNCHANGED <<pc, loader, leftover, lost, present, slot>>
    BY <1>3 DEF Park
  <2>2. InFifo => rest = <<>> /\ (chip.boundary => spot = Block)
    BY DEF InFifo
  <2>3. ~chip.boundary => spot = chip.parked
    OBVIOUS
  <2> HIDE DEF spot, rest
  <2>4. /\ chip'.fifo = rest /\ chip'.image = chip.image
        /\ chip'.sum = chip.sum /\ chip'.own = chip.own /\ chip'.to = chip.to
        /\ chip'.parked = spot /\ chip'.valid /\ chip'.boundary = chip.boundary
        /\ chip.boundary \in BOOLEAN
    BY <1>0, <2>1 DEF ChipValues
  <2>5. OwnInv' /\ SumInv' /\ PlacedInv' /\ Copies' = Copies /\ Remembers
    BY <2>1, <2>4, AsideImage
  <2>6. pc \in Placing /\ InStep /\ chip.boundary => InStep'
    <3>1. ASSUME InFifo, chip.boundary PROVE IsParked'
      BY <2>1, <2>2, <2>4, <3>1 DEF InFifo, IsParked, Block
    <3> QED
      BY <2>1, <2>4, <3>1 DEF InStep, OnPipe, IsParked, Nowhere, Placing
  <2>7. chip'.parked = chip.parked \/ chip.boundary
    BY <2>3, <2>4
  <2>8. PlaceInv'
    BY <2>1, <2>4, <2>5, <2>6, <2>7, PlaceStays
  <2> QED
    BY <2>5, <2>8 DEF ImageInv
<1>4. CASE Copy
  BY <1>4, CopyImage
<1>5. CASE Boot
  <2>1. /\ chip' = [chip EXCEPT !.ctl = @ \union {"CpuReady"}]
        /\ UNCHANGED <<pc, loader, leftover, lost, present, slot>>
    BY <1>5 DEF Boot
  <2>2. /\ chip'.fifo = chip.fifo /\ chip'.image = chip.image
        /\ chip'.sum = chip.sum /\ chip'.own = chip.own /\ chip'.to = chip.to
        /\ chip'.parked = chip.parked /\ chip'.valid = chip.valid
        /\ chip'.boundary = chip.boundary
    BY <1>0, <2>1 DEF ChipValues
  <2>3. OwnInv' /\ SumInv' /\ PlacedInv' /\ Copies' = Copies /\ Remembers
    BY <2>1, <2>2, AsideImage
  <2>4. InStep => InStep'
    BY <2>1, <2>2 DEF InStep, OnPipe, InFifo, IsParked, Nowhere, Block
  <2>5. PlaceInv'
    BY <2>1, <2>2, <2>3, <2>4, PlaceStays
  <2> QED
    BY <2>3, <2>5 DEF ImageInv
<1>6. CASE Unplug
  <2>1. UNCHANGED <<pc, loader, leftover, lost, chip>> /\ ~present'
    BY <1>6 DEF Unplug
  <2>2. OwnInv' /\ SumInv' /\ PlacedInv'
    BY <2>1, AsideImage
  <2> QED
    BY <2>1, <2>2 DEF ImageInv, PlaceInv
<1> QED
  BY <1>1, <1>2, <1>3, <1>4, <1>5, <1>6 DEF Adapter

\* The steps before, between and after the attempts.
LEMMA PowerImage ==
  ASSUME TypeInv, ImageInv, Open \/ PowerOn \/ PowerOnAgain \/ DecodeEntry \/ InitMAC
  PROVE  ImageInv'
<1>0. chip \in ChipValues /\ loader \in LoaderValues
  BY DEF TypeInv
<1>1. pc' \notin SendingPcs \union {"ready"}
  <2>1. \A bad : Step(bad) => pc' \in {pc, "mac"}
    BY DEF Step
  <2>2. pc' \in {"efuse", "mac", "idle", "power", "load"}
    <3>1. CASE Open \/ InitMAC
      BY <3>1 DEF Open, InitMAC
    <3>2. CASE PowerOn \/ PowerOnAgain
      BY <3>2, PowersUpType DEF PowerOn, PowerOnAgain, PowerFails, Fails
    <3>3. CASE DecodeEntry
      BY <2>1, <3>3 DEF DecodeEntry, Fails
    <3> QED
      BY <3>1, <3>2, <3>3
  <2> QED
    BY <2>2 DEF SendingPcs
<1>2. loader'.loaded = loader.loaded /\ UNCHANGED leftover
  BY <1>0 DEF Open, PowerOn, PowerOnAgain, DecodeEntry, InitMAC, LoaderValues
<1>3. chip'.image = chip.image /\ chip'.own = chip.own /\ Remembers
  <2>1. CASE Open
    BY <2>1 DEF Open, Remembers
  <2>2. CASE DecodeEntry
    <3>1. CASE Loses({"efuse"}, {})
      <4>1. {"efuse"} \in SUBSET (Registers \union {"efuse"})
        OBVIOUS
      <4>2. lost.of \ {} \subseteq lost'.of
        BY <3>1, <4>1, LosesType
      <4> QED
        BY <2>2, <4>2 DEF DecodeEntry, Remembers
    <3>2. CASE UNCHANGED lost
      BY <2>2, <3>2 DEF DecodeEntry, Remembers
    <3> QED
      BY <2>2, <3>1, <3>2 DEF DecodeEntry
  <2>3. CASE PowerOn \/ PowerOnAgain
    <3>1. CASE PowerFails
      BY <3>1 DEF PowerFails, Remembers
    <3>2. CASE PowersUp("efuse", {"efuse"})
      <4>1. lost.of \ ({"efuse"} \union {"cr"}) \subseteq lost'.of /\ chip'.image = chip.image
            /\ \A r \in Registers \ {"cr"} : chip'[r] = chip[r]
        BY <3>2, PowersUpType
      <4> QED
        BY <4>1 DEF Remembers, Registers
    <3>3. CASE PowersUp("load", {})
      <4>1. lost.of \ ({} \union {"cr"}) \subseteq lost'.of /\ chip'.image = chip.image
            /\ \A r \in Registers \ {"cr"} : chip'[r] = chip[r]
        BY <3>3, PowersUpType
      <4> QED
        BY <4>1 DEF Remembers, Registers
    <3> QED
      BY <2>3, <3>1, <3>2, <3>3 DEF PowerOn, PowerOnAgain
  <2>4. CASE InitMAC
    <3> DEFINE p == PagesAllocated(chip)
               c == QueuesMapped(p)
    <3>1. p \in ChipValues /\ p.image = chip.image /\ p.own = chip.own
      <4>1. p \in ChipValues
        BY <1>0, ChipSteps
      <4> QED
        BY <1>0, <4>1 DEF PagesAllocated, ChipValues
    <3>2. Lands(c, {"pages", "quotas", "boundary", "queues"})
      BY <2>4 DEF InitMAC
    <3> HIDE DEF p
    <3>3. c \in ChipValues /\ c.image = p.image /\ c.own = p.own
      <4>1. c \in ChipValues
        BY <3>1, ChipSteps DEF TypeInv
      <4> QED
        BY <3>1, <4>1 DEF QueuesMapped, ChipValues
    <3> HIDE DEF c
    <3>4. \/ UNCHANGED <<chip, lost>>
          \/ Gives(c) /\ lost.of \ {"pages", "quotas", "boundary", "queues"} \subseteq lost'.of
      BY <3>2, <3>3, LandsType
    <3> QED
      BY <3>1, <3>3, <3>4, GivesEach DEF Gives, Remembers
  <2> QED
    BY <2>1, <2>2, <2>3, <2>4
<1> QED
  BY <1>1, <1>2, <1>3, OutsideImage

LEMMA FinishingImage ==
  ASSUME TypeInv, ImageInv, Finishing
  PROVE  ImageInv'
<1>0. chip \in ChipValues
  BY DEF TypeInv
<1>1. pc' \notin SendingPcs \union {"ready"} /\ UNCHANGED <<loader, leftover>>
  <2>1. CASE WriteMacAddress \/ InitPhy
    BY <2>1 DEF WriteMacAddress, InitPhy, Proceed, SendingPcs
  <2>2. CASE EnableMac \/ StartRx \/ StartManager
    BY <2>2 DEF EnableMac, StartRx, StartManager, Proceed, SendingPcs
  <2>3. CASE Finish
    BY <2>3 DEF Finish, Proceed, SendingPcs
  <2>4. CASE StageFails
    BY <2>4 DEF StageFails, StopHere, Fails, SendingPcs
  <2> QED
    BY <2>1, <2>2, <2>3, <2>4 DEF Finishing
<1>2. ASSUME NEW c \in ChipValues, NEW afresh \in SUBSET {"bb", "agg"}, Lands(c, afresh),
             c.image = chip.image, c.own = chip.own
      PROVE  chip'.image = chip.image /\ chip'.own = chip.own /\ Remembers
  <2>1. UNCHANGED <<chip, lost>> \/ (Gives(c) /\ lost.of \ afresh \subseteq lost'.of)
    BY <1>2, LandsType
  <2> QED
    BY <1>2, <2>1, GivesEach DEF Gives, Remembers
<1>3. chip'.image = chip.image /\ chip'.own = chip.own /\ Remembers
  <2>1. CASE InitPhy
    <3> DEFINE c == [chip EXCEPT !.bb = "set"]
    <3>1. c \in ChipValues /\ c.image = chip.image /\ c.own = chip.own
      BY <1>0 DEF ChipValues
    <3>2. Lands(c, {"bb"})
      BY <2>1 DEF InitPhy, Proceed
    <3> HIDE DEF c
    <3> QED
      BY <1>2, <3>1, <3>2
  <2>2. CASE EnableMac
    <3> DEFINE a == Aggregating(chip)
               c == [a EXCEPT !.cr = @ \union {"MacTx", "MacRx"}]
    <3>1. a \in ChipValues /\ a.image = chip.image /\ a.own = chip.own
      BY <1>0, ChipSteps DEF Aggregating, ChipValues, TypeInv
    <3>2. Lands(c, {"agg"})
      BY <2>2 DEF EnableMac, Proceed
    <3> HIDE DEF a
    <3>3. c \in ChipValues /\ c.image = a.image /\ c.own = a.own
      <4>1. a.cr \union {"MacTx", "MacRx"} \in SUBSET Engines
        BY <3>1 DEF ChipValues, Engines
      <4> QED
        BY <3>1, <4>1 DEF ChipValues
    <3> HIDE DEF c
    <3> QED
      BY <1>2, <3>1, <3>2, <3>3
  <2>3. CASE WriteMacAddress \/ StartRx \/ StartManager \/ Finish
    <3>1. Lands(chip, {})
      <4>1. CASE WriteMacAddress \/ StartRx
        BY <4>1 DEF WriteMacAddress, StartRx, Proceed
      <4>2. CASE StartManager
        BY <4>2 DEF StartManager, Proceed
      <4>3. CASE Finish
        BY <4>3 DEF Finish, Proceed
      <4> QED
        BY <2>3, <4>1, <4>2, <4>3
    <3> QED
      BY <1>0, <1>2, <3>1
  <2>4. CASE StageFails
    BY <2>4 DEF StageFails, StopHere, Remembers
  <2> QED
    BY <2>1, <2>2, <2>3, <2>4 DEF Finishing
<1> QED
  BY <1>1, <1>3, OutsideImage

LEMMA LoadImage ==
  ASSUME TypeInv, ImageInv, Loading
  PROVE  ImageInv'
<1>1. CASE LoadSkipped \/ FileUnusable
  <2>1. /\ pc' \notin SendingPcs \union {"ready"} /\ UNCHANGED <<loader, leftover, chip, lost>>
    BY <1>1 DEF LoadSkipped, FileUnusable, GiveUpAttempt, SendingPcs
  <2>2. Remembers
    BY <2>1 DEF Remembers
  <2> QED
    BY <2>1, <2>2, OutsideImage
<1>2. CASE SendTimesOut
  BY <1>2, AttemptFailsImage DEF SendTimesOut
<1> QED
  BY <1>1, <1>2, BeginImage, SendImage, SentImage, AcknowledgedImage, StartCopyImage, CopiedImage,
     CheckImage, StartedImage DEF Loading

LEMMA NextImage == TypeInv /\ ImageInv /\ [Next]_vars => ImageInv'
<1> SUFFICES ASSUME TypeInv, ImageInv, [Next]_vars PROVE ImageInv'
  OBVIOUS
<1>1. CASE Open \/ PowerOn \/ PowerOnAgain \/ DecodeEntry \/ InitMAC
  BY <1>1, PowerImage
<1>2. CASE Loading
  BY <1>2, LoadImage
<1>3. CASE Finishing
  BY <1>3, FinishingImage
<1>4. CASE Adapter \/ Unplug
  BY <1>4, AdapterImage
<1>5. CASE UNCHANGED vars
  <2>1. UNCHANGED <<pc, loader, leftover, lost, chip, slot, present>>
    BY <1>5 DEF vars
  <2>2. OwnInv' /\ SumInv' /\ PlacedInv' /\ Copies' = Copies /\ Remembers
    BY <2>1, AsideImage
  <2>3. InStep' = InStep
    BY <2>1 DEF InStep, OnPipe, InFifo, IsParked, Nowhere, Block
  <2>4. PlaceInv'
    BY <2>1, <2>2, <2>3, PlaceStays
  <2> QED
    BY <2>2, <2>4 DEF ImageInv
<1> QED
  BY <1>1, <1>2, <1>3, <1>4, <1>5, Zenon DEF Next, OpenThread, Finishing

LEMMA ImageHolds == Spec => []ImageInv
<1>1. TypeInv /\ ImageInv /\ [Next]_vars => ImageInv'
  BY NextImage
<1> QED
  BY <1>1, InitImage, TypesHold, PTL DEF Spec

\* When Load() has reported success every block of the firmware file is in the
\* chip exactly once, whatever write was lost but that of a destination or the one
\* that clears the checksum, and in its place unless an attempt began with a chunk
\* of an earlier one under way or an acknowledgement was not cleared: however many
\* blocks, attempts, late transfers and misread acknowledgements there were
\* (_TransferSection, _WaitForRsvdPageOK, _IDDMATransfer).
THEOREM LoadedImageIsWhole == Spec => []LoadedImageWhole
<1>1. TypeInv /\ ImageInv => LoadedImageWhole
  <2> SUFFICES ASSUME TypeInv, ImageInv, loader.loaded, Sound
               PROVE  /\ \A s \in Sections : {chip.image[b] : b \in File(s)} = File(s)
                      /\ InOrder => chip.image = [b \in Blocks |-> b]
    <3>1. lost.of \intersect {"sum", "to"} = {} => Sound
      BY DEF Sound
    <3> QED
      BY <3>1 DEF LoadedImageWhole, InOrder
  <2>1. \A s \in Sections : Whole(s) /\ (InOrder => InPlace(s))
    BY DEF ImageInv, PlacedInv, Placed
  <2>2. ASSUME InOrder PROVE \A b \in Blocks : chip.image[b] = b
    BY <2>1, <2>2 DEF InPlace, Blocks
  <2>3. chip.image \in [Blocks -> Held]
    BY DEF TypeInv, ChipValues
  <2> QED
    BY <2>1, <2>2, <2>3 DEF Whole
<1> QED
  BY <1>1, ImageHolds, TypesHold, PTL

-----------------------------------------------------------------------------
(* The EFUSE.  What the cells say is stated without the decoder's walk; one  *)
(* turn of the walk adds one entry to those walked over, and puts into the   *)
(* map exactly the bytes that entry carries.                                 *)

Here(W, w) == IF w \in W THEN 1 ELSE 0

\* A set of words counts as many as there are in it.
LEMMA WordCount ==
  ASSUME NEW W \in SUBSET {0, 1, 2, 3}
  PROVE  IsFiniteSet(W) /\ Cardinality(W) = Here(W, 0) + Here(W, 1) + Here(W, 2) + Here(W, 3)
<1> DEFINE below(w) == {v \in W : v < w}
<1>a. \A v \in W : v \in Int /\ 0 <= v /\ v < 4
  OBVIOUS
<1>b. \A w \in {0, 1, 2, 3} : Here(W, w) \in Nat
  BY DEF Here
<1>0. below(0) = {} /\ below(4) = W
  <2>1. \A v \in W : ~(v < 0) /\ v < 4
    BY <1>a
  <2>2. \A v : v \notin below(0) /\ (v \in below(4) <=> v \in W)
    BY <2>1
  <2> HIDE DEF below
  <2> QED
    BY <2>2
<1>1. ASSUME NEW w \in {0, 1, 2, 3}, IsFiniteSet(below(w)), Cardinality(below(w)) \in Nat
      PROVE  /\ IsFiniteSet(below(w + 1))
             /\ Cardinality(below(w + 1)) = Cardinality(below(w)) + Here(W, w)
  <2>1. CASE w \in W
    <3>1. w \notin below(w)
      OBVIOUS
    <3>2. \A v \in W : v < w + 1 <=> v < w \/ v = w
      BY <1>a
    <3>3. below(w + 1) = below(w) \union {w}
      BY <2>1, <3>2
    <3> HIDE DEF below
    <3>4. IsFiniteSet(below(w + 1)) /\ Cardinality(below(w + 1)) = Cardinality(below(w)) + 1
      BY <1>1, <3>1, <3>3, FS_AddElement
    <3> QED
      BY <2>1, <3>4 DEF Here
  <2>2. CASE w \notin W
    <3>1. \A v \in W : v < w + 1 <=> v < w
      BY <1>a, <2>2
    <3>2. below(w + 1) = below(w)
      BY <3>1
    <3> HIDE DEF below
    <3> QED
      BY <1>1, <2>2, <3>2 DEF Here
  <2> QED
    BY <2>1, <2>2
<1> HIDE DEF below
<1>2. IsFiniteSet(below(0)) /\ Cardinality(below(0)) = 0
  BY <1>0, FS_EmptySet
<1>3. IsFiniteSet(below(1)) /\ Cardinality(below(1)) = Here(W, 0)
  <2>1. 0 + 1 = 1
    OBVIOUS
  <2> QED
    BY <1>b, <1>1, <1>2, <2>1
<1>4. IsFiniteSet(below(2)) /\ Cardinality(below(2)) = Here(W, 0) + Here(W, 1)
  <2>1. 1 + 1 = 2
    OBVIOUS
  <2> QED
    BY <1>b, <1>1, <1>3, <2>1
<1>5. IsFiniteSet(below(3)) /\ Cardinality(below(3)) = Here(W, 0) + Here(W, 1) + Here(W, 2)
  <2>1. 2 + 1 = 3 /\ Here(W, 0) + Here(W, 1) \in Nat
    BY <1>b
  <2> QED
    BY <1>1, <1>4, <2>1
<1>6. IsFiniteSet(below(4)) /\ Cardinality(below(4)) = Here(W, 0) + Here(W, 1) + Here(W, 2) + Here(W, 3)
  <2>1. 3 + 1 = 4 /\ Here(W, 0) + Here(W, 1) + Here(W, 2) \in Nat
    BY <1>b
  <2> QED
    BY <1>1, <1>5, <2>1
<1> QED
  BY <1>0, <1>6

\* The bytes an entry's header is made of.
LEMMA HeaderBytes ==
  ASSUME fuses \in FuseValues, NEW a \in 0 .. Cells - 1
  PROVE  /\ fuses[a] \in 0 .. 255 /\ Header2(a) \in 0 .. 255 /\ MaskAt(a) \in 0 .. 15
         /\ GroupAt(a) \in Nat /\ DataAt(a) \in {a + 1, a + 2}
<1>1. Cells \in Nat \ {0}
  BY BringUpAssumption DEF BringUpAssumption
<1>2. (a + 1) % Cells \in 0 .. Cells - 1
  BY <1>1
<1>3. fuses[a] \in 0 .. 255 /\ Header2(a) \in 0 .. 255
  BY <1>2 DEF Header2, FuseValues
<1> HIDE DEF Header2
<1> QED
  BY <1>3 DEF MaskAt, GroupAt, DataAt, Long

\* A mask's bits, and its complement.
LEMMA MaskBits ==
  ASSUME NEW m \in 0 .. 15
  PROVE  \E b0, b1, b2, b3 \in {0, 1} :
           /\ b0 + 2 * b1 + 4 * b2 + 8 * b3 + m = 15
           /\ Holds(m, 0) <=> b0 = 1
           /\ Holds(m, 1) <=> b1 = 1
           /\ Holds(m, 2) <=> b2 = 1
           /\ Holds(m, 3) <=> b3 = 1
<1>1. m \in {0, 1, 2, 3, 4, 5, 6, 7, 8, 9, 10, 11, 12, 13, 14, 15}
  OBVIOUS
<1>2. /\ Bits[0 + 1] = 1 /\ Bits[1 + 1] = 2 /\ Bits[2 + 1] = 4 /\ Bits[3 + 1] = 8
  BY DEF Bits
<1>3. /\ Holds(m, 0) <=> m % 2 = 0
      /\ Holds(m, 1) <=> (m \div 2) % 2 = 0
      /\ Holds(m, 2) <=> (m \div 4) % 2 = 0
      /\ Holds(m, 3) <=> (m \div 8) % 2 = 0
  BY <1>2 DEF Holds
<1> DEFINE bit(w) == IF Holds(m, w) THEN 1 ELSE 0
<1>4. bit(0) + 2 * bit(1) + 4 * bit(2) + 8 * bit(3) + m = 15
  BY <1>1, <1>3
<1> QED
  BY <1>4

\* The words an entry carries are those the decoder takes its mask to mean.
LEMMA WordsAreHeld ==
  ASSUME fuses \in FuseValues, NEW a \in 0 .. Cells - 1
  PROVE  /\ WordsAt(a) \in SUBSET {0, 1, 2, 3}
         /\ \A w \in {0, 1, 2, 3} : w \in WordsAt(a) <=> Holds(MaskAt(a), w)
<1> DEFINE m == MaskAt(a)
           worth(ws, w, n) == IF w \in ws THEN n ELSE 0
           Fits(ws) == worth(ws, 0, 1) + worth(ws, 1, 2) + worth(ws, 2, 4) + worth(ws, 3, 8) + m = 15
           held == {w \in {0, 1, 2, 3} : Holds(m, w)}
<1>1. m \in 0 .. 15
  BY HeaderBytes
<1>2. WordsAt(a) = CHOOSE ws \in SUBSET {0, 1, 2, 3} : Fits(ws)
  BY DEF WordsAt
<1> HIDE DEF m
<1>3. PICK b0, b1, b2, b3 \in {0, 1} :
        /\ b0 + 2 * b1 + 4 * b2 + 8 * b3 + m = 15
        /\ Holds(m, 0) <=> b0 = 1
        /\ Holds(m, 1) <=> b1 = 1
        /\ Holds(m, 2) <=> b2 = 1
        /\ Holds(m, 3) <=> b3 = 1
  BY <1>1, MaskBits
<1>4. Fits(held) /\ held \in SUBSET {0, 1, 2, 3}
  <2>1. /\ worth(held, 0, 1) = b0 /\ worth(held, 1, 2) = 2 * b1 /\ worth(held, 2, 4) = 4 * b2
        /\ worth(held, 3, 8) = 8 * b3
    BY <1>3
  <2> HIDE DEF worth
  <2> QED
    BY <1>3, <2>1
<1>5. ASSUME NEW ws \in SUBSET {0, 1, 2, 3}, Fits(ws)
      PROVE  \A w \in {0, 1, 2, 3} : w \in ws <=> Holds(m, w)
  <2> DEFINE c(w) == IF w \in ws THEN 1 ELSE 0
  <2>1. /\ worth(ws, 0, 1) = c(0) /\ worth(ws, 1, 2) = 2 * c(1) /\ worth(ws, 2, 4) = 4 * c(2)
        /\ worth(ws, 3, 8) = 8 * c(3)
    OBVIOUS
  <2>2. c(0) + 2 * c(1) + 4 * c(2) + 8 * c(3) + m = 15
    BY <1>5, <2>1
  <2>3. c(0) \in {0, 1} /\ c(1) \in {0, 1} /\ c(2) \in {0, 1} /\ c(3) \in {0, 1}
    OBVIOUS
  <2>4. \A w \in {0, 1, 2, 3} : w \in ws <=> c(w) = 1
    OBVIOUS
  <2> HIDE DEF c, worth
  <2>5. c(0) = b0 /\ c(1) = b1 /\ c(2) = b2 /\ c(3) = b3
    BY <1>1, <1>3, <2>2, <2>3
  <2> QED
    BY <1>3, <2>4, <2>5
<1> HIDE DEF Fits
<1>6. WordsAt(a) \in SUBSET {0, 1, 2, 3} /\ Fits(WordsAt(a))
  BY <1>2, <1>4
<1> QED
  BY <1>5, <1>6 DEF m


\* Cells the words before w of an entry take, two each.
Before(a, w) == 2 * Cardinality({v \in WordsAt(a) : v < w})

LEMMA WordsBefore ==
  ASSUME fuses \in FuseValues, NEW a \in 0 .. Cells - 1
  PROVE  /\ \A w \in {0, 1, 2, 3} : Before(a, w) \in 0 .. 6
         /\ Before(a, 0) = 0
         /\ \A w \in {0, 1, 2} : Before(a, w + 1) = Before(a, w) + 2 * Here(WordsAt(a), w)
         /\ Behind(a) = DataAt(a) + Before(a, 3) + 2 * Here(WordsAt(a), 3)
         /\ Behind(a) \in a + 1 .. a + 10
<1> DEFINE W == WordsAt(a)
           below(w) == {v \in W : v < w}
<1>1. W \in SUBSET {0, 1, 2, 3}
  BY WordsAreHeld
<1>2. DataAt(a) \in {a + 1, a + 2}
  BY HeaderBytes
<1>3. Before(a, 0) = 2 * Cardinality(below(0)) /\ Before(a, 1) = 2 * Cardinality(below(1))
      /\ Before(a, 2) = 2 * Cardinality(below(2)) /\ Before(a, 3) = 2 * Cardinality(below(3))
  BY DEF Before
<1>4. \A w \in {0, 1, 2, 3} : below(w) \in SUBSET {0, 1, 2, 3}
  BY <1>1
<1>5. \A w, v \in {0, 1, 2, 3} : Here(below(w), v) = IF v < w THEN Here(W, v) ELSE 0
  BY <1>1 DEF Here
<1>6. Behind(a) = DataAt(a) + 2 * Cardinality(W)
  BY DEF Behind
<1> HIDE DEF below, W
<1>7. \A v \in {0, 1, 2, 3} : Here(W, v) \in 0 .. 1
  BY DEF Here
<1>8. Cardinality(W) = Here(W, 0) + Here(W, 1) + Here(W, 2) + Here(W, 3)
  BY <1>1, WordCount
<1>9. \A w \in {0, 1, 2, 3} :
        Cardinality(below(w)) = Here(below(w), 0) + Here(below(w), 1) + Here(below(w), 2) + Here(below(w), 3)
  BY <1>4, WordCount
<1>10. /\ Before(a, 0) = 0
       /\ Before(a, 1) = 2 * Here(W, 0)
       /\ Before(a, 2) = 2 * (Here(W, 0) + Here(W, 1))
       /\ Before(a, 3) = 2 * (Here(W, 0) + Here(W, 1) + Here(W, 2))
  BY <1>3, <1>5, <1>7, <1>9
<1>11. Here(WordsAt(a), 0) = Here(W, 0) /\ Here(WordsAt(a), 1) = Here(W, 1)
       /\ Here(WordsAt(a), 2) = Here(W, 2) /\ Here(WordsAt(a), 3) = Here(W, 3)
  BY DEF W
<1>12. /\ Here(W, 0) \in 0 .. 1 /\ Here(W, 1) \in 0 .. 1 /\ Here(W, 2) \in 0 .. 1
       /\ Here(W, 3) \in 0 .. 1
  BY <1>7
<1>13. a \in Nat
  BY BringUpAssumption DEF BringUpAssumption
<1>14. \A w \in {0, 1, 2} : Before(a, w + 1) = Before(a, w) + 2 * Here(WordsAt(a), w)
  BY <1>10, <1>11, <1>12
<1> QED
  BY <1>2, <1>6, <1>8, <1>10, <1>11, <1>12, <1>13, <1>14

\* A read that is answered reads the cell.
LEMMA TrueCell ==
  ASSUME NEW x \in 0 .. Cells + 9
  PROVE  Cell(x, NotBad) = fuses[x % Cells]
<1>1. x # Cells + 10
  BY BringUpAssumption DEF BringUpAssumption
<1> QED
  BY <1>1 DEF Cell, NotBad

\* Quotient and remainder by eight, and by two.
LEMMA EightsAndRest ==
  ASSUME NEW g \in Nat, NEW k \in 0 .. 7, NEW t \in Nat, t = g * 8 + k
  PROVE  t \div 8 = g /\ t % 8 = k /\ t % 2 = k % 2
<1>1. t \div 8 = g /\ t % 8 = k
  OBVIOUS
<1>2. t % 2 = k % 2
  <2>1. t = 2 * (4 * g) + k /\ 4 * g \in Nat
    OBVIOUS
  <2> QED
    BY <2>1
<1> QED
  BY <1>1, <1>2

\* Where the two bytes of a word are.
Place(g, w) == g * 8 + w * 2

LEMMA WordPlace ==
  ASSUME NEW g \in Nat, NEW w \in {0, 1, 2, 3}
  PROVE  /\ Place(g, w) \in Nat /\ Place(g, w) % 2 = 0 /\ (Place(g, w) + 1) % 2 = 1
         /\ Place(g, w) \div 8 = g /\ (Place(g, w) % 8) \div 2 = w
         /\ (Place(g, w) + 1) \div 8 = g /\ ((Place(g, w) + 1) % 8) \div 2 = w
<1> DEFINE k == w * 2
           t == Place(g, w)
<1>1. /\ k \in 0 .. 7 /\ k + 1 \in 0 .. 7 /\ t \in Nat /\ t + 1 \in Nat
      /\ t = g * 8 + k /\ t + 1 = g * 8 + (k + 1)
  BY DEF Place
<1>2. k % 2 = 0 /\ (k + 1) % 2 = 1 /\ k \div 2 = w /\ (k + 1) \div 2 = w
  OBVIOUS
<1> HIDE DEF k, t
<1>3. t \div 8 = g /\ t % 8 = k /\ t % 2 = k % 2
  BY ONLY <1>1, EightsAndRest, g \in Nat
<1>4. (t + 1) \div 8 = g /\ (t + 1) % 8 = k + 1 /\ (t + 1) % 2 = (k + 1) % 2
  BY ONLY <1>1, EightsAndRest, g \in Nat
<1>5. /\ t \in Nat /\ t % 2 = 0 /\ (t + 1) % 2 = 1 /\ t \div 8 = g /\ (t % 8) \div 2 = w
      /\ (t + 1) \div 8 = g /\ ((t + 1) % 8) \div 2 = w
  BY <1>1, <1>2, <1>3, <1>4
<1> QED
  BY <1>5 DEF t

\* One word of an entry, when the reads are answered.
LEMMA WordRead ==
  ASSUME fuses \in FuseValues, NEW a \in 0 .. Cells - 1, NEW at \in Reads,
         NEW w \in {0, 1, 2, 3}, at.addr = DataAt(a) + Before(a, w)
  PROVE  LET r == ReadWord(at, GroupAt(a), MaskAt(a), w, NotBad)
         IN  /\ r \in Reads /\ r.addr = at.addr + 2 * Here(WordsAt(a), w)
             /\ \A b \in 0 .. MapSize - 1 :
                  r.map[b] = IF Carries(a, b) /\ (b % 8) \div 2 = w THEN Carried(a, b) ELSE at.map[b]
<1> DEFINE r == ReadWord(at, GroupAt(a), MaskAt(a), w, NotBad)
           t == GroupAt(a) * 8 + w * 2
           x == Cell(at.addr, NotBad)
           y == Cell(at.addr + 1, NotBad)
<1>1. /\ GroupAt(a) \in Nat /\ MaskAt(a) \in 0 .. 15 /\ DataAt(a) \in {a + 1, a + 2} /\ a \in Nat
      /\ Cells \in Nat \ {0} /\ MapSize \in Nat /\ MapSize % 2 = 0 /\ a <= Cells - 1
  BY HeaderBytes, BringUpAssumption DEF BringUpAssumption
<1>2. Before(a, w) \in 0 .. 6
  BY WordsBefore
<1>3. t \in Nat /\ t % 2 = 0 /\ t \div 8 = GroupAt(a) /\ (t % 8) \div 2 = w
      /\ (t + 1) \div 8 = GroupAt(a) /\ ((t + 1) % 8) \div 2 = w /\ (t + 1) % 2 = 1
  <2>1. t = Place(GroupAt(a), w)
    BY DEF Place
  <2> HIDE DEF t
  <2> QED
    BY <1>1, <2>1, WordPlace
<1>4. x = fuses[at.addr % Cells] /\ y = fuses[(at.addr + 1) % Cells]
  <2>1. at.addr \in 0 .. Cells + 9 /\ at.addr + 1 \in 0 .. Cells + 9
    BY <1>1, <1>2
  <2> QED
    BY <2>1, TrueCell
<1>5. \A b \in Nat : b \div 8 = GroupAt(a) /\ (b % 8) \div 2 = w => b = t \/ b = t + 1
  BY <1>1
<1>6. \A b \in Nat : (b % 8) \div 2 = w =>
        Carried(a, b) = fuses[(at.addr + (b % 2)) % Cells]
  BY DEF Carried, Before
<1>7. r \in Reads
  <2>1. w \in 0 .. 3 /\ GroupAt(a) \in Nat /\ NotBad \in WrongReads
    BY <1>1, NotBadReads
  <2> QED
    BY <2>1, ReadWordType, Zenon
<1>8. CASE w \notin WordsAt(a)
  <2>1. ~Holds(MaskAt(a), w)
    BY <1>8, WordsAreHeld
  <2>2. r = at
    BY <2>1 DEF ReadWord
  <2>3. \A b \in 0 .. MapSize - 1 : (b % 8) \div 2 = w => ~Carries(a, b)
    BY <1>8 DEF Carries
  <2> HIDE DEF r
  <2> QED
    BY <1>7, <1>8, <2>2, <2>3 DEF Here, Reads, r
<1>9. CASE w \in WordsAt(a) /\ t + 1 >= MapSize
  <2>1. Holds(MaskAt(a), w)
    BY <1>9, WordsAreHeld
  <2>2. r = [addr |-> at.addr + 2, map |-> at.map]
    BY <1>9, <2>1 DEF ReadWord
  <2>3. t >= MapSize
    <3> HIDE DEF t
    <3> QED
      BY <1>1, <1>3, <1>9
  <2>4. \A b \in 0 .. MapSize - 1 : ~(Carries(a, b) /\ (b % 8) \div 2 = w)
    <3> SUFFICES ASSUME NEW b \in 0 .. MapSize - 1, Carries(a, b), (b % 8) \div 2 = w PROVE FALSE
      OBVIOUS
    <3>1. b \in Nat /\ b < MapSize /\ b \div 8 = GroupAt(a)
      BY <1>1 DEF Carries
    <3>2. b = t \/ b = t + 1
      BY <1>5, <3>1
    <3> HIDE DEF t
    <3> QED
      BY <1>1, <1>3, <2>3, <3>1, <3>2
  <2>5. r.addr = at.addr + 2 /\ r.map = at.map
    BY <2>2
  <2> HIDE DEF r
  <2> QED
    BY <1>7, <1>9, <2>4, <2>5 DEF Here, Reads, r
<1>10. CASE w \in WordsAt(a) /\ ~(t + 1 >= MapSize)
  <2>1. Holds(MaskAt(a), w)
    BY <1>10, WordsAreHeld
  <2>2. r.addr = at.addr + 2 /\ r.map = [at.map EXCEPT ![t] = x, ![t + 1] = y]
    BY <1>10, <2>1 DEF ReadWord
  <2>3. t \in 0 .. MapSize - 1 /\ t + 1 \in 0 .. MapSize - 1
    <3> HIDE DEF t
    <3> QED
      BY <1>1, <1>3, <1>10
  <2>4. Carries(a, t) /\ Carries(a, t + 1)
    BY <1>3, <1>10 DEF Carries
  <2>5. at.map \in MapValues
    BY DEF Reads
  <2>6. Carried(a, t) = x /\ Carried(a, t + 1) = y
    <3>1. t % 2 = 0 /\ (t + 1) % 2 = 1 /\ at.addr + 0 = at.addr /\ t + 1 \in Nat
      BY <1>3 DEF Reads
    <3>2. Carried(a, t) = fuses[(at.addr + 0) % Cells]
          /\ Carried(a, t + 1) = fuses[(at.addr + 1) % Cells]
      <4> HIDE DEF t
      <4> QED
        BY <1>3, <1>6, <3>1
    <3> QED
      BY <1>4, <3>1, <3>2
  <2> HIDE DEF x, y, r
  <2> SUFFICES ASSUME NEW b \in 0 .. MapSize - 1
               PROVE  r.map[b] = IF Carries(a, b) /\ (b % 8) \div 2 = w THEN Carried(a, b)
                                 ELSE at.map[b]
    BY <1>7, <1>10, <2>2 DEF Here, r
  <2>7. CASE b = t \/ b = t + 1
    <3>1. Carries(a, b) /\ (b % 8) \div 2 = w
      BY <1>3, <2>4, <2>7
    <3>2. r.map[b] = Carried(a, b)
      <4>1. t # t + 1
        BY <1>3
      <4> HIDE DEF t
      <4> QED
        BY <2>2, <2>3, <2>5, <2>6, <2>7, <4>1 DEF MapValues
    <3> QED
      BY <3>1, <3>2
  <2>8. CASE b # t /\ b # t + 1
    <3>1. b \in Nat
      OBVIOUS
    <3>2. ~(Carries(a, b) /\ (b % 8) \div 2 = w)
      BY <1>5, <2>8, <3>1 DEF Carries
    <3>3. r.map[b] = at.map[b]
      <4> HIDE DEF t
      <4> QED
        BY <2>2, <2>3, <2>5, <2>8 DEF MapValues
    <3> QED
      BY <3>2, <3>3
  <2> QED
    BY <2>7, <2>8
<1> QED
  BY <1>8, <1>9, <1>10


\* One turn of the decoder whose reads are answered puts into the map what the
\* entry carries, and goes on behind it.
LEMMA EntryRead ==
  ASSUME fuses \in FuseValues, NEW at \in Reads, at.addr < Cells
  PROVE  LET r == ReadEntry(at, NotBad)
             a == at.addr
         IN  /\ r.addr = Behind(a)
             /\ \A b \in 0 .. MapSize - 1 :
                  r.map[b] = IF Carries(a, b) THEN Carried(a, b) ELSE at.map[b]
<1> DEFINE a == at.addr
           h == Cell(at.addr, NotBad)
           h2 == Cell(at.addr + 1, NotBad)
           word(r, w) == ReadWord(r, Group(h, h2), Mask(h, h2), w, NotBad)
           r0 == [at EXCEPT !.addr = @ + (IF Extended(h) THEN 2 ELSE 1)]
           r1 == word(r0, 0)
           r2 == word(r1, 1)
           r3 == word(r2, 2)
           r4 == word(r3, 3)
<1>1. /\ a \in 0 .. Cells - 1 /\ a + 1 \in 0 .. Cells + 9 /\ a \in 0 .. Cells + 9
      /\ a % Cells = a
  <2>1. a \in Nat /\ Cells \in Nat \ {0} /\ a < Cells
    BY BringUpAssumption DEF Reads, BringUpAssumption
  <2> HIDE DEF a
  <2> QED
    BY <2>1
<1>2. h = fuses[a] /\ h2 = Header2(a)
  BY <1>1, TrueCell DEF Header2
<1>3. fuses[a] \in 0 .. 255 /\ Header2(a) \in 0 .. 255
  BY <1>1, HeaderBytes
<1>4. Mask(h, h2) = MaskAt(a) /\ (Extended(h) <=> Long(a))
  BY <1>2 DEF Mask, MaskAt, Extended, Long
<1>5. Group(h, h2) = GroupAt(a)
  BY <1>2, <1>3 DEF Group, GroupAt, Extended, Long
<1>6. r0 \in Reads /\ r0.addr = DataAt(a) /\ r0.map = at.map
  <2> HIDE DEF h
  <2> QED
    BY <1>4 DEF Reads, DataAt
<1>7. \A r, w : word(r, w) = ReadWord(r, GroupAt(a), MaskAt(a), w, NotBad)
  BY <1>4, <1>5
<1>8. ReadEntry(at, NotBad) = r4
  BY DEF ReadEntry
<1> HIDE DEF h, h2, r0, word
<1> DEFINE n(w) == Here(WordsAt(a), w)
           Put(r, s, w) ==
             \A b \in 0 .. MapSize - 1 :
               r.map[b] = IF Carries(a, b) /\ (b % 8) \div 2 = w THEN Carried(a, b) ELSE s.map[b]
<1>9. /\ Before(a, 0) = 0 /\ DataAt(a) \in Nat
      /\ Before(a, 1) = Before(a, 0) + 2 * n(0)
      /\ Before(a, 2) = Before(a, 1) + 2 * n(1)
      /\ Before(a, 3) = Before(a, 2) + 2 * n(2)
      /\ Behind(a) = DataAt(a) + Before(a, 3) + 2 * n(3)
      /\ Before(a, 1) \in Nat /\ Before(a, 2) \in Nat /\ Before(a, 3) \in Nat
      /\ n(0) \in Nat /\ n(1) \in Nat /\ n(2) \in Nat /\ n(3) \in Nat
  <2>1. /\ \A w \in {0, 1, 2} : Before(a, w + 1) = Before(a, w) + 2 * Here(WordsAt(a), w)
        /\ \A w \in {0, 1, 2, 3} : Before(a, w) \in 0 .. 6
        /\ Before(a, 0) = 0 /\ Behind(a) = DataAt(a) + Before(a, 3) + 2 * Here(WordsAt(a), 3)
    BY <1>1, WordsBefore
  <2>2. DataAt(a) \in {a + 1, a + 2} /\ a \in Nat
    BY <1>1, HeaderBytes
  <2>3. 0 + 1 = 1 /\ 1 + 1 = 2 /\ 2 + 1 = 3
    OBVIOUS
  <2> QED
    BY <2>1, <2>2, <2>3 DEF Here
<1> HIDE DEF a
<1>10. r1 \in Reads /\ r1.addr = DataAt(a) + Before(a, 1) /\ Put(r1, r0, 0)
  BY <1>1, <1>6, <1>7, <1>9, WordRead
<1> HIDE DEF r1
<1>11. r2 \in Reads /\ r2.addr = DataAt(a) + Before(a, 2) /\ Put(r2, r1, 1)
  BY <1>1, <1>7, <1>9, <1>10, WordRead
<1> HIDE DEF r2
<1>12. r3 \in Reads /\ r3.addr = DataAt(a) + Before(a, 3) /\ Put(r3, r2, 2)
  BY <1>1, <1>7, <1>9, <1>11, WordRead
<1> HIDE DEF r3
<1>13. r4 \in Reads /\ r4.addr = Behind(a) /\ Put(r4, r3, 3)
  BY <1>1, <1>7, <1>9, <1>12, WordRead
<1> HIDE DEF r4, n
<1>14. ASSUME NEW b \in 0 .. MapSize - 1
       PROVE  r4.map[b] = IF Carries(a, b) THEN Carried(a, b) ELSE at.map[b]
  <2>1. (b % 8) \div 2 \in {0, 1, 2, 3}
    BY BringUpAssumption DEF BringUpAssumption
  <2> DEFINE w == (b % 8) \div 2
  <2>2. /\ r1.map[b] = IF Carries(a, b) /\ w = 0 THEN Carried(a, b) ELSE at.map[b]
        /\ r2.map[b] = IF Carries(a, b) /\ w = 1 THEN Carried(a, b) ELSE r1.map[b]
        /\ r3.map[b] = IF Carries(a, b) /\ w = 2 THEN Carried(a, b) ELSE r2.map[b]
        /\ r4.map[b] = IF Carries(a, b) /\ w = 3 THEN Carried(a, b) ELSE r3.map[b]
    BY <1>6, <1>10, <1>11, <1>12, <1>13
  <2> HIDE DEF w
  <2>3. w \in {0, 1, 2, 3}
    BY <2>1 DEF w
  <2> QED
    BY <2>2, <2>3
<1> QED
  BY <1>8, <1>13, <1>14 DEF a

\* What is true of a number is true of a least one.
LEMMA LeastCell ==
  ASSUME NEW S \in SUBSET Nat, S # {}
  PROVE  \E m \in S : \A x \in S : m <= x
<1> DEFINE less == {p \in Nat \X Nat : p[1] < p[2]}
<1>1. IsWellFoundedOn(less, Nat)
  BY NatLessThanWellFounded, Zenon DEF OpToRel
<1>2. \A x, m \in Nat : x < m <=> <<x, m>> \in less
  OBVIOUS
<1> HIDE DEF less
<1>3. PICK m \in S : \A x \in S : <<x, m>> \notin less
  BY <1>1, WFMin
<1>4. \A x \in S : ~(x < m)
  BY <1>2, <1>3
<1> QED
  BY <1>4

\* The entries walked over when the decoder is at t.
Walked(P, t) ==
  /\ P \subseteq 0 .. Cells - 1
  /\ \A p \in P : p < t /\ Behind(p) <= t
  /\ t = 0 \/ \E p \in P : Behind(p) = t
  /\ \A a \in 0 .. Cells - 1 : a < t =>
       (a \in P <=> Burnt(a) /\ (a = 0 \/ \E p \in P : Behind(p) = a))

LEMMA WalkBegins == Walked({}, 0) /\ MapOf({}) = Blank
BY DEF Walked, MapOf, Blank

\* An entry more.
LEMMA WalkGoesOn ==
  ASSUME fuses \in FuseValues, NEW P, NEW t \in 0 .. Cells - 1, Walked(P, t), Burnt(t)
  PROVE  Walked(P \union {t}, Behind(t))
<1> DEFINE Q == P \union {t}
           u == Behind(t)
<1>0. Cells \in Nat \ {0}
  BY BringUpAssumption DEF BringUpAssumption
<1>1. \A a \in 0 .. Cells - 1 : Behind(a) \in Nat /\ a < Behind(a)
  BY <1>0, WordsBefore
<1>2. Q \subseteq 0 .. Cells - 1 /\ \A p \in Q : p < u /\ Behind(p) <= u
  BY <1>0, <1>1 DEF Walked
<1>3. \E p \in Q : Behind(p) = u
  OBVIOUS
<1>4. ASSUME NEW a \in 0 .. Cells - 1, a < u
      PROVE  a \in Q <=> Burnt(a) /\ (a = 0 \/ \E p \in Q : Behind(p) = a)
  <2>1. Behind(t) # a
    BY <1>0, <1>1, <1>4
  <2>2. (\E p \in Q : Behind(p) = a) <=> \E p \in P : Behind(p) = a
    BY <2>1
  <2>3. CASE a < t
    BY <2>2, <2>3, <1>0 DEF Walked
  <2>4. CASE a = t
    BY <2>2, <2>4 DEF Walked
  <2>5. CASE a > t
    <3>1. a \notin Q /\ a # 0
      BY <1>0, <2>5 DEF Walked
    <3>2. \A p \in P : Behind(p) # a
      BY <1>0, <1>1, <2>5 DEF Walked
    <3> QED
      BY <2>2, <3>1, <3>2
  <2> QED
    BY <1>0, <2>3, <2>4, <2>5
<1> QED
  BY <1>2, <1>3, <1>4 DEF Walked

\* The entry read last is the one that counts.
LEMMA LastEntryCounts ==
  ASSUME NEW P \in SUBSET Nat, NEW t \in Nat, \A p \in P : p < t
  PROVE  \A b \in 0 .. MapSize - 1 :
           MapOf(P \union {t})[b] = IF Carries(t, b) THEN Carried(t, b) ELSE MapOf(P)[b]
<1> SUFFICES ASSUME NEW b \in 0 .. MapSize - 1
             PROVE  MapOf(P \union {t})[b] = IF Carries(t, b) THEN Carried(t, b) ELSE MapOf(P)[b]
  OBVIOUS
<1> DEFINE old == {a \in P : Carries(a, b)}
           new == {a \in P \union {t} : Carries(a, b)}
<1>1. MapOf(P)[b] = IF old = {} THEN 255
                    ELSE Carried(CHOOSE a \in old : \A x \in old : x <= a, b)
  BY DEF MapOf
<1>2. MapOf(P \union {t})[b] = IF new = {} THEN 255
                               ELSE Carried(CHOOSE a \in new : \A x \in new : x <= a, b)
  BY DEF MapOf
<1>3. CASE Carries(t, b)
  <2>1. t \in new /\ \A x \in new : x \in Nat /\ x <= t
    BY <1>3
  <2> HIDE DEF new
  <2>2. (CHOOSE a \in new : \A x \in new : x <= a) = t
    <3> DEFINE c == CHOOSE a \in new : \A x \in new : x <= a
    <3>1. c \in new /\ \A x \in new : x <= c
      BY <2>1
    <3> HIDE DEF c
    <3>2. c \in Nat /\ c <= t /\ t <= c
      BY <2>1, <3>1
    <3>3. c = t
      BY <3>2
    <3> QED
      BY <3>3 DEF c
  <2> QED
    BY <1>2, <1>3, <2>1, <2>2
<1>4. CASE ~Carries(t, b)
  <2>1. new = old
    BY <1>4
  <2> HIDE DEF new, old
  <2> QED
    BY <1>1, <1>2, <1>4, <2>1
<1> QED
  BY <1>3, <1>4

\* There is one chain of entries.
LEMMA OneChain ==
  ASSUME fuses \in FuseValues, NEW A \in SUBSET (0 .. Cells - 1), NEW B \in SUBSET (0 .. Cells - 1),
         IsChain(A), IsChain(B)
  PROVE  A = B
<1>0. Cells \in Nat \ {0}
  BY BringUpAssumption DEF BringUpAssumption
<1>1. \A a \in 0 .. Cells - 1 : Behind(a) \in Nat /\ a < Behind(a)
  BY <1>0, WordsBefore
<1> DEFINE D == {a \in 0 .. Cells - 1 : ~(a \in A <=> a \in B)}
<1> SUFFICES ASSUME D # {} PROVE FALSE
  OBVIOUS
<1>2. PICK m \in D : \A x \in D : m <= x
  <2>1. D \in SUBSET Nat
    BY <1>0
  <2> HIDE DEF D
  <2> QED
    BY <2>1, LeastCell
<1>3. m \in 0 .. Cells - 1 /\ ~(m \in A <=> m \in B)
  OBVIOUS
<1>4. \A p \in 0 .. Cells - 1 : p < m => (p \in A <=> p \in B)
  BY <1>0, <1>2
<1>5. (\E p \in A : Behind(p) = m) <=> \E p \in B : Behind(p) = m
  BY <1>1, <1>3, <1>4
<1>6. m \in A <=> m \in B
  BY <1>3, <1>5 DEF IsChain
<1> QED
  BY <1>3, <1>6

\* When the walk ends it has walked over the chain.
LEMMA WalkEnds ==
  ASSUME fuses \in FuseValues, NEW P, NEW t \in Nat, Walked(P, t), ~Burnt(t)
  PROVE  P = EntryStarts
<1>0. Cells \in Nat \ {0}
  BY BringUpAssumption DEF BringUpAssumption
<1>1. P \in SUBSET (0 .. Cells - 1)
  BY DEF Walked
<1>2. IsChain(P)
  <2> SUFFICES ASSUME NEW a \in 0 .. Cells - 1
               PROVE  a \in P <=> Burnt(a) /\ (a = 0 \/ \E p \in P : Behind(p) = a)
    BY DEF IsChain
  <2>1. CASE a < t
    BY <2>1 DEF Walked
  <2>2. CASE a = t
    <3>1. a \notin P
      BY <1>0, <2>2 DEF Walked
    <3> QED
      BY <2>2, <3>1
  <2>3. CASE a > t
    <3>1. a \notin P /\ a # 0
      BY <1>0, <2>3 DEF Walked
    <3>2. \A p \in P : Behind(p) \in Nat
      BY <1>0, <1>1, WordsBefore
    <3>3. \A p \in P : Behind(p) # a
      BY <1>0, <2>3, <3>2 DEF Walked
    <3> QED
      BY <3>1, <3>3
  <2> QED
    BY <1>0, <2>1, <2>2, <2>3
<1>3. IsChain(EntryStarts) /\ EntryStarts \in SUBSET (0 .. Cells - 1)
  BY <1>1, <1>2 DEF EntryStarts
<1> QED
  BY <1>1, <1>2, <1>3, OneChain


\* While no read was given up and no reading failed to start, the map holds the
\* entries walked over so far.
MapInv ==
  Calm /\ "efuse" \notin lost.of =>
    /\ pc = "efuse" => \E P \in SUBSET (0 .. Cells - 1) :
                          Walked(P, efuse.addr) /\ efuse.map = MapOf(P)
    /\ pc = "mac" => efuse.map = MapOfFuses

\* A turn that ends the walk leaves the map of the chain; one that does not
\* adds an entry.
LEMMA StepMap ==
  ASSUME TypeInv, NEW P \in SUBSET (0 .. Cells - 1), Walked(P, efuse.addr),
         efuse.map = MapOf(P), Step(NotBad)
  PROVE  \/ pc' = "mac" /\ efuse'.map = MapOfFuses
         \/ /\ pc' = pc
            /\ \E Q \in SUBSET (0 .. Cells - 1) : Walked(Q, efuse'.addr) /\ efuse'.map = MapOf(Q)
<1> DEFINE t == efuse.addr
<1>0. /\ fuses \in FuseValues /\ t \in 0 .. Cells + 9 /\ t \in Nat /\ Cells \in Nat \ {0}
      /\ efuse.map \in MapValues /\ efuse \in EfuseValues
  BY BringUpAssumption DEF TypeInv, EfuseValues, BringUpAssumption
<1>1. t < Cells => Cell(t, NotBad) = fuses[t]
  <2>1. Cell(t, NotBad) = fuses[t % Cells]
    BY <1>0, TrueCell, Zenon
  <2> HIDE DEF t
  <2>2. t < Cells => t % Cells = t
    BY <1>0
  <2> QED
    BY <2>1, <2>2
<1>2. CASE t >= Cells \/ Cell(t, NotBad) = 255
  <2>1. ~Burnt(t)
    BY <1>0, <1>1, <1>2 DEF Burnt
  <2>2. P = EntryStarts
    BY <1>0, <2>1, WalkEnds
  <2>3. efuse' = [efuse EXCEPT !.valid = TRUE] /\ pc' = "mac"
    BY <1>2 DEF Step
  <2>4. efuse'.map = efuse.map
    BY <1>0, <2>3 DEF EfuseValues
  <2> QED
    BY <2>2, <2>3, <2>4 DEF MapOfFuses
<1>3. CASE ~(t >= Cells \/ Cell(t, NotBad) = 255)
  <2> DEFINE at == [addr |-> efuse.addr, map |-> efuse.map]
             r == ReadEntry(at, NotBad)
             Q == P \union {t}
  <2>1. Burnt(t) /\ t \in 0 .. Cells - 1
    BY <1>0, <1>1, <1>3 DEF Burnt
  <2>2. at \in Reads /\ at.addr = t /\ at.map = efuse.map
    BY <1>0 DEF Reads
  <2>3. efuse' = [efuse EXCEPT !.addr = r.addr, !.map = r.map] /\ pc' = pc
    BY <1>3 DEF Step
  <2>4. r \in Reads
    BY <1>0, <2>2, ReadEntryType, NotBadReads
  <2> HIDE DEF at
  <2>5. /\ r.addr = Behind(t)
        /\ \A b \in 0 .. MapSize - 1 :
             r.map[b] = IF Carries(t, b) THEN Carried(t, b) ELSE efuse.map[b]
    BY <1>0, <2>1, <2>2, EntryRead
  <2> HIDE DEF r, t
  <2>6. Walked(Q, Behind(t)) /\ Q \in SUBSET (0 .. Cells - 1)
    BY <1>0, <2>1, WalkGoesOn DEF t
  <2>7. \A p \in P : p < t
    BY DEF Walked, t
  <2>8. \A b \in 0 .. MapSize - 1 :
          MapOf(Q)[b] = IF Carries(t, b) THEN Carried(t, b) ELSE MapOf(P)[b]
    <3>1. P \in SUBSET Nat
      BY <1>0
    <3> QED
      BY <1>0, <2>7, <3>1, LastEntryCounts
  <2>9. r.map = MapOf(Q)
    <3>1. r.map \in MapValues
      BY <2>4 DEF Reads
    <3>2. \A b \in 0 .. MapSize - 1 : r.map[b] = MapOf(Q)[b]
      BY <2>5, <2>8
    <3> QED
      BY <3>1, <3>2 DEF MapValues, MapOf
  <2>10. efuse'.addr = r.addr /\ efuse'.map = r.map
    BY <1>0, <2>3 DEF EfuseValues
  <2> QED
    BY <2>3, <2>5, <2>6, <2>9, <2>10
<1> QED
  BY <1>2, <1>3

\* With the fuses as they were, so is all that they say.
LEMMA SameFuses ==
  ASSUME fuses' = fuses
  PROVE  /\ MapOfFuses' = MapOfFuses
         /\ \A P : MapOf(P)' = MapOf(P)
         /\ \A P, t : Walked(P, t)' <=> Walked(P, t)
<1> USE DEF MapOf, Carries, Carried, Behind, Burnt, WordsAt, GroupAt, DataAt, Long, MaskAt, Header2
<1>1. MapOfFuses' = MapOfFuses
  BY SMT DEF MapOfFuses, EntryStarts, IsChain
<1>2. ASSUME NEW P PROVE MapOf(P)' = MapOf(P)
  BY SMT
<1>3. ASSUME NEW P, NEW t PROVE Walked(P, t)' <=> Walked(P, t)
  BY SMT DEF Walked
<1> QED
  BY <1>1, <1>2, <1>3

LEMMA InitMap == Init => MapInv
BY DEF Init, MapInv

LEMMA NextMap == TypeInv /\ MapInv /\ [Next]_vars => MapInv'
<1> SUFFICES ASSUME TypeInv, MapInv, [Next]_vars, Calm', "efuse" \notin lost'.of PROVE MapInv'
  BY DEF MapInv
<1>0. Calm
  BY CalmBefore
<1>1. CASE PowerOn
  <2>1. CASE pc' = "efuse"
    <3>1. efuse'.addr = 0 /\ efuse'.map = Blank
      BY <1>1 DEF PowerOn
    <3>2. Walked({}, 0)' /\ MapOf({})' = Blank
      BY DEF Walked, MapOf, Blank
    <3>3. {} \in SUBSET (0 .. Cells - 1)
      OBVIOUS
    <3> QED
      BY <2>1, <3>1, <3>2, <3>3 DEF MapInv
  <2>2. CASE pc' # "efuse"
    <3>1. PowersUp("efuse", {"efuse"}) => pc' = "efuse"
      BY PowersUpType
    <3>2. pc' # "mac"
      BY <1>1, <2>2, <3>1 DEF PowerOn, PowerFails, Fails
    <3> QED
      BY <2>2, <3>2 DEF MapInv
  <2> QED
    BY <2>1, <2>2
<1>2. CASE DecodeEntry
  <2>1. CASE Step(NotBad) /\ fuses' = fuses /\ UNCHANGED lost
    <3>1. PICK P \in SUBSET (0 .. Cells - 1) : Walked(P, efuse.addr) /\ efuse.map = MapOf(P)
      BY <1>0, <1>2, <2>1 DEF DecodeEntry, MapInv
    <3>2. \/ pc' = "mac" /\ efuse'.map = MapOfFuses
          \/ /\ pc' = pc
             /\ \E Q \in SUBSET (0 .. Cells - 1) :
                  Walked(Q, efuse'.addr) /\ efuse'.map = MapOf(Q)
      BY <2>1, <3>1, StepMap
    <3>3. CASE pc' = "mac" /\ efuse'.map = MapOfFuses
      BY <2>1, <3>3, SameFuses DEF MapInv
    <3>4. CASE pc' = pc /\ \E Q \in SUBSET (0 .. Cells - 1) :
                 Walked(Q, efuse'.addr) /\ efuse'.map = MapOf(Q)
      <4>1. PICK Q \in SUBSET (0 .. Cells - 1) :
              Walked(Q, efuse'.addr) /\ efuse'.map = MapOf(Q)
        BY <3>4
      <4>2. Walked(Q, efuse.addr)' /\ MapOf(Q)' = MapOf(Q)
        <5> DEFINE t == efuse'.addr
        <5>1. Walked(Q, efuse.addr)' <=> Walked(Q, t)
          BY <2>1, SMT DEF Walked, Carries, Carried, Behind, Burnt, WordsAt, GroupAt, DataAt, Long,
                           MaskAt, Header2
        <5> QED
          BY <2>1, <4>1, <5>1, SameFuses
      <4>3. pc' = "efuse"
        BY <1>2, <3>4 DEF DecodeEntry
      <4> QED
        BY <4>1, <4>2, <4>3 DEF MapInv
    <3> QED
      BY <3>2, <3>3, <3>4
  <2>2. CASE pc' = "idle"
    BY <2>2 DEF MapInv
  <2>3. ~Gone /\ ~GivesUp
    <3>1. blind' = 0 /\ blind = 0 /\ present
      BY <1>0 DEF Calm
    <3> QED
      BY <3>1 DEF Gone, GivesUp
  <2>4. ~Loses({"efuse"}, {})
    <3>1. {"efuse"} \in SUBSET (Registers \union {"efuse"})
      OBVIOUS
    <3>2. Loses({"efuse"}, {}) => "efuse" \in lost'.of
      BY <3>1, LosesType
    <3> QED
      BY <3>2
  <2>5. CASE pc' # "idle"
    <3>1. fuses' = fuses
      BY <1>2, <2>5 DEF DecodeEntry
    <3>2. Step(NotBad) /\ UNCHANGED lost
      BY <1>2, <2>3, <2>4, <2>5 DEF DecodeEntry, Fails
    <3> QED
      BY <2>1, <3>1, <3>2
  <2> QED
    BY <2>2, <2>5
<1>3. CASE UNCHANGED <<fuses, efuse, pc, lost>>
  <2>0. "efuse" \notin lost.of
    BY <1>3
  <2>1. CASE pc = "efuse"
    <3>1. PICK P \in SUBSET (0 .. Cells - 1) : Walked(P, efuse.addr) /\ efuse.map = MapOf(P)
      BY <1>0, <2>0, <2>1 DEF MapInv
    <3>2. Walked(P, efuse.addr)' <=> Walked(P, efuse.addr)
      BY <1>3, SMT DEF Walked, Carries, Carried, Behind, Burnt, WordsAt, GroupAt, DataAt, Long,
                       MaskAt, Header2
    <3>3. efuse'.map = MapOf(P)'
      BY <1>3, <3>1, SameFuses
    <3> QED
      BY <1>3, <2>1, <3>1, <3>2, <3>3 DEF MapInv
  <2>2. CASE pc = "mac"
    BY <1>0, <1>3, <2>0, <2>2, SameFuses DEF MapInv
  <2>3. CASE pc \notin {"efuse", "mac"}
    BY <1>3, <2>3 DEF MapInv
  <2> QED
    BY <2>1, <2>2, <2>3
<1>8. ASSUME pc' \notin {"efuse", "mac"} PROVE MapInv'
  BY <1>8 DEF MapInv
<1>4. CASE Open \/ PowerOnAgain \/ InitMAC
  <2>0. PowersUp("load", {}) => pc' = "load"
    BY PowersUpType
  <2>1. pc' \notin {"efuse", "mac"}
    BY <1>4, <2>0 DEF Open, PowerOnAgain, PowerFails, Fails, InitMAC
  <2> QED
    BY <1>8, <2>1
<1>5. CASE Loading
  <2>1. AttemptFails \/ GiveUpAttempt => pc' \in {"repower", "idle"}
    BY DEF AttemptFails, FailsWith, GiveUpAttempt
  <2>2. FailsWith([chip EXCEPT !.sum = {}]) => pc' \in {"repower", "idle"}
    BY DEF FailsWith, GiveUpAttempt
  <2>3. pc' \notin {"efuse", "mac"}
    <3>1. CASE LoadSkipped \/ FileUnusable \/ BeginLoad
      BY <2>1, <3>1 DEF LoadSkipped, FileUnusable, BeginLoad
    <3>2. CASE Send \/ Sent \/ SendTimesOut \/ Acknowledged
      BY <2>1, <3>2 DEF Send, Sent, SendTimesOut, Acknowledged
    <3>3. CASE StartCopy \/ Copied \/ CheckSection
      BY <2>1, <2>2, <3>3 DEF StartCopy, Copied, CheckSection
    <3>4. CASE StartFirmware \/ ResumeFirmware \/ PollForReady
      BY <2>1, <3>4 DEF StartFirmware, ResumeFirmware, PollForReady
    <3> QED
      BY <1>5, <3>1, <3>2, <3>3, <3>4 DEF Loading
  <2> QED
    BY <1>8, <2>3
<1>6. CASE Finishing \/ StageFails
  <2>1. pc' \notin {"efuse", "mac"}
    <3>1. CASE Finish \/ StageFails
      <4>1. Finish => pc' = "idle"
        BY DEF Finish, Proceed
      <4>2. StageFails => pc' = "idle"
        BY DEF StageFails, StopHere, Fails
      <4> QED
        BY <3>1, <4>1, <4>2
    <3>2. CASE WriteMacAddress \/ InitPhy \/ EnableMac
      BY <3>2 DEF WriteMacAddress, InitPhy, EnableMac, Proceed
    <3>3. CASE StartRx \/ StartManager
      BY <3>3 DEF StartRx, StartManager, Proceed
    <3> QED
      BY <1>6, <3>1, <3>2, <3>3 DEF Finishing
  <2> QED
    BY <1>8, <2>1
<1>7. ASSUME Adapter \/ Unplug \/ UNCHANGED vars PROVE UNCHANGED <<fuses, efuse, pc, lost>>
  <2>1. CASE Adapter
    BY <2>1 DEF Adapter, TransferDone, TransferCancelled, Park, Copy, Boot
  <2>2. CASE Unplug \/ UNCHANGED vars
    BY <2>2 DEF Unplug, vars
  <2> QED
    BY <1>7, <2>1, <2>2
<1> QED
  BY <1>1, <1>2, <1>3, <1>4, <1>5, <1>6, <1>7, Zenon DEF Next, OpenThread, Finishing

LEMMA MapHolds == Spec => []MapInv
<1>1. TypeInv /\ MapInv /\ [Next]_vars => MapInv'
  BY NextMap
<1> QED
  BY <1>1, InitMap, TypesHold, PTL DEF Spec

\* When every read was answered and every reading was started, the map the
\* decoder calls valid is what the format says of the cells, for any burnt or
\* unburnt EFUSE: entries that override one another, that reach past the map or
\* past the last cell, with short headers and long ones (_DecodeMap).
THEOREM MapIsWhatIsBurnt == Spec => []MapIsTheFuses
<1>1. MapInv => MapIsTheFuses
  BY DEF MapInv, MapIsTheFuses, Calm
<1> QED
  BY <1>1, MapHolds, PTL
=============================================================================
