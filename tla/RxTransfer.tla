---------------------------- MODULE RxTransfer ----------------------------
(* What a bulk-IN transfer holds and how the driver reads it (RxPath.cpp,    *)
(* _ParseDescriptor, _ParsePhyStatus, _ProcessTransfer; Device.cpp,          *)
(* _ParseBeaconOrProbe).  The chip packs received frames one after another,  *)
(* each behind a descriptor and, for most, a block of PHY status, each       *)
(* beginning on a multiple of eight bytes; zeros may follow the last.  The   *)
(* driver finds the next descriptor by arithmetic on the last one.           *)
(*                                                                           *)
(* A frame is a record: raw, its length on the air; phy, whether a PHY block *)
(* precedes it; drv, the size of that block the descriptor reports, which    *)
(* may be 0 although there is one; shift; crc and icv, its errors; block, the*)
(* contents of the PHY block; body, what it says.                            *)
EXTENDS Integers, Sequences, FiniteSets

DescSize == 24   \* kRxDescSize
Align    == 8    \* kRxAggregationAlign
Fcs      == 4    \* the check sequence at the end of every frame
PhySize  == 32   \* the PHY block, as observed

Aligned(n) == ((n + Align - 1) \div Align) * Align

-----------------------------------------------------------------------------
(* The chip's layout.                                                      *)

Occupies(f) ==
  Aligned(DescSize + (IF f.phy THEN PhySize ELSE 0) + f.shift + f.raw)

\* Where the i-th frame of a transfer begins; the frame after the last: its end.
Begins(t) ==
  LET begin[i \in 1 .. Len(t.frames) + 1] ==
        IF i = 1 THEN 0 ELSE begin[i - 1] + Occupies(t.frames[i - 1])
  IN begin

Length(t) == Begins(t)[Len(t.frames) + 1] + t.padding

Padding == [raw |-> 0, phy |-> FALSE, drv |-> 0, shift |-> 0, crc |-> FALSE,
            icv |-> FALSE, body |-> [kind |-> "other"]]

\* The inside of a frame, read as a descriptor, gives any length.
Payload == [Padding EXCEPT !.raw = 16383]

\* What stands at an offset, read as a descriptor.
DescriptorAt(t, offset) ==
  LET here == {i \in DOMAIN t.frames : Begins(t)[i] = offset} IN
  CASE here # {} -> t.frames[CHOOSE i \in here : TRUE]
    [] here = {} /\ offset >= Begins(t)[Len(t.frames) + 1] -> Padding
    [] OTHER -> Payload

-----------------------------------------------------------------------------
(* The driver's walk.                                                      *)

\* The length to deliver: without the check sequence.
PacketLength(d) == IF d.raw >= Fcs THEN d.raw - Fcs ELSE d.raw

\* The reported size, or the observed one where the descriptor reports none.
PhyBytes(d) == IF d.drv = 0 /\ d.phy THEN PhySize ELSE d.drv

PayloadOffset(d, offset) == offset + DescSize + PhyBytes(d) + d.shift

\* Mutation: the walk goes on by the length that is delivered.
AdvanceStripped(d) ==
  Aligned(DescSize + PhyBytes(d) + d.shift + PacketLength(d))

\* The walk goes on by the length on the air.
Advance(d) == Aligned(DescSize + PhyBytes(d) + d.shift + d.raw)

\* What becomes of the frame at an offset.
Verdict(t, offset) ==
  LET d == DescriptorAt(t, offset) IN
  CASE offset + DescSize > Length(t) -> "end"
    [] PacketLength(d) = 0 -> "end"
    [] PayloadOffset(d, offset) + PacketLength(d) > Length(t) -> "bail"
    [] d.crc \/ d.icv -> "error"
    [] OTHER -> "deliver"

\* The frames of a transfer the driver has to deliver.
Sound(t) == {i \in DOMAIN t.frames : ~t.frames[i].crc /\ ~t.frames[i].icv}

-----------------------------------------------------------------------------
(* Signal strength, in dBm, from the unsigned bytes of the PHY block.       *)

Signed8(n)   == ((n + 128) % 256) - 128
Level(byte)  == Signed8(Signed8(byte) - 110)
Truncated(a, b) == IF a >= 0 THEN a \div b ELSE -((-a) \div b)

PathSum(block) ==
  LET sum[i \in 0 .. Len(block.paths)] ==
        IF i = 0 THEN 0
        ELSE sum[i - 1]
               + IF block.paths[i] > 0 THEN Level(block.paths[i]) ELSE 0
  IN sum[Len(block.paths)]

ActivePaths(block) ==
  Cardinality({i \in DOMAIN block.paths : block.paths[i] > 0})

\* CCK frames have one level, the others one per path; 0 where the descriptor
\* reports no block.
Strength(f) ==
  CASE ~f.phy \/ f.drv = 0 -> 0
    [] f.phy /\ f.drv > 0 /\ f.block.cck -> Level(f.block.paths[1])
    [] OTHER -> IF ActivePaths(f.block) = 0 THEN -110
                ELSE Truncated(PathSum(f.block), ActivePaths(f.block))

-----------------------------------------------------------------------------
(* The information elements of a beacon: a sequence of records with an id   *)
(* and a value; "cut" is one whose length runs past the frame.             *)

CONSTANT NoSsid   \* the empty name

\* The elements the driver sees: those before one that is cut.
Seen(ies) == {i \in DOMAIN ies : \A j \in 1 .. i : ies[j].id # "cut"}

Places(ies, id) == {i \in Seen(ies) : ies[i].id = id}

\* The last element of an id gives the value.
LastOf(ies, id, default) ==
  IF Places(ies, id) = {} THEN default
  ELSE ies[CHOOSE i \in Places(ies, id) : \A j \in Places(ies, id) : j <= i].value

\* RSN wins over WPA in either order.
Security(ies) == CASE Places(ies, "RSN") # {} -> "CCMP"
                   [] Places(ies, "RSN") = {} /\ Places(ies, "WPA") # {} -> "TKIP"
                   [] OTHER -> "None"

Parsed(f) == [bssid    |-> f.body.bssid,
              ssid     |-> LastOf(f.body.ies, "SSID", NoSsid),
              channel  |-> LastOf(f.body.ies, "DS", 0),
              security |-> Security(f.body.ies),
              rssi     |-> Strength(f)]
=============================================================================
