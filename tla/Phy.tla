-------------------------------- MODULE Phy --------------------------------
(***************************************************************************)
(* The radio: RTL8814AUPhyConfig.  Initialize() once the firmware runs,    *)
(* then SetChannel(), which the notifier thread calls for every channel of *)
(* a sweep and a client's thread calls in _DoJoin.                         *)
(*                                                                         *)
(* SetChannel is a long series of register writes.  Nothing serialises two *)
(* of them, only the writes to the synthesizers are checked, and what the  *)
(* driver believes (fCurrentChannel, fCurrentBand) changes at the very end *)
(* and decides whether the next call reprograms the band at all.           *)
(*                                                                         *)
(* Registers that are written together and hold one setting are one group  *)
(* here.  Of RF register 0x18 the channel number, the band-select code and *)
(* the filter width are kept, of the other masked registers the field, and *)
(* of the six power registers of a path the indices they hold.             *)
(***************************************************************************)
EXTENDS Integers, Sequences, SequencesExt, FiniteSets

CONSTANTS
  Callers,   \* threads that call SetChannel
  Channels,  \* channels they ask for
  Widths,    \* bandwidths they ask for, in MHz
  Paths,     \* kRfPathCount: the RF paths are 1 .. Paths
  Burnt,     \* what the power block of an EFUSE may hold, by path and group
  MaxCalls,  \* bound: calls of SetChannel
  MaxLost    \* bound: steps that give up a register read or some of their writes

\* kChannelList2G and kChannelList5G
List2G == [i \in 1 .. 14 |-> i]
List5G == <<36, 40, 44, 48, 52, 56, 60, 64, 100, 104, 108, 112, 116, 120, 124, 128,
            132, 136, 140, 144, 149, 153, 157, 161, 165, 169, 173, 177>>

\* kTxPwrGroupCount2G, kTxPwrGroupCount5G, kTxPwrIndexMax and the defaults
Groups2G == 5
Groups5G == 14
IndexMax == \h3F
Default2G == \h2D
Default5G == \h2A
PowerGroups == 0 .. Groups2G + Groups5G - 1

ASSUME PhyAssumption ==
  /\ Paths \in Nat \ {0} /\ Widths \subseteq {20, 40, 80}
  /\ Channels \subseteq ToSet(List2G) \union ToSet(List5G)
  /\ Burnt \subseteq [1 .. Paths -> [PowerGroups -> 0 .. 255]]
  /\ MaxCalls \in Nat /\ MaxLost \in Nat

VARIABLES
  up,       \* Initialize() has succeeded
  table,    \* fTxPowerIndex
  believed, \* fCurrentChannel, fCurrentBand and fCurrentBandwidth
  chip,     \* the groups of baseband registers
  synth,    \* RF register 0x18 of each path
  power,    \* the power indices in the registers of each path
  call,     \* where each caller is in SetChannel
  calls,    \* how often it was called
  lost,     \* steps so far that gave up an access
  spoiled   \* history: something was given up, or two calls overlapped, since
            \* the last call that reprogrammed the band undisturbed

vars == <<up, table, believed, chip, synth, power, call, calls, lost, spoiled>>

PathIds == 1 .. Paths

------------------------------------------------------------------------------
(* What a channel asks of the registers.                                   *)

\* ChannelBand; a setting half of which is another one's; and what the cold-start
\* table or power-on leaves, which need be no channel's setting.
Band2G == 2
Band5G == 5
Mixed == 0
Cold == 1

\* _BandForChannel
Band(ch) == IF ch <= 14 THEN Band2G ELSE Band5G

FcArea(ch) ==
  CASE ch \in 36 .. 48 -> \h494
    [] ch \in 50 .. 64 -> \h453
    [] ch \in 100 .. 116 -> \h452
    [] ch >= 118 -> \h412
    [] OTHER -> \h96a

\* _RfModAgForChannel: bits 18:16, in which the sub-bands differ.
RfModAg(ch) ==
  CASE ch \in 36 .. 64 -> 1
    [] ch \in 100 .. 140 -> 3
    [] ch > 140 -> 5
    [] OTHER -> 0

AgcTable(ch) ==
  CASE ch \in 36 .. 64 -> 1
    [] ch \in 100 .. 144 -> 2
    [] ch >= 149 -> 3
    [] OTHER -> 0

\* _ChannelToGroupIndex: five groups below, two channels of the list a group
\* above.
GroupIndex(ch) ==
  IF ch <= 14 THEN ch \div 3
  ELSE IF ch \in ToSet(List5G)
       THEN Groups2G + ((CHOOSE i \in DOMAIN List5G : List5G[i] = ch) - 1) \div 2
       ELSE Groups2G + Groups5G - 1

\* _SwitchBand: the groups it programs, in its order.
Switching(b) ==
  IF b = Band5G THEN <<"route", "routeD", "demod", "gain", "txPath">>
  ELSE <<"route", "routeD", "agcSelect", "demod", "gain", "txPath">>

BandGroups == {"route", "routeD", "demod", "gain", "txPath"}
Registers == BandGroups \union {"agcSelect", "fcArea", "width"}

\* More than one register holds these: half a setting is neither.
Compound == {"route", "demod", "gain", "width"}

\* What a register group must hold for a channel.
Setting(r, ch, w) ==
  CASE r \in BandGroups -> Band(ch)
    [] r = "agcSelect" -> AgcTable(ch)
    [] r = "fcArea" -> FcArea(ch)
    [] r = "width" -> w

\* RF register 0x18; a read that was given up is all ones.  The table, too, has
\* ones for the width, which are no bandwidth's.
Synth(ch, w) == [channel |-> ch, code |-> RfModAg(ch), width |-> w]
Ones == [channel |-> 255, code |-> 7, width |-> Cold]

\* The channel goes in under kRfChannelBandMask, the width stays.
Tuned(old, ch) == [channel |-> ch, code |-> RfModAg(ch), width |-> old.width]

------------------------------------------------------------------------------
(* Initialize(): the cold-start table, then the power indices of the EFUSE.*)

\* An index of zero, or past the last gain, is replaced by the band's default.
UsableIndex(byte, g) ==
  IF byte \in 1 .. IndexMax THEN byte ELSE IF g < Groups2G THEN Default2G ELSE Default5G

\* _GetTxPowerIndex
PowerFor(p, ch) == table[p][GroupIndex(ch)]

Idle == [pc |-> "idle", channel |-> 1, width |-> 20, switch |-> FALSE, at |-> 1,
         held |-> Ones, alone |-> TRUE, clean |-> TRUE, seen |-> TRUE]

\* What power-on left in a power register, which the table does not write.
Unset == 256

Init ==
  /\ up = FALSE /\ table = [p \in PathIds |-> [g \in PowerGroups |-> 0]]
  /\ believed = [channel |-> 1, band |-> Band2G, width |-> 20]
  /\ chip = [r \in Registers |-> Cold]
  /\ synth = [p \in PathIds |-> Ones]
  /\ power = [p \in PathIds |-> {Unset}]
  /\ call = [c \in Callers |-> Idle] /\ calls = 0 /\ lost = 0 /\ spoiled = FALSE

\* The groups that the table leaves as channel 1 at 20 MHz asks for.  Of the rest
\* it writes the LNA as for 5 GHz, the routing as for one class of board, and
\* neither the CCK check nor the sub-channel.
TableSets == {"agcSelect", "fcArea", "txPath"}

\* A register access is given up; a write may have landed all the same.
GivenUp == lost < MaxLost /\ lost' = lost + 1 /\ spoiled' = TRUE

\* The table puts the synthesizers on channel 1, which the driver believes; were
\* a write of it given up, the bring-up would fail and start over.  The writes
\* of the power are not looked at: paths may keep some of what they held, or all.
Initialize ==
  /\ ~up /\ up' = TRUE
  /\ \E bytes \in Burnt :
       table' = [p \in PathIds |-> [g \in PowerGroups |-> UsableIndex(bytes[p][g], g)]]
  /\ chip' = [r \in Registers |-> IF r \in TableSets THEN Setting(r, 1, 20) ELSE Cold]
  /\ synth' = [p \in PathIds |-> Synth(1, Cold)]
  /\ \E landed \in [PathIds -> {"all", "some", "none"}] :
       /\ power' = [p \in PathIds |->
            (IF landed[p] = "none" THEN {} ELSE {table'[p][GroupIndex(believed.channel)]})
              \union (IF landed[p] = "all" THEN {} ELSE power[p])]
       /\ \/ (\A p \in PathIds : landed[p] = "all") /\ UNCHANGED <<lost, spoiled>>
          \/ GivenUp
  /\ UNCHANGED <<believed, call, calls>>

------------------------------------------------------------------------------
(* SetChannel(): a program of steps, given by the channel and by whether   *)
(* the band is believed to change.                                         *)

EveryPath(kind) == [p \in PathIds |-> <<kind, p>>]
AsSteps(groups) == [i \in DOMAIN groups |-> <<groups[i], 0>>]

\* Mutation: the loop stops a path short.
NarrowingShort ==
  [i \in 1 .. 2 * Paths - 2 |-> <<IF i % 2 = 1 THEN "read" ELSE "narrow", (i + 1) \div 2>>]

\* _SetBandwidth reads register 0x18 of a path and writes it back.
Narrowing ==
  [i \in 1 .. 2 * Paths |-> <<IF i % 2 = 1 THEN "read" ELSE "narrow", (i + 1) \div 2>>]

BandSteps(ch, switch) == IF switch THEN AsSteps(Switching(Band(ch))) ELSE <<>>
TuneSteps == AsSteps(<<"fcArea">>) \o EveryPath("tune")

\* Mutation: the synthesizers are tuned before the band is switched.
TuneFirst(ch, switch) == TuneSteps \o BandSteps(ch, switch)

SwitchFirst(ch, switch) == BandSteps(ch, switch) \o TuneSteps

\* The whole of it: the 5 GHz AGC tables, the width and the power follow.
Program ==
  [ch \in Channels \union {1} |-> [switch \in BOOLEAN |->
     SwitchFirst(ch, switch)
       \o (IF Band(ch) = Band5G THEN AsSteps(<<"agcSelect">>) ELSE <<>>)
       \o AsSteps(<<"width">>) \o Narrowing \o EveryPath("power")]]

Steps(k) == Program[k.channel][k.switch]

Active == {c \in Callers : call[c].pc = "run"}

\* Mutation: the band is programmed on the way up only.
SwitchUpOnly(ch) == Band(ch) = Band5G /\ believed.band = Band2G

NeedsSwitch(ch) == Band(ch) # believed.band

Begun(ch, w) ==
  [pc |-> "run", channel |-> ch, width |-> w, switch |-> NeedsSwitch(ch), at |-> 1,
   held |-> Ones, alone |-> Active = {}, clean |-> Active = {}, seen |-> TRUE]

\* What becomes of a caller: another comes beside it; one step on; with a value
\* read; after an access that was given up; and after a read that was.
Joined(k) == [k EXCEPT !.alone = FALSE]
Onward(k) == [k EXCEPT !.at = @ + 1]
Holding(k, v) == [k EXCEPT !.held = v]
Disturbed(k) == [k EXCEPT !.clean = FALSE]
Blinded(k) == [k EXCEPT !.seen = FALSE]

GoesTo(c, k) == call' = [call EXCEPT ![c] = k]

SetChannel(c, ch, w) ==
  /\ up /\ call[c].pc = "idle" /\ calls < MaxCalls
  /\ calls' = calls + 1
  /\ call' = [d \in Callers |-> IF d = c THEN Begun(ch, w)
                                ELSE IF d \in Active THEN Disturbed(Joined(call[d]))
                                ELSE call[d]]
  /\ spoiled' = (spoiled \/ Active # {})
  /\ UNCHANGED <<up, table, believed, chip, synth, power, lost>>

StepOf(c) == Steps(call[c])[call[c].at]
Running(c) == call[c].pc = "run" /\ call[c].at <= Len(Steps(call[c]))

WriteBaseband(c) ==
  /\ Running(c) /\ StepOf(c)[1] \in Registers
  /\ LET r == StepOf(c)[1]
         asked == Setting(r, call[c].channel, call[c].width)
         contended == \E o \in Callers \ {c} : Running(o) /\ StepOf(o)[1] = r
         half == IF r \in Compound THEN {Mixed} ELSE {}
     IN \/ /\ \E v \in {asked} \union (IF contended THEN half ELSE {}) :
                chip' = [chip EXCEPT ![r] = v]
           /\ GoesTo(c, Onward(call[c])) /\ UNCHANGED <<lost, spoiled>>
        \/ /\ GivenUp
           /\ \E v \in {chip[r], asked} \union half : chip' = [chip EXCEPT ![r] = v]
           /\ GoesTo(c, Disturbed(Onward(call[c])))
  /\ UNCHANGED <<up, table, believed, synth, power, calls>>

\* Mutation: the result of the write is not looked at.
GoesOn(k) == Disturbed(Onward(k))

\* A synthesizer could not be tuned: SetChannel returns the error at once.
GivesUpCall(k) == Idle

\* The synthesizer's read and its checked write.
TunePath(c) ==
  /\ Running(c) /\ StepOf(c)[1] = "tune"
  /\ LET p == StepOf(c)[2]
         tuned(old) == Tuned(old, call[c].channel)
     IN \/ /\ synth' = [synth EXCEPT ![p] = tuned(synth[p])]
           /\ GoesTo(c, Onward(call[c])) /\ UNCHANGED <<lost, spoiled>>
        \/ /\ GivenUp
           /\ synth' = [synth EXCEPT ![p] = tuned(Ones)]
           /\ GoesTo(c, Onward(call[c]))
        \/ /\ GivenUp
           /\ \E v \in {synth[p], tuned(synth[p])} : synth' = [synth EXCEPT ![p] = v]
           /\ GoesTo(c, GivesUpCall(call[c]))
  /\ UNCHANGED <<up, table, believed, chip, power, calls>>

ReadWidth(c) ==
  /\ Running(c) /\ StepOf(c)[1] = "read"
  /\ \/ /\ GoesTo(c, Holding(Onward(call[c]), synth[StepOf(c)[2]]))
        /\ UNCHANGED <<lost, spoiled>>
     \/ /\ GivenUp
        /\ GoesTo(c, Blinded(Disturbed(Holding(Onward(call[c]), Ones))))
  /\ UNCHANGED <<up, table, believed, chip, synth, power, calls>>

\* What was read goes back with it, the channel included.
WriteWidth(c) ==
  /\ Running(c) /\ StepOf(c)[1] = "narrow"
  /\ LET p == StepOf(c)[2]
         back == [call[c].held EXCEPT !.width = call[c].width]
     IN \/ /\ synth' = [synth EXCEPT ![p] = back]
           /\ GoesTo(c, Holding(Onward(call[c]), Ones)) /\ UNCHANGED <<lost, spoiled>>
        \/ /\ GivenUp
           /\ \E v \in {synth[p], back} : synth' = [synth EXCEPT ![p] = v]
           /\ GoesTo(c, Disturbed(Holding(Onward(call[c]), Ones)))
  /\ UNCHANGED <<up, table, believed, chip, power, calls>>

\* The six registers of a path, between whose writes those of another call fall.
WritePower(c) ==
  /\ Running(c) /\ StepOf(c)[1] = "power"
  /\ LET p == StepOf(c)[2]
         asked == {PowerFor(p, call[c].channel)}
         contended == \E o \in Callers \ {c} : Running(o) /\ StepOf(o) = StepOf(c)
     IN \/ /\ \E v \in {asked} \union (IF contended THEN {asked \union power[p]} ELSE {}) :
                power' = [power EXCEPT ![p] = v]
           /\ GoesTo(c, Onward(call[c])) /\ UNCHANGED <<lost, spoiled>>
        \/ /\ GivenUp
           /\ \E v \in {asked, asked \union power[p], power[p]} :
                power' = [power EXCEPT ![p] = v]
           /\ GoesTo(c, Disturbed(Onward(call[c])))
  /\ UNCHANGED <<up, table, believed, chip, synth, calls>>

Succeeds(c) == call[c].pc = "run" /\ call[c].at > Len(Steps(call[c]))

Finish(c) ==
  /\ Succeeds(c)
  /\ believed' = [channel |-> call[c].channel, band |-> Band(call[c].channel),
                  width |-> call[c].width]
  /\ spoiled' = (spoiled /\ ~(call[c].switch /\ call[c].clean))
  /\ GoesTo(c, Idle)
  /\ UNCHANGED <<up, table, chip, synth, power, calls, lost>>

Caller(c) ==
  \/ \E ch \in Channels, w \in Widths : SetChannel(c, ch, w)
  \/ WriteBaseband(c) \/ TunePath(c) \/ ReadWidth(c) \/ WriteWidth(c) \/ WritePower(c)
  \/ Finish(c)

Next == Initialize \/ \E c \in Callers : Caller(c)

Spec == Init /\ [][Next]_vars

------------------------------------------------------------------------------
(* Properties.                                                             *)

SynthValues == [channel : Channels \union {1, 255}, code : {0, 1, 3, 5, 7},
                width : Widths \union {20, Cold}]

TypeOK ==
  /\ up \in BOOLEAN /\ spoiled \in BOOLEAN
  /\ table \in [PathIds -> [PowerGroups -> 0 .. 255]]
  /\ believed \in [channel : Channels \union {1}, band : {Band2G, Band5G},
                   width : Widths \union {20}]
  /\ DOMAIN chip = Registers
  /\ \A p \in PathIds : synth[p] \in SynthValues
  /\ power \in [PathIds -> SUBSET (0 .. 255 \union {Unset})]
  /\ \A c \in Callers :
       /\ call[c].pc \in {"idle", "run"} /\ call[c].channel \in Channels \union {1}
       /\ call[c].at \in 1 .. Len(Steps(call[c])) + 1
       /\ call[c].held \in SynthValues
  /\ calls \in 0 .. MaxCalls /\ lost \in 0 .. MaxLost

\* Between calls every register group, every synthesizer and every path's power
\* is what the channel the driver believes in asks for: across sub-bands and
\* bands, in whatever order the channels come; and a call that reprograms the
\* band undisturbed sets right whatever lost accesses, half-way errors and
\* overlapping calls before it had left.  What the cold start left is let pass
\* where the code leaves it: in the widths until the first call is through, and
\* in the groups of the band as long as the radio stays on 2.4 GHz.
RadioWhole ==
  up /\ Active = {} /\ ~spoiled =>
    /\ believed.band = Band(believed.channel)
    /\ \A r \in Registers :
         \/ chip[r] = Setting(r, believed.channel, believed.width)
         \/ /\ chip[r] = Cold
            /\ \/ r = "width" /\ calls = 0
               \/ r \in BandGroups /\ believed.band = Band2G
    /\ \A p \in PathIds :
         /\ \/ synth[p] = Synth(believed.channel, believed.width)
            \/ synth[p] = Synth(believed.channel, Cold) /\ calls = 0
         /\ power[p] = {PowerFor(p, believed.channel)}

\* "The demodulator is never running against a half-configured band": no path
\* is tuned to the other band before routing, demodulator, gains and transmit
\* path have been reprogrammed for it; nor, with nothing lost, ever after.
BandBeforeSynth ==
  up /\ ~spoiled => \A p \in PathIds :
    Band(synth[p].channel) # believed.band =>
      \A r \in BandGroups : chip[r] = Band(synth[p].channel)

\* A SetChannel() that no other overlapped and that lost none of its own accesses
\* leaves every path tuned, narrowed and with one power, its channel's and an
\* index of the gain table, and the sub-band's filters set: whatever an
\* earlier call, or Initialize(), lost or left half done, and whatever the EFUSE
\* holds, though the band is not reprogrammed.
CleanCallSets ==
  \A c \in Callers : Succeeds(c) /\ call[c].clean =>
    LET ch == call[c].channel
        w == call[c].width
    IN /\ chip["fcArea"] = FcArea(ch) /\ chip["width"] = w
       /\ Band(ch) = Band5G => chip["agcSelect"] = AgcTable(ch)
       /\ \A p \in PathIds : /\ synth[p] = Synth(ch, w)
                             /\ power[p] = {PowerFor(p, ch)}
                             /\ PowerFor(p, ch) \in 1 .. IndexMax

\* A SetChannel() that says B_OK, with no other beside it, has tuned every path
\* to its channel even if writes of it were lost; a read given up while the
\* width is set is the exception.
OkMeansTuned ==
  [][\A c \in Callers :
       Succeeds(c) /\ call[c].alone /\ call[c].seen /\ call'[c].pc = "idle" =>
         \A p \in PathIds : /\ synth[p].channel = call[c].channel
                            /\ synth[p].code = RfModAg(call[c].channel)
                            /\ believed'.channel = call[c].channel]_vars
=============================================================================
