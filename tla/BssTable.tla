----------------------------- MODULE BssTable -----------------------------
(* The table of networks (WiFiManagement.cpp, fBssList).  The USB thread     *)
(* walks each transfer and enters the beacons it holds, under the manager's  *)
(* lock; a scan request purges entries not heard for thirty seconds and the  *)
(* results are copied out, both under the lock; a join looks a network up by *)
(* name without the lock and goes on using the entry it found.               *)
EXTENDS RxTransfer

CONSTANTS
  Size,       \* kMaxBssEntries
  Aps,        \* the BSSIDs that beacon
  NoAp,       \* the BSSID of zeros
  Ssids,
  Channels,   \* the channels beacons carry, with 0 for none
  Transfers,  \* the transfers the chip may deliver
  Given,      \* the BSSIDs a join may name
  MaxResults, \* the room of whoever asks for the results
  MaxTransfers, MaxJoins, MaxAges   \* bounds

Slots == 1 .. Size

Securities == {"None", "TKIP", "CCMP"}
Beacons == [bssid : Aps, ssid : Ssids \cup {NoSsid}, channel : Channels,
            security : Securities, rssi : -128 .. 127]

ASSUME BssAssumption ==
  /\ Size \in Nat \ {0} /\ MaxResults \in Nat /\ NoAp \notin Aps /\ Aps # {}
  /\ Given \subseteq Aps
  /\ NoSsid \notin Ssids /\ 0 \in Channels
  /\ MaxTransfers \in Nat /\ MaxJoins \in Nat /\ MaxAges \in Nat

ASSUME TransferAssumption ==
  \A t \in Transfers : \A i \in DOMAIN t.frames :
    /\ {i, t.frames[i].raw, t.frames[i].drv, t.frames[i].shift} \subseteq Nat
    /\ t.frames[i].body.kind = "beacon" => Parsed(t.frames[i]) \in Beacons

\* The chip fills a transfer with frames longer than their check sequence; a
\* PHY block has the size that its descriptor reports or, when it reports none,
\* the one observed.
ASSUME PackingAssumption ==
  \A t \in Transfers :
    /\ Len(t.frames) \in Nat /\ DOMAIN t.frames = 1 .. Len(t.frames)
    /\ t.padding \in Nat
    /\ \A i \in DOMAIN t.frames :
         /\ t.frames[i].raw > Fcs
         /\ PhyBytes(t.frames[i]) = IF t.frames[i].phy THEN PhySize ELSE 0

VARIABLES
  entries,   \* fBssList
  bssCount,  \* fBssCount
  lock,      \* fLock: "free", or held by the USB thread
  usb,       \* where the USB thread is
  transfer,  \* the transfer it walks
  offset,    \* where in it
  delivered, \* history: the frames of it that were delivered, by number
  beacon,    \* what the beacon it handles says
  slot,      \* the entry it fills
  last,      \* history: what the last kept beacon of each network said
  heard,     \* history: the networks heard, with name and channel
  results,   \* the entries last copied out
  join,      \* the join under way
  chosen,    \* history: what the last join chose
  transfers, joins, ages   \* what is left of the bounds

tableVars == <<entries, bssCount, lock>>
usbVars   == <<usb, transfer, offset, delivered, beacon, slot, last, heard>>
joinVars  == <<join, chosen, joins>>
vars == <<entries, bssCount, lock, usb, transfer, offset, delivered, beacon,
          slot, last, heard, results, join, chosen, transfers, joins, ages>>

Entries == [valid : BOOLEAN, old : BOOLEAN, bssid : Aps \cup {NoAp},
            ssid : Ssids \cup {NoSsid}, channel : Channels,
            security : Securities, rssi : -128 .. 127]
Joins == [pc : {"idle", "look", "channel", "lookAgain", "bssid", "channelAgain",
                "park"},
          i : Slots \cup {Size + 1}, ssid : Ssids \cup {NoSsid},
          bssid : Aps \cup {NoAp}, channel : Channels, given : BOOLEAN,
          clean : BOOLEAN]

Zeroed == [valid |-> FALSE, old |-> TRUE, bssid |-> NoAp, ssid |-> NoSsid,
           channel |-> 0, security |-> "None", rssi |-> 0]
NoBeacon == [bssid |-> CHOOSE a \in Aps : TRUE, ssid |-> NoSsid, channel |-> 0,
             security |-> "None", rssi |-> 0]
NoJoin == [pc |-> "idle", i |-> 1, ssid |-> NoSsid, bssid |-> NoAp,
           channel |-> 0, given |-> FALSE, clean |-> TRUE]
NoTransfer == [frames |-> <<>>, padding |-> 0]

TypeOK ==
  /\ entries \in [Slots -> Entries] /\ bssCount \in 0 .. Size
  /\ lock \in {"free", "usb"} /\ (lock = "usb" <=> usb \in {"name", "rest"})
  /\ usb \in {"idle", "walk", "find", "name", "rest"}
  /\ transfer \in Transfers \cup {NoTransfer} /\ offset \in Nat
  /\ delivered \in Seq(Nat) /\ beacon \in Beacons /\ slot \in Slots
  /\ last \in [Aps -> Beacons] /\ heard \subseteq Beacons
  /\ results \subseteq Entries
  /\ join \in Joins /\ chosen \in Joins
  /\ join.pc \in {"channel", "bssid", "channelAgain"} => join.i \in Slots
  /\ transfers \in Nat /\ joins \in Nat /\ ages \in Nat

Init ==
  /\ entries = [i \in Slots |-> Zeroed] /\ bssCount = 0 /\ lock = "free"
  /\ usb = "idle" /\ transfer = NoTransfer /\ offset = 0 /\ delivered = <<>>
  /\ beacon = NoBeacon /\ slot = 1
  /\ last = [a \in Aps |-> NoBeacon] /\ heard = {}
  /\ results = {} /\ join = NoJoin /\ chosen = NoJoin
  /\ transfers = MaxTransfers /\ joins = MaxJoins /\ ages = MaxAges

-----------------------------------------------------------------------------
(* The USB thread: the walk.                                               *)

Receive ==
  /\ usb = "idle" /\ transfers > 0 /\ transfers' = transfers - 1
  /\ transfer' \in {t \in Transfers : Length(t) > DescSize}
  /\ usb' = "walk" /\ offset' = 0 /\ delivered' = <<>>
  /\ UNCHANGED <<tableVars, beacon, slot, last, heard, results, joinVars, ages>>

Here == DescriptorAt(transfer, offset)

\* The number of the frame at the offset, 0 inside a frame.
Number ==
  LET here == {i \in DOMAIN transfer.frames : Begins(transfer)[i] = offset} IN
  IF here = {} THEN 0 ELSE CHOOSE i \in here : TRUE

\* One turn of _ProcessTransfer's loop.  A beacon with a name goes on to the
\* manager, and every other frame elsewhere; a hidden network is skipped.
Walk ==
  /\ usb = "walk"
  /\ CASE Verdict(transfer, offset) \in {"end", "bail"} ->
            usb' = "idle" /\ UNCHANGED <<offset, delivered, beacon>>
       [] Verdict(transfer, offset) = "error" ->
            offset' = offset + Advance(Here) /\ UNCHANGED <<usb, delivered, beacon>>
       [] OTHER ->
            /\ offset' = offset + Advance(Here)
            /\ delivered' = Append(delivered, Number)
            /\ IF Here.body.kind = "beacon" /\ Parsed(Here).ssid # NoSsid
               THEN usb' = "find" /\ beacon' = Parsed(Here)
               ELSE UNCHANGED <<usb, beacon>>
  /\ UNCHANGED <<tableVars, transfer, slot, last, heard, results, joinVars,
                 transfers, ages>>

-----------------------------------------------------------------------------
(* UpdateBssEntry, in the steps a reader without the lock can see.         *)

Listed(i, ap) == entries[i].valid /\ entries[i].bssid = ap
First(S) == CHOOSE i \in S : \A j \in S : i <= j

\* Mutation: the strongest is replaced.
Strongest ==
  First({i \in Slots : \A j \in Slots : entries[j].rssi <= entries[i].rssi})

\* The first of the weakest entries.
Weakest ==
  First({i \in Slots : \A j \in Slots : entries[i].rssi <= entries[j].rssi})

Known(ap) == {i \in Slots : Listed(i, ap)}
Empty     == {i \in Slots : ~entries[i].valid}

\* Mutation: the search for the network ends at the first empty entry.
UpToEmpty(ap) ==
  CASE \E i \in Known(ap) : \A j \in Empty : i < j -> First(Known(ap))
    [] Empty # {} -> First(Empty)
    [] OTHER -> Weakest

\* The network's own entry, else an empty one, else the weakest.
EntryFor(ap) == CASE Known(ap) # {} -> First(Known(ap))
                  [] Known(ap) = {} /\ Empty # {} -> First(Empty)
                  [] OTHER -> Weakest

CountAfter(ap) ==
  IF Known(ap) = {} /\ Empty # {} THEN bssCount + 1 ELSE bssCount

\* The lookup of a join under way may see an entry change hands or go.
Disturb == join' = [join EXCEPT !.clean = FALSE]

FindOrCreate ==
  /\ usb = "find" /\ lock = "free" /\ lock' = "usb" /\ usb' = "name"
  /\ slot' = EntryFor(beacon.bssid)
  /\ bssCount' = CountAfter(beacon.bssid)
  /\ IF Listed(slot', beacon.bssid)
     THEN UNCHANGED <<entries, join>>
     ELSE /\ entries' = [entries EXCEPT ![slot'] =
                [Zeroed EXCEPT !.valid = TRUE, !.bssid = beacon.bssid]]
          /\ Disturb
  /\ UNCHANGED <<transfer, offset, delivered, beacon, last, heard, results,
                 chosen, joins, transfers, ages>>

\* What the beacon says is in the histories from here on.
FillName ==
  /\ usb = "name" /\ usb' = "rest"
  /\ entries' = [entries EXCEPT ![slot].ssid = beacon.ssid]
  /\ last' = [last EXCEPT ![beacon.bssid] = beacon]
  /\ heard' = heard \cup {beacon}
  /\ UNCHANGED <<bssCount, lock, transfer, offset, delivered, beacon, slot,
                 results, joinVars, transfers, ages>>

FillRest ==
  /\ usb = "rest" /\ usb' = "walk" /\ lock' = "free"
  /\ entries' = [entries EXCEPT
       ![slot].channel = beacon.channel, ![slot].security = beacon.security,
       ![slot].rssi = beacon.rssi, ![slot].old = FALSE]
  /\ UNCHANGED <<bssCount, transfer, offset, delivered, beacon, slot, last,
                 heard, results, joinVars, transfers, ages>>

-----------------------------------------------------------------------------
(* Scan requests and results.                                              *)

\* kBssPurgeInterval passes without a beacon of the network.
Ages(i) ==
  /\ ages > 0 /\ ages' = ages - 1
  /\ entries[i].valid /\ ~entries[i].old
  /\ entries' = [entries EXCEPT ![i].old = TRUE]
  /\ UNCHANGED <<bssCount, lock, usbVars, results, joinVars, transfers>>

\* _PurgeStaleBssEntries, as a scan starts.
Purge ==
  LET stale == {i \in Slots : entries[i].valid /\ entries[i].old} IN
  /\ lock = "free" /\ stale # {}
  /\ entries' = [i \in Slots |-> IF i \in stale
                   THEN [entries[i] EXCEPT !.valid = FALSE] ELSE entries[i]]
  /\ bssCount' = bssCount - Cardinality(stale) /\ Disturb
  /\ UNCHANGED <<lock, usbVars, results, chosen, joins, transfers, ages>>

\* The first MaxResults valid entries.
Copied ==
  {entries[i] : i \in {j \in Slots : entries[j].valid /\
     Cardinality({k \in 1 .. j : entries[k].valid}) <= MaxResults}}

\* Mutation: the results are copied without the lock.
MayCopyAlways == TRUE

MayCopy == lock = "free"

GetScanResults ==
  /\ MayCopy /\ results = {} /\ results' = Copied
  /\ UNCHANGED <<tableVars, usbVars, joinVars, transfers, ages>>

\* Whoever asked has used them.
ResultsUsed ==
  /\ results # {} /\ results' = {}
  /\ UNCHANGED <<tableVars, usbVars, joinVars, transfers, ages>>

-----------------------------------------------------------------------------
(* The lookups of _DoJoin.                                                 *)

JoinUnchanged ==
  UNCHANGED <<tableVars, usbVars, results, transfers, ages>>

\* A join by name alone, or with the BSSID of a network.
JoinBegin(ssid, bssid) ==
  /\ join.pc = "idle" /\ joins > 0 /\ joins' = joins - 1
  /\ join' = [NoJoin EXCEPT !.pc = "look", !.ssid = ssid, !.bssid = bssid,
                !.given = bssid # NoAp]
  /\ UNCHANGED chosen /\ JoinUnchanged

\* Mutation: the lookup takes purged entries for networks.
NamedEver(e, ssid) == e.ssid = ssid

Named(e, ssid) == e.valid /\ e.ssid = ssid

Found(there) == join' = [join EXCEPT !.pc = there]

\* One turn of FindBssBySsid, which has no lock; of its first call, whose
\* miss is not an error, and of its second, whose is.
Look ==
  /\ join.pc \in {"look", "lookAgain"} /\ join.i \in Slots
  /\ CASE Named(entries[join.i], join.ssid) ->
            Found(IF join.pc = "look" THEN "channel" ELSE "bssid")
       [] OTHER -> join' = [join EXCEPT !.i = @ + 1]
  /\ UNCHANGED <<chosen, joins>> /\ JoinUnchanged

Again == [join EXCEPT !.pc = IF join.given THEN "park" ELSE "lookAgain", !.i = 1]

NotFound ==
  /\ join.pc \in {"look", "lookAgain"} /\ join.i = Size + 1
  /\ join' = IF join.pc = "look" THEN Again ELSE NoJoin
  /\ UNCHANGED <<chosen, joins>> /\ JoinUnchanged

TakeChannel ==
  /\ join.pc = "channel" /\ join' = [Again EXCEPT !.channel = entries[join.i].channel]
  /\ UNCHANGED <<chosen, joins>> /\ JoinUnchanged

TakeBssid ==
  /\ join.pc = "bssid"
  /\ join' = [join EXCEPT !.pc = "channelAgain", !.bssid = entries[join.i].bssid]
  /\ UNCHANGED <<chosen, joins>> /\ JoinUnchanged

TakeChannelAgain ==
  /\ join.pc = "channelAgain"
  /\ join' = [join EXCEPT !.pc = "park", !.channel = entries[join.i].channel]
  /\ UNCHANGED <<chosen, joins>> /\ JoinUnchanged

\* The chip is set to the channel, when there is one, and the join goes on.
Park ==
  /\ join.pc = "park" /\ chosen' = join /\ join' = NoJoin
  /\ UNCHANGED joins /\ JoinUnchanged

JoinStep == Look \/ NotFound \/ TakeChannel \/ TakeBssid \/ TakeChannelAgain
            \/ Park

Next ==
  \/ Receive \/ Walk \/ FindOrCreate \/ FillName \/ FillRest
  \/ (\E i \in Slots : Ages(i)) \/ Purge \/ GetScanResults \/ ResultsUsed
  \/ (\E ssid \in Ssids, bssid \in {NoAp} \cup Given : JoinBegin(ssid, bssid))
  \/ JoinStep

Spec == Init /\ [][Next]_vars

-----------------------------------------------------------------------------
(* Properties.                                                             *)

\* Nothing is lost, repeated or taken from padding or from inside a frame:
\* when the walk of a transfer is over, its sound frames were delivered, in
\* order.
WalkDelivers ==
  usb = "idle" =>
    /\ {delivered[n] : n \in DOMAIN delivered} = Sound(transfer)
    /\ \A m, n \in DOMAIN delivered : m < n => delivered[m] < delivered[n]

\* A network has one entry at most, whatever was purged, replaced and heard
\* again.
BssidsUnique ==
  \A i, j \in Slots :
    entries[i].valid /\ entries[j].valid /\ entries[i].bssid = entries[j].bssid
      => i = j

\* fBssCount counts the valid entries.
CountExact == bssCount = Cardinality({i \in Slots : entries[i].valid})

\* The bookkeeping of the table: its types, one entry for a network, and an
\* exact count, through evictions, purges and the holes they leave.
TableConsistent == TypeOK /\ BssidsUnique /\ CountExact

ListedAps == {entries[i].bssid : i \in {j \in Slots : entries[j].valid}}

\* A network leaves the table for one of two reasons: nothing was heard of it
\* for the interval as a scan started, or the table was full and no other
\* network was weaker.
LeavesForAReason ==
  [][\A i \in Slots :
       entries[i].valid /\ entries[i].bssid \notin ListedAps' =>
         \/ entries[i].old
         \/ /\ Cardinality(ListedAps) = Size
            /\ \A j \in Slots : entries[i].rssi <= entries[j].rssi]_vars

\* The results are whole: every record copied out says what one beacon of its
\* network said, the last one kept, although the entries are rewritten as
\* beacons arrive.
ResultsWhole ==
  [][\A e \in results' \ results :
       /\ e.ssid = last[e.bssid].ssid /\ e.channel = last[e.bssid].channel
       /\ e.security = last[e.bssid].security
       /\ e.rssi = last[e.bssid].rssi]_vars

\* A beacon of the network has carried the name; one has carried the channel.
NameHeard(ap, ssid)       == \E b \in heard : b.bssid = ap /\ b.ssid = ssid
ChannelHeard(ap, channel) == \E b \in heard : b.bssid = ap /\ b.channel = channel

\* A join by name goes to a network that has borne that name and is in the table,
\* never to a purged one, on a channel a beacon of that network carried or on none
\* (the entry may not have its channel yet), unless an entry changed hands or
\* went during its unlocked lookups.  A network that changes name and channel
\* together may be joined by the old name on the new channel.
JoinTargetHeard ==
  [][chosen' # chosen /\ chosen'.clean /\ ~chosen'.given =>
       /\ chosen'.bssid \in ListedAps /\ NameHeard(chosen'.bssid, chosen'.ssid)
       /\ chosen'.channel = 0 \/ ChannelHeard(chosen'.bssid, chosen'.channel)]_vars
=============================================================================
