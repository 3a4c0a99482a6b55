-------------------------- MODULE BssTableProofs --------------------------
(* Theorems about BssTable, for any number of entries and networks and any   *)
(* transfers.                                                                *)
EXTENDS BssTable, FiniteSetTheorems, WellFoundedInduction, TLAPS

Valid == {i \in Slots : entries[i].valid}

IInv == TypeOK /\ BssidsUnique /\ CountExact

\* A non-empty set of naturals has a least element.
LEMMA Least ==
  ASSUME NEW S \in SUBSET Nat, S # {}
  PROVE  \E m \in S : \A k \in S : m <= k
<1>. DEFINE Below == {p \in Nat \X Nat : p[1] < p[2]}
<1>1. IsWellFoundedOn(Below, Nat)
  BY NatLessThanWellFounded, Zenon DEF OpToRel
<1>2. \A k, m \in Nat : k < m <=> <<k, m>> \in Below
  OBVIOUS
<1>. HIDE DEF Below
<1>3. PICK m \in S : \A k \in S : <<k, m>> \notin Below
  BY <1>1, WFMin
<1>4. ASSUME NEW k \in S  PROVE m <= k
  <2>1. ~ (k < m)
    BY <1>2, <1>3
  <2>. QED
    BY <2>1
<1>. QED
  BY <1>4

\* A non-empty set of entries has a first.
LEMMA FirstOf ==
  ASSUME NEW S \in SUBSET Slots, S # {}
  PROVE  First(S) \in S
<1>1. \E i \in S : \A j \in S : i <= j
  BY Least, BssAssumption DEF Slots
<1>. QED
  BY <1>1, Zenon DEF First

\* There is a weakest entry.
LEMMA HasWeakest ==
  ASSUME TypeOK
  PROVE  \E i \in Slots : \A j \in Slots : entries[i].rssi <= entries[j].rssi
<1>. DEFINE Raised == {entries[i].rssi + 128 : i \in Slots}
<1>1. \A i \in Slots : entries[i].rssi \in Int /\ entries[i].rssi + 128 \in Nat
  <2>1. \A n \in -128 .. 127 : n \in Int /\ n + 128 \in Nat
    OBVIOUS
  <2>2. \A i \in Slots : entries[i].rssi \in -128 .. 127
    BY DEF TypeOK, Entries
  <2>. QED
    BY <2>1, <2>2
<1>2. Raised \in SUBSET Nat /\ Raised # {}
  BY <1>1, BssAssumption DEF Slots
<1>3. PICK m \in Raised : \A k \in Raised : m <= k
  BY <1>2, Least
<1>4. PICK i \in Slots : m = entries[i].rssi + 128
  BY <1>3
<1>5. \A j \in Slots : entries[i].rssi <= entries[j].rssi
  <2>1. ASSUME NEW j \in Slots  PROVE entries[i].rssi <= entries[j].rssi
    <3>1. m <= entries[j].rssi + 128
      BY <1>3
    <3>2. entries[i].rssi \in Int /\ entries[j].rssi \in Int
      BY <1>1
    <3>. HIDE DEF Raised
    <3>. QED
      BY <1>4, <3>1, <3>2
  <2>. QED
    BY <2>1
<1>. QED
  BY <1>5

LEMMA WeakestIsEntry ==
  ASSUME TypeOK
  PROVE  Weakest \in Slots
BY HasWeakest, FirstOf DEF Weakest

\* A network is entered in its own entry, else in an empty one, else anywhere.
LEMMA EntryForNetwork ==
  ASSUME TypeOK, NEW ap \in Aps
  PROVE  /\ EntryFor(ap) \in Slots
         /\ Known(ap) # {} => EntryFor(ap) \in Known(ap)
         /\ Known(ap) = {} /\ Empty # {} => EntryFor(ap) \in Empty
<1>1. Known(ap) \in SUBSET Slots /\ Empty \in SUBSET Slots
  BY DEF Known, Empty
<1>2. CASE Known(ap) # {}
  BY <1>1, <1>2, FirstOf DEF EntryFor
<1>3. CASE Known(ap) = {} /\ Empty # {}
  BY <1>1, <1>3, FirstOf DEF EntryFor
<1>4. CASE Known(ap) = {} /\ Empty = {}
  BY <1>4, WeakestIsEntry DEF EntryFor
<1>. QED
  BY <1>2, <1>3, <1>4

\* The walk goes on to a natural offset, and a beacon it delivers is of the
\* transfer.
LEMMA HereIsFrame ==
  ASSUME TypeOK
  PROVE  /\ Advance(Here) \in Nat /\ Number \in Nat
         /\ Here.body.kind = "beacon" => Parsed(Here) \in Beacons
<1>1. transfer \in Transfers \cup {NoTransfer}
  BY DEF TypeOK
<1>. DEFINE here == {i \in DOMAIN transfer.frames : Begins(transfer)[i] = offset}
<1>2. CASE here # {}
  <2>1. PICK i \in DOMAIN transfer.frames : Here = transfer.frames[i]
    BY <1>2, Zenon DEF Here, DescriptorAt
  <2>2. transfer \in Transfers
    BY <1>1, <2>1 DEF NoTransfer
  <2>3. /\ {Here.raw, Here.drv, Here.shift} \subseteq Nat
        /\ Here.body.kind = "beacon" => Parsed(Here) \in Beacons
    BY <2>1, <2>2, TransferAssumption
  <2>4. \A j \in here : j \in Nat
    BY <2>2, TransferAssumption
  <2>5. Number \in here
    BY <1>2, Zenon DEF Number
  <2>. QED
    BY <2>3, <2>4, <2>5 DEF Advance, Aligned, PhyBytes, DescSize, PhySize, Align
<1>3. CASE here = {}
  <2>1. Here \in {Padding, Payload}
    BY <1>3 DEF Here, DescriptorAt
  <2>2. Here.raw \in Nat /\ Here.drv = 0 /\ Here.phy = FALSE /\ Here.shift = 0
    BY <2>1 DEF Padding, Payload
  <2>3. Here.body.kind = "other"
    BY <2>1 DEF Padding, Payload
  <2>. QED
    BY <1>3, <2>2, <2>3 DEF Number, Advance, Aligned, PhyBytes, DescSize, PhySize, Align
<1>. QED
  BY <1>2, <1>3

\* The table has Size entries, so that any set of them can be counted.
LEMMA ValidFinite ==
  IsFiniteSet(Slots) /\ Cardinality(Slots) = Size
<1>1. 1 \in Int /\ Size \in Int /\ Size - 1 + 1 = Size /\ ~ (1 > Size)
  BY BssAssumption
<1>2. /\ IsFiniteSet(1 .. Size)
      /\ Cardinality(1 .. Size) = IF 1 > Size THEN 0 ELSE Size - 1 + 1
  BY <1>1, FS_Interval
<1>. QED
  BY <1>1, <1>2 DEF Slots

\* The count of a set of entries is at most the size of the table.
LEMMA CountBound ==
  ASSUME NEW S \in SUBSET Slots
  PROVE  IsFiniteSet(S) /\ Cardinality(S) \in 0 .. Size
BY ValidFinite, FS_Subset, FS_CardinalityType, BssAssumption

\* The invariant holds of the empty table.
LEMMA InitEstablishes == Init => IInv
<1>. SUFFICES ASSUME Init PROVE IInv
  OBVIOUS
<1>. USE BssAssumption
<1>1. NoBeacon \in Beacons
  BY DEF NoBeacon, Beacons, Securities
<1>2. Zeroed \in Entries
  BY DEF Zeroed, Entries, Securities
<1>3. NoJoin \in Joins /\ NoJoin.pc = "idle"
  BY DEF NoJoin, Joins, Slots
<1>4. TypeOK
  BY <1>1, <1>2, <1>3 DEF TypeOK, Init, Slots
<1>5. BssidsUnique
  BY DEF BssidsUnique, Init, Zeroed
<1>6. CountExact
  <2>1. {i \in Slots : entries[i].valid} = {}
    BY DEF Init, Zeroed
  <2>. QED
    BY <2>1, FS_EmptySet DEF CountExact, Init
<1>. QED
  BY <1>4, <1>5, <1>6 DEF IInv

\* A step that changes no entry's network nor the count preserves uniqueness and
\* the count.
LEMMA SameNetworks ==
  ASSUME IInv, bssCount' = bssCount,
         \A i \in Slots : /\ entries'[i].valid = entries[i].valid
                          /\ entries'[i].bssid = entries[i].bssid
  PROVE  BssidsUnique' /\ CountExact'
<1>1. {i \in Slots : entries'[i].valid} = {i \in Slots : entries[i].valid}
  OBVIOUS
<1>. QED
  BY <1>1 DEF IInv, BssidsUnique, CountExact

\* Finding, creating or recycling an entry keeps the invariant: what is written
\* is an entry of the BSSID itself, an invalid one, or one that is dropped for it.
LEMMA EnterPreserves == IInv /\ FindOrCreate => IInv'
<1>. SUFFICES ASSUME IInv, FindOrCreate PROVE IInv'
  OBVIOUS
<1>. DEFINE ap == beacon.bssid
            S  == {i \in Slots : entries[i].valid}
<1>1. TypeOK /\ BssidsUnique /\ CountExact
  BY DEF IInv
<1>2. ap \in Aps
  BY <1>1 DEF TypeOK, Beacons
<1>3. slot' \in Slots /\ slot' = EntryFor(ap)
  BY <1>1, <1>2, EntryForNetwork DEF FindOrCreate
<1>4. S \in SUBSET Slots /\ IsFiniteSet(S) /\ bssCount = Cardinality(S)
  BY <1>1, CountBound DEF CountExact
<1>5. CASE Listed(slot', ap)
  <2>1. Known(ap) # {}
    BY <1>3, <1>5 DEF Known
  <2>2. entries' = entries /\ bssCount' = bssCount /\ join' = join
    BY <1>5, <2>1 DEF FindOrCreate, CountAfter
  <2>3. TypeOK'
    BY <1>1, <1>3, <2>2 DEF TypeOK, FindOrCreate
  <2>. QED
    BY <2>2, <2>3, SameNetworks DEF IInv
<1>6. CASE ~ Listed(slot', ap)
  <2>1. Known(ap) = {}
    BY <1>1, <1>2, <1>3, <1>6, EntryForNetwork DEF Known
  <2>. DEFINE new == [Zeroed EXCEPT !.valid = TRUE, !.bssid = ap]
  <2>2. entries' = [entries EXCEPT ![slot'] = new] /\ join' = [join EXCEPT !.clean = FALSE]
    BY <1>6 DEF FindOrCreate, Disturb
  <2>3. new \in Entries /\ new.valid /\ new.bssid = ap
    <3>1. new = [Zeroed EXCEPT !.valid = TRUE, !.bssid = ap]
      OBVIOUS
    <3>2. Zeroed \in Entries
      BY BssAssumption DEF Zeroed, Entries, Securities
    <3>. HIDE DEF new
    <3>. QED
      BY <1>2, <3>1, <3>2 DEF Entries
  <2>4. entries' \in [Slots -> Entries]
    BY <1>1, <1>3, <2>2, <2>3 DEF TypeOK
  <2>5. \A i \in Slots : entries'[i] = IF i = slot' THEN new ELSE entries[i]
    BY <1>1, <1>3, <2>2 DEF TypeOK
  <2>6. BssidsUnique'
    BY <1>1, <1>3, <2>1, <2>3, <2>5, ZenonT(60) DEF BssidsUnique, Known, Listed
  <2>7. {i \in Slots : entries'[i].valid} = S \cup {slot'}
    BY <1>3, <2>3, <2>5
  <2>8. bssCount' = Cardinality(S \cup {slot'})
    <3>1. CASE Empty # {}
      <4>1. slot' \notin S
        BY <1>1, <1>2, <1>3, <2>1, <3>1, EntryForNetwork DEF Empty
      <4>2. bssCount' = bssCount + 1
        BY <2>1, <3>1 DEF FindOrCreate, CountAfter
      <4>. QED
        BY <1>4, <4>1, <4>2, FS_AddElement
    <3>2. CASE Empty = {}
      <4>1. S \cup {slot'} = S
        BY <1>3, <3>2 DEF Empty
      <4>2. bssCount' = bssCount
        BY <2>1, <3>2 DEF FindOrCreate, CountAfter
      <4>. QED
        BY <1>4, <4>1, <4>2
    <3>. QED
      BY <3>1, <3>2
  <2>9. CountExact' /\ bssCount' \in 0 .. Size
    <3>1. S \cup {slot'} \in SUBSET Slots
      BY <1>3
    <3>. QED
      BY <2>7, <2>8, <3>1, CountBound DEF CountExact
  <2>10. join' \in Joins /\ join'.pc = join.pc /\ join'.i = join.i
    BY <1>1, <2>2 DEF TypeOK, Joins
  <2>11. TypeOK'
    BY <1>1, <1>3, <2>4, <2>9, <2>10 DEF TypeOK, FindOrCreate
  <2>. QED
    BY <2>6, <2>9, <2>11 DEF IInv
<1>. QED
  BY <1>5, <1>6

\* Purging keeps it: the count goes down by exactly the entries invalidated.
LEMMA PurgePreserves == IInv /\ Purge => IInv'
<1>. SUFFICES ASSUME IInv, Purge PROVE IInv'
  OBVIOUS
<1>. DEFINE S == {i \in Slots : entries[i].valid}
            stale == {i \in Slots : entries[i].valid /\ entries[i].old}
<1>1. TypeOK /\ BssidsUnique /\ bssCount = Cardinality(S)
  BY DEF IInv, CountExact
<1>2. /\ entries' = [i \in Slots |-> IF i \in stale
                       THEN [entries[i] EXCEPT !.valid = FALSE] ELSE entries[i]]
      /\ bssCount' = bssCount - Cardinality(stale)
      /\ join' = [join EXCEPT !.clean = FALSE]
  BY DEF Purge, Disturb
<1>3. entries' \in [Slots -> Entries]
  <2>1. ASSUME NEW i \in Slots
        PROVE  /\ entries[i] \in Entries
               /\ [entries[i] EXCEPT !.valid = FALSE] \in Entries
    <3>1. entries[i] \in Entries
      BY <1>1 DEF TypeOK
    <3>. QED
      BY <3>1 DEF Entries
  <2>. QED
    BY <1>2, <2>1
<1>4. \A i \in Slots :
        /\ entries'[i].valid <=> entries[i].valid /\ i \notin stale
        /\ entries'[i].bssid = entries[i].bssid
  BY <1>1, <1>2 DEF TypeOK, Entries
<1>5. BssidsUnique'
  BY <1>1, <1>4 DEF BssidsUnique
<1>6. {i \in Slots : entries'[i].valid} = S \ stale
  BY <1>4
<1>7. Cardinality(S \ stale) = Cardinality(S) - Cardinality(stale)
  <2>1. IsFiniteSet(S) /\ IsFiniteSet(stale) /\ S \cap stale = stale
    BY CountBound
  <2>. QED
    BY <2>1, FS_Difference, ZenonT(30)
<1>8. CountExact' /\ bssCount' \in 0 .. Size
  <2>1. S \ stale \in SUBSET Slots
    OBVIOUS
  <2>. QED
    BY <1>1, <1>2, <1>6, <1>7, <2>1, CountBound DEF CountExact
<1>9. join' \in Joins /\ join'.pc = join.pc /\ join'.i = join.i
  BY <1>1, <1>2 DEF TypeOK, Joins
<1>10. TypeOK'
  BY <1>1, <1>3, <1>8, <1>9 DEF TypeOK, Purge, usbVars
<1>. QED
  BY <1>5, <1>8, <1>10 DEF IInv

\* The steps that write into an entry change neither networks nor count.
LEMMA FillPreserves == IInv /\ (FillName \/ FillRest \/ \E i \in Slots : Ages(i))
                         => IInv'
<1>. SUFFICES ASSUME IInv, FillName \/ FillRest \/ \E i \in Slots : Ages(i)
              PROVE IInv'
  OBVIOUS
<1>1. TypeOK
  BY DEF IInv
<1>2. slot \in Slots /\ \A i \in Slots : entries[i] \in Entries
  BY <1>1 DEF TypeOK
<1>b. /\ beacon \in Beacons /\ beacon.bssid \in Aps
      /\ beacon.ssid \in Ssids \cup {NoSsid} /\ beacon.channel \in Channels
      /\ beacon.security \in Securities /\ beacon.rssi \in -128 .. 127
  BY <1>1 DEF TypeOK, Beacons
<1>3. CASE FillName
  <2>. DEFINE e == [entries[slot] EXCEPT !.ssid = beacon.ssid]
  <2>1. entries' = [entries EXCEPT ![slot] = e]
    BY <1>3 DEF FillName
  <2>2. e \in Entries /\ e.valid = entries[slot].valid /\ e.bssid = entries[slot].bssid
    BY <1>2, <1>b DEF Entries
  <2>. HIDE DEF e
  <2>a. entries' \in [Slots -> Entries]
    BY <1>1, <2>1, <2>2 DEF TypeOK
  <2>b. last' \in [Aps -> Beacons] /\ heard' \subseteq Beacons
    BY <1>1, <1>3, <1>b DEF TypeOK, FillName
  <2>3. TypeOK'
    BY <1>1, <1>3, <2>a, <2>b DEF TypeOK, FillName, joinVars
  <2>4. bssCount' = bssCount /\ \A i \in Slots :
          entries'[i].valid = entries[i].valid /\ entries'[i].bssid = entries[i].bssid
    BY <1>1, <1>3, <2>1, <2>2 DEF TypeOK, FillName
  <2>. QED
    BY <2>3, <2>4, SameNetworks DEF IInv
<1>4. CASE FillRest
  <2>. DEFINE e == [entries[slot] EXCEPT !.channel = beacon.channel,
                      !.security = beacon.security, !.rssi = beacon.rssi,
                      !.old = FALSE]
  <2>1. entries' = [entries EXCEPT ![slot] = e]
    BY <1>1, <1>4 DEF FillRest, TypeOK
  <2>2. e \in Entries /\ e.valid = entries[slot].valid /\ e.bssid = entries[slot].bssid
    <3>1. entries[slot] \in Entries
      BY <1>2
    <3>2. ASSUME NEW r \in Entries, NEW c \in Channels, NEW s \in Securities,
                 NEW d \in -128 .. 127
          PROVE  [r EXCEPT !.channel = c, !.security = s, !.rssi = d, !.old = FALSE]
                   \in Entries
      BY Zenon DEF Entries
    <3>3. e \in Entries
      BY <1>b, <3>1, <3>2, Zenon
    <3>4. e.valid = entries[slot].valid /\ e.bssid = entries[slot].bssid
      BY <3>1 DEF Entries
    <3>. QED
      BY <3>3, <3>4
  <2>. HIDE DEF e
  <2>a. entries' \in [Slots -> Entries]
    BY <1>1, <2>1, <2>2 DEF TypeOK
  <2>3. TypeOK'
    BY <1>1, <1>4, <2>a DEF TypeOK, FillRest, joinVars
  <2>4. bssCount' = bssCount /\ \A i \in Slots :
          entries'[i].valid = entries[i].valid /\ entries'[i].bssid = entries[i].bssid
    BY <1>1, <1>4, <2>1, <2>2 DEF TypeOK, FillRest
  <2>. QED
    BY <2>3, <2>4, SameNetworks DEF IInv
<1>5. ASSUME NEW i \in Slots, Ages(i)  PROVE IInv'
  <2>. DEFINE e == [entries[i] EXCEPT !.old = TRUE]
  <2>1. entries' = [entries EXCEPT ![i] = e]
    BY <1>5 DEF Ages
  <2>2. e \in Entries /\ e.valid = entries[i].valid /\ e.bssid = entries[i].bssid
    BY <1>2, ZenonT(60) DEF Entries
  <2>. HIDE DEF e
  <2>a. entries' \in [Slots -> Entries]
    BY <1>1, <2>1, <2>2 DEF TypeOK
  <2>3. TypeOK'
    BY <1>1, <1>5, <2>a DEF TypeOK, Ages, joinVars, usbVars
  <2>4. bssCount' = bssCount /\ \A j \in Slots :
          entries'[j].valid = entries[j].valid /\ entries'[j].bssid = entries[j].bssid
    BY <1>1, <1>5, <2>1, <2>2 DEF TypeOK, Ages
  <2>. QED
    BY <2>3, <2>4, SameNetworks DEF IInv
<1>. QED
  BY <1>3, <1>4, <1>5

\* The steps that leave the table alone.
LEMMA OthersPreserve ==
  ASSUME IInv, Receive \/ Walk \/ GetScanResults \/ ResultsUsed \/ JoinStep
               \/ (\E ssid \in Ssids, bssid \in {NoAp} \cup Given :
                     JoinBegin(ssid, bssid))
  PROVE  IInv'
<1>. DEFINE Table == entries' = entries /\ bssCount' = bssCount /\ lock' = lock
<1>1. TypeOK
  BY DEF IInv
<1>2. CASE Receive
  BY <1>1, <1>2, SameNetworks DEF Receive, TypeOK, tableVars, joinVars, IInv
<1>3. CASE Walk
  <2>1. Advance(Here) \in Nat /\ Number \in Nat /\ (Here.body.kind = "beacon" => Parsed(Here) \in Beacons)
    BY <1>1, HereIsFrame
  <2>2. /\ usb' \in {"idle", "walk", "find"} /\ usb = "walk"
        /\ beacon' \in Beacons /\ offset' \in Nat /\ delivered' \in Seq(Nat)
    <3>1. usb = "walk" /\ beacon \in Beacons /\ offset \in Nat /\ delivered \in Seq(Nat)
      BY <1>1, <1>3 DEF Walk, TypeOK
    <3>2. CASE UNCHANGED <<offset, delivered, beacon>> /\ usb' = "idle"
      BY <3>1, <3>2
    <3>3. CASE offset' = offset + Advance(Here) /\ UNCHANGED <<usb, delivered, beacon>>
      BY <2>1, <3>1, <3>3
    <3>4. CASE /\ offset' = offset + Advance(Here)
               /\ delivered' = Append(delivered, Number)
               /\ \/ usb' = "find" /\ Here.body.kind = "beacon" /\ beacon' = Parsed(Here)
                  \/ UNCHANGED <<usb, beacon>>
      BY <2>1, <3>1, <3>4
    <3>. QED
      BY <1>3, <3>2, <3>3, <3>4, Zenon DEF Walk
  <2>3. UNCHANGED <<tableVars, transfer, slot, last, heard, results, joinVars,
                    transfers, ages>>
    BY <1>3 DEF Walk
  <2>4. TypeOK'
    BY <1>1, <2>2, <2>3 DEF TypeOK, tableVars, joinVars
  <2>. QED
    BY <2>3, <2>4, SameNetworks DEF tableVars, IInv
<1>4. CASE GetScanResults \/ ResultsUsed
  BY <1>1, <1>4, SameNetworks
  DEF GetScanResults, ResultsUsed, Copied, TypeOK, tableVars, usbVars, joinVars, IInv
<1>5. CASE JoinStep
  <2>. DEFINE NeedsEntry == {"channel", "bssid", "channelAgain"}
             OK(j) == j \in Joins /\ (j.pc \in NeedsEntry => j.i \in Slots)
             Goal == OK(join') /\ chosen' \in Joins
  <2>a. OK(join) /\ chosen \in Joins
    BY <1>1 DEF TypeOK
  <2>b. 1 \in Slots /\ \A i \in Slots : i + 1 \in Slots \cup {Size + 1}
    BY BssAssumption DEF Slots
  <2>c. OK(NoJoin)
    BY <2>b, BssAssumption DEF NoJoin, Joins
  <2>d. \A i \in Slots : /\ entries[i].channel \in Channels
                         /\ entries[i].bssid \in Aps \cup {NoAp}
    BY <1>1 DEF TypeOK, Entries
  <2>e. OK(Again)
    <3>1. ASSUME NEW j \in Joins, NEW pc \in {"park", "lookAgain"},
                 NEW i \in Slots
          PROVE  [j EXCEPT !.pc = pc, !.i = i] \in Joins
      BY Zenon DEF Joins
    <3>2. Again.pc \in {"park", "lookAgain"}
      BY <2>a DEF Again, Joins
    <3>3. (IF join.given THEN "park" ELSE "lookAgain") \in {"park", "lookAgain"}
      OBVIOUS
    <3>4. Again \in Joins
      BY <2>a, <2>b, <3>1, <3>3 DEF Again
    <3>. QED
      BY <3>2, <3>4
  <2>f. ASSUME Look PROVE Goal
    <3>1. CASE join' = [join EXCEPT !.i = @ + 1]
      <4>1. join.i \in Slots /\ join.pc \in {"look", "lookAgain"}
        BY <2>f DEF Look
      <4>2. join.i + 1 \in Slots \cup {Size + 1}
        BY <2>b, <4>1
      <4>3. join' \in Joins /\ join'.pc = join.pc
        BY <2>a, <3>1, <4>2 DEF Joins
      <4>. QED
        BY <2>a, <2>f, <4>1, <4>3 DEF Look
    <3>2. CASE join' = [join EXCEPT !.pc = IF join.pc = "look" THEN "channel" ELSE "bssid"]
      BY <2>a, <2>f, <3>2 DEF Look, Joins
    <3>. QED
      BY <2>f, <3>1, <3>2 DEF Look, Found
  <2>g. ASSUME NotFound PROVE Goal
    BY <2>a, <2>c, <2>e, <2>g DEF NotFound
  <2>h. ASSUME TakeChannel PROVE Goal
    <3>1. join.i \in Slots
      BY <2>a, <2>h DEF TakeChannel
    <3>. QED
      BY <2>a, <2>d, <2>e, <2>h, <3>1 DEF TakeChannel, Joins
  <2>i. ASSUME TakeBssid PROVE Goal
    <3>1. join.i \in Slots
      BY <2>a, <2>i DEF TakeBssid
    <3>2. ASSUME NEW j \in Joins, NEW a \in Aps \cup {NoAp}
          PROVE  /\ [j EXCEPT !.pc = "channelAgain", !.bssid = a] \in Joins
                 /\ [j EXCEPT !.pc = "channelAgain", !.bssid = a].i = j.i
      BY Zenon DEF Joins
    <3>. QED
      BY <2>a, <2>d, <2>i, <3>1, <3>2 DEF TakeBssid
  <2>j. ASSUME TakeChannelAgain PROVE Goal
    <3>1. join.i \in Slots
      BY <2>a, <2>j DEF TakeChannelAgain
    <3>2. ASSUME NEW j \in Joins, NEW c \in Channels
          PROVE  /\ [j EXCEPT !.pc = "park", !.channel = c] \in Joins
                 /\ [j EXCEPT !.pc = "park", !.channel = c].i = j.i
      BY Zenon DEF Joins
    <3>. QED
      BY <2>a, <2>d, <2>j, <3>1, <3>2 DEF TakeChannelAgain
  <2>k. ASSUME Park PROVE Goal
    BY <2>a, <2>c, <2>k DEF Park
  <2>1. OK(join') /\ chosen' \in Joins
    BY <1>5, <2>f, <2>g, <2>h, <2>i, <2>j, <2>k DEF JoinStep
  <2>2. JoinUnchanged /\ joins' = joins
    BY <1>5 DEF JoinStep, Look, NotFound, TakeChannel, TakeBssid,
                TakeChannelAgain, Park
  <2>. QED
    BY <1>1, <2>1, <2>2, SameNetworks DEF JoinUnchanged, TypeOK, tableVars, usbVars, IInv
<1>6. ASSUME NEW ssid \in Ssids, NEW bssid \in {NoAp} \cup Given,
             JoinBegin(ssid, bssid)
      PROVE  IInv'
  <2>1. NoJoin \in Joins
    BY BssAssumption DEF NoJoin, Joins, Slots
  <2>2. join' \in Joins /\ join'.pc = "look"
    <3>1. ASSUME NEW j \in Joins, NEW a \in Aps \cup {NoAp}, NEW g \in BOOLEAN
          PROVE  /\ [j EXCEPT !.pc = "look", !.ssid = ssid, !.bssid = a, !.given = g]
                      \in Joins
                 /\ [j EXCEPT !.pc = "look", !.ssid = ssid, !.bssid = a,
                        !.given = g].pc = "look"
      BY Zenon DEF Joins
    <3>2. bssid \in Aps \cup {NoAp} /\ (bssid # NoAp) \in BOOLEAN
      BY BssAssumption
    <3>3. join' = [NoJoin EXCEPT !.pc = "look", !.ssid = ssid, !.bssid = bssid,
                     !.given = (bssid # NoAp)]
      BY <1>6, Zenon DEF JoinBegin
    <3>. QED
      BY <2>1, <3>1, <3>2, <3>3
  <2>3. JoinUnchanged /\ chosen' = chosen /\ joins' \in Nat
    <3>1. joins \in Nat
      BY <1>1 DEF TypeOK
    <3>2. JoinUnchanged /\ chosen' = chosen /\ joins > 0 /\ joins' = joins - 1
      BY <1>6, Zenon DEF JoinBegin
    <3>. QED
      BY <3>1, <3>2
  <2>. QED
    BY <1>1, <2>2, <2>3, SameNetworks
    DEF JoinUnchanged, TypeOK, tableVars, usbVars, IInv
<1>. QED
  BY <1>2, <1>3, <1>4, <1>5, <1>6

\* The inductive invariant, of which the three theorems below are parts.
THEOREM TableInvariant == Spec => []IInv
<1>1. Init => IInv
  BY InitEstablishes
<1>2. IInv /\ [Next]_vars => IInv'
  <2>1. ASSUME IInv, Next PROVE IInv'
    BY <2>1, EnterPreserves, FillPreserves, PurgePreserves, OthersPreserve DEF Next
  <2>2. ASSUME IInv, UNCHANGED vars PROVE IInv'
    BY <2>2 DEF vars, IInv, TypeOK, BssidsUnique, CountExact
  <2>. QED
    BY <2>1, <2>2
<1>. QED
  BY <1>1, <1>2, PTL DEF Spec

\* The table's variables keep their types: in particular every entry named by a
\* lookup, an update or an eviction is an entry of the table.
THEOREM TableTypeCorrect == Spec => []TypeOK
<1>1. IInv => TypeOK
  BY DEF IInv
<1>. QED
  BY <1>1, TableInvariant, PTL

\* The bookkeeping of the table holds across updates, evictions and purges: no
\* network is in two entries and fBssCount is the number of valid ones.
THEOREM TableBookkeeping == Spec => []TableConsistent
<1>1. IInv => TableConsistent
  BY DEF IInv, TableConsistent
<1>. QED
  BY <1>1, TableInvariant, PTL

-----------------------------------------------------------------------------
(* A network leaves for a reason.                                          *)

\* The weakest entry is weaker than every other.
LEMMA WeakestIsWeakest ==
  ASSUME TypeOK
  PROVE  \A j \in Slots : entries[Weakest].rssi <= entries[j].rssi
<1>. DEFINE S == {i \in Slots : \A j \in Slots : entries[i].rssi <= entries[j].rssi}
<1>1. PICK m \in Slots : \A j \in Slots : entries[m].rssi <= entries[j].rssi
  BY HasWeakest
<1>2. First(S) \in S
  BY <1>1, FirstOf
<1>. QED
  BY <1>2 DEF Weakest

\* A table without an empty entry lists as many networks as it has entries.
LEMMA FullTable ==
  ASSUME BssidsUnique, Empty = {}
  PROVE  Cardinality(ListedAps) = Size
<1>. DEFINE f == [i \in Slots |-> entries[i].bssid]
<1>1. \A i \in Slots : entries[i].valid
  BY DEF Empty
<1>2. ListedAps = {entries[i].bssid : i \in Slots}
  BY <1>1 DEF ListedAps
<1>3. f \in Bijection(Slots, ListedAps)
  <2>1. f \in [Slots -> ListedAps] /\ \A a \in ListedAps : \E i \in Slots : f[i] = a
    BY <1>2
  <2>2. \A i, j \in Slots : f[i] = f[j] => i = j
    BY <1>1 DEF BssidsUnique
  <2>. QED
    BY <2>1, <2>2 DEF Bijection, Injection, Surjection, IsInjective
<1>4. ExistsBijection(Slots, ListedAps)
  BY <1>3 DEF ExistsBijection
<1>. QED
  BY <1>4, ValidFinite, FS_Bijection

\* The steps that write into an entry, and those that write into none.
LEMMA EntriesStay ==
  ASSUME TypeOK, Next, ~FindOrCreate, ~Purge, NEW i \in Slots
  PROVE  entries'[i].valid = entries[i].valid /\ entries'[i].bssid = entries[i].bssid
<1>1. slot \in Slots /\ \A j \in Slots : entries[j] \in Entries
  BY DEF TypeOK
<1>2. CASE UNCHANGED entries
  BY <1>2
<1>3. CASE FillName
  <2>1. entries' = [entries EXCEPT ![slot] = [entries[slot] EXCEPT !.ssid = beacon.ssid]]
    BY <1>3 DEF FillName
  <2>. QED
    BY <1>1, <2>1 DEF TypeOK, Entries
<1>4. CASE FillRest
  <2>1. entries' = [entries EXCEPT ![slot] =
                      [entries[slot] EXCEPT !.channel = beacon.channel, !.security = beacon.security,
                                            !.rssi = beacon.rssi, !.old = FALSE]]
    BY <1>4 DEF FillRest, TypeOK
  <2>. QED
    BY <1>1, <2>1 DEF TypeOK, Entries
<1>5. ASSUME NEW j \in Slots, Ages(j)
      PROVE  entries'[i].valid = entries[i].valid /\ entries'[i].bssid = entries[i].bssid
  <2>1. entries' = [entries EXCEPT ![j] = [entries[j] EXCEPT !.old = TRUE]]
    BY <1>5 DEF Ages
  <2>. QED
    BY <1>1, <2>1 DEF TypeOK, Entries
<1>6. UNCHANGED entries \/ FillName \/ FillRest \/ (\E j \in Slots : Ages(j))
  BY DEF Next, Receive, Walk, GetScanResults, ResultsUsed, JoinBegin, JoinStep, Look, NotFound,
         TakeChannel, TakeBssid, TakeChannelAgain, Park, JoinUnchanged, tableVars
<1>. QED
  BY <1>2, <1>3, <1>4, <1>5, <1>6

\* A network leaves fBssList only when it had not been heard for the interval as
\* a scan started, or when the table was full and no other network was weaker:
\* UpdateBssEntry evicts and _PurgeStaleBssEntries purges nobody else, in a
\* table of any size with holes anywhere.
THEOREM NobodyLeavesUnasked == Spec => LeavesForAReason
<1>. DEFINE Leaves == \A i \in Slots :
              entries[i].valid /\ entries[i].bssid \notin ListedAps' =>
                \/ entries[i].old
                \/ /\ Cardinality(ListedAps) = Size
                   /\ \A j \in Slots : entries[i].rssi <= entries[j].rssi
<1>1. IInv /\ [Next]_vars => [Leaves]_vars
  <2>. SUFFICES ASSUME IInv, Next, NEW i \in Slots, entries[i].valid,
                       entries[i].bssid \notin ListedAps', ~entries[i].old
                PROVE  /\ Cardinality(ListedAps) = Size
                       /\ \A j \in Slots : entries[i].rssi <= entries[j].rssi
    OBVIOUS
  <2>1. TypeOK /\ BssidsUnique
    BY DEF IInv
  <2>2. ~(entries'[i].valid /\ entries'[i].bssid = entries[i].bssid)
    BY DEF ListedAps
  <2>3. CASE Purge
    BY <2>1, <2>2, <2>3 DEF Purge, TypeOK
  <2>4. CASE FindOrCreate
    <3>1. slot' = EntryFor(beacon.bssid) /\ beacon.bssid \in Aps /\ slot' \in Slots
      BY <2>1, <2>4, EntryForNetwork DEF FindOrCreate, TypeOK, Beacons
    <3>2. ~Listed(slot', beacon.bssid) /\ i = slot'
      BY <2>1, <2>2, <2>4 DEF FindOrCreate, TypeOK
    <3>3. Known(beacon.bssid) = {}
      BY <2>1, <3>1, <3>2, EntryForNetwork DEF Known
    <3>4. Empty = {}
      BY <2>1, <3>1, <3>2, <3>3, EntryForNetwork DEF Empty
    <3>5. i = Weakest
      BY <3>1, <3>2, <3>3, <3>4 DEF EntryFor
    <3>. QED
      BY <2>1, <3>4, <3>5, FullTable, WeakestIsWeakest
  <2>. QED
    BY <2>1, <2>2, <2>3, <2>4, EntriesStay
<1>. QED
  BY <1>1, TableInvariant, PTL DEF Spec, LeavesForAReason

-----------------------------------------------------------------------------
(* What the entries say.                                                   *)

Filling == usb \in {"name", "rest"}

\* The entry that is being filled is the beacon's network's own, and between its
\* two halves the beacon is already the last one of its network.
SlotInv ==
  /\ Filling => entries[slot].valid /\ entries[slot].bssid = beacon.bssid
  /\ usb = "rest" => /\ entries[slot].ssid = beacon.ssid
                     /\ last[beacon.bssid] = beacon /\ beacon \in heard

Says(e) == /\ e.ssid = last[e.bssid].ssid /\ e.channel = last[e.bssid].channel
           /\ e.security = last[e.bssid].security /\ e.rssi = last[e.bssid].rssi

\* Every other entry says what the last beacon of its network said.
WholeInv ==
  \A i \in Slots : entries[i].valid /\ ~(Filling /\ i = slot) => Says(entries[i])

\* An entry has a name and a channel that beacons of its network carried, or none.
HeardInv ==
  \A i \in Slots : entries[i].valid =>
    /\ entries[i].ssid # NoSsid => NameHeard(entries[i].bssid, entries[i].ssid)
    /\ entries[i].channel = 0 \/ ChannelHeard(entries[i].bssid, entries[i].channel)

\* An undisturbed join by name is on its way to a network of that name.
JoinInv ==
  /\ join.pc # "idle" => join.ssid # NoSsid
  /\ join.clean /\ ~join.given =>
       /\ join.pc = "bssid" => /\ entries[join.i].valid
                               /\ NameHeard(entries[join.i].bssid, join.ssid)
       /\ join.pc = "channelAgain" => /\ entries[join.i].valid
                                      /\ entries[join.i].bssid = join.bssid
                                      /\ NameHeard(join.bssid, join.ssid)
       /\ join.pc = "park" => /\ join.bssid \in ListedAps
                              /\ NameHeard(join.bssid, join.ssid)
                              /\ join.channel = 0 \/ ChannelHeard(join.bssid, join.channel)

SInv == SlotInv /\ WholeInv /\ HeardInv /\ JoinInv

LEMMA InitSays == Init => SInv
<1>. SUFFICES ASSUME Init PROVE SInv
  OBVIOUS
<1>1. usb = "idle" /\ join = NoJoin /\ \A i \in Slots : entries[i] = Zeroed
  BY DEF Init
<1>2. ~Zeroed.valid /\ NoJoin.pc = "idle"
  BY DEF Zeroed, NoJoin
<1>. QED
  BY <1>1, <1>2 DEF SInv, SlotInv, WholeInv, HeardInv, JoinInv, Filling

\* While the table is left alone what the entries say stays true.
LEMMA TableRests ==
  ASSUME SInv, UNCHANGED <<entries, slot, last, heard>>, Filling' <=> Filling,
         Filling => UNCHANGED <<usb, beacon>>
  PROVE  SlotInv' /\ WholeInv' /\ HeardInv'
<1>1. usb' = "rest" => usb = "rest" /\ beacon' = beacon
  BY DEF Filling
<1>2. SlotInv'
  BY <1>1 DEF SInv, SlotInv
<1>3. WholeInv'
  BY DEF SInv, WholeInv, Says
<1>4. HeardInv'
  BY DEF SInv, HeardInv, NameHeard, ChannelHeard
<1>. QED
  BY <1>2, <1>3, <1>4

\* Nor does a join notice a step that leaves the networks in their entries.
LEMMA JoinRests ==
  ASSUME TypeOK, SInv, UNCHANGED join, heard \subseteq heard',
         \A i \in Slots : entries'[i].valid = entries[i].valid /\ entries'[i].bssid = entries[i].bssid
  PROVE  JoinInv'
<1>1. /\ \A a, s : NameHeard(a, s) => NameHeard(a, s)'
      /\ \A a, c : ChannelHeard(a, c) => ChannelHeard(a, c)'
  BY DEF NameHeard, ChannelHeard
<1>2. \A a : a \in ListedAps => a \in ListedAps'
  BY DEF ListedAps
<1>3. join.pc \in {"bssid", "channelAgain"} => join.i \in Slots
  BY DEF TypeOK
<1>. QED
  BY <1>1, <1>2, <1>3 DEF SInv, JoinInv

LEMMA FillNameSays == ASSUME IInv, SInv, FillName PROVE SInv'
<1>. DEFINE e == [entries[slot] EXCEPT !.ssid = beacon.ssid]
<1>1. TypeOK /\ BssidsUnique
  BY DEF IInv
<1>2. /\ slot \in Slots /\ entries[slot] \in Entries /\ beacon \in Beacons /\ beacon.bssid \in Aps
      /\ last \in [Aps -> Beacons]
  BY <1>1 DEF TypeOK, Beacons
<1>3. /\ usb = "name" /\ usb' = "rest" /\ entries' = [entries EXCEPT ![slot] = e]
      /\ last' = [last EXCEPT ![beacon.bssid] = beacon] /\ heard' = heard \cup {beacon}
      /\ UNCHANGED <<slot, beacon, join>>
  BY DEF FillName, joinVars
<1>4. /\ e.valid = entries[slot].valid /\ e.bssid = entries[slot].bssid
      /\ e.ssid = beacon.ssid /\ e.channel = entries[slot].channel
  BY <1>2 DEF Entries
<1>. HIDE DEF e
<1>5. entries'[slot] = e /\ \A i \in Slots \ {slot} : entries'[i] = entries[i]
  BY <1>1, <1>2, <1>3 DEF TypeOK
<1>6. entries[slot].valid /\ entries[slot].bssid = beacon.bssid
  BY <1>3 DEF SInv, SlotInv, Filling
<1>7. /\ \A a, s : NameHeard(a, s) => NameHeard(a, s)'
      /\ \A a, c : ChannelHeard(a, c) => ChannelHeard(a, c)'
      /\ NameHeard(beacon.bssid, beacon.ssid)'
  BY <1>3 DEF NameHeard, ChannelHeard
<1>8. SlotInv'
  BY <1>2, <1>3, <1>4, <1>5, <1>6 DEF SlotInv
<1>9. WholeInv'
  <2>. SUFFICES ASSUME NEW i \in Slots, entries'[i].valid, i # slot PROVE Says(entries[i])'
    BY <1>3 DEF WholeInv, Filling
  <2>1. entries'[i] = entries[i] /\ Says(entries[i])
    BY <1>5 DEF SInv, WholeInv
  <2>2. entries[i].bssid # beacon.bssid
    BY <1>1, <1>2, <1>6, <2>1 DEF BssidsUnique
  <2>3. last'[entries[i].bssid] = last[entries[i].bssid]
    BY <1>2, <1>3, <2>2
  <2>. QED
    BY <2>1, <2>3 DEF Says
<1>10. HeardInv'
  <2>. SUFFICES ASSUME NEW i \in Slots, entries'[i].valid
                PROVE  /\ entries'[i].ssid # NoSsid => NameHeard(entries[i].bssid, entries[i].ssid)'
                       /\ \/ entries'[i].channel = 0
                          \/ ChannelHeard(entries[i].bssid, entries[i].channel)'
    BY DEF HeardInv
  <2>1. CASE i = slot
    <3>1. entries'[i].bssid = beacon.bssid /\ entries'[i].ssid = beacon.ssid
      BY <1>4, <1>5, <1>6, <2>1
    <3>2. entries'[i].channel = entries[i].channel /\ entries'[i].bssid = entries[i].bssid
      BY <1>4, <1>5, <2>1
    <3>3. entries[i].channel = 0 \/ ChannelHeard(entries[i].bssid, entries[i].channel)
      BY <1>6, <2>1 DEF SInv, HeardInv
    <3>4. NameHeard(entries[i].bssid, entries[i].ssid)'
      BY <1>3, <1>7, <3>1 DEF NameHeard
    <3>5. \/ entries'[i].channel = 0
          \/ ChannelHeard(entries[i].bssid, entries[i].channel)'
      BY <1>3, <3>2, <3>3 DEF ChannelHeard
    <3>. QED
      BY <3>4, <3>5
  <2>2. CASE i # slot
    <3>1. entries'[i] = entries[i]
      BY <1>5, <2>2
    <3>. QED
      BY <1>3, <3>1 DEF SInv, HeardInv, NameHeard, ChannelHeard
  <2>. QED
    BY <2>1, <2>2
<1>11. JoinInv'
  BY <1>1, <1>3, <1>4, <1>5, JoinRests
<1>. QED
  BY <1>8, <1>9, <1>10, <1>11 DEF SInv

LEMMA FillRestSays == ASSUME IInv, SInv, FillRest PROVE SInv'
<1>. DEFINE e == [entries[slot] EXCEPT !.channel = beacon.channel, !.security = beacon.security,
                                       !.rssi = beacon.rssi, !.old = FALSE]
<1>1. TypeOK
  BY DEF IInv
<1>2. slot \in Slots /\ entries[slot] \in Entries
  BY <1>1 DEF TypeOK
<1>3. /\ usb = "rest" /\ usb' = "walk" /\ entries' = [entries EXCEPT ![slot] = e]
      /\ UNCHANGED <<slot, beacon, last, heard, join>>
  BY <1>1 DEF FillRest, joinVars, TypeOK
<1>4. /\ e.valid = entries[slot].valid /\ e.bssid = entries[slot].bssid /\ e.ssid = entries[slot].ssid
      /\ e.channel = beacon.channel /\ e.security = beacon.security /\ e.rssi = beacon.rssi
  BY <1>2 DEF Entries
<1>. HIDE DEF e
<1>5. entries'[slot] = e /\ \A i \in Slots \ {slot} : entries'[i] = entries[i]
  BY <1>1, <1>2, <1>3 DEF TypeOK
<1>6. /\ entries[slot].valid /\ entries[slot].bssid = beacon.bssid /\ entries[slot].ssid = beacon.ssid
      /\ last[beacon.bssid] = beacon /\ beacon \in heard
  BY <1>3 DEF SInv, SlotInv, Filling
<1>7. SlotInv' /\ ~Filling'
  BY <1>3 DEF SlotInv, Filling
<1>8. WholeInv'
  <2>1. Says(e)
    BY <1>4, <1>6 DEF Says
  <2>2. \A i \in Slots \ {slot} : entries[i].valid => Says(entries[i])
    BY DEF SInv, WholeInv
  <2>. QED
    BY <1>3, <1>5, <2>1, <2>2 DEF WholeInv, Says
<1>9. HeardInv'
  <2>1. NameHeard(e.bssid, e.ssid) /\ ChannelHeard(e.bssid, e.channel)
    BY <1>4, <1>6 DEF NameHeard, ChannelHeard
  <2>2. \A i \in Slots \ {slot} : entries[i].valid =>
          /\ entries[i].ssid # NoSsid => NameHeard(entries[i].bssid, entries[i].ssid)
          /\ entries[i].channel = 0 \/ ChannelHeard(entries[i].bssid, entries[i].channel)
    BY DEF SInv, HeardInv
  <2>. QED
    BY <1>3, <1>5, <2>1, <2>2 DEF HeardInv, NameHeard, ChannelHeard
<1>10. JoinInv'
  BY <1>1, <1>3, <1>4, <1>5, JoinRests
<1>. QED
  BY <1>7, <1>8, <1>9, <1>10 DEF SInv

\* An entry that only ages or becomes invalid says what it said.
LEMMA SameSays ==
  ASSUME IInv, SInv, UNCHANGED <<usb, slot, beacon, last, heard>>,
         Filling => entries'[slot].valid = entries[slot].valid,
         \A i \in Slots : /\ entries'[i].valid => entries[i].valid
                          /\ entries'[i].bssid = entries[i].bssid
                          /\ entries'[i].ssid = entries[i].ssid
                          /\ entries'[i].channel = entries[i].channel
                          /\ entries'[i].security = entries[i].security
                          /\ entries'[i].rssi = entries[i].rssi
  PROVE  SlotInv' /\ WholeInv' /\ HeardInv'
<1>1. slot \in Slots
  BY DEF IInv, TypeOK
<1>2. SlotInv'
  BY <1>1 DEF SInv, SlotInv, Filling
<1>3. WholeInv'
  BY DEF SInv, WholeInv, Says, Filling
<1>4. HeardInv'
  BY DEF SInv, HeardInv, NameHeard, ChannelHeard
<1>. QED
  BY <1>2, <1>3, <1>4

LEMMA AgesSays == ASSUME IInv, SInv, NEW k \in Slots, Ages(k) PROVE SInv'
<1>. DEFINE e == [entries[k] EXCEPT !.old = TRUE]
<1>1. TypeOK /\ entries[k] \in Entries /\ slot \in Slots
  BY DEF IInv, TypeOK
<1>2. entries' = [entries EXCEPT ![k] = e] /\ UNCHANGED <<usb, slot, beacon, last, heard, join>>
  BY DEF Ages, usbVars, joinVars
<1>3. /\ e.valid = entries[k].valid /\ e.bssid = entries[k].bssid /\ e.ssid = entries[k].ssid
      /\ e.channel = entries[k].channel /\ e.security = entries[k].security
      /\ e.rssi = entries[k].rssi
  BY <1>1 DEF Entries
<1>. HIDE DEF e
<1>4. \A i \in Slots : entries'[i] = IF i = k THEN e ELSE entries[i]
  BY <1>1, <1>2 DEF TypeOK
<1>5. SlotInv' /\ WholeInv' /\ HeardInv'
  BY <1>1, <1>2, <1>3, <1>4, SameSays
<1>6. JoinInv'
  BY <1>1, <1>2, <1>3, <1>4, JoinRests
<1>. QED
  BY <1>5, <1>6 DEF SInv

\* A join whose entry may have gone is out of the invariant.
LEMMA DisturbedSays ==
  ASSUME TypeOK, SInv, Disturb
  PROVE  JoinInv'
<1>1. join \in Joins /\ join' = [join EXCEPT !.clean = FALSE]
  BY DEF TypeOK, Disturb
<1>2. join'.clean = FALSE /\ join'.pc = join.pc /\ join'.ssid = join.ssid
  BY <1>1 DEF Joins
<1>. QED
  BY <1>2 DEF SInv, JoinInv

LEMMA PurgeSays == ASSUME IInv, SInv, Purge PROVE SInv'
<1>1. TypeOK /\ (\A i \in Slots : entries[i] \in Entries)
  BY DEF IInv, TypeOK
<1>2. /\ entries' = [i \in Slots |-> IF entries[i].valid /\ entries[i].old
                       THEN [entries[i] EXCEPT !.valid = FALSE] ELSE entries[i]]
      /\ lock = "free" /\ UNCHANGED <<usb, slot, beacon, last, heard>> /\ Disturb
  BY DEF Purge, usbVars
<1>3. ~Filling
  BY <1>1, <1>2 DEF TypeOK, Filling
<1>4. ASSUME NEW i \in Slots
      PROVE  /\ entries'[i].valid => entries[i].valid
             /\ entries'[i].bssid = entries[i].bssid
             /\ entries'[i].ssid = entries[i].ssid
             /\ entries'[i].channel = entries[i].channel
             /\ entries'[i].security = entries[i].security
             /\ entries'[i].rssi = entries[i].rssi
  BY <1>1, <1>2 DEF Entries
<1>5. SlotInv' /\ WholeInv' /\ HeardInv'
  BY <1>2, <1>3, <1>4, SameSays
<1>. QED
  BY <1>1, <1>2, <1>5, DisturbedSays DEF SInv

LEMMA EnterSays == ASSUME IInv, SInv, FindOrCreate PROVE SInv'
<1>. DEFINE new == [Zeroed EXCEPT !.valid = TRUE, !.bssid = beacon.bssid]
<1>1. TypeOK
  BY DEF IInv
<1>2. slot' \in Slots
  BY <1>1, EntryForNetwork DEF FindOrCreate, TypeOK, Beacons
<1>3. usb = "find" /\ usb' = "name" /\ UNCHANGED <<beacon, last, heard>> /\ ~Filling
  BY DEF FindOrCreate, Filling
<1>4. CASE Listed(slot', beacon.bssid)
  <2>1. UNCHANGED <<entries, join>>
    BY <1>4 DEF FindOrCreate
  <2>2. SlotInv'
    BY <1>3, <1>4, <2>1 DEF SlotInv, Listed
  <2>3. WholeInv'
    BY <1>3, <2>1 DEF SInv, WholeInv, Says
  <2>4. HeardInv'
    BY <1>3, <2>1 DEF SInv, HeardInv, NameHeard, ChannelHeard
  <2>5. JoinInv'
    BY <1>1, <1>3, <2>1, JoinRests
  <2>. QED
    BY <2>2, <2>3, <2>4, <2>5 DEF SInv
<1>5. CASE ~Listed(slot', beacon.bssid)
  <2>1. entries' = [entries EXCEPT ![slot'] = new] /\ Disturb
    BY <1>5 DEF FindOrCreate
  <2>2. new.valid /\ new.bssid = beacon.bssid /\ new.ssid = NoSsid /\ new.channel = 0
    BY DEF Zeroed
  <2>. HIDE DEF new
  <2>3. \A i \in Slots : entries'[i] = IF i = slot' THEN new ELSE entries[i]
    BY <1>1, <1>2, <2>1 DEF TypeOK
  <2>4. SlotInv'
    BY <1>2, <1>3, <2>2, <2>3 DEF SlotInv
  <2>5. WholeInv'
    BY <1>3, <2>3 DEF SInv, WholeInv, Says, Filling
  <2>6. HeardInv'
    BY <1>3, <2>2, <2>3 DEF SInv, HeardInv, NameHeard, ChannelHeard
  <2>7. JoinInv'
    BY <1>1, <2>1, DisturbedSays
  <2>. QED
    BY <2>4, <2>5, <2>6, <2>7 DEF SInv
<1>. QED
  BY <1>4, <1>5

\* The lookups of a join.
LEMMA JoinSays ==
  ASSUME IInv, SInv, JoinStep \/ (\E ssid \in Ssids, bssid \in {NoAp} \cup Given :
                                    JoinBegin(ssid, bssid))
  PROVE  SInv'
<1>1. TypeOK /\ join \in Joins
  BY DEF IInv, TypeOK
<1>2. UNCHANGED <<entries, usb, beacon, slot, last, heard>>
  BY DEF JoinStep, JoinBegin, Look, NotFound, TakeChannel, TakeBssid, TakeChannelAgain, Park,
         JoinUnchanged, tableVars, usbVars
<1>3. SlotInv' /\ WholeInv' /\ HeardInv'
  BY <1>2, TableRests DEF Filling
<1>. SUFFICES JoinInv'
  BY <1>3 DEF SInv
<1>4. /\ Again.pc \in {"park", "lookAgain"} /\ (Again.pc = "park" => join.given)
      /\ Again.ssid = join.ssid /\ Again.given = join.given
  BY <1>1 DEF Again, Joins
<1>5. CASE Look
  <2>1. CASE Named(entries[join.i], join.ssid)
    <3>1. /\ join' = [join EXCEPT !.pc = IF join.pc = "look" THEN "channel" ELSE "bssid"]
          /\ join.i \in Slots /\ join.pc # "idle"
      BY <1>5, <2>1 DEF Look, Found
    <3>2. /\ join'.pc \in {"channel", "bssid"} /\ join'.i = join.i /\ join'.ssid = join.ssid
      BY <1>1, <3>1 DEF Joins
    <3>3. entries[join.i].valid /\ entries[join.i].ssid = join.ssid
      BY <2>1 DEF Named
    <3>4. join.ssid # NoSsid
      BY <3>1 DEF SInv, JoinInv
    <3>5. NameHeard(entries[join.i].bssid, join.ssid)
      BY <3>1, <3>3, <3>4 DEF SInv, HeardInv
    <3>. QED
      BY <1>2, <3>2, <3>3, <3>4, <3>5 DEF JoinInv, NameHeard, ChannelHeard, ListedAps
  <2>2. CASE ~Named(entries[join.i], join.ssid)
    <3>1. join' = [join EXCEPT !.i = join.i + 1] /\ join.pc \in {"look", "lookAgain"}
      BY <1>1, <1>5, <2>2 DEF Look
    <3>2. join'.pc = join.pc /\ join'.ssid = join.ssid
      BY <1>1, <3>1 DEF Joins
    <3>3. join.ssid # NoSsid
      BY <3>1 DEF SInv, JoinInv
    <3>. QED
      BY <3>1, <3>2, <3>3 DEF JoinInv
  <2>. QED
    BY <2>1, <2>2
<1>6. CASE NotFound
  <2>1. join.pc \in {"look", "lookAgain"} /\ join' \in {Again, NoJoin}
    BY <1>6 DEF NotFound
  <2>2. join.ssid # NoSsid
    BY <2>1 DEF SInv, JoinInv
  <2>. QED
    BY <1>4, <2>1, <2>2 DEF JoinInv, NoJoin
<1>7. CASE TakeChannel
  <2>1. join.pc = "channel" /\ join' = [Again EXCEPT !.channel = entries[join.i].channel]
    BY <1>7 DEF TakeChannel
  <2>2. join'.pc = Again.pc /\ join'.ssid = Again.ssid /\ join'.given = Again.given
    BY <1>1, <2>1 DEF Again, Joins
  <2>3. join.ssid # NoSsid
    BY <2>1 DEF SInv, JoinInv
  <2>. QED
    BY <1>4, <2>2, <2>3 DEF JoinInv
<1>8. CASE TakeBssid
  <2>1. join.pc = "bssid" /\ join' = [join EXCEPT !.pc = "channelAgain", !.bssid = entries[join.i].bssid]
    BY <1>8 DEF TakeBssid
  <2>2. /\ join'.pc = "channelAgain" /\ join'.i = join.i /\ join'.ssid = join.ssid
        /\ join'.bssid = entries[join.i].bssid /\ join'.given = join.given /\ join'.clean = join.clean
    BY <1>1, <2>1 DEF Joins
  <2>3. /\ join.ssid # NoSsid
        /\ join.clean /\ ~join.given => /\ entries[join.i].valid
                                       /\ NameHeard(entries[join.i].bssid, join.ssid)
    BY <2>1 DEF SInv, JoinInv
  <2>. QED
    BY <1>2, <2>2, <2>3 DEF JoinInv, NameHeard, ChannelHeard, ListedAps
<1>9. CASE TakeChannelAgain
  <2>1. join.pc = "channelAgain" /\ join' = [join EXCEPT !.pc = "park", !.channel = entries[join.i].channel]
    BY <1>9 DEF TakeChannelAgain
  <2>2. /\ join'.pc = "park" /\ join'.ssid = join.ssid /\ join'.bssid = join.bssid
        /\ join'.channel = entries[join.i].channel
        /\ join'.given = join.given /\ join'.clean = join.clean
    BY <1>1, <2>1 DEF Joins
  <2>3. /\ join.ssid # NoSsid /\ join.i \in Slots
        /\ join.clean /\ ~join.given => /\ entries[join.i].valid /\ entries[join.i].bssid = join.bssid
                                       /\ NameHeard(join.bssid, join.ssid)
    BY <1>1, <2>1 DEF SInv, JoinInv, TypeOK
  <2>4. join.clean /\ ~join.given =>
          /\ join.bssid \in ListedAps
          /\ join'.channel = 0 \/ ChannelHeard(join.bssid, join'.channel)
    BY <2>2, <2>3 DEF SInv, HeardInv, ListedAps
  <2>. QED
    BY <1>2, <2>2, <2>3, <2>4 DEF JoinInv, NameHeard, ChannelHeard, ListedAps
<1>10. CASE Park
  BY <1>10 DEF Park, JoinInv, NoJoin
<1>11. ASSUME NEW ssid \in Ssids, NEW bssid \in {NoAp} \cup Given, JoinBegin(ssid, bssid)
       PROVE  JoinInv'
  <2>1. join' = [NoJoin EXCEPT !.pc = "look", !.ssid = ssid, !.bssid = bssid, !.given = (bssid # NoAp)]
    BY <1>11, Zenon DEF JoinBegin
  <2>2. join'.pc = "look" /\ join'.ssid = ssid
    BY <2>1 DEF NoJoin
  <2>. QED
    BY <2>2, BssAssumption DEF JoinInv
<1>. QED
  BY <1>5, <1>6, <1>7, <1>8, <1>9, <1>10, <1>11 DEF JoinStep

LEMMA RestSays ==
  ASSUME IInv, SInv, Receive \/ Walk \/ GetScanResults \/ ResultsUsed \/ UNCHANGED vars
  PROVE  SInv'
<1>1. TypeOK
  BY DEF IInv
<1>2. /\ UNCHANGED <<entries, slot, last, heard, join>>
      /\ UNCHANGED <<usb, beacon>> \/ (~Filling /\ ~Filling')
  <2>1. CASE Receive
    BY <2>1 DEF Receive, tableVars, joinVars, Filling
  <2>2. CASE Walk
    <3>1. usb = "walk" /\ usb' \in {"idle", "walk", "find"}
      BY <2>2, Zenon DEF Walk
    <3>2. UNCHANGED <<entries, slot, last, heard, join>>
      BY <2>2, Zenon DEF Walk, tableVars, joinVars
    <3>3. ~Filling /\ ~Filling'
      BY <3>1 DEF Filling
    <3>. QED
      BY <3>2, <3>3, Zenon
  <2>3. CASE GetScanResults \/ ResultsUsed \/ UNCHANGED vars
    BY <2>3 DEF GetScanResults, ResultsUsed, vars, tableVars, usbVars, joinVars
  <2>. QED
    BY <2>1, <2>2, <2>3
<1>3. SlotInv' /\ WholeInv' /\ HeardInv'
  BY <1>2, TableRests DEF Filling
<1>4. JoinInv'
  BY <1>1, <1>2, JoinRests
<1>. QED
  BY <1>3, <1>4 DEF SInv

LEMMA TableSays == Spec => [](IInv /\ SInv)
<1>1. IInv /\ SInv /\ [Next]_vars => SInv'
  BY FillNameSays, FillRestSays, AgesSays, PurgeSays, EnterSays, JoinSays, RestSays DEF Next
<1>. QED
  BY <1>1, InitSays, TableInvariant, PTL DEF Spec

\* A record that _GetScanResults copies out says what one beacon of its network
\* said, name, channel, security and strength together: the two halves in which
\* UpdateBssEntry fills an entry are never seen apart.
THEOREM ResultsAreWhole == Spec => ResultsWhole
<1>. DEFINE Whole == \A e \in results' \ results :
              /\ e.ssid = last[e.bssid].ssid /\ e.channel = last[e.bssid].channel
              /\ e.security = last[e.bssid].security
              /\ e.rssi = last[e.bssid].rssi
<1>1. IInv /\ SInv /\ [Next]_vars => [Whole]_vars
  <2>. SUFFICES ASSUME IInv, SInv, Next, NEW e \in results' \ results
                PROVE  Says(e)
    BY DEF Says
  <2>1. GetScanResults
    BY DEF Next, Receive, Walk, FindOrCreate, FillName, FillRest, Ages, Purge, ResultsUsed, JoinBegin,
           JoinStep, Look, NotFound, TakeChannel, TakeBssid, TakeChannelAgain, Park, JoinUnchanged
  <2>2. lock = "free" /\ e \in Copied
    BY <2>1 DEF GetScanResults, MayCopy
  <2>3. PICK i \in Slots : entries[i].valid /\ e = entries[i]
    BY <2>2 DEF Copied
  <2>4. ~Filling
    BY <2>2 DEF IInv, TypeOK, Filling
  <2>. QED
    BY <2>3, <2>4 DEF SInv, WholeInv
<1>. QED
  BY <1>1, TableSays, PTL DEF Spec, ResultsWhole

\* A join by name whose entry neither changed hands nor went during the lookups
\* of FindBssBySsid, made without the lock, goes to a network in the table that
\* a beacon has given the name to, on a channel a beacon of it carried or none.
THEOREM JoinsGoWhereHeard == Spec => JoinTargetHeard
<1>. DEFINE Target == chosen' # chosen /\ chosen'.clean /\ ~chosen'.given =>
              /\ chosen'.bssid \in ListedAps /\ NameHeard(chosen'.bssid, chosen'.ssid)
              /\ chosen'.channel = 0 \/ ChannelHeard(chosen'.bssid, chosen'.channel)
<1>1. IInv /\ SInv /\ [Next]_vars => [Target]_vars
  <2>. SUFFICES ASSUME IInv, SInv, Next, chosen' # chosen, chosen'.clean, ~chosen'.given
                PROVE  /\ chosen'.bssid \in ListedAps /\ NameHeard(chosen'.bssid, chosen'.ssid)
                       /\ chosen'.channel = 0 \/ ChannelHeard(chosen'.bssid, chosen'.channel)
    OBVIOUS
  <2>1. Park
    BY DEF Next, Receive, Walk, FindOrCreate, FillName, FillRest, Ages, Purge, GetScanResults, ResultsUsed,
           JoinBegin, JoinStep, Look, NotFound, TakeChannel, TakeBssid, TakeChannelAgain, joinVars
  <2>2. join.pc = "park" /\ chosen' = join
    BY <2>1 DEF Park
  <2>. QED
    BY <2>2 DEF SInv, JoinInv
<1>. QED
  BY <1>1, TableSays, PTL DEF Spec, JoinTargetHeard

-----------------------------------------------------------------------------
(* The walk over a transfer finds each frame where the chip put it.          *)

\* Where each frame begins follows from where the one before it does.
LEMMA BeginsStepwise ==
  ASSUME NEW t \in Transfers
  PROVE  Begins(t) = [i \in 1 .. Len(t.frames) + 1 |->
           IF i = 1 THEN 0 ELSE Begins(t)[i - 1] + Occupies(t.frames[i - 1])]
<1> DEFINE Upto(n) == \E f : f = [i \in 1 .. n |->
                        IF i = 1 THEN 0 ELSE f[i - 1] + Occupies(t.frames[i - 1])]
           Missing == {n \in Nat : ~Upto(n)}
<1>1. ASSUME NEW n \in Nat, n = 0 \/ Upto(n - 1)
      PROVE  Upto(n)
  <2>1. CASE n = 0
    <3> DEFINE f == [i \in 1 .. n |-> 0]
    <3>1. f = [i \in 1 .. n |-> IF i = 1 THEN 0 ELSE f[i - 1] + Occupies(t.frames[i - 1])]
      BY <2>1
    <3> QED
      BY <3>1
  <2>2. CASE n # 0
    <3>1. PICK f : f = [i \in 1 .. n - 1 |->
                     IF i = 1 THEN 0 ELSE f[i - 1] + Occupies(t.frames[i - 1])]
      BY <1>1, <2>2
    <3> DEFINE g == [i \in 1 .. n |->
             IF i = 1 THEN 0
             ELSE IF i = n THEN f[n - 1] + Occupies(t.frames[n - 1]) ELSE f[i]]
    <3>2. \A i \in 1 .. n : i # 1 => g[i] = g[i - 1] + Occupies(t.frames[i - 1])
      <4> TAKE i \in 1 .. n
      <4> HAVE i # 1
      <4>1. i - 1 \in 1 .. n /\ i - 1 # n /\ i - 1 \in 1 .. n - 1
        BY <2>2
      <4>2. g[i - 1] = f[i - 1]
        BY <3>1, <4>1
      <4>3. CASE i = n
        BY <4>2, <4>3
      <4>4. CASE i # n
        <5>1. i \in 1 .. n - 1
          BY <4>4
        <5>2. f[i] = f[i - 1] + Occupies(t.frames[i - 1])
          BY <3>1, <5>1
        <5> QED
          BY <4>2, <4>4, <5>2
      <4> QED
        BY <4>3, <4>4
    <3>3. g = [i \in 1 .. n |-> IF i = 1 THEN 0 ELSE g[i - 1] + Occupies(t.frames[i - 1])]
      BY <3>2
    <3> QED
      BY <3>3
  <2> QED
    BY <2>1, <2>2
<1>2. Missing = {}
  <2>1. SUFFICES ASSUME Missing # {} PROVE FALSE
    OBVIOUS
  <2> HIDE DEF Upto
  <2>2. PICK m \in Missing : \A k \in Missing : m <= k
    BY <2>1, Least
  <2>3. m = 0 \/ Upto(m - 1)
    BY <2>2
  <2> QED
    BY <1>1, <2>2, <2>3
<1>3. Len(t.frames) + 1 \in Nat
  BY PackingAssumption
<1>4. Upto(Len(t.frames) + 1)
  <2> HIDE DEF Upto
  <2> QED
    BY <1>2, <1>3
<1> QED
  BY <1>4, Zenon DEF Begins

\* A frame has room, and the driver goes on from it as far as the chip did.
LEMMA Steps ==
  ASSUME NEW t \in Transfers, NEW i \in DOMAIN t.frames, NEW f, f = t.frames[i]
  PROVE  /\ Occupies(f) \in Nat /\ Occupies(f) = Advance(f)
         /\ f.raw \in Nat /\ f.shift \in Nat /\ PhyBytes(f) \in Nat
         /\ PacketLength(f) \in Nat \ {0}
         /\ DescSize + PhyBytes(f) + f.shift + PacketLength(f) < Occupies(f)
<1>1. /\ f.raw \in Nat /\ f.shift \in Nat
      /\ f.raw > 4 /\ PhyBytes(f) = IF f.phy THEN 32 ELSE 0
  BY TransferAssumption, PackingAssumption DEF Fcs, PhySize
<1>2. PacketLength(f) = f.raw - 4
  BY <1>1 DEF PacketLength, Fcs
<1>3. \A n \in Nat : Aligned(n) \in Nat /\ n <= Aligned(n)
  BY DEF Aligned, Align
<1>4. Occupies(f) = Aligned(24 + PhyBytes(f) + f.shift + f.raw)
  BY <1>1 DEF Occupies, DescSize, PhySize
<1>5. Advance(f) = Aligned(24 + PhyBytes(f) + f.shift + f.raw)
  BY DEF Advance, DescSize
<1>6. PhyBytes(f) \in Nat /\ 24 + PhyBytes(f) + f.shift + f.raw \in Nat
  BY <1>1
<1>7. Occupies(f) \in Nat /\ 24 + PhyBytes(f) + f.shift + f.raw <= Occupies(f)
  BY <1>3, <1>4, <1>6
<1> HIDE DEF Occupies
<1> QED
  BY <1>1, <1>2, <1>4, <1>5, <1>6, <1>7 DEF DescSize

\* Frames begin one behind the other.
LEMMA BeginsRise ==
  ASSUME NEW t \in Transfers
  PROVE  /\ Begins(t)[1] = 0
         /\ \A i \in 1 .. Len(t.frames) + 1 : Begins(t)[i] \in Nat
         /\ \A i \in DOMAIN t.frames :
              Begins(t)[i + 1] = Begins(t)[i] + Occupies(t.frames[i])
         /\ \A i, j \in 1 .. Len(t.frames) + 1 : i < j => Begins(t)[i] < Begins(t)[j]
<1> DEFINE N == Len(t.frames)
           B == Begins(t)
           O(i) == Occupies(t.frames[i])
<1>1. N \in Nat /\ DOMAIN t.frames = 1 .. N
  BY PackingAssumption
<1>2. \A i \in 1 .. N : O(i) \in Nat /\ O(i) > 0
  BY <1>1, Steps DEF DescSize
<1>3. B = [i \in 1 .. N + 1 |-> IF i = 1 THEN 0 ELSE B[i - 1] + O(i - 1)]
  BY BeginsStepwise
<1> HIDE DEF N, B, O
<1>4. B[1] = 0 /\ \A i \in 1 .. N : B[i + 1] = B[i] + O(i)
  <2>1. 1 \in 1 .. N + 1
    BY <1>1
  <2>2. ASSUME NEW i \in 1 .. N PROVE B[i + 1] = B[i] + O(i)
    <3>1. i + 1 \in 1 .. N + 1 /\ i + 1 # 1 /\ (i + 1) - 1 = i
      BY <1>1
    <3>2. B[i + 1] = IF i + 1 = 1 THEN 0 ELSE B[(i + 1) - 1] + O((i + 1) - 1)
      BY <1>3, <3>1
    <3> QED
      BY <3>1, <3>2
  <2> QED
    BY <1>3, <2>1, <2>2
<1>5. \A i \in 1 .. N + 1 : B[i] \in Nat
  <2> DEFINE Bad == {i \in 1 .. N + 1 : B[i] \notin Nat}
  <2> SUFFICES ASSUME Bad # {} PROVE FALSE
    OBVIOUS
  <2>1. PICK m \in Bad : \A k \in Bad : m <= k
    <3>1. Bad \in SUBSET Nat
      BY <1>1
    <3> HIDE DEF Bad
    <3> QED
      BY <3>1, Least
  <2>2. m # 1
    BY <1>4
  <2>3. m - 1 \in 1 .. N /\ m - 1 \in 1 .. N + 1 /\ (m - 1) + 1 = m /\ m - 1 < m
    BY <1>1, <2>2
  <2>4. B[m - 1] \in Nat
    BY <2>1, <2>3
  <2>5. B[m] = B[m - 1] + O(m - 1)
    BY <1>4, <2>3
  <2> QED
    BY <1>2, <2>1, <2>3, <2>4, <2>5
<1>6. \A i, j \in 1 .. N + 1 : i < j => B[i] < B[j]
  <2> TAKE i \in 1 .. N + 1
  <2> DEFINE Bad == {j \in 1 .. N + 1 : i < j /\ ~(B[i] < B[j])}
  <2> SUFFICES ASSUME Bad # {} PROVE FALSE
    OBVIOUS
  <2>1. PICK m \in Bad : \A k \in Bad : m <= k
    <3>1. Bad \in SUBSET Nat
      BY <1>1
    <3> HIDE DEF Bad
    <3> QED
      BY <3>1, Least
  <2>2. m - 1 \in 1 .. N /\ m - 1 \in 1 .. N + 1 /\ (m - 1) + 1 = m /\ m - 1 < m
    BY <1>1
  <2>3. B[m] = B[m - 1] + O(m - 1)
    BY <1>4, <2>2
  <2>4. B[m - 1] \in Nat /\ B[i] \in Nat /\ O(m - 1) \in Nat /\ O(m - 1) > 0
    BY <1>2, <1>5, <2>2
  <2>5. i = m - 1 \/ B[i] < B[m - 1]
    BY <1>1, <2>1, <2>2
  <2> QED
    BY <2>1, <2>3, <2>4, <2>5
<1> QED
  BY <1>1, <1>4, <1>5, <1>6 DEF N, B, O

\* What the driver makes of the place where the k-th frame begins, and of the
\* end of the last.
LEMMA VerdictThere ==
  ASSUME NEW t \in Transfers, NEW k \in 1 .. Len(t.frames) + 1, NEW o, o = Begins(t)[k]
  PROVE  /\ k \in DOMAIN t.frames =>
              /\ {i \in DOMAIN t.frames : Begins(t)[i] = o} = {k}
              /\ DescriptorAt(t, o) = t.frames[k]
              /\ Verdict(t, o) = IF k \in Sound(t) THEN "deliver" ELSE "error"
         /\ k \notin DOMAIN t.frames =>
              k = Len(t.frames) + 1 /\ Verdict(t, o) \in {"end", "bail"}
<1> DEFINE N == Len(t.frames)
           B == Begins(t)
<1>1. /\ N \in Nat /\ DOMAIN t.frames = 1 .. N /\ t.padding \in Nat
      /\ k \in 1 .. N + 1 /\ o = B[k]
  BY PackingAssumption
<1>2. /\ \A i \in 1 .. N + 1 : B[i] \in Nat
      /\ \A i \in 1 .. N : B[i + 1] = B[i] + Occupies(t.frames[i])
      /\ \A i, j \in 1 .. N + 1 : i < j => B[i] < B[j]
  BY <1>1, BeginsRise
<1>3. Length(t) = B[N + 1] + t.padding
  BY DEF Length
<1> HIDE DEF N, B
<1>4. \A i \in 1 .. N : B[i] = B[k] => i = k
  <2> TAKE i \in 1 .. N
  <2>1. i \in 1 .. N + 1 /\ B[i] \in Nat /\ B[k] \in Nat
    BY <1>1, <1>2
  <2>2. i < k => B[i] < B[k]
    BY <1>1, <1>2, <2>1
  <2>3. k < i => B[k] < B[i]
    BY <1>1, <1>2, <2>1
  <2>4. i \in Int /\ k \in Int
    BY <1>1
  <2> QED
    BY <2>1, <2>2, <2>3, <2>4
<1>5. CASE k \in 1 .. N
  <2> DEFINE f == t.frames[k]
             here == {i \in DOMAIN t.frames : B[i] = o}
  <2>1. here = {k}
    BY <1>1, <1>4, <1>5
  <2>2. DescriptorAt(t, o) = f
    <3>1. here # {} /\ (CHOOSE i \in here : TRUE) = k
      BY <2>1
    <3> HIDE DEF f, here
    <3>2. DescriptorAt(t, o) = t.frames[CHOOSE i \in here : TRUE]
      BY <3>1, Zenon DEF DescriptorAt, here, B
    <3> QED
      BY <3>1, <3>2 DEF f
  <2>3. /\ PacketLength(f) \in Nat \ {0} /\ f.shift \in Nat /\ PhyBytes(f) \in Nat
        /\ 24 + PhyBytes(f) + f.shift + PacketLength(f) < Occupies(f) /\ Occupies(f) \in Nat
    BY <1>1, <1>5, Steps DEF DescSize
  <2>4. /\ B[k + 1] \in Nat /\ B[N + 1] \in Nat /\ B[k] \in Nat
        /\ B[k + 1] = B[k] + Occupies(f) /\ B[k + 1] <= B[N + 1]
    <3>1. k + 1 \in 1 .. N + 1 /\ N + 1 \in 1 .. N + 1 /\ k \in 1 .. N + 1
          /\ (k + 1 < N + 1 \/ k + 1 = N + 1)
      BY <1>1, <1>5
    <3>2. B[k + 1] \in Nat /\ B[N + 1] \in Nat /\ B[k] \in Nat
      BY <1>2, <3>1
    <3>3. B[k + 1] < B[N + 1] \/ B[k + 1] = B[N + 1]
      BY <1>2, <3>1
    <3> QED
      BY <1>2, <1>5, <3>2, <3>3
  <2> HIDE DEF f
  <2>5. /\ ~(o + DescSize > Length(t))
        /\ ~(PacketLength(f) = 0)
        /\ ~(PayloadOffset(f, o) + PacketLength(f) > Length(t))
    <3>1. /\ o = B[k] /\ Length(t) = B[N + 1] + t.padding /\ t.padding \in Nat
          /\ PayloadOffset(f, o) = o + 24 + PhyBytes(f) + f.shift
      BY <1>1, <1>3 DEF DescSize, PayloadOffset
    <3>2. \A a, b, c, d, e, n, p, z \in Nat :
            24 + a + b + c < e /\ n = z + e /\ n <= p =>
              /\ ~(z + 24 > p + d)
              /\ ~(z + 24 + a + b + c > p + d)
      OBVIOUS
    <3>3. DescSize = 24 /\ PacketLength(f) \in Nat /\ PacketLength(f) # 0
      BY <2>3 DEF DescSize
    <3>4. /\ f.shift \in Nat /\ PhyBytes(f) \in Nat /\ Occupies(f) \in Nat
          /\ 24 + PhyBytes(f) + f.shift + PacketLength(f) < Occupies(f)
      BY <2>3
    <3>5. /\ ~(B[k] + 24 > B[N + 1] + t.padding)
          /\ ~(B[k] + 24 + PhyBytes(f) + f.shift + PacketLength(f) > B[N + 1] + t.padding)
      BY <2>4, <3>1, <3>2, <3>3, <3>4
    <3> QED
      BY <3>1, <3>3, <3>5
  <2>6. k \in Sound(t) <=> ~(f.crc \/ f.icv)
    BY <1>1, <1>5 DEF Sound, f
  <2>7. Verdict(t, o) = IF k \in Sound(t) THEN "deliver" ELSE "error"
    BY <2>2, <2>5, <2>6 DEF Verdict
  <2> QED
    BY <1>1, <1>5, <2>1, <2>2, <2>7 DEF f, B
<1>6. CASE k \notin 1 .. N
  <2>1. k = N + 1
    BY <1>1, <1>6
  <2>2. \A i \in DOMAIN t.frames : B[i] # o
    BY <1>1, <1>4, <1>6
  <2>3. o \in Nat /\ o >= B[N + 1]
    BY <1>1, <1>2, <2>1
  <2>4. DescriptorAt(t, o) = Padding
    BY <2>2, <2>3, Zenon DEF DescriptorAt, N, B
  <2>5. PacketLength(Padding) = 0
    BY DEF PacketLength, Padding, Fcs
  <2>6. ~(Padding.crc \/ Padding.icv)
    BY DEF Padding
  <2>7. Verdict(t, o) \in {"end", "bail"}
    BY <2>4, <2>5, <2>6 DEF Verdict
  <2> QED
    BY <1>1, <1>6, <2>1, <2>7 DEF N
<1> QED
  BY <1>5, <1>6

\* The walk is at the k-th frame, or at the end, and the sound ones before it
\* were delivered in order.
WalkedTo(k) ==
  /\ offset = Begins(transfer)[k]
  /\ {delivered[n] : n \in DOMAIN delivered} = {i \in Sound(transfer) : i < k}
  /\ \A m, n \in DOMAIN delivered : m < n => delivered[m] < delivered[n]

WalkInv ==
  /\ WalkDelivers
  /\ usb # "idle" => /\ transfer \in Transfers
                     /\ \E k \in 1 .. Len(transfer.frames) + 1 : WalkedTo(k)

\* A turn of the loop goes from one frame to the next, or ends at the last.
LEMMA WalkGoesOn ==
  ASSUME TypeOK, WalkInv, Walk
  PROVE  WalkInv'
<1>1. PICK k \in 1 .. Len(transfer.frames) + 1 : WalkedTo(k)
  BY DEF WalkInv, Walk
<1> DEFINE N == Len(transfer.frames)
           sound == Sound(transfer)
<1>2. transfer \in Transfers /\ transfer' = transfer /\ usb = "walk"
  BY DEF WalkInv, Walk
<1>3. N \in Nat /\ DOMAIN transfer.frames = 1 .. N /\ sound \subseteq 1 .. N
  BY <1>2, PackingAssumption DEF Sound
<1>4. offset = Begins(transfer)[k]
  BY <1>1 DEF WalkedTo
<1>5. delivered \in Seq(Nat)
  BY DEF TypeOK
<1>6. CASE k \notin 1 .. N
  <2>1. Verdict(transfer, offset) \in {"end", "bail"} /\ k = N + 1
    BY <1>2, <1>3, <1>4, <1>6, VerdictThere
  <2>2. usb' = "idle" /\ delivered' = delivered
    BY <2>1 DEF Walk
  <2>3. {i \in sound : i < k} = sound
    BY <1>3, <2>1
  <2> HIDE DEF sound
  <2>4. /\ {delivered[n] : n \in DOMAIN delivered} = sound
        /\ \A m, n \in DOMAIN delivered : m < n => delivered[m] < delivered[n]
    BY <1>1, <2>3 DEF WalkedTo, sound
  <2>5. WalkDelivers'
    BY <1>2, <2>2, <2>4 DEF WalkDelivers, sound
  <2> QED
    BY <2>2, <2>5 DEF WalkInv
<1>7. CASE k \in 1 .. N
  <2>1. /\ {i \in DOMAIN transfer.frames : Begins(transfer)[i] = offset} = {k}
        /\ Here = transfer.frames[k]
        /\ Verdict(transfer, offset) = IF k \in sound THEN "deliver" ELSE "error"
    BY <1>2, <1>3, <1>4, <1>7, VerdictThere DEF Here
  <2>2. Number = k
    BY <2>1 DEF Number
  <2>3. /\ usb' # "idle" /\ offset' = offset + Advance(Here)
        /\ delivered' = IF k \in sound THEN Append(delivered, k) ELSE delivered
    <3>1. CASE k \in sound
      BY <1>2, <2>1, <2>2, <3>1 DEF Walk
    <3>2. CASE k \notin sound
      BY <1>2, <2>1, <2>2, <3>2 DEF Walk
    <3> QED
      BY <3>1, <3>2
  <2>4. offset' = Begins(transfer)[k + 1]
    <3>1. Advance(Here) = Occupies(transfer.frames[k])
      BY <1>2, <1>3, <1>7, <2>1, Steps
    <3>2. Begins(transfer)[k + 1] = Begins(transfer)[k] + Occupies(transfer.frames[k])
      BY <1>2, <1>3, <1>7, BeginsRise
    <3> QED
      BY <1>4, <2>3, <3>1, <3>2
  <2> HIDE DEF sound
  <2>5. /\ {delivered'[n] : n \in DOMAIN delivered'} = {i \in sound : i < k + 1}
        /\ \A m, n \in DOMAIN delivered' : m < n => delivered'[m] < delivered'[n]
    <3>1. /\ {delivered[n] : n \in DOMAIN delivered} = {i \in sound : i < k}
          /\ \A m, n \in DOMAIN delivered : m < n => delivered[m] < delivered[n]
      BY <1>1 DEF WalkedTo, sound
    <3>4. \A i \in sound : (i < k + 1) <=> (i < k \/ i = k)
      <4>1. \A i \in sound : i \in Int
        BY <1>3
      <4> QED
        BY <1>3, <1>7, <4>1
    <3>2. CASE k \notin sound
      <4>1. {i \in sound : i < k + 1} = {i \in sound : i < k}
        BY <3>2, <3>4
      <4> QED
        BY <2>3, <3>1, <3>2, <4>1
    <3>3. CASE k \in sound
      <4>1. k \in Nat /\ delivered' = Append(delivered, k)
        BY <1>3, <1>7, <2>3, <3>3
      <4>2. /\ Len(delivered) \in Nat /\ DOMAIN delivered = 1 .. Len(delivered)
            /\ DOMAIN delivered' = 1 .. Len(delivered) + 1
            /\ \A n \in DOMAIN delivered : delivered'[n] = delivered[n]
            /\ delivered'[Len(delivered) + 1] = k
        BY <1>5, <4>1
      <4>3. {i \in sound : i < k + 1} = {i \in sound : i < k} \cup {k}
        BY <1>3, <1>7, <3>3, <3>4
      <4>4. {delivered'[n] : n \in DOMAIN delivered'}
              = {delivered[n] : n \in DOMAIN delivered} \cup {k}
        <5>1. DOMAIN delivered' = DOMAIN delivered \cup {Len(delivered) + 1}
          BY <4>2
        <5> QED
          BY <4>2, <5>1
      <4>5. \A n \in DOMAIN delivered : delivered[n] < k
        BY <3>1
      <4>6. \A m, n \in DOMAIN delivered' : m < n => delivered'[m] < delivered'[n]
        <5> TAKE m, n \in DOMAIN delivered'
        <5> HAVE m < n
        <5>1. m \in DOMAIN delivered
          BY <4>2
        <5>2. CASE n \in DOMAIN delivered
          BY <3>1, <4>2, <5>1, <5>2
        <5>3. CASE n = Len(delivered) + 1
          BY <4>2, <4>5, <5>1, <5>3
        <5> QED
          BY <4>2, <5>2, <5>3
      <4> QED
        BY <3>1, <4>3, <4>4, <4>6
    <3> QED
      BY <3>2, <3>3
  <2>6. k + 1 \in 1 .. N + 1
    BY <1>3, <1>7
  <2>7. WalkedTo(k + 1)'
    BY <1>2, <2>4, <2>5 DEF WalkedTo, sound
  <2>8. WalkDelivers'
    BY <2>3 DEF WalkDelivers
  <2> QED
    BY <1>2, <2>6, <2>7, <2>8 DEF WalkInv
<1> QED
  BY <1>6, <1>7

\* For any transfers the chip may pack: when the walk of a transfer is over, its
\* sound frames were delivered, each once and in order, and nothing else was.
THEOREM WalksDeliver == Spec => []WalkDelivers
<1>1. Init => WalkInv
  <2> SUFFICES ASSUME Init PROVE WalkInv
    OBVIOUS
  <2>1. transfer = NoTransfer /\ delivered = <<>> /\ usb = "idle"
    BY DEF Init
  <2>2. DOMAIN delivered = {} /\ DOMAIN transfer.frames = {}
    BY <2>1 DEF NoTransfer
  <2>3. Sound(transfer) = {}
    BY <2>2 DEF Sound
  <2> QED
    BY <2>1, <2>2, <2>3 DEF WalkInv, WalkDelivers
<1>2. IInv /\ WalkInv /\ [Next]_vars => WalkInv'
  <2> SUFFICES ASSUME TypeOK, WalkInv, [Next]_vars PROVE WalkInv'
    BY DEF IInv
  <2>1. CASE Receive
    <3>1. transfer' \in Transfers /\ usb' = "walk" /\ offset' = 0 /\ delivered' = <<>>
      BY <2>1 DEF Receive
    <3>2. Begins(transfer')[1] = 0 /\ Len(transfer'.frames) \in Nat
          /\ DOMAIN transfer'.frames = 1 .. Len(transfer'.frames)
      BY <3>1, BeginsRise, PackingAssumption
    <3>3. {i \in Sound(transfer') : i < 1} = {}
      BY <3>2 DEF Sound
    <3>4. WalkedTo(1)'
      BY <3>1, <3>2, <3>3 DEF WalkedTo
    <3>5. 1 \in 1 .. Len(transfer'.frames) + 1
      BY <3>2
    <3> QED
      BY <3>1, <3>4, <3>5 DEF WalkInv, WalkDelivers
  <2>2. CASE Walk
    BY <2>2, WalkGoesOn
  <2>3. CASE UNCHANGED <<transfer, offset, delivered>> /\ (usb' = "idle" <=> usb = "idle")
    BY <2>3 DEF WalkInv, WalkDelivers, WalkedTo
  <2>4. CASE FindOrCreate \/ FillName \/ FillRest
    BY <2>3, <2>4 DEF FindOrCreate, FillName, FillRest
  <2>5. CASE (\E i \in Slots : Ages(i)) \/ Purge \/ GetScanResults \/ ResultsUsed
    BY <2>3, <2>5 DEF Ages, Purge, GetScanResults, ResultsUsed, usbVars
  <2>6. CASE JoinStep \/ \E ssid \in Ssids, bssid \in {NoAp} \cup Given : JoinBegin(ssid, bssid)
    BY <2>3, <2>6 DEF JoinBegin, JoinStep, Look, NotFound, TakeChannel, TakeBssid,
       TakeChannelAgain, Park, JoinUnchanged, usbVars
  <2>7. CASE UNCHANGED vars
    BY <2>3, <2>7 DEF vars
  <2> QED
    BY <2>1, <2>2, <2>4, <2>5, <2>6, <2>7 DEF Next
<1>3. WalkInv => WalkDelivers
  BY DEF WalkInv
<1> QED
  BY <1>1, <1>2, <1>3, TableInvariant, PTL DEF Spec
=============================================================================
