------------------------------ MODULE Station ------------------------------
(***************************************************************************)
(* The connection core of the driver: the join state machine (_DoJoin and  *)
(* the authentication and association handlers of the receive callback),   *)
(* the in-driver WPA2 four-way handshake (the EAPOL worker thread), the    *)
(* keys a supplicant installs (IOC_WPAKEY), and the software CCMP of       *)
(* Write().  The threads are the ones the driver has: one ioctl caller     *)
(* that joins ("join"), one that installs keys ("wpakey"), the USB receive *)
(* callback ("rx"), the EAPOL worker ("work") and any number of threads in *)
(* Write() (Writers).  A thread's program counter names the next step of   *)
(* the call it is in; a step ends where another thread can observe or      *)
(* change what the call uses.                                              *)
(*                                                                         *)
(* The access points, the air and the supplicant are the environment: they *)
(* are well behaved, may be slow, retransmit, and lose at most MaxFaults   *)
(* frames.  Cryptography is symbolic: a PTK is the triple it is derived    *)
(* from, and a MIC is the key it was made with.                            *)
(***************************************************************************)
EXTENDS Integers, Sequences, FiniteSets

CONSTANTS
  Aps,        \* access points, by BSSID
  Secure,     \* the access points that require WPA2-PSK
  Listed,     \* the access points the last scan found
  Writers,    \* threads that call Write()
  JoinModes,  \* the join ioctls in use: "psk", "legacy", "mlme"
  NoAp,       \* the all-zero BSSID
  NoKey,      \* a key that was never derived
  NoFrame,    \* an empty EAPOL inbox
  MaxJoins,   \* bound: join ioctls issued
  MaxFaults,  \* bound: lost frames and failed transmissions
  MaxCross,   \* bound: handshake messages repeated while another is in flight
  MaxStray,   \* bound: responses overheard that are meant for other stations
  MaxSealed,  \* bound: frames encrypted
  MaxRekeys   \* bound: group rekeys the access point asks the supplicant for

ASSUME StationAssumption ==
  /\ Secure \subseteq Aps
  /\ Listed \subseteq Aps
  /\ JoinModes \subseteq {"psk", "legacy", "mlme"}
  /\ NoAp \notin Aps
  /\ NoKey \notin Aps \X Nat \X Nat
  /\ MaxJoins \in Nat /\ MaxFaults \in Nat /\ MaxCross \in Nat
  /\ MaxStray \in Nat /\ MaxSealed \in Nat /\ MaxRekeys \in Nat

VARIABLES
  joinState,  \* fJoinState
  joinBssid,  \* fJoinBssid
  joinSsid,   \* fJoinSsid, as the network it names; NoAp is the empty SSID
  mgrState,   \* WiFiManager::fState, as far as joining changes it
  pmk,        \* fPmk, as the network it belongs to; NoAp is !fPmkValid
  wpaIe,      \* fWpaIeLength > 0
  anonce,     \* fAnonce
  snonce,     \* fSnonce
  ptk,        \* fPtk: the handshake half (KCK, KEK) and the TK half
  ptkValid,   \* fPtkValid
  eapolState, \* fEapolState
  inbox,      \* fEapolInbox, NoFrame when !fEapolPending
  gtk,        \* fGtk, as the network it belongs to; NoAp is !fGtkValid
  ccmp,       \* fCcmpEnabled
  txPn,       \* fTxPnPairwise
  supTk,      \* fSupplicantTk, NoKey when !fSupplicantTkValid
  supGtk,     \* fSupplicantGtk, NoAp when !fSupplicantGtkValid
  join,       \* the thread in a join ioctl: pc, and the network asked for
  rx,         \* the receive callback: "idle" or "sendAssoc"
  work,       \* the EAPOL worker: pc, frame
  wpakey,     \* the thread in IOC_WPAKEY: pc and its copies tk, gtk
  writer,     \* [Writers -> pc, pn]
  up, down,   \* frames in flight to and from the access points
  ap,         \* [Aps -> what the access point believes about us]
  supplicant, \* the external supplicant: its key and what it has to install
  fresh,      \* the next nonce anybody draws
  sealed,     \* every <<key, pn>> a frame was encrypted with, in order
  budget      \* what is left of the bounds above

joinVars == <<joinState, joinBssid, joinSsid, mgrState>>
credVars == <<pmk, wpaIe>>
hsVars   == <<anonce, snonce, ptk, ptkValid, eapolState>>
linkVars == <<gtk, ccmp, txPn>>
supVars  == <<supTk, supGtk, supplicant>>
airVars  == <<up, down, ap>>
countVars == <<fresh, budget>>
vars == <<joinVars, credVars, hsVars, inbox, linkVars, supVars, join, rx, work,
          wpakey, writer, airVars, sealed, countVars>>

-----------------------------------------------------------------------------
JoinStates  == {"Idle", "Authenticating", "Associating", "Connected"}
EapolStates == {"Idle", "WaitM1", "WaitM3", "Done"}
Keys        == Aps \X Nat \X Nat
AnyKey      == Keys \cup {NoKey}
AnyAp       == Aps \cup {NoAp}

\* PTK = PRF-384(PMK, addresses, ANonce, SNonce)
Derive(network, an, sn) == <<network, an, sn>>

\* Frames.  toUs is the destination check; ok a status code of 0 (in an
\* association request: an RSN element); n a nonce; key what the MIC is made with.
Frame == [t : {"Auth", "AssocReq", "M2", "M4", "AuthResp", "AssocResp", "M1", "M3"},
          ap : Aps, toUs : BOOLEAN, ok : BOOLEAN, n : Nat, key : AnyKey]

Msg(t, a, toUs, ok, n, key) ==
  [t |-> t, ap |-> a, toUs |-> toUs, ok |-> ok, n |-> n, key |-> key]

Auth(a)              == Msg("Auth", a, TRUE, TRUE, 0, NoKey)
AssocReq(a, rsn)     == Msg("AssocReq", a, TRUE, rsn, 0, NoKey)
AuthResp(a, us, ok)  == Msg("AuthResp", a, us, ok, 0, NoKey)
AssocResp(a, us, ok) == Msg("AssocResp", a, us, ok, 0, NoKey)
M1(a, us, an)        == Msg("M1", a, us, TRUE, an, NoKey)
M2(a, sn, key)       == Msg("M2", a, TRUE, TRUE, sn, key)
M3(a, key)           == Msg("M3", a, TRUE, TRUE, 0, key)
M4(a, key)           == Msg("M4", a, TRUE, TRUE, 0, key)

Spend(what) == /\ budget[what] > 0
               /\ budget' = [budget EXCEPT ![what] = @ - 1]

\* (A mutation is a plausible slip in the definition after it; PROJECT.json
\* names the property that catches it.)

\* TxPath::Transmit as its callers see it: the frame leaves (one addressed to
\* the all-zero BSSID reaches nobody), or the call fails and nothing does.
TransmitOk(frame) == /\ up' = IF frame.ap = NoAp THEN up ELSE Append(up, frame)
                     /\ UNCHANGED budget
TransmitFails     == /\ Spend("faults")
                     /\ UNCHANGED up

TypeOK ==
  /\ joinState \in JoinStates /\ joinBssid \in AnyAp /\ joinSsid \in AnyAp
  /\ mgrState \in {"Disconnected", "Connected"}
  /\ pmk \in AnyAp /\ wpaIe \in BOOLEAN /\ anonce \in Nat /\ snonce \in Nat
  /\ ptk \in [kck : AnyKey, tk : AnyKey] /\ ptkValid \in BOOLEAN
  /\ eapolState \in EapolStates /\ inbox \in Frame \cup {NoFrame}
  /\ gtk \in AnyAp /\ ccmp \in BOOLEAN /\ txPn \in Nat
  /\ supTk \in AnyKey /\ supGtk \in AnyAp
  /\ join \in [pc : {"idle", "target", "lookup", "arm", "send"}, ssid : AnyAp,
               bssid : AnyAp]
  /\ rx \in {"idle", "sendAssoc"}
  /\ work \in [pc : {"idle", "handle", "sendM2", "install", "commit", "finish"},
               frame : Frame \cup {NoFrame}]
  /\ wpakey \in [pc : {"idle", "install", "arm"}, tk : AnyKey, gtk : AnyAp]
  /\ writer \in [Writers -> [pc : {"idle", "load", "store", "seal"}, pn : Nat]]
  /\ up \in Seq(Frame) /\ down \in Seq(Frame)
  /\ ap \in [Aps -> [assoc : {"None", "Auth", "Assoc"}, dropped : BOOLEAN,
                     hs : {"None", "M1Sent", "M3Sent", "Done"},
                     an : Nat, key : AnyKey]]
  /\ supplicant \in [key : AnyKey, installed : BOOLEAN,
                     todo : SUBSET {"pairwise", "group"}]
  /\ fresh \in Nat
  /\ sealed \in Seq(AnyKey \X Nat)
  /\ budget \in [{"joins", "faults", "cross", "stray", "sealed", "rekeys"} -> Nat]

Init ==
  /\ joinState = "Idle" /\ joinBssid = NoAp /\ joinSsid = NoAp
  /\ mgrState = "Disconnected"
  /\ pmk = NoAp /\ wpaIe = FALSE /\ anonce = 0 /\ snonce = 0
  /\ ptk = [kck |-> NoKey, tk |-> NoKey] /\ ptkValid = FALSE
  /\ eapolState = "Idle" /\ inbox = NoFrame
  /\ gtk = NoAp /\ ccmp = FALSE /\ txPn = 1
  /\ supTk = NoKey /\ supGtk = NoAp
  /\ join = [pc |-> "idle", ssid |-> NoAp, bssid |-> NoAp]
  /\ rx = "idle"
  /\ work = [pc |-> "idle", frame |-> NoFrame]
  /\ wpakey = [pc |-> "idle", tk |-> NoKey, gtk |-> NoAp]
  /\ writer = [w \in Writers |-> [pc |-> "idle", pn |-> 0]]
  /\ up = <<>> /\ down = <<>>
  /\ ap = [a \in Aps |-> [assoc |-> "None", dropped |-> FALSE, hs |-> "None",
                          an |-> 0, key |-> NoKey]]
  /\ supplicant = [key |-> NoKey, installed |-> FALSE, todo |-> {}]
  /\ fresh = 1
  /\ sealed = <<>>
  /\ budget = [joins |-> MaxJoins, faults |-> MaxFaults, cross |-> MaxCross,
               stray |-> MaxStray, sealed |-> MaxSealed, rekeys |-> MaxRekeys]

-----------------------------------------------------------------------------
(* The ioctl that joins.                                                   *)

\* IOC_HAIKU_JOIN with a passphrase.  The BSSID may be left zero.
JoinPsk(a, bssid) ==
  /\ join.pc = "idle" /\ "psk" \in JoinModes /\ Spend("joins")
  /\ pmk' = a /\ wpaIe' = TRUE
  /\ ptkValid' = FALSE /\ eapolState' = "WaitM1"
  /\ joinSsid' = a /\ joinBssid' = bssid
  /\ join' = [pc |-> "lookup", ssid |-> a, bssid |-> bssid]
  /\ UNCHANGED <<joinState, mgrState, anonce, snonce, ptk, inbox, linkVars,
                 supVars, rx, work, wpakey, writer, airVars, sealed, fresh>>

\* IOC_SSID and IOC_BSSID, the calls that precede an open join.
SetTarget(a) ==
  /\ join.pc = "idle" /\ "legacy" \in JoinModes /\ Spend("joins")
  /\ joinSsid' = a /\ joinBssid' = a
  /\ join' = [join EXCEPT !.pc = "target"]
  /\ UNCHANGED <<joinState, mgrState, credVars, hsVars, inbox, linkVars, supVars,
                 rx, work, wpakey, writer, airVars, sealed, fresh>>

\* IOC_HAIKU_JOIN without data: join what IOC_SSID and IOC_BSSID named.
JoinLegacy ==
  /\ join.pc = "target" /\ joinSsid # NoAp
  /\ join' = [pc |-> "lookup", ssid |-> joinSsid, bssid |-> joinBssid]
  /\ UNCHANGED <<joinVars, credVars, hsVars, inbox, linkVars, supVars, rx, work,
                 wpakey, writer, airVars, sealed, countVars>>

\* IOC_MLME ASSOC, the supplicant's join; the request carries the target.
JoinMlme(a) ==
  /\ join.pc = "idle" /\ "mlme" \in JoinModes /\ Spend("joins")
  /\ join' = [pc |-> "lookup", ssid |-> a, bssid |-> a]
  /\ UNCHANGED <<joinVars, credVars, hsVars, inbox, linkVars, supVars, rx, work,
                 wpakey, writer, airVars, sealed, fresh>>

\* _DoJoin up to the channel switch: encryption off, a stuck attempt dropped,
\* a missing BSSID looked up in the scan results (or the join refused).
JoinLookup ==
  /\ join.pc = "lookup"
  /\ ccmp' = FALSE
  /\ joinState' = IF joinState \in {"Authenticating", "Associating"}
                  THEN "Idle" ELSE joinState
  /\ \/ /\ join.bssid # NoAp
        /\ join' = [join EXCEPT !.pc = "arm"]
     \/ /\ join.bssid = NoAp /\ join.ssid \in Listed
        /\ join' = [join EXCEPT !.pc = "arm", !.bssid = join.ssid]
     \/ /\ join.bssid = NoAp /\ join.ssid \notin Listed
        /\ join' = [join EXCEPT !.pc = "idle"]
  /\ UNCHANGED <<joinBssid, joinSsid, mgrState, credVars, hsVars, inbox, gtk, txPn,
                 supVars, rx, work, wpakey, writer, airVars, sealed, countVars>>

\* _DoJoin after the channel switch.
JoinArm ==
  /\ join.pc = "arm"
  /\ joinBssid' = join.bssid /\ joinSsid' = join.ssid
  /\ joinState' = "Authenticating"
  /\ join' = [join EXCEPT !.pc = "send"]
  /\ UNCHANGED <<mgrState, credVars, hsVars, inbox, linkVars, supVars, rx, work,
                 wpakey, writer, airVars, sealed, countVars>>

\* _SendAuthRequest; a failed transmission leaves the state Authenticating.
JoinSend ==
  /\ join.pc = "send"
  /\ join' = [join EXCEPT !.pc = "idle"]
  /\ \/ TransmitOk(Auth(joinBssid))
     \/ TransmitFails
  /\ UNCHANGED <<joinVars, credVars, hsVars, inbox, linkVars, supVars, rx, work,
                 wpakey, writer, down, ap, sealed, fresh>>

-----------------------------------------------------------------------------
(* The other ioctls and calls that touch the connection.                   *)

\* IOC_APPIE: the supplicant deposits or clears the RSN element.
SetWpaIe(present) ==
  /\ "mlme" \in JoinModes /\ wpaIe # present
  /\ wpaIe' = present
  /\ UNCHANGED <<joinVars, pmk, hsVars, inbox, linkVars, supVars, join, rx, work,
                 wpakey, writer, airVars, sealed, countVars>>

\* Mutation: no handshake is ever seen.
NoHandshake == FALSE

\* The in-driver handshake is under way.
HandshakeInFlight == pmk # NoAp /\ eapolState \in {"WaitM1", "WaitM3"}

\* IOC_MLME DEAUTH or DISASSOC, ignored while an in-driver handshake runs.
MlmeDeauth ==
  /\ joinState # "Idle" \/ mgrState # "Disconnected"
  /\ ~HandshakeInFlight
  /\ joinState' = "Idle" /\ mgrState' = "Disconnected"
  /\ UNCHANGED <<joinBssid, joinSsid, credVars, hsVars, inbox, linkVars, supVars,
                 join, rx, work, wpakey, writer, airVars, sealed, countVars>>

\* Close() on the way to ifconfig down: WiFiManager::Disconnect.  (What Close
\* does to the receive and transmit paths is modelled with those paths.)
CloseDisconnects ==
  /\ mgrState = "Connected"
  /\ mgrState' = "Disconnected"
  /\ UNCHANGED <<joinState, joinBssid, joinSsid, credVars, hsVars, inbox, linkVars,
                 supVars, join, rx, work, wpakey, writer, airVars, sealed, countVars>>

-----------------------------------------------------------------------------
(* The receive callback.  One frame at a time: the next transfer is parsed *)
(* only when the handler of the last one has returned.                     *)

Receive(t) == /\ rx = "idle" /\ down # <<>> /\ Head(down).t = t
              /\ down' = Tail(down)

\* Mutation: the destination address is not compared.
FromAnyoneAtOurAp(f) == f.ap = joinBssid

\* The checks every join handler makes before it believes a response.
FromOurAp(f) == f.ap = joinBssid /\ f.toUs

\* Mutation: a refusal is logged and the attempt left as it is.
RefusedIgnored == UNCHANGED joinState

\* A status code other than 0 ends the attempt.
Refused == joinState' = "Idle"

RxAuthResp ==
  /\ Receive("AuthResp")
  /\ LET f == Head(down)
         expected == joinState = "Authenticating" /\ FromOurAp(f)
     IN \/ ~expected /\ UNCHANGED <<joinState, rx>>
        \/ expected /\ ~f.ok /\ Refused /\ UNCHANGED rx
        \/ expected /\ f.ok /\ joinState' = "Associating" /\ rx' = "sendAssoc"
  /\ UNCHANGED <<joinBssid, joinSsid, mgrState, credVars, hsVars, inbox, linkVars,
                 supVars, join, work, wpakey, writer, up, ap, sealed, countVars>>

\* The rest of _HandleAuthResponse: _SendAssocRequest to whatever BSSID is
\* joined by now; a failed transmission (after up to two seconds) gives up.
RxSendAssoc ==
  /\ rx = "sendAssoc" /\ rx' = "idle"
  /\ \/ TransmitOk(AssocReq(joinBssid, wpaIe)) /\ UNCHANGED joinState
     \/ TransmitFails /\ joinState' = "Idle"
  /\ UNCHANGED <<joinBssid, joinSsid, mgrState, credVars, hsVars, inbox, linkVars,
                 supVars, join, work, wpakey, writer, down, ap, sealed, fresh>>

RxAssocResp ==
  /\ Receive("AssocResp")
  /\ LET f == Head(down)
         expected == joinState = "Associating" /\ FromOurAp(f)
     IN \/ ~expected /\ UNCHANGED <<joinState, mgrState>>
        \/ expected /\ ~f.ok /\ Refused /\ UNCHANGED mgrState
        \/ expected /\ f.ok /\ joinState' = "Connected" /\ mgrState' = "Connected"
  /\ UNCHANGED <<joinBssid, joinSsid, credVars, hsVars, inbox, linkVars, supVars,
                 join, rx, work, wpakey, writer, up, ap, sealed, countVars>>

\* An EAPOL frame when a PMK is held: into the one-slot inbox, over whatever
\* the worker has not taken yet.
RxEapol ==
  /\ Receive("M1") \/ Receive("M3")
  /\ pmk # NoAp
  /\ inbox' = IF FromOurAp(Head(down)) THEN Head(down) ELSE inbox
  /\ UNCHANGED <<joinVars, credVars, hsVars, linkVars, supVars, join, rx, work,
                 wpakey, writer, up, ap, sealed, countVars>>

-----------------------------------------------------------------------------
(* The EAPOL worker, _Eapol4WayLoop and _HandleEapolFrame.                 *)

WorkerOnly == UNCHANGED <<joinVars, credVars, supVars, join, rx, wpakey, writer,
                          down, ap, sealed>>

WorkTake ==
  /\ work.pc = "idle" /\ inbox # NoFrame
  /\ work' = [pc |-> "handle", frame |-> inbox]
  /\ inbox' = NoFrame
  /\ UNCHANGED <<hsVars, linkVars, up, countVars>> /\ WorkerOnly

\* Mutation: every M1 begins a handshake.
NeverSameAnonce == FALSE

\* A repeated M1: the PTK that answers it is held already.
SameAnonce == ptkValid /\ anonce = work.frame.n

\* M1: derive the PTK, unless the M1 is a repeated one.
HandleM1 ==
  /\ work.pc = "handle" /\ work.frame.t = "M1"
  /\ anonce' = work.frame.n
  /\ \/ /\ pmk = NoAp \/ SameAnonce
        /\ UNCHANGED <<snonce, ptk, ptkValid, fresh>>
     \/ /\ pmk # NoAp /\ ~SameAnonce
        /\ snonce' = fresh /\ fresh' = fresh + 1
        /\ LET k == Derive(pmk, work.frame.n, fresh)
           IN ptk' = [kck |-> k, tk |-> k]
        /\ ptkValid' = TRUE
  /\ work' = IF pmk # NoAp /\ wpaIe THEN [work EXCEPT !.pc = "sendM2"]
             ELSE [pc |-> "idle", frame |-> NoFrame]
  /\ UNCHANGED <<eapolState, inbox, linkVars, up, budget>> /\ WorkerOnly

\* Build M2 from the nonce and keys held now and send it.
SendM2 ==
  /\ work.pc = "sendM2"
  /\ \/ TransmitOk(M2(work.frame.ap, snonce, ptk.kck)) /\ eapolState' = "WaitM3"
     \/ TransmitFails /\ UNCHANGED eapolState
  /\ work' = [pc |-> "idle", frame |-> NoFrame]
  /\ UNCHANGED <<anonce, snonce, ptk, ptkValid, inbox, linkVars, fresh>>
  /\ WorkerOnly

\* M3: only in WaitM3, and only with a MIC the held PTK verifies; send M4.
HandleM3 ==
  /\ work.pc = "handle" /\ work.frame.t = "M3"
  /\ LET verified == /\ eapolState = "WaitM3" /\ ptkValid
                     /\ work.frame.key = ptk.kck
     IN \/ /\ verified
           /\ TransmitOk(M4(work.frame.ap, ptk.kck))
           /\ work' = [work EXCEPT !.pc = "install"]
        \/ /\ verified /\ TransmitFails
           /\ work' = [pc |-> "idle", frame |-> NoFrame]
        \/ /\ ~verified /\ UNCHANGED <<up, budget>>
           /\ work' = [pc |-> "idle", frame |-> NoFrame]
  /\ UNCHANGED <<hsVars, inbox, linkVars, fresh>> /\ WorkerOnly

\* Mutation: a failed installation returns with the handshake unfinished.
InstallFailedReturns == work' = [pc |-> "idle", frame |-> NoFrame]

\* The handshake is over even if the keys did not get installed.
InstallFailed == work' = [work EXCEPT !.pc = "finish"]

\* _InstallSessionKeys, register writes that may fail.  On success CCMP is
\* enabled first; the group key and the packet number follow in WorkCommit.
WorkInstall ==
  /\ work.pc = "install"
  /\ \/ /\ ccmp' = TRUE /\ UNCHANGED budget
        /\ work' = [work EXCEPT !.pc = "commit"]
     \/ /\ Spend("faults") /\ UNCHANGED ccmp
        /\ InstallFailed
  /\ UNCHANGED <<hsVars, inbox, gtk, txPn, up, fresh>> /\ WorkerOnly

WorkCommit ==
  /\ work.pc = "commit"
  /\ gtk' = work.frame.ap /\ txPn' = 1
  /\ work' = [work EXCEPT !.pc = "finish"]
  /\ UNCHANGED <<hsVars, inbox, ccmp, up, countVars>> /\ WorkerOnly

WorkFinish ==
  /\ work.pc = "finish"
  /\ eapolState' = "Done"
  /\ work' = [pc |-> "idle", frame |-> NoFrame]
  /\ UNCHANGED <<anonce, snonce, ptk, ptkValid, inbox, linkVars, up, countVars>>
  /\ WorkerOnly

-----------------------------------------------------------------------------
(* IOC_WPAKEY, the supplicant's key installation.                          *)

\* Mutation: once a connection is encrypted its keys are left alone.
BothHeldUnarmed(tk, group) == tk # NoKey /\ group # NoAp /\ ~ccmp

\* Mutation: the pairwise key is installed without waiting for the group key.
PairwiseHeld(tk, group) == tk # NoKey

BothHeld(tk, group) == tk # NoKey /\ group # NoAp

\* Store the key the call carries (under fLock).  The first of the two is
\* only held; with both at hand the call goes on with copies of them.
WpaKeyStore(kind) ==
  /\ wpakey.pc = "idle" /\ kind \in supplicant.todo
  /\ kind = "group" => "pairwise" \notin supplicant.todo
  /\ supplicant' = [supplicant EXCEPT !.todo = @ \ {kind}]
  /\ \/ /\ kind = "pairwise"
        /\ supTk' = supplicant.key /\ joinBssid' = supplicant.key[1]
        /\ UNCHANGED supGtk
     \/ /\ kind = "group"
        /\ supGtk' = supplicant.key[1]
        /\ UNCHANGED <<supTk, joinBssid>>
  /\ wpakey' = IF BothHeld(supTk', supGtk')
               THEN [pc |-> "install", tk |-> supTk', gtk |-> supGtk']
               ELSE wpakey
  /\ UNCHANGED <<joinState, joinSsid, mgrState, credVars, hsVars, inbox, linkVars,
                 join, rx, work, writer, airVars, sealed, countVars>>

WpaKeyInstall ==
  /\ wpakey.pc = "install"
  /\ \/ UNCHANGED budget /\ wpakey' = [wpakey EXCEPT !.pc = "arm"]
     \/ Spend("faults") /\ wpakey' = [wpakey EXCEPT !.pc = "idle"]
  /\ UNCHANGED <<joinVars, credVars, hsVars, inbox, linkVars, supVars, join, rx,
                 work, writer, airVars, sealed, fresh>>

\* Under fLock again: the TK, both keys valid, CCMP on, the PN from 1.
WpaKeyArm ==
  /\ wpakey.pc = "arm"
  /\ ptk' = [ptk EXCEPT !.tk = wpakey.tk] /\ ptkValid' = TRUE
  /\ gtk' = wpakey.gtk /\ ccmp' = TRUE /\ txPn' = 1
  /\ wpakey' = [wpakey EXCEPT !.pc = "idle"]
  /\ UNCHANGED <<joinVars, credVars, anonce, snonce, eapolState, inbox, supVars,
                 join, rx, work, writer, airVars, sealed, countVars>>

-----------------------------------------------------------------------------
(* Write(), for a frame that is to be encrypted.  (A frame that goes out   *)
(* in the clear changes nothing modelled here.)                            *)

WriterOnly == UNCHANGED <<joinVars, credVars, hsVars, inbox, gtk, ccmp, supVars,
                          join, rx, work, wpakey, airVars, fresh>>

WriteCheck(w) ==
  /\ writer[w].pc = "idle" /\ Spend("sealed")
  /\ joinState = "Connected" /\ ccmp
  /\ writer' = [writer EXCEPT ![w].pc = "load"]
  /\ UNCHANGED <<txPn, sealed>> /\ WriterOnly

\* uint64 pn = device->fTxPnPairwise++, a load and a store.
WriteLoadPn(w) ==
  /\ writer[w].pc = "load"
  /\ writer' = [writer EXCEPT ![w] = IF ptkValid
                  THEN [pc |-> "store", pn |-> txPn]
                  ELSE [@ EXCEPT !.pc = "idle"]]
  /\ UNCHANGED <<txPn, sealed, budget>> /\ WriterOnly

WriteStorePn(w) ==
  /\ writer[w].pc = "store"
  /\ txPn' = writer[w].pn + 1
  /\ writer' = [writer EXCEPT ![w].pc = "seal"]
  /\ UNCHANGED <<sealed, budget>> /\ WriterOnly

\* ccmp_encrypt reads the key where it lies, in fPtk.
WriteSeal(w) ==
  /\ writer[w].pc = "seal"
  /\ sealed' = Append(sealed, <<ptk.tk, writer[w].pn>>)
  /\ writer' = [writer EXCEPT ![w].pc = "idle"]
  /\ UNCHANGED <<txPn, budget>> /\ WriterOnly

-----------------------------------------------------------------------------
(* The environment: the supplicant, the access points and the air.         *)

DriverOnly == <<joinVars, credVars, hsVars, inbox, linkVars, supTk, supGtk, join,
                rx, work, wpakey, writer, sealed>>

\* The supplicant gets the EAPOL frames the driver does not divert, answers
\* them through Write() (which needs a connection), and after M4 installs the
\* pairwise key and then the group key.
SupplicantReceives ==
  /\ Receive("M1") \/ Receive("M3")
  /\ pmk = NoAp
  /\ LET f == Head(down)
         repeated == supplicant.key # NoKey /\ supplicant.key[1] = f.ap
                     /\ supplicant.key[2] = f.n
         k == IF repeated THEN supplicant.key ELSE Derive(f.ap, f.n, fresh)
     IN \/ /\ f.toUs /\ joinState = "Connected" /\ f.t = "M1"
           /\ supplicant' = IF repeated THEN supplicant
                            ELSE [key |-> k, installed |-> FALSE, todo |-> {}]
           /\ fresh' = IF repeated THEN fresh ELSE fresh + 1
           /\ TransmitOk(M2(f.ap, k[3], k))
        \/ /\ f.toUs /\ joinState = "Connected" /\ f.t = "M3"
           /\ supplicant.key = f.key
           /\ supplicant' = [supplicant EXCEPT !.installed = TRUE, !.todo =
                               IF supplicant.installed THEN @
                               ELSE {"pairwise", "group"}]
           /\ TransmitOk(M4(f.ap, f.key))
           /\ UNCHANGED fresh
        \/ /\ \/ ~f.toUs \/ joinState # "Connected"
              \/ f.t = "M3" /\ supplicant.key # f.key
           /\ UNCHANGED <<supplicant, fresh, up, budget>>
  /\ UNCHANGED <<joinVars, credVars, hsVars, inbox, linkVars, supTk, supGtk, join,
                 rx, work, wpakey, writer, sealed, ap>>

\* A group rekey: the access point hands the supplicant a new group key.
GroupRekey ==
  /\ supplicant.installed /\ supplicant.todo = {} /\ wpakey.pc = "idle"
  /\ Spend("rekeys")
  /\ supplicant' = [supplicant EXCEPT !.todo = {"group"}]
  /\ UNCHANGED <<DriverOnly, airVars, fresh>>

\* What an access point does with the next frame from us.
ApSends(frames) == down' = down \o frames

\* Authenticating again does not end an association.
ApAuth(f, ok) ==
  /\ f.t = "Auth" /\ UNCHANGED fresh
  /\ ap' = IF ok /\ ap[f.ap].assoc = "None"
           THEN [ap EXCEPT ![f.ap].assoc = "Auth"] ELSE ap
  /\ ApSends(<<AuthResp(f.ap, TRUE, ok)>>)

ApAssoc(f) ==
  /\ f.t = "AssocReq"
  /\ LET a == f.ap
         ok == ap[a].assoc # "None" /\ (a \in Secure => f.ok)
     IN \/ /\ ok /\ a \in Secure
           /\ ap' = [ap EXCEPT ![a] = [assoc |-> "Assoc", dropped |-> FALSE,
                       hs |-> "M1Sent", an |-> fresh, key |-> NoKey]]
           /\ fresh' = fresh + 1
           /\ ApSends(<<AssocResp(a, TRUE, TRUE), M1(a, TRUE, fresh)>>)
        \/ /\ ok /\ a \notin Secure
           /\ ap' = [ap EXCEPT ![a].assoc = "Assoc", ![a].dropped = FALSE]
           /\ ApSends(<<AssocResp(a, TRUE, TRUE)>>)
           /\ UNCHANGED fresh
        \/ /\ ~ok
           /\ ApSends(<<AssocResp(a, TRUE, FALSE)>>)
           /\ UNCHANGED <<ap, fresh>>

ApM2(f) ==
  /\ f.t = "M2" /\ UNCHANGED fresh
  /\ LET a == f.ap
         ok == ap[a].hs = "M1Sent" /\ f.key = Derive(a, ap[a].an, f.n)
     IN \/ /\ ok
           /\ ap' = [ap EXCEPT ![a].hs = "M3Sent", ![a].key = f.key]
           /\ ApSends(<<M3(a, f.key)>>)
        \/ ~ok /\ UNCHANGED <<ap, down>>

ApM4(f) ==
  /\ f.t = "M4" /\ UNCHANGED <<down, fresh>>
  /\ ap' = IF ap[f.ap].hs = "M3Sent" /\ f.key = ap[f.ap].key
           THEN [ap EXCEPT ![f.ap].hs = "Done"] ELSE ap

ApReceives ==
  /\ up # <<>> /\ up' = Tail(up)
  /\ \/ \E ok \in BOOLEAN : ApAuth(Head(up), ok)
     \/ ApAssoc(Head(up)) \/ ApM2(Head(up)) \/ ApM4(Head(up))
  /\ UNCHANGED <<DriverOnly, supplicant, budget>>

\* An access point repeats the handshake message that was not answered: when
\* nothing is under way, or (cross) while the answer is.
Quiet == /\ up = <<>> /\ down = <<>> /\ inbox = NoFrame
         /\ work.pc = "idle" /\ rx = "idle"

ApRepeats(a) ==
  /\ \/ ap[a].hs = "M1Sent" /\ ApSends(<<M1(a, TRUE, ap[a].an)>>)
     \/ ap[a].hs = "M3Sent" /\ ApSends(<<M3(a, ap[a].key)>>)
  /\ IF Quiet THEN UNCHANGED budget ELSE Spend("cross")
  /\ UNCHANGED <<DriverOnly, supplicant, up, ap, fresh>>

\* An access point drops us.  Its deauthentication frame is not modelled: the
\* receive callback only logs it.
ApDrops(a) ==
  /\ ap[a].assoc = "Assoc" /\ Spend("faults")
  /\ ap' = [ap EXCEPT ![a] = [@ EXCEPT !.assoc = "None", !.dropped = TRUE,
                                       !.hs = "None"]]
  /\ UNCHANGED <<DriverOnly, supplicant, up, down, fresh>>

\* The air loses a frame.
Lose ==
  /\ Spend("faults")
  /\ \/ up # <<>> /\ up' = Tail(up) /\ UNCHANGED down
     \/ down # <<>> /\ down' = Tail(down) /\ UNCHANGED up
  /\ UNCHANGED <<DriverOnly, supplicant, ap, fresh>>

\* RCR.AMF hands us the responses access points send to other stations too.
Overhear(a) ==
  /\ Spend("stray")
  /\ \/ ApSends(<<AuthResp(a, FALSE, TRUE)>>) /\ UNCHANGED fresh
     \/ ApSends(<<AssocResp(a, FALSE, TRUE)>>) /\ UNCHANGED fresh
     \/ ApSends(<<M1(a, FALSE, fresh)>>) /\ fresh' = fresh + 1
  /\ UNCHANGED <<DriverOnly, supplicant, up, ap>>

-----------------------------------------------------------------------------
Joins == \/ \E a \in Aps : JoinPsk(a, a) \/ JoinPsk(a, NoAp) \/ SetTarget(a) \/ JoinMlme(a)
         \/ \E b \in BOOLEAN : SetWpaIe(b)
         \/ MlmeDeauth \/ CloseDisconnects

JoinThread   == JoinLegacy \/ JoinLookup \/ JoinArm \/ JoinSend
RxThread     == RxAuthResp \/ RxSendAssoc \/ RxAssocResp \/ RxEapol
WorkThread   == \/ WorkTake \/ HandleM1 \/ SendM2 \/ HandleM3
                \/ WorkInstall \/ WorkCommit \/ WorkFinish
WpaKeyThread == \/ \E kind \in {"pairwise", "group"} : WpaKeyStore(kind)
                \/ WpaKeyInstall \/ WpaKeyArm
WriteThread  == \E w \in Writers : \/ WriteCheck(w) \/ WriteLoadPn(w)
                                   \/ WriteStorePn(w) \/ WriteSeal(w)
AccessPoints == ApReceives \/ \E a \in Aps : ApRepeats(a)
Hazards      == Lose \/ GroupRekey \/ \E a \in Aps : ApDrops(a) \/ Overhear(a)

Next == \/ Joins \/ JoinThread \/ RxThread \/ WorkThread \/ WpaKeyThread
        \/ WriteThread \/ SupplicantReceives \/ AccessPoints \/ Hazards

Spec == Init /\ [][Next]_vars

\* Threads of the driver that are scheduled run on, the supplicant answers,
\* and an access point answers and repeats.  Nothing obliges anybody to join,
\* to write, or the air to misbehave.
Fairness == /\ WF_vars(JoinThread) /\ WF_vars(RxThread) /\ WF_vars(WorkThread)
            /\ WF_vars(WpaKeyThread) /\ WF_vars(SupplicantReceives)
            /\ WF_vars(ApReceives) /\ \A a \in Aps : WF_vars(ApRepeats(a))

FairSpec == Spec /\ Fairness

-----------------------------------------------------------------------------
(* Properties.                                                             *)

\* Once a join has settled, Connected means what the log line "ASSOCIATED to"
\* says: the access point whose BSSID the driver writes into every frame
\* accepted this station (it may have dropped it since).  _HandleAuthResponse
\* explains the failure: responses meant for other stations, a stale attempt.
\* The exception is a join the driver refused because no scan result bears its
\* name: it leaves the old association, and a BSSID of zero.
AssociationMutual ==
  joinState = "Connected" /\ join.pc = "idle" =>
    \/ joinBssid = NoAp /\ joinSsid \notin Listed
    \/ /\ joinBssid \in Aps
       /\ ap[joinBssid].assoc = "Assoc" \/ ap[joinBssid].dropped

\* While the driver waits for M3 of the handshake the access point is in, it
\* holds the PTK that M3 is made with, however often M1 was repeated and
\* however M1 and M2 crossed: the comment on sameAnonce in _HandleEapolFrame.
M3Verifies ==
  LET a == joinBssid IN
  (/\ join.pc = "idle" /\ joinState = "Connected" /\ pmk = a /\ ptkValid
   /\ work.pc = "idle" /\ eapolState = "WaitM3"
   /\ a \in Aps /\ ap[a].hs = "M3Sent" /\ ap[a].an = anonce)
     => ptk.kck = ap[a].key

\* When the access point has seen M4 and the worker is through with M3, the
\* session works: both sides hold the same TK and, unless the installation
\* failed, CCMP is on and the group key is this network's.
SessionKeysAgree ==
  LET a == joinBssid IN
  (/\ join.pc = "idle" /\ joinState = "Connected" /\ pmk = a /\ a \in Aps
   /\ ap[a].assoc = "Assoc" /\ ap[a].hs = "Done" /\ work.pc = "idle")
     => /\ eapolState = "Done" /\ ptk.tk = ap[a].key
        /\ budget.faults = MaxFaults => ccmp /\ gtk = a

\* The same for a supplicant's handshake: the IOC_WPAKEY calls, a held half
\* from an earlier session included, end with the driver on the keys of this one.
SupplicantKeysAgree ==
  LET a == joinBssid IN
  (/\ join.pc = "idle" /\ joinState = "Connected" /\ a \in Aps
   /\ ap[a].hs = "Done" /\ supplicant.key = ap[a].key
   /\ supplicant.installed /\ supplicant.todo = {} /\ wpakey.pc = "idle"
   /\ budget.faults = MaxFaults)
     => ccmp /\ ptkValid /\ ptk.tk = ap[a].key /\ gtk = a

\* Within one session of one supplicant and one writer no packet number is used
\* twice under a key: holding the first of the two keys until the second comes
\* makes one installation, and one restart of the number, of the two calls.
\* (A second installation repeats numbers: README, disagreements.)
PnUniqueInSession ==
  budget.joins + 1 >= MaxJoins /\ budget.rekeys = MaxRekeys
    => \A i, j \in DOMAIN sealed : i # j => sealed[i] # sealed[j]

\* Once associated with a secure network, with the worker through with any
\* earlier handshake, the in-driver handshake completes on the access point's
\* keys: lost frames, failed transmissions, repeated and crossing messages
\* delay it, a net_server that deauthenticates does not stop it; only the
\* access point, or another join, does.
HandshakeCompletes ==
  \A a \in Secure :
    (/\ joinState = "Connected" /\ joinBssid = a /\ pmk = a
     /\ eapolState = "WaitM1" /\ work.pc = "idle")
      ~> \/ joinState = "Connected" /\ eapolState = "Done" /\ ptk.tk = ap[a].key
         \/ ap[a].dropped \/ join.pc # "idle"

\* A join attempt settles as long as nothing was lost and no transmission
\* failed (there is no authentication timeout), attempts that overtake each
\* other and responses to the earlier one included.
JoinSettles ==
  joinState \in {"Authenticating", "Associating"}
    ~> joinState \in {"Idle", "Connected"} \/ budget.faults < MaxFaults
=============================================================================
