---------------------------- MODULE StationProofs ----------------------------
(* Theorems about Station, for any number of access points, writers, joins   *)
(* and faults.                                                               *)
EXTENDS Station, SequenceTheorems, TLAPS

-----------------------------------------------------------------------------
(* Queues of frames, by what is in them and in which order.                  *)

Elems(s) == {s[i] : i \in DOMAIN s}

\* Somewhere in s, f comes ahead of g.
Ahead(s, f, g) == \E i, j \in DOMAIN s : i < j /\ s[i] = f /\ s[j] = g

\* The first frame of a queue, and the rest of it.
LEMMA TakeFirst ==
  ASSUME NEW S, NEW s \in Seq(S), s # <<>>
  PROVE  /\ Head(s) \in S /\ Head(s) \in Elems(s)
         /\ Tail(s) \in Seq(S)
         /\ Elems(Tail(s)) \subseteq Elems(s)
         /\ \A g \in Elems(Tail(s)) : Ahead(s, Head(s), g)
         /\ \A f, g : Ahead(Tail(s), f, g) => Ahead(s, f, g)
<1>1. Len(s) \in Nat /\ Len(s) > 0 /\ DOMAIN s = 1 .. Len(s)
  BY EmptySeq, LenProperties
<1>2. Head(s) = s[1] /\ Tail(s) \in Seq(S) /\ Len(Tail(s)) = Len(s) - 1
      /\ DOMAIN Tail(s) = 1 .. (Len(s) - 1)
      /\ \A i \in 1 .. (Len(s) - 1) : Tail(s)[i] = s[i + 1]
  BY HeadTailProperties, LenProperties
<1>3. ASSUME NEW i \in DOMAIN Tail(s)
      PROVE  i + 1 \in DOMAIN s /\ 1 \in DOMAIN s /\ 1 < i + 1 /\ Tail(s)[i] = s[i + 1]
  BY <1>1, <1>2
<1>4. Head(s) \in S /\ Head(s) \in Elems(s)
  BY <1>1, <1>2 DEF Elems
<1>5. Elems(Tail(s)) \subseteq Elems(s)
  BY <1>3 DEF Elems
<1>6. \A g \in Elems(Tail(s)) : Ahead(s, Head(s), g)
  <2> TAKE g \in Elems(Tail(s))
  <2>1. PICK i \in DOMAIN Tail(s) : Tail(s)[i] = g
    BY DEF Elems
  <2> QED
    BY <1>2, <1>3, <2>1 DEF Ahead
<1>7. ASSUME NEW f, NEW g, Ahead(Tail(s), f, g) PROVE Ahead(s, f, g)
  <2>1. PICK i, j \in DOMAIN Tail(s) : i < j /\ Tail(s)[i] = f /\ Tail(s)[j] = g
    BY <1>7 DEF Ahead
  <2>2. i + 1 < j + 1
    BY <1>2, <2>1
  <2> QED
    BY <1>3, <2>1, <2>2 DEF Ahead
<1> QED
  BY <1>2, <1>4, <1>5, <1>6, <1>7

\* A frame put at the end of a queue.
LEMMA PutLast ==
  ASSUME NEW S, NEW s \in Seq(S), NEW e \in S
  PROVE  /\ s \o <<e>> \in Seq(S) /\ Append(s, e) = s \o <<e>>
         /\ Elems(s \o <<e>>) = Elems(s) \cup {e}
         /\ \A f, g : Ahead(s \o <<e>>, f, g)
                        <=> Ahead(s, f, g) \/ (f \in Elems(s) /\ g = e)
<1>1. Len(s) \in Nat /\ DOMAIN s = 1 .. Len(s)
  BY LenProperties
<1>2. <<e>> \in Seq(S) /\ Len(<<e>>) = 1 /\ <<e>>[1] = e
  OBVIOUS
<1>3. s \o <<e>> \in Seq(S) /\ Len(s \o <<e>>) = Len(s) + 1
      /\ \A i \in 1 .. (Len(s) + 1) : (s \o <<e>>)[i] = IF i <= Len(s) THEN s[i]
                                                       ELSE <<e>>[i - Len(s)]
  BY <1>1, <1>2, ConcatProperties
<1>4. DOMAIN (s \o <<e>>) = 1 .. (Len(s) + 1)
  BY <1>3, LenProperties
<1>5. (s \o <<e>>)[Len(s) + 1] = e /\ \A i \in DOMAIN s : (s \o <<e>>)[i] = s[i]
  BY <1>1, <1>2, <1>3
<1>6. DOMAIN (s \o <<e>>) = DOMAIN s \cup {Len(s) + 1}
      /\ \A i \in DOMAIN s : i < Len(s) + 1
  BY <1>1, <1>4
<1>7. Append(s, e) = s \o <<e>>
  OBVIOUS
<1>8. Elems(s \o <<e>>) = Elems(s) \cup {e}
  BY <1>5, <1>6 DEF Elems
<1>9. ASSUME NEW f, NEW g, Ahead(s \o <<e>>, f, g)
      PROVE  Ahead(s, f, g) \/ (f \in Elems(s) /\ g = e)
  <2>1. PICK i, j \in DOMAIN (s \o <<e>>) :
          i < j /\ (s \o <<e>>)[i] = f /\ (s \o <<e>>)[j] = g
    BY <1>9 DEF Ahead
  <2>2. i \in DOMAIN s
    BY <1>1, <1>4, <2>1
  <2>3. CASE j \in DOMAIN s
    BY <1>5, <2>1, <2>2, <2>3 DEF Ahead
  <2>4. CASE j = Len(s) + 1
    BY <1>5, <2>1, <2>2, <2>4 DEF Elems
  <2> QED
    BY <1>6, <2>3, <2>4
<1>10. ASSUME NEW f, NEW g, Ahead(s, f, g) PROVE Ahead(s \o <<e>>, f, g)
  BY <1>5, <1>6, <1>10 DEF Ahead
<1>11. ASSUME NEW f \in Elems(s) PROVE Ahead(s \o <<e>>, f, e)
  BY <1>5, <1>6, <1>11 DEF Ahead, Elems
<1> QED
  BY <1>3, <1>7, <1>8, <1>9, <1>10, <1>11

\* Two frames put at the end of a queue.
LEMMA PutTwo ==
  ASSUME NEW S, NEW s \in Seq(S), NEW d \in S, NEW e \in S
  PROVE  /\ s \o <<d, e>> \in Seq(S)
         /\ Elems(s \o <<d, e>>) = Elems(s) \cup {d, e}
         /\ \A f, g : Ahead(s \o <<d, e>>, f, g)
                        <=> \/ Ahead(s, f, g)
                            \/ f \in Elems(s) /\ g \in {d, e}
                            \/ f = d /\ g = e
<1>1. /\ s \o <<d>> \in Seq(S)
      /\ Elems(s \o <<d>>) = Elems(s) \cup {d}
      /\ \A f, g : Ahead(s \o <<d>>, f, g)
                     <=> Ahead(s, f, g) \/ (f \in Elems(s) /\ g = d)
  BY PutLast
<1>2. ASSUME NEW q \in Seq(S)
      PROVE  /\ q \o <<e>> \in Seq(S)
             /\ Elems(q \o <<e>>) = Elems(q) \cup {e}
             /\ \A f, g : Ahead(q \o <<e>>, f, g)
                            <=> Ahead(q, f, g) \/ (f \in Elems(q) /\ g = e)
  BY <1>2, PutLast
<1>3. <<d>> \in Seq(S)
  OBVIOUS
<1>6. <<e>> \in Seq(S)
  OBVIOUS
<1>5. <<d>> \o <<e>> = <<d, e>>
  <2>1. Len(<<d>>) = 1 /\ Len(<<e>>) = 1 /\ <<d>>[1] = d /\ <<e>>[1] = e
    OBVIOUS
  <2>2. <<d>> \o <<e>> \in Seq(S) /\ Len(<<d>> \o <<e>>) = 2
        /\ (<<d>> \o <<e>>)[1] = d /\ (<<d>> \o <<e>>)[2] = e
    BY <1>3, <1>6, <2>1, ConcatProperties
  <2>3. <<d, e>> \in Seq(S)
    OBVIOUS
  <2>4. Len(<<d, e>>) = 2 /\ <<d, e>>[1] = d /\ <<d, e>>[2] = e
    OBVIOUS
  <2>5. \A i \in 1 .. 2 : (<<d>> \o <<e>>)[i] = <<d, e>>[i]
    BY <2>2, <2>4
  <2> QED
    BY <2>2, <2>3, <2>4, <2>5, SeqEqual
<1>4. (s \o <<d>>) \o <<e>> = s \o (<<d>> \o <<e>>)
  BY <1>3, <1>6, ConcatAssociative
<1>7. (s \o <<d>>) \o <<e>> = s \o <<d, e>>
  BY <1>4, <1>5
<1>8. PICK q \in Seq(S) : q = s \o <<d>>
  BY <1>1
<1>9. q \o <<e>> = s \o <<d, e>>
  BY <1>7, <1>8
<1>10. /\ q \o <<e>> \in Seq(S)
       /\ Elems(q \o <<e>>) = Elems(q) \cup {e}
       /\ \A f, g : Ahead(q \o <<e>>, f, g)
                      <=> Ahead(q, f, g) \/ (f \in Elems(q) /\ g = e)
  BY <1>2
<1>11. /\ Elems(q) = Elems(s) \cup {d}
       /\ \A f, g : Ahead(q, f, g) <=> Ahead(s, f, g) \/ (f \in Elems(s) /\ g = d)
  BY <1>1, <1>8
<1>12. Elems(s \o <<d, e>>) = Elems(s) \cup {d, e}
  BY <1>9, <1>10, <1>11
<1>13. \A f, g : Ahead(s \o <<d, e>>, f, g) <=> Ahead(q \o <<e>>, f, g)
  BY <1>9
<1> QED
  BY <1>9, <1>10, <1>11, <1>12, <1>13

-----------------------------------------------------------------------------
(* Types.                                                                  *)

\* Which frames the worker and its inbox hold, and what is a key already.
Shapes ==
  /\ work.pc = "idle" <=> work.frame = NoFrame
  /\ inbox # NoFrame => inbox.t \in {"M1", "M3"}
  /\ work.pc = "sendM2" => work.frame.t = "M1"
  /\ work.pc \in {"install", "commit", "finish"} => work.frame.t = "M3"
  /\ work.pc = "handle" => work.frame.t \in {"M1", "M3"}
  /\ supplicant.installed \/ supplicant.todo # {} => supplicant.key # NoKey
  /\ \A f \in Elems(down) : f.t = "M3" => f.key # NoKey
  /\ \A a \in Aps : ap[a].hs \in {"M3Sent", "Done"} => ap[a].key # NoKey
  /\ budget.faults <= MaxFaults

\* TypeOK in four parts.
JoinTypes ==
  /\ joinState \in JoinStates /\ joinBssid \in AnyAp /\ joinSsid \in AnyAp
  /\ mgrState \in {"Disconnected", "Connected"}
  /\ join \in [pc : {"idle", "target", "lookup", "arm", "send"}, ssid : AnyAp,
               bssid : AnyAp]

LinkTypes ==
  /\ pmk \in AnyAp /\ wpaIe \in BOOLEAN /\ anonce \in Nat /\ snonce \in Nat
  /\ ptk \in [kck : AnyKey, tk : AnyKey] /\ ptkValid \in BOOLEAN
  /\ eapolState \in EapolStates
  /\ gtk \in AnyAp /\ ccmp \in BOOLEAN /\ txPn \in Nat
  /\ supTk \in AnyKey /\ supGtk \in AnyAp

ThreadTypes ==
  /\ rx \in {"idle", "sendAssoc"} /\ inbox \in Frame \cup {NoFrame}
  /\ work \in [pc : {"idle", "handle", "sendM2", "install", "commit", "finish"},
               frame : Frame \cup {NoFrame}]
  /\ wpakey \in [pc : {"idle", "install", "arm"}, tk : AnyKey, gtk : AnyAp]
  /\ writer \in [Writers -> [pc : {"idle", "load", "store", "seal"}, pn : Nat]]

AirTypes ==
  /\ up \in Seq(Frame) /\ down \in Seq(Frame)
  /\ ap \in [Aps -> [assoc : {"None", "Auth", "Assoc"}, dropped : BOOLEAN,
                     hs : {"None", "M1Sent", "M3Sent", "Done"},
                     an : Nat, key : AnyKey]]
  /\ supplicant \in [key : AnyKey, installed : BOOLEAN,
                     todo : SUBSET {"pairwise", "group"}]
  /\ fresh \in Nat
  /\ sealed \in Seq(AnyKey \X Nat)
  /\ budget \in [{"joins", "faults", "cross", "stray", "sealed", "rekeys"} -> Nat]

TypeInv == JoinTypes /\ LinkTypes /\ ThreadTypes /\ AirTypes /\ Shapes

\* The parts of the invariant are the types, and more.
LEMMA TypeParts == TypeInv => TypeOK
BY DEF TypeInv, TypeOK, JoinTypes, LinkTypes, ThreadTypes, AirTypes

\* The frames of the protocol are frames.
LEMMA FrameKinds ==
  ASSUME NEW a \in Aps, NEW us \in BOOLEAN, NEW ok \in BOOLEAN, NEW n \in Nat,
         NEW key \in AnyKey
  PROVE  /\ Auth(a) \in Frame /\ AssocReq(a, ok) \in Frame
         /\ M2(a, n, key) \in Frame /\ M4(a, key) \in Frame
         /\ AuthResp(a, us, ok) \in Frame /\ AssocResp(a, us, ok) \in Frame
         /\ M1(a, us, n) \in Frame /\ M3(a, key) \in Frame
         /\ M3(a, key).t = "M3" /\ M3(a, key).key = key
         /\ M1(a, us, n).t # "M3" /\ AuthResp(a, us, ok).t # "M3"
         /\ AssocResp(a, us, ok).t # "M3"
<1>1. NoKey \in AnyKey
  BY DEF AnyKey
<1> QED
  BY <1>1 DEF Frame, Msg, Auth, AssocReq, M2, M4, AuthResp, AssocResp, M1, M3

\* Spending leaves a budget.
LEMMA SpendType ==
  ASSUME TypeInv, NEW what \in {"joins", "faults", "cross", "stray", "sealed", "rekeys"},
         Spend(what)
  PROVE  /\ budget'.faults <= MaxFaults
         /\ budget' \in [{"joins", "faults", "cross", "stray", "sealed", "rekeys"} -> Nat]
<1>1. budget' = [budget EXCEPT ![what] = budget[what] - 1] /\ budget[what] > 0
  BY DEF Spend
<1>2. budget[what] \in Nat /\ budget[what] - 1 \in Nat /\ budget["faults"] \in Nat
      /\ budget["faults"] <= MaxFaults
  BY <1>1 DEF TypeInv, AirTypes, Shapes
<1>3. budget'["faults"] \in {budget["faults"], budget["faults"] - 1}
  BY <1>1 DEF TypeInv, AirTypes
<1> QED
  BY <1>1, <1>2, <1>3, StationAssumption DEF TypeInv, AirTypes

\* Transmitting keeps the queue to the access points and the budget typed.
LEMMA TransmitType ==
  ASSUME TypeInv, NEW f, f.ap # NoAp => f \in Frame,
         TransmitOk(f) \/ TransmitFails
  PROVE  /\ up' \in Seq(Frame)
         /\ budget'.faults <= MaxFaults /\ budget'.faults <= budget.faults
         /\ budget' \in [{"joins", "faults", "cross", "stray", "sealed", "rekeys"} -> Nat]
<1>1. /\ up \in Seq(Frame) /\ budget.faults <= MaxFaults /\ budget.faults \in Nat
      /\ budget \in [{"joins", "faults", "cross", "stray", "sealed", "rekeys"} -> Nat]
  BY DEF TypeInv, AirTypes, Shapes
<1>2. CASE TransmitOk(f)
  <2>1. f.ap # NoAp => up \o <<f>> \in Seq(Frame) /\ Append(up, f) = up \o <<f>>
    BY <1>1, PutLast
  <2> QED
    BY <1>1, <1>2, <2>1 DEF TransmitOk
<1>3. CASE TransmitFails
  <2>1. up' = up /\ Spend("faults")
    BY <1>3 DEF TransmitFails
  <2>2. budget'.faults = budget.faults - 1
    BY <1>1, <2>1 DEF Spend
  <2> QED
    BY <1>1, <2>1, <2>2, SpendType
<1> QED
  BY <1>2, <1>3

\* The initial state.
LEMMA InitType == Init => TypeInv
<1> SUFFICES ASSUME Init PROVE TypeInv
  OBVIOUS
<1>1. NoAp \in AnyAp /\ NoKey \in AnyKey
  BY DEF AnyAp, AnyKey
<1>2. ap \in [Aps -> [assoc : {"None", "Auth", "Assoc"}, dropped : BOOLEAN,
                     hs : {"None", "M1Sent", "M3Sent", "Done"},
                     an : Nat, key : AnyKey]]
  BY <1>1 DEF Init
<1>3. budget \in [{"joins", "faults", "cross", "stray", "sealed", "rekeys"} -> Nat]
  BY StationAssumption DEF Init
<1>4. writer \in [Writers -> [pc : {"idle", "load", "store", "seal"}, pn : Nat]]
  BY DEF Init
<1>5. /\ join \in [pc : {"idle", "target", "lookup", "arm", "send"}, ssid : AnyAp,
                   bssid : AnyAp]
      /\ wpakey \in [pc : {"idle", "install", "arm"}, tk : AnyKey, gtk : AnyAp]
      /\ ptk \in [kck : AnyKey, tk : AnyKey]
      /\ work \in [pc : {"idle", "handle", "sendM2", "install", "commit", "finish"},
                   frame : Frame \cup {NoFrame}]
      /\ supplicant \in [key : AnyKey, installed : BOOLEAN,
                         todo : SUBSET {"pairwise", "group"}]
  BY <1>1 DEF Init
<1>6. up \in Seq(Frame) /\ down \in Seq(Frame) /\ sealed \in Seq(AnyKey \X Nat)
  BY EmptySeq DEF Init
<1>7. JoinTypes /\ LinkTypes /\ ThreadTypes /\ AirTypes
  BY <1>1, <1>2, <1>3, <1>4, <1>5, <1>6
     DEF Init, JoinTypes, LinkTypes, ThreadTypes, AirTypes, JoinStates, EapolStates
<1>8. Shapes
  BY StationAssumption DEF Init, Shapes, Elems
<1> QED
  BY <1>7, <1>8 DEF TypeInv

\* The ioctls that join, and the calls that end a connection.
LEMMA JoinsType == TypeInv /\ (Joins \/ JoinThread) => TypeInv'
<1> SUFFICES ASSUME TypeInv, Joins \/ JoinThread PROVE TypeInv'
  OBVIOUS
<1> USE StationAssumption DEF AnyAp, JoinStates, EapolStates
<1>1. ASSUME NEW a \in Aps, NEW b \in AnyAp, JoinPsk(a, b) PROVE TypeInv'
  <2>1. JoinTypes'
    BY <1>1 DEF TypeInv, JoinTypes, JoinPsk,
           joinVars, credVars, hsVars, linkVars, supVars, airVars, countVars
  <2>2. LinkTypes'
    BY <1>1 DEF TypeInv, LinkTypes, JoinPsk,
           joinVars, credVars, hsVars, linkVars, supVars, airVars, countVars
  <2>3. ThreadTypes'
    BY <1>1 DEF TypeInv, ThreadTypes, JoinPsk,
           joinVars, credVars, hsVars, linkVars, supVars, airVars, countVars
  <2>4. AirTypes'
    BY <1>1, SpendType DEF TypeInv, AirTypes, JoinPsk,
           joinVars, credVars, hsVars, linkVars, supVars, airVars, countVars
  <2>5. Shapes'
    BY <1>1, SpendType DEF TypeInv, Shapes, JoinPsk,
           joinVars, credVars, hsVars, linkVars, supVars, airVars, countVars
  <2> QED
    BY <2>1, <2>2, <2>3, <2>4, <2>5 DEF TypeInv
<1>2. ASSUME NEW a \in Aps, SetTarget(a) PROVE TypeInv'
  <2>1. JoinTypes'
    BY <1>2 DEF TypeInv, JoinTypes, SetTarget,
           joinVars, credVars, hsVars, linkVars, supVars, airVars, countVars
  <2>2. LinkTypes'
    BY <1>2 DEF TypeInv, LinkTypes, SetTarget,
           joinVars, credVars, hsVars, linkVars, supVars, airVars, countVars
  <2>3. ThreadTypes'
    BY <1>2 DEF TypeInv, ThreadTypes, SetTarget,
           joinVars, credVars, hsVars, linkVars, supVars, airVars, countVars
  <2>4. AirTypes'
    BY <1>2, SpendType DEF TypeInv, AirTypes, SetTarget,
           joinVars, credVars, hsVars, linkVars, supVars, airVars, countVars
  <2>5. Shapes'
    BY <1>2, SpendType DEF TypeInv, Shapes, SetTarget,
           joinVars, credVars, hsVars, linkVars, supVars, airVars, countVars
  <2> QED
    BY <2>1, <2>2, <2>3, <2>4, <2>5 DEF TypeInv
<1>3. ASSUME NEW a \in Aps, JoinMlme(a) PROVE TypeInv'
  <2>1. JoinTypes'
    BY <1>3 DEF TypeInv, JoinTypes, JoinMlme,
           joinVars, credVars, hsVars, linkVars, supVars, airVars, countVars
  <2>2. LinkTypes'
    BY <1>3 DEF TypeInv, LinkTypes, JoinMlme,
           joinVars, credVars, hsVars, linkVars, supVars, airVars, countVars
  <2>3. ThreadTypes'
    BY <1>3 DEF TypeInv, ThreadTypes, JoinMlme,
           joinVars, credVars, hsVars, linkVars, supVars, airVars, countVars
  <2>4. AirTypes'
    BY <1>3, SpendType DEF TypeInv, AirTypes, JoinMlme,
           joinVars, credVars, hsVars, linkVars, supVars, airVars, countVars
  <2>5. Shapes'
    BY <1>3, SpendType DEF TypeInv, Shapes, JoinMlme,
           joinVars, credVars, hsVars, linkVars, supVars, airVars, countVars
  <2> QED
    BY <2>1, <2>2, <2>3, <2>4, <2>5 DEF TypeInv
<1>4. ASSUME NEW b \in BOOLEAN, SetWpaIe(b) PROVE TypeInv'
  <2>1. JoinTypes'
    BY <1>4 DEF TypeInv, JoinTypes, SetWpaIe,
           joinVars, credVars, hsVars, linkVars, supVars, airVars, countVars
  <2>2. LinkTypes'
    BY <1>4 DEF TypeInv, LinkTypes, SetWpaIe,
           joinVars, credVars, hsVars, linkVars, supVars, airVars, countVars
  <2>3. ThreadTypes'
    BY <1>4 DEF TypeInv, ThreadTypes, SetWpaIe,
           joinVars, credVars, hsVars, linkVars, supVars, airVars, countVars
  <2>4. AirTypes'
    BY <1>4 DEF TypeInv, AirTypes, SetWpaIe,
           joinVars, credVars, hsVars, linkVars, supVars, airVars, countVars
  <2>5. Shapes'
    BY <1>4 DEF TypeInv, Shapes, SetWpaIe,
           joinVars, credVars, hsVars, linkVars, supVars, airVars, countVars
  <2> QED
    BY <2>1, <2>2, <2>3, <2>4, <2>5 DEF TypeInv
<1>5. ASSUME MlmeDeauth PROVE TypeInv'
  <2>1. JoinTypes'
    BY <1>5 DEF TypeInv, JoinTypes, MlmeDeauth,
           joinVars, credVars, hsVars, linkVars, supVars, airVars, countVars
  <2>2. LinkTypes'
    BY <1>5 DEF TypeInv, LinkTypes, MlmeDeauth,
           joinVars, credVars, hsVars, linkVars, supVars, airVars, countVars
  <2>3. ThreadTypes'
    BY <1>5 DEF TypeInv, ThreadTypes, MlmeDeauth,
           joinVars, credVars, hsVars, linkVars, supVars, airVars, countVars
  <2>4. AirTypes'
    BY <1>5 DEF TypeInv, AirTypes, MlmeDeauth,
           joinVars, credVars, hsVars, linkVars, supVars, airVars, countVars
  <2>5. Shapes'
    BY <1>5 DEF TypeInv, Shapes, MlmeDeauth,
           joinVars, credVars, hsVars, linkVars, supVars, airVars, countVars
  <2> QED
    BY <2>1, <2>2, <2>3, <2>4, <2>5 DEF TypeInv
<1>6. ASSUME CloseDisconnects PROVE TypeInv'
  <2>1. JoinTypes'
    BY <1>6 DEF TypeInv, JoinTypes, CloseDisconnects,
           joinVars, credVars, hsVars, linkVars, supVars, airVars, countVars
  <2>2. LinkTypes'
    BY <1>6 DEF TypeInv, LinkTypes, CloseDisconnects,
           joinVars, credVars, hsVars, linkVars, supVars, airVars, countVars
  <2>3. ThreadTypes'
    BY <1>6 DEF TypeInv, ThreadTypes, CloseDisconnects,
           joinVars, credVars, hsVars, linkVars, supVars, airVars, countVars
  <2>4. AirTypes'
    BY <1>6 DEF TypeInv, AirTypes, CloseDisconnects,
           joinVars, credVars, hsVars, linkVars, supVars, airVars, countVars
  <2>5. Shapes'
    BY <1>6 DEF TypeInv, Shapes, CloseDisconnects,
           joinVars, credVars, hsVars, linkVars, supVars, airVars, countVars
  <2> QED
    BY <2>1, <2>2, <2>3, <2>4, <2>5 DEF TypeInv
<1>7. ASSUME JoinLegacy PROVE TypeInv'
  <2>1. JoinTypes'
    BY <1>7 DEF TypeInv, JoinTypes, JoinLegacy,
           joinVars, credVars, hsVars, linkVars, supVars, airVars, countVars
  <2>2. LinkTypes'
    BY <1>7 DEF TypeInv, LinkTypes, JoinLegacy,
           joinVars, credVars, hsVars, linkVars, supVars, airVars, countVars
  <2>3. ThreadTypes'
    BY <1>7 DEF TypeInv, ThreadTypes, JoinLegacy,
           joinVars, credVars, hsVars, linkVars, supVars, airVars, countVars
  <2>4. AirTypes'
    BY <1>7 DEF TypeInv, AirTypes, JoinLegacy,
           joinVars, credVars, hsVars, linkVars, supVars, airVars, countVars
  <2>5. Shapes'
    BY <1>7 DEF TypeInv, Shapes, JoinLegacy,
           joinVars, credVars, hsVars, linkVars, supVars, airVars, countVars
  <2> QED
    BY <2>1, <2>2, <2>3, <2>4, <2>5 DEF TypeInv
<1>8. ASSUME JoinLookup PROVE TypeInv'
  <2>1. JoinTypes'
    BY <1>8 DEF TypeInv, JoinTypes, JoinLookup,
           joinVars, credVars, hsVars, linkVars, supVars, airVars, countVars
  <2>2. LinkTypes'
    BY <1>8 DEF TypeInv, LinkTypes, JoinLookup,
           joinVars, credVars, hsVars, linkVars, supVars, airVars, countVars
  <2>3. ThreadTypes'
    BY <1>8 DEF TypeInv, ThreadTypes, JoinLookup,
           joinVars, credVars, hsVars, linkVars, supVars, airVars, countVars
  <2>4. AirTypes'
    BY <1>8 DEF TypeInv, AirTypes, JoinLookup,
           joinVars, credVars, hsVars, linkVars, supVars, airVars, countVars
  <2>5. Shapes'
    BY <1>8 DEF TypeInv, Shapes, JoinLookup,
           joinVars, credVars, hsVars, linkVars, supVars, airVars, countVars
  <2> QED
    BY <2>1, <2>2, <2>3, <2>4, <2>5 DEF TypeInv
<1>9. ASSUME JoinArm PROVE TypeInv'
  <2>1. JoinTypes'
    BY <1>9 DEF TypeInv, JoinTypes, JoinArm,
           joinVars, credVars, hsVars, linkVars, supVars, airVars, countVars
  <2>2. LinkTypes'
    BY <1>9 DEF TypeInv, LinkTypes, JoinArm,
           joinVars, credVars, hsVars, linkVars, supVars, airVars, countVars
  <2>3. ThreadTypes'
    BY <1>9 DEF TypeInv, ThreadTypes, JoinArm,
           joinVars, credVars, hsVars, linkVars, supVars, airVars, countVars
  <2>4. AirTypes'
    BY <1>9 DEF TypeInv, AirTypes, JoinArm,
           joinVars, credVars, hsVars, linkVars, supVars, airVars, countVars
  <2>5. Shapes'
    BY <1>9 DEF TypeInv, Shapes, JoinArm,
           joinVars, credVars, hsVars, linkVars, supVars, airVars, countVars
  <2> QED
    BY <2>1, <2>2, <2>3, <2>4, <2>5 DEF TypeInv
<1>10. ASSUME JoinSend PROVE TypeInv'
  <2>1. Auth(joinBssid).ap # NoAp => Auth(joinBssid) \in Frame
    BY FrameKinds DEF TypeInv, JoinTypes, Auth, Msg, AnyKey
  <2>2. /\ up' \in Seq(Frame) /\ budget'.faults <= MaxFaults
        /\ budget' \in [{"joins", "faults", "cross", "stray", "sealed", "rekeys"} -> Nat]
    BY <1>10, <2>1, TransmitType DEF JoinSend
  <2>3. /\ UNCHANGED <<joinVars, credVars, hsVars, inbox, linkVars, supVars, rx, work,
                       wpakey, writer, down, ap, sealed, fresh>>
        /\ join' = [join EXCEPT !.pc = "idle"]
    BY <1>10 DEF JoinSend
  <2>4. JoinTypes'
    BY <2>3 DEF TypeInv, JoinTypes, joinVars, credVars, hsVars, linkVars, supVars
  <2>5. LinkTypes'
    BY <2>3 DEF TypeInv, LinkTypes, joinVars, credVars, hsVars, linkVars, supVars
  <2>6. ThreadTypes'
    BY <2>3 DEF TypeInv, ThreadTypes, joinVars, credVars, hsVars, linkVars, supVars
  <2>7. AirTypes'
    BY <2>3, <2>2 DEF TypeInv, AirTypes, joinVars, credVars, hsVars, linkVars, supVars
  <2>8. Shapes'
    BY <2>3, <2>2 DEF TypeInv, AirTypes, Shapes, joinVars, credVars, hsVars, linkVars, supVars
  <2> QED
    BY <2>4, <2>5, <2>6, <2>7, <2>8 DEF TypeInv
<1> QED
  BY <1>1, <1>2, <1>3, <1>4, <1>5, <1>6, <1>7, <1>8, <1>9, <1>10 DEF Joins, JoinThread

\* Receiving takes the first frame of the queue to us.
LEMMA ReceiveType ==
  ASSUME TypeInv, NEW t, Receive(t)
  PROVE  /\ down \in Seq(Frame) /\ down # <<>> /\ down' = Tail(down)
         /\ Head(down) \in Frame /\ Head(down) \in Elems(down) /\ Head(down).t = t
         /\ down' \in Seq(Frame) /\ Elems(down') \subseteq Elems(down)
BY TakeFirst DEF TypeInv, AirTypes, Receive

\* The receive callback.
LEMMA RxType == TypeInv /\ RxThread => TypeInv'
<1> SUFFICES ASSUME TypeInv, RxThread PROVE TypeInv'
  OBVIOUS
<1> USE StationAssumption DEF AnyAp, JoinStates, EapolStates
<1>1. ASSUME RxAuthResp PROVE TypeInv'
  <2>1. JoinTypes'
    BY <1>1 DEF TypeInv, JoinTypes, Refused, RxAuthResp,
           joinVars, credVars, hsVars, linkVars, supVars, airVars, countVars
  <2>2. LinkTypes'
    BY <1>1 DEF TypeInv, LinkTypes, RxAuthResp,
           joinVars, credVars, hsVars, linkVars, supVars, airVars, countVars
  <2>3. ThreadTypes'
    BY <1>1 DEF TypeInv, ThreadTypes, RxAuthResp,
           joinVars, credVars, hsVars, linkVars, supVars, airVars, countVars
  <2>4. AirTypes'
    BY <1>1, ReceiveType DEF TypeInv, AirTypes, RxAuthResp,
           joinVars, credVars, hsVars, linkVars, supVars, airVars, countVars
  <2>5. Shapes'
    BY <1>1, ReceiveType DEF TypeInv, Shapes, RxAuthResp,
           joinVars, credVars, hsVars, linkVars, supVars, airVars, countVars
  <2> QED
    BY <2>1, <2>2, <2>3, <2>4, <2>5 DEF TypeInv
<1>2. ASSUME RxSendAssoc PROVE TypeInv'
  <2>1. AssocReq(joinBssid, wpaIe).ap # NoAp => AssocReq(joinBssid, wpaIe) \in Frame
    BY FrameKinds DEF TypeInv, JoinTypes, LinkTypes, AssocReq, Msg, AnyKey
  <2>2. TransmitOk(AssocReq(joinBssid, wpaIe)) \/ TransmitFails
    BY <1>2 DEF RxSendAssoc
  <2>3. /\ up' \in Seq(Frame) /\ budget'.faults <= MaxFaults
        /\ budget' \in [{"joins", "faults", "cross", "stray", "sealed", "rekeys"} -> Nat]
    BY <2>1, <2>2, TransmitType
  <2>4. /\ UNCHANGED <<joinBssid, joinSsid, mgrState, credVars, hsVars, inbox, linkVars,
                 supVars, join, work, wpakey, writer, down, ap, sealed, fresh>>
        /\ rx' = "idle" /\ joinState' \in {joinState, "Idle"}
    BY <1>2 DEF RxSendAssoc
  <2>5. JoinTypes'
    BY <2>4 DEF TypeInv, JoinTypes, credVars, hsVars, linkVars, supVars
  <2>6. LinkTypes'
    BY <2>4 DEF TypeInv, LinkTypes, credVars, hsVars, linkVars, supVars
  <2>7. ThreadTypes'
    BY <2>4 DEF TypeInv, ThreadTypes, credVars, hsVars, linkVars, supVars
  <2>8. AirTypes'
    BY <2>4, <2>3 DEF TypeInv, AirTypes, credVars, hsVars, linkVars, supVars
  <2>9. Shapes'
    BY <2>4, <2>3 DEF TypeInv, AirTypes, Shapes, credVars, hsVars, linkVars, supVars
  <2> QED
    BY <2>5, <2>6, <2>7, <2>8, <2>9 DEF TypeInv
<1>3. ASSUME RxAssocResp PROVE TypeInv'
  <2>1. JoinTypes'
    BY <1>3 DEF TypeInv, JoinTypes, Refused, RxAssocResp,
           joinVars, credVars, hsVars, linkVars, supVars, airVars, countVars
  <2>2. LinkTypes'
    BY <1>3 DEF TypeInv, LinkTypes, RxAssocResp,
           joinVars, credVars, hsVars, linkVars, supVars, airVars, countVars
  <2>3. ThreadTypes'
    BY <1>3 DEF TypeInv, ThreadTypes, RxAssocResp,
           joinVars, credVars, hsVars, linkVars, supVars, airVars, countVars
  <2>4. AirTypes'
    BY <1>3, ReceiveType DEF TypeInv, AirTypes, RxAssocResp,
           joinVars, credVars, hsVars, linkVars, supVars, airVars, countVars
  <2>5. Shapes'
    BY <1>3, ReceiveType DEF TypeInv, Shapes, RxAssocResp,
           joinVars, credVars, hsVars, linkVars, supVars, airVars, countVars
  <2> QED
    BY <2>1, <2>2, <2>3, <2>4, <2>5 DEF TypeInv
<1>4. ASSUME RxEapol PROVE TypeInv'
  <2>1. JoinTypes'
    BY <1>4 DEF TypeInv, JoinTypes, RxEapol,
           joinVars, credVars, hsVars, linkVars, supVars, airVars, countVars
  <2>2. LinkTypes'
    BY <1>4 DEF TypeInv, LinkTypes, RxEapol,
           joinVars, credVars, hsVars, linkVars, supVars, airVars, countVars
  <2>3. ThreadTypes'
    BY <1>4, ReceiveType DEF TypeInv, ThreadTypes, RxEapol,
           joinVars, credVars, hsVars, linkVars, supVars, airVars, countVars
  <2>4. AirTypes'
    BY <1>4, ReceiveType DEF TypeInv, AirTypes, RxEapol,
           joinVars, credVars, hsVars, linkVars, supVars, airVars, countVars
  <2>5. Shapes'
    BY <1>4, ReceiveType DEF TypeInv, Shapes, RxEapol,
           joinVars, credVars, hsVars, linkVars, supVars, airVars, countVars
  <2> QED
    BY <2>1, <2>2, <2>3, <2>4, <2>5 DEF TypeInv
<1> QED
  BY <1>1, <1>2, <1>3, <1>4 DEF RxThread

\* The EAPOL worker.
LEMMA WorkType == TypeInv /\ WorkThread => TypeInv'
<1> SUFFICES ASSUME TypeInv, WorkThread PROVE TypeInv'
  OBVIOUS
<1> USE StationAssumption DEF AnyAp, JoinStates, EapolStates
<1>1. ASSUME WorkTake PROVE TypeInv'
  <2>1. JoinTypes'
    BY <1>1 DEF TypeInv, JoinTypes, WorkTake,
           joinVars, credVars, hsVars, linkVars, supVars, airVars, countVars, WorkerOnly
  <2>2. LinkTypes'
    BY <1>1 DEF TypeInv, LinkTypes, WorkTake,
           joinVars, credVars, hsVars, linkVars, supVars, airVars, countVars, WorkerOnly
  <2>3. ThreadTypes'
    BY <1>1 DEF TypeInv, ThreadTypes, Shapes, WorkTake,
           joinVars, credVars, hsVars, linkVars, supVars, airVars, countVars, WorkerOnly
  <2>4. AirTypes'
    BY <1>1 DEF TypeInv, AirTypes, WorkTake,
           joinVars, credVars, hsVars, linkVars, supVars, airVars, countVars, WorkerOnly
  <2>5. Shapes'
    BY <1>1 DEF TypeInv, Shapes, ThreadTypes, WorkTake,
           joinVars, credVars, hsVars, linkVars, supVars, airVars, countVars, WorkerOnly
  <2> QED
    BY <2>1, <2>2, <2>3, <2>4, <2>5 DEF TypeInv
<1>2. ASSUME HandleM1 PROVE TypeInv'
  <2>1. /\ work.frame \in Frame /\ work.frame.n \in Nat
        /\ anonce' = work.frame.n /\ snonce' \in Nat /\ fresh' \in Nat
        /\ ptk' \in [kck : AnyKey, tk : AnyKey] /\ ptkValid' \in BOOLEAN
    <3>1. work.frame \in Frame /\ work.frame.n \in Nat
      BY <1>2 DEF TypeInv, ThreadTypes, Shapes, Frame, HandleM1
    <3>2. CASE pmk = NoAp \/ SameAnonce
      BY <1>2, <3>1, <3>2 DEF TypeInv, LinkTypes, AirTypes, HandleM1
    <3>3. CASE pmk # NoAp /\ ~SameAnonce
      <4>1. Derive(pmk, work.frame.n, fresh) \in AnyKey
        BY <3>1, <3>3 DEF TypeInv, LinkTypes, AirTypes, Derive, AnyKey, Keys
      <4>2. /\ anonce' = work.frame.n /\ snonce' = fresh /\ fresh' = fresh + 1
            /\ ptk' = [kck |-> Derive(pmk, work.frame.n, fresh),
                       tk |-> Derive(pmk, work.frame.n, fresh)]
            /\ ptkValid' = TRUE
        BY <1>2, <3>3 DEF HandleM1
      <4>3. fresh \in Nat
        BY DEF TypeInv, AirTypes
      <4> QED
        BY <3>1, <4>1, <4>2, <4>3
    <3> QED
      BY <3>2, <3>3
  <2>2. /\ UNCHANGED <<joinVars, credVars, supVars, join, rx, wpakey, writer, down, ap,
                       sealed, eapolState, inbox, linkVars, up, budget>>
        /\ work' \in {[work EXCEPT !.pc = "sendM2"], [pc |-> "idle", frame |-> NoFrame]}
        /\ work.frame.t = "M1" /\ work.pc = "handle"
    BY <1>2 DEF HandleM1, WorkerOnly
  <2>3. JoinTypes'
    BY <2>1, <2>2 DEF TypeInv, JoinTypes, joinVars, credVars, linkVars, supVars
  <2>4. LinkTypes'
    BY <2>1, <2>2 DEF TypeInv, LinkTypes, joinVars, credVars, linkVars, supVars
  <2>5. ThreadTypes'
    BY <2>1, <2>2 DEF TypeInv, ThreadTypes, joinVars, credVars, linkVars, supVars
  <2>6. AirTypes'
    BY <2>1, <2>2 DEF TypeInv, AirTypes, joinVars, credVars, linkVars, supVars
  <2>7. Shapes'
    BY <2>1, <2>2 DEF TypeInv, ThreadTypes, Shapes, joinVars, credVars, linkVars, supVars
  <2> QED
    BY <2>3, <2>4, <2>5, <2>6, <2>7 DEF TypeInv
<1>3. ASSUME SendM2 PROVE TypeInv'
  <2>1. work.frame \in Frame /\ work.frame.ap \in Aps
    BY <1>3 DEF TypeInv, ThreadTypes, Shapes, Frame, SendM2
  <2>2. M2(work.frame.ap, snonce, ptk.kck) \in Frame
    BY <2>1, FrameKinds DEF TypeInv, LinkTypes
  <2>3. /\ up' \in Seq(Frame) /\ budget'.faults <= MaxFaults
        /\ budget' \in [{"joins", "faults", "cross", "stray", "sealed", "rekeys"} -> Nat]
    <3>1. CASE TransmitOk(M2(work.frame.ap, snonce, ptk.kck)) \/ TransmitFails
      BY <2>2, <3>1, TransmitType
    <3>2. CASE UNCHANGED <<up, budget>>
      BY <3>2 DEF TypeInv, AirTypes, Shapes
    <3> QED
      BY <1>3, <3>1, <3>2 DEF SendM2
  <2>4. /\ UNCHANGED <<joinVars, credVars, supVars, join, rx, wpakey, writer, down, ap,
                       sealed, anonce, snonce, ptk, ptkValid, inbox, linkVars, fresh>>
        /\ work' = [pc |-> "idle", frame |-> NoFrame]
        /\ eapolState' \in {eapolState, "WaitM3"}
    BY <1>3 DEF SendM2, WorkerOnly, hsVars
  <2>5. JoinTypes'
    BY <2>4 DEF TypeInv, JoinTypes, joinVars
  <2>6. LinkTypes'
    BY <2>4 DEF TypeInv, LinkTypes, EapolStates, credVars, linkVars, supVars
  <2>7. ThreadTypes'
    BY <2>1, <2>4 DEF TypeInv, ThreadTypes
  <2>8. AirTypes'
    BY <2>3, <2>4 DEF TypeInv, AirTypes, supVars
  <2>9. Shapes'
    BY <2>1, <2>3, <2>4 DEF TypeInv, ThreadTypes, Shapes, joinVars, credVars, hsVars, linkVars, supVars
  <2> QED
    BY <2>5, <2>6, <2>7, <2>8, <2>9 DEF TypeInv
<1>4. ASSUME HandleM3 PROVE TypeInv'
  <2>1. work.frame \in Frame /\ work.frame.ap \in Aps
    BY <1>4 DEF TypeInv, ThreadTypes, Shapes, Frame, HandleM3
  <2>2. M4(work.frame.ap, ptk.kck) \in Frame
    BY <2>1, FrameKinds DEF TypeInv, LinkTypes
  <2>3. /\ up' \in Seq(Frame) /\ budget'.faults <= MaxFaults
        /\ budget' \in [{"joins", "faults", "cross", "stray", "sealed", "rekeys"} -> Nat]
    <3>1. CASE TransmitOk(M4(work.frame.ap, ptk.kck)) \/ TransmitFails
      BY <2>2, <3>1, TransmitType
    <3>2. CASE UNCHANGED <<up, budget>>
      BY <3>2 DEF TypeInv, AirTypes, Shapes
    <3> QED
      BY <1>4, <3>1, <3>2 DEF HandleM3
  <2>4. /\ UNCHANGED <<joinVars, credVars, supVars, join, rx, wpakey, writer, down, ap,
                       sealed, anonce, snonce, ptk, ptkValid, inbox, linkVars, fresh>>
        /\ work' \in {[pc |-> "idle", frame |-> NoFrame], [work EXCEPT !.pc = "install"]}
        /\ work.frame.t = "M3"
        /\ eapolState' \in {eapolState, "WaitM3"}
    BY <1>4 DEF HandleM3, WorkerOnly, hsVars
  <2>5. JoinTypes'
    BY <2>4 DEF TypeInv, JoinTypes, joinVars
  <2>6. LinkTypes'
    BY <2>4 DEF TypeInv, LinkTypes, EapolStates, credVars, linkVars, supVars
  <2>7. ThreadTypes'
    BY <2>1, <2>4 DEF TypeInv, ThreadTypes
  <2>8. AirTypes'
    BY <2>3, <2>4 DEF TypeInv, AirTypes, supVars
  <2>9. Shapes'
    <3>1. work' \in {[pc |-> "idle", frame |-> NoFrame],
                     [pc |-> "install", frame |-> work.frame]}
      BY <2>4 DEF TypeInv, ThreadTypes
    <3>2. work.frame # NoFrame
      BY <1>4 DEF TypeInv, Shapes, HandleM3
    <3> QED
      BY <2>1, <2>3, <2>4, <3>1, <3>2 DEF TypeInv, Shapes, supVars
  <2> QED
    BY <2>5, <2>6, <2>7, <2>8, <2>9 DEF TypeInv
<1>5. ASSUME WorkInstall PROVE TypeInv'
  <2>1. JoinTypes'
    BY <1>5 DEF TypeInv, JoinTypes, WorkInstall,
           joinVars, credVars, hsVars, linkVars, supVars, airVars, countVars, WorkerOnly
  <2>2. LinkTypes'
    BY <1>5 DEF TypeInv, LinkTypes, WorkInstall,
           joinVars, credVars, hsVars, linkVars, supVars, airVars, countVars, WorkerOnly
  <2>3. ThreadTypes'
    BY <1>5 DEF TypeInv, ThreadTypes, Shapes, InstallFailed, WorkInstall,
           joinVars, credVars, hsVars, linkVars, supVars, airVars, countVars, WorkerOnly
  <2>4. AirTypes'
    BY <1>5, SpendType DEF TypeInv, AirTypes, WorkInstall,
           joinVars, credVars, hsVars, linkVars, supVars, airVars, countVars, WorkerOnly
  <2>5. Shapes'
    BY <1>5, SpendType DEF TypeInv, Shapes, ThreadTypes, InstallFailed, WorkInstall,
           joinVars, credVars, hsVars, linkVars, supVars, airVars, countVars, WorkerOnly
  <2> QED
    BY <2>1, <2>2, <2>3, <2>4, <2>5 DEF TypeInv
<1>6. ASSUME WorkCommit PROVE TypeInv'
  <2>1. JoinTypes'
    BY <1>6 DEF TypeInv, JoinTypes, WorkCommit,
           joinVars, credVars, hsVars, linkVars, supVars, airVars, countVars, WorkerOnly
  <2>2. LinkTypes'
    BY <1>6 DEF TypeInv, LinkTypes, ThreadTypes, Shapes, Frame, WorkCommit,
           joinVars, credVars, hsVars, linkVars, supVars, airVars, countVars, WorkerOnly
  <2>3. ThreadTypes'
    BY <1>6 DEF TypeInv, ThreadTypes, Shapes, WorkCommit,
           joinVars, credVars, hsVars, linkVars, supVars, airVars, countVars, WorkerOnly
  <2>4. AirTypes'
    BY <1>6 DEF TypeInv, AirTypes, WorkCommit,
           joinVars, credVars, hsVars, linkVars, supVars, airVars, countVars, WorkerOnly
  <2>5. Shapes'
    BY <1>6 DEF TypeInv, Shapes, ThreadTypes, WorkCommit,
           joinVars, credVars, hsVars, linkVars, supVars, airVars, countVars, WorkerOnly
  <2> QED
    BY <2>1, <2>2, <2>3, <2>4, <2>5 DEF TypeInv
<1>7. ASSUME WorkFinish PROVE TypeInv'
  <2>1. JoinTypes'
    BY <1>7 DEF TypeInv, JoinTypes, WorkFinish,
           joinVars, credVars, hsVars, linkVars, supVars, airVars, countVars, WorkerOnly
  <2>2. LinkTypes'
    BY <1>7 DEF TypeInv, LinkTypes, WorkFinish,
           joinVars, credVars, hsVars, linkVars, supVars, airVars, countVars, WorkerOnly
  <2>3. ThreadTypes'
    BY <1>7 DEF TypeInv, ThreadTypes, Shapes, WorkFinish,
           joinVars, credVars, hsVars, linkVars, supVars, airVars, countVars, WorkerOnly
  <2>4. AirTypes'
    BY <1>7 DEF TypeInv, AirTypes, WorkFinish,
           joinVars, credVars, hsVars, linkVars, supVars, airVars, countVars, WorkerOnly
  <2>5. Shapes'
    BY <1>7 DEF TypeInv, Shapes, ThreadTypes, WorkFinish,
           joinVars, credVars, hsVars, linkVars, supVars, airVars, countVars, WorkerOnly
  <2> QED
    BY <2>1, <2>2, <2>3, <2>4, <2>5 DEF TypeInv
<1> QED
  BY <1>1, <1>2, <1>3, <1>4, <1>5, <1>6, <1>7 DEF WorkThread

\* IOC_WPAKEY.
LEMMA WpaKeyType == TypeInv /\ WpaKeyThread => TypeInv'
<1> SUFFICES ASSUME TypeInv, WpaKeyThread PROVE TypeInv'
  OBVIOUS
<1> USE StationAssumption DEF AnyAp, JoinStates, EapolStates
<1>1. ASSUME NEW kind \in {"pairwise", "group"}, WpaKeyStore(kind) PROVE TypeInv'
  <2>1. supplicant.key \in Keys /\ supplicant.key[1] \in Aps
    BY <1>1 DEF TypeInv, AirTypes, Shapes, WpaKeyStore, AnyKey, Keys
  <2>2. /\ supTk' \in AnyKey /\ supGtk' \in AnyAp /\ joinBssid' \in AnyAp
        /\ wpakey' \in {wpakey, [pc |-> "install", tk |-> supTk', gtk |-> supGtk']}
    BY <1>1, <2>1 DEF TypeInv, LinkTypes, JoinTypes, WpaKeyStore, AnyKey
  <2>3. /\ UNCHANGED <<joinState, joinSsid, mgrState, credVars, hsVars, inbox, linkVars,
                 join, rx, work, writer, airVars, sealed, countVars>>
        /\ supplicant' = [supplicant EXCEPT !.todo = supplicant.todo \ {kind}]
    BY <1>1 DEF WpaKeyStore
  <2>4. JoinTypes'
    BY <2>2, <2>3 DEF TypeInv, JoinTypes, credVars, hsVars, linkVars, airVars, countVars
  <2>5. LinkTypes'
    BY <2>2, <2>3 DEF TypeInv, LinkTypes, credVars, hsVars, linkVars, airVars, countVars
  <2>6. ThreadTypes'
    BY <2>2, <2>3 DEF TypeInv, ThreadTypes, credVars, hsVars, linkVars, airVars, countVars
  <2>7. AirTypes'
    BY <2>2, <2>3 DEF TypeInv, AirTypes, credVars, hsVars, linkVars, airVars, countVars
  <2>8. Shapes'
    BY <2>2, <2>3 DEF TypeInv, AirTypes, Shapes, credVars, hsVars, linkVars, airVars, countVars
  <2> QED
    BY <2>4, <2>5, <2>6, <2>7, <2>8 DEF TypeInv
<1>2. ASSUME WpaKeyInstall PROVE TypeInv'
  <2>1. JoinTypes'
    BY <1>2 DEF TypeInv, JoinTypes, WpaKeyInstall,
           joinVars, credVars, hsVars, linkVars, supVars, airVars, countVars
  <2>2. LinkTypes'
    BY <1>2 DEF TypeInv, LinkTypes, WpaKeyInstall,
           joinVars, credVars, hsVars, linkVars, supVars, airVars, countVars
  <2>3. ThreadTypes'
    BY <1>2 DEF TypeInv, ThreadTypes, WpaKeyInstall,
           joinVars, credVars, hsVars, linkVars, supVars, airVars, countVars
  <2>4. AirTypes'
    BY <1>2, SpendType DEF TypeInv, AirTypes, WpaKeyInstall,
           joinVars, credVars, hsVars, linkVars, supVars, airVars, countVars
  <2>5. Shapes'
    BY <1>2, SpendType DEF TypeInv, Shapes, WpaKeyInstall,
           joinVars, credVars, hsVars, linkVars, supVars, airVars, countVars
  <2> QED
    BY <2>1, <2>2, <2>3, <2>4, <2>5 DEF TypeInv
<1>3. ASSUME WpaKeyArm PROVE TypeInv'
  <2>1. JoinTypes'
    BY <1>3 DEF TypeInv, JoinTypes, WpaKeyArm,
           joinVars, credVars, hsVars, linkVars, supVars, airVars, countVars
  <2>2. LinkTypes'
    BY <1>3 DEF TypeInv, LinkTypes, ThreadTypes, WpaKeyArm,
           joinVars, credVars, hsVars, linkVars, supVars, airVars, countVars
  <2>3. ThreadTypes'
    BY <1>3 DEF TypeInv, ThreadTypes, WpaKeyArm,
           joinVars, credVars, hsVars, linkVars, supVars, airVars, countVars
  <2>4. AirTypes'
    BY <1>3 DEF TypeInv, AirTypes, WpaKeyArm,
           joinVars, credVars, hsVars, linkVars, supVars, airVars, countVars
  <2>5. Shapes'
    BY <1>3 DEF TypeInv, Shapes, WpaKeyArm,
           joinVars, credVars, hsVars, linkVars, supVars, airVars, countVars
  <2> QED
    BY <2>1, <2>2, <2>3, <2>4, <2>5 DEF TypeInv
<1> QED
  BY <1>1, <1>2, <1>3 DEF WpaKeyThread

\* Write().
LEMMA WriteType == TypeInv /\ WriteThread => TypeInv'
<1> SUFFICES ASSUME TypeInv, NEW w \in Writers,
                    WriteCheck(w) \/ WriteLoadPn(w) \/ WriteStorePn(w) \/ WriteSeal(w)
             PROVE  TypeInv'
  BY DEF WriteThread
<1> USE StationAssumption DEF AnyAp, JoinStates, EapolStates
<1>1. ASSUME WriteCheck(w) PROVE TypeInv'
  <2>1. JoinTypes'
    BY <1>1 DEF TypeInv, JoinTypes, WriteCheck,
           joinVars, credVars, hsVars, linkVars, supVars, airVars, countVars, WriterOnly
  <2>2. LinkTypes'
    BY <1>1 DEF TypeInv, LinkTypes, WriteCheck,
           joinVars, credVars, hsVars, linkVars, supVars, airVars, countVars, WriterOnly
  <2>3. ThreadTypes'
    BY <1>1 DEF TypeInv, ThreadTypes, WriteCheck,
           joinVars, credVars, hsVars, linkVars, supVars, airVars, countVars, WriterOnly
  <2>4. AirTypes'
    BY <1>1, SpendType DEF TypeInv, AirTypes, WriteCheck,
           joinVars, credVars, hsVars, linkVars, supVars, airVars, countVars, WriterOnly
  <2>5. Shapes'
    BY <1>1, SpendType DEF TypeInv, Shapes, WriteCheck,
           joinVars, credVars, hsVars, linkVars, supVars, airVars, countVars, WriterOnly
  <2> QED
    BY <2>1, <2>2, <2>3, <2>4, <2>5 DEF TypeInv
<1>2. ASSUME WriteLoadPn(w) PROVE TypeInv'
  <2>1. JoinTypes'
    BY <1>2 DEF TypeInv, JoinTypes, WriteLoadPn,
           joinVars, credVars, hsVars, linkVars, supVars, airVars, countVars, WriterOnly
  <2>2. LinkTypes'
    BY <1>2 DEF TypeInv, LinkTypes, WriteLoadPn,
           joinVars, credVars, hsVars, linkVars, supVars, airVars, countVars, WriterOnly
  <2>3. ThreadTypes'
    BY <1>2 DEF TypeInv, ThreadTypes, LinkTypes, WriteLoadPn,
           joinVars, credVars, hsVars, linkVars, supVars, airVars, countVars, WriterOnly
  <2>4. AirTypes'
    BY <1>2 DEF TypeInv, AirTypes, WriteLoadPn,
           joinVars, credVars, hsVars, linkVars, supVars, airVars, countVars, WriterOnly
  <2>5. Shapes'
    BY <1>2 DEF TypeInv, Shapes, WriteLoadPn,
           joinVars, credVars, hsVars, linkVars, supVars, airVars, countVars, WriterOnly
  <2> QED
    BY <2>1, <2>2, <2>3, <2>4, <2>5 DEF TypeInv
<1>3. ASSUME WriteStorePn(w) PROVE TypeInv'
  <2>1. JoinTypes'
    BY <1>3 DEF TypeInv, JoinTypes, WriteStorePn,
           joinVars, credVars, hsVars, linkVars, supVars, airVars, countVars, WriterOnly
  <2>2. LinkTypes'
    BY <1>3 DEF TypeInv, LinkTypes, ThreadTypes, WriteStorePn,
           joinVars, credVars, hsVars, linkVars, supVars, airVars, countVars, WriterOnly
  <2>3. ThreadTypes'
    BY <1>3 DEF TypeInv, ThreadTypes, WriteStorePn,
           joinVars, credVars, hsVars, linkVars, supVars, airVars, countVars, WriterOnly
  <2>4. AirTypes'
    BY <1>3 DEF TypeInv, AirTypes, WriteStorePn,
           joinVars, credVars, hsVars, linkVars, supVars, airVars, countVars, WriterOnly
  <2>5. Shapes'
    BY <1>3 DEF TypeInv, Shapes, WriteStorePn,
           joinVars, credVars, hsVars, linkVars, supVars, airVars, countVars, WriterOnly
  <2> QED
    BY <2>1, <2>2, <2>3, <2>4, <2>5 DEF TypeInv
<1>4. ASSUME WriteSeal(w) PROVE TypeInv'
  <2>1. <<ptk.tk, writer[w].pn>> \in AnyKey \X Nat
    BY DEF TypeInv, LinkTypes, ThreadTypes
  <2>2. sealed' \in Seq(AnyKey \X Nat)
    BY <1>4, <2>1, PutLast DEF TypeInv, AirTypes, WriteSeal
  <2>3. /\ UNCHANGED <<joinVars, credVars, hsVars, inbox, linkVars, supVars, join, rx, work,
                       wpakey, airVars, countVars>>
        /\ writer' = [writer EXCEPT ![w].pc = "idle"]
    BY <1>4 DEF WriteSeal, WriterOnly, linkVars, countVars
  <2>4. JoinTypes'
    BY <2>2, <2>3 DEF TypeInv, JoinTypes, joinVars, credVars, hsVars, linkVars, supVars, airVars,
           countVars
  <2>5. LinkTypes'
    BY <2>2, <2>3 DEF TypeInv, LinkTypes, joinVars, credVars, hsVars, linkVars, supVars, airVars,
           countVars
  <2>6. ThreadTypes'
    BY <2>2, <2>3 DEF TypeInv, ThreadTypes, joinVars, credVars, hsVars, linkVars, supVars, airVars,
           countVars
  <2>7. AirTypes'
    BY <2>2, <2>3 DEF TypeInv, AirTypes, joinVars, credVars, hsVars, linkVars, supVars, airVars,
           countVars
  <2>8. Shapes'
    BY <2>2, <2>3 DEF TypeInv, Shapes, joinVars, credVars, hsVars, linkVars, supVars, airVars,
           countVars
  <2> QED
    BY <2>4, <2>5, <2>6, <2>7, <2>8 DEF TypeInv
<1> QED
  BY <1>1, <1>2, <1>3, <1>4

\* What an access point sends joins the queue to us.
LEMMA SendsType ==
  ASSUME TypeInv, NEW f \in Frame
  PROVE  /\ ApSends(<<f>>) => /\ down' \in Seq(Frame)
                              /\ Elems(down') = Elems(down) \cup {f}
         /\ \A g \in Frame : ApSends(<<f, g>>) => /\ down' \in Seq(Frame)
                                                 /\ Elems(down') = Elems(down) \cup {f, g}
<1>1. down \in Seq(Frame)
  BY DEF TypeInv, AirTypes
<1>2. ApSends(<<f>>) => down' \in Seq(Frame) /\ Elems(down') = Elems(down) \cup {f}
  BY <1>1, PutLast DEF ApSends
<1>3. ASSUME NEW g \in Frame, ApSends(<<f, g>>)
      PROVE  down' \in Seq(Frame) /\ Elems(down') = Elems(down) \cup {f, g}
  BY <1>1, <1>3, PutTwo DEF ApSends
<1> QED
  BY <1>2, <1>3

\* What an access point believes about us, and what becomes of it.
ApRecord == [assoc : {"None", "Auth", "Assoc"}, dropped : BOOLEAN,
             hs : {"None", "M1Sent", "M3Sent", "Done"}, an : Nat, key : AnyKey]

SameHandshake(r, q) == r.hs = q.hs /\ r.an = q.an /\ r.key = q.key

\* What becomes of a record when an access point accepts, finishes or drops us.
LEMMA ApRecords ==
  ASSUME NEW r \in ApRecord
  PROVE  /\ [r EXCEPT !.assoc = "Auth"] \in ApRecord
         /\ SameHandshake([r EXCEPT !.assoc = "Auth"], r)
         /\ [r EXCEPT !.assoc = "Assoc", !.dropped = FALSE] \in ApRecord
         /\ SameHandshake([r EXCEPT !.assoc = "Assoc", !.dropped = FALSE], r)
         /\ [r EXCEPT !.hs = "Done"] \in ApRecord
         /\ [r EXCEPT !.hs = "Done"].hs = "Done"
         /\ [r EXCEPT !.hs = "Done"].an = r.an
         /\ [r EXCEPT !.hs = "Done"].key = r.key
         /\ [r EXCEPT !.assoc = "None", !.dropped = TRUE, !.hs = "None"] \in ApRecord
         /\ [r EXCEPT !.assoc = "None", !.dropped = TRUE, !.hs = "None"].hs = "None"
         /\ [r EXCEPT !.assoc = "None", !.dropped = TRUE, !.hs = "None"].an = r.an
<1>1. [r EXCEPT !.assoc = "Auth"] \in ApRecord
  BY DEF ApRecord
<1>2. /\ [r EXCEPT !.assoc = "Auth"].hs = r.hs
      /\ [r EXCEPT !.assoc = "Auth"].an = r.an
      /\ [r EXCEPT !.assoc = "Auth"].key = r.key
  BY DEF ApRecord
<1>3. [r EXCEPT !.assoc = "Assoc", !.dropped = FALSE] \in ApRecord
  BY DEF ApRecord
<1>4. /\ [r EXCEPT !.assoc = "Assoc", !.dropped = FALSE].hs = r.hs
      /\ [r EXCEPT !.assoc = "Assoc", !.dropped = FALSE].an = r.an
      /\ [r EXCEPT !.assoc = "Assoc", !.dropped = FALSE].key = r.key
  BY DEF ApRecord
<1>5. [r EXCEPT !.hs = "Done"] \in ApRecord
  BY DEF ApRecord
<1>6. /\ [r EXCEPT !.hs = "Done"].hs = "Done"
      /\ [r EXCEPT !.hs = "Done"].an = r.an
      /\ [r EXCEPT !.hs = "Done"].key = r.key
  BY DEF ApRecord
<1>7. [r EXCEPT !.assoc = "None", !.dropped = TRUE, !.hs = "None"] \in ApRecord
  BY DEF ApRecord
<1>8. /\ [r EXCEPT !.assoc = "None", !.dropped = TRUE, !.hs = "None"].hs = "None"
      /\ [r EXCEPT !.assoc = "None", !.dropped = TRUE, !.hs = "None"].an = r.an
  BY DEF ApRecord
<1> QED
  BY <1>1, <1>2, <1>3, <1>4, <1>5, <1>6, <1>7, <1>8 DEF SameHandshake

\* And when it takes M2.
LEMMA ApRecordSendsM3 ==
  ASSUME NEW r \in ApRecord, NEW k \in AnyKey
  PROVE  /\ [r EXCEPT !.hs = "M3Sent", !.key = k] \in ApRecord
         /\ [r EXCEPT !.hs = "M3Sent", !.key = k].hs = "M3Sent"
         /\ [r EXCEPT !.hs = "M3Sent", !.key = k].an = r.an
         /\ [r EXCEPT !.hs = "M3Sent", !.key = k].key = k
<1>1. [r EXCEPT !.hs = "M3Sent", !.key = k] \in ApRecord
  BY DEF ApRecord
<1>2. /\ [r EXCEPT !.hs = "M3Sent", !.key = k].hs = "M3Sent"
      /\ [r EXCEPT !.hs = "M3Sent", !.key = k].an = r.an
      /\ [r EXCEPT !.hs = "M3Sent", !.key = k].key = k
  BY DEF ApRecord
<1> QED
  BY <1>1, <1>2

\* What holds of the access points and the queue to us.
ApTypes ==
  /\ ap \in [Aps -> ApRecord]
  /\ \A a \in Aps : ap[a].hs \in {"M3Sent", "Done"} => ap[a].key # NoKey
  /\ fresh \in Nat
  /\ down \in Seq(Frame)
  /\ \A f \in Elems(down) : f.t = "M3" => f.key # NoKey

\* They are part of the invariant.
LEMMA ApTypesHold == TypeInv => ApTypes
BY DEF TypeInv, AirTypes, Shapes, ApTypes, ApRecord

\* An access point takes a frame of ours.
LEMMA ApTakesType ==
  ASSUME TypeInv, NEW f \in Frame, NEW ok \in BOOLEAN,
         ApAuth(f, ok) \/ ApAssoc(f) \/ ApM2(f) \/ ApM4(f)
  PROVE  ApTypes'
<1> DEFINE a == f.ap
<1>1. a \in Aps /\ f.key \in AnyKey /\ f.n \in Nat
  BY DEF Frame
<1>2. ApTypes
  BY ApTypesHold
<1>3. NoKey \in AnyKey
  BY DEF AnyKey
<1>4. CASE ApAuth(f, ok)
  <2>1. AuthResp(a, TRUE, ok) \in Frame /\ AuthResp(a, TRUE, ok).t # "M3"
    BY <1>1, <1>3, FrameKinds
  <2>2. down' \in Seq(Frame) /\ Elems(down') = Elems(down) \cup {AuthResp(a, TRUE, ok)}
    BY <1>4, <2>1, SendsType DEF ApAuth
  <2> DEFINE r == [ap[a] EXCEPT !.assoc = "Auth"]
  <2>3. fresh' = fresh /\ (ap' = ap \/ ap' = [ap EXCEPT ![a] = r])
    BY <1>4 DEF ApAuth
  <2>4. r \in ApRecord /\ r.hs = ap[a].hs /\ r.key = ap[a].key
    BY <1>1, <1>2, ApRecords DEF ApTypes, SameHandshake
  <2> HIDE DEF r
  <2> QED
    BY <1>1, <1>2, <2>1, <2>2, <2>3, <2>4 DEF ApTypes
<1>5. CASE ApAssoc(f)
  <2>1. /\ AssocResp(a, TRUE, TRUE) \in Frame /\ AssocResp(a, TRUE, TRUE).t # "M3"
        /\ AssocResp(a, TRUE, FALSE) \in Frame /\ AssocResp(a, TRUE, FALSE).t # "M3"
        /\ M1(a, TRUE, fresh) \in Frame /\ M1(a, TRUE, fresh).t # "M3"
    BY <1>1, <1>2, <1>3, FrameKinds DEF ApTypes
  <2>2. /\ down' \in Seq(Frame)
        /\ \A g \in Elems(down') : g.t = "M3" => g \in Elems(down)
    <3>1. \/ ApSends(<<AssocResp(a, TRUE, TRUE), M1(a, TRUE, fresh)>>)
          \/ ApSends(<<AssocResp(a, TRUE, TRUE)>>)
          \/ ApSends(<<AssocResp(a, TRUE, FALSE)>>)
      BY <1>5 DEF ApAssoc
    <3>2. CASE ApSends(<<AssocResp(a, TRUE, TRUE), M1(a, TRUE, fresh)>>)
      BY <2>1, <3>2, SendsType
    <3>3. CASE ApSends(<<AssocResp(a, TRUE, TRUE)>>)
      BY <2>1, <3>3, SendsType
    <3>4. CASE ApSends(<<AssocResp(a, TRUE, FALSE)>>)
      BY <2>1, <3>4, SendsType
    <3> QED
      BY <3>1, <3>2, <3>3, <3>4
  <2>3. /\ fresh' \in Nat
        /\ \/ ap' = ap
           \/ ap' = [ap EXCEPT ![a].assoc = "Assoc", ![a].dropped = FALSE]
           \/ ap' = [ap EXCEPT ![a] = [assoc |-> "Assoc", dropped |-> FALSE,
                                       hs |-> "M1Sent", an |-> fresh, key |-> NoKey]]
    BY <1>2, <1>5 DEF ApAssoc, ApTypes
  <2>4. /\ ap' \in [Aps -> ApRecord]
        /\ \A b \in Aps : ap'[b].hs \in {"M3Sent", "Done"} => ap'[b].key # NoKey
    <3> DEFINE r == [ap[a] EXCEPT !.assoc = "Assoc", !.dropped = FALSE]
               q == [assoc |-> "Assoc", dropped |-> FALSE, hs |-> "M1Sent",
                     an |-> fresh, key |-> NoKey]
    <3>1. ap' = ap \/ ap' = [ap EXCEPT ![a] = r] \/ ap' = [ap EXCEPT ![a] = q]
      BY <2>3
    <3>2. r \in ApRecord /\ r.hs = ap[a].hs /\ r.key = ap[a].key
      BY <1>1, <1>2, ApRecords DEF ApTypes, SameHandshake
    <3>3. q \in ApRecord /\ q.hs = "M1Sent"
      BY <1>2, <1>3 DEF ApRecord, ApTypes
    <3> HIDE DEF r, q
    <3> QED
      BY <1>1, <1>2, <3>1, <3>2, <3>3 DEF ApTypes
  <2> QED
    BY <1>2, <2>2, <2>3, <2>4 DEF ApTypes
<1>6. CASE ApM2(f)
  <2>1. CASE UNCHANGED <<ap, down>>
    BY <1>2, <1>6, <2>1 DEF ApM2, ApTypes
  <2>2. CASE /\ ap' = [ap EXCEPT ![a].hs = "M3Sent", ![a].key = f.key]
             /\ ApSends(<<M3(a, f.key)>>)
             /\ f.key = Derive(a, ap[a].an, f.n)
    <3>1. f.key # NoKey
      BY <1>1, <1>2, <2>2, StationAssumption DEF Derive, ApTypes, ApRecord
    <3>2. /\ M3(a, f.key) \in Frame
          /\ M3(a, f.key).key = f.key
      BY <1>1, FrameKinds
    <3>3. down' \in Seq(Frame) /\ Elems(down') = Elems(down) \cup {M3(a, f.key)}
      BY <2>2, <3>2, SendsType
    <3>4. /\ ap' \in [Aps -> ApRecord]
          /\ \A b \in Aps : ap'[b].hs \in {"M3Sent", "Done"} => ap'[b].key # NoKey
      <4> DEFINE r == [ap[a] EXCEPT !.hs = "M3Sent", !.key = f.key]
      <4>1. r \in ApRecord /\ r.key = f.key
        BY <1>1, <1>2, ApRecordSendsM3 DEF ApTypes
      <4>2. ap' = [ap EXCEPT ![a] = r]
        BY <2>2
      <4> HIDE DEF r
      <4> QED
        BY <1>1, <1>2, <3>1, <4>1, <4>2 DEF ApTypes
    <3>5. \A g \in Elems(down') : g.t = "M3" => g.key # NoKey
      BY <1>2, <3>1, <3>2, <3>3 DEF ApTypes
    <3> QED
      BY <1>2, <1>6, <3>3, <3>4, <3>5 DEF ApM2, ApTypes
  <2> QED
    BY <1>6, <2>1, <2>2 DEF ApM2
<1>7. CASE ApM4(f)
  <2> DEFINE r == [ap[a] EXCEPT !.hs = "Done"]
  <2>1. UNCHANGED <<down, fresh>> /\ (ap' = ap \/ (ap[a].hs = "M3Sent" /\ ap' = [ap EXCEPT ![a] = r]))
    BY <1>7 DEF ApM4
  <2>2. r \in ApRecord /\ r.key = ap[a].key
    BY <1>1, <1>2, ApRecords DEF ApTypes, SameHandshake
  <2> HIDE DEF r
  <2> QED
    BY <1>1, <1>2, <2>1, <2>2 DEF ApTypes
<1> QED
  BY <1>4, <1>5, <1>6, <1>7

\* A step that changes only the air and the access points.
LEMMA AirOnlyType ==
  ASSUME TypeInv, ApTypes', UNCHANGED <<DriverOnly, supplicant>>,
         up' \in Seq(Frame), budget'.faults <= MaxFaults,
         budget' \in [{"joins", "faults", "cross", "stray", "sealed", "rekeys"} -> Nat]
  PROVE  TypeInv'
<1>1. UNCHANGED <<joinVars, credVars, hsVars, inbox, linkVars, supVars, join, rx, work,
                  wpakey, writer, sealed>>
  BY DEF DriverOnly, supVars
<1>2. JoinTypes'
  BY <1>1 DEF TypeInv, JoinTypes, joinVars
<1>3. LinkTypes'
  BY <1>1 DEF TypeInv, LinkTypes, credVars, hsVars, linkVars, supVars
<1>4. ThreadTypes'
  BY <1>1 DEF TypeInv, ThreadTypes
<1>5. AirTypes'
  BY <1>1 DEF TypeInv, AirTypes, ApTypes, ApRecord, supVars
<1>6. Shapes'
  BY <1>1 DEF TypeInv, Shapes, ApTypes, supVars
<1> QED
  BY <1>2, <1>3, <1>4, <1>5, <1>6 DEF TypeInv

\* The access points.
LEMMA AccessPointsType == TypeInv /\ AccessPoints => TypeInv'
<1> SUFFICES ASSUME TypeInv, AccessPoints PROVE TypeInv'
  OBVIOUS
<1>1. ApTypes /\ up \in Seq(Frame) /\ budget.faults <= MaxFaults
      /\ budget \in [{"joins", "faults", "cross", "stray", "sealed", "rekeys"} -> Nat]
  BY ApTypesHold DEF TypeInv, AirTypes, Shapes
<1>2. CASE ApReceives
  <2>1. Head(up) \in Frame /\ up' \in Seq(Frame)
    BY <1>1, <1>2, TakeFirst DEF ApReceives
  <2>2. ApTypes'
    BY <1>2, <2>1, ApTakesType DEF ApReceives
  <2> QED
    BY <1>1, <1>2, <2>1, <2>2, AirOnlyType DEF ApReceives
<1>3. ASSUME NEW a \in Aps, ApRepeats(a) PROVE TypeInv'
  <2>1. /\ ap[a].an \in Nat /\ ap[a].key \in AnyKey
        /\ ap[a].hs = "M3Sent" => ap[a].key # NoKey
    BY <1>1 DEF ApTypes, ApRecord
  <2> DEFINE n == ap[a].an
             k == ap[a].key
  <2>2. n \in Nat /\ k \in AnyKey
    BY <2>1
  <2> HIDE DEF n, k
  <2>3. /\ M1(a, TRUE, n) \in Frame /\ M1(a, TRUE, n).t # "M3"
        /\ M3(a, k) \in Frame /\ M3(a, k).key = k
    BY <2>2, FrameKinds
  <2>4. /\ M1(a, TRUE, ap[a].an) \in Frame /\ M1(a, TRUE, ap[a].an).t # "M3"
        /\ M3(a, ap[a].key) \in Frame /\ M3(a, ap[a].key).key = ap[a].key
    BY <2>3 DEF n, k
  <2>5. /\ down' \in Seq(Frame)
        /\ \A f \in Elems(down') : f.t = "M3" => f \in Elems(down) \/ f.key # NoKey
    BY <1>3, <2>1, <2>4, SendsType DEF ApRepeats
  <2>6. ApTypes'
    BY <1>1, <1>3, <2>5 DEF ApRepeats, ApTypes
  <2>7. /\ budget'.faults <= MaxFaults
        /\ budget' \in [{"joins", "faults", "cross", "stray", "sealed", "rekeys"} -> Nat]
    BY <1>1, <1>3, SpendType DEF ApRepeats
  <2> QED
    BY <1>1, <1>3, <2>6, <2>7, AirOnlyType DEF ApRepeats
<1> QED
  BY <1>2, <1>3 DEF AccessPoints

\* The supplicant takes a handshake message.
LEMMA SupplicantType == TypeInv /\ SupplicantReceives => TypeInv'
<1> SUFFICES ASSUME TypeInv, SupplicantReceives PROVE TypeInv'
  OBVIOUS
<1> DEFINE f == Head(down)
           repeated == supplicant.key # NoKey /\ supplicant.key[1] = f.ap
                       /\ supplicant.key[2] = f.n
           k == IF repeated THEN supplicant.key ELSE Derive(f.ap, f.n, fresh)
<1>1. /\ f \in Frame /\ f.ap \in Aps /\ f.n \in Nat /\ f.key \in AnyKey
      /\ f \in Elems(down) /\ down' \in Seq(Frame) /\ Elems(down') \subseteq Elems(down)
  BY ReceiveType DEF SupplicantReceives, Frame
<1>2. k \in Keys /\ k[3] \in Nat /\ k \in AnyKey
  BY <1>1 DEF TypeInv, AirTypes, Derive, AnyKey, Keys
<1>3. /\ supplicant' \in [key : AnyKey, installed : BOOLEAN,
                         todo : SUBSET {"pairwise", "group"}]
      /\ fresh' \in Nat
      /\ supplicant'.installed \/ supplicant'.todo # {} => supplicant'.key # NoKey
      /\ up' \in Seq(Frame) /\ budget'.faults <= MaxFaults
      /\ budget' \in [{"joins", "faults", "cross", "stray", "sealed", "rekeys"} -> Nat]
  <2>1. /\ supplicant \in [key : AnyKey, installed : BOOLEAN,
                           todo : SUBSET {"pairwise", "group"}]
        /\ fresh \in Nat
        /\ supplicant.installed \/ supplicant.todo # {} => supplicant.key # NoKey
        /\ f.t = "M3" => f.key # NoKey
        /\ up \in Seq(Frame) /\ budget.faults <= MaxFaults
        /\ budget \in [{"joins", "faults", "cross", "stray", "sealed", "rekeys"} -> Nat]
    BY <1>1 DEF TypeInv, AirTypes, Shapes
  <2>2. CASE /\ f.t = "M1"
             /\ supplicant' = IF repeated THEN supplicant
                              ELSE [key |-> k, installed |-> FALSE, todo |-> {}]
             /\ fresh' = IF repeated THEN fresh ELSE fresh + 1
             /\ TransmitOk(M2(f.ap, k[3], k))
    <3>1. M2(f.ap, k[3], k) \in Frame
      BY <1>1, <1>2, FrameKinds
    <3>2. up' \in Seq(Frame) /\ budget' = budget
      BY <2>1, <2>2, <3>1, PutLast DEF TransmitOk
    <3> HIDE DEF k, repeated
    <3> QED
      BY <1>2, <2>1, <2>2, <3>2
  <2>3. CASE /\ f.t = "M3" /\ supplicant.key = f.key
             /\ supplicant' = [supplicant EXCEPT !.installed = TRUE, !.todo =
                                 IF supplicant.installed THEN supplicant.todo
                                 ELSE {"pairwise", "group"}]
             /\ TransmitOk(M4(f.ap, f.key))
             /\ UNCHANGED fresh
    <3>1. M4(f.ap, f.key) \in Frame
      BY <1>1, FrameKinds
    <3>2. up' \in Seq(Frame) /\ budget' = budget
      BY <2>1, <2>3, <3>1, PutLast DEF TransmitOk
    <3> QED
      BY <2>1, <2>3, <3>2
  <2>4. CASE UNCHANGED <<supplicant, fresh, up, budget>>
    BY <2>1, <2>4
  <2> QED
    BY <2>2, <2>3, <2>4 DEF SupplicantReceives
<1>4. UNCHANGED <<joinVars, credVars, hsVars, inbox, linkVars, supTk, supGtk, join,
                 rx, work, wpakey, writer, sealed, ap>>
  BY DEF SupplicantReceives
<1>5. JoinTypes'
  BY <1>4 DEF TypeInv, JoinTypes, joinVars
<1>6. LinkTypes'
  BY <1>4 DEF TypeInv, LinkTypes, credVars, hsVars, linkVars
<1>7. ThreadTypes'
  BY <1>4 DEF TypeInv, ThreadTypes
<1>8. AirTypes'
  BY <1>1, <1>3, <1>4 DEF TypeInv, AirTypes
<1>9. Shapes'
  BY <1>1, <1>3, <1>4 DEF TypeInv, Shapes
<1> QED
  BY <1>5, <1>6, <1>7, <1>8, <1>9 DEF TypeInv

\* Lost frames, dropped stations, strays and group rekeys.
LEMMA HazardsType == TypeInv /\ Hazards => TypeInv'
<1> SUFFICES ASSUME TypeInv, Hazards PROVE TypeInv'
  OBVIOUS
<1>1. ApTypes /\ up \in Seq(Frame)
  BY ApTypesHold DEF TypeInv, AirTypes
<1>2. CASE Lose
  <2>1. Spend("faults") /\ UNCHANGED <<DriverOnly, supplicant, ap, fresh>>
    BY <1>2 DEF Lose
  <2>2. /\ up' \in Seq(Frame) /\ down' \in Seq(Frame) /\ Elems(down') \subseteq Elems(down)
    <3>1. CASE up # <<>> /\ up' = Tail(up) /\ UNCHANGED down
      BY <1>1, <3>1, TakeFirst DEF ApTypes
    <3>2. CASE down # <<>> /\ down' = Tail(down) /\ UNCHANGED up
      BY <1>1, <3>2, TakeFirst DEF ApTypes
    <3> QED
      BY <1>2, <3>1, <3>2 DEF Lose
  <2>3. ApTypes'
    BY <1>1, <2>1, <2>2 DEF ApTypes
  <2> QED
    BY <2>1, <2>2, <2>3, SpendType, AirOnlyType
<1>3. CASE GroupRekey
  <2>1. /\ Spend("rekeys") /\ UNCHANGED <<DriverOnly, airVars, fresh>>
        /\ supplicant' = [supplicant EXCEPT !.todo = {"group"}]
        /\ supplicant.installed
    BY <1>3 DEF GroupRekey
  <2>2. supplicant.key # NoKey
    BY <2>1 DEF TypeInv, Shapes
  <2>3. /\ budget'.faults <= MaxFaults
        /\ budget' \in [{"joins", "faults", "cross", "stray", "sealed", "rekeys"} -> Nat]
    BY <2>1, SpendType
  <2>4. JoinTypes' /\ LinkTypes' /\ ThreadTypes'
    BY <2>1 DEF TypeInv, JoinTypes, LinkTypes, ThreadTypes, DriverOnly, joinVars, credVars,
                hsVars, linkVars
  <2>5. AirTypes'
    BY <2>1, <2>3 DEF TypeInv, AirTypes, DriverOnly, airVars
  <2>6. Shapes'
    BY <2>1, <2>2, <2>3 DEF TypeInv, AirTypes, Shapes, DriverOnly, airVars
  <2> QED
    BY <2>4, <2>5, <2>6 DEF TypeInv
<1>4. ASSUME NEW a \in Aps, ApDrops(a) PROVE TypeInv'
  <2>1. /\ Spend("faults") /\ UNCHANGED <<DriverOnly, supplicant, up, down, fresh>>
        /\ ap' = [ap EXCEPT ![a] = [ap[a] EXCEPT !.assoc = "None", !.dropped = TRUE,
                                                 !.hs = "None"]]
    BY <1>4 DEF ApDrops
  <2> DEFINE r == [ap[a] EXCEPT !.assoc = "None", !.dropped = TRUE, !.hs = "None"]
  <2>2. r \in ApRecord /\ r.hs = "None" /\ ap' = [ap EXCEPT ![a] = r]
    BY <1>1, <2>1, ApRecords DEF ApTypes, AnyKey
  <2> HIDE DEF r
  <2>3. ApTypes'
    BY <1>1, <2>1, <2>2 DEF ApTypes
  <2> QED
    BY <1>1, <2>1, <2>3, SpendType, AirOnlyType
<1>5. ASSUME NEW a \in Aps, Overhear(a) PROVE TypeInv'
  <2>1. /\ Spend("stray") /\ UNCHANGED <<DriverOnly, supplicant, up, ap>>
        /\ \/ ApSends(<<AuthResp(a, FALSE, TRUE)>>) /\ UNCHANGED fresh
           \/ ApSends(<<AssocResp(a, FALSE, TRUE)>>) /\ UNCHANGED fresh
           \/ ApSends(<<M1(a, FALSE, fresh)>>) /\ fresh' = fresh + 1
    BY <1>5 DEF Overhear
  <2>2. PICK f \in Frame : ApSends(<<f>>) /\ f.t # "M3"
    <3>1. NoKey \in AnyKey /\ fresh \in Nat
      BY <1>1 DEF ApTypes, AnyKey
    <3>2. /\ AuthResp(a, FALSE, TRUE) \in Frame /\ AuthResp(a, FALSE, TRUE).t # "M3"
          /\ AssocResp(a, FALSE, TRUE) \in Frame /\ AssocResp(a, FALSE, TRUE).t # "M3"
          /\ M1(a, FALSE, fresh) \in Frame /\ M1(a, FALSE, fresh).t # "M3"
      BY <3>1, FrameKinds
    <3> QED
      BY <2>1, <3>2
  <2>3. down' \in Seq(Frame) /\ Elems(down') = Elems(down) \cup {f}
    BY <2>2, SendsType
  <2>4. ApTypes'
    BY <1>1, <2>1, <2>2, <2>3 DEF ApTypes
  <2> QED
    BY <1>1, <2>1, <2>4, SpendType, AirOnlyType
<1> QED
  BY <1>2, <1>3, <1>4, <1>5 DEF Hazards

\* A step that changes nothing.
LEMMA StutterType == TypeInv /\ UNCHANGED vars => TypeInv'
BY DEF TypeInv, JoinTypes, LinkTypes, ThreadTypes, AirTypes, Shapes, vars, joinVars, credVars,
       hsVars, linkVars, supVars, airVars, countVars

\* No step breaks a type.
LEMMA StepType == TypeInv /\ [Next]_vars => TypeInv'
BY StutterType, JoinsType, RxType, WorkType, WpaKeyType, WriteType, SupplicantType,
   AccessPointsType, HazardsType DEF Next

\* The types hold forever.
LEMMA TypesHold == Spec => []TypeInv
BY InitType, StepType, PTL DEF Spec

\* The variables of the connection core stay within their types: a worker that
\* is in a step holds a frame of the kind the step is for, a key that is to be
\* installed has been derived.
THEOREM StationTypes == Spec => []TypeOK
BY TypesHold, TypeParts, PTL

-----------------------------------------------------------------------------
(* AssociationMutual.  An access point that accepted us stays one that did, *)
(* dropped or not; so it is enough that whatever makes the driver believe   *)
(* in an association came from one: a response, an M1, a supplicant's key.  *)

Accepted(a) == a \in Aps /\ (ap[a].assoc = "Assoc" \/ ap[a].dropped)

\* A frame that only an access point that accepted us sends to us.
Acceptance(f) == f.toUs /\ (f.t = "M1" \/ (f.t = "AssocResp" /\ f.ok))

AcceptedInv ==
  /\ \A f \in Elems(down) : Acceptance(f) => Accepted(f.ap)
  /\ \A a \in Aps : ap[a].hs # "None" => Accepted(a)
  /\ supplicant.key # NoKey => Accepted(supplicant.key[1])

\* Connected, unless a join is on its way to a new target or was refused.
ConnectedInv ==
  joinState = "Connected" =>
    \/ join.pc \in {"target", "lookup", "arm"}
    \/ joinBssid = NoAp /\ joinSsid \notin Listed
    \/ Accepted(joinBssid)

\* A join that may be refused has set its target already.
LookupInv ==
  join.pc = "lookup" /\ join.bssid = NoAp =>
    joinSsid = join.ssid /\ (joinBssid = NoAp \/ Accepted(joinBssid))

MutualInv == TypeInv /\ AcceptedInv /\ ConnectedInv /\ LookupInv

\* Steps that leave the access points alone and at most take a frame.
Undisturbed ==
  UNCHANGED ap /\ (down' = down \/ (down # <<>> /\ down' = Tail(down)))

\* Only an access point, or the air, changes more than that.
LEMMA AirStep ==
  ASSUME [Next]_vars
  PROVE  \/ Undisturbed \/ AccessPoints
         \/ \E a \in Aps : ApDrops(a) \/ Overhear(a)
<1>1. CASE Joins \/ JoinThread
  BY <1>1 DEF Joins, JoinThread, JoinPsk, SetTarget, JoinMlme, SetWpaIe, MlmeDeauth,
              CloseDisconnects, JoinLegacy, JoinLookup, JoinArm, JoinSend, Undisturbed, airVars
<1>2. CASE RxThread
  BY <1>2 DEF RxThread, RxAuthResp, RxSendAssoc, RxAssocResp, RxEapol, Receive, Undisturbed
<1>3. CASE WorkThread
  BY <1>3 DEF WorkThread, WorkTake, HandleM1, SendM2, HandleM3, WorkInstall, WorkCommit,
              WorkFinish, WorkerOnly, Undisturbed
<1>4. CASE WpaKeyThread
  BY <1>4 DEF WpaKeyThread, WpaKeyStore, WpaKeyInstall, WpaKeyArm, Undisturbed, airVars
<1>5. CASE WriteThread
  BY <1>5 DEF WriteThread, WriteCheck, WriteLoadPn, WriteStorePn, WriteSeal, WriterOnly,
              Undisturbed, airVars
<1>6. CASE SupplicantReceives
  BY <1>6 DEF SupplicantReceives, Receive, Undisturbed
<1>7. CASE Hazards
  BY <1>7 DEF Hazards, Lose, GroupRekey, Undisturbed, airVars
<1>8. CASE UNCHANGED vars
  BY <1>8 DEF vars, airVars, Undisturbed
<1> QED
  BY <1>1, <1>2, <1>3, <1>4, <1>5, <1>6, <1>7, <1>8 DEF Next

\* A supplicant's key changes when M1 begins a handshake.
LEMMA SupplicantStep ==
  ASSUME TypeInv, [Next]_vars
  PROVE  \/ supplicant'.key = supplicant.key
         \/ \E f \in Elems(down) : /\ f.t = "M1" /\ f.toUs /\ supplicant'.key[1] = f.ap
                                   /\ supplicant'.installed = FALSE
                                   /\ UNCHANGED ap
<1>1. CASE Joins \/ JoinThread
  BY <1>1 DEF Joins, JoinThread, JoinPsk, SetTarget, JoinMlme, SetWpaIe, MlmeDeauth,
              CloseDisconnects, JoinLegacy, JoinLookup, JoinArm, JoinSend, supVars
<1>2. CASE RxThread
  BY <1>2 DEF RxThread, RxAuthResp, RxSendAssoc, RxAssocResp, RxEapol, supVars
<1>3. CASE WorkThread
  BY <1>3 DEF WorkThread, WorkTake, HandleM1, SendM2, HandleM3, WorkInstall, WorkCommit,
              WorkFinish, WorkerOnly, supVars
<1>4. CASE WpaKeyThread
  BY <1>4 DEF WpaKeyThread, WpaKeyStore, WpaKeyInstall, WpaKeyArm, supVars,
              TypeInv, AirTypes
<1>5. CASE WriteThread
  BY <1>5 DEF WriteThread, WriteCheck, WriteLoadPn, WriteStorePn, WriteSeal, WriterOnly,
              supVars
<1>6. CASE SupplicantReceives
  <2> DEFINE f == Head(down)
             k == Derive(f.ap, f.n, fresh)
  <2>1. f \in Elems(down)
    BY <1>6, ReceiveType DEF SupplicantReceives
  <2>2. \/ supplicant'.key = supplicant.key
        \/ f.t = "M1" /\ f.toUs /\ supplicant' = [key |-> k, installed |-> FALSE, todo |-> {}]
    BY <1>6 DEF SupplicantReceives, TypeInv, AirTypes
  <2>3. k[1] = f.ap
    BY DEF Derive
  <2>4. UNCHANGED ap
    BY <1>6 DEF SupplicantReceives
  <2> QED
    BY <2>1, <2>2, <2>3, <2>4
<1>7. CASE AccessPoints
  BY <1>7 DEF AccessPoints, ApReceives, ApRepeats
<1>8. CASE Hazards
  BY <1>8 DEF Hazards, Lose, GroupRekey, ApDrops, Overhear, TypeInv, AirTypes
<1>9. CASE UNCHANGED vars
  BY <1>9 DEF vars, supVars
<1> QED
  BY <1>1, <1>2, <1>3, <1>4, <1>5, <1>6, <1>7, <1>8, <1>9 DEF Next

\* Everything else leaves the join state and its target alone.
LEMMA JoinStep ==
  ASSUME [Next]_vars
  PROVE  \/ UNCHANGED <<joinState, joinBssid, joinSsid, join>>
         \/ Joins \/ JoinThread \/ RxThread
         \/ \E kind \in {"pairwise", "group"} : WpaKeyStore(kind)
<1>1. CASE WorkThread
  BY <1>1 DEF WorkThread, WorkTake, HandleM1, SendM2, HandleM3, WorkInstall, WorkCommit,
              WorkFinish, WorkerOnly, joinVars
<1>2. CASE WpaKeyThread
  BY <1>2 DEF WpaKeyThread, WpaKeyInstall, WpaKeyArm, joinVars
<1>3. CASE WriteThread
  BY <1>3 DEF WriteThread, WriteCheck, WriteLoadPn, WriteStorePn, WriteSeal, WriterOnly,
              joinVars
<1>4. CASE SupplicantReceives
  BY <1>4 DEF SupplicantReceives, joinVars
<1>5. CASE AccessPoints
  BY <1>5 DEF AccessPoints, ApReceives, ApRepeats, DriverOnly, joinVars
<1>6. CASE Hazards
  BY <1>6 DEF Hazards, Lose, GroupRekey, ApDrops, Overhear, DriverOnly, joinVars
<1>7. CASE UNCHANGED vars
  BY <1>7 DEF vars, joinVars
<1> QED
  BY <1>1, <1>2, <1>3, <1>4, <1>5, <1>6, <1>7 DEF Next

\* An access point's answer that is an acceptance comes from one that accepted
\* us, and no access point forgets that it did.
LEMMA ApTakesAccepted ==
  ASSUME TypeInv, AcceptedInv, NEW f \in Frame, NEW ok \in BOOLEAN,
         ApAuth(f, ok) \/ ApAssoc(f) \/ ApM2(f) \/ ApM4(f)
  PROVE  /\ \A a \in Aps : Accepted(a) => Accepted(a)'
         /\ \A a \in Aps : ap'[a].hs # "None" => Accepted(a)'
         /\ \A g \in Elems(down') : Acceptance(g) => g \in Elems(down) \/ Accepted(g.ap)'
<1> DEFINE a == f.ap
<1>1. a \in Aps /\ f.key \in AnyKey /\ NoKey \in AnyKey
  BY DEF Frame, AnyKey
<1>2. /\ ap \in [Aps -> [assoc : {"None", "Auth", "Assoc"}, dropped : BOOLEAN,
                     hs : {"None", "M1Sent", "M3Sent", "Done"},
                     an : Nat, key : AnyKey]]
      /\ down \in Seq(Frame) /\ fresh \in Nat
      /\ \A b \in Aps : ap[b].hs # "None" => Accepted(b)
  BY DEF TypeInv, AirTypes, AcceptedInv
<1>3. CASE ApAuth(f, ok)
  <2>1. AuthResp(a, TRUE, ok) \in Frame /\ ~Acceptance(AuthResp(a, TRUE, ok))
    BY <1>1, FrameKinds DEF Acceptance, AuthResp, Msg
  <2>2. Elems(down') = Elems(down) \cup {AuthResp(a, TRUE, ok)}
    BY <1>3, <2>1, SendsType DEF ApAuth
  <2>3. ap' = ap \/ (ap[a].assoc = "None" /\ ap' = [ap EXCEPT ![a].assoc = "Auth"])
    BY <1>3 DEF ApAuth
  <2>4. \A b \in Aps : /\ ap[b].assoc = "Assoc" => ap'[b].assoc = "Assoc"
                       /\ ap'[b].dropped = ap[b].dropped /\ ap'[b].hs = ap[b].hs
    BY <1>1, <1>2, <2>3
  <2> QED
    BY <1>2, <2>1, <2>2, <2>4 DEF Accepted
<1>4. CASE ApAssoc(f)
  <2>1. /\ AssocResp(a, TRUE, TRUE) \in Frame /\ AssocResp(a, TRUE, TRUE).ap = a
        /\ AssocResp(a, TRUE, FALSE) \in Frame /\ ~Acceptance(AssocResp(a, TRUE, FALSE))
        /\ M1(a, TRUE, fresh) \in Frame /\ M1(a, TRUE, fresh).ap = a
    BY <1>1, <1>2, FrameKinds DEF Acceptance, AssocResp, M1, Msg
  <2>2. CASE /\ ap' = [ap EXCEPT ![a] = [assoc |-> "Assoc", dropped |-> FALSE,
                                         hs |-> "M1Sent", an |-> fresh, key |-> NoKey]]
             /\ ApSends(<<AssocResp(a, TRUE, TRUE), M1(a, TRUE, fresh)>>)
    <3>1. Elems(down') = Elems(down) \cup {AssocResp(a, TRUE, TRUE), M1(a, TRUE, fresh)}
      BY <2>1, <2>2, SendsType
    <3>2. Accepted(a)' /\ \A b \in Aps \ {a} : ap'[b] = ap[b]
      BY <1>1, <1>2, <2>2 DEF Accepted
    <3> QED
      BY <1>2, <2>1, <3>1, <3>2 DEF Accepted
  <2>3. CASE /\ ap' = [ap EXCEPT ![a].assoc = "Assoc", ![a].dropped = FALSE]
             /\ ApSends(<<AssocResp(a, TRUE, TRUE)>>)
    <3>1. Elems(down') = Elems(down) \cup {AssocResp(a, TRUE, TRUE)}
      BY <2>1, <2>3, SendsType
    <3>2. Accepted(a)' /\ \A b \in Aps \ {a} : ap'[b] = ap[b]
      BY <1>1, <1>2, <2>3 DEF Accepted
    <3> QED
      BY <1>2, <2>1, <3>1, <3>2 DEF Accepted
  <2>4. CASE ap' = ap /\ ApSends(<<AssocResp(a, TRUE, FALSE)>>)
    <3>1. Elems(down') = Elems(down) \cup {AssocResp(a, TRUE, FALSE)}
      BY <2>1, <2>4, SendsType
    <3> QED
      BY <1>2, <2>1, <2>4, <3>1 DEF Accepted
  <2> QED
    BY <1>4, <2>2, <2>3, <2>4 DEF ApAssoc
<1>5. CASE ApM2(f)
  <2>1. CASE UNCHANGED <<ap, down>>
    BY <1>2, <2>1 DEF Accepted
  <2>2. CASE /\ ap[a].hs = "M1Sent"
             /\ ap' = [ap EXCEPT ![a].hs = "M3Sent", ![a].key = f.key]
             /\ ApSends(<<M3(a, f.key)>>)
    <3>1. M3(a, f.key) \in Frame /\ ~Acceptance(M3(a, f.key))
      BY <1>1, FrameKinds DEF Acceptance, M3, Msg
    <3>2. Elems(down') = Elems(down) \cup {M3(a, f.key)}
      BY <2>2, <3>1, SendsType
    <3>3. \A b \in Aps : /\ ap'[b].assoc = ap[b].assoc /\ ap'[b].dropped = ap[b].dropped
                         /\ ap'[b].hs # "None" => ap[b].hs # "None"
      BY <1>1, <1>2, <2>2
    <3> QED
      BY <1>2, <3>1, <3>2, <3>3 DEF Accepted
  <2> QED
    BY <1>5, <2>1, <2>2 DEF ApM2
<1>6. CASE ApM4(f)
  <2>1. \A b \in Aps : /\ ap'[b].assoc = ap[b].assoc /\ ap'[b].dropped = ap[b].dropped
                       /\ ap'[b].hs # "None" => ap[b].hs # "None"
    BY <1>1, <1>2, <1>6 DEF ApM4
  <2> QED
    BY <1>2, <1>6, <2>1 DEF ApM4, Accepted
<1> QED
  BY <1>3, <1>4, <1>5, <1>6

\* Who accepted this station stays one that did, and acceptances are true.
LEMMA AcceptedStep ==
  ASSUME TypeInv, AcceptedInv, [Next]_vars
  PROVE  AcceptedInv' /\ \A a : Accepted(a) => Accepted(a)'
<1>1. /\ \A a \in Aps : Accepted(a) => Accepted(a)'
      /\ \A a \in Aps : ap'[a].hs # "None" => Accepted(a)'
      /\ \A g \in Elems(down') : Acceptance(g) => g \in Elems(down) \/ Accepted(g.ap)'
  <2>1. CASE Undisturbed
    <3>1. Elems(down') \subseteq Elems(down)
      BY <2>1, TakeFirst DEF Undisturbed, TypeInv, AirTypes
    <3> QED
      BY <2>1, <3>1 DEF Undisturbed, Accepted, AcceptedInv
  <2>2. CASE ApReceives
    <3>1. Head(up) \in Frame
      BY <2>2, TakeFirst DEF ApReceives, TypeInv, AirTypes
    <3> QED
      BY <2>2, <3>1, ApTakesAccepted DEF ApReceives
  <2>3. ASSUME NEW a \in Aps, ApRepeats(a)
        PROVE  <1>1!:
    <3>1. ap' = ap
      BY <2>3 DEF ApRepeats
    <3>2. /\ M1(a, TRUE, ap[a].an) \in Frame /\ M1(a, TRUE, ap[a].an).ap = a
          /\ M3(a, ap[a].key) \in Frame /\ ~Acceptance(M3(a, ap[a].key))
      BY FrameKinds DEF TypeInv, AirTypes, Acceptance, M1, M3, Msg
    <3>3. Accepted(a) /\ \A b \in Aps : ap[b].hs # "None" => Accepted(b)
      BY <2>3 DEF ApRepeats, AcceptedInv
    <3>4. CASE ApSends(<<M1(a, TRUE, ap[a].an)>>)
      BY <3>1, <3>2, <3>3, <3>4, SendsType DEF Accepted
    <3>5. CASE ApSends(<<M3(a, ap[a].key)>>)
      BY <3>1, <3>2, <3>3, <3>5, SendsType DEF Accepted
    <3> QED
      BY <2>3, <3>4, <3>5 DEF ApRepeats
  <2>4. ASSUME NEW a \in Aps, ApDrops(a)
        PROVE  <1>1!:
    <3>1. /\ down' = down
          /\ ap' = [ap EXCEPT ![a] = [ap[a] EXCEPT !.assoc = "None", !.dropped = TRUE,
                                                   !.hs = "None"]]
      BY <2>4 DEF ApDrops
    <3> QED
      BY <3>1 DEF Accepted, AcceptedInv, TypeInv, AirTypes
  <2>5. ASSUME NEW a \in Aps, Overhear(a)
        PROVE  <1>1!:
    <3>1. ap' = ap /\ fresh \in Nat
      BY <2>5 DEF Overhear, TypeInv, AirTypes
    <3>2. /\ AuthResp(a, FALSE, TRUE) \in Frame /\ ~Acceptance(AuthResp(a, FALSE, TRUE))
          /\ AssocResp(a, FALSE, TRUE) \in Frame /\ ~Acceptance(AssocResp(a, FALSE, TRUE))
          /\ M1(a, FALSE, fresh) \in Frame /\ ~Acceptance(M1(a, FALSE, fresh))
      <4>1. NoKey \in AnyKey
        BY DEF AnyKey
      <4> QED
        BY <3>1, <4>1, FrameKinds DEF Acceptance, AuthResp, AssocResp, M1, Msg
    <3>3. PICK f \in Frame : ApSends(<<f>>) /\ ~Acceptance(f)
      BY <2>5, <3>2 DEF Overhear
    <3>4. Elems(down') = Elems(down) \cup {f}
      BY <3>3, SendsType
    <3> QED
      BY <3>1, <3>3, <3>4 DEF Accepted, AcceptedInv
  <2> QED
    BY <2>1, <2>2, <2>3, <2>4, <2>5, AirStep DEF AccessPoints
<1>2. \A f \in Elems(down) : Acceptance(f) => Accepted(f.ap)'
  BY <1>1 DEF AcceptedInv, Accepted
<1>3. (supplicant.key # NoKey => Accepted(supplicant.key[1]))'
  <2>1. CASE supplicant'.key = supplicant.key
    BY <1>1, <2>1 DEF AcceptedInv, Accepted
  <2>2. ASSUME NEW f \in Elems(down), f.t = "M1", f.toUs, supplicant'.key[1] = f.ap
        PROVE  (supplicant.key # NoKey => Accepted(supplicant.key[1]))'
    BY <1>2, <2>2 DEF Acceptance, Accepted
  <2> QED
    BY <2>1, <2>2, SupplicantStep
<1>4. \A g \in Elems(down') : Acceptance(g) => Accepted(g.ap)'
  BY <1>1, <1>2
<1> QED
  BY <1>1, <1>3, <1>4 DEF AcceptedInv, Accepted

\* No step connects the driver to an access point that did not accept it.
LEMMA ConnectedStep ==
  ASSUME MutualInv, [Next]_vars
  PROVE  (ConnectedInv /\ LookupInv)'
<1>1. \A a : Accepted(a) => Accepted(a)'
  BY AcceptedStep DEF MutualInv
<1>2. /\ join \in [pc : {"idle", "target", "lookup", "arm", "send"}, ssid : AnyAp,
                  bssid : AnyAp]
      /\ joinState \in {"Idle", "Authenticating", "Associating", "Connected"}
      /\ ConnectedInv /\ LookupInv /\ NoAp \notin Aps
  BY StationAssumption DEF MutualInv, TypeInv, JoinTypes, JoinStates
<1>3. CASE UNCHANGED <<joinState, joinBssid, joinSsid, join>>
  BY <1>1, <1>2, <1>3 DEF ConnectedInv, LookupInv
<1>4. CASE Joins
  <2>1. ASSUME NEW a \in Aps, NEW b \in {a, NoAp}, JoinPsk(a, b)
        PROVE  (ConnectedInv /\ LookupInv)'
    <3>1. /\ joinSsid' = a /\ joinBssid' = b
          /\ join' = [pc |-> "lookup", ssid |-> a, bssid |-> b]
      BY <2>1 DEF JoinPsk
    <3> QED
      BY <3>1 DEF ConnectedInv, LookupInv
  <2>2. ASSUME NEW a \in Aps, SetTarget(a) PROVE (ConnectedInv /\ LookupInv)'
    BY <1>2, <2>2 DEF SetTarget, ConnectedInv, LookupInv
  <2>3. ASSUME NEW a \in Aps, JoinMlme(a) PROVE (ConnectedInv /\ LookupInv)'
    <3>1. join' = [pc |-> "lookup", ssid |-> a, bssid |-> a] /\ a # NoAp
      BY <1>2, <2>3 DEF JoinMlme
    <3> QED
      BY <3>1 DEF ConnectedInv, LookupInv
  <2>4. CASE MlmeDeauth
    BY <1>1, <1>2, <2>4 DEF MlmeDeauth, ConnectedInv, LookupInv
  <2>5. CASE CloseDisconnects \/ \E b \in BOOLEAN : SetWpaIe(b)
    BY <1>3, <2>5 DEF CloseDisconnects, SetWpaIe, joinVars
  <2> QED
    BY <1>4, <2>1, <2>2, <2>3, <2>4, <2>5 DEF Joins
<1>5. CASE JoinThread
  <2>1. CASE JoinLegacy
    <3>1. /\ UNCHANGED joinVars /\ join.pc = "target"
          /\ join' = [pc |-> "lookup", ssid |-> joinSsid, bssid |-> joinBssid]
      BY <2>1 DEF JoinLegacy
    <3> QED
      BY <1>1, <1>2, <3>1 DEF ConnectedInv, LookupInv, joinVars
  <2>2. CASE JoinLookup
    <3>1. /\ join.pc = "lookup" /\ joinBssid' = joinBssid /\ joinSsid' = joinSsid
          /\ joinState' = "Connected" => joinState = "Connected"
      BY <2>2 DEF JoinLookup
    <3>2. \/ join'.pc = "arm"
          \/ join'.pc = "idle" /\ join.bssid = NoAp /\ join.ssid \notin Listed
      BY <1>2, <2>2 DEF JoinLookup
    <3> QED
      BY <1>1, <1>2, <3>1, <3>2 DEF ConnectedInv, LookupInv
  <2>3. CASE JoinArm
    BY <1>2, <2>3 DEF JoinArm, ConnectedInv, LookupInv
  <2>4. CASE JoinSend
    BY <1>1, <1>2, <2>4 DEF JoinSend, ConnectedInv, LookupInv, joinVars
  <2> QED
    BY <1>5, <2>1, <2>2, <2>3, <2>4 DEF JoinThread
<1>6. CASE RxThread
  <2>1. UNCHANGED <<joinBssid, joinSsid, join>>
    BY <1>6 DEF RxThread, RxAuthResp, RxSendAssoc, RxAssocResp, RxEapol, joinVars
  <2>2. joinState' = "Connected" => joinState = "Connected" \/ Accepted(joinBssid)
    <3>1. CASE RxAuthResp \/ RxSendAssoc \/ RxEapol
      BY <3>1 DEF RxAuthResp, RxSendAssoc, RxEapol, joinVars, Refused
    <3>2. CASE RxAssocResp
      <4> DEFINE f == Head(down)
      <4>1. f \in Elems(down) /\ f.t = "AssocResp"
        BY <3>2, ReceiveType DEF RxAssocResp, MutualInv
      <4>2. CASE joinState' = joinState \/ joinState' = "Idle"
        BY <4>2
      <4>3. CASE f.ok /\ FromOurAp(f)
        BY <4>1, <4>3 DEF FromOurAp, MutualInv, AcceptedInv, Acceptance
      <4> QED
        BY <3>2, <4>2, <4>3 DEF RxAssocResp, Refused
    <3> QED
      BY <1>6, <3>1, <3>2 DEF RxThread
  <2> QED
    BY <1>1, <1>2, <2>1, <2>2 DEF ConnectedInv, LookupInv
<1>7. ASSUME NEW kind \in {"pairwise", "group"}, WpaKeyStore(kind)
      PROVE  (ConnectedInv /\ LookupInv)'
  <2>1. /\ UNCHANGED <<joinState, joinSsid, join>>
        /\ joinBssid' \in {joinBssid, supplicant.key[1]}
    BY <1>7 DEF WpaKeyStore
  <2>2. Accepted(supplicant.key[1])
    BY <1>7 DEF WpaKeyStore, MutualInv, TypeInv, Shapes, AcceptedInv
  <2> QED
    BY <1>1, <1>2, <2>1, <2>2 DEF ConnectedInv, LookupInv
<1> QED
  BY <1>3, <1>4, <1>5, <1>6, <1>7, JoinStep

\* The invariant behind AssociationMutual holds forever.
LEMMA MutualHolds == Spec => []MutualInv
<1>1. Init => MutualInv
  <2> SUFFICES ASSUME Init PROVE MutualInv
    OBVIOUS
  <2>1. AcceptedInv /\ ConnectedInv /\ LookupInv
    BY DEF Init, AcceptedInv, ConnectedInv, LookupInv, Elems
  <2> QED
    BY <2>1, InitType DEF MutualInv
<1>2. MutualInv /\ [Next]_vars => MutualInv'
  BY StepType, AcceptedStep, ConnectedStep DEF MutualInv
<1> QED
  BY <1>1, <1>2, PTL DEF Spec

\* However joins, overheard responses, lost frames and installed keys interleave,
\* a driver that says Connected names an access point that accepted it, or was
\* refused a join by name.
THEOREM AssociatedMutually == Spec => []AssociationMutual
<1>1. MutualInv => AssociationMutual
  BY DEF MutualInv, ConnectedInv, Accepted, AssociationMutual
<1> QED
  BY <1>1, MutualHolds, PTL

-----------------------------------------------------------------------------
(* The in-driver handshake, of a driver that no supplicant joins with.       *)

InDriverOnly == "mlme" \notin JoinModes

\* Nobody but the driver holds keys, and until the first join by passphrase
\* there is no handshake anywhere.
NoHandshakeYet ==
  /\ ~wpaIe /\ inbox = NoFrame /\ work.pc = "idle"
  /\ \A f \in Elems(up) : f.t = "AssocReq" => ~f.ok
  /\ \A f \in Elems(down) : f.t # "M3" /\ (f.t = "M1" => ~f.toUs)
  /\ \A a \in Aps : ap[a].hs = "None"

InDriverInv ==
  /\ supplicant.key = NoKey /\ wpakey.pc = "idle"
  /\ pmk = NoAp => NoHandshakeYet
  /\ \A a \in Aps : ap[a].hs # "None" => a \in Secure
  /\ join.pc = "target" => joinBssid # NoAp
  /\ join.pc = "lookup" /\ join.bssid = NoAp => joinBssid = NoAp

\* Without a supplicant the driver's own threads, the access points and the air
\* are all there is.
LEMMA NoSupplicantStep ==
  ASSUME InDriverOnly, TypeInv, InDriverInv, [Next]_vars
  PROVE  /\ ~WpaKeyThread /\ ~GroupRekey
         /\ \A a \in Aps : ~JoinMlme(a)
         /\ \A b \in BOOLEAN : ~SetWpaIe(b)
         /\ SupplicantReceives => UNCHANGED <<supplicant, fresh, up, budget>>
<1>1. supplicant.todo = {} /\ supplicant.installed = FALSE
  BY DEF TypeInv, AirTypes, Shapes, InDriverInv
<1>2. ~WpaKeyThread
  BY <1>1 DEF WpaKeyThread, WpaKeyStore, WpaKeyInstall, WpaKeyArm, InDriverInv
<1>3. ~GroupRekey
  BY <1>1 DEF GroupRekey
<1>4. SupplicantReceives => UNCHANGED <<supplicant, fresh, up, budget>>
  <2> SUFFICES ASSUME SupplicantReceives PROVE UNCHANGED <<supplicant, fresh, up, budget>>
    OBVIOUS
  <2>1. Head(down) \in Elems(down) /\ pmk = NoAp
    BY ReceiveType DEF SupplicantReceives
  <2>2. Head(down).t # "M3" /\ (Head(down).t = "M1" => ~Head(down).toUs)
    BY <2>1 DEF InDriverInv, NoHandshakeYet
  <2> QED
    BY <2>2 DEF SupplicantReceives
<1> QED
  BY <1>2, <1>3, <1>4 DEF InDriverOnly, JoinMlme, SetWpaIe

\* What an access point does to a driver that has no passphrase yet.
LEMMA ApTakesQuietly ==
  ASSUME TypeInv, InDriverInv, NEW f \in Elems(up), f \in Frame, NEW ok \in BOOLEAN,
         ApAuth(f, ok) \/ ApAssoc(f) \/ ApM2(f) \/ ApM4(f)
  PROVE  /\ \A a \in Aps : ap'[a].hs # "None" => a \in Secure
         /\ pmk = NoAp => /\ \A a \in Aps : ap'[a].hs = "None"
                          /\ \A g \in Elems(down') : g \in Elems(down) \/ g.t \notin {"M1", "M3"}
<1> DEFINE a == f.ap
<1>1. a \in Aps /\ f.key \in AnyKey /\ NoKey \in AnyKey
  BY DEF Frame, AnyKey
<1>2. /\ ap \in [Aps -> [assoc : {"None", "Auth", "Assoc"}, dropped : BOOLEAN,
                     hs : {"None", "M1Sent", "M3Sent", "Done"},
                     an : Nat, key : AnyKey]]
      /\ \A b \in Aps : ap[b].hs # "None" => b \in Secure
      /\ pmk = NoAp => \A b \in Aps : ap[b].hs = "None"
      /\ pmk = NoAp /\ f.t = "AssocReq" => ~f.ok
  BY DEF TypeInv, AirTypes, InDriverInv, NoHandshakeYet
<1>3. CASE ApAuth(f, ok)
  <2>1. AuthResp(a, TRUE, ok) \in Frame /\ AuthResp(a, TRUE, ok).t = "AuthResp"
    BY <1>1, FrameKinds DEF AuthResp, Msg
  <2>2. Elems(down') = Elems(down) \cup {AuthResp(a, TRUE, ok)}
    BY <1>3, <2>1, SendsType DEF ApAuth
  <2>3. \A b \in Aps : ap'[b].hs = ap[b].hs
    BY <1>1, <1>2, <1>3 DEF ApAuth
  <2> QED
    BY <1>2, <2>1, <2>2, <2>3
<1>4. CASE ApAssoc(f)
  <2>1. /\ AssocResp(a, TRUE, TRUE) \in Frame /\ AssocResp(a, TRUE, TRUE).t = "AssocResp"
        /\ AssocResp(a, TRUE, FALSE) \in Frame /\ AssocResp(a, TRUE, FALSE).t = "AssocResp"
    BY <1>1, FrameKinds DEF AssocResp, Msg
  <2>2. CASE /\ a \in Secure /\ pmk # NoAp
             /\ ap' = [ap EXCEPT ![a] = [assoc |-> "Assoc", dropped |-> FALSE,
                                         hs |-> "M1Sent", an |-> fresh, key |-> NoKey]]
    BY <1>1, <1>2, <2>2
  <2>3. CASE /\ ap' = [ap EXCEPT ![a].assoc = "Assoc", ![a].dropped = FALSE]
             /\ ApSends(<<AssocResp(a, TRUE, TRUE)>>)
    <3>1. Elems(down') = Elems(down) \cup {AssocResp(a, TRUE, TRUE)}
      BY <2>1, <2>3, SendsType
    <3>2. \A b \in Aps : ap'[b].hs = ap[b].hs
      BY <1>1, <1>2, <2>3
    <3> QED
      BY <1>2, <2>1, <3>1, <3>2
  <2>4. CASE ap' = ap /\ ApSends(<<AssocResp(a, TRUE, FALSE)>>)
    <3>1. Elems(down') = Elems(down) \cup {AssocResp(a, TRUE, FALSE)}
      BY <2>1, <2>4, SendsType
    <3> QED
      BY <1>2, <2>1, <2>4, <3>1
  <2>5. pmk = NoAp => ~f.ok
    BY <1>2, <1>4 DEF ApAssoc
  <2> QED
    BY <1>4, <2>2, <2>3, <2>4, <2>5 DEF ApAssoc
<1>5. CASE ApM2(f)
  <2>1. \/ UNCHANGED <<ap, down>>
        \/ /\ ap[a].hs = "M1Sent"
           /\ ap' = [ap EXCEPT ![a].hs = "M3Sent", ![a].key = f.key]
    BY <1>5 DEF ApM2
  <2>2. \A b \in Aps : ap'[b].hs # "None" => ap[b].hs # "None"
    BY <1>1, <1>2, <2>1
  <2> QED
    BY <1>1, <1>2, <2>1, <2>2
<1>6. CASE ApM4(f)
  <2>1. \A b \in Aps : ap'[b].hs # "None" => ap[b].hs # "None"
    BY <1>1, <1>2, <1>6 DEF ApM4
  <2> QED
    BY <1>2, <1>6, <2>1 DEF ApM4
<1> QED
  BY <1>3, <1>4, <1>5, <1>6

\* Transmitting adds the frame to the queue, or nothing.
LEMMA TransmitElems ==
  ASSUME TypeInv, NEW f, f.ap # NoAp => f \in Frame,
         TransmitOk(f) \/ TransmitFails
  PROVE  Elems(up') \subseteq Elems(up) \cup {f}
<1>1. CASE f.ap # NoAp /\ up' = Append(up, f)
  <2>1. up \in Seq(Frame) /\ f \in Frame
    BY <1>1 DEF TypeInv, AirTypes
  <2>2. Append(up, f) = up \o <<f>> /\ Elems(up \o <<f>>) = Elems(up) \cup {f}
    BY <2>1, PutLast
  <2> QED
    BY <1>1, <2>2
<1>2. CASE up' = up
  BY <1>2
<1> QED
  BY <1>1, <1>2 DEF TransmitOk, TransmitFails

\* Without a supplicant the keys and the handshakes stay the driver's own.
LEMMA InDriverStep ==
  ASSUME InDriverOnly, TypeInv, InDriverInv, [Next]_vars
  PROVE  InDriverInv'
<1> USE NoSupplicantStep
<1>1. /\ supplicant.key = NoKey /\ wpakey.pc = "idle"
      /\ pmk = NoAp => NoHandshakeYet
      /\ \A a \in Aps : ap[a].hs # "None" => a \in Secure
      /\ join.pc = "target" => joinBssid # NoAp
      /\ join.pc = "lookup" /\ join.bssid = NoAp => joinBssid = NoAp
      /\ NoAp \notin Aps
      /\ join \in [pc : {"idle", "target", "lookup", "arm", "send"}, ssid : AnyAp,
                   bssid : AnyAp]
  BY StationAssumption DEF InDriverInv, TypeInv, JoinTypes
<1>2. supplicant' = supplicant /\ wpakey' = wpakey
  <2>1. CASE Joins \/ JoinThread
    BY <2>1 DEF Joins, JoinThread, JoinPsk, SetTarget, MlmeDeauth, CloseDisconnects, JoinLegacy,
                JoinLookup, JoinArm, JoinSend, supVars
  <2>2. CASE RxThread
    BY <2>2 DEF RxThread, RxAuthResp, RxSendAssoc, RxAssocResp, RxEapol, supVars
  <2>3. CASE WorkThread
    BY <2>3 DEF WorkThread, WorkTake, HandleM1, SendM2, HandleM3, WorkInstall, WorkCommit,
                WorkFinish, WorkerOnly, supVars
  <2>4. CASE WriteThread
    BY <2>4 DEF WriteThread, WriteCheck, WriteLoadPn, WriteStorePn, WriteSeal, WriterOnly,
                supVars
  <2>5. CASE SupplicantReceives
    BY <2>5 DEF SupplicantReceives
  <2>6. CASE AccessPoints
    BY <2>6 DEF AccessPoints, ApReceives, ApRepeats, DriverOnly
  <2>7. CASE Hazards
    BY <2>7 DEF Hazards, Lose, ApDrops, Overhear, DriverOnly
  <2>8. CASE UNCHANGED vars
    BY <2>8 DEF vars, supVars
  <2> QED
    BY <2>1, <2>2, <2>3, <2>4, <2>5, <2>6, <2>7, <2>8 DEF Next
<1>3. /\ \A a \in Aps : ap'[a].hs # "None" => a \in Secure
      /\ pmk = NoAp => /\ \A a \in Aps : ap'[a].hs = "None"
                       /\ \A f \in Elems(down') : f.t # "M3" /\ (f.t = "M1" => ~f.toUs)
  <2>1. pmk = NoAp => /\ \A a \in Aps : ap[a].hs = "None"
                      /\ \A f \in Elems(down) : f.t # "M3" /\ (f.t = "M1" => ~f.toUs)
    BY <1>1 DEF NoHandshakeYet
  <2>2. CASE Undisturbed
    <3>1. Elems(down') \subseteq Elems(down)
      BY <2>2, TakeFirst DEF Undisturbed, TypeInv, AirTypes
    <3> QED
      BY <1>1, <2>1, <2>2, <3>1 DEF Undisturbed
  <2>3. CASE ApReceives
    <3>1. Head(up) \in Frame /\ Head(up) \in Elems(up)
      BY <2>3, TakeFirst DEF ApReceives, TypeInv, AirTypes
    <3> QED
      BY <2>1, <2>3, <3>1, ApTakesQuietly DEF ApReceives
  <2>4. ASSUME NEW a \in Aps, ApRepeats(a) PROVE <1>3!:
    BY <1>1, <2>1, <2>4 DEF ApRepeats
  <2>5. ASSUME NEW a \in Aps, ApDrops(a) PROVE <1>3!:
    BY <1>1, <2>1, <2>5 DEF ApDrops, TypeInv, AirTypes
  <2>6. ASSUME NEW a \in Aps, Overhear(a) PROVE <1>3!:
    <3>1. ap' = ap /\ fresh \in Nat
      BY <2>6 DEF Overhear, TypeInv, AirTypes
    <3>2. /\ AuthResp(a, FALSE, TRUE) \in Frame /\ ~AuthResp(a, FALSE, TRUE).toUs
          /\ AuthResp(a, FALSE, TRUE).t # "M3"
          /\ AssocResp(a, FALSE, TRUE) \in Frame /\ ~AssocResp(a, FALSE, TRUE).toUs
          /\ AssocResp(a, FALSE, TRUE).t # "M3"
          /\ M1(a, FALSE, fresh) \in Frame /\ ~M1(a, FALSE, fresh).toUs
          /\ M1(a, FALSE, fresh).t # "M3"
      <4>1. NoKey \in AnyKey
        BY DEF AnyKey
      <4> QED
        BY <3>1, <4>1, FrameKinds DEF AuthResp, AssocResp, M1, Msg
    <3>3. PICK f \in Frame : ApSends(<<f>>) /\ f.t # "M3" /\ ~f.toUs
      BY <2>6, <3>2 DEF Overhear
    <3>4. Elems(down') = Elems(down) \cup {f}
      BY <3>3, SendsType
    <3> QED
      BY <1>1, <2>1, <3>1, <3>3, <3>4
  <2> QED
    BY <2>2, <2>3, <2>4, <2>5, <2>6, AirStep DEF AccessPoints
<1>4. ASSUME pmk' = NoAp
      PROVE  /\ pmk = NoAp /\ ~wpaIe' /\ inbox' = NoFrame /\ work'.pc = "idle"
             /\ \A f \in Elems(up') : f.t = "AssocReq" => ~f.ok
  <2>1. pmk = NoAp
    <3>1. CASE Joins \/ JoinThread
      BY <1>1, <1>4, <3>1 DEF Joins, JoinThread, JoinPsk, SetTarget, MlmeDeauth,
             CloseDisconnects, JoinLegacy, JoinLookup, JoinArm, JoinSend, credVars
    <3>2. CASE RxThread
      BY <1>4, <3>2 DEF RxThread, RxAuthResp, RxSendAssoc, RxAssocResp, RxEapol, credVars
    <3>3. CASE WorkThread
      BY <1>4, <3>3 DEF WorkThread, WorkTake, HandleM1, SendM2, HandleM3, WorkInstall,
             WorkCommit, WorkFinish, WorkerOnly, credVars
    <3>4. CASE WriteThread
      BY <1>4, <3>4 DEF WriteThread, WriteCheck, WriteLoadPn, WriteStorePn, WriteSeal,
             WriterOnly, credVars
    <3>5. CASE SupplicantReceives
      BY <3>5 DEF SupplicantReceives
    <3>6. CASE AccessPoints
      BY <1>4, <3>6 DEF AccessPoints, ApReceives, ApRepeats, DriverOnly, credVars
    <3>7. CASE Hazards
      BY <1>4, <3>7 DEF Hazards, Lose, ApDrops, Overhear, DriverOnly, credVars
    <3>8. CASE UNCHANGED vars
      BY <1>4, <3>8 DEF vars, credVars
    <3> QED
      BY <3>1, <3>2, <3>3, <3>4, <3>5, <3>6, <3>7, <3>8 DEF Next
  <2>2. ~wpaIe /\ inbox = NoFrame /\ work.pc = "idle"
        /\ \A f \in Elems(up) : f.t = "AssocReq" => ~f.ok
    BY <1>1, <2>1 DEF NoHandshakeYet
  <2>3. /\ AssocReq(joinBssid, FALSE).ap # NoAp => AssocReq(joinBssid, FALSE) \in Frame
        /\ Auth(joinBssid).ap # NoAp => Auth(joinBssid) \in Frame
        /\ Auth(joinBssid).t # "AssocReq" /\ ~AssocReq(joinBssid, FALSE).ok
    BY FrameKinds DEF TypeInv, JoinTypes, AssocReq, Auth, Msg, AnyKey, AnyAp
  <2>4. /\ ~wpaIe' /\ inbox' = NoFrame /\ work'.pc = "idle"
        /\ \A f \in Elems(up') : f \in Elems(up) \/ (f.t = "AssocReq" => ~f.ok)
    <3>1. CASE Joins
      BY <1>1, <1>4, <2>2, <3>1 DEF Joins, JoinPsk, SetTarget, MlmeDeauth, CloseDisconnects,
             credVars, airVars
    <3>2. CASE JoinLegacy \/ JoinLookup \/ JoinArm
      BY <2>2, <3>2 DEF JoinLegacy, JoinLookup, JoinArm, credVars, airVars
    <3>3. CASE JoinSend
      <4>1. Elems(up') \subseteq Elems(up) \cup {Auth(joinBssid)}
        BY <2>3, <3>3, TransmitElems DEF JoinSend
      <4> QED
        BY <2>2, <2>3, <3>3, <4>1 DEF JoinSend, credVars
    <3>4. CASE RxAuthResp \/ RxAssocResp \/ RxEapol
      BY <2>1, <2>2, <3>4 DEF RxAuthResp, RxAssocResp, RxEapol, credVars
    <3>5. CASE RxSendAssoc
      <4>1. wpaIe = FALSE
        BY <2>2 DEF TypeInv, LinkTypes
      <4>2. Elems(up') \subseteq Elems(up) \cup {AssocReq(joinBssid, FALSE)}
        BY <2>3, <3>5, <4>1, TransmitElems DEF RxSendAssoc
      <4> QED
        BY <2>2, <2>3, <3>5, <4>2 DEF RxSendAssoc, credVars
    <3>6. ~WorkThread
      BY <2>2 DEF WorkThread, WorkTake, HandleM1, SendM2, HandleM3, WorkInstall, WorkCommit,
                  WorkFinish
    <3>7. CASE WriteThread
      BY <2>2, <3>7 DEF WriteThread, WriteCheck, WriteLoadPn, WriteStorePn, WriteSeal,
             WriterOnly, credVars, airVars
    <3>8. CASE SupplicantReceives
      BY <2>2, <3>8 DEF SupplicantReceives, credVars
    <3>9. CASE ApReceives \/ Lose
      <4>1. Elems(up') \subseteq Elems(up)
        BY <3>9, TakeFirst DEF ApReceives, Lose, TypeInv, AirTypes
      <4> QED
        BY <2>2, <3>9, <4>1 DEF ApReceives, Lose, DriverOnly, credVars
    <3>10. CASE \E a \in Aps : ApRepeats(a) \/ ApDrops(a) \/ Overhear(a)
      BY <2>2, <3>10 DEF ApRepeats, ApDrops, Overhear, DriverOnly, credVars
    <3>11. CASE UNCHANGED vars
      BY <2>2, <3>11 DEF vars, credVars, airVars
    <3> QED
      BY <3>1, <3>2, <3>3, <3>4, <3>5, <3>6, <3>7, <3>8, <3>9, <3>10, <3>11
         DEF Next, JoinThread, RxThread, AccessPoints, Hazards
  <2> QED
    BY <2>1, <2>2, <2>4
<1>5. /\ join'.pc = "target" => joinBssid' # NoAp
      /\ join'.pc = "lookup" /\ join'.bssid = NoAp => joinBssid' = NoAp
  <2>1. CASE UNCHANGED <<joinState, joinBssid, joinSsid, join>>
    BY <1>1, <2>1
  <2>2. CASE Joins
    <3>1. ASSUME NEW a \in Aps, NEW b \in {a, NoAp}, JoinPsk(a, b) PROVE <1>5!:
      BY <3>1 DEF JoinPsk
    <3>2. ASSUME NEW a \in Aps, SetTarget(a) PROVE <1>5!:
      BY <1>1, <3>2 DEF SetTarget
    <3>3. CASE MlmeDeauth \/ CloseDisconnects
      BY <1>1, <3>3 DEF MlmeDeauth, CloseDisconnects
    <3> QED
      BY <2>2, <3>1, <3>2, <3>3 DEF Joins
  <2>3. CASE JoinThread
    <3>1. CASE JoinLegacy
      BY <1>1, <3>1 DEF JoinLegacy, joinVars
    <3>2. CASE JoinLookup
      BY <1>1, <3>2 DEF JoinLookup
    <3>3. CASE JoinArm \/ JoinSend
      BY <1>1, <3>3 DEF JoinArm, JoinSend
    <3> QED
      BY <2>3, <3>1, <3>2, <3>3 DEF JoinThread
  <2>4. CASE RxThread
    BY <1>1, <2>4 DEF RxThread, RxAuthResp, RxSendAssoc, RxAssocResp, RxEapol, joinVars
  <2>5. ~\E kind \in {"pairwise", "group"} : WpaKeyStore(kind)
    BY DEF WpaKeyThread
  <2> QED
    BY <2>1, <2>2, <2>3, <2>4, <2>5, JoinStep
<1> QED
  BY <1>1, <1>2, <1>3, <1>4, <1>5 DEF InDriverInv, NoHandshakeYet

-----------------------------------------------------------------------------
(* The four-way handshake.  What it needs is said once for each access point *)
(* a: which of its messages are old, which are of the handshake it is in,    *)
(* and in which order they can lie in the queue, the inbox and the worker.   *)

\* The EAPOL frames the driver holds.
Held == {work.frame, inbox} \ {NoFrame}

\* The key was derived from the nonce n.
MadeFrom(key, n) == key # NoKey /\ key[2] = n

\* A frame's nonces were drawn before n.
Older(f, n) == /\ f.t = "M1" => f.n < n
               /\ f.t \in {"M2", "M3", "M4"} /\ f.key # NoKey => f.key[2] < n

\* Nonces are drawn once, and an access point's key is made from its own.
AirNonces ==
  /\ \A a \in Aps : ap[a].an < fresh
  /\ \A f \in Elems(up) \cup Elems(down) \cup Held : Older(f, fresh)
  /\ \A a \in Aps : ap[a].hs \in {"M3Sent", "Done"} =>
                     MadeFrom(ap[a].key, ap[a].an) /\ ap[a].key[1] = a

\* The driver's key is made from the nonce it holds.
KeyNonces == /\ anonce < fresh
             /\ ptk.tk = ptk.kck
             /\ ptk.kck # NoKey => ptk.kck[2] = anonce

NonceInv == AirNonces /\ KeyNonces

\* M1 of the handshake the access point is in, and any M1 it sent to us.
Current(f, a) == f.t = "M1" /\ f.n = ap[a].an
Ours(f, a)    == f.t = "M1" /\ f.ap = a /\ f.toUs

\* The response that makes the driver Connected.
Accepting(f, a) == f.t = "AssocResp" /\ f.ap = a /\ f.toUs /\ f.ok

\* M3 or M4 of the handshake the access point is in; the M2 it is waiting for.
Closing(f, a)   == f.t \in {"M3", "M4"} /\ f.ap = a /\ MadeFrom(f.key, ap[a].an)
Verifying(f, a) == /\ ap[a].hs = "M1Sent" /\ f.t = "M2" /\ f.ap = a
                   /\ f.key = Derive(a, ap[a].an, f.n)

\* No old M1 lies behind a current one, none at all behind M3.
DownOrder(a) ==
  \A f, g : Ahead(down, f, g) /\ Ours(g, a)
              => (Current(f, a) => Current(g, a)) /\ ~Closing(f, a)

\* Until the driver has taken the response, it has nothing of the handshake.
Pending(a) ==
  \A g \in Elems(down) : Accepting(g, a) =>
    /\ ap[a].hs = "M1Sent" /\ anonce # ap[a].an
    /\ \A f \in Held : ~Current(f, a)
    /\ \A f : Ahead(down, f, g) => ~Current(f, a)
    /\ \A f \in Elems(up) : ~Verifying(f, a)

\* Before M2 there is no M3 and no M4.
Unopened(a) ==
  ap[a].hs = "M1Sent" => \A f \in Elems(up) \cup Elems(down) \cup Held : ~Closing(f, a)

\* The driver is associated with a by a join with its passphrase.
Settled(a) == /\ joinState = "Connected" /\ joinBssid = a /\ pmk = a
              /\ join.pc \in {"idle", "send"}

AllCurrent(a) == \A f \in Elems(down) : Ours(f, a) => Current(f, a)
NoneLeft(a)   == \A f \in Elems(down) : ~Ours(f, a)

\* What the driver has come to, the messages behind it have come to as well.
Order(a) ==
  /\ anonce = ap[a].an => /\ ptkValid /\ AllCurrent(a)
                          /\ \A f \in Held : f.t = "M1" => Current(f, a)
  /\ work.frame # NoFrame /\ Current(work.frame, a) =>
        AllCurrent(a) /\ (inbox # NoFrame /\ inbox.t = "M1" => Current(inbox, a))
  /\ inbox # NoFrame /\ Current(inbox, a) => AllCurrent(a)
  /\ work.frame # NoFrame /\ Closing(work.frame, a) =>
        NoneLeft(a) /\ (inbox # NoFrame => inbox.t # "M1")
  /\ inbox # NoFrame /\ Closing(inbox, a) => NoneLeft(a)

\* An M2 the access point takes, or took, is made with the key the driver holds.
Answered(a) ==
  /\ \A f \in Elems(up) : Verifying(f, a) => anonce = ap[a].an /\ f.key = ptk.kck
  /\ ap[a].hs \in {"M3Sent", "Done"} => anonce = ap[a].an /\ ap[a].key = ptk.kck

\* M4 has arrived, or is on its way.
Confirmed(a) ==
  \/ ap[a].hs = "Done"
  \/ /\ ap[a].hs = "M3Sent"
     /\ \E f \in Elems(up) : f.t = "M4" /\ f.ap = a /\ f.key = ap[a].key

\* After M4 nothing begins the handshake again, and the keys get installed.
Closed(a) ==
  Confirmed(a) =>
    /\ NoneLeft(a) /\ \A f \in Held : f.t # "M1"
    /\ IF work.pc \in {"install", "commit", "finish"} THEN work.frame.ap = a
       ELSE eapolState = "Done"
    /\ budget.faults = MaxFaults =>
         work.pc = "install" \/ (ccmp /\ (work.pc = "commit" \/ gtk = a))

Handshake(a) ==
  ap[a].hs # "None" => /\ DownOrder(a) /\ Pending(a) /\ Unopened(a)
                       /\ Settled(a) => Order(a) /\ Answered(a) /\ Closed(a)

\* A frame that is neither M1 nor an acceptance of a's, and M3 only after M2.
Foreign(f, a) == /\ ~Ours(f, a) /\ ~Accepting(f, a)
                 /\ f.t \in {"M3", "M4"} /\ f.ap = a => ap[a].hs # "M1Sent"

\* A step that is none of a handshake with a: it leaves what the driver and a
\* hold of it alone, sends neither M2 nor M4, and puts nothing of it in the
\* queue.  If it makes the driver Connected, it takes an acceptance.
Calm(a) ==
  /\ UNCHANGED <<anonce, ptk, inbox, work, gtk>>
  /\ SameHandshake(ap'[a], ap[a])
  /\ \A f \in Elems(up') : f \in Elems(up) \/ f.t \in {"Auth", "AssocReq"}
  /\ \A f \in Elems(down') : f \in Elems(down) \/ Foreign(f, a)
  /\ \A f, g : Ahead(down', f, g) => Ahead(down, f, g) \/ Foreign(g, a)
  /\ budget'.faults = MaxFaults => budget.faults = MaxFaults
  /\ Settled(a)' => \/ Settled(a) /\ UNCHANGED <<ptkValid, eapolState, ccmp>>
                    \/ \E f \in Elems(down) : Accepting(f, a)

\* What a step has to leave alone for the handshake to stay in order.
LEMMA CalmKeeps ==
  ASSUME NEW a \in Aps, Handshake(a), Calm(a)
  PROVE  Handshake(a)'
<1> SUFFICES ASSUME ap'[a].hs # "None"
             PROVE  /\ DownOrder(a)' /\ Pending(a)' /\ Unopened(a)'
                    /\ (Settled(a) => Order(a) /\ Answered(a) /\ Closed(a))'
  BY DEF Handshake
<1>1. ap'[a].hs = ap[a].hs /\ ap'[a].an = ap[a].an /\ ap'[a].key = ap[a].key
  BY DEF Calm, SameHandshake
<1>2. /\ DownOrder(a) /\ Pending(a) /\ Unopened(a)
      /\ Settled(a) => Order(a) /\ Answered(a) /\ Closed(a)
  BY <1>1 DEF Handshake
<1>3. \A f : /\ Current(f, a)' <=> Current(f, a)
             /\ Closing(f, a)' <=> Closing(f, a)
             /\ Verifying(f, a)' <=> Verifying(f, a)
             /\ Ours(f, a)' <=> Ours(f, a)
             /\ Accepting(f, a)' <=> Accepting(f, a)
  BY <1>1 DEF Current, Closing, Verifying, Ours, Accepting
<1>4. Held' = Held /\ work' = work /\ inbox' = inbox /\ anonce' = anonce /\ ptk' = ptk
      /\ gtk' = gtk
  BY DEF Held, Calm
<1>5. /\ \A f \in Elems(up') : f \in Elems(up) \/ f.t \in {"Auth", "AssocReq"}
      /\ \A f \in Elems(down') : f \in Elems(down) \/ Foreign(f, a)
      /\ \A f, g : Ahead(down', f, g) => Ahead(down, f, g) \/ Foreign(g, a)
  BY DEF Calm
<1>6. \A f : Foreign(f, a) => /\ ~Ours(f, a) /\ ~Accepting(f, a)
                              /\ ap[a].hs = "M1Sent" => ~Closing(f, a)
  BY DEF Foreign, Closing
<1>7. \A f \in Elems(up') : f \in Elems(up) \/ (~Verifying(f, a) /\ f.t # "M4")
  BY <1>5 DEF Verifying
<1>8. DownOrder(a)'
  BY <1>2, <1>3, <1>5, <1>6 DEF DownOrder
<1>9. Pending(a)'
  BY <1>1, <1>2, <1>3, <1>4, <1>5, <1>6, <1>7 DEF Pending
<1>10. Unopened(a)'
  <2> SUFFICES ASSUME ap'[a].hs = "M1Sent", NEW f \in (Elems(up) \cup Elems(down) \cup Held)'
               PROVE  ~Closing(f, a)
    BY <1>3 DEF Unopened
  <2>1. CASE f \in Elems(up) \cup Elems(down) \cup Held
    BY <1>1, <1>2, <2>1 DEF Unopened
  <2>2. CASE f \in Elems(up')
    BY <1>5, <2>1, <2>2 DEF Closing
  <2>3. CASE f \in Elems(down')
    BY <1>1, <1>5, <1>6, <2>1, <2>3
  <2>4. f \in Elems(up') \cup Elems(down') \cup Held
    BY <1>4
  <2> QED
    BY <2>1, <2>2, <2>3, <2>4
<1>11. ASSUME Settled(a)' PROVE (Order(a) /\ Answered(a) /\ Closed(a))'
  <2>1. CASE Settled(a) /\ UNCHANGED <<ptkValid, eapolState, ccmp>>
    <3>1. Order(a) /\ Answered(a) /\ Closed(a)
      BY <1>2, <2>1
    <3>2. (AllCurrent(a) => AllCurrent(a)') /\ (NoneLeft(a) => NoneLeft(a)')
      BY <1>3, <1>5, <1>6 DEF AllCurrent, NoneLeft
    <3>3. Order(a)'
      BY <1>1, <1>3, <1>4, <2>1, <3>1, <3>2 DEF Order
    <3>4. Answered(a)'
      BY <1>1, <1>3, <1>4, <1>7, <3>1 DEF Answered
    <3>5. Confirmed(a)' => Confirmed(a)
      BY <1>1, <1>7 DEF Confirmed
    <3>6. Closed(a)'
      BY <1>4, <2>1, <3>1, <3>2, <3>5 DEF Closed, Calm
    <3> QED
      BY <3>3, <3>4, <3>6
  <2>2. ASSUME NEW g \in Elems(down), Accepting(g, a)
        PROVE  (Order(a) /\ Answered(a) /\ Closed(a))'
    <3>1. /\ ap[a].hs = "M1Sent" /\ anonce # ap[a].an
          /\ \A f \in Held : ~Current(f, a) /\ ~Closing(f, a)
          /\ \A f \in Elems(up) : ~Verifying(f, a)
      BY <1>2, <2>2 DEF Pending, Unopened
    <3>2. /\ work.frame # NoFrame => work.frame \in Held
          /\ inbox # NoFrame => inbox \in Held
      BY DEF Held
    <3>3. Order(a)'
      BY <1>1, <1>3, <1>4, <3>1, <3>2 DEF Order
    <3>4. Answered(a)'
      BY <1>1, <1>3, <1>4, <1>7, <3>1 DEF Answered
    <3>5. Closed(a)'
      BY <1>1, <3>1 DEF Closed, Confirmed
    <3> QED
      BY <3>3, <3>4, <3>5
  <2> QED
    BY <1>11, <2>1, <2>2 DEF Calm
<1> QED
  BY <1>8, <1>9, <1>10, <1>11

\* A step spends nothing, or one of one thing.
LEMMA SpendsOne ==
  ASSUME [Next]_vars
  PROVE  UNCHANGED budget
         \/ \E what \in {"joins", "faults", "cross", "stray", "sealed", "rekeys"} : Spend(what)
<1>1. CASE Joins \/ JoinThread
  BY <1>1 DEF Joins, JoinThread, JoinPsk, SetTarget, JoinMlme, SetWpaIe, MlmeDeauth,
              CloseDisconnects, JoinLegacy, JoinLookup, JoinArm, JoinSend, TransmitOk,
              TransmitFails, countVars
<1>2. CASE RxThread
  BY <1>2 DEF RxThread, RxAuthResp, RxSendAssoc, RxAssocResp, RxEapol, TransmitOk,
              TransmitFails, countVars
<1>3. CASE WorkThread
  BY <1>3 DEF WorkThread, WorkTake, HandleM1, SendM2, HandleM3, WorkInstall, WorkCommit,
              WorkFinish, TransmitOk, TransmitFails, countVars
<1>4. CASE WpaKeyThread
  BY <1>4 DEF WpaKeyThread, WpaKeyStore, WpaKeyInstall, WpaKeyArm, countVars
<1>5. CASE WriteThread
  BY <1>5 DEF WriteThread, WriteCheck, WriteLoadPn, WriteStorePn, WriteSeal
<1>6. CASE SupplicantReceives
  BY <1>6 DEF SupplicantReceives, TransmitOk
<1>7. CASE AccessPoints
  BY <1>7 DEF AccessPoints, ApReceives, ApRepeats
<1>8. CASE Hazards
  BY <1>8 DEF Hazards, Lose, GroupRekey, ApDrops, Overhear
<1>9. CASE UNCHANGED vars
  BY <1>9 DEF vars, countVars
<1> QED
  BY <1>1, <1>2, <1>3, <1>4, <1>5, <1>6, <1>7, <1>8, <1>9 DEF Next

\* What is left of the faults never grows.
LEMMA FaultsFall ==
  ASSUME TypeInv, [Next]_vars
  PROVE  budget'.faults = MaxFaults => budget.faults = MaxFaults
<1>1. UNCHANGED budget
      \/ \E what \in {"joins", "faults", "cross", "stray", "sealed", "rekeys"} : Spend(what)
  BY SpendsOne
<1>2. /\ budget \in [{"joins", "faults", "cross", "stray", "sealed", "rekeys"} -> Nat]
      /\ budget.faults \in Nat /\ budget.faults <= MaxFaults /\ MaxFaults \in Nat
  BY StationAssumption DEF TypeInv, AirTypes, Shapes
<1>3. budget'.faults = budget.faults \/ budget'.faults = budget.faults - 1
  BY <1>1, <1>2 DEF Spend
<1> QED
  BY <1>2, <1>3

\* Joining, receiving what is no EAPOL frame, writing and losing frames.
Quiet4Way == \/ Joins \/ JoinThread \/ WriteThread \/ SupplicantReceives \/ Lose
             \/ RxAuthResp \/ RxSendAssoc \/ RxAssocResp \/ UNCHANGED vars

\* They touch neither the nonces nor the keys, and only shorten the queue to us.
LEMMA QuietLeaves ==
  ASSUME TypeInv, InDriverOnly, InDriverInv, [Next]_vars, Quiet4Way
  PROVE  /\ UNCHANGED <<anonce, ptk, inbox, work, gtk, ap, fresh>>
         /\ \A f \in Elems(up') : f \in Elems(up) \/ f.t \in {"Auth", "AssocReq"}
         /\ down' = down \/ (down # <<>> /\ down' = Tail(down))
<1>1. CASE Joins
  <2>1. \A a \in Aps : ~JoinMlme(a)
    BY NoSupplicantStep
  <2>2. \A b \in BOOLEAN : ~SetWpaIe(b)
    BY NoSupplicantStep
  <2>3. UNCHANGED <<anonce, ptk, inbox, work, gtk, ap, fresh, up, down>>
    BY <1>1, <2>1, <2>2 DEF Joins, JoinPsk, SetTarget, MlmeDeauth, CloseDisconnects, hsVars,
         linkVars, airVars, countVars
  <2> QED
    BY <2>3
<1>2. CASE JoinLegacy \/ JoinLookup \/ JoinArm
  BY <1>2 DEF JoinLegacy, JoinLookup, JoinArm, hsVars, linkVars, airVars, countVars
<1>3. CASE JoinSend
  <2>1. Auth(joinBssid).ap # NoAp => Auth(joinBssid) \in Frame
    BY FrameKinds DEF TypeInv, JoinTypes, Auth, Msg, AnyKey, AnyAp
  <2>2. Elems(up') \subseteq Elems(up) \cup {Auth(joinBssid)} /\ Auth(joinBssid).t = "Auth"
    BY <1>3, <2>1, TransmitElems DEF JoinSend, Auth, Msg
  <2> QED
    BY <1>3, <2>2 DEF JoinSend, hsVars, linkVars
<1>4. CASE WriteThread
  BY <1>4 DEF WriteThread, WriteCheck, WriteLoadPn, WriteStorePn, WriteSeal, WriterOnly,
              hsVars, airVars
<1>5. CASE SupplicantReceives
  <2>1. UNCHANGED <<supplicant, fresh, up, budget>>
    BY <1>5, NoSupplicantStep
  <2> QED
    BY <1>5, <2>1 DEF SupplicantReceives, Receive, hsVars, linkVars
<1>6. CASE Lose
  <2>1. Elems(up') \subseteq Elems(up)
    BY <1>6, TakeFirst DEF Lose, TypeInv, AirTypes
  <2> QED
    BY <1>6, <2>1 DEF Lose, DriverOnly, hsVars, linkVars
<1>7. CASE RxAuthResp \/ RxAssocResp
  BY <1>7 DEF RxAuthResp, RxAssocResp, Receive, hsVars, linkVars, countVars
<1>8. CASE RxSendAssoc
  <2> DEFINE g == AssocReq(joinBssid, wpaIe)
  <2>1. /\ g.ap # NoAp => g \in Frame
        /\ g.t = "AssocReq"
    BY FrameKinds DEF TypeInv, JoinTypes, LinkTypes, AssocReq, Msg, AnyKey, AnyAp
  <2>2. Elems(up') \subseteq Elems(up) \cup {g}
    BY <1>8, <2>1, TransmitElems DEF RxSendAssoc
  <2> QED
    BY <1>8, <2>1, <2>2 DEF RxSendAssoc, hsVars, linkVars
<1>9. CASE UNCHANGED vars
  BY <1>9 DEF vars, hsVars, linkVars, airVars, countVars
<1> QED
  BY <1>1, <1>2, <1>3, <1>4, <1>5, <1>6, <1>7, <1>8, <1>9 DEF Quiet4Way, JoinThread

\* Of them, only an acceptance makes the driver Connected, and only a new join
\* touches what a settled one has.
LEMMA QuietSettles ==
  ASSUME TypeInv, InDriverOnly, InDriverInv, [Next]_vars, Quiet4Way,
         NEW a \in Aps, Settled(a)'
  PROVE  \/ Settled(a) /\ UNCHANGED <<ptkValid, eapolState, ccmp>>
         \/ \E f \in Elems(down) : Accepting(f, a)
<1>1. /\ joinState' = "Connected" /\ joinBssid' = a /\ pmk' = a
      /\ join'.pc \in {"idle", "send"} /\ a # NoAp
      /\ join \in [pc : {"idle", "target", "lookup", "arm", "send"}, ssid : AnyAp,
                   bssid : AnyAp]
  BY StationAssumption DEF Settled, TypeInv, JoinTypes
<1>2. CASE Joins
  <2>1. \A b \in Aps : ~JoinMlme(b)
    BY NoSupplicantStep
  <2>2. \A b \in BOOLEAN : ~SetWpaIe(b)
    BY NoSupplicantStep
  <2>3. ~\E b \in Aps : JoinPsk(b, b) \/ JoinPsk(b, NoAp) \/ SetTarget(b)
    BY <1>1 DEF JoinPsk, SetTarget
  <2> QED
    BY <1>1, <1>2, <2>1, <2>2, <2>3
       DEF Joins, MlmeDeauth, CloseDisconnects, Settled, credVars, hsVars, linkVars
<1>3. CASE JoinLegacy \/ JoinArm
  BY <1>1, <1>3 DEF JoinLegacy, JoinArm
<1>4. CASE JoinLookup
  <2>1. join.bssid = NoAp /\ joinBssid' = joinBssid /\ join.pc = "lookup"
    BY <1>1, <1>4 DEF JoinLookup
  <2> QED
    BY <1>1, <2>1 DEF InDriverInv
<1>5. CASE JoinSend
  BY <1>1, <1>5 DEF JoinSend, Settled, joinVars, credVars, hsVars, linkVars
<1>6. CASE WriteThread
  BY <1>1, <1>6 DEF WriteThread, WriteCheck, WriteLoadPn, WriteStorePn, WriteSeal, WriterOnly,
                    Settled, joinVars, credVars, hsVars
<1>7. CASE SupplicantReceives
  BY <1>1, <1>7 DEF SupplicantReceives, Settled, joinVars, credVars, hsVars, linkVars
<1>8. CASE Lose
  BY <1>1, <1>8 DEF Lose, DriverOnly, Settled, joinVars, credVars, hsVars, linkVars
<1>9. CASE RxAuthResp \/ RxSendAssoc
  BY <1>1, <1>9 DEF RxAuthResp, RxSendAssoc, Refused, Settled, joinVars, credVars, hsVars,
                    linkVars
<1>10. CASE RxAssocResp
  <2>1. Head(down) \in Elems(down) /\ Head(down).t = "AssocResp"
    BY <1>10, ReceiveType DEF RxAssocResp
  <2>2. /\ joinBssid = a /\ pmk = a /\ join.pc \in {"idle", "send"}
        /\ UNCHANGED <<ptkValid, eapolState, ccmp>>
    BY <1>1, <1>10 DEF RxAssocResp, credVars, hsVars, linkVars
  <2>3. CASE joinState' = joinState
    BY <1>1, <2>2, <2>3 DEF Settled
  <2>4. CASE Head(down).ok /\ FromOurAp(Head(down))
    BY <2>1, <2>2, <2>4 DEF FromOurAp, Accepting
  <2> QED
    BY <1>1, <1>10, <2>3, <2>4 DEF RxAssocResp, Refused
<1>11. CASE UNCHANGED vars
  BY <1>1, <1>11 DEF vars, Settled, joinVars, credVars, hsVars, linkVars
<1> QED
  BY <1>2, <1>3, <1>4, <1>5, <1>6, <1>7, <1>8, <1>9, <1>10, <1>11 DEF Quiet4Way, JoinThread

\* So none of them disturbs a handshake.
LEMMA QuietIsCalm ==
  ASSUME TypeInv, InDriverOnly, InDriverInv, [Next]_vars, Quiet4Way, NEW a \in Aps
  PROVE  Calm(a)
<1>1. /\ Elems(down') \subseteq Elems(down)
      /\ \A f, g : Ahead(down', f, g) => Ahead(down, f, g)
  BY QuietLeaves, TakeFirst DEF TypeInv, AirTypes
<1>2. UNCHANGED <<anonce, ptk, inbox, work, gtk, ap, fresh>>
      /\ \A f \in Elems(up') : f \in Elems(up) \/ f.t \in {"Auth", "AssocReq"}
  BY QuietLeaves
<1> QED
  BY <1>1, <1>2, QuietSettles, FaultsFall DEF Calm, SameHandshake

\* What an access point thinks of a frame depends on its handshake only.
LEMMA SameView ==
  ASSUME NEW a, SameHandshake(ap'[a], ap[a])
  PROVE  \A f : /\ Current(f, a)' <=> Current(f, a)
                /\ Closing(f, a)' <=> Closing(f, a)
                /\ Verifying(f, a)' <=> Verifying(f, a)
                /\ Ours(f, a)' <=> Ours(f, a)
                /\ Accepting(f, a)' <=> Accepting(f, a)
BY DEF SameHandshake, Current, Closing, Verifying, Ours, Accepting

\* An EAPOL frame goes to the inbox.  What is behind it in the queue has to
\* fit to it: DownOrder.
LEMMA RxEapolKeeps ==
  ASSUME TypeInv, NEW a \in Aps, Handshake(a), RxEapol
  PROVE  Handshake(a)'
<1> DEFINE h == Head(down)
<1>1. /\ h \in Elems(down) /\ h.t \in {"M1", "M3"}
      /\ Elems(down') \subseteq Elems(down)
      /\ \A g \in Elems(down') : Ahead(down, h, g)
      /\ \A f, g : Ahead(down', f, g) => Ahead(down, f, g)
  BY TakeFirst DEF RxEapol, Receive, TypeInv, AirTypes
<1>2. /\ UNCHANGED <<joinState, joinBssid, join, pmk, anonce, ptk, ptkValid, eapolState,
                     work, gtk, ccmp, up, ap, budget>>
      /\ inbox' = inbox \/ (inbox' = h /\ h.ap = joinBssid /\ h.toUs)
  BY DEF RxEapol, FromOurAp, joinVars, credVars, hsVars, linkVars, countVars
<1> HIDE DEF h
<1> SUFFICES ASSUME ap[a].hs # "None"
             PROVE  /\ DownOrder(a)' /\ Pending(a)' /\ Unopened(a)'
                    /\ (Settled(a) => Order(a) /\ Answered(a) /\ Closed(a))'
  BY <1>2 DEF Handshake
<1>3. /\ DownOrder(a) /\ Pending(a) /\ Unopened(a)
      /\ Settled(a) => Order(a) /\ Answered(a) /\ Closed(a)
  BY DEF Handshake
<1>4. \A f : /\ Current(f, a)' <=> Current(f, a)
             /\ Closing(f, a)' <=> Closing(f, a)
             /\ Verifying(f, a)' <=> Verifying(f, a)
             /\ Ours(f, a)' <=> Ours(f, a)
             /\ Accepting(f, a)' <=> Accepting(f, a)
  BY <1>2, SameView DEF SameHandshake
<1>5. /\ Held' \subseteq Held \cup {h}
      /\ work.frame # NoFrame => work.frame \in Held
      /\ inbox # NoFrame => inbox \in Held
  BY <1>2 DEF Held
<1>6. DownOrder(a)'
  BY <1>1, <1>3, <1>4 DEF DownOrder
<1>7. Pending(a)'
  BY <1>1, <1>2, <1>3, <1>4, <1>5 DEF Pending
<1>8. Unopened(a)'
  BY <1>1, <1>2, <1>3, <1>4, <1>5 DEF Unopened
<1>9. ASSUME Settled(a)' PROVE (Order(a) /\ Answered(a) /\ Closed(a))'
  <2>1. Order(a) /\ Answered(a) /\ Closed(a) /\ joinBssid = a
    BY <1>2, <1>3, <1>9 DEF Settled
  <2>2. /\ AllCurrent(a) => AllCurrent(a)'
        /\ NoneLeft(a) => NoneLeft(a)'
        /\ Current(h, a) => AllCurrent(a)'
        /\ Closing(h, a) => NoneLeft(a)'
    BY <1>1, <1>3, <1>4 DEF AllCurrent, NoneLeft, DownOrder
  <2>3. inbox' = inbox \/ (inbox' = h /\ (h.t = "M1" => Ours(h, a)))
    BY <1>2, <2>1 DEF Ours
  <2>4. /\ AllCurrent(a) /\ Ours(h, a) => Current(h, a)
        /\ NoneLeft(a) => ~Ours(h, a)
    BY <1>1 DEF AllCurrent, NoneLeft
  <2>5. Order(a)'
    <3>1. (anonce = ap[a].an => /\ ptkValid /\ AllCurrent(a)
                                /\ \A f \in Held : f.t = "M1" => Current(f, a))'
      BY <1>2, <1>4, <2>1, <2>2, <2>3, <2>4 DEF Order, Held
    <3>2. (work.frame # NoFrame /\ Current(work.frame, a) =>
            AllCurrent(a) /\ (inbox # NoFrame /\ inbox.t = "M1" => Current(inbox, a)))'
      BY <1>2, <1>4, <2>1, <2>2, <2>3, <2>4 DEF Order
    <3>3. (inbox # NoFrame /\ Current(inbox, a) => AllCurrent(a))'
      BY <1>2, <1>4, <2>1, <2>2, <2>3 DEF Order
    <3>4. (work.frame # NoFrame /\ Closing(work.frame, a) =>
            NoneLeft(a) /\ (inbox # NoFrame => inbox.t # "M1"))'
      BY <1>2, <1>4, <2>1, <2>2, <2>3, <2>4 DEF Order
    <3>5. (inbox # NoFrame /\ Closing(inbox, a) => NoneLeft(a))'
      BY <1>2, <1>4, <2>1, <2>2, <2>3 DEF Order
    <3> QED
      BY <3>1, <3>2, <3>3, <3>4, <3>5 DEF Order
  <2>6. Answered(a)'
    BY <1>2, <1>4, <2>1 DEF Answered
  <2>7. Closed(a)'
    <3>1. Confirmed(a)' => Confirmed(a)
      BY <1>2 DEF Confirmed
    <3>2. Confirmed(a) => \A f \in Held' : f.t # "M1"
      BY <1>2, <2>1, <2>3, <2>4 DEF Closed, Held
    <3> QED
      BY <1>2, <2>1, <2>2, <3>1, <3>2 DEF Closed
  <2> QED
    BY <2>5, <2>6, <2>7
<1> QED
  BY <1>6, <1>7, <1>8, <1>9

\* The worker leaves the queue to it, the access points and the join alone.
LEMMA WorkView ==
  ASSUME NEW a \in Aps, WorkThread
  PROVE  /\ UNCHANGED <<ap, down>>
         /\ \A f : /\ Current(f, a)' <=> Current(f, a)
                   /\ Closing(f, a)' <=> Closing(f, a)
                   /\ Verifying(f, a)' <=> Verifying(f, a)
                   /\ Ours(f, a)' <=> Ours(f, a)
                   /\ Accepting(f, a)' <=> Accepting(f, a)
         /\ AllCurrent(a)' <=> AllCurrent(a)
         /\ NoneLeft(a)' <=> NoneLeft(a)
         /\ Settled(a)' <=> Settled(a)
         /\ DownOrder(a)' <=> DownOrder(a)
<1>1. UNCHANGED <<joinState, joinBssid, pmk, join, ap, down>>
  BY DEF WorkThread, WorkTake, HandleM1, SendM2, HandleM3, WorkInstall, WorkCommit,
         WorkFinish, WorkerOnly, joinVars, credVars
<1>2. \A f : /\ Current(f, a)' <=> Current(f, a)
             /\ Closing(f, a)' <=> Closing(f, a)
             /\ Verifying(f, a)' <=> Verifying(f, a)
             /\ Ours(f, a)' <=> Ours(f, a)
             /\ Accepting(f, a)' <=> Accepting(f, a)
  BY <1>1, SameView DEF SameHandshake
<1> QED
  BY <1>1, <1>2 DEF AllCurrent, NoneLeft, Settled, DownOrder

\* The worker empties the inbox.
LEMMA WorkTakeKeeps ==
  ASSUME TypeInv, NEW a \in Aps, Handshake(a), WorkTake
  PROVE  Handshake(a)'
<1>1. WorkThread
  BY DEF WorkThread
<1>2. /\ UNCHANGED <<anonce, ptk, ptkValid, eapolState, gtk, ccmp, up, budget>>
      /\ work.pc = "idle" /\ work.frame = NoFrame /\ inbox # NoFrame
      /\ work' = [pc |-> "handle", frame |-> inbox] /\ inbox' = NoFrame
  BY DEF WorkTake, TypeInv, Shapes, hsVars, linkVars, countVars
<1>3. work'.frame = inbox /\ work'.pc = "handle"
  BY <1>2
<1>4. Held' = Held
  BY <1>2, <1>3 DEF Held
<1> SUFFICES ASSUME ap[a].hs # "None"
             PROVE  /\ Pending(a)' /\ Unopened(a)'
                    /\ (Settled(a) => Order(a) /\ Answered(a) /\ Closed(a))'
  BY <1>1, WorkView DEF Handshake
<1>5. /\ Pending(a) /\ Unopened(a)
      /\ Settled(a) => Order(a) /\ Answered(a) /\ Closed(a)
  BY DEF Handshake
<1>6. Pending(a)'
  BY <1>1, <1>2, <1>4, <1>5, WorkView DEF Pending
<1>7. Unopened(a)'
  BY <1>1, <1>2, <1>4, <1>5, WorkView DEF Unopened
<1>8. ASSUME Settled(a)' PROVE (Order(a) /\ Answered(a) /\ Closed(a))'
  <2>1. Order(a) /\ Answered(a) /\ Closed(a)
    BY <1>1, <1>5, <1>8, WorkView
  <2>2. Order(a)'
    BY <1>1, <1>2, <1>3, <1>4, <2>1, WorkView DEF Order
  <2>3. Answered(a)'
    BY <1>1, <1>2, <2>1, WorkView DEF Answered
  <2>4. Confirmed(a)' => Confirmed(a)
    BY <1>1, <1>2, WorkView DEF Confirmed
  <2>5. Closed(a)'
    BY <1>1, <1>2, <1>3, <1>4, <2>1, <2>4, WorkView DEF Closed
  <2> QED
    BY <2>2, <2>3, <2>5
<1> QED
  BY <1>6, <1>7, <1>8

\* M1.  If it changes the PTK, no M2 made with the old one is of any use to a.
LEMMA HandleM1Keeps ==
  ASSUME TypeInv, NonceInv, InDriverInv, NEW a \in Aps, Handshake(a), HandleM1
  PROVE  Handshake(a)'
<1>1. WorkThread
  BY DEF WorkThread
<1>2. /\ UNCHANGED <<eapolState, inbox, gtk, ccmp, up, budget>>
      /\ work.pc = "handle" /\ work.frame.t = "M1" /\ anonce' = work.frame.n
      /\ \/ anonce' = anonce /\ ptkValid /\ UNCHANGED <<ptk, ptkValid>>
         \/ ptkValid' /\ ~SameAnonce
      /\ work' = [work EXCEPT !.pc = "sendM2"] \/ work' = [pc |-> "idle", frame |-> NoFrame]
  <2>1. work.pc = "handle"
    BY DEF HandleM1
  <2>2. pmk # NoAp
    BY <2>1 DEF InDriverInv, NoHandshakeYet
  <2> QED
    BY <2>1, <2>2 DEF HandleM1, SameAnonce, linkVars
<1>3. work.frame # NoFrame /\ work.frame \in Held
  BY <1>2 DEF TypeInv, Shapes, Held
<1>4. /\ work'.frame = work.frame \/ work'.frame = NoFrame
      /\ work'.pc \in {"sendM2", "idle"}
      /\ Held' \subseteq Held
  <2>1. CASE work' = [work EXCEPT !.pc = "sendM2"]
    <3>1. work'.frame = work.frame /\ work'.pc = "sendM2"
      BY <2>1 DEF TypeInv, ThreadTypes
    <3> QED
      BY <1>2, <3>1 DEF Held
  <2>2. CASE work' = [pc |-> "idle", frame |-> NoFrame]
    <3>1. work'.frame = NoFrame /\ work'.pc = "idle"
      BY <2>2
    <3> QED
      BY <1>2, <3>1 DEF Held
  <2> QED
    BY <1>2, <2>1, <2>2
<1> SUFFICES ASSUME ap[a].hs # "None"
             PROVE  /\ Pending(a)' /\ Unopened(a)'
                    /\ (Settled(a) => Order(a) /\ Answered(a) /\ Closed(a))'
  BY <1>1, WorkView DEF Handshake
<1>5. /\ Pending(a) /\ Unopened(a)
      /\ Settled(a) => Order(a) /\ Answered(a) /\ Closed(a)
  BY DEF Handshake
<1>6. Current(work.frame, a) <=> anonce' = ap[a].an
  BY <1>2 DEF Current
<1>7. Pending(a)'
  BY <1>1, <1>2, <1>3, <1>4, <1>5, <1>6, WorkView DEF Pending
<1>8. Unopened(a)'
  BY <1>1, <1>2, <1>4, <1>5, WorkView DEF Unopened
<1>9. ASSUME Settled(a)' PROVE (Order(a) /\ Answered(a) /\ Closed(a))'
  <2>1. Order(a) /\ Answered(a) /\ Closed(a)
    BY <1>1, <1>5, <1>9, WorkView
  <2>2. Order(a)'
    <3>1. ptkValid'
      BY <1>2
    <3>2. anonce' = ap[a].an => /\ AllCurrent(a)
                                /\ \A f \in Held : f.t = "M1" => Current(f, a)
      BY <1>3, <1>6, <2>1 DEF Order, Held
    <3> QED
      BY <1>1, <1>2, <1>3, <1>4, <2>1, <3>1, <3>2, WorkView DEF Order
  <2>3. Answered(a)'
    <3>1. CASE anonce' = anonce /\ UNCHANGED ptk
      BY <1>1, <1>2, <2>1, <3>1, WorkView DEF Answered
    <3>2. CASE ~SameAnonce
      <4>1. anonce # ap[a].an
        BY <1>2, <1>3, <2>1, <3>2 DEF Order, Current, SameAnonce
      <4>2. ap[a].hs \notin {"M3Sent", "Done"} /\ \A f \in Elems(up) : ~Verifying(f, a)
        BY <2>1, <4>1 DEF Answered
      <4> QED
        BY <1>1, <1>2, <4>2, WorkView DEF Answered
    <3> QED
      BY <1>2, <3>1, <3>2
  <2>4. Closed(a)'
    <3>1. ~Confirmed(a)
      BY <1>2, <1>3, <2>1 DEF Closed
    <3>2. ~Confirmed(a)'
      BY <1>1, <1>2, <3>1, WorkView DEF Confirmed
    <3> QED
      BY <3>2 DEF Closed
  <2> QED
    BY <2>2, <2>3, <2>4
<1> QED
  BY <1>7, <1>8, <1>9

\* The worker's answers.
LEMMA WorkFrames ==
  ASSUME TypeInv, work.frame # NoFrame
  PROVE  /\ M2(work.frame.ap, snonce, ptk.kck) \in Frame
         /\ M4(work.frame.ap, ptk.kck) \in Frame
<1>1. work.frame.ap \in Aps /\ snonce \in Nat /\ ptk.kck \in AnyKey
  BY DEF TypeInv, ThreadTypes, LinkTypes, Frame
<1> QED
  BY <1>1, FrameKinds

\* M2 is made with the PTK held, and so with the nonce held.
LEMMA SendM2Keeps ==
  ASSUME TypeInv, NonceInv, NEW a \in Aps, Handshake(a), SendM2
  PROVE  Handshake(a)'
<1> DEFINE m == M2(work.frame.ap, snonce, ptk.kck)
<1>1. WorkThread
  BY DEF WorkThread
<1>2. /\ UNCHANGED <<anonce, ptk, ptkValid, inbox, gtk, ccmp>>
      /\ work.pc = "sendM2" /\ work.frame.t = "M1" /\ work.frame \in Held
      /\ work'.pc = "idle" /\ work'.frame = NoFrame
  BY DEF SendM2, TypeInv, Shapes, Held, linkVars
<1>3. /\ Held' \subseteq Held
      /\ inbox # NoFrame => inbox \in Held
  BY <1>2 DEF Held
<1>4. m.t = "M2" /\ m.ap = work.frame.ap /\ m.key = ptk.kck
  BY DEF M2, Msg
<1>5. Elems(up') \subseteq Elems(up) \cup {m}
  <2>1. m \in Frame
    BY <1>2, WorkFrames DEF Held
  <2> QED
    BY <2>1, TransmitElems DEF SendM2
<1>6. Verifying(m, a) => anonce = ap[a].an
  <2> SUFFICES ASSUME Verifying(m, a) PROVE anonce = ap[a].an
    OBVIOUS
  <2>1. ptk.kck = <<a, ap[a].an, snonce>>
    BY <1>4 DEF Verifying, Derive, M2, Msg
  <2>2. ap[a].an \in Nat /\ snonce \in Nat
    BY DEF TypeInv, AirTypes, LinkTypes
  <2>3. ptk.kck # NoKey
    BY <2>1, <2>2, StationAssumption
  <2> QED
    BY <2>1, <2>3 DEF NonceInv, AirNonces, KeyNonces
<1>7. /\ \A f \in Elems(up') : f \in Elems(up) \/ f = m
      /\ Verifying(m, a) => anonce = ap[a].an /\ m.key = ptk.kck
      /\ ~Closing(m, a) /\ m.t # "M4"
  BY <1>4, <1>5, <1>6 DEF Closing
<1> HIDE DEF m
<1> SUFFICES ASSUME ap[a].hs # "None"
             PROVE  /\ Pending(a)' /\ Unopened(a)'
                    /\ (Settled(a) => Order(a) /\ Answered(a) /\ Closed(a))'
  BY <1>1, WorkView DEF Handshake
<1>8. /\ Pending(a) /\ Unopened(a)
      /\ Settled(a) => Order(a) /\ Answered(a) /\ Closed(a)
  BY DEF Handshake
<1>9. Pending(a)'
  BY <1>1, <1>2, <1>3, <1>7, <1>8, WorkView DEF Pending
<1>10. Unopened(a)'
  BY <1>1, <1>2, <1>3, <1>7, <1>8, WorkView DEF Unopened
<1>11. ASSUME Settled(a)' PROVE (Order(a) /\ Answered(a) /\ Closed(a))'
  <2>1. Order(a) /\ Answered(a) /\ Closed(a)
    BY <1>1, <1>8, <1>11, WorkView
  <2>2. Order(a)'
    BY <1>1, <1>2, <1>3, <2>1, WorkView DEF Order
  <2>3. Answered(a)'
    BY <1>1, <1>2, <1>7, <2>1, WorkView DEF Answered
  <2>4. ~Confirmed(a)
    BY <1>2, <2>1 DEF Closed
  <2>5. ~Confirmed(a)'
    BY <1>1, <1>7, <2>4, WorkView DEF Confirmed
  <2> QED
    BY <2>2, <2>3, <2>5 DEF Closed
<1> QED
  BY <1>9, <1>10, <1>11

\* M3.  M4 confirms the handshake only if the M3 was of it, and then no M1 is left.
LEMMA HandleM3Keeps ==
  ASSUME TypeInv, NonceInv, NEW a \in Aps, Handshake(a), HandleM3,
         budget'.faults = MaxFaults => budget.faults = MaxFaults
  PROVE  Handshake(a)'
<1> DEFINE m == M4(work.frame.ap, ptk.kck)
           verified == eapolState = "WaitM3" /\ work.frame.key = ptk.kck
<1>1. WorkThread
  BY DEF WorkThread
<1>2. /\ UNCHANGED <<anonce, ptk, ptkValid, eapolState, inbox, gtk, ccmp>>
      /\ work.pc = "handle" /\ work.frame.t = "M3" /\ work.frame \in Held
  BY DEF HandleM3, TypeInv, Shapes, Held, linkVars, hsVars
<1>3. \/ /\ verified /\ Elems(up') \subseteq Elems(up) \cup {m}
         /\ work'.pc = "install" /\ work'.frame = work.frame
      \/ Elems(up') \subseteq Elems(up) /\ work'.pc = "idle" /\ work'.frame = NoFrame
  <2>1. m \in Frame
    BY <1>2, WorkFrames DEF Held
  <2>2. ASSUME verified, TransmitOk(m), work' = [work EXCEPT !.pc = "install"]
        PROVE  <1>3!1
    BY <2>1, <2>2, TransmitElems DEF TypeInv, ThreadTypes
  <2> QED
    BY <2>2 DEF HandleM3, TransmitFails
<1>4. /\ Held' \subseteq Held
      /\ inbox # NoFrame => inbox \in Held
  BY <1>2, <1>3 DEF Held
<1>5. m.t = "M4" /\ m.ap = work.frame.ap /\ m.key = ptk.kck
  BY DEF M4, Msg
<1>6. verified /\ Closing(m, a) => Closing(work.frame, a)
  BY <1>2, <1>5 DEF Closing
<1>7. ~Verifying(m, a)
  BY <1>5 DEF Verifying
<1> HIDE DEF m
<1> SUFFICES ASSUME ap[a].hs # "None"
             PROVE  /\ Pending(a)' /\ Unopened(a)'
                    /\ (Settled(a) => Order(a) /\ Answered(a) /\ Closed(a))'
  BY <1>1, WorkView DEF Handshake
<1>8. /\ Pending(a) /\ Unopened(a)
      /\ Settled(a) => Order(a) /\ Answered(a) /\ Closed(a)
  BY DEF Handshake
<1>9. Pending(a)'
  BY <1>1, <1>2, <1>3, <1>4, <1>7, <1>8, WorkView DEF Pending
<1>10. Unopened(a)'
  BY <1>1, <1>2, <1>3, <1>4, <1>6, <1>8, WorkView DEF Unopened
<1>11. ASSUME Settled(a)' PROVE (Order(a) /\ Answered(a) /\ Closed(a))'
  <2>1. Order(a) /\ Answered(a) /\ Closed(a)
    BY <1>1, <1>8, <1>11, WorkView
  <2>2. Order(a)'
    BY <1>1, <1>2, <1>3, <1>4, <2>1, WorkView DEF Order
  <2>3. Answered(a)'
    BY <1>1, <1>2, <1>3, <1>7, <2>1, WorkView DEF Answered
  <2>4. Closed(a)'
    <3>1. CASE Confirmed(a)
      <4>1. /\ NoneLeft(a) /\ \A f \in Held : f.t # "M1"
            /\ eapolState = "Done"
            /\ budget.faults = MaxFaults => ccmp /\ gtk = a
        BY <1>2, <2>1, <3>1 DEF Closed
      <4> QED
        BY <1>1, <1>2, <1>3, <1>4, <4>1, WorkView DEF Closed
    <3>2. CASE ~Confirmed(a) /\ Confirmed(a)'
      <4>1. verified /\ work'.pc = "install" /\ work'.frame = work.frame
            /\ work.frame.ap = a /\ ptk.kck = ap[a].key /\ ap[a].hs = "M3Sent"
        BY <1>1, <1>3, <1>5, <3>2, WorkView DEF Confirmed
      <4>2. Closing(work.frame, a)
        BY <1>2, <4>1 DEF Closing, NonceInv, AirNonces, KeyNonces
      <4>3. NoneLeft(a) /\ (inbox # NoFrame => inbox.t # "M1")
        BY <1>2, <2>1, <4>2 DEF Order, Held
      <4>4. \A f \in Held' : f.t # "M1"
        BY <1>2, <4>1, <4>3 DEF Held
      <4> QED
        BY <1>1, <4>1, <4>3, <4>4, WorkView DEF Closed
    <3> QED
      BY <3>1, <3>2 DEF Closed
  <2> QED
    BY <2>2, <2>3, <2>4
<1> QED
  BY <1>9, <1>10, <1>11

\* The keys go into the hardware, and the handshake is over.
LEMMA InstallKeeps ==
  ASSUME TypeInv, NEW a \in Aps, Handshake(a), WorkInstall \/ WorkCommit \/ WorkFinish,
         budget'.faults = MaxFaults => budget.faults = MaxFaults
  PROVE  Handshake(a)'
<1>1. WorkThread
  BY DEF WorkThread
<1>2. /\ UNCHANGED <<anonce, ptk, ptkValid, inbox, up>>
      /\ work'.frame = work.frame \/ work'.frame = NoFrame
      /\ \/ /\ work.pc = "install" /\ eapolState' = eapolState /\ gtk' = gtk
            /\ work'.frame = work.frame
            /\ \/ work'.pc = "commit" /\ ccmp' = TRUE
               \/ work'.pc = "finish" /\ Spend("faults")
         \/ /\ work.pc = "commit" /\ eapolState' = eapolState /\ ccmp' = ccmp
            /\ work'.frame = work.frame /\ work'.pc = "finish" /\ gtk' = work.frame.ap
         \/ /\ work.pc = "finish" /\ eapolState' = "Done" /\ ccmp' = ccmp /\ gtk' = gtk
            /\ work'.pc = "idle" /\ work'.frame = NoFrame
  <2>1. CASE WorkInstall
    BY <2>1 DEF WorkInstall, InstallFailed, TypeInv, ThreadTypes, hsVars
  <2>2. CASE WorkCommit
    BY <2>2 DEF WorkCommit, TypeInv, ThreadTypes, hsVars
  <2>3. CASE WorkFinish
    BY <2>3 DEF WorkFinish, linkVars
  <2> QED
    BY <2>1, <2>2, <2>3
<1>3. Held' \subseteq Held
  BY <1>2 DEF Held
<1> SUFFICES ASSUME ap[a].hs # "None"
             PROVE  /\ Pending(a)' /\ Unopened(a)'
                    /\ (Settled(a) => Order(a) /\ Answered(a) /\ Closed(a))'
  BY <1>1, WorkView DEF Handshake
<1>4. /\ Pending(a) /\ Unopened(a)
      /\ Settled(a) => Order(a) /\ Answered(a) /\ Closed(a)
  BY DEF Handshake
<1>5. Pending(a)'
  BY <1>1, <1>2, <1>3, <1>4, WorkView DEF Pending
<1>6. Unopened(a)'
  BY <1>1, <1>2, <1>3, <1>4, WorkView DEF Unopened
<1>7. ASSUME Settled(a)' PROVE (Order(a) /\ Answered(a) /\ Closed(a))'
  <2>1. Order(a) /\ Answered(a) /\ Closed(a)
    BY <1>1, <1>4, <1>7, WorkView
  <2>2. Order(a)'
    BY <1>1, <1>2, <1>3, <2>1, WorkView DEF Order
  <2>3. Answered(a)'
    BY <1>1, <1>2, <2>1, WorkView DEF Answered
  <2>4. Closed(a)'
    <3> SUFFICES ASSUME Confirmed(a)
                 PROVE  (/\ NoneLeft(a) /\ \A f \in Held : f.t # "M1"
                         /\ IF work.pc \in {"install", "commit", "finish"}
                            THEN work.frame.ap = a ELSE eapolState = "Done"
                         /\ budget.faults = MaxFaults =>
                              work.pc = "install" \/ (ccmp /\ (work.pc = "commit" \/ gtk = a)))'
      BY <1>1, <1>2, WorkView DEF Closed, Confirmed
    <3>1. /\ NoneLeft(a) /\ \A f \in Held : f.t # "M1"
          /\ work.frame.ap = a
          /\ budget.faults = MaxFaults =>
               work.pc = "install" \/ (ccmp /\ (work.pc = "commit" \/ gtk = a))
      BY <1>2, <2>1 DEF Closed
    <3>2. Spend("faults") => budget'.faults # MaxFaults
      BY DEF Spend, TypeInv, AirTypes, Shapes
    <3> QED
      BY <1>1, <1>2, <1>3, <3>1, <3>2, WorkView
  <2> QED
    BY <2>2, <2>3, <2>4
<1> QED
  BY <1>5, <1>6, <1>7

\* What an access point sends lies behind everything that was sent before.
LEMMA SendsBehind ==
  ASSUME TypeInv, NEW e \in Frame, ApSends(<<e>>)
  PROVE  /\ Elems(down') = Elems(down) \cup {e}
         /\ \A f, g : Ahead(down', f, g) => Ahead(down, f, g) \/ (f \in Elems(down) /\ g = e)
<1> DEFINE q == down \o <<e>>
<1>1. down \in Seq(Frame)
  BY DEF TypeInv, AirTypes
<1>2. /\ Elems(q) = Elems(down) \cup {e}
      /\ \A f, g : Ahead(q, f, g) <=> Ahead(down, f, g) \/ (f \in Elems(down) /\ g = e)
  BY <1>1, PutLast
<1>3. down' = q
  BY DEF ApSends
<1> HIDE DEF q
<1> QED
  BY <1>2, <1>3

\* The response to an association request and the first M1 go together.
LEMMA SendsTwoBehind ==
  ASSUME TypeInv, NEW d \in Frame, NEW e \in Frame, ApSends(<<d, e>>)
  PROVE  /\ Elems(down') = Elems(down) \cup {d, e}
         /\ \A f, g : Ahead(down', f, g) =>
              Ahead(down, f, g) \/ (f \in Elems(down) \cup {d} /\ g \in {d, e})
<1>1. down \in Seq(Frame)
  BY DEF TypeInv, AirTypes
<1>2. Elems(down') = Elems(down) \cup {d, e}
  BY <1>1, PutTwo DEF ApSends
<1>3. \A f, g : Ahead(down', f, g) =>
        Ahead(down, f, g) \/ (f \in Elems(down) \cup {d} /\ g \in {d, e})
  <2> SUFFICES ASSUME NEW f, NEW g, Ahead(down', f, g)
               PROVE  Ahead(down, f, g) \/ (f \in Elems(down) \cup {d} /\ g \in {d, e})
    OBVIOUS
  <2>1. Ahead(down \o <<d, e>>, f, g)
    BY DEF ApSends
  <2> QED
    BY <1>1, <2>1, PutTwo
<1> QED
  BY <1>2, <1>3

\* The driver stands still while the air and the access points move.
AirMoves == /\ UNCHANGED DriverOnly
            /\ \A f \in Elems(up') : f \in Elems(up)
            /\ budget'.faults = MaxFaults => budget.faults = MaxFaults

\* What the driver holds, and whether it is associated, is as before.
LEMMA AirView ==
  ASSUME NEW a \in Aps, AirMoves
  PROVE  /\ UNCHANGED <<anonce, ptk, ptkValid, eapolState, inbox, work, gtk, ccmp>>
         /\ Held' = Held
         /\ Settled(a)' <=> Settled(a)
<1>1. UNCHANGED <<anonce, ptk, ptkValid, eapolState, inbox, work, gtk, ccmp, joinState,
                  joinBssid, pmk, join>>
  BY DEF AirMoves, DriverOnly, joinVars, credVars, hsVars, linkVars
<1> QED
  BY <1>1 DEF Held, Settled

\* A frame that is none of a handshake with a does not disturb it.
LEMMA AirIsCalm ==
  ASSUME TypeInv, NEW a \in Aps, AirMoves, SameHandshake(ap'[a], ap[a]),
         \/ down' = down
         \/ \E e \in Frame : Foreign(e, a) /\ ApSends(<<e>>)
         \/ \E d, e \in Frame : Foreign(d, a) /\ Foreign(e, a) /\ ApSends(<<d, e>>)
  PROVE  Calm(a)
<1>1. /\ \A f \in Elems(down') : f \in Elems(down) \/ Foreign(f, a)
      /\ \A f, g : Ahead(down', f, g) => Ahead(down, f, g) \/ Foreign(g, a)
  <2>1. CASE down' = down
    BY <2>1
  <2>2. ASSUME NEW e \in Frame, Foreign(e, a), ApSends(<<e>>) PROVE <1>1!:
    BY <2>2, SendsBehind
  <2>3. ASSUME NEW d \in Frame, NEW e \in Frame, Foreign(d, a), Foreign(e, a),
               ApSends(<<d, e>>)
        PROVE  <1>1!:
    BY <2>3, SendsTwoBehind
  <2> QED
    BY <2>1, <2>2, <2>3
<1>2. /\ UNCHANGED <<anonce, ptk, ptkValid, eapolState, inbox, work, gtk, ccmp>>
      /\ Settled(a)' <=> Settled(a)
  BY AirView
<1> QED
  BY <1>1, <1>2 DEF Calm, AirMoves

\* A new association: nothing that is anywhere belongs to the new handshake.
LEMMA AssociatesKeeps ==
  ASSUME TypeInv, NonceInv, NEW a \in Aps, AirMoves,
         ap'[a].hs = "M1Sent", ap'[a].an = fresh,
         NEW d \in Frame, d.t = "AssocResp", NEW e \in Frame, e.t = "M1",
         ApSends(<<d, e>>)
  PROVE  Handshake(a)'
<1>1. fresh \in Nat
  BY DEF TypeInv, AirTypes
<1>2. /\ Elems(down') = Elems(down) \cup {d, e}
      /\ \A f, g : Ahead(down', f, g) => f \in Elems(down) \cup {d}
  <2>1. \A f, g : Ahead(down, f, g) => f \in Elems(down)
    BY DEF Ahead, Elems
  <2> QED
    BY <2>1, SendsTwoBehind
<1>3. \A f \in Elems(up) \cup Elems(down) \cup Held :
        ~Current(f, a)' /\ ~Closing(f, a)' /\ ~Verifying(f, a)'
  <2> TAKE f \in Elems(up) \cup Elems(down) \cup Held
  <2>1. f \in Frame
    BY DEF TypeInv, AirTypes, ThreadTypes, Elems, Held
  <2>2. Older(f, fresh)
    BY DEF NonceInv, AirNonces, KeyNonces
  <2>3. ~Current(f, a)' /\ ~Closing(f, a)'
    BY <1>1, <2>2 DEF Older, Current, Closing, MadeFrom
  <2>4. ~Verifying(f, a)'
    <3> SUFFICES ASSUME f.t = "M2", f.key = <<a, fresh, f.n>> PROVE FALSE
      BY DEF Verifying, Derive
    <3>1. f.n \in Nat
      BY <2>1 DEF Frame
    <3>2. f.key # NoKey
      BY <1>1, <3>1, StationAssumption
    <3> QED
      BY <1>1, <2>2, <3>2 DEF Older
  <2> QED
    BY <2>3, <2>4
<1>4. /\ anonce' = anonce /\ anonce # fresh /\ Held' = Held
      /\ work' = work /\ inbox' = inbox
      /\ \A f \in Elems(up') : f \in Elems(up)
  <2>1. anonce < fresh /\ anonce \in Nat
    BY DEF NonceInv, AirNonces, KeyNonces, TypeInv, LinkTypes
  <2>2. anonce # fresh
    BY <1>1, <2>1
  <2>3. anonce' = anonce /\ Held' = Held /\ work' = work /\ inbox' = inbox
    BY AirView
  <2>4. \A f \in Elems(up') : f \in Elems(up)
    BY DEF AirMoves
  <2> QED
    BY <2>2, <2>3, <2>4
<1>5. /\ ~Current(d, a)' /\ ~Closing(d, a)' /\ ~Closing(e, a)'
  BY DEF Current, Closing
<1>6. DownOrder(a)'
  BY <1>2, <1>3, <1>5 DEF DownOrder
<1>7. Pending(a)'
  <2>1. \A f, g : Ahead(down', f, g) => ~Current(f, a)'
    BY <1>2, <1>3, <1>5
  <2>2. \A f \in Held' : ~Current(f, a)'
    BY <1>3, <1>4
  <2>3. \A f \in Elems(up') : ~Verifying(f, a)'
    BY <1>3, <1>4
  <2>4. anonce' # ap'[a].an
    BY <1>4
  <2>5. ap'[a].hs = "M1Sent"
    OBVIOUS
  <2> QED
    BY ONLY <2>1, <2>2, <2>3, <2>4, <2>5, Zenon DEF Pending
<1>8. Unopened(a)'
  BY <1>2, <1>3, <1>4, <1>5 DEF Unopened
<1>9. Order(a)'
  <2>1. /\ work.frame # NoFrame => work.frame \in Held
        /\ inbox # NoFrame => inbox \in Held
    BY DEF Held
  <2> QED
    BY <1>3, <1>4, <2>1 DEF Order
<1>10. Answered(a)'
  BY <1>3, <1>4 DEF Answered
<1>11. Closed(a)'
  BY DEF Closed, Confirmed
<1> QED
  BY <1>6, <1>7, <1>8, <1>9, <1>10, <1>11 DEF Handshake

\* a repeats M1: every M1 behind the others may be a current one.
LEMMA RepeatM1Keeps ==
  ASSUME TypeInv, NEW a \in Aps, Handshake(a), AirMoves, ap' = ap, ap[a].hs = "M1Sent",
         NEW e \in Frame, e.t = "M1", e.n = ap[a].an, ApSends(<<e>>)
  PROVE  Handshake(a)'
<1>1. /\ DownOrder(a) /\ Pending(a) /\ Unopened(a)
      /\ Settled(a) => Order(a) /\ Answered(a) /\ Closed(a)
  BY DEF Handshake
<1>2. /\ Elems(down') = Elems(down) \cup {e}
      /\ \A f, g : Ahead(down', f, g) => Ahead(down, f, g) \/ (f \in Elems(down) /\ g = e)
  BY SendsBehind
<1>3. \A f : /\ Current(f, a)' <=> Current(f, a)
             /\ Closing(f, a)' <=> Closing(f, a)
             /\ Verifying(f, a)' <=> Verifying(f, a)
             /\ Ours(f, a)' <=> Ours(f, a)
             /\ Accepting(f, a)' <=> Accepting(f, a)
  BY SameView DEF SameHandshake
<1>4. Current(e, a) /\ ~Accepting(e, a) /\ ~Closing(e, a)
  BY DEF Current, Accepting, Closing
<1>5. \A f \in Elems(up) \cup Elems(down) \cup Held : ~Closing(f, a)
  BY <1>1 DEF Unopened
<1>6. /\ UNCHANGED <<anonce, ptk, ptkValid, work, inbox>> /\ Held' = Held
      /\ Settled(a)' <=> Settled(a)
      /\ \A f \in Elems(up') : f \in Elems(up)
  BY AirView DEF AirMoves
<1>7. DownOrder(a)'
  BY <1>1, <1>2, <1>3, <1>4, <1>5 DEF DownOrder
<1>8. Pending(a)'
  BY <1>1, <1>2, <1>3, <1>4, <1>6 DEF Pending
<1>9. Unopened(a)'
  BY <1>2, <1>3, <1>4, <1>5, <1>6 DEF Unopened
<1>10. Settled(a)' => (Order(a) /\ Answered(a) /\ Closed(a))'
  <2> SUFFICES ASSUME Settled(a)' PROVE (Order(a) /\ Answered(a) /\ Closed(a))'
    OBVIOUS
  <2>1. Order(a) /\ Answered(a) /\ Closed(a)
    BY <1>1, <1>6
  <2>2. AllCurrent(a) => AllCurrent(a)'
    BY <1>2, <1>3, <1>4 DEF AllCurrent
  <2>3. /\ work.frame # NoFrame => ~Closing(work.frame, a)
        /\ inbox # NoFrame => ~Closing(inbox, a)
    BY <1>5 DEF Held
  <2>4. Order(a)'
    BY <1>3, <1>6, <2>1, <2>2, <2>3 DEF Order
  <2>5. Answered(a)'
    BY <1>3, <1>6, <2>1 DEF Answered
  <2>6. Closed(a)'
    BY DEF Closed, Confirmed
  <2> QED
    BY <2>4, <2>5, <2>6
<1> QED
  BY <1>7, <1>8, <1>9, <1>10 DEF Handshake

\* a takes M2 and sends M3.  The M2 was made with the key the driver holds.
LEMMA TakeM2Keeps ==
  ASSUME TypeInv, NEW a \in Aps, Handshake(a), AirMoves,
         NEW m \in Elems(up), m \in Frame, Verifying(m, a),
         ap'[a].hs = "M3Sent", ap'[a].an = ap[a].an, ap'[a].key = m.key,
         NEW e \in Frame, e.t = "M3", ApSends(<<e>>)
  PROVE  Handshake(a)'
<1>1. /\ DownOrder(a) /\ Pending(a) /\ Unopened(a) /\ ap[a].hs = "M1Sent"
      /\ Settled(a) => Order(a) /\ Answered(a) /\ Closed(a)
  BY DEF Handshake, Verifying
<1>2. /\ Elems(down') = Elems(down) \cup {e}
      /\ \A f, g : Ahead(down', f, g) => Ahead(down, f, g) \/ (f \in Elems(down) /\ g = e)
  BY SendsBehind
<1>3. \A f : /\ Current(f, a)' <=> Current(f, a)
             /\ Closing(f, a)' <=> Closing(f, a)
             /\ ~Verifying(f, a)'
             /\ Ours(f, a)' <=> Ours(f, a)
             /\ Accepting(f, a)' <=> Accepting(f, a)
  BY DEF Current, Closing, Verifying, Ours, Accepting
<1>4. ~Ours(e, a) /\ ~Accepting(e, a)
  BY DEF Ours, Accepting
<1>5. MadeFrom(m.key, ap[a].an)
  <2>1. m.key = <<a, ap[a].an, m.n>> /\ ap[a].an \in Nat /\ m.n \in Nat
    BY DEF Verifying, Derive, TypeInv, AirTypes, Frame
  <2>2. m.key # NoKey
    BY <2>1, StationAssumption
  <2> QED
    BY <2>1, <2>2 DEF MadeFrom
<1>6. /\ UNCHANGED <<anonce, ptk, ptkValid, work, inbox>> /\ Held' = Held
      /\ Settled(a)' <=> Settled(a)
      /\ \A f \in Elems(up') : f \in Elems(up)
  BY AirView DEF AirMoves
<1>7. DownOrder(a)'
  BY <1>1, <1>2, <1>3, <1>4 DEF DownOrder
<1>8. Pending(a)'
  BY <1>1, <1>2, <1>3, <1>4 DEF Pending
<1>9. Unopened(a)'
  BY DEF Unopened
<1>10. Settled(a)' => (Order(a) /\ Answered(a) /\ Closed(a))'
  <2> SUFFICES ASSUME Settled(a)' PROVE (Order(a) /\ Answered(a) /\ Closed(a))'
    OBVIOUS
  <2>1. Order(a) /\ Answered(a)
    BY <1>1, <1>6
  <2>2. /\ AllCurrent(a) => AllCurrent(a)'
        /\ NoneLeft(a) => NoneLeft(a)'
    BY <1>2, <1>3, <1>4 DEF AllCurrent, NoneLeft
  <2>3. Order(a)'
    BY <1>3, <1>6, <2>1, <2>2 DEF Order
  <2>4. Answered(a)'
    BY <1>3, <1>6, <2>1 DEF Answered
  <2>5. ASSUME NEW f \in Elems(up'), f.t = "M4", f.ap = a, f.key = m.key PROVE FALSE
    <3>1. Closing(f, a)
      BY <1>5, <2>5 DEF Closing
    <3> QED
      BY <1>1, <1>6, <2>5, <3>1 DEF Unopened
  <2>6. Closed(a)'
    BY <2>5 DEF Closed, Confirmed
  <2> QED
    BY <2>3, <2>4, <2>6
<1> QED
  BY <1>7, <1>8, <1>9, <1>10 DEF Handshake

\* a takes M4.
LEMMA TakeM4Keeps ==
  ASSUME TypeInv, NEW a \in Aps, Handshake(a), AirMoves, ap[a].hs = "M3Sent",
         NEW m \in Elems(up), m.t = "M4", m.ap = a, m.key = ap[a].key,
         ap'[a].hs = "Done", ap'[a].an = ap[a].an, ap'[a].key = ap[a].key, down' = down
  PROVE  Handshake(a)'
<1>1. /\ DownOrder(a) /\ Pending(a)
      /\ Settled(a) => Order(a) /\ Answered(a) /\ Closed(a)
  BY DEF Handshake
<1>2. \A f : /\ Current(f, a)' <=> Current(f, a)
             /\ Closing(f, a)' <=> Closing(f, a)
             /\ ~Verifying(f, a)'
             /\ Ours(f, a)' <=> Ours(f, a)
             /\ Accepting(f, a)' <=> Accepting(f, a)
  BY DEF Current, Closing, Verifying, Ours, Accepting
<1>3. /\ UNCHANGED <<anonce, ptk, ptkValid, eapolState, work, inbox, ccmp, gtk>>
      /\ Held' = Held
      /\ Settled(a)' <=> Settled(a)
      /\ budget'.faults = MaxFaults => budget.faults = MaxFaults
  BY AirView DEF AirMoves
<1>4. DownOrder(a)'
  BY <1>1, <1>2 DEF DownOrder
<1>5. Pending(a)'
  BY <1>1, <1>2 DEF Pending
<1>6. Unopened(a)'
  BY DEF Unopened
<1>7. Settled(a)' => (Order(a) /\ Answered(a) /\ Closed(a))'
  <2> SUFFICES ASSUME Settled(a)' PROVE (Order(a) /\ Answered(a) /\ Closed(a))'
    OBVIOUS
  <2>1. Order(a) /\ Answered(a) /\ Closed(a) /\ Confirmed(a)
    BY <1>1, <1>3 DEF Confirmed
  <2>2. (AllCurrent(a)' <=> AllCurrent(a)) /\ (NoneLeft(a)' <=> NoneLeft(a))
    BY <1>2 DEF AllCurrent, NoneLeft
  <2>3. Order(a)'
    BY <1>2, <1>3, <2>1, <2>2 DEF Order
  <2>4. Answered(a)'
    BY <1>2, <1>3, <2>1 DEF Answered
  <2>5. Closed(a)'
    BY <1>3, <2>1, <2>2 DEF Closed
  <2> QED
    BY <2>3, <2>4, <2>5
<1> QED
  BY <1>4, <1>5, <1>6, <1>7 DEF Handshake

\* An access point takes a frame of ours: an M2 or an M4 of its handshake, a
\* request that begins one, or something the handshake with a does not notice.
LEMMA ApTakesKeeps ==
  ASSUME TypeInv, NonceInv, InDriverInv, NEW a \in Aps, Handshake(a), AirMoves,
         NEW f \in Elems(up), f \in Frame, NEW ok \in BOOLEAN,
         ApAuth(f, ok) \/ ApAssoc(f) \/ ApM2(f) \/ ApM4(f)
  PROVE  Handshake(a)'
<1> DEFINE b == f.ap
<1>1. b \in Aps /\ f.key \in AnyKey /\ NoKey \in AnyKey
  BY DEF Frame, AnyKey
<1>2. ap \in [Aps -> ApRecord] /\ fresh \in Nat
  BY ApTypesHold DEF ApTypes
<1>3. CASE ApAuth(f, ok)
  <2> DEFINE r == [ap[b] EXCEPT !.assoc = "Auth"]
  <2>1. ap' = ap \/ ap' = [ap EXCEPT ![b] = r]
    BY <1>3 DEF ApAuth
  <2>2. SameHandshake(r, ap[b])
    BY <1>1, <1>2, ApRecords
  <2> HIDE DEF r
  <2>3. SameHandshake(ap'[a], ap[a])
    BY <1>1, <1>2, <2>1, <2>2 DEF SameHandshake
  <2>4. AuthResp(b, TRUE, ok) \in Frame /\ Foreign(AuthResp(b, TRUE, ok), a)
    BY <1>1, FrameKinds DEF Foreign, Ours, Accepting, AuthResp, Msg
  <2> QED
    BY <1>3, <2>3, <2>4, AirIsCalm, CalmKeeps DEF ApAuth
<1>4. CASE ApAssoc(f)
  <2>1. CASE /\ b \in Secure
             /\ ap' = [ap EXCEPT ![b] = [assoc |-> "Assoc", dropped |-> FALSE,
                         hs |-> "M1Sent", an |-> fresh, key |-> NoKey]]
             /\ ApSends(<<AssocResp(b, TRUE, TRUE), M1(b, TRUE, fresh)>>)
    <3>1. PICK d \in Frame, e \in Frame :
             /\ d = AssocResp(b, TRUE, TRUE) /\ e = M1(b, TRUE, fresh)
             /\ ApSends(<<d, e>>)
      BY <1>1, <1>2, <2>1, FrameKinds
    <3>2. /\ d.t = "AssocResp" /\ d.ap = b
          /\ e.t = "M1" /\ e.ap = b
      BY <3>1 DEF AssocResp, M1, Msg
    <3>3. CASE b = a
      <4>1. ap'[a].hs = "M1Sent" /\ ap'[a].an = fresh
        BY <1>2, <2>1, <3>3
      <4> QED
        BY <3>1, <3>2, <4>1, AssociatesKeeps
    <3>4. CASE b # a
      <4>1. SameHandshake(ap'[a], ap[a])
        BY <1>2, <2>1, <3>4 DEF SameHandshake
      <4>2. Foreign(d, a) /\ Foreign(e, a)
        BY <3>2, <3>4 DEF Foreign, Ours, Accepting
      <4> QED
        BY <3>1, <4>1, <4>2, AirIsCalm, CalmKeeps
    <3> QED
      BY <3>3, <3>4
  <2>2. CASE /\ b \notin Secure
             /\ ap' = [ap EXCEPT ![b].assoc = "Assoc", ![b].dropped = FALSE]
             /\ ApSends(<<AssocResp(b, TRUE, TRUE)>>)
    <3> DEFINE r == [ap[b] EXCEPT !.assoc = "Assoc", !.dropped = FALSE]
    <3>1. ap' = [ap EXCEPT ![b] = r]
      BY <2>2
    <3>2. SameHandshake(r, ap[b])
      BY <1>1, <1>2, ApRecords
    <3> HIDE DEF r
    <3>3. SameHandshake(ap'[a], ap[a])
      BY <1>1, <1>2, <3>1, <3>2 DEF SameHandshake
    <3>4. CASE b = a
      <4>1. ap[a].hs = "None"
        BY <2>2, <3>4 DEF InDriverInv
      <4> QED
        BY <3>3, <4>1 DEF SameHandshake, Handshake
    <3>5. CASE b # a
      <4>1. AssocResp(b, TRUE, TRUE) \in Frame /\ Foreign(AssocResp(b, TRUE, TRUE), a)
        BY <1>1, <3>5, FrameKinds DEF Foreign, Ours, Accepting, AssocResp, Msg
      <4> QED
        BY <2>2, <3>3, <4>1, AirIsCalm, CalmKeeps
    <3> QED
      BY <3>4, <3>5
  <2>3. CASE ap' = ap /\ ApSends(<<AssocResp(b, TRUE, FALSE)>>)
    <3>1. AssocResp(b, TRUE, FALSE) \in Frame /\ Foreign(AssocResp(b, TRUE, FALSE), a)
      BY <1>1, FrameKinds DEF Foreign, Ours, Accepting, AssocResp, Msg
    <3>2. SameHandshake(ap'[a], ap[a])
      BY <2>3 DEF SameHandshake
    <3> QED
      BY <2>3, <3>1, <3>2, AirIsCalm, CalmKeeps
  <2> QED
    BY <1>4, <2>1, <2>2, <2>3 DEF ApAssoc
<1>5. CASE ApM2(f)
  <2>1. CASE /\ ap[b].hs = "M1Sent" /\ f.key = Derive(b, ap[b].an, f.n)
             /\ ap' = [ap EXCEPT ![b].hs = "M3Sent", ![b].key = f.key]
             /\ ApSends(<<M3(b, f.key)>>)
    <3> DEFINE r == [ap[b] EXCEPT !.hs = "M3Sent", !.key = f.key]
    <3>1. ap' = [ap EXCEPT ![b] = r]
      BY <2>1
    <3>2. r.hs = "M3Sent" /\ r.an = ap[b].an /\ r.key = f.key
      BY <1>1, <1>2, ApRecordSendsM3
    <3> HIDE DEF r
    <3>3. M3(b, f.key) \in Frame /\ M3(b, f.key).t = "M3" /\ M3(b, f.key).ap = b
      BY <1>1, FrameKinds DEF M3, Msg
    <3>4. CASE b = a
      <4>1. Verifying(f, a)
        BY <1>5, <2>1, <3>4 DEF Verifying, ApM2
      <4>2. ap'[a].hs = "M3Sent" /\ ap'[a].an = ap[a].an /\ ap'[a].key = f.key
        BY <1>2, <3>1, <3>2, <3>4
      <4> QED
        BY <2>1, <3>3, <4>1, <4>2, TakeM2Keeps
    <3>5. CASE b # a
      <4>1. SameHandshake(ap'[a], ap[a])
        BY <1>2, <3>1, <3>5 DEF SameHandshake
      <4>2. Foreign(M3(b, f.key), a)
        BY <3>3, <3>5 DEF Foreign, Ours, Accepting
      <4> QED
        BY <2>1, <3>3, <4>1, <4>2, AirIsCalm, CalmKeeps
    <3> QED
      BY <3>4, <3>5
  <2>2. CASE UNCHANGED <<ap, down>>
    BY <2>2, AirIsCalm, CalmKeeps DEF SameHandshake
  <2> QED
    BY <1>5, <2>1, <2>2 DEF ApM2
<1>6. CASE ApM4(f)
  <2>1. CASE /\ ap[b].hs = "M3Sent" /\ f.key = ap[b].key
             /\ ap' = [ap EXCEPT ![b].hs = "Done"]
    <3> DEFINE r == [ap[b] EXCEPT !.hs = "Done"]
    <3>1. ap' = [ap EXCEPT ![b] = r]
      BY <2>1
    <3>2. r.hs = "Done" /\ r.an = ap[b].an /\ r.key = ap[b].key
      BY <1>1, <1>2, ApRecords
    <3> HIDE DEF r
    <3>3. down' = down /\ f.t = "M4"
      BY <1>6 DEF ApM4
    <3>4. CASE b = a
      <4>1. ap'[a].hs = "Done" /\ ap'[a].an = ap[a].an /\ ap'[a].key = ap[a].key
        BY <1>2, <3>1, <3>2, <3>4
      <4> QED
        BY <2>1, <3>3, <3>4, <4>1, TakeM4Keeps
    <3>5. CASE b # a
      <4>1. SameHandshake(ap'[a], ap[a])
        BY <1>2, <3>1, <3>5 DEF SameHandshake
      <4> QED
        BY <3>3, <4>1, AirIsCalm, CalmKeeps
    <3> QED
      BY <3>4, <3>5
  <2>2. CASE UNCHANGED <<ap, down>>
    BY <2>2, AirIsCalm, CalmKeeps DEF SameHandshake
  <2> QED
    BY <1>6, <2>1, <2>2 DEF ApM4
<1> QED
  BY <1>3, <1>4, <1>5, <1>6

\* An access point repeats a message, drops the driver, or is overheard.
LEMMA ApActsKeeps ==
  ASSUME TypeInv, NEW a \in Aps, Handshake(a), AirMoves, NEW b \in Aps,
         ApRepeats(b) \/ ApDrops(b) \/ Overhear(b)
  PROVE  Handshake(a)'
<1>1. ap \in [Aps -> ApRecord] /\ fresh \in Nat /\ NoKey \in AnyKey
  BY ApTypesHold DEF ApTypes, AnyKey
<1>2. ap[b].an \in Nat /\ ap[b].key \in AnyKey
  BY <1>1 DEF ApRecord
<1>3. CASE ap' = ap /\ ap[b].hs = "M1Sent" /\ ApSends(<<M1(b, TRUE, ap[b].an)>>)
  <2>1. PICK e \in Frame : e = M1(b, TRUE, ap[b].an) /\ ApSends(<<e>>)
    BY <1>2, <1>3, FrameKinds
  <2>2. e.t = "M1" /\ e.ap = b /\ e.n = ap[b].an
    BY <2>1 DEF M1, Msg
  <2>3. CASE b = a
    BY <1>3, <2>1, <2>2, <2>3, RepeatM1Keeps
  <2>4. CASE b # a
    <3>1. Foreign(e, a)
      BY <2>2, <2>4 DEF Foreign, Ours, Accepting
    <3> QED
      BY <1>3, <2>1, <3>1, AirIsCalm, CalmKeeps DEF SameHandshake
  <2> QED
    BY <2>3, <2>4
<1>4. CASE ap' = ap /\ ap[b].hs = "M3Sent" /\ ApSends(<<M3(b, ap[b].key)>>)
  <2>1. M3(b, ap[b].key) \in Frame /\ M3(b, ap[b].key).t = "M3" /\ M3(b, ap[b].key).ap = b
    BY <1>2, FrameKinds DEF M3, Msg
  <2>2. Foreign(M3(b, ap[b].key), a)
    BY <1>4, <2>1 DEF Foreign, Ours, Accepting
  <2> QED
    BY <1>4, <2>1, <2>2, AirIsCalm, CalmKeeps DEF SameHandshake
<1>5. CASE ApDrops(b)
  <2> DEFINE r == [ap[b] EXCEPT !.assoc = "None", !.dropped = TRUE, !.hs = "None"]
  <2>1. down' = down /\ ap' = [ap EXCEPT ![b] = r]
    BY <1>5 DEF ApDrops
  <2>2. r.hs = "None"
    BY <1>1, ApRecords
  <2> HIDE DEF r
  <2>3. CASE b = a
    BY <1>1, <2>1, <2>2, <2>3 DEF Handshake
  <2>4. CASE b # a
    <3>1. SameHandshake(ap'[a], ap[a])
      BY <1>1, <2>1, <2>4 DEF SameHandshake
    <3> QED
      BY <2>1, <3>1, AirIsCalm, CalmKeeps
  <2> QED
    BY <2>3, <2>4
<1>6. CASE Overhear(b)
  <2>1. /\ AuthResp(b, FALSE, TRUE) \in Frame /\ Foreign(AuthResp(b, FALSE, TRUE), a)
        /\ AssocResp(b, FALSE, TRUE) \in Frame /\ Foreign(AssocResp(b, FALSE, TRUE), a)
        /\ M1(b, FALSE, fresh) \in Frame /\ Foreign(M1(b, FALSE, fresh), a)
    BY <1>1, FrameKinds DEF Foreign, Ours, Accepting, AuthResp, AssocResp, M1, Msg
  <2>2. ap' = ap /\ \E e \in Frame : Foreign(e, a) /\ ApSends(<<e>>)
    BY <1>6, <2>1 DEF Overhear
  <2> QED
    BY <2>2, AirIsCalm, CalmKeeps DEF SameHandshake
<1> QED
  BY <1>3, <1>4, <1>5, <1>6 DEF ApRepeats

\* Every step keeps the handshake with every access point in order.
LEMMA HandshakeStep ==
  ASSUME TypeInv, InDriverOnly, InDriverInv, NonceInv, [Next]_vars,
         NEW a \in Aps, Handshake(a)
  PROVE  Handshake(a)'
<1>1. budget'.faults = MaxFaults => budget.faults = MaxFaults
  BY FaultsFall
<1>2. CASE Quiet4Way
  BY <1>2, QuietIsCalm, CalmKeeps
<1>3. CASE RxEapol
  BY <1>3, RxEapolKeeps
<1>4. CASE WorkThread
  BY <1>1, <1>4, WorkTakeKeeps, HandleM1Keeps, SendM2Keeps, HandleM3Keeps, InstallKeeps
     DEF WorkThread
<1>5. CASE ApReceives
  <2>1. Head(up) \in Frame /\ Head(up) \in Elems(up) /\ Elems(up') \subseteq Elems(up)
    BY <1>5, TakeFirst DEF ApReceives, TypeInv, AirTypes
  <2>2. AirMoves
    BY <1>1, <1>5, <2>1 DEF ApReceives, AirMoves
  <2> QED
    BY <1>5, <2>1, <2>2, ApTakesKeeps DEF ApReceives
<1>6. ASSUME NEW b \in Aps, ApRepeats(b) \/ ApDrops(b) \/ Overhear(b)
      PROVE  Handshake(a)'
  <2>1. AirMoves
    BY <1>1, <1>6 DEF ApRepeats, ApDrops, Overhear, AirMoves
  <2> QED
    BY <1>6, <2>1, ApActsKeeps
<1>7. ~WpaKeyThread /\ ~GroupRekey
  BY NoSupplicantStep
<1> QED
  BY <1>2, <1>3, <1>4, <1>5, <1>6, <1>7
     DEF Next, Quiet4Way, RxThread, AccessPoints, Hazards

-----------------------------------------------------------------------------
(* Nonces are drawn once.                                                    *)

\* A frame that was older than a nonce is older than the later ones.
LEMMA OlderStill ==
  ASSUME NEW f \in Frame, NEW n \in Nat, NEW m \in Nat, n <= m, Older(f, n)
  PROVE  Older(f, m)
<1>1. f.n \in Nat /\ f.key \in AnyKey
  BY DEF Frame
<1>2. CASE f.key = NoKey
  BY <1>1, <1>2 DEF Older
<1>3. CASE f.key \in Keys
  <2>1. f.key[2] \in Nat
    BY <1>3 DEF Keys
  <2> QED
    BY <1>1, <2>1 DEF Older
<1> QED
  BY <1>1, <1>2, <1>3 DEF AnyKey

\* What is in flight, and what the driver holds, after a step that draws at
\* most one nonce.
InFlight == Elems(up) \cup Elems(down) \cup Held

\* It is enough to look at the frames the step added.
LEMMA InFlightOlder ==
  ASSUME TypeInv, AirNonces, fresh' \in Nat, fresh <= fresh',
         \A f \in InFlight' : f \in InFlight \/ Older(f, fresh')
  PROVE  \A f \in InFlight' : Older(f, fresh')
<1> SUFFICES ASSUME NEW f \in InFlight PROVE Older(f, fresh')
  OBVIOUS
<1>1. f \in Frame /\ fresh \in Nat
  BY DEF InFlight, Elems, Held, TypeInv, AirTypes, ThreadTypes
<1>2. Older(f, fresh)
  BY DEF InFlight, AirNonces
<1> QED
  BY <1>1, <1>2, OlderStill

\* The driver's threads: the worker answers with the nonce and the key it holds.
LEMMA WorkNonces ==
  ASSUME TypeInv, InDriverInv, NonceInv, fresh' \in Nat, WorkThread
  PROVE  NonceInv'
<1>1. UNCHANGED <<ap, down>>
  BY DEF WorkThread, WorkTake, HandleM1, SendM2, HandleM3, WorkInstall, WorkCommit,
         WorkFinish, WorkerOnly
<1>2. /\ anonce \in Nat /\ fresh \in Nat /\ pmk \in AnyAp /\ ap \in [Aps -> ApRecord]
      /\ ptk \in [kck : AnyKey, tk : AnyKey]
  BY ApTypesHold DEF TypeInv, AirTypes, LinkTypes, JoinTypes, ApTypes
<1>3. work.frame # NoFrame => work.frame \in Held /\ work.frame \in Frame
  BY DEF Held, TypeInv, ThreadTypes
<1>4. CASE WorkTake \/ WorkInstall \/ WorkCommit \/ WorkFinish
  <2>1. UNCHANGED <<anonce, ptk, up, fresh>>
    BY <1>4 DEF WorkTake, WorkInstall, WorkCommit, WorkFinish, hsVars, countVars
  <2>2. Held' \subseteq Held
    <3>1. CASE WorkTake
      BY <3>1 DEF WorkTake, Held
    <3>2. CASE WorkInstall \/ WorkCommit \/ WorkFinish
      <4>1. inbox' = inbox /\ work'.frame \in {work.frame, NoFrame}
        BY <3>2 DEF WorkInstall, InstallFailed, WorkCommit, WorkFinish, TypeInv, ThreadTypes
      <4> QED
        BY <4>1 DEF Held
    <3> QED
      BY <1>4, <3>1, <3>2
  <2>3. \A f \in InFlight' : Older(f, fresh')
    BY <1>1, <1>2, <2>1, <2>2, InFlightOlder DEF InFlight, NonceInv
  <2> QED
    BY <1>1, <2>1, <2>3 DEF NonceInv, AirNonces, KeyNonces, InFlight
<1>5. CASE HandleM1
  <2>1. /\ work.frame # NoFrame /\ work.frame.t = "M1" /\ pmk # NoAp
        /\ anonce' = work.frame.n /\ up' = up /\ inbox' = inbox
        /\ work'.frame \in {work.frame, NoFrame}
    <3>1. work.pc = "handle"
      BY <1>5 DEF HandleM1
    <3>2. work.frame # NoFrame /\ pmk # NoAp
      BY <3>1 DEF TypeInv, Shapes, InDriverInv, NoHandshakeYet
    <3> QED
      BY <1>5, <3>2 DEF HandleM1, TypeInv, ThreadTypes
  <2>2. anonce' < fresh
    BY <1>3, <2>1 DEF NonceInv, AirNonces, KeyNonces, Older
  <2>3. \/ UNCHANGED <<ptk, fresh, anonce>>
        \/ /\ fresh' = fresh + 1
           /\ ptk' = [kck |-> <<pmk, work.frame.n, fresh>>, tk |-> <<pmk, work.frame.n, fresh>>]
    BY <1>5, <2>1 DEF HandleM1, SameAnonce, Derive
  <2>4. Held' \subseteq Held /\ fresh <= fresh'
    BY <1>2, <2>1, <2>3 DEF Held
  <2>5. \A f \in InFlight' : Older(f, fresh')
    BY <1>1, <1>2, <2>1, <2>4, InFlightOlder DEF InFlight, NonceInv
  <2>6. anonce' < fresh' /\ \A a \in Aps : ap'[a].an < fresh'
    <3>1. \A a \in Aps : ap[a].an < fresh /\ ap[a].an \in Nat
      BY <1>2 DEF NonceInv, AirNonces, KeyNonces, ApRecord
    <3>2. anonce' \in Nat
      BY <1>3, <2>1 DEF Frame
    <3> QED
      BY <1>1, <1>2, <2>2, <2>4, <3>1, <3>2
  <2>7. ptk'.tk = ptk'.kck /\ (ptk'.kck # NoKey => ptk'.kck[2] = anonce')
    BY <2>1, <2>3 DEF NonceInv, AirNonces, KeyNonces
  <2> QED
    BY <1>1, <2>5, <2>6, <2>7 DEF NonceInv, AirNonces, KeyNonces, InFlight
<1>6. CASE SendM2 \/ HandleM3
  <2>1. UNCHANGED <<anonce, ptk, fresh, inbox>> /\ work'.frame \in {work.frame, NoFrame}
        /\ work.frame # NoFrame
    BY <1>6 DEF SendM2, HandleM3, hsVars, TypeInv, ThreadTypes, Shapes
  <2>2. PICK m \in Frame : m.t \in {"M2", "M4"} /\ m.key = ptk.kck
                           /\ Elems(up') \subseteq Elems(up) \cup {m}
    <3>1. /\ M2(work.frame.ap, snonce, ptk.kck) \in Frame
          /\ M4(work.frame.ap, ptk.kck) \in Frame
      BY <2>1, WorkFrames
    <3>2. /\ M2(work.frame.ap, snonce, ptk.kck).t = "M2"
          /\ M2(work.frame.ap, snonce, ptk.kck).key = ptk.kck
          /\ M4(work.frame.ap, ptk.kck).t = "M4"
          /\ M4(work.frame.ap, ptk.kck).key = ptk.kck
      BY DEF M2, M4, Msg
    <3>3. CASE SendM2
      BY <3>1, <3>2, <3>3, TransmitElems DEF SendM2
    <3>4. CASE HandleM3
      <4>1. Elems(up') \subseteq Elems(up) \cup {M4(work.frame.ap, ptk.kck)}
        BY <3>1, <3>4, TransmitElems DEF HandleM3
      <4> QED
        BY <3>1, <3>2, <4>1
    <3> QED
      BY <1>6, <3>3, <3>4
  <2>3. Older(m, fresh')
    BY <2>1, <2>2 DEF Older, NonceInv, AirNonces, KeyNonces
  <2>4. Held' \subseteq Held
    BY <2>1 DEF Held
  <2>5. \A f \in InFlight' : Older(f, fresh')
    BY <1>1, <1>2, <2>1, <2>2, <2>3, <2>4, InFlightOlder DEF InFlight, NonceInv
  <2> QED
    BY <1>1, <2>1, <2>5 DEF NonceInv, AirNonces, KeyNonces, InFlight
<1> QED
  BY <1>4, <1>5, <1>6 DEF WorkThread

\* The access points: a new association draws the next nonce, and the key of
\* an M2 that was taken is made from the nonce of the association.
LEMMA ApTakesNonces ==
  ASSUME TypeInv, AirNonces, fresh' \in Nat, UNCHANGED DriverOnly,
         NEW f \in Elems(up), f \in Frame, Elems(up') \subseteq Elems(up), NEW ok \in BOOLEAN,
         ApAuth(f, ok) \/ ApAssoc(f) \/ ApM2(f) \/ ApM4(f)
  PROVE  AirNonces' /\ fresh <= fresh'
<1> DEFINE b == f.ap
<1>1. b \in Aps /\ f.key \in AnyKey /\ NoKey \in AnyKey
  BY DEF Frame, AnyKey
<1>2. ap \in [Aps -> ApRecord] /\ fresh \in Nat
  BY ApTypesHold DEF ApTypes
<1>3. Held' = Held
  BY DEF DriverOnly, Held
<1>4. /\ \A a \in Aps : ap[a].an < fresh /\ ap[a].an \in Nat
      /\ \A a \in Aps : ap[a].hs \in {"M3Sent", "Done"} =>
                         MadeFrom(ap[a].key, ap[a].an) /\ ap[a].key[1] = a
  BY <1>2 DEF AirNonces, ApRecord
<1>5. ASSUME fresh' = fresh \/ fresh' = fresh + 1,
             \A g \in Elems(down') : g \in Elems(down) \/ Older(g, fresh'),
             \A a \in Aps : SameHandshake(ap'[a], ap[a])
               \/ /\ ap'[a].an < fresh'
                  /\ ap'[a].hs \in {"M3Sent", "Done"} =>
                       MadeFrom(ap'[a].key, ap'[a].an) /\ ap'[a].key[1] = a
      PROVE  AirNonces' /\ fresh <= fresh'
  <2>1. fresh <= fresh'
    BY <1>2, <1>5
  <2>2. \A g \in InFlight' : Older(g, fresh')
    BY <1>3, <1>5, <2>1, InFlightOlder DEF InFlight
  <2>3. /\ \A a \in Aps : ap'[a].an < fresh'
        /\ \A a \in Aps : ap'[a].hs \in {"M3Sent", "Done"} =>
                           MadeFrom(ap'[a].key, ap'[a].an) /\ ap'[a].key[1] = a
    BY <1>2, <1>3, <1>4, <1>5, <2>1 DEF SameHandshake
  <2> QED
    BY <1>3, <1>4, <2>1, <2>2, <2>3 DEF AirNonces, InFlight
<1>6. CASE ApAuth(f, ok)
  <2> DEFINE r == [ap[b] EXCEPT !.assoc = "Auth"]
  <2>1. fresh' = fresh /\ (ap' = ap \/ ap' = [ap EXCEPT ![b] = r])
    BY <1>6 DEF ApAuth
  <2>2. SameHandshake(r, ap[b])
    BY <1>1, <1>2, ApRecords
  <2> HIDE DEF r
  <2>3. \A a \in Aps : SameHandshake(ap'[a], ap[a])
    BY <1>1, <1>2, <2>1, <2>2 DEF SameHandshake
  <2>4. AuthResp(b, TRUE, ok) \in Frame /\ Older(AuthResp(b, TRUE, ok), fresh')
    BY <1>1, FrameKinds DEF Older, AuthResp, Msg
  <2>5. Elems(down') = Elems(down) \cup {AuthResp(b, TRUE, ok)}
    BY <1>6, <2>4, SendsType DEF ApAuth
  <2> QED
    BY <1>5, <2>1, <2>3, <2>4, <2>5
<1>7. CASE ApAssoc(f)
  <2>1. /\ AssocResp(b, TRUE, TRUE) \in Frame /\ Older(AssocResp(b, TRUE, TRUE), fresh')
        /\ AssocResp(b, TRUE, FALSE) \in Frame /\ Older(AssocResp(b, TRUE, FALSE), fresh')
    BY <1>1, FrameKinds DEF Older, AssocResp, Msg
  <2>2. CASE /\ ap' = [ap EXCEPT ![b] = [assoc |-> "Assoc", dropped |-> FALSE,
                         hs |-> "M1Sent", an |-> fresh, key |-> NoKey]]
             /\ fresh' = fresh + 1
             /\ ApSends(<<AssocResp(b, TRUE, TRUE), M1(b, TRUE, fresh)>>)
    <3>1. M1(b, TRUE, fresh) \in Frame /\ Older(M1(b, TRUE, fresh), fresh')
      <4>1. M1(b, TRUE, fresh) \in Frame
        BY <1>1, <1>2, FrameKinds
      <4>2. M1(b, TRUE, fresh).t = "M1" /\ M1(b, TRUE, fresh).n = fresh
        BY DEF M1, Msg
      <4>3. fresh < fresh'
        BY <1>2, <2>2
      <4> QED
        BY <4>1, <4>2, <4>3 DEF Older
    <3>2. Elems(down') = Elems(down) \cup {AssocResp(b, TRUE, TRUE), M1(b, TRUE, fresh)}
      BY <2>1, <2>2, <3>1, SendsType
    <3>3. \A a \in Aps : \/ ap'[a] = ap[a]
                         \/ ap'[a].an = fresh /\ ap'[a].hs = "M1Sent"
      BY <1>1, <1>2, <2>2
    <3>4. fresh < fresh'
      BY <1>2, <2>2
    <3> QED
      BY <1>5, <2>1, <2>2, <3>1, <3>2, <3>3, <3>4 DEF SameHandshake
  <2>3. CASE /\ ap' = [ap EXCEPT ![b].assoc = "Assoc", ![b].dropped = FALSE]
             /\ fresh' = fresh
             /\ ApSends(<<AssocResp(b, TRUE, TRUE)>>)
    <3> DEFINE r == [ap[b] EXCEPT !.assoc = "Assoc", !.dropped = FALSE]
    <3>1. ap' = [ap EXCEPT ![b] = r]
      BY <2>3
    <3>2. SameHandshake(r, ap[b])
      BY <1>1, <1>2, ApRecords
    <3> HIDE DEF r
    <3>3. \A a \in Aps : SameHandshake(ap'[a], ap[a])
      BY <1>1, <1>2, <3>1, <3>2 DEF SameHandshake
    <3>4. Elems(down') = Elems(down) \cup {AssocResp(b, TRUE, TRUE)}
      BY <2>1, <2>3, SendsType
    <3> QED
      BY <1>5, <2>1, <2>3, <3>3, <3>4
  <2>4. CASE ap' = ap /\ fresh' = fresh /\ ApSends(<<AssocResp(b, TRUE, FALSE)>>)
    <3>1. Elems(down') = Elems(down) \cup {AssocResp(b, TRUE, FALSE)}
      BY <2>1, <2>4, SendsType
    <3> QED
      BY <1>5, <2>1, <2>4, <3>1 DEF SameHandshake
  <2> QED
    BY <1>7, <2>2, <2>3, <2>4 DEF ApAssoc
<1>8. CASE ApM2(f)
  <2>1. CASE /\ f.key = Derive(b, ap[b].an, f.n)
             /\ ap' = [ap EXCEPT ![b].hs = "M3Sent", ![b].key = f.key]
             /\ ApSends(<<M3(b, f.key)>>)
    <3> DEFINE r == [ap[b] EXCEPT !.hs = "M3Sent", !.key = f.key]
    <3>1. ap' = [ap EXCEPT ![b] = r]
      BY <2>1
    <3>2. r.hs = "M3Sent" /\ r.an = ap[b].an /\ r.key = f.key
      BY <1>1, <1>2, ApRecordSendsM3
    <3> HIDE DEF r
    <3>3. MadeFrom(f.key, ap[b].an) /\ f.key[1] = b
      <4>1. f.key = <<b, ap[b].an, f.n>> /\ f.n \in Nat
        BY <2>1 DEF Derive, Frame
      <4>2. f.key # NoKey
        BY <1>1, <1>4, <4>1, StationAssumption
      <4> QED
        BY <4>1, <4>2 DEF MadeFrom
    <3>4. fresh' = fresh
      BY <1>8 DEF ApM2
    <3>5. \A a \in Aps : \/ ap'[a] = ap[a]
                         \/ /\ ap'[a].an < fresh' /\ MadeFrom(ap'[a].key, ap'[a].an)
                            /\ ap'[a].key[1] = a
      BY <1>1, <1>2, <1>4, <3>1, <3>2, <3>3, <3>4
    <3>6. M3(b, f.key) \in Frame /\ Older(M3(b, f.key), fresh')
      BY <1>1, <1>4, <3>3, <3>4, FrameKinds DEF Older, MadeFrom, M3, Msg
    <3>7. Elems(down') = Elems(down) \cup {M3(b, f.key)}
      BY <2>1, <3>6, SendsType
    <3> QED
      BY <1>5, <3>4, <3>5, <3>6, <3>7 DEF SameHandshake
  <2>2. CASE UNCHANGED <<ap, down>>
    BY <1>5, <1>8, <2>2 DEF ApM2, SameHandshake
  <2> QED
    BY <1>8, <2>1, <2>2 DEF ApM2
<1>9. CASE ApM4(f)
  <2>1. fresh' = fresh /\ down' = down
    BY <1>9 DEF ApM4
  <2>2. CASE ap' = [ap EXCEPT ![b].hs = "Done"] /\ ap[b].hs = "M3Sent"
    <3> DEFINE r == [ap[b] EXCEPT !.hs = "Done"]
    <3>1. ap' = [ap EXCEPT ![b] = r]
      BY <2>2
    <3>2. r.an = ap[b].an /\ r.key = ap[b].key
      BY <1>1, <1>2, ApRecords
    <3> HIDE DEF r
    <3>3. \A a \in Aps : \/ ap'[a] = ap[a]
                         \/ /\ ap'[a].an < fresh' /\ MadeFrom(ap'[a].key, ap'[a].an)
                            /\ ap'[a].key[1] = a
      BY <1>1, <1>2, <1>4, <2>1, <2>2, <3>1, <3>2
    <3> QED
      BY <1>5, <2>1, <3>3 DEF SameHandshake
  <2>3. CASE ap' = ap
    BY <1>5, <2>1, <2>3 DEF SameHandshake
  <2> QED
    BY <1>9, <2>2, <2>3 DEF ApM4
<1> QED
  BY <1>6, <1>7, <1>8, <1>9

\* Repeated and overheard messages: the nonce of the association, or a new one.
LEMMA ApActsNonces ==
  ASSUME TypeInv, AirNonces, fresh' \in Nat, NEW b \in Aps,
         ApRepeats(b) \/ ApDrops(b) \/ Overhear(b)
  PROVE  AirNonces' /\ fresh <= fresh'
<1>1. /\ ap \in [Aps -> ApRecord] /\ fresh \in Nat
      /\ ap[b].an \in Nat /\ ap[b].key \in AnyKey /\ NoKey \in AnyKey
  BY ApTypesHold DEF ApTypes, ApRecord, AnyKey
<1>2. up' = up /\ Held' = Held
  <2>1. UNCHANGED <<work, inbox, up>>
    BY DEF ApRepeats, ApDrops, Overhear, DriverOnly
  <2> QED
    BY <2>1 DEF Held
<1>3. /\ \A a \in Aps : ap[a].an < fresh /\ ap[a].an \in Nat
      /\ \A a \in Aps : ap[a].hs \in {"M3Sent", "Done"} =>
                         MadeFrom(ap[a].key, ap[a].an) /\ ap[a].key[1] = a
  BY <1>1 DEF AirNonces, ApRecord
<1>4. ASSUME fresh' = fresh \/ fresh' = fresh + 1,
             \A g \in Elems(down') : g \in Elems(down) \/ Older(g, fresh'),
             \A a \in Aps : /\ ap'[a].an = ap[a].an /\ ap'[a].key = ap[a].key
                            /\ ap'[a].hs \in {ap[a].hs, "None"}
      PROVE  AirNonces' /\ fresh <= fresh'
  <2>1. fresh <= fresh'
    BY <1>1, <1>4
  <2>2. \A g \in InFlight' : Older(g, fresh')
    BY <1>2, <1>4, <2>1, InFlightOlder DEF InFlight
  <2>3. /\ \A a \in Aps : ap'[a].an < fresh'
        /\ \A a \in Aps : ap'[a].hs \in {"M3Sent", "Done"} =>
                           MadeFrom(ap'[a].key, ap'[a].an) /\ ap'[a].key[1] = a
    BY <1>1, <1>2, <1>3, <1>4, <2>1
  <2> QED
    BY <1>2, <1>3, <2>1, <2>2, <2>3 DEF AirNonces, InFlight
<1>5. ASSUME NEW e \in Frame, Older(e, fresh'), ApSends(<<e>>), ap' = ap,
             fresh' = fresh \/ fresh' = fresh + 1
      PROVE  AirNonces' /\ fresh <= fresh'
  <2>1. Elems(down') = Elems(down) \cup {e}
    BY <1>5, SendsType
  <2> QED
    BY <1>4, <1>5, <2>1
<1>6. CASE ApRepeats(b)
  <2>1. ap' = ap /\ fresh' = fresh
    BY <1>6 DEF ApRepeats
  <2>2. M1(b, TRUE, ap[b].an) \in Frame /\ Older(M1(b, TRUE, ap[b].an), fresh')
    <3>1. M1(b, TRUE, ap[b].an) \in Frame
      BY <1>1, FrameKinds
    <3>2. M1(b, TRUE, ap[b].an).t = "M1" /\ M1(b, TRUE, ap[b].an).n = ap[b].an
      BY DEF M1, Msg
    <3> QED
      BY <1>3, <2>1, <3>1, <3>2 DEF Older
  <2>3. /\ M3(b, ap[b].key) \in Frame
        /\ ap[b].hs = "M3Sent" => Older(M3(b, ap[b].key), fresh')
    <3>1. M3(b, ap[b].key) \in Frame
      BY <1>1, FrameKinds
    <3>2. M3(b, ap[b].key).t = "M3" /\ M3(b, ap[b].key).key = ap[b].key
      BY DEF M3, Msg
    <3> QED
      BY <1>3, <2>1, <3>1, <3>2 DEF Older, MadeFrom
  <2> QED
    BY <1>5, <1>6, <2>1, <2>2, <2>3 DEF ApRepeats
<1>7. CASE ApDrops(b)
  <2> DEFINE r == [ap[b] EXCEPT !.assoc = "None", !.dropped = TRUE, !.hs = "None"]
  <2>1. fresh' = fresh /\ down' = down /\ ap' = [ap EXCEPT ![b] = r]
    BY <1>7 DEF ApDrops
  <2>2. r.hs = "None" /\ r.an = ap[b].an /\ r.key = ap[b].key
    BY <1>1 DEF ApRecord
  <2> HIDE DEF r
  <2> QED
    BY <1>1, <1>4, <2>1, <2>2
<1>8. CASE Overhear(b)
  <2>1. ap' = ap /\ (fresh' = fresh \/ fresh' = fresh + 1)
    BY <1>8 DEF Overhear
  <2>2. /\ AuthResp(b, FALSE, TRUE) \in Frame /\ Older(AuthResp(b, FALSE, TRUE), fresh')
        /\ AssocResp(b, FALSE, TRUE) \in Frame /\ Older(AssocResp(b, FALSE, TRUE), fresh')
    BY <1>1, FrameKinds DEF Older, AuthResp, AssocResp, Msg
  <2>3. /\ M1(b, FALSE, fresh) \in Frame
        /\ fresh' = fresh + 1 => Older(M1(b, FALSE, fresh), fresh')
    <3>1. M1(b, FALSE, fresh) \in Frame
      BY <1>1, FrameKinds
    <3>2. M1(b, FALSE, fresh).t = "M1" /\ M1(b, FALSE, fresh).n = fresh
      BY DEF M1, Msg
    <3>3. fresh' = fresh + 1 => fresh < fresh'
      BY <1>1
    <3> QED
      BY <3>1, <3>2, <3>3 DEF Older
  <2> QED
    BY <1>5, <1>8, <2>1, <2>2, <2>3 DEF Overhear
<1> QED
  BY <1>6, <1>7, <1>8

\* No step draws a nonce twice or parts a key from its nonce.
LEMMA NonceStep ==
  ASSUME TypeInv, InDriverOnly, InDriverInv, NonceInv, [Next]_vars
  PROVE  NonceInv'
<1>1. fresh' \in Nat /\ fresh \in Nat /\ anonce \in Nat
  BY StepType DEF TypeInv, AirTypes, LinkTypes
<1>8. ASSUME AirNonces', fresh <= fresh', UNCHANGED <<anonce, ptk>>
      PROVE  NonceInv'
  BY <1>1, <1>8 DEF NonceInv, KeyNonces
<1>2. CASE Quiet4Way
  <2>1. /\ UNCHANGED <<anonce, ptk, inbox, work, gtk, ap, fresh>>
        /\ \A f \in Elems(up') : f \in Elems(up) \/ f.t \in {"Auth", "AssocReq"}
        /\ Elems(down') \subseteq Elems(down)
    BY <1>2, QuietLeaves, TakeFirst DEF TypeInv, AirTypes
  <2>2. \A f \in InFlight' : f \in InFlight \/ Older(f, fresh')
    BY <2>1 DEF InFlight, Held, Older
  <2>3. \A f \in InFlight' : Older(f, fresh')
    BY <1>1, <2>1, <2>2, InFlightOlder DEF NonceInv
  <2> QED
    BY <2>1, <2>3 DEF NonceInv, AirNonces, KeyNonces, InFlight
<1>3. CASE RxEapol
  <2>1. /\ UNCHANGED <<anonce, ptk, work, up, ap, fresh>>
        /\ inbox' \in {inbox, Head(down)} /\ Head(down) \in Elems(down)
        /\ Elems(down') \subseteq Elems(down)
    BY <1>3, TakeFirst DEF RxEapol, Receive, hsVars, countVars, TypeInv, AirTypes
  <2>2. \A f \in InFlight' : f \in InFlight \/ Older(f, fresh')
    BY <2>1 DEF InFlight, Held
  <2>3. \A f \in InFlight' : Older(f, fresh')
    BY <1>1, <2>1, <2>2, InFlightOlder DEF NonceInv
  <2> QED
    BY <2>1, <2>3 DEF NonceInv, AirNonces, KeyNonces, InFlight
<1>4. CASE WorkThread
  BY <1>1, <1>4, WorkNonces
<1>5. CASE ApReceives
  <2>1. Head(up) \in Frame /\ Head(up) \in Elems(up) /\ Elems(up') \subseteq Elems(up)
    BY <1>5, TakeFirst DEF ApReceives, TypeInv, AirTypes
  <2>2. AirNonces' /\ fresh <= fresh' /\ UNCHANGED <<anonce, ptk>>
    BY <1>1, <1>5, <2>1, ApTakesNonces DEF ApReceives, DriverOnly, hsVars, NonceInv
  <2> QED
    BY <1>1, <1>8, <2>2
<1>6. ASSUME NEW b \in Aps, ApRepeats(b) \/ ApDrops(b) \/ Overhear(b)
      PROVE  NonceInv'
  <2>1. AirNonces' /\ fresh <= fresh' /\ UNCHANGED <<anonce, ptk>>
    BY <1>1, <1>6, ApActsNonces DEF ApRepeats, ApDrops, Overhear, DriverOnly, hsVars, NonceInv
  <2> QED
    BY <1>1, <1>8, <2>1
<1>7. ~WpaKeyThread /\ ~GroupRekey
  BY NoSupplicantStep
<1> QED
  BY <1>2, <1>3, <1>4, <1>5, <1>6, <1>7
     DEF Next, Quiet4Way, RxThread, AccessPoints, Hazards

\* All of it is inductive.
FourWayInv == /\ TypeInv /\ InDriverInv /\ NonceInv
              /\ \A a \in Aps : Handshake(a)

\* And it holds forever, of a driver that no supplicant joins with.
LEMMA FourWayHolds == InDriverOnly => (Spec => []FourWayInv)
<1> SUFFICES ASSUME InDriverOnly PROVE Spec => []FourWayInv
  OBVIOUS
<1>1. Init => FourWayInv
  <2> SUFFICES ASSUME Init PROVE FourWayInv
    OBVIOUS
  <2>1. \A a \in Aps : ap[a].hs = "None" /\ ap[a].an = 0
    BY DEF Init
  <2>2. Elems(up) = {} /\ Elems(down) = {} /\ Held = {}
    BY DEF Init, Elems, Held
  <2>3. InDriverInv
    BY <2>1, <2>2 DEF Init, InDriverInv, NoHandshakeYet
  <2>4. NonceInv
    BY <2>1, <2>2 DEF Init, NonceInv, AirNonces, KeyNonces
  <2>5. \A a \in Aps : Handshake(a)
    BY <2>1 DEF Handshake
  <2> QED
    BY <2>3, <2>4, <2>5, InitType DEF FourWayInv
<1>2. FourWayInv /\ [Next]_vars => FourWayInv'
  BY StepType, InDriverStep, NonceStep, HandshakeStep DEF FourWayInv
<1> QED
  BY <1>1, <1>2, PTL DEF Spec

\* However often M1 was repeated and however M1 and M2 crossed, overtook each
\* other or got lost, a driver that waits for M3 holds the key it is made with.
THEOREM M3AlwaysVerifies == InDriverOnly => (Spec => []M3Verifies)
<1> SUFFICES ASSUME InDriverOnly PROVE Spec => []M3Verifies
  OBVIOUS
<1>1. FourWayInv => M3Verifies
  BY DEF FourWayInv, Handshake, Settled, Answered, M3Verifies
<1> QED
  BY <1>1, FourWayHolds, PTL

\* When the access point has seen M4 and the worker is through with M3, both
\* hold the same TK, and CCMP and the group key are in place unless something
\* was lost or failed.
THEOREM KeysAgree == InDriverOnly => (Spec => []SessionKeysAgree)
<1> SUFFICES ASSUME InDriverOnly PROVE Spec => []SessionKeysAgree
  OBVIOUS
<1>1. FourWayInv => SessionKeysAgree
  <2> SUFFICES ASSUME FourWayInv, joinBssid \in Aps, ap[joinBssid].hs = "Done",
                      Settled(joinBssid), work.pc = "idle"
               PROVE  /\ eapolState = "Done" /\ ptk.tk = ap[joinBssid].key
                      /\ budget.faults = MaxFaults => ccmp /\ gtk = joinBssid
    BY DEF SessionKeysAgree, Settled
  <2>1. PICK a \in Aps : a = joinBssid
    OBVIOUS
  <2>2. Answered(a) /\ Closed(a) /\ Confirmed(a) /\ ptk.tk = ptk.kck
    BY <2>1 DEF FourWayInv, Handshake, NonceInv, AirNonces, KeyNonces, Confirmed
  <2> QED
    BY <2>1, <2>2 DEF Answered, Closed
<1> QED
  BY <1>1, FourWayHolds, PTL

-----------------------------------------------------------------------------
(* The supplicant's handshake, of a driver that is given no passphrase.      *)

NoPassphrase == "psk" \notin JoinModes

\* The driver has no handshake of its own; every join names its access point.
SuppliedOnly ==
  /\ pmk = NoAp /\ inbox = NoFrame /\ work.pc = "idle"
  /\ supplicant.todo \in {{}, {"group"}, {"pairwise", "group"}}
  /\ supplicant.key # NoKey => supplicant.key[2] < fresh
  /\ \A a \in Aps : ap[a].hs # "None" => a \in Secure
  /\ join.pc = "target" => joinBssid # NoAp
  /\ join.pc = "lookup" => join.bssid # NoAp

\* Without a passphrase the EAPOL frames are the supplicant's.
LEMMA NoDriverStep ==
  ASSUME NoPassphrase, TypeInv, SuppliedOnly
  PROVE  ~WorkThread /\ ~RxEapol /\ \A a, b \in AnyAp : ~JoinPsk(a, b)
<1>1. ~WorkThread
  BY DEF SuppliedOnly, WorkThread, WorkTake, HandleM1, SendM2, HandleM3, WorkInstall,
         WorkCommit, WorkFinish
<1>2. ~RxEapol
  BY DEF SuppliedOnly, RxEapol
<1> QED
  BY <1>1, <1>2 DEF NoPassphrase, JoinPsk

\* Joining, installing keys, writing, losing frames, and receiving what is no
\* EAPOL frame.
QuietForSupplicant ==
  \/ Joins \/ JoinThread \/ WriteThread \/ WpaKeyThread \/ GroupRekey \/ Lose
  \/ RxAuthResp \/ RxSendAssoc \/ RxAssocResp \/ UNCHANGED vars

\* They leave the supplicant's key alone, and only shorten the queue to us.
LEMMA QuietLeavesKey ==
  ASSUME NoPassphrase, TypeInv, SuppliedOnly, QuietForSupplicant
  PROVE  /\ UNCHANGED <<pmk, inbox, work, ap, fresh>>
         /\ supplicant'.key = supplicant.key
         /\ supplicant'.installed = supplicant.installed
         /\ \A f \in Elems(up') : f \in Elems(up) \/ f.t \in {"Auth", "AssocReq"}
         /\ down' = down \/ (down # <<>> /\ down' = Tail(down))
<1>1. CASE Joins
  <2>1. \A a \in Aps : ~JoinPsk(a, a) /\ ~JoinPsk(a, NoAp)
    BY NoDriverStep DEF AnyAp
  <2> QED
    BY <1>1, <2>1 DEF Joins, SetTarget, JoinMlme, SetWpaIe, MlmeDeauth, CloseDisconnects,
         credVars, hsVars, linkVars, supVars, airVars, countVars
<1>2. CASE JoinLegacy \/ JoinLookup \/ JoinArm
  BY <1>2 DEF JoinLegacy, JoinLookup, JoinArm, credVars, hsVars, linkVars, supVars, airVars,
              countVars
<1>3. CASE JoinSend
  <2>1. Auth(joinBssid).ap # NoAp => Auth(joinBssid) \in Frame
    BY FrameKinds DEF TypeInv, JoinTypes, Auth, Msg, AnyKey, AnyAp
  <2>2. Elems(up') \subseteq Elems(up) \cup {Auth(joinBssid)} /\ Auth(joinBssid).t = "Auth"
    BY <1>3, <2>1, TransmitElems DEF JoinSend, Auth, Msg
  <2> QED
    BY <1>3, <2>2 DEF JoinSend, credVars, supVars
<1>4. CASE WriteThread
  BY <1>4 DEF WriteThread, WriteCheck, WriteLoadPn, WriteStorePn, WriteSeal, WriterOnly,
              credVars, supVars, airVars
<1>5. CASE WpaKeyThread
  BY <1>5 DEF WpaKeyThread, WpaKeyStore, WpaKeyInstall, WpaKeyArm, TypeInv, AirTypes,
              credVars, supVars, airVars, countVars
<1>6. CASE Lose
  <2>1. Elems(up') \subseteq Elems(up)
    BY <1>6, TakeFirst DEF Lose, TypeInv, AirTypes
  <2> QED
    BY <1>6, <2>1 DEF Lose, DriverOnly, credVars
<1>7. CASE RxAuthResp \/ RxAssocResp
  BY <1>7 DEF RxAuthResp, RxAssocResp, Receive, credVars, supVars, countVars
<1>8. CASE RxSendAssoc
  <2> DEFINE g == AssocReq(joinBssid, wpaIe)
  <2>1. /\ g.ap # NoAp => g \in Frame
        /\ g.t = "AssocReq"
    BY FrameKinds DEF TypeInv, JoinTypes, LinkTypes, AssocReq, Msg, AnyKey, AnyAp
  <2>2. Elems(up') \subseteq Elems(up) \cup {g}
    BY <1>8, <2>1, TransmitElems DEF RxSendAssoc
  <2> QED
    BY <1>8, <2>1, <2>2 DEF RxSendAssoc, credVars, supVars
<1>9. CASE GroupRekey
  BY <1>9 DEF GroupRekey, DriverOnly, airVars, credVars, TypeInv, AirTypes
<1>10. CASE UNCHANGED vars
  BY <1>10 DEF vars, credVars, supVars, airVars, countVars
<1> QED
  BY <1>1, <1>2, <1>3, <1>4, <1>5, <1>6, <1>7, <1>8, <1>9, <1>10
     DEF QuietForSupplicant, JoinThread

\* What is left is a frame for the supplicant, and the access points.
LEMMA SuppliedSteps ==
  ASSUME NoPassphrase, TypeInv, SuppliedOnly, [Next]_vars
  PROVE  \/ QuietForSupplicant \/ SupplicantReceives \/ ApReceives
         \/ \E a \in Aps : ApRepeats(a) \/ ApDrops(a) \/ Overhear(a)
<1>1. ~WorkThread /\ ~RxEapol
  BY NoDriverStep
<1> QED
  BY <1>1 DEF Next, QuietForSupplicant, RxThread, AccessPoints, Hazards

\* The four things a supplicant does with a frame: it answers a new M1, an M1 it
\* knows, or the M3 of its key; or it lets the frame pass.
Begins(f) ==
  /\ f.t = "M1" /\ fresh' = fresh + 1
  /\ supplicant' = [key |-> <<f.ap, f.n, fresh>>, installed |-> FALSE, todo |-> {}]
  /\ Elems(up') \subseteq Elems(up) \cup {M2(f.ap, fresh, <<f.ap, f.n, fresh>>)}

Repeats(f) ==
  /\ f.t = "M1" /\ UNCHANGED <<fresh, supplicant>>
  /\ supplicant.key # NoKey /\ supplicant.key[1] = f.ap /\ supplicant.key[2] = f.n
  /\ Elems(up') \subseteq Elems(up) \cup {M2(f.ap, supplicant.key[3], supplicant.key)}

Finishes(f) ==
  /\ f.t = "M3" /\ f.key = supplicant.key /\ UNCHANGED fresh
  /\ supplicant'.key = supplicant.key /\ supplicant'.installed
  /\ supplicant'.todo = IF supplicant.installed THEN supplicant.todo
                        ELSE {"pairwise", "group"}
  /\ Elems(up') \subseteq Elems(up) \cup {M4(f.ap, f.key)}

LEMMA SupplicantActs ==
  ASSUME TypeInv, SupplicantReceives, NEW f, f = Head(down)
  PROVE  /\ f \in Elems(down) /\ f \in Frame
         /\ down # <<>> /\ down' = Tail(down)
         /\ UNCHANGED <<joinState, joinBssid, join, pmk, inbox, work, ap, supTk, wpakey,
                        ccmp, ptkValid, ptk, gtk>>
         /\ \/ Begins(f) \/ Repeats(f) \/ Finishes(f)
            \/ UNCHANGED <<supplicant, fresh, up>>
<1>1. f \in Elems(down) /\ f \in Frame /\ down # <<>> /\ down' = Tail(down)
  BY ReceiveType DEF SupplicantReceives, Receive
<1>2. UNCHANGED <<joinState, joinBssid, join, pmk, inbox, work, ap, supTk, wpakey,
                  ccmp, ptkValid, ptk, gtk>>
  BY DEF SupplicantReceives, joinVars, credVars, hsVars, linkVars
<1>3. /\ f.ap \in Aps /\ f.n \in Nat /\ f.key \in AnyKey /\ fresh \in Nat
      /\ supplicant \in [key : AnyKey, installed : BOOLEAN,
                         todo : SUBSET {"pairwise", "group"}]
  BY <1>1 DEF Frame, TypeInv, AirTypes
<1>4. CASE /\ f.t = "M1" /\ fresh' = fresh + 1
           /\ supplicant' = [key |-> <<f.ap, f.n, fresh>>, installed |-> FALSE, todo |-> {}]
           /\ TransmitOk(M2(f.ap, fresh, <<f.ap, f.n, fresh>>))
  <2>1. <<f.ap, f.n, fresh>> \in AnyKey
    BY <1>3 DEF AnyKey, Keys
  <2>2. M2(f.ap, fresh, <<f.ap, f.n, fresh>>) \in Frame
    BY <1>3, <2>1, FrameKinds
  <2> QED
    BY <1>1, <1>2, <1>4, <2>2, TransmitElems DEF Begins
<1>5. CASE /\ f.t = "M1" /\ UNCHANGED <<fresh, supplicant>>
           /\ supplicant.key # NoKey /\ supplicant.key[1] = f.ap /\ supplicant.key[2] = f.n
           /\ TransmitOk(M2(f.ap, supplicant.key[3], supplicant.key))
  <2>1. supplicant.key \in AnyKey /\ supplicant.key[3] \in Nat
    BY <1>3, <1>5 DEF AnyKey, Keys
  <2>2. M2(f.ap, supplicant.key[3], supplicant.key) \in Frame
    BY <1>3, <2>1, FrameKinds
  <2> QED
    BY <1>1, <1>2, <1>5, <2>2, TransmitElems DEF Repeats
<1>6. CASE /\ f.t = "M3" /\ supplicant.key = f.key /\ UNCHANGED fresh
           /\ supplicant' = [supplicant EXCEPT !.installed = TRUE, !.todo =
                               IF supplicant.installed THEN @
                               ELSE {"pairwise", "group"}]
           /\ TransmitOk(M4(f.ap, f.key))
  <2>1. M4(f.ap, f.key) \in Frame
    BY <1>3, FrameKinds
  <2>2. /\ supplicant'.key = supplicant.key /\ supplicant'.installed
        /\ supplicant'.todo = IF supplicant.installed THEN supplicant.todo
                              ELSE {"pairwise", "group"}
    BY <1>3, <1>6
  <2> QED
    BY <1>1, <1>2, <1>6, <2>1, <2>2, TransmitElems DEF Finishes
<1>7. <1>4!1 \/ <1>5!1 \/ <1>6!1 \/ UNCHANGED <<supplicant, fresh, up>>
  <2> DEFINE repeated == supplicant.key # NoKey /\ supplicant.key[1] = f.ap
                         /\ supplicant.key[2] = f.n
             k == IF repeated THEN supplicant.key ELSE Derive(f.ap, f.n, fresh)
  <2>1. \/ /\ f.toUs /\ joinState = "Connected" /\ f.t = "M1"
           /\ supplicant' = IF repeated THEN supplicant
                            ELSE [key |-> k, installed |-> FALSE, todo |-> {}]
           /\ fresh' = IF repeated THEN fresh ELSE fresh + 1
           /\ TransmitOk(M2(f.ap, k[3], k))
        \/ <1>6!1
        \/ UNCHANGED <<supplicant, fresh, up>>
    BY DEF SupplicantReceives
  <2>2. Derive(f.ap, f.n, fresh) = <<f.ap, f.n, fresh>>
        /\ Derive(f.ap, f.n, fresh)[3] = fresh
    BY DEF Derive
  <2> QED
    BY <2>1, <2>2
<1> QED
  BY <1>1, <1>2, <1>4, <1>5, <1>6, <1>7

\* A supplicant's handshake draws its nonces once, too.
LEMMA SuppliedNonces ==
  ASSUME NoPassphrase, TypeInv, SuppliedOnly, AirNonces, [Next]_vars
  PROVE  AirNonces' /\ fresh <= fresh'
<1>1. /\ fresh \in Nat /\ fresh' \in Nat
      /\ \A a \in Aps : ap[a].an < fresh /\ ap[a].an \in Nat
  BY StepType DEF TypeInv, AirTypes, AirNonces
<1>2. ASSUME UNCHANGED <<inbox, work, ap>>, fresh' = fresh \/ fresh' = fresh + 1,
             \A f \in Elems(up') : f \in Elems(up) \/ Older(f, fresh'),
             Elems(down') \subseteq Elems(down)
      PROVE  AirNonces' /\ fresh <= fresh'
  <2>1. fresh <= fresh' /\ Held' = Held
    BY <1>1, <1>2 DEF Held
  <2>2. \A f \in InFlight' : f \in InFlight \/ Older(f, fresh')
    BY <1>2, <2>1 DEF InFlight
  <2>3. \A f \in InFlight' : Older(f, fresh')
    BY <1>1, <2>1, <2>2, InFlightOlder
  <2>4. \A a \in Aps : ap'[a].an < fresh'
    BY <1>1, <1>2
  <2> QED
    BY <1>2, <2>1, <2>3, <2>4 DEF AirNonces, InFlight
<1>3. CASE QuietForSupplicant
  <2>1. Elems(down') \subseteq Elems(down)
    BY <1>3, QuietLeavesKey, TakeFirst DEF TypeInv, AirTypes
  <2>2. \A f \in Elems(up') : f \in Elems(up) \/ Older(f, fresh')
    BY <1>3, QuietLeavesKey DEF Older
  <2> QED
    BY <1>2, <1>3, <2>1, <2>2, QuietLeavesKey
<1>4. CASE SupplicantReceives
  <2>1. PICK f \in Frame :
          /\ f \in Elems(down)
          /\ down # <<>> /\ down' = Tail(down) /\ UNCHANGED <<inbox, work, ap>>
          /\ \/ Begins(f) \/ Repeats(f) \/ Finishes(f)
             \/ UNCHANGED <<supplicant, fresh, up>>
    BY <1>4, SupplicantActs
  <2>2. Older(f, fresh) /\ f.n \in Nat /\ f.key \in AnyKey
    BY <2>1 DEF AirNonces, Frame
  <2>3. Elems(down') \subseteq Elems(down)
    BY <2>1, TakeFirst DEF TypeInv, AirTypes
  <2>4. CASE Begins(f)
    <3> DEFINE m == M2(f.ap, fresh, <<f.ap, f.n, fresh>>)
    <3>1. m.t = "M2" /\ m.key = <<f.ap, f.n, fresh>>
      BY DEF M2, Msg
    <3>2. f.n < fresh' /\ fresh' = fresh + 1
      BY <1>1, <2>2, <2>4 DEF Begins, Older
    <3>3. Older(m, fresh')
      BY <3>1, <3>2 DEF Older
    <3> QED
      BY <1>2, <2>1, <2>3, <2>4, <3>2, <3>3 DEF Begins
  <2>5. CASE Repeats(f)
    <3> DEFINE m == M2(f.ap, supplicant.key[3], supplicant.key)
    <3>1. m.t = "M2" /\ m.key = supplicant.key
      BY DEF M2, Msg
    <3>2. Older(m, fresh)
      BY <2>5, <3>1 DEF Repeats, SuppliedOnly, Older
    <3> QED
      BY <1>2, <2>1, <2>3, <2>5, <3>2 DEF Repeats
  <2>6. CASE Finishes(f)
    <3> DEFINE m == M4(f.ap, f.key)
    <3>1. m.t = "M4" /\ m.key = f.key
      BY DEF M4, Msg
    <3>2. Older(m, fresh)
      BY <2>2, <2>6, <3>1 DEF Finishes, Older
    <3> QED
      BY <1>2, <2>1, <2>3, <2>6, <3>2 DEF Finishes
  <2>7. CASE UNCHANGED <<supplicant, fresh, up>>
    BY <1>2, <2>1, <2>3, <2>7
  <2> QED
    BY <2>1, <2>4, <2>5, <2>6, <2>7
<1>5. CASE ApReceives
  <2>1. Head(up) \in Frame /\ Head(up) \in Elems(up) /\ Elems(up') \subseteq Elems(up)
    BY <1>5, TakeFirst DEF ApReceives, TypeInv, AirTypes
  <2> QED
    BY <1>1, <1>5, <2>1, ApTakesNonces DEF ApReceives
<1>6. ASSUME NEW b \in Aps, ApRepeats(b) \/ ApDrops(b) \/ Overhear(b)
      PROVE  AirNonces' /\ fresh <= fresh'
  BY <1>1, <1>6, ApActsNonces
<1> QED
  BY <1>3, <1>4, <1>5, <1>6, SuppliedSteps

\* An access point has a handshake only if it is a secure one.
LEMMA SecureOnly ==
  ASSUME TypeInv, SuppliedOnly, [Next]_vars, NEW a \in Aps, ap'[a].hs # "None"
  PROVE  a \in Secure
<1>1. ap \in [Aps -> ApRecord] /\ NoKey \in AnyKey
  BY ApTypesHold DEF ApTypes, AnyKey
<1>2. CASE ap' = ap
  BY <1>2 DEF SuppliedOnly
<1>3. CASE ApReceives
  <2>1. PICK f \in Frame, ok \in BOOLEAN : ApAuth(f, ok) \/ ApAssoc(f) \/ ApM2(f) \/ ApM4(f)
    BY <1>3, TakeFirst DEF ApReceives, TypeInv, AirTypes
  <2>2. f.ap \in Aps
    BY DEF Frame
  <2>3. ap'[a].hs # "None" => ap[a].hs # "None" \/ a \in Secure
    <3>1. CASE ApAuth(f, ok)
      BY <1>1, <2>2, <3>1 DEF ApAuth, ApRecord
    <3>2. CASE ApAssoc(f)
      BY <1>1, <2>2, <3>2 DEF ApAssoc, ApRecord
    <3>3. CASE ApM2(f)
      BY <1>1, <2>2, <3>3 DEF ApM2, ApRecord
    <3>4. CASE ApM4(f)
      BY <1>1, <2>2, <3>4 DEF ApM4, ApRecord
    <3> QED
      BY <2>1, <3>1, <3>2, <3>3, <3>4
  <2> QED
    BY <2>3 DEF SuppliedOnly
<1>4. ASSUME NEW b \in Aps, ApDrops(b) PROVE a \in Secure
  <2>1. ap[a].hs # "None"
    BY <1>1, <1>4 DEF ApDrops, ApRecord
  <2> QED
    BY <2>1 DEF SuppliedOnly
<1> QED
  BY <1>2, <1>3, <1>4, AirStep DEF Undisturbed, AccessPoints, ApRepeats, Overhear

\* A join that is about to be looked up names its access point.
LEMMA TargetNamed ==
  ASSUME NoPassphrase, TypeInv, SuppliedOnly, [Next]_vars
  PROVE  /\ join'.pc = "target" => joinBssid' # NoAp
         /\ join'.pc = "lookup" => join'.bssid # NoAp
<1>1. /\ join.pc = "target" => joinBssid # NoAp
      /\ join.pc = "lookup" => join.bssid # NoAp
      /\ join \in [pc : {"idle", "target", "lookup", "arm", "send"}, ssid : AnyAp,
                   bssid : AnyAp]
  BY DEF SuppliedOnly, TypeInv, JoinTypes
<1>2. CASE UNCHANGED <<join, joinBssid>>
  BY <1>1, <1>2
<1>3. CASE Joins
  <2>1. \A a \in Aps : ~JoinPsk(a, a) /\ ~JoinPsk(a, NoAp)
    BY NoDriverStep DEF AnyAp
  <2>2. ASSUME NEW a \in Aps, SetTarget(a) \/ JoinMlme(a)
        PROVE  /\ join'.pc = "target" => joinBssid' # NoAp
               /\ join'.pc = "lookup" => join'.bssid # NoAp
    BY <1>1, <2>2, StationAssumption DEF SetTarget, JoinMlme
  <2> QED
    BY <1>2, <1>3, <2>1, <2>2 DEF Joins, SetWpaIe, MlmeDeauth, CloseDisconnects, joinVars
<1>4. CASE JoinThread
  BY <1>1, <1>4 DEF JoinThread, JoinLegacy, JoinLookup, JoinArm, JoinSend, joinVars
<1>5. CASE WpaKeyThread
  <2>1. join' = join
    BY <1>5 DEF WpaKeyThread, WpaKeyStore, WpaKeyInstall, WpaKeyArm
  <2>2. joinBssid' = joinBssid
        \/ (joinBssid' = supplicant.key[1] /\ supplicant.todo # {})
    BY <1>5 DEF WpaKeyThread, WpaKeyStore, WpaKeyInstall, WpaKeyArm, joinVars
  <2>3. supplicant.todo # {} => supplicant.key[1] \in Aps
    BY DEF TypeInv, AirTypes, Shapes, AnyKey, Keys
  <2> QED
    BY <1>1, <2>1, <2>2, <2>3, StationAssumption
<1>6. CASE WriteThread \/ GroupRekey \/ Lose \/ RxAuthResp \/ RxSendAssoc \/ RxAssocResp
           \/ UNCHANGED vars
  BY <1>2, <1>6 DEF WriteThread, WriteCheck, WriteLoadPn, WriteStorePn, WriteSeal, WriterOnly,
     GroupRekey, Lose, DriverOnly, RxAuthResp, RxSendAssoc, RxAssocResp, vars, joinVars
<1>7. CASE SupplicantReceives
  BY <1>2, <1>7, SupplicantActs
<1>8. CASE ApReceives \/ \E a \in Aps : ApRepeats(a) \/ ApDrops(a) \/ Overhear(a)
  BY <1>2, <1>8 DEF ApReceives, ApRepeats, ApDrops, Overhear, DriverOnly, joinVars
<1> QED
  BY <1>3, <1>4, <1>5, <1>6, <1>7, <1>8, SuppliedSteps DEF QuietForSupplicant

\* Without a passphrase the keys and the handshakes stay the supplicant's.
LEMMA SuppliedStep ==
  ASSUME NoPassphrase, TypeInv, SuppliedOnly, AirNonces, [Next]_vars
  PROVE  SuppliedOnly'
<1>1. fresh \in Nat /\ fresh' \in Nat /\ fresh <= fresh'
  BY StepType, SuppliedNonces DEF TypeInv, AirTypes
<1>2. /\ supplicant \in [key : AnyKey, installed : BOOLEAN,
                         todo : SUBSET {"pairwise", "group"}]
      /\ supplicant.key # NoKey => supplicant.key[2] < fresh /\ supplicant.key[2] \in Nat
      /\ supplicant.todo \in {{}, {"group"}, {"pairwise", "group"}}
  BY DEF TypeInv, AirTypes, SuppliedOnly, AnyKey, Keys
<1>3. supplicant.key # NoKey => supplicant.key[2] < fresh'
  BY <1>1, <1>2
<1>4. /\ pmk' = NoAp /\ inbox' = NoFrame /\ work'.pc = "idle"
      /\ supplicant'.todo \in {{}, {"group"}, {"pairwise", "group"}}
      /\ supplicant'.key # NoKey => supplicant'.key[2] < fresh'
  <2>1. CASE QuietForSupplicant
    <3>1. supplicant'.todo \in {{}, {"group"}, {"pairwise", "group"}}
      <4>1. CASE UNCHANGED supplicant
        BY <1>2, <4>1
      <4>2. ASSUME NEW kind, WpaKeyStore(kind) PROVE <3>1
        <5>1. /\ supplicant'.todo = supplicant.todo \ {kind} /\ kind \in supplicant.todo
              /\ kind = "group" => "pairwise" \notin supplicant.todo
              /\ kind \in {"pairwise", "group"}
          BY <1>2, <4>2 DEF WpaKeyStore
        <5> QED
          BY <1>2, <5>1
      <4>3. CASE GroupRekey
        BY <1>2, <4>3 DEF GroupRekey
      <4> QED
        BY <2>1, <4>1, <4>2, <4>3, NoDriverStep
           DEF QuietForSupplicant, Joins, JoinThread, WriteThread, WpaKeyThread, JoinPsk,
               SetTarget, JoinMlme, SetWpaIe, MlmeDeauth, CloseDisconnects, JoinLegacy,
               JoinLookup, JoinArm, JoinSend, WriteCheck, WriteLoadPn, WriteStorePn,
               WriteSeal, WriterOnly, WpaKeyInstall, WpaKeyArm, Lose, RxAuthResp,
               RxSendAssoc, RxAssocResp, vars, supVars
    <3> QED
      BY <1>3, <2>1, <3>1, QuietLeavesKey DEF SuppliedOnly
  <2>2. CASE SupplicantReceives
    <3>1. PICK f \in Frame :
            /\ f \in Elems(down) /\ UNCHANGED <<pmk, inbox, work>>
            /\ \/ Begins(f) \/ Repeats(f) \/ Finishes(f)
               \/ UNCHANGED <<supplicant, fresh, up>>
      BY <2>2, SupplicantActs
    <3>2. pmk' = NoAp /\ inbox' = NoFrame /\ work'.pc = "idle"
      BY <3>1 DEF SuppliedOnly
    <3>3. CASE Begins(f)
      <4>1. f.n < fresh /\ f.n \in Nat
        BY <3>1, <3>3 DEF AirNonces, Older, Begins, Frame
      <4>2. f.n < fresh'
        BY <1>1, <4>1
      <4> QED
        BY <3>2, <3>3, <4>2 DEF Begins
    <3>4. CASE Repeats(f) \/ UNCHANGED <<supplicant, fresh, up>>
      BY <1>2, <1>3, <3>2, <3>4 DEF Repeats
    <3>5. CASE Finishes(f)
      BY <1>2, <1>3, <3>2, <3>5 DEF Finishes
    <3> QED
      BY <3>1, <3>3, <3>4, <3>5
  <2>3. CASE ApReceives \/ \E a \in Aps : ApRepeats(a) \/ ApDrops(a) \/ Overhear(a)
    <3>1. UNCHANGED <<pmk, inbox, work, supplicant>>
      BY <2>3 DEF ApReceives, ApRepeats, ApDrops, Overhear, DriverOnly, credVars
    <3> QED
      BY <1>2, <1>3, <3>1 DEF SuppliedOnly
  <2> QED
    BY <2>1, <2>2, <2>3, SuppliedSteps
<1> QED
  BY <1>4, SecureOnly, TargetNamed DEF SuppliedOnly

\* A key of the handshake that a is in.
MadeFor(key, a) == MadeFrom(key, ap[a].an) /\ key[1] = a

\* Until the driver has taken the response, the supplicant has nothing of the
\* handshake: Pending, for the key it would answer M1 with.
KeyPending(a) ==
  \A g \in Elems(down) : Accepting(g, a) =>
    /\ ap[a].hs = "M1Sent" /\ ~MadeFor(supplicant.key, a)
    /\ \A f : Ahead(down, f, g) => ~Current(f, a)
    /\ \A f \in Elems(up) : ~Verifying(f, a)

\* Before M2 there is no M3 and no M4, and the key is not installed.
KeyUnopened(a) ==
  ap[a].hs = "M1Sent" =>
    /\ \A f \in Elems(up) \cup Elems(down) : f.t \in {"M3", "M4"} => ~MadeFor(f.key, a)
    /\ supplicant.installed => ~MadeFor(supplicant.key, a)

KeyOrder(a) == ap[a].hs # "None" => KeyPending(a) /\ KeyUnopened(a)

\* A frame that neither connects the driver to a nor ends a handshake it began.
Outside(f, a) ==
  /\ ~Accepting(f, a)
  /\ ap[a].hs = "M1Sent" /\ f.t \in {"M3", "M4"} => ~MadeFor(f.key, a)

\* A step that is none of a's handshake with the supplicant.
KeyCalm(a) ==
  /\ SameHandshake(ap'[a], ap[a])
  /\ supplicant'.key = supplicant.key /\ supplicant'.installed = supplicant.installed
  /\ \A f \in Elems(up') : f \in Elems(up) \/ f.t \in {"Auth", "AssocReq"}
  /\ \A f \in Elems(down') : f \in Elems(down) \/ Outside(f, a)
  /\ \A f, g : Ahead(down', f, g) => Ahead(down, f, g) \/ Outside(g, a)

\* It leaves the order of the handshake as it was.
LEMMA KeyCalmKeeps ==
  ASSUME NEW a \in Aps, KeyOrder(a), KeyCalm(a)
  PROVE  KeyOrder(a)'
<1> SUFFICES ASSUME ap'[a].hs # "None" PROVE KeyPending(a)' /\ KeyUnopened(a)'
  BY DEF KeyOrder
<1>1. /\ ap'[a].hs = ap[a].hs /\ ap'[a].an = ap[a].an
      /\ supplicant'.key = supplicant.key /\ supplicant'.installed = supplicant.installed
  BY DEF KeyCalm, SameHandshake
<1>2. KeyPending(a) /\ KeyUnopened(a)
  BY <1>1 DEF KeyOrder
<1>3. /\ \A f : /\ Current(f, a)' <=> Current(f, a)
                /\ Verifying(f, a)' <=> Verifying(f, a)
                /\ Accepting(f, a)' <=> Accepting(f, a)
      /\ \A k : MadeFor(k, a)' <=> MadeFor(k, a)
  BY <1>1 DEF Current, Verifying, Accepting, MadeFor, MadeFrom
<1>4. /\ \A f \in Elems(up') : f \in Elems(up) \/ f.t \in {"Auth", "AssocReq"}
      /\ \A f \in Elems(down') : f \in Elems(down) \/ Outside(f, a)
      /\ \A f, g : Ahead(down', f, g) => Ahead(down, f, g) \/ Outside(g, a)
  BY DEF KeyCalm
<1>5. KeyPending(a)'
  <2> SUFFICES ASSUME NEW g \in Elems(down'), Accepting(g, a)
               PROVE  /\ ap[a].hs = "M1Sent" /\ ~MadeFor(supplicant.key, a)
                      /\ \A f : Ahead(down', f, g) => ~Current(f, a)
                      /\ \A f \in Elems(up') : ~Verifying(f, a)
    BY <1>1, <1>3 DEF KeyPending
  <2>1. g \in Elems(down) /\ ~Outside(g, a)
    BY <1>4 DEF Outside
  <2>2. \A f \in Elems(up') : Verifying(f, a) => f \in Elems(up)
    BY <1>4 DEF Verifying
  <2> QED
    BY <1>2, <1>4, <2>1, <2>2 DEF KeyPending
<1>6. KeyUnopened(a)'
  <2> SUFFICES ASSUME ap[a].hs = "M1Sent"
               PROVE  /\ \A f \in Elems(up') \cup Elems(down') :
                           f.t \in {"M3", "M4"} => ~MadeFor(f.key, a)
                      /\ supplicant.installed => ~MadeFor(supplicant.key, a)
    BY <1>1, <1>3 DEF KeyUnopened
  <2> QED
    BY <1>2, <1>4 DEF KeyUnopened, Outside
<1> QED
  BY <1>5, <1>6

\* So the driver's own steps do not disturb it.
LEMMA QuietKeepsOrder ==
  ASSUME NoPassphrase, TypeInv, SuppliedOnly, QuietForSupplicant, NEW a \in Aps, KeyOrder(a)
  PROVE  KeyOrder(a)'
<1>1. /\ Elems(down') \subseteq Elems(down)
      /\ \A f, g : Ahead(down', f, g) => Ahead(down, f, g)
  BY QuietLeavesKey, TakeFirst DEF TypeInv, AirTypes
<1>2. KeyCalm(a)
  BY <1>1, QuietLeavesKey DEF KeyCalm, SameHandshake
<1> QED
  BY <1>2, KeyCalmKeeps

\* The supplicant answers M1 only when it is no longer behind the response, and
\* finishes with an M3 that only an M2 can have caused.
LEMMA SupplicantKeepsOrder ==
  ASSUME TypeInv, SupplicantReceives, NEW a \in Aps, KeyOrder(a)
  PROVE  KeyOrder(a)'
<1>1. PICK h \in Frame :
        /\ h = Head(down) /\ h \in Elems(down)
        /\ down # <<>> /\ down' = Tail(down) /\ UNCHANGED ap
        /\ \/ Begins(h) \/ Repeats(h) \/ Finishes(h)
           \/ UNCHANGED <<supplicant, fresh, up>>
  BY SupplicantActs
<1> SUFFICES ASSUME ap[a].hs # "None" PROVE KeyPending(a)' /\ KeyUnopened(a)'
  BY <1>1 DEF KeyOrder
<1>2. KeyPending(a) /\ KeyUnopened(a)
  BY DEF KeyOrder
<1>3. /\ \A f : /\ Current(f, a)' <=> Current(f, a)
                /\ Verifying(f, a)' <=> Verifying(f, a)
                /\ Accepting(f, a)' <=> Accepting(f, a)
      /\ \A k : MadeFor(k, a)' <=> MadeFor(k, a)
  BY <1>1 DEF Current, Verifying, Accepting, MadeFor, MadeFrom
<1>4. /\ Elems(down') \subseteq Elems(down)
      /\ \A g \in Elems(down') : Ahead(down, h, g)
      /\ \A f, g : Ahead(down', f, g) => Ahead(down, f, g)
  BY <1>1, TakeFirst DEF TypeInv, AirTypes
<1>5. ASSUME NEW m, m.t \in {"M2", "M4"}, Elems(up') \subseteq Elems(up) \cup {m},
             \A g \in Elems(down') : Accepting(g, a) =>
               ~MadeFor(supplicant'.key, a) /\ ~Verifying(m, a),
             ap[a].hs = "M1Sent" =>
               /\ m.t = "M4" => ~MadeFor(m.key, a)
               /\ supplicant'.installed => ~MadeFor(supplicant'.key, a)
      PROVE  KeyPending(a)' /\ KeyUnopened(a)'
  <2>1. KeyPending(a)'
    BY <1>1, <1>2, <1>3, <1>4, <1>5 DEF KeyPending
  <2>2. KeyUnopened(a)'
    BY <1>1, <1>2, <1>3, <1>4, <1>5 DEF KeyUnopened
  <2> QED
    BY <2>1, <2>2
<1>6. CASE Begins(h)
  <2> DEFINE k == <<h.ap, h.n, fresh>>
             m == M2(h.ap, fresh, k)
  <2>1. m.t = "M2" /\ m.key = k /\ k[2] = h.n
    BY DEF M2, Msg
  <2>2. ASSUME NEW g \in Elems(down'), Accepting(g, a)
        PROVE  ~MadeFor(k, a) /\ ~Verifying(m, a)
    <3>1. ~Current(h, a) /\ h.t = "M1"
      BY <1>2, <1>4, <1>6, <2>2 DEF KeyPending, Begins
    <3>2. h.n # ap[a].an
      BY <3>1 DEF Current
    <3>3. k # <<a, ap[a].an, m.n>>
      BY <3>2
    <3> QED
      BY <2>1, <3>2, <3>3 DEF MadeFor, MadeFrom, Verifying, Derive
  <2>3. supplicant'.key = k /\ supplicant'.installed = FALSE
        /\ Elems(up') \subseteq Elems(up) \cup {m}
    BY <1>6 DEF Begins
  <2> HIDE DEF m, k
  <2> QED
    BY <1>5, <2>1, <2>2, <2>3
<1>7. CASE Repeats(h)
  <2> DEFINE m == M2(h.ap, supplicant.key[3], supplicant.key)
  <2>1. m.t = "M2" /\ m.key = supplicant.key
    BY DEF M2, Msg
  <2>2. ASSUME NEW g \in Elems(down'), Accepting(g, a)
        PROVE  ~MadeFor(supplicant.key, a) /\ ~Verifying(m, a)
    <3>1. ~MadeFor(supplicant.key, a) /\ supplicant.key # NoKey
      BY <1>2, <1>4, <1>7, <2>2 DEF KeyPending, Repeats
    <3>2. supplicant.key # <<a, ap[a].an, m.n>>
      BY <3>1 DEF MadeFor, MadeFrom
    <3> QED
      BY <2>1, <3>1, <3>2 DEF Verifying, Derive
  <2>3. UNCHANGED supplicant /\ Elems(up') \subseteq Elems(up) \cup {m}
    BY <1>7 DEF Repeats
  <2>4. ap[a].hs = "M1Sent" /\ supplicant.installed => ~MadeFor(supplicant.key, a)
    BY <1>2 DEF KeyUnopened
  <2> HIDE DEF m
  <2> QED
    BY <1>5, <2>1, <2>2, <2>3, <2>4
<1>8. CASE Finishes(h)
  <2> DEFINE m == M4(h.ap, h.key)
  <2>1. m.t = "M4" /\ m.key = h.key
    BY DEF M4, Msg
  <2>2. h.t = "M3" /\ h.key = supplicant.key /\ supplicant'.key = supplicant.key
        /\ Elems(up') \subseteq Elems(up) \cup {m}
    BY <1>8 DEF Finishes
  <2>3. ap[a].hs = "M1Sent" => ~MadeFor(h.key, a)
    BY <1>1, <1>2, <2>2 DEF KeyUnopened
  <2>4. \A g \in Elems(down') : Accepting(g, a) =>
               ~MadeFor(supplicant'.key, a) /\ ~Verifying(m, a)
    BY <1>2, <1>4, <2>1, <2>2 DEF KeyPending, Verifying
  <2> HIDE DEF m
  <2> QED
    BY <1>5, <2>1, <2>2, <2>3, <2>4
<1>9. CASE UNCHANGED <<supplicant, fresh, up>>
  <2>1. KeyPending(a)'
    BY <1>1, <1>2, <1>3, <1>4, <1>9 DEF KeyPending
  <2>2. KeyUnopened(a)'
    BY <1>1, <1>2, <1>3, <1>4, <1>9 DEF KeyUnopened
  <2> QED
    BY <2>1, <2>2
<1> QED
  BY <1>1, <1>6, <1>7, <1>8, <1>9

\* The driver and the supplicant stand still while the others move.
KeyStill == /\ UNCHANGED supplicant
            /\ \A f \in Elems(up') : f \in Elems(up)

\* A frame that is outside a's handshake does not disturb it.
LEMMA OutsideKeepsOrder ==
  ASSUME TypeInv, NEW a \in Aps, KeyOrder(a), KeyStill, SameHandshake(ap'[a], ap[a]),
         \/ down' = down
         \/ \E e \in Frame : Outside(e, a) /\ ApSends(<<e>>)
         \/ \E d, e \in Frame : Outside(d, a) /\ Outside(e, a) /\ ApSends(<<d, e>>)
  PROVE  KeyOrder(a)'
<1>1. /\ \A f \in Elems(down') : f \in Elems(down) \/ Outside(f, a)
      /\ \A f, g : Ahead(down', f, g) => Ahead(down, f, g) \/ Outside(g, a)
  <2>1. CASE down' = down
    BY <2>1
  <2>2. ASSUME NEW e \in Frame, Outside(e, a), ApSends(<<e>>) PROVE <1>1!:
    BY <2>2, SendsBehind
  <2>3. ASSUME NEW d \in Frame, NEW e \in Frame, Outside(d, a), Outside(e, a),
               ApSends(<<d, e>>)
        PROVE  <1>1!:
    BY <2>3, SendsTwoBehind
  <2> QED
    BY <2>1, <2>2, <2>3
<1>2. KeyCalm(a)
  BY <1>1 DEF KeyCalm, KeyStill
<1> QED
  BY <1>2, KeyCalmKeeps

\* A new association: the supplicant cannot have a key of it yet.
LEMMA AssociatesKeepsOrder ==
  ASSUME TypeInv, AirNonces, SuppliedOnly, NEW a \in Aps, KeyStill,
         ap'[a].hs = "M1Sent", ap'[a].an = fresh,
         NEW d \in Frame, d.t = "AssocResp", NEW e \in Frame, e.t = "M1",
         ApSends(<<d, e>>)
  PROVE  KeyOrder(a)'
<1>1. fresh \in Nat
  BY DEF TypeInv, AirTypes
<1>2. /\ Elems(down') = Elems(down) \cup {d, e}
      /\ \A f, g : Ahead(down', f, g) => f \in Elems(down) \cup {d}
  <2>1. \A f, g : Ahead(down, f, g) => f \in Elems(down)
    BY DEF Ahead, Elems
  <2> QED
    BY <2>1, SendsTwoBehind
<1>3. \A f \in Elems(up) \cup Elems(down) :
        /\ ~Current(f, a)' /\ ~Verifying(f, a)'
        /\ f.t \in {"M3", "M4"} => ~MadeFor(f.key, a)'
  <2> TAKE f \in Elems(up) \cup Elems(down)
  <2>1. f \in Frame
    BY DEF TypeInv, AirTypes, Elems
  <2>2. Older(f, fresh)
    BY DEF AirNonces
  <2>3. ~Current(f, a)' /\ (f.t \in {"M3", "M4"} => ~MadeFor(f.key, a)')
    BY <1>1, <2>2 DEF Older, Current, MadeFor, MadeFrom
  <2>4. ~Verifying(f, a)'
    <3> SUFFICES ASSUME f.t = "M2", f.key = <<a, fresh, f.n>> PROVE FALSE
      BY DEF Verifying, Derive
    <3>1. f.n \in Nat
      BY <2>1 DEF Frame
    <3>2. f.key # NoKey
      BY <1>1, <3>1, StationAssumption
    <3> QED
      BY <1>1, <2>2, <3>2 DEF Older
  <2> QED
    BY <2>3, <2>4
<1>4. ~MadeFor(supplicant.key, a)'
  BY <1>1 DEF SuppliedOnly, MadeFor, MadeFrom, KeyStill
<1>5. ~Current(d, a)' /\ d.t \notin {"M3", "M4"} /\ e.t \notin {"M3", "M4"}
  BY DEF Current
<1>6. KeyPending(a)'
  <2>1. \A f, g : Ahead(down', f, g) => ~Current(f, a)'
    BY <1>2, <1>3, <1>5
  <2>2. \A f \in Elems(up') : ~Verifying(f, a)'
    BY <1>3 DEF KeyStill
  <2> QED
    BY <1>4, <2>1, <2>2 DEF KeyPending
<1>7. KeyUnopened(a)'
  <2>1. \A f \in Elems(up') \cup Elems(down') : f.t \in {"M3", "M4"} => ~MadeFor(f.key, a)'
    BY <1>2, <1>3, <1>5 DEF KeyStill
  <2> QED
    BY <1>4, <2>1 DEF KeyUnopened
<1> QED
  BY <1>6, <1>7 DEF KeyOrder

\* a takes M2: the driver was connected before the supplicant could answer.
LEMMA TakesM2KeepsOrder ==
  ASSUME TypeInv, NEW a \in Aps, KeyOrder(a), KeyStill,
         NEW m \in Elems(up), Verifying(m, a),
         ap'[a].hs = "M3Sent", ap'[a].an = ap[a].an,
         NEW e \in Frame, e.t = "M3", ApSends(<<e>>)
  PROVE  KeyOrder(a)'
<1>1. KeyPending(a)
  BY DEF KeyOrder, Verifying
<1>2. Elems(down') = Elems(down) \cup {e}
  BY SendsBehind
<1>3. \A g \in Elems(down') : ~Accepting(g, a)'
  BY <1>1, <1>2 DEF KeyPending, Accepting
<1> QED
  BY <1>3 DEF KeyOrder, KeyPending, KeyUnopened

\* a takes M4.
LEMMA TakesM4KeepsOrder ==
  ASSUME NEW a \in Aps, KeyOrder(a), ap[a].hs = "M3Sent", ap'[a].hs = "Done",
         down' = down
  PROVE  KeyOrder(a)'
<1>1. \A g \in Elems(down') : ~Accepting(g, a)'
  BY DEF KeyOrder, KeyPending, Accepting
<1> QED
  BY <1>1 DEF KeyOrder, KeyPending, KeyUnopened

\* An access point takes a frame.
LEMMA ApTakesKeepsOrder ==
  ASSUME TypeInv, AirNonces, SuppliedOnly, NEW a \in Aps, KeyOrder(a), KeyStill,
         NEW f \in Elems(up), f \in Frame, NEW ok \in BOOLEAN,
         ApAuth(f, ok) \/ ApAssoc(f) \/ ApM2(f) \/ ApM4(f)
  PROVE  KeyOrder(a)'
<1> DEFINE b == f.ap
<1>1. b \in Aps /\ f.key \in AnyKey /\ NoKey \in AnyKey
  BY DEF Frame, AnyKey
<1>2. ap \in [Aps -> ApRecord] /\ fresh \in Nat
  BY ApTypesHold DEF ApTypes
<1>3. CASE ApAuth(f, ok)
  <2> DEFINE r == [ap[b] EXCEPT !.assoc = "Auth"]
  <2>1. ap' = ap \/ ap' = [ap EXCEPT ![b] = r]
    BY <1>3 DEF ApAuth
  <2>2. SameHandshake(r, ap[b])
    BY <1>1, <1>2, ApRecords
  <2> HIDE DEF r
  <2>3. SameHandshake(ap'[a], ap[a])
    BY <1>1, <1>2, <2>1, <2>2 DEF SameHandshake
  <2>4. AuthResp(b, TRUE, ok) \in Frame /\ Outside(AuthResp(b, TRUE, ok), a)
    BY <1>1, FrameKinds DEF Outside, Accepting, AuthResp, Msg
  <2> QED
    BY <1>3, <2>3, <2>4, OutsideKeepsOrder DEF ApAuth
<1>4. CASE ApAssoc(f)
  <2>1. CASE /\ ap' = [ap EXCEPT ![b] = [assoc |-> "Assoc", dropped |-> FALSE,
                         hs |-> "M1Sent", an |-> fresh, key |-> NoKey]]
             /\ ApSends(<<AssocResp(b, TRUE, TRUE), M1(b, TRUE, fresh)>>)
    <3>1. PICK d \in Frame, e \in Frame :
             /\ d = AssocResp(b, TRUE, TRUE) /\ e = M1(b, TRUE, fresh)
             /\ ApSends(<<d, e>>)
      BY <1>1, <1>2, <2>1, FrameKinds
    <3>2. /\ d.t = "AssocResp" /\ d.ap = b
          /\ e.t = "M1" /\ e.ap = b
      BY <3>1 DEF AssocResp, M1, Msg
    <3>3. CASE b = a
      <4>1. ap'[a].hs = "M1Sent" /\ ap'[a].an = fresh
        BY <1>2, <2>1, <3>3
      <4> QED
        BY <3>1, <3>2, <4>1, AssociatesKeepsOrder
    <3>4. CASE b # a
      <4>1. SameHandshake(ap'[a], ap[a])
        BY <1>2, <2>1, <3>4 DEF SameHandshake
      <4>2. Outside(d, a) /\ Outside(e, a)
        BY <3>2, <3>4 DEF Outside, Accepting
      <4> QED
        BY <3>1, <4>1, <4>2, OutsideKeepsOrder
    <3> QED
      BY <3>3, <3>4
  <2>2. CASE /\ b \notin Secure
             /\ ap' = [ap EXCEPT ![b].assoc = "Assoc", ![b].dropped = FALSE]
             /\ ApSends(<<AssocResp(b, TRUE, TRUE)>>)
    <3> DEFINE r == [ap[b] EXCEPT !.assoc = "Assoc", !.dropped = FALSE]
    <3>1. ap' = [ap EXCEPT ![b] = r]
      BY <2>2
    <3>2. SameHandshake(r, ap[b])
      BY <1>1, <1>2, ApRecords
    <3> HIDE DEF r
    <3>3. SameHandshake(ap'[a], ap[a])
      BY <1>1, <1>2, <3>1, <3>2 DEF SameHandshake
    <3>4. CASE b = a
      <4>1. ap[a].hs = "None"
        BY <2>2, <3>4 DEF SuppliedOnly
      <4> QED
        BY <3>3, <4>1 DEF SameHandshake, KeyOrder
    <3>5. CASE b # a
      <4>1. AssocResp(b, TRUE, TRUE) \in Frame /\ Outside(AssocResp(b, TRUE, TRUE), a)
        BY <1>1, <3>5, FrameKinds DEF Outside, Accepting, AssocResp, Msg
      <4> QED
        BY <2>2, <3>3, <4>1, OutsideKeepsOrder
    <3> QED
      BY <3>4, <3>5
  <2>3. CASE ap' = ap /\ ApSends(<<AssocResp(b, TRUE, FALSE)>>)
    <3>1. AssocResp(b, TRUE, FALSE) \in Frame /\ Outside(AssocResp(b, TRUE, FALSE), a)
      BY <1>1, FrameKinds DEF Outside, Accepting, AssocResp, Msg
    <3>2. SameHandshake(ap'[a], ap[a])
      BY <2>3 DEF SameHandshake
    <3> QED
      BY <2>3, <3>1, <3>2, OutsideKeepsOrder
  <2> QED
    BY <1>4, <2>1, <2>2, <2>3 DEF ApAssoc
<1>5. CASE ApM2(f)
  <2>1. CASE /\ ap[b].hs = "M1Sent" /\ f.key = Derive(b, ap[b].an, f.n)
             /\ ap' = [ap EXCEPT ![b].hs = "M3Sent", ![b].key = f.key]
             /\ ApSends(<<M3(b, f.key)>>)
    <3> DEFINE r == [ap[b] EXCEPT !.hs = "M3Sent", !.key = f.key]
    <3>1. ap' = [ap EXCEPT ![b] = r]
      BY <2>1
    <3>2. r.hs = "M3Sent" /\ r.an = ap[b].an
      BY <1>1, <1>2, ApRecordSendsM3
    <3> HIDE DEF r
    <3>3. M3(b, f.key) \in Frame /\ M3(b, f.key).t = "M3" /\ M3(b, f.key).key = f.key
      BY <1>1, FrameKinds DEF M3, Msg
    <3>4. CASE b = a
      <4>1. Verifying(f, a)
        BY <1>5, <2>1, <3>4 DEF Verifying, ApM2
      <4>2. ap'[a].hs = "M3Sent" /\ ap'[a].an = ap[a].an
        BY <1>2, <3>1, <3>2, <3>4
      <4> QED
        BY <2>1, <3>3, <4>1, <4>2, TakesM2KeepsOrder
    <3>5. CASE b # a
      <4>1. SameHandshake(ap'[a], ap[a])
        BY <1>2, <3>1, <3>5 DEF SameHandshake
      <4>2. f.key[1] = b
        BY <2>1 DEF Derive
      <4>3. Outside(M3(b, f.key), a)
        BY <3>3, <3>5, <4>2 DEF Outside, Accepting, MadeFor
      <4> QED
        BY <2>1, <3>3, <4>1, <4>3, OutsideKeepsOrder
    <3> QED
      BY <3>4, <3>5
  <2>2. CASE UNCHANGED <<ap, down>>
    BY <2>2, OutsideKeepsOrder DEF SameHandshake
  <2> QED
    BY <1>5, <2>1, <2>2 DEF ApM2
<1>6. CASE ApM4(f)
  <2>1. CASE /\ ap[b].hs = "M3Sent"
             /\ ap' = [ap EXCEPT ![b].hs = "Done"]
    <3>1. down' = down
      BY <1>6 DEF ApM4
    <3>2. CASE b = a
      <4>1. ap'[a].hs = "Done"
        BY <1>2, <2>1, <3>2 DEF ApRecord
      <4> QED
        BY <2>1, <3>1, <3>2, <4>1, TakesM4KeepsOrder
    <3>3. CASE b # a
      <4>1. SameHandshake(ap'[a], ap[a])
        BY <1>2, <2>1, <3>3 DEF SameHandshake
      <4> QED
        BY <3>1, <4>1, OutsideKeepsOrder
    <3> QED
      BY <3>2, <3>3
  <2>2. CASE UNCHANGED <<ap, down>>
    BY <2>2, OutsideKeepsOrder DEF SameHandshake
  <2> QED
    BY <1>6, <2>1, <2>2 DEF ApM4
<1> QED
  BY <1>3, <1>4, <1>5, <1>6

\* An access point repeats a message, drops the driver, or is overheard.
LEMMA ApActsKeepsOrder ==
  ASSUME TypeInv, AirNonces, NEW a \in Aps, KeyOrder(a), KeyStill, NEW b \in Aps,
         ApRepeats(b) \/ ApDrops(b) \/ Overhear(b)
  PROVE  KeyOrder(a)'
<1>1. ap \in [Aps -> ApRecord] /\ fresh \in Nat /\ NoKey \in AnyKey
  BY ApTypesHold DEF ApTypes, AnyKey
<1>2. ap[b].an \in Nat /\ ap[b].key \in AnyKey
  BY <1>1 DEF ApRecord
<1>3. CASE ap' = ap /\ ApSends(<<M1(b, TRUE, ap[b].an)>>)
  <2>1. M1(b, TRUE, ap[b].an) \in Frame /\ Outside(M1(b, TRUE, ap[b].an), a)
    BY <1>2, FrameKinds DEF Outside, Accepting, M1, Msg
  <2> QED
    BY <1>3, <2>1, OutsideKeepsOrder DEF SameHandshake
<1>4. CASE ap' = ap /\ ap[b].hs = "M3Sent" /\ ApSends(<<M3(b, ap[b].key)>>)
  <2>1. M3(b, ap[b].key) \in Frame /\ M3(b, ap[b].key).t = "M3"
        /\ M3(b, ap[b].key).key = ap[b].key
    BY <1>2, FrameKinds DEF M3, Msg
  <2>2. ap[b].key[1] = b
    BY <1>4 DEF AirNonces
  <2>3. Outside(M3(b, ap[b].key), a)
    BY <1>4, <2>1, <2>2 DEF Outside, Accepting, MadeFor
  <2> QED
    BY <1>4, <2>1, <2>3, OutsideKeepsOrder DEF SameHandshake
<1>5. CASE ApDrops(b)
  <2> DEFINE r == [ap[b] EXCEPT !.assoc = "None", !.dropped = TRUE, !.hs = "None"]
  <2>1. down' = down /\ ap' = [ap EXCEPT ![b] = r]
    BY <1>5 DEF ApDrops
  <2>2. r.hs = "None"
    BY <1>1, ApRecords
  <2> HIDE DEF r
  <2>3. CASE b = a
    BY <1>1, <2>1, <2>2, <2>3 DEF KeyOrder
  <2>4. CASE b # a
    <3>1. SameHandshake(ap'[a], ap[a])
      BY <1>1, <2>1, <2>4 DEF SameHandshake
    <3> QED
      BY <2>1, <3>1, OutsideKeepsOrder
  <2> QED
    BY <2>3, <2>4
<1>6. CASE Overhear(b)
  <2>1. /\ AuthResp(b, FALSE, TRUE) \in Frame /\ Outside(AuthResp(b, FALSE, TRUE), a)
        /\ AssocResp(b, FALSE, TRUE) \in Frame /\ Outside(AssocResp(b, FALSE, TRUE), a)
        /\ M1(b, FALSE, fresh) \in Frame /\ Outside(M1(b, FALSE, fresh), a)
    BY <1>1, FrameKinds DEF Outside, Accepting, AuthResp, AssocResp, M1, Msg
  <2>2. ap' = ap /\ \E e \in Frame : Outside(e, a) /\ ApSends(<<e>>)
    BY <1>6, <2>1 DEF Overhear
  <2> QED
    BY <2>2, OutsideKeepsOrder DEF SameHandshake
<1> QED
  BY <1>3, <1>4, <1>5, <1>6 DEF ApRepeats

\* Every step keeps the supplicant's handshake in order.
LEMMA OrderStep ==
  ASSUME NoPassphrase, TypeInv, SuppliedOnly, AirNonces, [Next]_vars,
         NEW a \in Aps, KeyOrder(a)
  PROVE  KeyOrder(a)'
<1>1. CASE ApReceives
  <2>1. Head(up) \in Frame /\ Head(up) \in Elems(up) /\ Elems(up') \subseteq Elems(up)
    BY <1>1, TakeFirst DEF ApReceives, TypeInv, AirTypes
  <2>2. KeyStill
    BY <1>1, <2>1 DEF ApReceives, KeyStill
  <2> QED
    BY <1>1, <2>1, <2>2, ApTakesKeepsOrder DEF ApReceives
<1>2. ASSUME NEW b \in Aps, ApRepeats(b) \/ ApDrops(b) \/ Overhear(b)
      PROVE  KeyOrder(a)'
  <2>1. KeyStill
    BY <1>2 DEF ApRepeats, ApDrops, Overhear, KeyStill
  <2> QED
    BY <1>2, <2>1, ApActsKeepsOrder
<1> QED
  BY <1>1, <1>2, QuietKeepsOrder, SupplicantKeepsOrder, SuppliedSteps

\* The driver is associated with a, and no join is about to end that.
Attached(a) == /\ joinState = "Connected" /\ joinBssid = a
               /\ join.pc \in {"idle", "send"}

\* The supplicant has finished a's handshake.
Finished(a) == /\ ap[a].hs \in {"M3Sent", "Done"} /\ supplicant.installed
               /\ supplicant.key = ap[a].key

\* IOC_WPAKEY has the copies of this session's keys, or is done with them.
Arming(a) == /\ wpakey.pc # "idle" /\ wpakey.tk = supplicant.key /\ wpakey.gtk = a
Armed(a)  == /\ wpakey.pc = "idle" /\ ccmp /\ ptkValid /\ ptk.tk = supplicant.key
             /\ gtk = a

\* The pairwise key comes first, and it is there when the group key comes.
HalfWay(a) == \/ supplicant.todo = {"pairwise", "group"}
              \/ /\ supTk = supplicant.key
                 /\ supplicant.todo = {"group"} \/ Arming(a) \/ Armed(a)

Installs(a) == Attached(a) /\ Finished(a) /\ budget.faults = MaxFaults => HalfWay(a)

\* An access point has the key the supplicant finished with, or makes M3 of a
\* key that nobody had installed.
LEMMA ApFinishes ==
  ASSUME TypeInv, NEW a \in Aps, KeyOrder(a), UNCHANGED supplicant, Finished(a)',
         \/ ApReceives
         \/ \E b \in Aps : ApRepeats(b) \/ ApDrops(b) \/ Overhear(b)
  PROVE  Finished(a)
<1>1. ap \in [Aps -> ApRecord] /\ NoKey \in AnyKey
  BY ApTypesHold DEF ApTypes, AnyKey
<1>3. CASE ApReceives
  <2>1. PICK f \in Frame, ok \in BOOLEAN : ApAuth(f, ok) \/ ApAssoc(f) \/ ApM2(f) \/ ApM4(f)
    BY <1>3, TakeFirst DEF ApReceives, TypeInv, AirTypes
  <2>2. f.ap \in Aps /\ f.key \in AnyKey /\ f.n \in Nat
    BY DEF Frame
  <2>3. CASE ApAuth(f, ok)
    <3>1. ap'[a].hs = ap[a].hs /\ ap'[a].key = ap[a].key
      BY <1>1, <2>2, <2>3 DEF ApAuth, ApRecord
    <3> QED
      BY <3>1 DEF Finished
  <2>4. CASE ApAssoc(f)
    <3>1. \/ ap'[a].hs = ap[a].hs /\ ap'[a].key = ap[a].key
          \/ ap'[a].hs = "M1Sent"
      <4>1. CASE ap' = [ap EXCEPT ![f.ap] = [assoc |-> "Assoc", dropped |-> FALSE,
                          hs |-> "M1Sent", an |-> fresh, key |-> NoKey]]
        BY <1>1, <2>2, <4>1
      <4>2. CASE ap' = [ap EXCEPT ![f.ap].assoc = "Assoc", ![f.ap].dropped = FALSE]
        <5> DEFINE r == [ap[f.ap] EXCEPT !.assoc = "Assoc", !.dropped = FALSE]
        <5>1. SameHandshake(r, ap[f.ap]) /\ ap' = [ap EXCEPT ![f.ap] = r]
          BY <1>1, <2>2, <4>2, ApRecords
        <5> HIDE DEF r
        <5> QED
          BY <1>1, <2>2, <5>1 DEF SameHandshake
      <4> QED
        BY <2>4, <4>1, <4>2 DEF ApAssoc
    <3> QED
      BY <3>1 DEF Finished
  <2>5. CASE ApM2(f)
    <3>1. CASE /\ f.ap = a /\ ap[a].hs = "M1Sent" /\ f.key = Derive(a, ap[a].an, f.n)
               /\ ap' = [ap EXCEPT ![a].hs = "M3Sent", ![a].key = f.key]
      <4>1. ap'[a].key = f.key
        BY <1>1, <3>1 DEF ApRecord
      <4>2. supplicant.key = <<a, ap[a].an, f.n>> /\ supplicant.installed
        BY <3>1, <4>1 DEF Finished, Derive
      <4>3. ap[a].an \in Nat
        BY <1>1 DEF ApRecord
      <4>4. MadeFor(supplicant.key, a)
        BY <2>2, <4>2, <4>3, StationAssumption DEF MadeFor, MadeFrom
      <4> QED
        BY <3>1, <4>2, <4>4 DEF KeyOrder, KeyUnopened
    <3>2. CASE ap'[a] = ap[a]
      BY <3>2 DEF Finished
    <3> QED
      BY <1>1, <2>2, <2>5, <3>1, <3>2 DEF ApM2
  <2>6. CASE ApM4(f)
    <3>1. \/ ap'[a] = ap[a]
          \/ /\ ap[a].hs = "M3Sent" /\ ap'[a].hs = "Done" /\ ap'[a].key = ap[a].key
      BY <1>1, <2>2, <2>6 DEF ApM4, ApRecord
    <3> QED
      BY <3>1 DEF Finished
  <2> QED
    BY <2>1, <2>3, <2>4, <2>5, <2>6
<1>4. ASSUME NEW b \in Aps, ApRepeats(b) \/ ApDrops(b) \/ Overhear(b) PROVE Finished(a)
  <2>1. ap' = ap \/ ap'[a] = ap[a] \/ ap'[a].hs = "None"
    <3>1. CASE ApDrops(b)
      <4> DEFINE r == [ap[b] EXCEPT !.assoc = "None", !.dropped = TRUE, !.hs = "None"]
      <4>1. ap' = [ap EXCEPT ![b] = r] /\ r.hs = "None"
        BY <1>1, <3>1, ApRecords DEF ApDrops
      <4> HIDE DEF r
      <4> QED
        BY <1>1, <4>1
    <3> QED
      BY <1>4, <3>1 DEF ApRepeats, Overhear
  <2> QED
    BY <2>1 DEF Finished
<1> QED
  BY <1>3, <1>4

\* IOC_WPAKEY goes on with the copies it took.
LEMMA WpaKeyKeeps ==
  ASSUME TypeInv, AirNonces, SuppliedOnly, NEW a \in Aps, Installs(a), WpaKeyThread,
         Attached(a)', Finished(a)', budget'.faults = MaxFaults
  PROVE  HalfWay(a)'
<1>1. /\ supplicant \in [key : AnyKey, installed : BOOLEAN,
                         todo : SUBSET {"pairwise", "group"}]
      /\ wpakey \in [pc : {"idle", "install", "arm"}, tk : AnyKey, gtk : AnyAp]
      /\ supplicant.todo \in {{}, {"group"}, {"pairwise", "group"}}
      /\ supplicant.installed => supplicant.key # NoKey
      /\ ptk \in [kck : AnyKey, tk : AnyKey]
  BY DEF TypeInv, AirTypes, ThreadTypes, LinkTypes, Shapes, SuppliedOnly
<1>2. UNCHANGED <<ap, joinState, join>> /\ supplicant'.key = supplicant.key
      /\ supplicant'.installed = supplicant.installed
  BY <1>1 DEF WpaKeyThread, WpaKeyStore, WpaKeyInstall, WpaKeyArm, airVars, joinVars, supVars
<1>3. Finished(a) /\ ap[a].key[1] = a /\ supplicant.key # NoKey /\ supplicant.key[1] = a
  BY <1>1, <1>2 DEF Finished, AirNonces
<1>4. ASSUME WpaKeyStore("pairwise") PROVE HalfWay(a)'
  <2>1. supTk' = supplicant.key /\ supplicant'.todo = supplicant.todo \ {"pairwise"}
        /\ "pairwise" \in supplicant.todo
    BY <1>1, <1>4 DEF WpaKeyStore
  <2>2. supplicant'.todo = {"group"}
    BY <1>1, <2>1
  <2> QED
    BY <1>2, <2>1, <2>2 DEF HalfWay
<1>5. ASSUME joinBssid' = joinBssid, budget' = budget \/ Spend("faults")
      PROVE  HalfWay(a)
  <2>1. budget.faults = MaxFaults
    <3>1. budget \in [{"joins", "faults", "cross", "stray", "sealed", "rekeys"} -> Nat]
          /\ budget.faults <= MaxFaults /\ MaxFaults \in Nat
      BY StationAssumption DEF TypeInv, AirTypes, Shapes
    <3> QED
      BY <1>5, <3>1 DEF Spend
  <2> QED
    BY <1>2, <1>3, <1>5, <2>1 DEF Installs, Attached
<1>6. ASSUME WpaKeyStore("group") PROVE HalfWay(a)'
  <2>1. /\ supGtk' = supplicant.key[1] /\ supTk' = supTk /\ joinBssid' = joinBssid
        /\ budget' = budget
        /\ "group" \in supplicant.todo /\ "pairwise" \notin supplicant.todo
        /\ wpakey.pc = "idle"
        /\ wpakey' = IF BothHeld(supTk', supGtk')
                     THEN [pc |-> "install", tk |-> supTk', gtk |-> supGtk'] ELSE wpakey
    BY <1>6 DEF WpaKeyStore, countVars
  <2>2. supTk = supplicant.key
    BY <1>5, <2>1 DEF HalfWay
  <2>3. BothHeld(supTk', supGtk')
    BY <1>3, <2>1, <2>2, StationAssumption DEF BothHeld
  <2>4. Arming(a)'
    BY <1>2, <1>3, <2>1, <2>2, <2>3 DEF Arming
  <2> QED
    BY <1>2, <2>1, <2>2, <2>4 DEF HalfWay
<1>7. ASSUME WpaKeyInstall PROVE HalfWay(a)'
  <2>1. /\ UNCHANGED <<supplicant, supTk, joinBssid>>
        /\ wpakey.pc = "install"
        /\ \/ budget' = budget /\ wpakey' = [wpakey EXCEPT !.pc = "arm"]
           \/ Spend("faults")
    BY <1>7 DEF WpaKeyInstall, supVars, joinVars
  <2>2. ~Spend("faults")
    <3>1. budget \in [{"joins", "faults", "cross", "stray", "sealed", "rekeys"} -> Nat]
          /\ budget.faults <= MaxFaults /\ MaxFaults \in Nat
      BY StationAssumption DEF TypeInv, AirTypes, Shapes
    <3> QED
      BY <3>1 DEF Spend
  <2>3. wpakey'.pc = "arm" /\ wpakey'.tk = wpakey.tk /\ wpakey'.gtk = wpakey.gtk
    BY <1>1, <2>1, <2>2
  <2>4. HalfWay(a)
    BY <1>5, <2>1
  <2> QED
    BY <2>1, <2>3, <2>4 DEF HalfWay, Arming, Armed
<1>8. ASSUME WpaKeyArm PROVE HalfWay(a)'
  <2>1. /\ UNCHANGED <<supplicant, supTk, joinBssid, budget>>
        /\ wpakey.pc = "arm" /\ wpakey' = [wpakey EXCEPT !.pc = "idle"]
        /\ ptk' = [ptk EXCEPT !.tk = wpakey.tk] /\ ptkValid'
        /\ gtk' = wpakey.gtk /\ ccmp'
    BY <1>8 DEF WpaKeyArm, supVars, joinVars, countVars
  <2>2. wpakey'.pc = "idle" /\ ptk'.tk = wpakey.tk
    BY <1>1, <2>1
  <2>3. HalfWay(a)
    BY <1>5, <2>1
  <2> QED
    BY <2>1, <2>2, <2>3 DEF HalfWay, Arming, Armed
<1> QED
  BY <1>4, <1>6, <1>7, <1>8 DEF WpaKeyThread

\* Every step keeps the installation on the keys of the session.
LEMMA InstallsStep ==
  ASSUME NoPassphrase, TypeInv, SuppliedOnly, AirNonces, [Next]_vars,
         NEW a \in Aps, KeyOrder(a), Installs(a)
  PROVE  Installs(a)'
<1> SUFFICES ASSUME Attached(a)', Finished(a)', budget'.faults = MaxFaults
             PROVE  HalfWay(a)'
  BY DEF Installs
<1>1. budget.faults = MaxFaults
  BY FaultsFall
<1>2. /\ joinState' = "Connected" /\ joinBssid' = a /\ join'.pc \in {"idle", "send"}
      /\ join \in [pc : {"idle", "target", "lookup", "arm", "send"}, ssid : AnyAp,
                   bssid : AnyAp]
  BY DEF Attached, TypeInv, JoinTypes
<1>3. ASSUME Attached(a), Finished(a),
             UNCHANGED <<supplicant, supTk, wpakey, ptk, ptkValid, gtk, ccmp>>
      PROVE  HalfWay(a)'
  BY <1>1, <1>3 DEF Installs, HalfWay, Arming, Armed
<1>4. ASSUME UNCHANGED <<ap, supplicant, supTk, wpakey, ptk, ptkValid, gtk, ccmp>>,
             Attached(a)
      PROVE  HalfWay(a)'
  BY <1>3, <1>4 DEF Finished
<1>5. CASE Joins
  <2>1. \A b \in Aps : ~JoinPsk(b, b) /\ ~JoinPsk(b, NoAp)
    BY NoDriverStep DEF AnyAp
  <2>2. \A b \in Aps : ~SetTarget(b) /\ ~JoinMlme(b)
    BY <1>2 DEF SetTarget, JoinMlme
  <2>3. UNCHANGED <<ap, supplicant, supTk, wpakey, ptk, ptkValid, gtk, ccmp>> /\ Attached(a)
    BY <1>2, <1>5, <2>1, <2>2 DEF Joins, SetWpaIe, MlmeDeauth, CloseDisconnects, hsVars,
       linkVars, supVars, airVars, joinVars, Attached
  <2> QED
    BY <1>4, <2>3
<1>6. CASE JoinThread
  <2>1. ~JoinLegacy /\ ~JoinLookup /\ ~JoinArm
    BY <1>2 DEF JoinLegacy, JoinLookup, JoinArm, SuppliedOnly
  <2>2. JoinSend
    BY <1>6, <2>1 DEF JoinThread
  <2> QED
    BY <1>2, <1>4, <2>2 DEF JoinSend, hsVars, linkVars, supVars, joinVars, Attached
<1>7. CASE WriteThread \/ Lose \/ UNCHANGED vars
  BY <1>2, <1>4, <1>7 DEF WriteThread, WriteCheck, WriteLoadPn, WriteStorePn, WriteSeal,
     WriterOnly, Lose, DriverOnly, vars, hsVars, linkVars, supVars, airVars, joinVars, Attached
<1>8. CASE WpaKeyThread
  BY <1>8, WpaKeyKeeps
<1>9. CASE GroupRekey
  <2>1. /\ UNCHANGED <<ap, supTk, wpakey, ptk, ptkValid, gtk, ccmp, joinState, joinBssid, join>>
        /\ supplicant.todo = {} /\ supplicant' = [supplicant EXCEPT !.todo = {"group"}]
    BY <1>9 DEF GroupRekey, DriverOnly, airVars, joinVars, hsVars, linkVars
  <2>2. supplicant'.key = supplicant.key /\ supplicant'.installed = supplicant.installed
        /\ supplicant'.todo = {"group"}
    BY <2>1 DEF TypeInv, AirTypes
  <2>3. HalfWay(a)
    BY <1>1, <2>1, <2>2 DEF Installs, Attached, Finished
  <2> QED
    BY <2>1, <2>2, <2>3 DEF HalfWay
<1>10. CASE RxAuthResp \/ RxSendAssoc
  BY <1>2, <1>4, <1>10 DEF RxAuthResp, RxSendAssoc, Refused, hsVars, linkVars, supVars,
     Attached
<1>11. CASE RxAssocResp
  <2>1. Head(down) \in Elems(down) /\ Head(down).t = "AssocResp"
    BY <1>11, ReceiveType DEF RxAssocResp
  <2>2. UNCHANGED <<ap, joinBssid, join, supplicant, supTk, wpakey, ptk, ptkValid, gtk, ccmp>>
    BY <1>11 DEF RxAssocResp, hsVars, linkVars, supVars
  <2>3. CASE joinState' = joinState
    BY <1>2, <1>4, <2>2, <2>3 DEF Attached
  <2>4. CASE Head(down).ok /\ FromOurAp(Head(down))
    <3>1. Accepting(Head(down), a)
      BY <1>2, <2>1, <2>2, <2>4 DEF FromOurAp, Accepting
    <3>2. ap[a].hs \in {"M3Sent", "Done"}
      BY <2>2 DEF Finished
    <3> QED
      BY <2>1, <3>1, <3>2 DEF KeyOrder, KeyPending
  <2> QED
    BY <1>2, <1>11, <2>3, <2>4 DEF RxAssocResp, Refused
<1>12. CASE SupplicantReceives
  <2>1. PICK f \in Frame :
          /\ UNCHANGED <<joinState, joinBssid, join, ap, supTk, wpakey, ccmp, ptkValid,
                         ptk, gtk>>
          /\ \/ Begins(f) \/ Repeats(f) \/ Finishes(f)
             \/ UNCHANGED <<supplicant, fresh, up>>
    BY <1>12, SupplicantActs
  <2>2. Attached(a)
    BY <1>2, <2>1 DEF Attached
  <2>3. CASE Begins(f)
    BY <2>3 DEF Begins, Finished
  <2>4. CASE Repeats(f) \/ UNCHANGED <<supplicant, fresh, up>>
    BY <1>4, <2>1, <2>2, <2>4 DEF Repeats
  <2>5. CASE Finishes(f) /\ ~supplicant.installed
    BY <2>5 DEF Finishes, HalfWay
  <2>6. CASE Finishes(f) /\ supplicant.installed
    <3>1. supplicant'.key = supplicant.key /\ supplicant'.todo = supplicant.todo
      BY <2>6 DEF Finishes
    <3>2. HalfWay(a)
      BY <1>1, <2>1, <2>2, <2>6, <3>1 DEF Installs, Finished
    <3> QED
      BY <2>1, <3>1, <3>2 DEF HalfWay, Arming, Armed
  <2> QED
    BY <2>1, <2>3, <2>4, <2>5, <2>6
<1>13. CASE ApReceives \/ \E b \in Aps : ApRepeats(b) \/ ApDrops(b) \/ Overhear(b)
  <2>1. UNCHANGED <<supplicant, supTk, wpakey, ptk, ptkValid, gtk, ccmp, joinState,
                    joinBssid, join>>
    BY <1>13 DEF ApReceives, ApRepeats, ApDrops, Overhear, DriverOnly, hsVars, linkVars,
                 joinVars
  <2>2. Attached(a)
    BY <1>2, <2>1 DEF Attached
  <2>3. Finished(a)
    BY <1>13, <2>1, ApFinishes
  <2> QED
    BY <1>3, <2>1, <2>2, <2>3
<1> QED
  BY <1>5, <1>6, <1>7, <1>8, <1>9, <1>10, <1>11, <1>12, <1>13, SuppliedSteps
     DEF QuietForSupplicant

\* All of it is inductive.
SuppliedInv == /\ TypeInv /\ SuppliedOnly /\ AirNonces
               /\ \A a \in Aps : KeyOrder(a) /\ Installs(a)

\* And it holds forever, of a driver that is given no passphrase.
LEMMA SuppliedHolds == NoPassphrase => (Spec => []SuppliedInv)
<1> SUFFICES ASSUME NoPassphrase PROVE Spec => []SuppliedInv
  OBVIOUS
<1>1. Init => SuppliedInv
  <2> SUFFICES ASSUME Init PROVE SuppliedInv
    OBVIOUS
  <2>1. \A a \in Aps : ap[a].hs = "None" /\ ap[a].an = 0
    BY DEF Init
  <2>2. Elems(up) = {} /\ Elems(down) = {} /\ Held = {}
    BY DEF Init, Elems, Held
  <2>3. SuppliedOnly
    BY <2>1 DEF Init, SuppliedOnly
  <2>4. AirNonces
    BY <2>1, <2>2 DEF Init, AirNonces
  <2>5. \A a \in Aps : KeyOrder(a) /\ Installs(a)
    BY <2>1 DEF KeyOrder, Installs, Finished
  <2> QED
    BY <2>3, <2>4, <2>5, InitType DEF SuppliedInv
<1>2. SuppliedInv /\ [Next]_vars => SuppliedInv'
  BY StepType, SuppliedStep, SuppliedNonces, OrderStep, InstallsStep DEF SuppliedInv
<1> QED
  BY <1>1, <1>2, PTL DEF Spec

\* When a supplicant has finished the handshake and installed what it had to,
\* the driver encrypts with the keys of that handshake, whatever half of an
\* earlier session it still held and however the calls overtook each other.
THEOREM SupplicantKeysHold == NoPassphrase => (Spec => []SupplicantKeysAgree)
<1> SUFFICES ASSUME NoPassphrase PROVE Spec => []SupplicantKeysAgree
  OBVIOUS
<1>1. SuppliedInv => SupplicantKeysAgree
  <2> SUFFICES ASSUME SuppliedInv, joinBssid \in Aps, Attached(joinBssid),
                      Finished(joinBssid), ap[joinBssid].key = supplicant.key,
                      supplicant.todo = {}, wpakey.pc = "idle", budget.faults = MaxFaults
               PROVE  ccmp /\ ptkValid /\ ptk.tk = ap[joinBssid].key /\ gtk = joinBssid
    BY DEF SupplicantKeysAgree, Attached, Finished
  <2>1. PICK a \in Aps : a = joinBssid
    OBVIOUS
  <2>2. HalfWay(a)
    BY <2>1 DEF SuppliedInv, Installs
  <2> QED
    BY <2>1, <2>2 DEF HalfWay, Arming, Armed
<1> QED
  BY <1>1, SuppliedHolds, PTL

-----------------------------------------------------------------------------
(* Packet numbers in a first session.  While at most one join was asked for  *)
(* and no group rekey, the right to associate is in one place at a time:     *)
(* with the caller of the join, in the air, or with the receive callback.    *)
(* An association spends it and begins the only handshake there is; the      *)
(* supplicant finishes that one once, installs its two keys once, and only   *)
(* then is a frame encrypted.                                                *)

FirstSession == budget.joins + 1 >= MaxJoins /\ budget.rekeys = MaxRekeys

Asks(f) == f.t \in {"Auth", "AssocReq"}
Grants(f) == f.t = "AuthResp" /\ f.toUs
Offers(f) == f.t = "M1" /\ f.toUs

\* Where the attempt to associate may be.
Joining == budget.joins = MaxJoins \/ join.pc # "idle"
Asking == \E f \in Elems(up) : Asks(f)
Granted == \E f \in Elems(down) : Grants(f)
Associates == rx = "sendAssoc"
Underway == Joining \/ Asking \/ Granted \/ Associates

OneAttempt ==
  /\ budget.joins = MaxJoins => join.pc = "idle"
  /\ Joining => ~Asking /\ ~Granted /\ ~Associates
  /\ Asking => ~Granted /\ ~Associates
  /\ Granted => ~Associates
  /\ \A f, g : Ahead(up, f, g) => ~(Asks(f) /\ Asks(g))
  /\ \A f, g : Ahead(down, f, g) => ~(Grants(f) /\ Grants(g))

\* The handshakes the supplicant is in or may still enter, by access point and
\* nonce.
Offered ==
  {<<f.ap, f.n>> : f \in {g \in Elems(down) : Offers(g)}}
    \cup {<<a, ap[a].an>> : a \in {b \in Aps : ap[b].hs = "M1Sent"}}
    \cup {<<k[1], k[2]>> : k \in {supplicant.key} \ {NoKey}}

OneHandshake ==
  /\ Underway => Offered = {}
  /\ \A x, y \in Offered : x = y

\* Nothing was encrypted yet, and nobody is about to encrypt.
Unarmed == ~ccmp /\ sealed = <<>> /\ \A w \in Writers : writer[w].pc = "idle"

\* The pairwise key waits for the group key, so that two calls install once.
Uninstalled == ~supplicant.installed \/ supplicant.todo # {}
OneInstallation ==
  /\ ~supplicant.installed => supplicant.todo = {}
  /\ Uninstalled => supGtk = NoAp /\ wpakey.pc = "idle"
  /\ Uninstalled \/ wpakey.pc # "idle" => Unarmed

\* The numbers used so far differ, and are below the one to be used next.
NumbersRise ==
  /\ \A i, j \in DOMAIN sealed : i # j => sealed[i][2] # sealed[j][2]
  /\ \A i \in DOMAIN sealed : sealed[i][2] < txPn
  /\ \A w \in Writers :
       /\ writer[w].pc = "store" => writer[w].pn = txPn
       /\ writer[w].pc = "seal" => /\ writer[w].pn + 1 = txPn
                                   /\ \A i \in DOMAIN sealed : sealed[i][2] < writer[w].pn

SessionInv ==
  /\ budget.joins <= MaxJoins /\ budget.rekeys <= MaxRekeys
  /\ FirstSession => OneAttempt /\ OneHandshake /\ OneInstallation /\ NumbersRise

\* A first session was one all along, and sees no group rekey.
LEMMA SessionsBegin ==
  ASSUME TypeInv, SessionInv, [Next]_vars
  PROVE  /\ budget'.joins <= MaxJoins /\ budget'.rekeys <= MaxRekeys
         /\ FirstSession' => FirstSession /\ ~GroupRekey
         /\ FirstSession' /\ budget'.joins # budget.joins =>
              budget.joins = MaxJoins /\ budget'.joins # MaxJoins
<1>1. UNCHANGED budget
      \/ \E what \in {"joins", "faults", "cross", "stray", "sealed", "rekeys"} : Spend(what)
  BY SpendsOne
<1>2. /\ budget \in [{"joins", "faults", "cross", "stray", "sealed", "rekeys"} -> Nat]
      /\ budget.joins \in Nat /\ budget.rekeys \in Nat
      /\ budget.joins <= MaxJoins /\ budget.rekeys <= MaxRekeys
      /\ MaxJoins \in Nat /\ MaxRekeys \in Nat
  BY StationAssumption DEF TypeInv, AirTypes, SessionInv
<1>3. /\ budget'.joins = budget.joins \/ budget'.joins = budget.joins - 1
      /\ budget'.rekeys = budget.rekeys \/ budget'.rekeys = budget.rekeys - 1
  BY <1>1, <1>2 DEF Spend
<1>4. GroupRekey => budget'.rekeys = budget.rekeys - 1
  BY <1>2 DEF GroupRekey, Spend
<1> QED
  BY <1>2, <1>3, <1>4 DEF FirstSession

\* What belongs to the handshakes on offer.
LEMMA OffersShrink ==
  ASSUME \A f \in Elems(down') : Offers(f) => <<f.ap, f.n>> \in Offered,
         \A a \in Aps : ap'[a].hs = "M1Sent" => <<a, ap'[a].an>> \in Offered,
         supplicant'.key # NoKey => <<supplicant'.key[1], supplicant'.key[2]>> \in Offered
  PROVE  Offered' \subseteq Offered
BY DEF Offered

LEMMA OfferKinds ==
  /\ \A f \in Elems(down) : Offers(f) => <<f.ap, f.n>> \in Offered
  /\ \A a \in Aps : ap[a].hs = "M1Sent" => <<a, ap[a].an>> \in Offered
  /\ supplicant.key # NoKey => <<supplicant.key[1], supplicant.key[2]>> \in Offered
BY DEF Offered

\* A step in which nothing new is asked, granted or offered.
LEMMA Dwindles ==
  ASSUME OneAttempt, OneHandshake, budget'.joins = budget.joins,
         join'.pc # "idle" => join.pc # "idle",
         rx' = rx \/ rx' = "idle",
         \A f \in Elems(up') : Asks(f) => f \in Elems(up),
         \A f, g : Ahead(up', f, g) /\ Asks(f) /\ Asks(g) => Ahead(up, f, g),
         \A f \in Elems(down') : Grants(f) => f \in Elems(down),
         \A f, g : Ahead(down', f, g) /\ Grants(f) /\ Grants(g) => Ahead(down, f, g),
         Offered' \subseteq Offered
  PROVE  OneAttempt' /\ OneHandshake'
<1>1. /\ Joining' => Joining
      /\ Asking' => Asking
      /\ Granted' => Granted
      /\ Associates' => Associates
  BY DEF OneAttempt, Joining, Asking, Granted, Associates
<1>2. OneAttempt'
  <2>1. budget'.joins = MaxJoins => join'.pc = "idle"
    BY DEF OneAttempt
  <2>2. \A f, g : Ahead(up', f, g) => ~(Asks(f) /\ Asks(g))
    BY DEF OneAttempt
  <2>3. \A f, g : Ahead(down', f, g) => ~(Grants(f) /\ Grants(g))
    BY DEF OneAttempt
  <2> QED
    BY <1>1, <2>1, <2>2, <2>3 DEF OneAttempt
<1>3. OneHandshake'
  BY <1>1 DEF OneHandshake, Underway
<1> QED
  BY <1>2, <1>3

\* A queue that lost its first frame, or gained one of another kind.
LEMMA UpDwindles ==
  ASSUME TypeInv, \/ up' = up \/ (up # <<>> /\ up' = Tail(up))
                  \/ \E g \in Frame : up' = Append(up, g) /\ ~Asks(g)
  PROVE  /\ \A f \in Elems(up') : Asks(f) => f \in Elems(up)
         /\ \A f, g : Ahead(up', f, g) /\ Asks(f) /\ Asks(g) => Ahead(up, f, g)
<1>1. up \in Seq(Frame)
  BY DEF TypeInv, AirTypes
<1>2. CASE up' = up
  BY <1>2
<1>3. CASE up # <<>> /\ up' = Tail(up)
  BY <1>1, <1>3, TakeFirst
<1>4. ASSUME NEW e \in Frame, up' = Append(up, e), ~Asks(e)
      PROVE  /\ \A f \in Elems(up') : Asks(f) => f \in Elems(up)
             /\ \A f, g : Ahead(up', f, g) /\ Asks(f) /\ Asks(g) => Ahead(up, f, g)
  <2>1. /\ Append(up, e) = up \o <<e>>
        /\ Elems(up \o <<e>>) = Elems(up) \cup {e}
        /\ \A f, g : Ahead(up \o <<e>>, f, g) <=> Ahead(up, f, g) \/ (f \in Elems(up) /\ g = e)
    BY <1>1, PutLast
  <2> QED
    BY <1>4, <2>1
<1> QED
  BY <1>2, <1>3, <1>4

LEMMA DownDwindles ==
  ASSUME TypeInv, \/ down' = down \/ (down # <<>> /\ down' = Tail(down))
                  \/ \E g \in Frame : ApSends(<<g>>) /\ ~Grants(g)
  PROVE  /\ \A f \in Elems(down') : Grants(f) => f \in Elems(down)
         /\ \A f, g : Ahead(down', f, g) /\ Grants(f) /\ Grants(g) => Ahead(down, f, g)
<1>1. down \in Seq(Frame)
  BY DEF TypeInv, AirTypes
<1>2. CASE down' = down
  BY <1>2
<1>3. CASE down # <<>> /\ down' = Tail(down)
  BY <1>1, <1>3, TakeFirst
<1>4. ASSUME NEW e \in Frame, ApSends(<<e>>), ~Grants(e)
      PROVE  /\ \A f \in Elems(down') : Grants(f) => f \in Elems(down)
             /\ \A f, g : Ahead(down', f, g) /\ Grants(f) /\ Grants(g) => Ahead(down, f, g)
  <2>1. /\ Elems(down \o <<e>>) = Elems(down) \cup {e}
        /\ \A f, g : Ahead(down \o <<e>>, f, g)
                       <=> Ahead(down, f, g) \/ (f \in Elems(down) /\ g = e)
    BY <1>1, PutLast
  <2> QED
    BY <1>4, <2>1 DEF ApSends
<1> QED
  BY <1>2, <1>3, <1>4

\* The places that the right to associate goes through: a join takes it, ...
LEMMA JoinTakes ==
  ASSUME OneAttempt, OneHandshake, budget.joins = MaxJoins, budget'.joins # MaxJoins,
         UNCHANGED <<up, down, rx, ap, supplicant>>
  PROVE  OneAttempt' /\ OneHandshake'
<1>1. Joining
  BY DEF Joining
<1>2. UNCHANGED <<Asking, Granted, Associates, Offered>>
  BY DEF Asking, Granted, Associates, Offered
<1>3. ~Asking /\ ~Granted /\ ~Associates
  BY <1>1 DEF OneAttempt
<1>4. OneAttempt'
  BY <1>2, <1>3 DEF OneAttempt
<1>5. OneHandshake'
  BY <1>1, <1>2 DEF OneHandshake, Underway
<1> QED
  BY <1>4, <1>5

\* ... a request of ours carries it, ...
LEMMA RequestCarries ==
  ASSUME TypeInv, OneAttempt, OneHandshake, Joining \/ Associates, ~Joining', ~Associates',
         NEW g \in Frame, up' = Append(up, g), UNCHANGED <<down, ap, supplicant>>
  PROVE  OneAttempt' /\ OneHandshake'
<1>1. up \in Seq(Frame)
  BY DEF TypeInv, AirTypes
<1>2. /\ Append(up, g) = up \o <<g>>
      /\ \A f, h : Ahead(up \o <<g>>, f, h) <=> Ahead(up, f, h) \/ (f \in Elems(up) /\ h = g)
  BY <1>1, PutLast
<1>3. ~Asking /\ ~Granted
  BY DEF OneAttempt
<1>4. UNCHANGED <<Granted, Offered>>
  BY DEF Granted, Offered
<1>5. \A f, h : Ahead(up', f, h) => ~(Asks(f) /\ Asks(h))
  BY <1>2, <1>3 DEF OneAttempt, Asking
<1>6. \A f, h : Ahead(down', f, h) => ~(Grants(f) /\ Grants(h))
  BY DEF OneAttempt
<1>7. OneAttempt'
  <2>1. budget'.joins # MaxJoins
    BY DEF Joining
  <2> QED
    BY <2>1, <1>3, <1>4, <1>5, <1>6 DEF OneAttempt
<1>8. OneHandshake'
  BY <1>4 DEF OneHandshake, Underway
<1> QED
  BY <1>7, <1>8

\* ... the response of the access point, ...
LEMMA ResponseCarries ==
  ASSUME TypeInv, OneAttempt, OneHandshake, up # <<>>, Asks(Head(up)), up' = Tail(up),
         NEW g \in Frame, ApSends(<<g>>), ~Offers(g),
         UNCHANGED <<budget, join, rx, supplicant>>,
         \A a \in Aps : ap'[a].hs = ap[a].hs /\ ap'[a].an = ap[a].an
  PROVE  OneAttempt' /\ OneHandshake'
<1>1. up \in Seq(Frame) /\ down \in Seq(Frame)
  BY DEF TypeInv, AirTypes
<1>2. /\ Head(up) \in Elems(up)
      /\ \A f \in Elems(Tail(up)) : f \in Elems(up) /\ Ahead(up, Head(up), f)
      /\ \A f, h : Ahead(Tail(up), f, h) => Ahead(up, f, h)
  BY <1>1, TakeFirst
<1>3. /\ Elems(down \o <<g>>) = Elems(down) \cup {g}
      /\ \A f, h : Ahead(down \o <<g>>, f, h)
                     <=> Ahead(down, f, h) \/ (f \in Elems(down) /\ h = g)
  BY <1>1, PutLast
<1>4. Asking /\ ~Joining /\ ~Granted /\ ~Associates
  BY <1>2 DEF Asking, OneAttempt
<1>5. ~Asking'
  BY <1>2 DEF Asking, OneAttempt
<1>6. ~Joining' /\ ~Associates'
  BY <1>4 DEF Joining, Associates
<1>7. \A f, h : Ahead(up', f, h) => ~(Asks(f) /\ Asks(h))
  BY <1>2 DEF OneAttempt
<1>8. \A f, h : Ahead(down', f, h) => ~(Grants(f) /\ Grants(h))
  BY <1>3, <1>4 DEF OneAttempt, Granted, ApSends
<1>9. OneAttempt'
  <2>1. budget'.joins = MaxJoins => join'.pc = "idle"
    BY DEF OneAttempt
  <2> QED
    BY <2>1, <1>5, <1>6, <1>7, <1>8 DEF OneAttempt
<1>10. Offered' \subseteq Offered
  <2>1. \A f \in Elems(down') : Offers(f) => <<f.ap, f.n>> \in Offered
    BY <1>3, OfferKinds DEF ApSends
  <2>2. \A a \in Aps : ap'[a].hs = "M1Sent" => <<a, ap'[a].an>> \in Offered
    BY OfferKinds
  <2> QED
    BY <2>1, <2>2, OfferKinds, OffersShrink
<1>11. OneHandshake'
  BY <1>4, <1>10 DEF OneHandshake, Underway
<1> QED
  BY <1>9, <1>11

\* ... and the receive callback,
LEMMA CallbackTakes ==
  ASSUME TypeInv, OneAttempt, OneHandshake, down # <<>>, Grants(Head(down)),
         down' = Tail(down), UNCHANGED <<budget, join, up, ap, supplicant>>
  PROVE  OneAttempt' /\ OneHandshake'
<1>1. down \in Seq(Frame)
  BY DEF TypeInv, AirTypes
<1>2. /\ Head(down) \in Elems(down)
      /\ \A f \in Elems(Tail(down)) : f \in Elems(down) /\ Ahead(down, Head(down), f)
      /\ \A f, h : Ahead(Tail(down), f, h) => Ahead(down, f, h)
  BY <1>1, TakeFirst
<1>3. Granted /\ ~Joining /\ ~Asking /\ ~Associates
  BY <1>2 DEF Granted, OneAttempt
<1>4. ~Granted'
  BY <1>2 DEF Granted, OneAttempt
<1>5. ~Joining' /\ ~Asking'
  BY <1>3 DEF Joining, Asking
<1>6. \A f, h : Ahead(down', f, h) => ~(Grants(f) /\ Grants(h))
  BY <1>2 DEF OneAttempt
<1>7. OneAttempt'
  <2>1. /\ budget'.joins = MaxJoins => join'.pc = "idle"
        /\ \A f, h : Ahead(up', f, h) => ~(Asks(f) /\ Asks(h))
    BY DEF OneAttempt
  <2> QED
    BY <2>1, <1>4, <1>5, <1>6 DEF OneAttempt
<1>8. Offered' \subseteq Offered
  <2>1. \A f \in Elems(down') : Offers(f) => <<f.ap, f.n>> \in Offered
    BY <1>2, OfferKinds
  <2>2. \A a \in Aps : ap'[a].hs = "M1Sent" => <<a, ap'[a].an>> \in Offered
    BY OfferKinds
  <2> QED
    BY <2>1, <2>2, OfferKinds, OffersShrink
<1>9. OneHandshake'
  BY <1>3, <1>8 DEF OneHandshake, Underway
<1> QED
  BY <1>7, <1>9

\* until an access point spends it on the one handshake.
LEMMA HandshakeBegins ==
  ASSUME TypeInv, OneAttempt, OneHandshake, up # <<>>, Asks(Head(up)), up' = Tail(up),
         NEW a \in Aps, ApSends(<<AssocResp(a, TRUE, TRUE), M1(a, TRUE, fresh)>>),
         UNCHANGED <<budget, join, rx, supplicant>>,
         ap' = [ap EXCEPT ![a] = [assoc |-> "Assoc", dropped |-> FALSE,
                       hs |-> "M1Sent", an |-> fresh, key |-> NoKey]]
  PROVE  OneAttempt' /\ OneHandshake'
<1> DEFINE d == AssocResp(a, TRUE, TRUE)
           e == M1(a, TRUE, fresh)
<1>1. up \in Seq(Frame) /\ down \in Seq(Frame) /\ d \in Frame /\ e \in Frame
      /\ ap \in [Aps -> ApRecord]
  BY FrameKinds, ApTypesHold DEF TypeInv, AirTypes, ApTypes, AnyKey
<1>2. /\ Head(up) \in Elems(up)
      /\ \A f \in Elems(Tail(up)) : f \in Elems(up) /\ Ahead(up, Head(up), f)
      /\ \A f, h : Ahead(Tail(up), f, h) => Ahead(up, f, h)
  BY <1>1, TakeFirst
<1>3. ~Grants(d) /\ ~Grants(e) /\ ~Offers(d) /\ e.ap = a /\ e.n = fresh
  BY DEF Grants, Offers, AssocResp, M1, Msg
<1> HIDE DEF d, e
<1>4. /\ Elems(down \o <<d, e>>) = Elems(down) \cup {d, e}
      /\ \A f, h : Ahead(down \o <<d, e>>, f, h)
                     <=> \/ Ahead(down, f, h)
                         \/ f \in Elems(down) /\ h \in {d, e}
                         \/ f = d /\ h = e
  BY <1>1, PutTwo
<1>5. down' = down \o <<d, e>>
  BY DEF ApSends, d, e
<1>6. Asking /\ ~Joining /\ ~Granted /\ ~Associates
  BY <1>2 DEF Asking, OneAttempt
<1>7. ~Asking' /\ ~Granted' /\ ~Joining' /\ ~Associates'
  <2>1. ~Asking'
    BY <1>2 DEF Asking, OneAttempt
  <2>2. ~Granted'
    BY <1>3, <1>4, <1>5, <1>6 DEF Granted
  <2> QED
    BY <2>1, <2>2, <1>6 DEF Joining, Associates
<1>8. OneAttempt'
  <2>1. \A f, h : Ahead(up', f, h) => ~(Asks(f) /\ Asks(h))
    BY <1>2 DEF OneAttempt
  <2>2. \A f, h : Ahead(down', f, h) => ~(Grants(f) /\ Grants(h))
    BY <1>3, <1>4, <1>5 DEF OneAttempt
  <2>3. budget'.joins = MaxJoins => join'.pc = "idle"
    BY DEF OneAttempt
  <2> QED
    BY <2>1, <2>2, <2>3, <1>7 DEF OneAttempt
<1>9. Offered = {}
  BY <1>6 DEF OneHandshake, Underway
<1>10. \A x \in Offered' : x = <<a, fresh>>
  <2>1. \A f \in Elems(down') : Offers(f) => f = e
    BY <1>3, <1>4, <1>5, <1>9, OfferKinds
  <2>2. \A b \in Aps : ap'[b].hs = "M1Sent" => b = a /\ ap'[b].an = fresh
    BY <1>1, <1>9, OfferKinds
  <2>3. supplicant'.key = NoKey
    BY <1>9, OfferKinds
  <2> QED
    BY <2>1, <2>2, <2>3, <1>3 DEF Offered
<1>11. OneHandshake'
  BY <1>7, <1>10 DEF OneHandshake, Underway
<1> QED
  BY <1>8, <1>11

\* What the supplicant makes of a frame, for the handshakes on offer: it begins
\* one that it is not in, stays where it is, or finishes the one it is in.
LEMMA SupplicantTakes ==
  ASSUME TypeInv, SupplicantReceives, NEW f, f = Head(down)
  PROVE  /\ f \in Elems(down) /\ f \in Frame /\ down # <<>> /\ down' = Tail(down)
         /\ UNCHANGED <<budget, join, rx, ap>>
         /\ up' = up \/ \E g \in Frame : up' = Append(up, g) /\ ~Asks(g)
         /\ \/ /\ Offers(f)
               /\ ~(/\ supplicant.key # NoKey
                    /\ supplicant.key[1] = f.ap /\ supplicant.key[2] = f.n)
               /\ supplicant' = [key |-> <<f.ap, f.n, fresh>>, installed |-> FALSE, todo |-> {}]
            \/ supplicant' = supplicant
            \/ /\ supplicant.key # NoKey /\ supplicant'.key = supplicant.key
               /\ supplicant'.installed
               /\ supplicant'.todo = IF supplicant.installed THEN supplicant.todo
                                     ELSE {"pairwise", "group"}
<1>1. f \in Elems(down) /\ f \in Frame /\ down # <<>> /\ down' = Tail(down)
      /\ UNCHANGED <<join, ap>>
  BY SupplicantActs
<1>2. UNCHANGED <<budget, rx>>
  BY DEF SupplicantReceives, TransmitOk
<1>3. /\ f.ap \in Aps /\ f.n \in Nat /\ f.key \in AnyKey /\ fresh \in Nat
      /\ supplicant \in [key : AnyKey, installed : BOOLEAN,
                         todo : SUBSET {"pairwise", "group"}]
  BY <1>1 DEF Frame, TypeInv, AirTypes
<1>4. f.t = "M3" => f.key # NoKey
  BY <1>1 DEF TypeInv, Shapes
<1> DEFINE repeated == supplicant.key # NoKey /\ supplicant.key[1] = f.ap
                       /\ supplicant.key[2] = f.n
           new == <<f.ap, f.n, fresh>>
<1>5. \/ /\ f.toUs /\ f.t = "M1" /\ repeated
         /\ supplicant' = supplicant
         /\ TransmitOk(M2(f.ap, supplicant.key[3], supplicant.key))
      \/ /\ f.toUs /\ f.t = "M1" /\ ~repeated
         /\ supplicant' = [key |-> new, installed |-> FALSE, todo |-> {}]
         /\ TransmitOk(M2(f.ap, new[3], new))
      \/ /\ f.t = "M3" /\ supplicant.key = f.key
         /\ supplicant' = [supplicant EXCEPT !.installed = TRUE, !.todo =
                             IF supplicant.installed THEN @ ELSE {"pairwise", "group"}]
         /\ TransmitOk(M4(f.ap, f.key))
      \/ UNCHANGED <<supplicant, up>>
  BY DEF SupplicantReceives, Derive
<1>6. /\ new \in AnyKey /\ new[3] \in Nat
      /\ repeated => supplicant.key[3] \in Nat
  BY <1>3 DEF AnyKey, Keys
<1> HIDE DEF new, repeated
<1>7. \A n \in Nat, k \in AnyKey :
        /\ M2(f.ap, n, k) \in Frame /\ ~Asks(M2(f.ap, n, k)) /\ M2(f.ap, n, k).ap = f.ap
        /\ M4(f.ap, k) \in Frame /\ ~Asks(M4(f.ap, k)) /\ M4(f.ap, k).ap = f.ap
  <2> TAKE n \in Nat, k \in AnyKey
  <2>1. M2(f.ap, n, k) \in Frame /\ M4(f.ap, k) \in Frame
    BY <1>3, FrameKinds
  <2> QED
    BY <2>1 DEF M2, M4, Msg, Asks
<1>8. \A g \in Frame : TransmitOk(g) /\ ~Asks(g) =>
        up' = up \/ \E h \in Frame : up' = Append(up, h) /\ ~Asks(h)
  BY DEF TransmitOk
<1>9. supplicant.key \in AnyKey
  BY <1>3
<1>10. up' = up \/ \E g \in Frame : up' = Append(up, g) /\ ~Asks(g)
  BY <1>3, <1>5, <1>6, <1>7, <1>8, <1>9
<1>11. f.t = "M3" /\ supplicant.key = f.key => supplicant.key # NoKey
  BY <1>4
<1> QED
  BY <1>1, <1>2, <1>3, <1>5, <1>10, <1>11 DEF Offers, new, repeated

\* The supplicant begins a handshake only while it has none, and asks for nothing.
LEMMA SupplicantKeepsSession ==
  ASSUME TypeInv, OneAttempt, OneHandshake, SupplicantReceives
  PROVE  OneAttempt' /\ OneHandshake'
<1> DEFINE f == Head(down)
<1>1. /\ f \in Elems(down) /\ down # <<>> /\ down' = Tail(down)
      /\ UNCHANGED <<budget, join, rx, ap>>
      /\ up' = up \/ \E g \in Frame : up' = Append(up, g) /\ ~Asks(g)
  BY SupplicantTakes
<1>2. \/ Offers(f) /\ supplicant'.key = <<f.ap, f.n, fresh>>
      \/ supplicant'.key = supplicant.key
  BY SupplicantTakes
<1>3. Elems(down') \subseteq Elems(down)
  BY <1>1, TakeFirst DEF TypeInv, AirTypes
<1>4. Offered' \subseteq Offered
  <2>1. \A g \in Elems(down') : Offers(g) => <<g.ap, g.n>> \in Offered
    BY <1>3, OfferKinds
  <2>2. \A a \in Aps : ap'[a].hs = "M1Sent" => <<a, ap'[a].an>> \in Offered
    BY <1>1, OfferKinds
  <2>3. supplicant'.key # NoKey => <<supplicant'.key[1], supplicant'.key[2]>> \in Offered
    <3>1. CASE Offers(f) /\ supplicant'.key = <<f.ap, f.n, fresh>>
      BY <1>1, <3>1, OfferKinds
    <3>2. CASE supplicant'.key = supplicant.key
      BY <3>2, OfferKinds
    <3> QED
      BY <1>2, <3>1, <3>2
  <2> QED
    BY <2>1, <2>2, <2>3, OffersShrink
<1> QED
  BY <1>1, <1>4, UpDwindles, DownDwindles, Dwindles

\* An access point takes a frame of ours.
LEMMA ApKeepsSession ==
  ASSUME TypeInv, OneAttempt, OneHandshake, ApReceives
  PROVE  OneAttempt' /\ OneHandshake'
<1>1. PICK f \in Frame, ok \in BOOLEAN :
        /\ f = Head(up) /\ up # <<>> /\ up' = Tail(up)
        /\ ApAuth(f, ok) \/ ApAssoc(f) \/ ApM2(f) \/ ApM4(f)
  BY TakeFirst DEF ApReceives, TypeInv, AirTypes
<1>2. /\ UNCHANGED <<budget, join, rx, supplicant>>
      /\ ap \in [Aps -> ApRecord] /\ f.ap \in Aps /\ f.key \in AnyKey
      /\ f.n \in Nat
  BY <1>1, ApTypesHold DEF ApReceives, DriverOnly, ApTypes, Frame
<1>3. ASSUME down' = down \/ \E g \in Frame : ApSends(<<g>>) /\ ~Grants(g) /\ ~Offers(g),
             \A a \in Aps : ap'[a].hs = "M1Sent" => ap[a].hs = "M1Sent" /\ ap'[a].an = ap[a].an
      PROVE  OneAttempt' /\ OneHandshake'
  <2>1. \A g \in Elems(down') : Offers(g) => g \in Elems(down)
    <3>1. ASSUME NEW e \in Frame, ApSends(<<e>>), ~Offers(e)
          PROVE  \A g \in Elems(down') : Offers(g) => g \in Elems(down)
      BY <3>1, PutLast DEF TypeInv, AirTypes, ApSends
    <3> QED
      BY <1>3, <3>1
  <2>2. Offered' \subseteq Offered
    <3>1. \A g \in Elems(down') : Offers(g) => <<g.ap, g.n>> \in Offered
      BY <2>1, OfferKinds
    <3>2. \A a \in Aps : ap'[a].hs = "M1Sent" => <<a, ap'[a].an>> \in Offered
      BY <1>3, OfferKinds
    <3> QED
      BY <1>2, <3>1, <3>2, OfferKinds, OffersShrink
  <2> QED
    BY <1>1, <1>2, <1>3, <2>2, UpDwindles, DownDwindles, Dwindles
<1>4. CASE ApAuth(f, ok)
  <2>1. /\ AuthResp(f.ap, TRUE, ok) \in Frame /\ ~Offers(AuthResp(f.ap, TRUE, ok))
    BY <1>2, FrameKinds DEF AnyKey, AuthResp, Msg, Offers
  <2>2. Asks(f) /\ ApSends(<<AuthResp(f.ap, TRUE, ok)>>)
    BY <1>4 DEF ApAuth, Asks
  <2>3. \A a \in Aps : ap'[a].hs = ap[a].hs /\ ap'[a].an = ap[a].an
    BY <1>2, <1>4 DEF ApAuth, ApRecord
  <2> QED
    BY <1>1, <1>2, <2>1, <2>2, <2>3, ResponseCarries
<1>5. CASE ApAssoc(f)
  <2>1. \A ok2 \in BOOLEAN : LET g == AssocResp(f.ap, TRUE, ok2)
                             IN g \in Frame /\ ~Grants(g) /\ ~Offers(g)
    <3> TAKE ok2 \in BOOLEAN
    <3>1. AssocResp(f.ap, TRUE, ok2) \in Frame
      BY <1>2, FrameKinds DEF AnyKey
    <3> QED
      BY <3>1 DEF AssocResp, Msg, Grants, Offers
  <2>2. CASE /\ ap' = [ap EXCEPT ![f.ap] = [assoc |-> "Assoc", dropped |-> FALSE,
                       hs |-> "M1Sent", an |-> fresh, key |-> NoKey]]
             /\ ApSends(<<AssocResp(f.ap, TRUE, TRUE), M1(f.ap, TRUE, fresh)>>)
    <3>1. Asks(f)
      BY <1>5 DEF ApAssoc, Asks
    <3> QED
      BY <1>1, <1>2, <2>2, <3>1, HandshakeBegins
  <2>3. CASE /\ ap' = [ap EXCEPT ![f.ap].assoc = "Assoc", ![f.ap].dropped = FALSE]
             /\ ApSends(<<AssocResp(f.ap, TRUE, TRUE)>>)
    <3>1. \A a \in Aps : ap'[a].hs = ap[a].hs /\ ap'[a].an = ap[a].an
      BY <1>2, <2>3 DEF ApRecord
    <3> QED
      BY <1>3, <2>1, <2>3, <3>1
  <2>4. CASE ap' = ap /\ ApSends(<<AssocResp(f.ap, TRUE, FALSE)>>)
    BY <1>3, <2>1, <2>4
  <2> QED
    BY <1>5, <2>2, <2>3, <2>4 DEF ApAssoc
<1>6. CASE ApM2(f)
  <2>1. M3(f.ap, f.key) \in Frame /\ ~Grants(M3(f.ap, f.key)) /\ ~Offers(M3(f.ap, f.key))
    BY <1>2, FrameKinds DEF M3, Msg, Grants, Offers
  <2>2. CASE ap' = [ap EXCEPT ![f.ap].hs = "M3Sent", ![f.ap].key = f.key]
             /\ ApSends(<<M3(f.ap, f.key)>>)
    <3>1. \A a \in Aps : ap'[a].hs = "M1Sent" => ap[a].hs = "M1Sent" /\ ap'[a].an = ap[a].an
      BY <1>2, <2>2 DEF ApRecord
    <3> QED
      BY <1>3, <2>1, <2>2, <3>1
  <2> QED
    BY <1>3, <1>6, <2>2 DEF ApM2
<1>7. CASE ApM4(f)
  <2>1. \A a \in Aps : ap'[a].hs = "M1Sent" => ap[a].hs = "M1Sent" /\ ap'[a].an = ap[a].an
    BY <1>2, <1>7 DEF ApM4, ApRecord
  <2> QED
    BY <1>3, <1>7, <2>1 DEF ApM4
<1> QED
  BY <1>1, <1>4, <1>5, <1>6, <1>7

\* An access point repeats itself, drops us, or talks to somebody else.
LEMMA ApActsInSession ==
  ASSUME TypeInv, OneAttempt, OneHandshake, NEW a \in Aps,
         ApRepeats(a) \/ ApDrops(a) \/ Overhear(a)
  PROVE  OneAttempt' /\ OneHandshake'
<1>1. /\ UNCHANGED <<join, rx, supplicant, up>> /\ budget'.joins = budget.joins
      /\ budget \in [{"joins", "faults", "cross", "stray", "sealed", "rekeys"} -> Nat]
  BY DEF TypeInv, AirTypes, ApRepeats, ApDrops, Overhear, DriverOnly, Spend
<1>2. ap \in [Aps -> ApRecord] /\ fresh \in Nat
  BY ApTypesHold DEF ApTypes, TypeInv, AirTypes
<1>3. \A b \in Aps : ap'[b].hs = "M1Sent" => ap[b].hs = "M1Sent" /\ ap'[b].an = ap[b].an
  BY <1>2 DEF ApRepeats, ApDrops, Overhear, ApRecord
<1>4. down' = down \/ \E g \in Frame : /\ ApSends(<<g>>) /\ ~Grants(g)
                                       /\ Offers(g) => <<g.ap, g.n>> \in Offered
  <2>1. CASE ApRepeats(a)
    <3>1. CASE ap[a].hs = "M1Sent" /\ ApSends(<<M1(a, TRUE, ap[a].an)>>)
      <4> DEFINE g == M1(a, TRUE, ap[a].an)
      <4>1. g \in Frame
        BY <1>2, FrameKinds DEF ApRecord, AnyKey
      <4>2. ~Grants(g) /\ g.ap = a /\ g.n = ap[a].an
        BY DEF M1, Msg, Grants
      <4> QED
        BY <3>1, <4>1, <4>2, OfferKinds
    <3>2. CASE ApSends(<<M3(a, ap[a].key)>>)
      <4>1. M3(a, ap[a].key) \in Frame
        BY <1>2, FrameKinds DEF ApRecord
      <4> QED
        BY <3>2, <4>1 DEF M3, Msg, Grants, Offers
    <3> QED
      BY <2>1, <3>1, <3>2 DEF ApRepeats
  <2>2. CASE ApDrops(a)
    BY <2>2 DEF ApDrops
  <2>3. CASE Overhear(a)
    <3>1. /\ AuthResp(a, FALSE, TRUE) \in Frame /\ AssocResp(a, FALSE, TRUE) \in Frame
          /\ M1(a, FALSE, fresh) \in Frame
      BY <1>2, FrameKinds DEF AnyKey
    <3> QED
      BY <2>3, <3>1 DEF Overhear, AuthResp, AssocResp, M1, Msg, Grants, Offers
  <2> QED
    BY <2>1, <2>2, <2>3
<1>5. Offered' \subseteq Offered
  <2>1. \A g \in Elems(down') : Offers(g) => <<g.ap, g.n>> \in Offered
    <3>1. ASSUME NEW e \in Frame, ApSends(<<e>>), Offers(e) => <<e.ap, e.n>> \in Offered
          PROVE  \A g \in Elems(down') : Offers(g) => <<g.ap, g.n>> \in Offered
      <4>1. Elems(down') = Elems(down) \cup {e}
        BY <3>1, PutLast DEF TypeInv, AirTypes, ApSends
      <4> QED
        BY <3>1, <4>1, OfferKinds
    <3> QED
      BY <1>4, <3>1, OfferKinds
  <2>2. \A b \in Aps : ap'[b].hs = "M1Sent" => <<b, ap'[b].an>> \in Offered
    BY <1>3, OfferKinds
  <2> QED
    BY <1>1, <2>1, <2>2, OfferKinds, OffersShrink
<1> QED
  BY <1>1, <1>4, <1>5, UpDwindles, DownDwindles, Dwindles

\* Joining, installing keys, writing, losing frames.
LEMMA QuietKeepsSession ==
  ASSUME NoPassphrase, TypeInv, SuppliedOnly, SessionInv, [Next]_vars, FirstSession',
         OneAttempt, OneHandshake, QuietForSupplicant
  PROVE  OneAttempt' /\ OneHandshake'
<1>1. /\ UNCHANGED ap /\ supplicant'.key = supplicant.key
      /\ down' = down \/ (down # <<>> /\ down' = Tail(down))
  BY QuietLeavesKey
<1>2. /\ budget \in [{"joins", "faults", "cross", "stray", "sealed", "rekeys"} -> Nat]
      /\ down \in Seq(Frame) /\ up \in Seq(Frame)
  BY DEF TypeInv, AirTypes
<1>3. Offered' \subseteq Offered
  <2>1. Elems(down') \subseteq Elems(down)
    BY <1>1, <1>2, TakeFirst
  <2>2. \A g \in Elems(down') : Offers(g) => <<g.ap, g.n>> \in Offered
    BY <2>1, OfferKinds
  <2> QED
    BY <1>1, <2>2, OfferKinds, OffersShrink
<1>4. ASSUME budget'.joins = budget.joins, join'.pc # "idle" => join.pc # "idle",
             rx' = rx \/ rx' = "idle", up' = up \/ (up # <<>> /\ up' = Tail(up))
      PROVE  OneAttempt' /\ OneHandshake'
  BY <1>1, <1>3, <1>4, UpDwindles, DownDwindles, Dwindles
<1>5. CASE Joins
  <2>1. \A a \in Aps : ~JoinPsk(a, a) /\ ~JoinPsk(a, NoAp)
    BY NoDriverStep DEF AnyAp
  <2>2. ASSUME NEW a \in Aps, SetTarget(a) \/ JoinMlme(a)
        PROVE  OneAttempt' /\ OneHandshake'
    <3>1. UNCHANGED <<up, down, rx, ap, supplicant>> /\ budget'.joins # budget.joins
      BY <1>2, <2>2 DEF SetTarget, JoinMlme, Spend, airVars, supVars
    <3> QED
      BY <3>1, SessionsBegin, JoinTakes
  <2>3. CASE (\E b \in BOOLEAN : SetWpaIe(b)) \/ MlmeDeauth \/ CloseDisconnects
    BY <1>4, <2>3 DEF SetWpaIe, MlmeDeauth, CloseDisconnects, countVars, airVars
  <2> QED
    BY <1>5, <2>1, <2>2, <2>3 DEF Joins
<1>6. CASE JoinLegacy \/ JoinLookup \/ JoinArm
  BY <1>4, <1>6 DEF JoinLegacy, JoinLookup, JoinArm, countVars, airVars
<1>7. CASE JoinSend
  <2>1. /\ join.pc = "send" /\ join'.pc = "idle" /\ UNCHANGED <<rx, down, supplicant>>
        /\ budget'.joins = budget.joins
    BY <1>2, <1>7 DEF JoinSend, TransmitOk, TransmitFails, Spend, supVars, TypeInv, JoinTypes
  <2>2. CASE up' = up
    BY <1>4, <2>1, <2>2
  <2>3. CASE up' = Append(up, Auth(joinBssid)) /\ Auth(joinBssid).ap # NoAp
    <3>1. Auth(joinBssid) \in Frame
      BY <2>3, FrameKinds DEF TypeInv, JoinTypes, Auth, Msg, AnyKey, AnyAp
    <3>2. Joining
      BY <2>1 DEF Joining
    <3>3. ~Joining' /\ ~Associates'
      BY <2>1, <3>2 DEF Joining, OneAttempt, Associates
    <3> QED
      BY <1>1, <2>1, <2>3, <3>1, <3>2, <3>3, RequestCarries
  <2> QED
    BY <1>7, <2>2, <2>3 DEF JoinSend, TransmitOk, TransmitFails
<1>8. CASE WriteThread
  BY <1>2, <1>4, <1>8 DEF WriteThread, WriteCheck, WriteLoadPn, WriteStorePn, WriteSeal,
     WriterOnly, Spend, airVars
<1>9. CASE WpaKeyThread
  BY <1>2, <1>4, <1>9 DEF WpaKeyThread, WpaKeyStore, WpaKeyInstall, WpaKeyArm, Spend, airVars,
     countVars
<1>10. CASE Lose
  BY <1>2, <1>4, <1>10 DEF Lose, Spend, DriverOnly
<1>11. CASE RxAuthResp
  <2>1. /\ UNCHANGED <<budget, join, up, supplicant>> /\ down # <<>> /\ down' = Tail(down)
        /\ rx' = rx \/ (rx' = "sendAssoc" /\ Head(down).toUs /\ Head(down).t = "AuthResp")
    BY <1>11 DEF RxAuthResp, Receive, FromOurAp, countVars, supVars
  <2>2. CASE rx' = rx
    BY <1>4, <2>1, <2>2
  <2>3. CASE Head(down).toUs /\ Head(down).t = "AuthResp"
    BY <1>1, <2>1, <2>3, CallbackTakes DEF Grants
  <2> QED
    BY <2>1, <2>2, <2>3
<1>12. CASE RxAssocResp
  BY <1>4, <1>12 DEF RxAssocResp, Receive, countVars
<1>13. CASE RxSendAssoc
  <2> DEFINE g == AssocReq(joinBssid, wpaIe)
  <2>1. /\ rx = "sendAssoc" /\ rx' = "idle" /\ UNCHANGED <<join, down, supplicant>>
        /\ budget'.joins = budget.joins
    BY <1>2, <1>13 DEF RxSendAssoc, TransmitOk, TransmitFails, Spend, supVars
  <2>2. CASE up' = up
    BY <1>4, <2>1, <2>2
  <2>3. CASE up' = Append(up, g) /\ g.ap # NoAp
    <3>1. g \in Frame
      BY <2>3, FrameKinds DEF TypeInv, JoinTypes, LinkTypes, AssocReq, Msg, AnyKey, AnyAp
    <3>2. Associates /\ ~Associates'
      BY <2>1 DEF Associates
    <3>3. ~Joining'
      BY <2>1, <3>2 DEF Joining, OneAttempt
    <3> HIDE DEF g
    <3> QED
      BY <1>1, <2>1, <2>3, <3>1, <3>2, <3>3, RequestCarries
  <2> QED
    BY <1>13, <2>2, <2>3 DEF RxSendAssoc, TransmitOk, TransmitFails
<1>14. CASE UNCHANGED vars
  BY <1>4, <1>14 DEF vars, countVars, airVars
<1>15. ~GroupRekey
  BY SessionsBegin
<1> QED
  BY <1>5, <1>6, <1>7, <1>8, <1>9, <1>10, <1>11, <1>12, <1>13, <1>14, <1>15
     DEF QuietForSupplicant, JoinThread

\* So a first session sees one association and one handshake.
LEMMA SessionStep ==
  ASSUME NoPassphrase, TypeInv, SuppliedOnly, SessionInv, [Next]_vars, FirstSession',
         OneAttempt, OneHandshake
  PROVE  OneAttempt' /\ OneHandshake'
BY QuietKeepsSession, SupplicantKeepsSession, ApKeepsSession, ApActsInSession, SuppliedSteps

\* What the installation of the keys, and the numbers, depend on.
keyVars == <<supplicant.installed, supplicant.todo, supGtk, wpakey.pc, sealed, writer, txPn>>

LEMMA KeysKept ==
  ASSUME OneInstallation, NumbersRise, UNCHANGED keyVars, ccmp' => ccmp
  PROVE  OneInstallation' /\ NumbersRise'
<1>1. /\ Uninstalled' => Uninstalled
      /\ Unarmed => Unarmed'
  BY DEF keyVars, Uninstalled, Unarmed
<1>2. OneInstallation'
  BY <1>1 DEF OneInstallation, keyVars
<1>3. NumbersRise'
  BY DEF NumbersRise, keyVars
<1> QED
  BY <1>2, <1>3

\* Two calls of IOC_WPAKEY install once.
LEMMA InstallsOnce ==
  ASSUME TypeInv, SuppliedOnly, OneInstallation, NumbersRise, WpaKeyThread
  PROVE  OneInstallation' /\ NumbersRise'
<1>1. /\ supplicant \in [key : AnyKey, installed : BOOLEAN,
                         todo : SUBSET {"pairwise", "group"}]
      /\ supplicant.todo \in {{}, {"group"}, {"pairwise", "group"}}
      /\ wpakey \in [pc : {"idle", "install", "arm"}, tk : AnyKey, gtk : AnyAp]
  BY DEF TypeInv, AirTypes, ThreadTypes, SuppliedOnly
<1>2. ASSUME NEW kind \in {"pairwise", "group"}, WpaKeyStore(kind)
      PROVE  OneInstallation' /\ NumbersRise'
  <2>1. /\ kind \in supplicant.todo /\ supplicant.todo # {} /\ supplicant.installed
        /\ supplicant'.installed /\ supplicant'.todo = supplicant.todo \ {kind}
        /\ UNCHANGED <<ccmp, sealed, writer, txPn>>
    BY <1>1, <1>2 DEF WpaKeyStore, linkVars, OneInstallation
  <2>2. Unarmed /\ supGtk = NoAp /\ wpakey.pc = "idle"
    BY <2>1 DEF OneInstallation, Uninstalled
  <2>3. Unarmed'
    BY <2>1, <2>2 DEF Unarmed
  <2>4. CASE kind = "pairwise"
    <3>1. supGtk' = NoAp /\ wpakey' = wpakey
      BY <1>2, <2>2, <2>4 DEF WpaKeyStore, BothHeld
    <3> QED
      BY <2>1, <2>2, <2>3, <3>1 DEF OneInstallation, NumbersRise
  <2>5. CASE kind = "group"
    <3>1. supplicant'.todo = {}
      BY <1>1, <1>2, <2>1, <2>5 DEF WpaKeyStore
    <3> QED
      BY <2>1, <2>3, <3>1 DEF OneInstallation, NumbersRise, Uninstalled
  <2> QED
    BY <2>4, <2>5
<1>3. CASE WpaKeyInstall
  <2>1. /\ UNCHANGED <<supplicant, supGtk, ccmp, sealed, writer, txPn>>
        /\ wpakey.pc = "install" /\ wpakey'.pc \in {"arm", "idle"}
    BY <1>1, <1>3 DEF WpaKeyInstall, supVars, linkVars
  <2>2. ~Uninstalled /\ Unarmed
    BY <2>1 DEF OneInstallation
  <2>3. ~Uninstalled' /\ Unarmed'
    BY <2>1, <2>2 DEF Uninstalled, Unarmed
  <2>4. OneInstallation'
    BY <2>1, <2>3 DEF OneInstallation, Uninstalled
  <2> QED
    BY <2>1, <2>4 DEF NumbersRise
<1>4. CASE WpaKeyArm
  <2>1. /\ UNCHANGED <<supplicant, supGtk, sealed, writer>>
        /\ wpakey.pc = "arm" /\ wpakey'.pc = "idle"
    BY <1>1, <1>4 DEF WpaKeyArm, supVars
  <2>2. ~Uninstalled /\ Unarmed
    BY <2>1 DEF OneInstallation
  <2>3. ~Uninstalled'
    BY <2>1, <2>2 DEF Uninstalled
  <2>4. OneInstallation'
    BY <2>1, <2>3 DEF OneInstallation, Uninstalled
  <2>5. NumbersRise'
    BY <2>1, <2>2 DEF NumbersRise, Unarmed
  <2> QED
    BY <2>4, <2>5
<1> QED
  BY <1>2, <1>3, <1>4 DEF WpaKeyThread

\* One writer takes one number after the other.
OneWriter == \A v, w \in Writers : v = w

LEMMA WriterCounts ==
  ASSUME OneWriter, TypeInv, OneInstallation, NumbersRise, WriteThread
  PROVE  OneInstallation' /\ NumbersRise'
<1>1. PICK w \in Writers : WriteCheck(w) \/ WriteLoadPn(w) \/ WriteStorePn(w) \/ WriteSeal(w)
  BY DEF WriteThread
<1>2. /\ writer \in [Writers -> [pc : {"idle", "load", "store", "seal"}, pn : Nat]]
      /\ txPn \in Nat /\ sealed \in Seq(AnyKey \X Nat)
      /\ \A v \in Writers : v = w
  BY DEF OneWriter, TypeInv, ThreadTypes, LinkTypes, AirTypes
<1>3. UNCHANGED <<supplicant, supGtk, wpakey, ccmp>>
  BY <1>1 DEF WriteCheck, WriteLoadPn, WriteStorePn, WriteSeal, WriterOnly, supVars
<1>4. ~Unarmed
  <2>1. CASE WriteCheck(w)
    BY <2>1 DEF WriteCheck, Unarmed
  <2>2. CASE WriteLoadPn(w) \/ WriteStorePn(w) \/ WriteSeal(w)
    BY <2>2 DEF WriteLoadPn, WriteStorePn, WriteSeal, Unarmed
  <2> QED
    BY <1>1, <2>1, <2>2
<1>5. OneInstallation'
  <2>1. ~Uninstalled /\ wpakey.pc = "idle"
    BY <1>4 DEF OneInstallation
  <2> QED
    BY <1>3, <2>1 DEF OneInstallation, Uninstalled
<1>6. NumbersRise'
  <2>5. ASSUME UNCHANGED <<txPn, sealed>>,
               \A v \in Writers : \/ writer'[v].pc \in {"idle", "load"}
                                  \/ writer'[v].pc = "store" /\ writer'[v].pn = txPn
        PROVE  NumbersRise'
    <3>1. \A v \in Writers : /\ writer'[v].pc = "store" => writer'[v].pn = txPn'
                             /\ writer'[v].pc # "seal"
      BY <2>5
    <3>2. /\ \A i, j \in DOMAIN sealed' : i # j => sealed'[i][2] # sealed'[j][2]
          /\ \A i \in DOMAIN sealed' : sealed'[i][2] < txPn'
      BY <2>5 DEF NumbersRise
    <3> QED
      BY <3>1, <3>2 DEF NumbersRise
  <2>1. CASE WriteCheck(w)
    <3>1. UNCHANGED <<txPn, sealed>> /\ writer'[w].pc = "load"
      BY <1>2, <2>1 DEF WriteCheck
    <3>2. \A v \in Writers : \/ writer'[v].pc \in {"idle", "load"}
                             \/ writer'[v].pc = "store" /\ writer'[v].pn = txPn
      BY <1>2, <3>1
    <3> QED
      BY <2>5, <3>1, <3>2
  <2>2. CASE WriteLoadPn(w)
    <3>1. /\ UNCHANGED <<txPn, sealed>>
          /\ writer'[w] = [pc |-> "store", pn |-> txPn] \/ writer'[w].pc = "idle"
      BY <1>2, <2>2 DEF WriteLoadPn
    <3>2. \A v \in Writers : \/ writer'[v].pc \in {"idle", "load"}
                             \/ writer'[v].pc = "store" /\ writer'[v].pn = txPn
      BY <1>2, <3>1
    <3> QED
      BY <2>5, <3>1, <3>2
  <2>3. CASE WriteStorePn(w)
    <3>1. /\ writer[w].pc = "store" /\ txPn' = writer[w].pn + 1 /\ UNCHANGED sealed
          /\ writer'[w].pc = "seal" /\ writer'[w].pn = writer[w].pn
      BY <1>2, <2>3 DEF WriteStorePn
    <3>2. writer[w].pn = txPn
      BY <3>1 DEF NumbersRise
    <3>3. \A i \in DOMAIN sealed : sealed[i][2] \in Nat /\ sealed[i][2] < txPn
      BY <1>2 DEF NumbersRise
    <3> QED
      BY <1>2, <3>1, <3>2, <3>3 DEF NumbersRise
  <2>4. CASE WriteSeal(w)
    <3> DEFINE e == <<ptk.tk, writer[w].pn>>
    <3>1. /\ writer[w].pc = "seal" /\ UNCHANGED txPn /\ writer'[w].pc = "idle"
          /\ sealed' = Append(sealed, e)
      BY <1>2, <2>4 DEF WriteSeal
    <3>2. writer[w].pn + 1 = txPn /\ \A i \in DOMAIN sealed : sealed[i][2] < writer[w].pn
      BY <3>1 DEF NumbersRise
    <3>3. /\ e \in AnyKey \X Nat /\ e[2] = writer[w].pn /\ writer[w].pn \in Nat
          /\ \A i \in DOMAIN sealed : sealed[i][2] \in Nat
      BY <1>2 DEF TypeInv, LinkTypes
    <3> HIDE DEF e
    <3>4. /\ Len(sealed) \in Nat /\ DOMAIN sealed = 1 .. Len(sealed)
          /\ DOMAIN sealed' = 1 .. (Len(sealed) + 1)
          /\ \A i \in DOMAIN sealed : sealed'[i] = sealed[i]
          /\ sealed'[Len(sealed) + 1] = e
      BY <1>2, <3>1, <3>3
    <3>5. \A i \in DOMAIN sealed' : i \in DOMAIN sealed \/ i = Len(sealed) + 1
      BY <3>4
    <3>6. \A i, j \in DOMAIN sealed' : i # j => sealed'[i][2] # sealed'[j][2]
      BY <3>2, <3>3, <3>4, <3>5 DEF NumbersRise
    <3>7. \A i \in DOMAIN sealed' : sealed'[i][2] < txPn'
      BY <3>1, <3>2, <3>3, <3>4, <3>5 DEF NumbersRise
    <3> QED
      BY <1>2, <3>1, <3>6, <3>7 DEF NumbersRise
  <2> QED
    BY <1>1, <2>1, <2>2, <2>3, <2>4
<1> QED
  BY <1>5, <1>6

\* What else happens leaves the keys and the numbers alone.
LEMMA InstallationStep ==
  ASSUME NoPassphrase, OneWriter, TypeInv, SuppliedOnly, SessionInv, [Next]_vars, FirstSession',
         OneHandshake, OneInstallation, NumbersRise
  PROVE  OneInstallation' /\ NumbersRise'
<1>1. CASE QuietForSupplicant
  <2>1. CASE Joins
    <3>1. \A a \in Aps : ~JoinPsk(a, a) /\ ~JoinPsk(a, NoAp)
      BY NoDriverStep DEF AnyAp
    <3> QED
      BY <2>1, <3>1, KeysKept DEF Joins, SetTarget, JoinMlme, SetWpaIe, MlmeDeauth,
         CloseDisconnects, linkVars, supVars, keyVars
  <2>2. CASE JoinThread
    <3>1. UNCHANGED keyVars /\ (ccmp' => ccmp)
      BY <2>2 DEF JoinThread, JoinLegacy, JoinLookup, JoinArm, JoinSend, linkVars, supVars,
         keyVars
    <3> QED
      BY <3>1, KeysKept
  <2>3. CASE WriteThread
    BY <2>3, WriterCounts
  <2>4. CASE WpaKeyThread
    BY <2>4, InstallsOnce
  <2>5. CASE Lose \/ RxAuthResp \/ RxSendAssoc \/ RxAssocResp \/ UNCHANGED vars
    BY <2>5, KeysKept DEF Lose, DriverOnly, RxAuthResp, RxSendAssoc, RxAssocResp, vars,
       linkVars, supVars, keyVars
  <2>6. ~GroupRekey
    BY SessionsBegin
  <2> QED
    BY <1>1, <2>1, <2>2, <2>3, <2>4, <2>5, <2>6 DEF QuietForSupplicant
<1>2. CASE SupplicantReceives
  <2> DEFINE f == Head(down)
  <2>1. UNCHANGED <<supGtk, wpakey, ccmp, sealed, writer, txPn>>
    BY <1>2 DEF SupplicantReceives, linkVars
  <2>2. /\ f \in Elems(down)
        /\ \/ /\ Offers(f)
              /\ ~(/\ supplicant.key # NoKey
                   /\ supplicant.key[1] = f.ap /\ supplicant.key[2] = f.n)
              /\ ~supplicant'.installed /\ supplicant'.todo = {}
           \/ supplicant' = supplicant
           \/ /\ supplicant'.installed
              /\ supplicant'.todo = IF supplicant.installed THEN supplicant.todo
                                    ELSE {"pairwise", "group"}
    BY <1>2, SupplicantTakes
  <2>3. CASE supplicant' = supplicant
    BY <2>1, <2>3, KeysKept DEF keyVars
  <2>4. CASE /\ Offers(f) /\ ~supplicant'.installed /\ supplicant'.todo = {}
             /\ ~(/\ supplicant.key # NoKey
                  /\ supplicant.key[1] = f.ap /\ supplicant.key[2] = f.n)
    <3>1. supplicant.key = NoKey
      BY <2>2, <2>4, OfferKinds DEF OneHandshake
    <3>2. ~supplicant.installed
      BY <3>1 DEF TypeInv, Shapes
    <3>3. Uninstalled /\ Unarmed /\ supGtk = NoAp /\ wpakey.pc = "idle"
      BY <3>2 DEF Uninstalled, OneInstallation
    <3>4. OneInstallation'
      BY <2>1, <2>4, <3>3 DEF OneInstallation, Unarmed
    <3> QED
      BY <2>1, <3>4 DEF NumbersRise
  <2>5. CASE /\ supplicant'.installed
             /\ supplicant'.todo = IF supplicant.installed THEN supplicant.todo
                                   ELSE {"pairwise", "group"}
    <3>1. CASE supplicant.installed
      BY <2>1, <2>5, <3>1, KeysKept DEF keyVars, TypeInv, AirTypes
    <3>2. CASE ~supplicant.installed
      <4>1. Unarmed /\ supGtk = NoAp /\ wpakey.pc = "idle"
        BY <3>2 DEF Uninstalled, OneInstallation
      <4>2. OneInstallation'
        BY <2>1, <2>5, <4>1 DEF OneInstallation, Unarmed
      <4> QED
        BY <2>1, <4>2 DEF NumbersRise
    <3> QED
      BY <3>1, <3>2
  <2> QED
    BY <2>2, <2>3, <2>4, <2>5
<1>3. CASE ApReceives \/ \E a \in Aps : ApRepeats(a) \/ ApDrops(a) \/ Overhear(a)
  <2>1. UNCHANGED <<supplicant, supGtk, wpakey, ccmp, sealed, writer, txPn>>
    BY <1>3 DEF ApReceives, ApRepeats, ApDrops, Overhear, DriverOnly, linkVars
  <2> QED
    BY <2>1, KeysKept DEF keyVars
<1> QED
  BY <1>1, <1>2, <1>3, SuppliedSteps

LEMMA SessionHolds == NoPassphrase /\ OneWriter => (Spec => []SessionInv)
<1> SUFFICES ASSUME NoPassphrase, OneWriter PROVE Spec => []SessionInv
  OBVIOUS
<1>1. Init => SessionInv
  <2> SUFFICES ASSUME Init PROVE SessionInv
    OBVIOUS
  <2>1. /\ budget.joins = MaxJoins /\ budget.rekeys = MaxRekeys
        /\ MaxJoins \in Nat /\ MaxRekeys \in Nat
        /\ join.pc = "idle" /\ rx = "idle" /\ Elems(up) = {} /\ Elems(down) = {}
        /\ \A f, g : ~Ahead(up, f, g) /\ ~Ahead(down, f, g)
    BY StationAssumption DEF Init, Elems, Ahead
  <2>2. OneAttempt
    BY <2>1 DEF OneAttempt, Asking, Granted, Associates
  <2>3. Offered = {}
    <3>1. \A a \in Aps : ap[a].hs # "M1Sent"
      BY DEF Init
    <3>2. supplicant.key = NoKey
      BY DEF Init
    <3> QED
      BY <2>1, <3>1, <3>2 DEF Offered
  <2>4. OneInstallation /\ NumbersRise
    BY DEF Init, OneInstallation, NumbersRise, Unarmed
  <2> QED
    BY <2>1, <2>2, <2>3, <2>4 DEF SessionInv, OneHandshake
<1>2. SuppliedInv /\ SessionInv /\ [Next]_vars => SessionInv'
  <2> SUFFICES ASSUME SuppliedInv, SessionInv, [Next]_vars PROVE SessionInv'
    OBVIOUS
  <2>1. TypeInv /\ SuppliedOnly
    BY DEF SuppliedInv
  <2>2. budget'.joins <= MaxJoins /\ budget'.rekeys <= MaxRekeys
        /\ (FirstSession' => FirstSession)
    BY <2>1, SessionsBegin
  <2>3. ASSUME FirstSession'
        PROVE  OneAttempt' /\ OneHandshake' /\ OneInstallation' /\ NumbersRise'
    <3>1. OneAttempt /\ OneHandshake /\ OneInstallation /\ NumbersRise
      BY <2>2, <2>3 DEF SessionInv
    <3> QED
      BY <2>1, <2>3, <3>1, SessionStep, InstallationStep
  <2> QED
    BY <2>2, <2>3 DEF SessionInv
<1> QED
  BY <1>1, <1>2, SuppliedHolds, PTL DEF Spec

\* Of one supplicant and one writer: in a first session no packet number is used
\* twice under a key.  Whatever is repeated, lost, overheard or in flight, there is
\* one handshake to finish, the two key calls of it install once, and the number
\* starts over only before the first frame is encrypted.
THEOREM NumbersAreUnique == NoPassphrase /\ OneWriter => (Spec => []PnUniqueInSession)
<1> SUFFICES ASSUME NoPassphrase, OneWriter PROVE Spec => []PnUniqueInSession
  OBVIOUS
<1>1. SessionInv => PnUniqueInSession
  BY DEF SessionInv, FirstSession, NumbersRise, PnUniqueInSession
<1> QED
  BY <1>1, SessionHolds, PTL

=============================================================================
