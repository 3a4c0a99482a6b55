---------------------------- MODULE MCBssTable ----------------------------
(* BssTable for TLC: three networks, two of them of one name, and a table of *)
(* two entries.  The transfers mix sound frames, frames with errors, frames  *)
(* with and without a PHY block, reported or not, a hidden network, a cut    *)
(* element, and padding.                                                     *)
EXTENDS BssTable

CONSTANTS a1, a2, a3, s1, s2

Tag(id, value) == [id |-> id, value |-> value]
Cck(byte)   == [cck |-> TRUE, paths |-> <<byte>>]
Ofdm(paths) == [cck |-> FALSE, paths |-> paths]
Frame(raw, drv, block, body) ==
  [raw |-> raw, phy |-> TRUE, drv |-> drv, shift |-> 0, crc |-> FALSE,
   icv |-> FALSE, block |-> block, body |-> body]
Beacon(ap, ies) == [kind |-> "beacon", bssid |-> ap, ies |-> ies]
Other == [kind |-> "other", bssid |-> NoAp, ies |-> <<>>]

B1 == Frame(345, 0, Cck(0), Beacon(a1,
        <<Tag("SSID", s1), Tag("DS", 1), Tag("WPA", 0), Tag("RSN", 0)>>))
B1Strong == Frame(121, 32, Cck(140), Beacon(a1, <<Tag("SSID", s1)>>))
B2 == Frame(200, 32, Ofdm(<<60, 0, 51, 40>>), Beacon(a2,
        <<Tag("SSID", s1), Tag("DS", 36), Tag("WPA", 0), Tag("cut", 0),
          Tag("SSID", s2)>>))
B3 == Frame(97, 32, Cck(20), Beacon(a3, <<Tag("SSID", s2), Tag("DS", 1)>>))
Hidden == Frame(90, 32, Cck(60), Beacon(a3, <<Tag("SSID", NoSsid)>>))
Data   == [Frame(1000, 32, Ofdm(<<0, 0, 0, 0>>), Other) EXCEPT !.shift = 2]
Report == [Frame(17, 0, Cck(0), Other) EXCEPT !.phy = FALSE]
BadCrc == [B3 EXCEPT !.crc = TRUE]
BadIcv == [Data EXCEPT !.icv = TRUE]

Transfer(frames, padding) == [frames |-> frames, padding |-> padding]

MCTransfers ==
  {Transfer(<<B1, B2>>, 40), Transfer(<<B3>>, 0),
   Transfer(<<BadCrc, B1Strong, Report>>, 0),
   Transfer(<<Hidden, BadIcv, B2, Data>>, 40), Transfer(<<Data, B3, B1>>, 0)}
MCAps   == {a1, a2, a3}
MCGiven == {a2}
MCSsids == {s1, s2}
MCChannels == {0, 1, 36}
=============================================================================
