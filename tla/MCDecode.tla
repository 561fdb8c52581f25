------------------------------ MODULE MCDecode ------------------------------
(***************************************************************************)
(* Frames for the decoder, the headers of the tests' frames among them.    *)
(* The text lengths, the slack and the greatest length are scaled down so  *)
(* that a frame fits the first buffer, grows it, or is too long for any.   *)
(***************************************************************************)
EXTENDS Decode, SequencesExt

H(typ, proto) == [typ |-> typ, proto |-> proto]

SizeOf(hs) == FoldSeq(LAMBDA h, n : n + Size(h.typ), 0, hs)

(* The frame with the headers hs one after the other. *)
F(hs, stamp, body) ==
  LET Offset(k) == SizeOf(SubSeq(hs, 1, k - 1))
      at0 == {Offset(k) : k \in DOMAIN hs}
  IN  [hdrs |-> [off \in at0 |-> hs[CHOOSE k \in DOMAIN hs : Offset(k) = off]],
       stamps |-> IF stamp THEN {SizeOf(hs)} ELSE {}, body |-> body,
       data_len |-> SizeOf(hs) + (IF stamp THEN 16 ELSE 0) + Len(body)]

Udp == <<H("IPv4", "UDP"), H("UDP", "other")>>
Tcp6 == <<H("IPv6", "TCP"), H("TCP", "other")>>
Eth(p) == <<H("Ether", p)>>
Tag(p) == <<H("Vlan", p)>>

Chains == {
  Eth("IPv4") \o Udp, Eth("IPv4") \o <<H("IPv4", "other")>>, Eth("IPv6") \o Tcp6, Eth("other"),
  Eth("VLAN") \o Tag("IPv4") \o Udp,
  Eth("VLAN") \o Tag("IPv6") \o Tcp6,
  Eth("VLAN") \o Tag("other"),
  Eth("QINQ") \o Tag("QINQ") \o Tag("IPv4") \o Udp,
  Eth("VLAN") \o Tag("QINQ") \o Tag("IPv4") \o Udp,
  Eth("VLAN") \o Tag("VLAN") \o Tag("IPv4") \o Udp,
  Eth("QINQ") \o Tag("VLAN") \o Tag("IPv4") \o Udp,
  Udp, Tcp6, <<H("UDP", "other")>>, <<H("TCP", "other")>>}

Rests == {<<TRUE, <<>>>>, <<TRUE, <<1, 4>>>>, <<FALSE, <<4, 4, 4, 4>>>>}
MCFrames == {F(c, r[1], r[2]) : c \in Chains, r \in Rests}

SmallText == [p \in Printers |->
  CASE p = "Ether" -> <<2, 6, 1>> [] p \in {"Dot1q", "Dot1ad"} -> <<2, 3>>
    [] p \in {"IPv4", "IPv6"} -> <<1, 4, 2>> [] p = "UDP" -> <<3>> [] p = "TCP" -> <<2, 2>>
    [] p = "TSC" -> <<4>> [] p = "Raw" -> <<>> [] p = "Payload" -> <<3, 1>>]

FewFrames == {F(Eth("VLAN") \o Tag("IPv4") \o Udp, FALSE, <<1, 4>>),
              F(Eth("IPv4") \o Udp, TRUE, <<>>)}
=============================================================================
