------------------------------ MODULE MCEncode ------------------------------
(***************************************************************************)
(* Frame texts for the encoder: every text of up to three layers over      *)
(* eleven layer forms, the texts of the tests, VXLAN tunnels, payloads of  *)
(* any size, and texts longer than the layer table.                        *)
(***************************************************************************)
EXTENDS RoundTrip

L(typ) == [typ |-> typ, params |-> <<>>]
LBad(typ) == [typ |-> typ, params |-> <<[key |-> "bad", val |-> 0]>>]
LPar(typ) == [typ |-> typ, params |-> <<[key |-> "ok", val |-> 0]>>]
Pay(ps) == [typ |-> "Payload", params |-> ps]
Size(n) == [key |-> "size", val |-> n]
App(n) == [key |-> "append", val |-> n]
FillWith(n) == [key |-> "fill", val |-> n]

Forms == {LPar("Ether"), L("Dot1q"), L("Dot1ad"), LPar("IPv4"), L("UDP"), L("TCP"),
          L("Vxlan"), L("TSC"), L("Unknown"), LBad("IPv4"), Pay(<<>>)}

Short == UNION {[1..n -> Forms] : n \in 0..3}

Eth4 == <<LPar("Ether"), LPar("IPv4")>>
Tunnel == Eth4 \o <<L("UDP"), L("Vxlan"), L("Ether"), L("IPv4"), L("UDP")>>

(* The default strings of the test program. *)
TestTexts == {
  Eth4 \o <<LPar("UDP"), L("TSC"), Pay(<<Size(32), FillWith(170)>>)>>,
  Eth4 \o <<LPar("UDP"), L("TSC"), Pay(<<FillWith(187)>>)>>,
  <<LPar("Ether"), LPar("Dot1q"), LPar("IPv4"), LPar("UDP"), Pay(<<Size(128)>>)>>,
  <<LPar("Ether"), LPar("Dot1ad"), LPar("Dot1ad"), LPar("IPv4"), LPar("TCP"), L("TSC")>>,
  <<LPar("Ether"), LPar("Dot1q"), LPar("Dot1ad"), LPar("IPv4"), LPar("TCP"), L("TSC")>>}

Sized == {Eth4 \o <<l, Pay(ps)>> :
            l \in {L("UDP"), L("TCP"), L("Echo"), L("Raw")},
            ps \in {<<Size(0)>>, <<Size(64)>>, <<Size(1518)>>, <<Size(4000)>>, <<App(1)>>,
                    <<App(1600), FillWith(0)>>, <<App(1600)>>, <<App(65500), FillWith(0)>>,
                    <<App(10), Size(100)>>, <<FillWith(1), Size(70), FillWith(0)>>,
                    <<App(-2)>>, <<App(-30)>>, <<App(-100)>>, <<App(-100), FillWith(0)>>,
                    <<Size(-1)>>, <<FillWith(-1), App(-20)>>}}

Longer == {
  Tunnel, Tunnel \o <<L("TSC"), Pay(<<App(8)>>)>>, Tunnel \o <<Pay(<<Size(64)>>)>>,
  Tunnel \o <<L("TSC"), L("TSC"), L("TSC"), L("TSC")>>,
  Tunnel \o <<Pay(<<App(-30)>>)>>, Tunnel \o <<Pay(<<App(-40)>>)>>,
  Eth4 \o <<L("UDP"), L("TSC"), Pay(<<App(-4)>>)>>,
  <<L("Ether"), L("IPv6"), L("UDP"), L("Echo"), L("Raw"), L("TSC")>>,
  Eth4 \o <<LBad("UDP")>>, Eth4 \o <<LBad("TCP"), L("TSC")>>,
  <<LBad("Ether")>>, <<L("Ether"), LBad("Dot1ad"), L("IPv4")>>,
  Eth4 \o <<L("UDP"), Pay(<<[key |-> "bad", val |-> 0]>>)>>,
  Eth4 \o <<L("UDP"), L("TSC"), Pay(<<App(4)>>), L("Raw")>>}

(* Two pieces for a layer, a buffer that holds every text but the longest. *)
TwoPieces == [p \in {"Ether", "Dot1q", "Dot1ad", "IPv4", "IPv6", "UDP", "TCP", "TSC", "Raw",
                    "Payload"} |-> <<1, 1>>]

MCTexts == Short \union TestTexts \union Sized \union Longer

(* The text in the comment above fgen_load_strings, Port(0) at its end. *)
ExampleText == {Eth4 \o <<LPar("UDP"), L("TSC"), Pay(<<Size(32), FillWith(170)>>), L("Unknown")>>}

TunnelTexts == {Tunnel \o <<Pay(<<Size(64)>>)>>, Tunnel}
StampTexts == TestTexts \union {Eth4 \o <<L("TCP"), L("TSC"), Pay(<<Size(64)>>)>>}
SizedTexts == {Eth4 \o <<L("UDP"), Pay(<<p>>)>> : p \in {Size(64), Size(1518)}}
AppendTexts == {Eth4 \o <<L("UDP"), Pay(<<App(n)>>)>> : n \in {10, 1600, -30}}
StaleTexts == {Eth4 \o <<L("UDP")>>, <<L("Ether"), L("Dot1ad"), L("Dot1q"), L("IPv4")>>}
OpenTexts == UNION {StaleTexts, TunnelTexts, StampTexts, SizedTexts, AppendTexts, ExampleText}
=============================================================================
