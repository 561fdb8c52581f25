------------------------------- MODULE Encode -------------------------------
(***************************************************************************)
(* The frame encoder of lib/core/encode.c.  A frame text is a sequence of  *)
(* layers; _encode_frame looks each one up in fgen_tbl, adds the done      *)
(* layer and calls the handlers one inside the other.  A handler writes    *)
(* its header at the end of the frame built so far, calls next_layer, and  *)
(* completes its header (protocol, lengths, checksums, fill) when the      *)
(* layers inside have returned.  The recursion is kept as it is: lidx is   *)
(* the layer whose handler runs, pc says on which side of next_layer, and  *)
(* act holds the locals of every handler.                                  *)
(*                                                                         *)
(* The bytes of the frame are not kept, only which bytes each handler      *)
(* writes and which bytes each checksum was computed over.                 *)
(***************************************************************************)
EXTENDS Integers, Sequences

CONSTANTS
  Texts,       \* the frame texts encoded
  MAX_LAYERS,  \* FGEN_MAX_LAYERS, the done layer included
  BLOCK_SIZE   \* bytes of the block fgen_create makes for frames

(* Ethernet sizes of the system headers: frame length bounds with the CRC, *)
(* the CRC, and frame length bounds without it.                            *)
ETHER_MIN_LEN == 64
ETHER_MAX_LEN == 1518
ETHER_CRC_LEN == 4
ETH_ZLEN == 60
ETH_FRAME_LEN == 1514

LayerTypes == {"Ether", "Dot1q", "Dot1ad", "IPv4", "IPv6", "UDP", "TCP", "Vxlan",
               "Echo", "TSC", "Raw", "Payload"}

(* A parameter is one the layer knows ("ok"), one of the three of Payload, *)
(* or one refused: an unknown key or a number that does not parse.  STRTOL *)
(* takes negative numbers too.                                             *)
Param == [key : {"ok", "size", "append", "fill", "bad"}, val : Int]
Layer == [typ : LayerTypes \union {"Unknown"}, params : Seq(Param)]

(* fg->opts[i]: what the handler is called with; tbl is NULL in NoOpt. *)
NoOpt == [typ |-> "Unknown", params |-> <<>>]
DoneOpt == [typ |-> "Done", params |-> <<>>]
Opt == [typ : LayerTypes \union {"Unknown", "Done"}, params : Seq(Param)]

ASSUME EncodeAssumption ==
  /\ Texts \subseteq Seq(Layer)
  /\ MAX_LAYERS \in Nat \ {0, 1} /\ 40 * MAX_LAYERS < 65536   \* headers within 16 bits
  /\ BLOCK_SIZE \in Nat

Idx == 1..MAX_LAYERS
UINT16_MAX == 65535
U16 == 0..UINT16_MAX

VARIABLES
  text,      \* f->fstr of the frame encoded last
  opts,      \* fg->opts
  pc,        \* "idle", "down", "up", "done", or "crashed"
  lidx,      \* the layer whose handler runs
  data_len,  \* f->data_len, 16 bits
  tsc_off,   \* f->tsc_off, 16 bits
  act,       \* locals and header fields of the handler of each layer
  log,       \* the writes into the frame, oldest first
  ret,       \* type returned by the handler that returned last, or "error"
  result     \* what _encode_frame returned

vars == <<text, opts, pc, lidx, data_len, tsc_off, act, log, ret, result>>
frameVars == <<text, opts, result>>

(* The protocol, or the ports, by which a header names the layer inside. *)
NextNames == {"", "0", "VLAN", "QINQ", "IPv4", "0x9000", "UDP", "TCP", "echo", "vxlan",
              "given", "ETH"}

Activation == [off : U16, len : U16, nxt : NextNames, pktlen : Int, fill : Int]
NoAct == [off |-> 0, len |-> 0, nxt |-> "", pktlen |-> 0, fill |-> 0]

(* Bytes lo .. hi-1 written by layer by; when they are a checksum, it was  *)
(* computed over bytes clo .. chi-1.  Only the fill of a payload may start *)
(* before the frame.                                                       *)
Write == [by : Idx, lo : Int, hi : Nat, clo : Nat, chi : Nat]

u16(n) == n % 65536
Wrote(lo, hi) == [by |-> lidx, lo |-> lo, hi |-> hi, clo |-> 0, chi |-> 0]
Summed(lo, hi, clo, chi) == [by |-> lidx, lo |-> lo, hi |-> hi, clo |-> clo, chi |-> chi]

Keys(ps) == {ps[i].key : i \in DOMAIN ps}
Forced(ps) == {i \in DOMAIN ps : ps[i].key \in {"size", "append"}}

(* The parameter loop of a handler goes through: every key is known and,   *)
(* for Payload, only one parameter sets the length ("only++").             *)
ParamsParse(o) ==
  /\ "bad" \notin Keys(o.params)
  /\ o.typ = "Payload" => \A i, j \in Forced(o.params) : i = j

-----------------------------------------------------------------------------
Init ==
  /\ text = <<>>
  /\ opts = [i \in Idx |-> NoOpt]
  /\ pc = "idle"
  /\ lidx = 0
  /\ data_len = 0
  /\ tsc_off = 0
  /\ act = [i \in Idx |-> NoAct]
  /\ log = <<>>
  /\ ret = "none"
  /\ result = 0

(* fgen_strtok stops after MAX_LAYERS - 1 layers; the rest is dropped. *)
NbLayers(t) == IF Len(t) < MAX_LAYERS - 1 THEN Len(t) ELSE MAX_LAYERS - 1

OptsOfStale(t) ==         \* slip: opts is not cleared for the next frame
  [i \in Idx |-> IF i = NbLayers(t) + 1 THEN DoneOpt
                 ELSE IF i <= NbLayers(t) /\ t[i].typ # "Unknown" THEN t[i]
                 ELSE opts[i]]

(* The two passes over the layers: clear opts, then look every layer up in *)
(* fgen_tbl; a layer it does not list keeps a NULL table pointer.          *)
OptsOf(t) ==
  [i \in Idx |-> IF i = NbLayers(t) + 1 THEN DoneOpt
                 ELSE IF i <= NbLayers(t) /\ t[i].typ # "Unknown" THEN t[i]
                 ELSE NoOpt]

(* _encode_frame on a new frame, up to its call of next_layer(f, 0). *)
_encode_frame(t) ==
  /\ pc \in {"idle", "done"}
  /\ text' = t
  /\ data_len' = 0
  /\ tsc_off' = 0
  /\ act' = [i \in Idx |-> NoAct]
  /\ log' = <<>>
  /\ ret' = "none"
  /\ IF t = <<>>
     THEN result' = -1 /\ pc' = "done" /\ lidx' = 0 /\ opts' = [i \in Idx |-> NoOpt]
     ELSE result' = 0 /\ pc' = "down" /\ lidx' = 1 /\ opts' = OptsOf(t)

(* next_layer calls the handler of the layer inside; a handler returns to  *)
(* the one outside.  The outermost returns to _encode_frame, which returns *)
(* 0 whatever the handlers returned.                                       *)
next_layer == pc' = "down" /\ lidx' = lidx + 1 /\ UNCHANGED ret

Leave(r) ==
  /\ ret' = r
  /\ lidx' = lidx - 1
  /\ pc' = IF lidx = 1 THEN "done" ELSE "up"

OnwardIf(ok) == IF ok THEN next_layer ELSE Leave("error")

Entering(typs) == pc = "down" /\ opts[lidx].typ \in typs
Leaving(typs) == pc = "up" /\ opts[lidx].typ \in typs
ParamsOk == ParamsParse(opts[lidx])

-----------------------------------------------------------------------------
(* The handlers before next_layer. *)

(* A layer that is not in fgen_tbl: next_layer finds no handler. *)
NoHandler ==
  /\ Entering({"Unknown"})
  /\ Leave("error")
  /\ UNCHANGED <<frameVars, data_len, tsc_off, act, log>>

(* _encode_ether writes the default addresses at the start of the frame,   *)
(* whatever precedes it, and counts its header before it parses.           *)
EnterEther ==
  /\ Entering({"Ether"})
  /\ act' = [act EXCEPT ![lidx].off = 0]
  /\ log' = Append(log, Wrote(0, 12))
  /\ data_len' = u16(data_len + 14)
  /\ OnwardIf(ParamsOk)
  /\ UNCHANGED <<frameVars, tsc_off>>

(* _encode_vlan parses first. *)
EnterVlan ==
  /\ Entering({"Dot1q", "Dot1ad"})
  /\ IF ParamsOk
     THEN /\ act' = [act EXCEPT ![lidx].off = data_len]
          /\ log' = Append(log, Wrote(data_len, data_len + 4))
          /\ data_len' = u16(data_len + 4)
     ELSE UNCHANGED <<act, log, data_len>>
  /\ OnwardIf(ParamsOk)
  /\ UNCHANGED <<frameVars, tsc_off>>

HdrLen(typ) == CASE typ = "IPv4" -> 20 [] typ = "UDP" -> 8 [] typ = "TCP" -> 20
                 [] typ = "Vxlan" -> 8 [] typ = "TSC" -> 16 [] typ = "IPv6" -> 40
                 [] typ \in {"Echo", "Raw"} -> 20

(* _encode_ipv4, _encode_udp and _encode_tcp write the header, parse, and  *)
(* count the header once the parameters are known to be good.              *)
EnterInet ==
  /\ Entering({"IPv4", "UDP", "TCP"})
  /\ LET n == HdrLen(opts[lidx].typ) IN
       /\ act' = [act EXCEPT ![lidx].off = data_len]
       /\ log' = Append(log, Wrote(data_len, data_len + n))
       /\ data_len' = IF ParamsOk THEN u16(data_len + n) ELSE data_len
  /\ OnwardIf(ParamsOk)
  /\ UNCHANGED <<frameVars, tsc_off>>

VxlanUncounted ==         \* slip: the header is not counted
  /\ act' = [act EXCEPT ![lidx].off = data_len]
  /\ log' = Append(log, Wrote(data_len, data_len + 8))
  /\ UNCHANGED data_len

VxlanHeader ==
  /\ act' = [act EXCEPT ![lidx].off = data_len]
  /\ log' = Append(log, Wrote(data_len, data_len + 8))
  /\ data_len' = u16(data_len + 8)

(* _encode_vxlan has no parameters. *)
EnterVxlan ==
  /\ Entering({"Vxlan"})
  /\ VxlanHeader
  /\ next_layer
  /\ UNCHANGED <<frameVars, tsc_off>>

(* _encode_tsc also remembers where the time stamp is. *)
EnterTSC ==
  /\ Entering({"TSC"})
  /\ tsc_off' = data_len
  /\ act' = [act EXCEPT ![lidx].off = data_len]
  /\ log' = Append(log, Wrote(data_len, data_len + 16))
  /\ data_len' = u16(data_len + 16)
  /\ next_layer
  /\ UNCHANGED frameVars

(* _encode_ipv6, _encode_echo and _encode_raw only make room. *)
EnterRoom ==
  /\ Entering({"IPv6", "Echo", "Raw"})
  /\ act' = [act EXCEPT ![lidx].off = data_len]
  /\ data_len' = u16(data_len + HdrLen(opts[lidx].typ))
  /\ next_layer
  /\ UNCHANGED <<frameVars, tsc_off, log>>

(* size=n is the frame length with its CRC, kept within Ethernet's bounds. *)
ForcedSize(n) ==
  (IF n < ETHER_MIN_LEN THEN ETHER_MIN_LEN
   ELSE IF n > ETHER_MAX_LEN THEN ETHER_MAX_LEN ELSE n) - ETHER_CRC_LEN

(* pktlen after the parameter loop: set by size, moved by append, either   *)
(* way and however far, or kept.                                           *)
PktLen(ps, plen) ==
  IF \E i \in DOMAIN ps : ps[i].key = "size"
  THEN ForcedSize(ps[CHOOSE i \in DOMAIN ps : ps[i].key = "size"].val)
  ELSE IF \E i \in DOMAIN ps : ps[i].key = "append"
  THEN plen + ps[CHOOSE i \in DOMAIN ps : ps[i].key = "append"].val
  ELSE plen

FGEN_FILLER_PATTERN == 37

(* fill after the loop: the last fill parameter. *)
Fill(ps) ==
  LET is == {i \in DOMAIN ps : ps[i].key = "fill"}
  IN  IF is = {} THEN FGEN_FILLER_PATTERN
      ELSE ps[CHOOSE i \in is : \A j \in is : j <= i].val

EnterPayload ==
  /\ Entering({"Payload"})
  /\ LET ps == opts[lidx].params
         pktlen == PktLen(ps, data_len)
     IN  IF ParamsOk
         THEN /\ act' = [act EXCEPT ![lidx] =
                           [@ EXCEPT !.off = data_len, !.pktlen = pktlen, !.fill = Fill(ps)]]
              /\ log' = IF pktlen > data_len
                        THEN Append(log, Wrote(data_len, pktlen)) ELSE log
              /\ data_len' = u16(pktlen)
         ELSE UNCHANGED <<act, log, data_len>>
  /\ OnwardIf(ParamsOk)
  /\ UNCHANGED <<frameVars, tsc_off>>

Clamp(n) ==
  IF n < ETH_ZLEN THEN ETH_ZLEN ELSE IF n > ETH_FRAME_LEN THEN ETH_FRAME_LEN ELSE n

(* _encode_done brings the frame within the lengths Ethernet allows. *)
EnterDone ==
  /\ Entering({"Done"})
  /\ data_len' = Clamp(data_len)
  /\ Leave("Done")
  /\ UNCHANGED <<frameVars, tsc_off, act, log>>

-----------------------------------------------------------------------------
(* The handlers after next_layer returned ret. *)
Off == act[lidx].off

(* Any handler but IPv4's passes an error on and does nothing else. *)
PassError ==
  /\ Leaving(LayerTypes \ {"IPv4"})
  /\ ret = "error"
  /\ Leave("error")
  /\ UNCHANGED <<frameVars, data_len, tsc_off, act, log>>

EtherType(r) == CASE r = "Dot1q" -> "VLAN" [] r = "Dot1ad" -> "QINQ"
                  [] r = "IPv4" -> "IPv4" [] OTHER -> "0x9000"

LeaveEther ==
  /\ Leaving({"Ether"})
  /\ ret # "error"
  /\ act' = [act EXCEPT ![lidx].nxt = EtherType(ret)]
  /\ log' = Append(log, Wrote(12, 14))
  /\ Leave("Ether")
  /\ UNCHANGED <<frameVars, data_len, tsc_off>>

(* eth_proto keeps the 0 written on the way in for any other layer. *)
VlanProto(r) == CASE r = "Dot1q" -> "VLAN" [] r = "Dot1ad" -> "QINQ"
                  [] r = "IPv4" -> "IPv4" [] OTHER -> "0"

(* Dot1q directly inside Dot1q is refused. *)
LeaveVlan ==
  /\ Leaving({"Dot1q", "Dot1ad"})
  /\ ret # "error"
  /\ LET typ == opts[lidx].typ IN
     IF typ = "Dot1q" /\ ret = "Dot1q"
     THEN Leave("error") /\ UNCHANGED <<act, log>>
     ELSE /\ act' = [act EXCEPT ![lidx].nxt = VlanProto(ret)]
          /\ log' = IF VlanProto(ret) = "0" THEN log
                    ELSE Append(log, Wrote(Off + 2, Off + 4))
          /\ Leave(typ)
  /\ UNCHANGED <<frameVars, data_len, tsc_off>>

TotalLengthOfHeader == HdrLen("IPv4")     \* slip: only its own header counts
TotalLength == u16(data_len - Off)

IpProtoUdpOnly(r) == IF r = "UDP" THEN r ELSE "0"     \* slip: TCP is forgotten
IpProto(r) == IF r \in {"UDP", "TCP"} THEN r ELSE "0"

L4FieldAt(r) == IF r = "UDP" THEN 6 ELSE 16

(* The layer 4 checksum, over what total_length says follows the header;   *)
(* __ipv4_udptcp_cksum reads nothing when that is less than the header.    *)
L4Sum(r) ==
  LET l4 == Off + 20
      at == l4 + L4FieldAt(r)
      end == IF TotalLength < 20 THEN l4 ELSE Off + TotalLength
  IN  IF r \in {"UDP", "TCP"} THEN <<Summed(at, at + 2, l4, end)>> ELSE <<>>

Proto(r) == IF r \in {"UDP", "TCP"} THEN <<Wrote(Off + 9, Off + 10)>> ELSE <<>>

SumsBeforeProto(r) ==     \* slip: the header checksum comes before the protocol
  <<Summed(Off + 10, Off + 12, Off, Off + 20)>> \o Proto(r) \o L4Sum(r)

(* Protocol, layer 4 checksum, then the checksum of the finished header. *)
ProtoAndSums(r) ==
  Proto(r) \o L4Sum(r) \o <<Summed(Off + 10, Off + 12, Off, Off + 20)>>

(* total_length is set even when a layer inside failed. *)
LeaveIPv4 ==
  /\ Leaving({"IPv4"})
  /\ act' = [act EXCEPT ![lidx] = [@ EXCEPT !.len = TotalLength, !.nxt = IpProto(ret)]]
  /\ log' = Append(log, Wrote(Off + 2, Off + 4))
              \o (IF ret = "error" THEN <<>> ELSE ProtoAndSums(ret))
  /\ Leave(IF ret = "error" THEN "error" ELSE "IPv4")
  /\ UNCHANGED <<frameVars, data_len, tsc_off>>

UdpPorts(r) == CASE r = "Echo" -> "echo" [] r = "Vxlan" -> "vxlan" [] OTHER -> "given"

LeaveUDP ==
  /\ Leaving({"UDP"})
  /\ ret # "error"
  /\ act' = [act EXCEPT ![lidx] =
               [@ EXCEPT !.len = u16(data_len - Off), !.nxt = UdpPorts(ret)]]
  /\ log' = Append(log, Wrote(Off, Off + 6))
  /\ Leave("UDP")
  /\ UNCHANGED <<frameVars, data_len, tsc_off>>

(* Ports, data_off, flags and window; the sequence numbers stay 0. *)
LeaveTCP ==
  /\ Leaving({"TCP"})
  /\ ret # "error"
  /\ log' = log \o <<Wrote(Off + 12, Off + 16), Wrote(Off, Off + 4)>>
  /\ Leave("TCP")
  /\ UNCHANGED <<frameVars, data_len, tsc_off, act>>

LeaveVxlan ==
  /\ Leaving({"Vxlan"})
  /\ ret # "error"
  /\ act' = [act EXCEPT ![lidx].nxt = IF ret = "Ether" THEN "ETH" ELSE "0"]
  /\ log' = Append(log, Wrote(Off, Off + 4))
  /\ Leave("Vxlan")
  /\ UNCHANGED <<frameVars, data_len, tsc_off>>

LeaveOther ==
  /\ Leaving({"IPv6", "Echo", "TSC", "Raw"})
  /\ ret # "error"
  /\ Leave(opts[lidx].typ)
  /\ UNCHANGED <<frameVars, data_len, tsc_off, act, log>>

FillsUp == data_len # act[lidx].pktlen /\ act[lidx].fill # 0

(* When the done layer lengthened the frame it is filled up, from pktlen   *)
(* on: behind the payload's start, unless append is negative.  A pktlen    *)
(* below 0 is a data_len above every legal one.                            *)
LeavePayload ==
  /\ Leaving({"Payload"})
  /\ ret # "error"
  /\ ~(FillsUp /\ data_len < act[lidx].pktlen)
  /\ log' = IF FillsUp THEN Append(log, Wrote(act[lidx].pktlen, data_len)) ELSE log
  /\ Leave("Payload")
  /\ UNCHANGED <<frameVars, data_len, tsc_off, act>>

(* When it shortened the frame the length given to memset is negative, a   *)
(* size_t larger than any memory, and the program ends in memset.          *)
PayloadOverrun ==
  /\ Leaving({"Payload"})
  /\ ret # "error"
  /\ FillsUp /\ data_len < act[lidx].pktlen
  /\ pc' = "crashed"
  /\ UNCHANGED <<frameVars, lidx, data_len, tsc_off, act, log, ret>>

-----------------------------------------------------------------------------
Enter ==
  \/ NoHandler \/ EnterEther \/ EnterVlan \/ EnterInet \/ EnterVxlan
  \/ EnterTSC \/ EnterRoom \/ EnterPayload \/ EnterDone

Return ==
  \/ PassError \/ LeaveEther \/ LeaveVlan \/ LeaveIPv4 \/ LeaveUDP \/ LeaveTCP
  \/ LeaveVxlan \/ LeaveOther \/ LeavePayload \/ PayloadOverrun

Next == (\E t \in Texts : _encode_frame(t)) \/ Enter \/ Return

Spec == Init /\ [][Next]_vars

-----------------------------------------------------------------------------
TypeOK ==
  /\ text \in Seq(Layer)
  /\ opts \in [Idx -> Opt]
  /\ pc \in {"idle", "down", "up", "done", "crashed"}
  /\ lidx \in 0..MAX_LAYERS
  /\ data_len \in U16
  /\ tsc_off \in U16
  /\ act \in [Idx -> Activation]
  /\ log \in Seq(Write)
  /\ ret \in LayerTypes \union {"none", "Done", "error"}
  /\ result \in {0, -1}

(* A frame whose layers all encoded. *)
Encoded == pc = "done" /\ result = 0 /\ ret # "error"

Layers == {i \in Idx : opts[i].typ \in LayerTypes}
LastLayer == NbLayers(text)

(* _encode_ipv4 and _encode_udp compute their lengths on the way out, so   *)
(* that they cover what the layers inside, Payload and the done layer made *)
(* of the frame: header offset plus length is the end of the frame.        *)
LengthsReachEnd ==
  Encoded => \A i \in Layers : opts[i].typ \in {"IPv4", "UDP"} =>
    u16(act[i].off + act[i].len) = data_len

(* An encoded text has a Payload only as its last layer, if at all. *)
PayloadLast == \A i \in Layers : opts[i].typ = "Payload" => i = LastLayer

(* Checksums are computed when nothing they cover will change any more:    *)
(* with Payload last, no handler writes into the bytes a checksum was      *)
(* computed over after it was computed.                                    *)
ChecksumsFinal ==
  Encoded /\ PayloadLast =>
    \A k \in DOMAIN log : \A j \in k + 1..Len(log) :
      log[k].chi = 0 \/ log[j].hi <= log[k].clo \/ log[k].chi <= log[j].lo

(* The bytes of layer i's own header. *)
HeaderLen(typ) == CASE typ = "Ether" -> 14 [] typ \in {"Dot1q", "Dot1ad"} -> 4
                    [] typ = "Payload" -> 0 [] OTHER -> HdrLen(typ)
Header(i) == act[i].off .. act[i].off + HeaderLen(opts[i].typ) - 1

Intact(i) == \A k \in DOMAIN log : log[k].by # i =>
               (log[k].lo .. log[k].hi - 1) \intersect Header(i)
                 \subseteq {b \in Header(i) : log[k].chi > 0}

(* A negative append takes the end of layer i's header from the frame, and *)
(* leaves less than the shortest legal one: the fill comes in its place.   *)
Cut(i) == \E j \in Layers :
  /\ opts[j].typ = "Payload" /\ act[j].fill # 0
  /\ act[j].pktlen < ETH_ZLEN /\ act[j].pktlen < act[i].off + HeaderLen(opts[i].typ)

(* No layer writes over another layer's header, except that IPv4 sets the  *)
(* checksum of the UDP or TCP header it carries and that the fill takes    *)
(* the place of what append has cut: what any other header says is what    *)
(* its own handler wrote.  Stated for the texts of the tests' form, Ether  *)
(* first only and Payload last.                                            *)
HeadersIntact ==
  (Encoded /\ PayloadLast /\ \A i \in Layers : opts[i].typ = "Ether" => i = 1) =>
    \A i \in Layers : Cut(i) \/ Intact(i)

(* "If the frame size was adjusted then make sure we fill the payload":    *)
(* the fill is written into the payload, whatever append was given.        *)
FillsPayloadOnly ==
  Encoded => \A k \in DOMAIN log :
    opts[log[k].by].typ = "Payload" => act[log[k].by].off <= log[k].lo

(* The same for every text, an Ether frame inside VXLAN included (fopt_t:  *)
(* every layer has an offset into the buffer of its own).                  *)
HeadersApart == Encoded => \A i \in Layers : opts[i].typ = "Ether" => Intact(i)

(* What makes a text refused: a layer fgen_tbl does not list, a parameter  *)
(* that does not parse, or Dot1q directly inside Dot1q.                    *)
Malformed(t) ==
  \E i \in 1..NbLayers(t) :
    \/ t[i].typ = "Unknown"
    \/ t[i].typ \in {"Ether", "Dot1q", "Dot1ad", "IPv4", "UDP", "TCP", "Payload"}
         /\ ~ParamsParse(t[i])
    \/ i > 1 /\ t[i].typ = "Dot1q" /\ t[i - 1].typ = "Dot1q"

(* Encoding fails exactly on a malformed text, whatever text the same      *)
(* fgen_t encoded before: nothing of an earlier frame is left in opts, and *)
(* an error of an inner layer passes through every layer around it.        *)
FailsIffMalformed ==
  pc = "done" /\ result = 0 => (ret = "error" <=> Malformed(text))

(* The time stamp tsc_off points to is inside the frame and still what     *)
(* _encode_tsc wrote (frame_t: "Offset to the Timestamp").                 *)
TimestampSurvives ==
  Encoded /\ (\E i \in Layers : opts[i].typ = "TSC") =>
    /\ tsc_off + 16 <= data_len
    /\ \A i \in Layers : opts[i].typ = "TSC" /\ act[i].off = tsc_off => Intact(i)

(* The length an IPv4 header states is that of a packet in the frame       *)
(* (fgen_ipv4_hdr: "length of packet").                                    *)
TotalLengthInFrame ==
  Encoded => \A i \in Layers : opts[i].typ = "IPv4" => act[i].off + act[i].len <= data_len

(* The example text in the comment of fgen_load_strings describes a frame. *)
ExampleEncodes == pc = "done" => ret # "error"

(* A payload appended to a frame leaves a frame: "adjusting to" the legal  *)
(* length is followed by the fill and never ends the program.              *)
AdjustedFrameEncodes == pc # "crashed"

(* No handler writes outside the block that fgen_create makes for the      *)
(* frames (fgen_t: a frame may be as long as FGEN_MAX_FRAME_SIZE).         *)
FramesFitBlock == \A k \in DOMAIN log : 0 <= log[k].lo /\ log[k].hi <= BLOCK_SIZE
=============================================================================
