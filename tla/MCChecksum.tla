----------------------------- MODULE MCChecksum -----------------------------
(* Packets for Checksum: an IPv4 header, and UDP and TCP segments over     *)
(* both IP versions, whose bytes make carries, odd lengths and a checksum  *)
(* that comes out as zero.                                                 *)
EXTENDS Checksum, Sequences

CONSTANTS
  Addrs,   \* sums of the address words
  Bytes    \* values of a port's or a payload's byte

Packet(part, v6, proto, hlen, l3len, addr, bytes, field) ==
  [part |-> part, v6 |-> v6, proto |-> proto, hlen |-> hlen, l3len |-> l3len,
   addr |-> addr, len |-> Len(bytes), buf |-> bytes, field |-> field]

(* version_ihl, tos, total length, id, fragment, ttl, protocol, checksum,  *)
(* addresses; with ihl 6 a word of options follows.                        *)
HeaderBytes(ihl, id, a) ==
  <<64 + ihl, 0, 0, 48, id, id, 0, 0, 255, 17, 0, 0, a, a, 255, 255, 10, 0, 0, a>>
    \o (IF ihl = 6 THEN <<255, a, 255, id>> ELSE << >>)

(* Ports, length, checksum, then the payload. *)
UdpBytes(port, payload) ==
  <<port, 255, 0, port, 0, 8 + Len(payload), 0, 0>> \o payload

(* Ports, numbers, offset and flags, window, checksum, urgent pointer. *)
TcpBytes(port, payload) ==
  <<port, 0, 0, 80, 0, 0, 0, port, 0, 0, 0, 0, 80, 2, 32, 0, 0, 0, 0, 0>> \o payload

Payloads ==
  {<< >>} \cup {<<a>> : a \in Bytes} \cup {<<a, b>> : a, b \in Bytes}
    \cup {<<a, b, 255>> : a, b \in Bytes}

Segment(v6, proto, addr, bytes, field) ==
  LET hlen == IF v6 THEN 0 ELSE 20
  IN  Packet("l4", v6, proto, hlen, hlen + Len(bytes), addr, bytes, field)

MCPackets ==
  {Packet("ip", FALSE, IPPROTO_UDP, 4 * ihl, 48, 0, HeaderBytes(ihl, i, a), 6) :
     ihl \in {5, 6}, i \in Bytes, a \in Bytes}
  \cup {Segment(v6, IPPROTO_UDP, addr, UdpBytes(port, payload), 4) :
          v6 \in BOOLEAN, addr \in Addrs, port \in Bytes, payload \in Payloads}
  \cup {Segment(v6, IPPROTO_TCP, addr, TcpBytes(port, payload), 9) :
          v6 \in BOOLEAN, addr \in Addrs, port \in Bytes,
          payload \in {<< >>, <<255>>}}
  \* a total length of 16 under a header of 20 bytes
  \cup {Packet("l4", FALSE, IPPROTO_UDP, 20, 16, addr, UdpBytes(0, << >>), 4) :
          addr \in Addrs}
=============================================================================
