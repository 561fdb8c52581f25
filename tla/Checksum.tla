------------------------------ MODULE Checksum ------------------------------
(***************************************************************************)
(* The Internet checksums of lib/include/net/fgen_ip.h: the IPv4 header's  *)
(* and the UDP/TCP one over IPv4 or IPv6 with its pseudo-header.  The loop *)
(* of __fgen_raw_cksum is a state machine, one word a step, run over the   *)
(* same buffer twice: by the sender, who stores the complement, and by the *)
(* receiver, who verifies.  Between the two the network may change a word. *)
(* The code has a receiver (fgen_ipv4_udptcp_cksum_verify) for UDP and TCP *)
(* over IPv4; for the others the receiver is the same sum taken elsewhere. *)
(*                                                                         *)
(* Words are read as a little-endian host reads them.  The uint32_t sum is *)
(* kept as an integer: SumFits says that it never needs a 33rd bit.        *)
(***************************************************************************)
EXTENDS Integers

CONSTANTS
  Packets,  \* what is summed: see IsPacket
  Noise     \* values the network may leave in a word

MaxByte == 255
MaxWord == 65535
MaxBytes == 65535    \* the IP length fields are 16 bits wide
MaxWords == 32768    \* so that many words at most

Byte == 0..MaxByte
Word16 == 0..MaxWord

IPPROTO_TCP == 6
IPPROTO_UDP == 17

(***************************************************************************)
(* A packet as these routines see it.  part: "ip" for the header's own     *)
(* checksum, "l4" for UDP or TCP.  hlen: fgen_ipv4_hdr_len; l3len: total   *)
(* length (IPv6: 0 and payload_len).  addr: the sum of the words of both   *)
(* addresses, 4 or 16 of them.  buf[1..len]: the bytes summed.  field: the *)
(* 16-bit word that holds the checksum, zero as every caller leaves it.    *)
(***************************************************************************)
IsPacket(p) ==
  /\ p.part \in {"ip", "l4"}
  /\ p.v6 \in BOOLEAN
  /\ p.proto \in {IPPROTO_TCP, IPPROTO_UDP}
  /\ p.hlen \in 0..60
  /\ p.l3len \in 0..MaxBytes
  /\ p.addr \in 0..16 * MaxWord
  /\ p.len \in 2..MaxBytes
  /\ p.part = "l4" /\ p.l3len >= p.hlen => p.len = p.l3len - p.hlen
  /\ p.buf \in [1..p.len -> Byte]
  /\ p.field \in 1..MaxWords
  /\ 2 * p.field <= p.len
  /\ p.buf[2 * p.field - 1] = 0
  /\ p.buf[2 * p.field] = 0

ASSUME ChecksumAssumption ==
  /\ \A p \in Packets : IsPacket(p)
  /\ Noise \subseteq Word16

VARIABLES
  pkt,      \* the packet as the caller handed it over
  buf,      \* its bytes now
  pc,       \* entry, sum, sent or done
  pass,     \* who sums: send or recv
  n,        \* words summed: how far u16_buf has moved
  sum,      \* the running uint32_t
  stored,   \* the checksum the sender stored
  verdict,  \* what the receiver returns: 0 correct, -1 not
  hit,      \* the word the network changed, 0 for none
  delta,    \* by how much
  trace     \* history: trace[i] is the sender's sum after i words

vars == <<pkt, buf, pc, pass, n, sum, stored, verdict, hit, delta, trace>>

(* Words in a buffer of len bytes, a last odd byte counting as one. *)
WordCount(len) == (len + 1) \div 2

(* u16_buf[i - 1]; the odd last byte is the low byte of left. *)
WordAt(b, len, i) ==
  IF 2 * i <= len THEN b[2 * i - 1] + 256 * b[2 * i] ELSE b[2 * i - 1]

PutWord(b, len, i, v) ==
  IF 2 * i <= len
  THEN [b EXCEPT ![2 * i - 1] = v % 256, ![2 * i] = v \div 256]
  ELSE [b EXCEPT ![2 * i - 1] = v]

(* ((sum & 0xffff0000) >> 16) + (sum & 0xffff) *)
Fold(s) == (s \div 65536) + (s % 65536)

ReduceOnce(s) == Fold(s) % 65536   \* slip: a single fold, cut to 16 bits
__fgen_raw_cksum_reduce(s) == Fold(Fold(s))

(* htobe16 of a 16-bit length. *)
htobe16(x) == (x % 256) * 256 + (x \div 256)

(* The pseudo-header's words: the addresses, zero and protocol, length.    *)
(* IPv6's is laid out otherwise but adds up to the same.                   *)
phdr_words(p) == p.addr + 256 * p.proto + htobe16(p.l3len - p.hlen)
phdr_cksum(p) == __fgen_raw_cksum_reduce(phdr_words(p))

(* The sum of a whole buffer as a 16-bit value, not yet complemented: for  *)
(* UDP and TCP the pseudo-header is added and the carry folded once.       *)
Raw(p, s) ==
  IF p.part = "ip"
  THEN __fgen_raw_cksum_reduce(s)
  ELSE Fold(__fgen_raw_cksum_reduce(s) + phdr_cksum(p))

(* What the sender stores: ~raw, with 0 sent as all ones where the code    *)
(* does so (UDP over IPv4; UDP and TCP over IPv6).                         *)
NoAllOnes(p, raw) == 65535 - raw   \* slip: a zero checksum is stored
Complement(p, raw) ==
  IF raw = 65535 /\ p.part = "l4" /\ (p.v6 \/ p.proto = IPPROTO_UDP)
  THEN 65535
  ELSE 65535 - raw

TypeOK ==
  /\ pkt \in Packets
  /\ buf \in [1..pkt.len -> Byte]
  /\ pc \in {"entry", "sum", "sent", "done"}
  /\ pass \in {"send", "recv"}
  /\ n \in 0..WordCount(pkt.len)
  /\ sum \in Nat
  /\ stored \in Word16
  /\ verdict \in {0, -1}
  /\ hit \in 0..WordCount(pkt.len)
  /\ delta \in Int
  /\ trace \in [0..WordCount(pkt.len) -> Nat]

Init ==
  /\ pkt \in Packets
  /\ buf = pkt.buf
  /\ pc = "entry"
  /\ pass = "send"
  /\ n = 0
  /\ sum = 0
  /\ stored = 0
  /\ verdict = 0
  /\ hit = 0
  /\ delta = 0
  /\ trace = [i \in 0..WordCount(pkt.len) |-> 0]

(* A call ends with the 16-bit sum raw: the sender complements and stores  *)
(* it, the receiver compares it with 0xffff.                               *)
Return(raw) ==
  \/ /\ pass = "send"
     /\ stored' = Complement(pkt, raw)
     /\ buf' = PutWord(buf, pkt.len, pkt.field, stored')
     /\ pc' = "sent"
     /\ UNCHANGED verdict
  \/ /\ pass = "recv"
     /\ verdict' = IF raw = 65535 THEN 0 ELSE -1
     /\ pc' = "done"
     /\ UNCHANGED <<stored, buf>>

(* A total length below the header's: nothing is summed, 0 is returned. *)
TooShort ==
  /\ pc = "entry"
  /\ pkt.part = "l4"
  /\ pkt.l3len < pkt.hlen
  /\ Return(0)
  /\ UNCHANGED <<pkt, pass, n, sum, hit, delta, trace>>

Enter ==
  /\ pc = "entry"
  /\ pkt.part = "ip" \/ pkt.l3len >= pkt.hlen
  /\ pc' = "sum"
  /\ n' = 0
  /\ sum' = 0
  /\ UNCHANGED <<pkt, buf, pass, stored, verdict, hit, delta, trace>>

Add(w) ==
  /\ n' = n + 1
  /\ sum' = sum + w
  /\ trace' = IF pass = "send" THEN [trace EXCEPT ![n + 1] = sum + w] ELSE trace
  /\ UNCHANGED <<pkt, buf, pc, pass, stored, verdict, hit, delta>>

(* The two loops over whole words; the first merely does four at a time. *)
SumWord ==
  /\ pc = "sum"
  /\ pkt.len - 2 * n >= 2
  /\ Add(WordAt(buf, pkt.len, n + 1))

SumOddByte ==
  /\ pc = "sum"
  /\ pkt.len - 2 * n = 1
  /\ Add(WordAt(buf, pkt.len, n + 1))

SumDone ==
  /\ pc = "sum"
  /\ n = WordCount(pkt.len)
  /\ Return(Raw(pkt, sum))
  /\ UNCHANGED <<pkt, pass, n, sum, hit, delta, trace>>

(* The packet reaches the receiver as it was sent ... *)
Deliver ==
  /\ pc = "sent"
  /\ pass' = "recv"
  /\ pc' = "entry"
  /\ UNCHANGED <<pkt, buf, n, sum, stored, verdict, hit, delta, trace>>

(* ... or with another value in one word of its UDP or TCP part. *)
Damage(i, v) ==
  /\ pc = "sent"
  /\ pkt.part = "l4"
  /\ 2 * i <= pkt.len \/ v \in Byte
  /\ v # WordAt(buf, pkt.len, i)
  /\ buf' = PutWord(buf, pkt.len, i, v)
  /\ hit' = i
  /\ delta' = v - WordAt(buf, pkt.len, i)
  /\ pass' = "recv"
  /\ pc' = "entry"
  /\ UNCHANGED <<pkt, n, sum, stored, verdict, trace>>

Next ==
  \/ TooShort
  \/ Enter
  \/ SumWord
  \/ SumOddByte
  \/ SumDone
  \/ Deliver
  \/ \E i \in 1..WordCount(pkt.len), v \in Noise : Damage(i, v)

Spec == Init /\ [][Next]_vars

(***************************************************************************)
(* The properties.                                                         *)
(***************************************************************************)

(* The uint32_t accumulator of __fgen_raw_cksum cannot wrap: after n words *)
(* it is at most n times 65535, and the longest IP payload has 32768.      *)
SumFits ==
  /\ n <= MaxWords
  /\ sum <= 65535 * n

(* A checksum of zero means "not computed" to a UDP receiver, so the code  *)
(* never stores it for UDP, nor for UDP and TCP over IPv6.                 *)
ZeroMeansNone ==
  pc \in {"sent", "done"} /\ pkt.part = "l4" /\ (pkt.v6 \/ pkt.proto = IPPROTO_UDP)
    => stored # 0

(* fgen_ipv4_udptcp_cksum_verify accepts what fgen_ipv4_udptcp_cksum made, *)
(* whatever the bytes and even when the length is odd or the checksum was  *)
(* replaced by all ones, and it rejects a packet with one changed word     *)
(* unless the change is invisible to one's complement sums (0 for 0xffff). *)
(* A packet whose total length is below its header's is never accepted.    *)
VerdictTells ==
  pc = "done" =>
    (verdict = 0 <=> (pkt.part = "ip" \/ pkt.l3len >= pkt.hlen)
                     /\ delta \in {-65535, 0, 65535})
=============================================================================
