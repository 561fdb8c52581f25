--------------------------- MODULE ChecksumProofs ---------------------------
(***************************************************************************)
(* Proofs about Checksum, for every packet of at most 65535 bytes.  The    *)
(* receiver's running sum is the sender's plus the stored checksum, once   *)
(* its word has been passed, plus what the network changed: that is the    *)
(* heart of the inductive invariant.  What is left is arithmetic modulo    *)
(* 65535: a fold changes a sum by a multiple of it and never makes a       *)
(* positive sum zero.                                                      *)
(***************************************************************************)
EXTENDS Checksum, TLAPS

(* One fold takes a multiple of 65535 away and keeps positive positive. *)
LEMMA FoldFacts ==
  ASSUME NEW s \in Nat
  PROVE  /\ Fold(s) \in Nat
         /\ s > 0 => Fold(s) > 0
         /\ \E q \in Nat : s = Fold(s) + 65535 * q
         /\ s < 4294967296 => Fold(s) <= 131070
         /\ s <= 131070 => Fold(s) <= 65535
<1> DEFINE q == s \div 65536
           r == s % 65536
<1>1. q \in Nat /\ r \in Nat /\ r <= 65535 /\ s = 65536 * q + r
  BY SMT
<1>2. Fold(s) = q + r
  BY SMT DEF Fold
<1> HIDE DEF q, r
<1>3. s = Fold(s) + 65535 * q
  BY SMT, <1>1, <1>2
<1>4. Fold(s) \in Nat /\ (s > 0 => Fold(s) > 0)
  BY SMT, <1>1, <1>2
<1>5. s < 4294967296 => Fold(s) <= 131070
  BY SMT, <1>1, <1>2
<1>6. s <= 131070 => Fold(s) <= 65535
  BY SMT, <1>1, <1>2
<1> QED
  BY SMT, <1>1, <1>3, <1>4, <1>5, <1>6

(* __fgen_raw_cksum_reduce: a 32-bit sum to 16 bits, with the same residue *)
(* modulo 65535 and zero only for zero.                                    *)
LEMMA ReduceFacts ==
  ASSUME NEW s \in Nat, s < 4294967296
  PROVE  /\ __fgen_raw_cksum_reduce(s) \in Nat /\ __fgen_raw_cksum_reduce(s) <= 65535
         /\ s > 0 => __fgen_raw_cksum_reduce(s) > 0
         /\ \E q \in Nat : s = __fgen_raw_cksum_reduce(s) + 65535 * q
<1> DEFINE t == Fold(s)
           u == Fold(t)
<1>1. __fgen_raw_cksum_reduce(s) = u
  BY SMT DEF __fgen_raw_cksum_reduce
<1>2. t \in Nat /\ t <= 131070 /\ (s > 0 => t > 0)
  BY SMT, FoldFacts
<1>3. PICK a \in Nat : s = t + 65535 * a
  BY SMT, <1>2, FoldFacts
<1>4. u \in Nat /\ u <= 65535 /\ (t > 0 => u > 0)
  BY SMT, <1>2, FoldFacts
<1>5. PICK b \in Nat : t = u + 65535 * b
  BY SMT, <1>2, FoldFacts
<1>6. \E q \in Nat : s = u + 65535 * q
  <2>1. a + b \in Nat /\ s = u + 65535 * (a + b)
    BY SMT, <1>2, <1>3, <1>4, <1>5
  <2> HIDE DEF u
  <2> WITNESS a + b \in Nat
  <2> QED
    BY SMT, <2>1
<1> QED
  BY SMT, <1>1, <1>2, <1>4, <1>6

(* What the pseudo-header adds to the sum of the buffer. *)
Extra(p) == IF p.part = "ip" THEN 0 ELSE phdr_cksum(p)

(* The total length is not below the header's, so that words are summed. *)
Long(p) == p.part = "ip" \/ p.l3len >= p.hlen

(* The bounds, as inequalities. *)
LEMMA Bounds ==
  /\ MaxByte \in Nat /\ MaxByte <= 255 /\ 255 <= MaxByte
  /\ MaxWord \in Nat /\ MaxWord <= 65535 /\ 65535 <= MaxWord
  /\ MaxBytes \in Nat /\ MaxBytes <= 65535
  /\ MaxWords \in Nat /\ MaxWords <= 32768 /\ 32768 <= MaxWords
BY SMT DEF MaxByte, MaxWord, MaxBytes, MaxWords

(* The fields of a packet. *)
LEMMA PacketFacts ==
  ASSUME NEW p, IsPacket(p)
  PROVE  /\ p.part = "ip" \/ p.part = "l4"
         /\ p.hlen \in Nat
         /\ p.l3len \in Nat /\ p.l3len <= 65535
         /\ p.addr \in Nat /\ p.addr <= 1048560
         /\ p.proto \in Nat /\ p.proto > 0 /\ p.proto <= 17
         /\ p.len \in Nat /\ p.len >= 2 /\ p.len <= 65535
         /\ p.field \in Nat /\ p.field >= 1 /\ 2 * p.field <= p.len
<1>1. /\ p.part \in {"ip", "l4"}
      /\ p.proto \in {IPPROTO_TCP, IPPROTO_UDP}
      /\ p.hlen \in 0..60
      /\ p.l3len \in 0..MaxBytes
      /\ p.addr \in 0..16 * MaxWord
      /\ p.len \in 2..MaxBytes
      /\ p.field \in 1..MaxWords
      /\ 2 * p.field <= p.len
  BY Zenon DEF IsPacket
<1>2. p.addr \in Nat /\ p.addr <= 1048560
  BY SMT, <1>1, Bounds
<1>3. p.part = "ip" \/ p.part = "l4"
  BY Zenon, <1>1
<1>4. p.proto \in Nat /\ p.proto > 0 /\ p.proto <= 17
  BY SMT, <1>1 DEF IPPROTO_TCP, IPPROTO_UDP
<1>5. p.hlen \in Nat /\ p.l3len \in Nat /\ p.l3len <= 65535
  BY SMT, <1>1, Bounds
<1>6. /\ p.len \in Nat /\ p.len >= 2 /\ p.len <= 65535
      /\ p.field \in Nat /\ p.field >= 1 /\ 2 * p.field <= p.len
  BY SMT, <1>1, Bounds
<1> QED
  BY SMT, <1>2, <1>3, <1>4, <1>5, <1>6

(* The pseudo-header's sum is 16 bits wide and not zero: the protocol is   *)
(* one of its words.                                                       *)
LEMMA PhdrFacts ==
  ASSUME NEW p, IsPacket(p), p.l3len >= p.hlen
  PROVE  phdr_cksum(p) \in Nat /\ phdr_cksum(p) > 0 /\ phdr_cksum(p) <= 65535
<1> DEFINE l == p.l3len - p.hlen
           w == p.addr + 256 * p.proto + htobe16(l)
<1>1. l \in Nat /\ l <= 65535
  BY SMT, PacketFacts
<1>2. htobe16(l) \in Nat /\ htobe16(l) <= 65535
  <2> HIDE DEF l
  <2> QED
    BY SMT, <1>1 DEF htobe16
<1>3. w \in Nat /\ w > 0 /\ w < 4294967296
  <2>1. p.addr \in Nat /\ p.addr <= 1048560 /\ p.proto \in Nat /\ p.proto > 0 /\ p.proto <= 17
    BY SMT, PacketFacts
  <2> HIDE DEF l
  <2> QED
    BY SMT, <1>2, <2>1
<1>4. phdr_cksum(p) = __fgen_raw_cksum_reduce(w)
  BY SMT DEF phdr_cksum, phdr_words
<1> HIDE DEF w
<1> QED
  BY SMT, <1>3, <1>4, ReduceFacts

(* The 16-bit result has the residue of everything that was summed and is  *)
(* zero only if all of it is.                                              *)
LEMMA RawFacts ==
  ASSUME NEW p, IsPacket(p), Long(p), NEW s \in Nat, s < 4294967296
  PROVE  /\ Extra(p) \in Nat
         /\ p.part = "l4" => Extra(p) > 0
         /\ Raw(p, s) \in Nat /\ Raw(p, s) <= 65535
         /\ s + Extra(p) > 0 => Raw(p, s) > 0
         /\ \E q \in Nat : s + Extra(p) = Raw(p, s) + 65535 * q
<1>1. CASE p.part = "ip"
  <2> DEFINE r == __fgen_raw_cksum_reduce(s)
  <2>1. Extra(p) = 0 /\ Raw(p, s) = r /\ p.part # "l4"
    BY SMT, <1>1 DEF Extra, Raw
  <2>2. r \in Nat /\ r <= 65535 /\ (s > 0 => r > 0)
    BY SMT, ReduceFacts
  <2>3. PICK a \in Nat : s = r + 65535 * a
    BY SMT, <2>2, ReduceFacts
  <2> HIDE DEF r
  <2> QED
    BY SMT, <2>1, <2>2, <2>3
<1>2. CASE p.part # "ip"
  <2> DEFINE r == __fgen_raw_cksum_reduce(s)
             e == phdr_cksum(p)
  <2>1. Extra(p) = e /\ Raw(p, s) = Fold(r + e)
    BY SMT, <1>2 DEF Extra, Raw
  <2>2. e \in Nat /\ e > 0 /\ e <= 65535
    BY SMT, <1>2, PhdrFacts DEF Long
  <2>3. r \in Nat /\ r <= 65535
    BY SMT, ReduceFacts
  <2>4. PICK a \in Nat : s = r + 65535 * a
    BY SMT, <2>3, ReduceFacts
  <2> HIDE DEF r, e
  <2>5. r + e \in Nat /\ r + e > 0 /\ r + e <= 131070
    BY SMT, <2>2, <2>3
  <2>6. Fold(r + e) \in Nat /\ Fold(r + e) > 0 /\ Fold(r + e) <= 65535
    BY SMT, <2>5, FoldFacts
  <2>7. PICK b \in Nat : r + e = Fold(r + e) + 65535 * b
    BY SMT, <2>5, FoldFacts
  <2>8. \E q \in Nat : s + e = Fold(r + e) + 65535 * q
    <3>1. a + b \in Nat /\ s + e = Fold(r + e) + 65535 * (a + b)
      BY SMT, <2>2, <2>3, <2>4, <2>6, <2>7
    <3> WITNESS a + b \in Nat
    <3> QED
      BY SMT, <3>1
  <2> QED
    BY SMT, <2>1, <2>2, <2>6, <2>8
<1> QED
  BY SMT, <1>1, <1>2

(* Sender and receiver: with S the sender's words, E the pseudo-header, c  *)
(* the stored complement and d the change on the way, the receiver gets    *)
(* 0xffff exactly when d is a multiple of 65535.                           *)
LEMMA VerdictArith ==
  ASSUME NEW S \in Nat, NEW E \in Nat, NEW c \in Nat, NEW d \in Int,
         NEW raw \in Nat, NEW raw2 \in Nat, NEW q \in Nat, NEW q2 \in Nat,
         -65535 <= d, d <= 65535, raw <= 65535, raw2 <= 65535,
         c = 65535 - raw \/ (raw = 65535 /\ c = 65535),
         S + E = raw + 65535 * q,
         S + c + d >= 0,
         S + c + d + E = raw2 + 65535 * q2,
         S + c + d + E > 0 => raw2 > 0,
         E > 0 \/ d = 0
  PROVE  raw2 = 65535 <=> d \in {-65535, 0, 65535}
<1>1. S + c + d + E > 0
  BY SMT
<1>2. raw2 >= 1
  BY SMT, <1>1
<1>3. PICK m \in Int : raw2 = 65535 * m + d
  <2>1. CASE c = 65535 - raw
    <3> DEFINE k == q + 1 - q2
    <3>1. k \in Int /\ raw2 = 65535 * k + d
      BY SMT, <2>1
    <3> HIDE DEF k
    <3> QED
      BY SMT, <3>1
  <2>2. CASE raw = 65535 /\ c = 65535
    <3> DEFINE k == q + 2 - q2
    <3>1. k \in Int /\ raw2 = 65535 * k + d
      BY SMT, <2>2
    <3> HIDE DEF k
    <3> QED
      BY SMT, <3>1
  <2> QED
    BY SMT, <2>1, <2>2
<1>4. raw2 = 65535 => d \in {-65535, 0, 65535}
  BY SMT, <1>3
<1>5. d \in {-65535, 0, 65535} => raw2 = 65535
  BY SMT, <1>2, <1>3
<1> QED
  BY SMT, <1>4, <1>5

(* There are at most MaxWords words, and each starts inside the buffer. *)
LEMMA WordCountFacts ==
  ASSUME NEW len \in Nat, len >= 2, len <= 65535
  PROVE  /\ WordCount(len) \in Nat /\ WordCount(len) >= 1 /\ WordCount(len) <= 32768
         /\ \A i \in Nat : i <= WordCount(len) <=> 2 * i <= len + 1
BY SMT DEF WordCount

(* A word of a buffer of bytes. *)
LEMMA WordAtType ==
  ASSUME NEW len \in Nat, NEW b \in [1..len -> Byte],
         NEW i \in Nat, i >= 1, 2 * i <= len + 1
  PROVE  WordAt(b, len, i) \in Nat /\ WordAt(b, len, i) <= 65535
<1>1. b[2 * i - 1] \in Nat /\ b[2 * i - 1] <= 255
  BY SMT, Bounds DEF Byte
<1>2. 2 * i <= len => b[2 * i] \in Nat /\ b[2 * i] <= 255
  BY SMT, Bounds DEF Byte
<1> QED
  BY SMT, <1>1, <1>2 DEF WordAt

(* Storing a word stores that word and no other. *)
LEMMA PutWordFacts ==
  ASSUME NEW len \in Nat, NEW b \in [1..len -> Byte],
         NEW i \in Nat, i >= 1, 2 * i <= len + 1,
         NEW v \in Nat, v <= 65535, 2 * i <= len \/ v <= 255
  PROVE  /\ PutWord(b, len, i, v) \in [1..len -> Byte]
         /\ WordAt(PutWord(b, len, i, v), len, i) = v
         /\ \A j \in Nat : j >= 1 /\ 2 * j <= len + 1 /\ j # i
              => WordAt(PutWord(b, len, i, v), len, j) = WordAt(b, len, j)
<1> DEFINE lo == v % 256
           hi == v \div 256
<1>1. lo \in Nat /\ lo <= 255 /\ hi \in Nat /\ hi <= 255 /\ v = lo + 256 * hi
  BY SMT
<1>2. CASE 2 * i <= len
  <2> DEFINE c == [b EXCEPT ![2 * i - 1] = lo, ![2 * i] = hi]
  <2>1. PutWord(b, len, i, v) = c
    BY SMT, <1>2 DEF PutWord
  <2>2. lo \in Byte /\ hi \in Byte
    BY SMT, <1>1, Bounds DEF Byte
  <2> HIDE DEF lo, hi
  <2>3. c \in [1..len -> Byte]
    BY SMT, <1>2, <2>2
  <2>4. c[2 * i - 1] = lo /\ c[2 * i] = hi
    BY SMT, <1>2
  <2>5. \A k \in 1..len : k # 2 * i - 1 /\ k # 2 * i => c[k] = b[k]
    BY SMT, <1>2
  <2> HIDE DEF c
  <2>6. WordAt(c, len, i) = v
    BY SMT, <1>1, <1>2, <2>4 DEF WordAt
  <2>7. ASSUME NEW j \in Nat, j >= 1, 2 * j <= len + 1, j # i
        PROVE  WordAt(c, len, j) = WordAt(b, len, j)
    <3>1. c[2 * j - 1] = b[2 * j - 1]
      BY SMT, <2>5, <2>7
    <3>2. 2 * j <= len => c[2 * j] = b[2 * j]
      BY SMT, <2>5, <2>7
    <3> QED
      BY SMT, <3>1, <3>2 DEF WordAt
  <2> QED
    BY SMT, <2>1, <2>3, <2>6, <2>7
<1>3. CASE ~(2 * i <= len)
  <2> DEFINE c == [b EXCEPT ![2 * i - 1] = v]
  <2>1. PutWord(b, len, i, v) = c
    BY SMT, <1>3 DEF PutWord
  <2>2. v \in Byte
    BY SMT, <1>3, Bounds DEF Byte
  <2>3. c \in [1..len -> Byte]
    BY SMT, <1>3, <2>2
  <2>4. c[2 * i - 1] = v
    BY SMT
  <2>5. \A k \in 1..len : k # 2 * i - 1 => c[k] = b[k]
    BY SMT
  <2> HIDE DEF c
  <2>6. WordAt(c, len, i) = v
    BY SMT, <1>3, <2>4 DEF WordAt
  <2>7. ASSUME NEW j \in Nat, j >= 1, 2 * j <= len + 1, j # i
        PROVE  WordAt(c, len, j) = WordAt(b, len, j)
    <3>1. c[2 * j - 1] = b[2 * j - 1]
      BY SMT, <2>5, <2>7
    <3>2. 2 * j <= len => c[2 * j] = b[2 * j]
      BY SMT, <1>3, <2>5, <2>7
    <3> QED
      BY SMT, <3>1, <3>2 DEF WordAt
  <2> QED
    BY SMT, <2>1, <2>3, <2>6, <2>7
<1> QED
  BY SMT, <1>2, <1>3

(***************************************************************************)
(* The inductive invariant.                                                *)
(***************************************************************************)

Words == WordCount(pkt.len)

(* trace holds the sender's partial sums up to k words. *)
Traced(k) ==
  \A i \in 0..k - 1 : trace[i + 1] = trace[i] + WordAt(pkt.buf, pkt.len, i + 1)

(* Word i as the receiver finds it. *)
Arrived(i) ==
  WordAt(pkt.buf, pkt.len, i)
    + (IF i = pkt.field THEN stored ELSE 0) + (IF i = hit THEN delta ELSE 0)

DeltaFits == -65535 <= delta /\ delta <= 65535

TraceFits == trace[Words] <= 65535 * Words

ControlInv ==
  /\ pc = "sent" => pass = "send"
  /\ pc = "done" => pass = "recv"
  /\ pc = "sum" => Long(pkt)
  /\ pass = "send" => hit = 0
  /\ hit = 0 => delta = 0
  /\ pkt.part = "ip" => hit = 0
  /\ DeltaFits

SenderInv ==
  /\ trace[0] = 0
  /\ pass = "send" /\ pc # "sent" => buf = pkt.buf
  /\ pass = "send" /\ pc = "sum" => sum = trace[n] /\ Traced(n)

SentInv ==
  pc = "sent" \/ pass = "recv" =>
    /\ \A i \in 1..Words : WordAt(buf, pkt.len, i) = Arrived(i)
    /\ stored = Complement(pkt, IF Long(pkt) THEN Raw(pkt, trace[Words]) ELSE 0)
    /\ Long(pkt) => Traced(Words) /\ TraceFits

ReceiverInv ==
  pass = "recv" /\ pc = "sum" =>
    sum = trace[n] + (IF pkt.field <= n THEN stored ELSE 0)
                   + (IF hit <= n THEN delta ELSE 0)

IInv ==
  TypeOK /\ ControlInv /\ SenderInv /\ SentInv /\ ReceiverInv /\ SumFits /\ VerdictTells

(* What the types of the state say about the packet, its words ... *)
LEMMA StatePacket == TypeOK => IsPacket(pkt)
BY Zenon, ChecksumAssumption DEF TypeOK

(* Lengths and counts of words of the packet at hand. *)
LEMMA StateWords ==
  ASSUME TypeOK
  PROVE  /\ pkt.len \in Nat /\ pkt.len >= 2 /\ pkt.len <= 65535
         /\ Words \in Nat /\ Words >= 1 /\ Words <= 32768
         /\ pkt.field \in Nat /\ pkt.field >= 1 /\ pkt.field <= Words
         /\ 2 * pkt.field <= pkt.len
<1>1. /\ pkt.len \in Nat /\ pkt.len >= 2 /\ pkt.len <= 65535
      /\ pkt.field \in Nat /\ pkt.field >= 1 /\ 2 * pkt.field <= pkt.len
  BY SMT, StatePacket, PacketFacts
<1>2. /\ Words \in Nat /\ Words >= 1 /\ Words <= 32768
      /\ \A i \in Nat : i <= Words <=> 2 * i <= pkt.len + 1
  BY SMT, <1>1, WordCountFacts DEF Words
<1> QED
  BY SMT, <1>1, <1>2

(* A word of the packet starts within it. *)
LEMMA StateWordStarts ==
  ASSUME TypeOK, NEW i \in 1..Words
  PROVE  i \in Nat /\ i >= 1 /\ 2 * i <= pkt.len + 1
<1>1. Words \in Nat /\ \A k \in Nat : k <= Words <=> 2 * k <= pkt.len + 1
  BY SMT, StateWords, WordCountFacts DEF Words
<1> QED
  BY SMT, <1>1

(* ... and its bytes. *)
LEMMA StateBytes ==
  ASSUME TypeOK
  PROVE  pkt.buf \in [1..pkt.len -> Byte] /\ buf \in [1..pkt.len -> Byte]
BY Zenon, StatePacket DEF IsPacket, TypeOK

(* Every word of the packet, built or in flight, has 16 bits. *)
LEMMA StateWordAt ==
  ASSUME TypeOK, NEW i \in 1..Words
  PROVE  /\ WordAt(pkt.buf, pkt.len, i) \in Nat /\ WordAt(pkt.buf, pkt.len, i) <= 65535
         /\ WordAt(buf, pkt.len, i) \in Nat /\ WordAt(buf, pkt.len, i) <= 65535
<1>1. pkt.buf \in [1..pkt.len -> Byte] /\ buf \in [1..pkt.len -> Byte]
  BY Zenon, StateBytes
<1>2. pkt.len \in Nat /\ i \in Nat /\ i >= 1 /\ 2 * i <= pkt.len + 1
  BY SMT, StateWordStarts, StateWords
<1>3. WordAt(pkt.buf, pkt.len, i) \in Nat /\ WordAt(pkt.buf, pkt.len, i) <= 65535
  <2> DEFINE b == pkt.buf
             len == pkt.len
  <2>1. len \in Nat /\ b \in [1..len -> Byte] /\ 2 * i <= len + 1
    BY SMT, <1>1, <1>2
  <2> HIDE DEF b, len
  <2>2. WordAt(b, len, i) \in Nat /\ WordAt(b, len, i) <= 65535
    BY SMT, <1>2, <2>1, WordAtType
  <2> QED
    BY SMT, <2>2 DEF b, len
<1>4. WordAt(buf, pkt.len, i) \in Nat /\ WordAt(buf, pkt.len, i) <= 65535
  BY SMT, <1>1, <1>2, WordAtType
<1> QED
  BY SMT, <1>3, <1>4

(* The sender sums a checksum field that is still zero. *)
LEMMA StateField == TypeOK => WordAt(pkt.buf, pkt.len, pkt.field) = 0
<1>1. TypeOK => pkt.buf[2 * pkt.field - 1] = 0 /\ pkt.buf[2 * pkt.field] = 0
  BY Zenon, StatePacket DEF IsPacket
<1> QED
  BY SMT, <1>1, StateWords DEF WordAt

(* The stored value is 16 bits wide, the complement of the sum or all ones *)
(* for a sum that is all ones.                                             *)
LEMMA ComplementFacts ==
  ASSUME NEW p, NEW raw \in Nat, raw <= 65535
  PROVE  /\ Complement(p, raw) \in Nat /\ Complement(p, raw) <= 65535
         /\ Complement(p, raw) \in Word16
         /\ \/ Complement(p, raw) = 65535 - raw
            \/ raw = 65535 /\ Complement(p, raw) = 65535
<1>1. /\ Complement(p, raw) \in Nat /\ Complement(p, raw) <= 65535
      /\ \/ Complement(p, raw) = 65535 - raw
         \/ raw = 65535 /\ Complement(p, raw) = 65535
  BY SMT DEF Complement
<1> HIDE DEF Complement
<1>2. Complement(p, raw) \in Word16
  BY SMT, <1>1, Bounds DEF Word16
<1> QED
  BY SMT, <1>1, <1>2

(* Before the first word the sums are empty. *)
LEMMA InitInv == Init => IInv
<1> SUFFICES ASSUME Init PROVE IInv
  OBVIOUS
<1>1. IsPacket(pkt)
  BY Zenon, ChecksumAssumption DEF Init
<1>2. WordCount(pkt.len) \in Nat
  BY SMT, <1>1, PacketFacts, WordCountFacts
<1>3. pkt.buf \in [1..pkt.len -> Byte]
  BY Zenon, <1>1 DEF IsPacket
<1>4. stored \in Word16
  BY SMT, Bounds DEF Init, Word16
<1>5. TypeOK
  BY SMT, <1>2, <1>3, <1>4 DEF Init, TypeOK
<1>6. trace[0] = 0
  BY SMT, <1>2 DEF Init
<1>7. ControlInv /\ SenderInv /\ SentInv /\ ReceiverInv /\ VerdictTells
  BY SMT, <1>6 DEF Init, ControlInv, DeltaFits, SenderInv, SentInv, ReceiverInv, VerdictTells
<1>8. SumFits
  BY SMT, Bounds DEF Init, SumFits
<1> QED
  BY Zenon, <1>5, <1>7, <1>8 DEF IInv

(* The value the sender's call ends with: 0 for a packet that is too short. *)
Result == IF Long(pkt) THEN Raw(pkt, trace[Words]) ELSE 0

(* The sender stores: the words are those of the packet, but for the       *)
(* checksum.                                                               *)
LEMMA StoreInv ==
  ASSUME IInv, pass = "send", pc # "sent", Result \in Word16,
         Return(Result), UNCHANGED <<pkt, pass, n, sum, hit, delta, trace>>,
         Long(pkt) => Traced(Words) /\ TraceFits
  PROVE  IInv'
<1> DEFINE c == Complement(pkt, Result)
<1>1. TypeOK /\ ControlInv /\ SenderInv /\ SumFits
  BY Zenon DEF IInv
<1>2. /\ stored' = c /\ pc' = "sent" /\ verdict' = verdict
      /\ buf' = PutWord(buf, pkt.len, pkt.field, c)
  BY SMT DEF Return
<1>3. UNCHANGED <<pkt, pass, n, sum, hit, delta, trace>>
  OBVIOUS
<1>4. c \in Word16 /\ c \in Nat /\ c <= 65535
  <2>1. Result \in Nat /\ Result <= 65535
    BY SMT, Bounds DEF Word16
  <2> QED
    BY SMT, <2>1, ComplementFacts
<1>5. stored' = Complement(pkt, Result)
  BY Zenon, <1>2
<1> HIDE DEF c
<1>6. buf = pkt.buf /\ hit = 0 /\ delta = 0
  BY SMT, <1>1 DEF SenderInv, ControlInv
<1>7. /\ buf' \in [1..pkt.len -> Byte]
      /\ WordAt(buf', pkt.len, pkt.field) = c
      /\ \A j \in Nat : j >= 1 /\ 2 * j <= pkt.len + 1 /\ j # pkt.field
           => WordAt(buf', pkt.len, j) = WordAt(pkt.buf, pkt.len, j)
  <2>1. buf \in [1..pkt.len -> Byte]
    BY Zenon, <1>1, StateBytes
  <2>2. pkt.len \in Nat /\ pkt.field \in Nat /\ pkt.field >= 1 /\ 2 * pkt.field <= pkt.len
    BY SMT, <1>1, StateWords
  <2> QED
    BY SMTT(30), <1>2, <1>4, <1>6, <2>1, <2>2, PutWordFacts
<1>8. TypeOK'
  BY SMT, <1>1, <1>2, <1>3, <1>4, <1>7 DEF TypeOK
<1>9. ControlInv'
  BY SMT, <1>1, <1>2, <1>3 DEF ControlInv, DeltaFits
<1>10. SenderInv'
  BY SMT, <1>1, <1>2, <1>3 DEF SenderInv
<1>11. SentInv'
  <2>1. Words' = Words /\ (Long(pkt) <=> Long(pkt)')
    BY SMT, <1>3 DEF Words, Long
  <2>2. ASSUME NEW i \in 1..Words PROVE WordAt(buf', pkt.len, i) = Arrived(i)'
    <3>1. i \in Nat /\ i >= 1 /\ 2 * i <= pkt.len + 1
      BY SMT, <1>1, StateWordStarts
    <3>2. WordAt(pkt.buf, pkt.len, i) \in Nat
      BY SMT, <1>1, StateWordAt
    <3>3. Arrived(i)' = WordAt(pkt.buf, pkt.len, i) + (IF i = pkt.field THEN c ELSE 0)
      BY SMT, <1>2, <1>3, <1>4, <1>6, <3>2 DEF Arrived
    <3>4. CASE i = pkt.field
      BY SMT, <1>1, <1>4, <1>7, <3>3, <3>4, StateField
    <3>5. CASE i # pkt.field
      BY SMT, <1>7, <3>1, <3>2, <3>3, <3>5
    <3> QED
      BY SMT, <3>4, <3>5
  <2>3. Result = IF Long(pkt)' THEN Raw(pkt, trace[Words])' ELSE 0
    BY SMT, <1>3, <2>1 DEF Result
  <2>4. Long(pkt)' => Traced(Words)' /\ TraceFits'
    BY SMT, <1>3, <2>1 DEF Traced, TraceFits
  <2> QED
    BY SMT, <1>3, <1>5, <2>1, <2>2, <2>3, <2>4 DEF SentInv
<1>12. ReceiverInv' /\ VerdictTells'
  BY SMT, <1>2 DEF ReceiverInv, VerdictTells
<1>13. SumFits'
  BY SMT, <1>1, <1>3 DEF SumFits
<1> QED
  BY SMT, <1>8, <1>9, <1>10, <1>11, <1>12, <1>13 DEF IInv

(* The control steps that leave the sums alone: a call is entered, or the  *)
(* packet is delivered as it was sent.                                     *)
LEMMA EnterInv == IInv /\ Enter => IInv'
<1> SUFFICES ASSUME IInv, Enter PROVE IInv'
  OBVIOUS
<1>1. TypeOK /\ ControlInv /\ SenderInv /\ SentInv
  BY Zenon DEF IInv
<1>2. /\ pc = "entry" /\ pc' = "sum" /\ n' = 0 /\ sum' = 0 /\ Long(pkt)
      /\ UNCHANGED <<pkt, buf, pass, stored, verdict, hit, delta, trace>>
  BY Zenon DEF Enter, Long
<1>3. Words \in Nat /\ Words' = Words
  BY SMT, <1>1, <1>2, StateWords DEF Words
<1>4. TypeOK'
  BY SMT, <1>1, <1>2, <1>3 DEF TypeOK, Words
<1>5. ControlInv'
  BY SMT, <1>1, <1>2 DEF ControlInv, DeltaFits, Long
<1>6. SenderInv'
  BY SMT, <1>1, <1>2 DEF SenderInv, Traced
<1>7. SentInv'
  BY SMT, <1>1, <1>2, <1>3 DEF SentInv, Traced, TraceFits, Arrived, Long
<1>8. ReceiverInv'
  <2>1. hit \in Nat /\ hit <= 0 => delta = 0
    BY SMT, <1>1, <1>3 DEF ControlInv, TypeOK, Words
  <2>2. pkt.field \in Nat /\ pkt.field >= 1 /\ delta \in Int /\ hit \in Nat
    BY SMT, <1>1, <1>3, StateWords DEF TypeOK, Words
  <2> QED
    BY SMT, <1>1, <1>2, <2>1, <2>2 DEF ReceiverInv, SenderInv
<1>9. SumFits' /\ VerdictTells'
  BY SMT, <1>2, Bounds DEF SumFits, VerdictTells
<1> QED
  BY SMT, <1>4, <1>5, <1>6, <1>7, <1>8, <1>9 DEF IInv

(* What the receiver gets: the sender's words, its checksum and one        *)
(* change.                                                                 *)
LEMMA DeliverInv == IInv /\ Deliver => IInv'
<1> SUFFICES ASSUME IInv, Deliver PROVE IInv'
  OBVIOUS
<1>1. TypeOK /\ ControlInv /\ SenderInv /\ SentInv /\ SumFits
  BY Zenon DEF IInv
<1>2. /\ pc = "sent" /\ pc' = "entry" /\ pass' = "recv"
      /\ UNCHANGED <<pkt, buf, n, sum, stored, verdict, hit, delta, trace>>
  BY Zenon DEF Deliver
<1>3. TypeOK'
  BY SMT, <1>1, <1>2 DEF TypeOK
<1>4. ControlInv' /\ SenderInv'
  BY SMT, <1>1, <1>2 DEF ControlInv, DeltaFits, SenderInv
<1>5. SentInv'
  BY SMT, <1>1, <1>2 DEF SentInv, Words, Traced, TraceFits, Arrived, Long
<1>6. ReceiverInv' /\ VerdictTells'
  BY SMT, <1>2 DEF ReceiverInv, VerdictTells
<1>7. SumFits'
  BY SMT, <1>1, <1>2 DEF SumFits
<1> QED
  BY SMT, <1>3, <1>4, <1>5, <1>6, <1>7 DEF IInv

(* The network changes word i: the change is recorded in hit and delta.    *)
LEMMA DamageInv ==
  ASSUME IInv, NEW i \in 1..WordCount(pkt.len), NEW v \in Noise, Damage(i, v)
  PROVE  IInv'
<1> DEFINE w == WordAt(buf, pkt.len, i)
<1>1. TypeOK /\ ControlInv /\ SenderInv /\ SentInv /\ SumFits
  BY Zenon DEF IInv
<1>2. /\ pc = "sent" /\ pkt.part = "l4" /\ pc' = "entry" /\ pass' = "recv"
      /\ buf' = PutWord(buf, pkt.len, i, v) /\ hit' = i /\ delta' = v - w
      /\ 2 * i <= pkt.len \/ v \in Byte
      /\ UNCHANGED <<pkt, n, sum, stored, verdict, trace>>
  BY Zenon DEF Damage
<1>3. i \in 1..Words
  BY Zenon DEF Words
<1>4. i \in Nat /\ i >= 1 /\ 2 * i <= pkt.len + 1 /\ pkt.len \in Nat
  BY SMT, <1>1, <1>3, StateWordStarts, StateWords
<1>5. v \in Nat /\ v <= 65535 /\ (2 * i <= pkt.len \/ v <= 255)
  <2>1. v \in Word16
    BY Zenon, ChecksumAssumption
  <2> QED
    BY SMT, <1>2, <2>1, Bounds DEF Word16, Byte
<1>6. w \in Nat /\ w <= 65535
  BY SMT, <1>1, <1>3, StateWordAt
<1> HIDE DEF w
<1>7. /\ buf' \in [1..pkt.len -> Byte]
      /\ WordAt(buf', pkt.len, i) = v
      /\ \A j \in Nat : j >= 1 /\ 2 * j <= pkt.len + 1 /\ j # i
           => WordAt(buf', pkt.len, j) = WordAt(buf, pkt.len, j)
  <2>1. buf \in [1..pkt.len -> Byte]
    BY Zenon, <1>1, StateBytes
  <2> QED
    BY SMT, <1>2, <1>4, <1>5, <2>1, PutWordFacts
<1>8. TypeOK'
  <2>1. delta' \in Int
    BY SMT, <1>2, <1>5, <1>6
  <2>2. hit' \in 0..WordCount(pkt.len)
    BY SMT, <1>1, <1>2, <1>3, StateWords DEF Words
  <2> QED
    BY SMT, <1>1, <1>2, <1>7, <2>1, <2>2 DEF TypeOK
<1>9. ControlInv'
  <2>1. DeltaFits'
    BY SMT, <1>2, <1>5, <1>6 DEF DeltaFits
  <2> QED
    BY SMT, <1>2, <1>4, <2>1 DEF ControlInv
<1>10. SenderInv'
  BY SMT, <1>1, <1>2 DEF SenderInv
<1>11. SentInv'
  <2>1. hit = 0 /\ delta = 0
    BY SMT, <1>1, <1>2 DEF ControlInv
  <2>2. Words' = Words /\ stored \in Nat
    BY SMT, <1>1, <1>2, Bounds DEF Words, TypeOK, Word16
  <2>3. ASSUME NEW j \in 1..Words PROVE WordAt(buf', pkt.len, j) = Arrived(j)'
    <3>1. j \in Nat /\ j >= 1 /\ 2 * j <= pkt.len + 1
      BY SMT, <1>1, StateWordStarts
    <3> DEFINE u == WordAt(pkt.buf, pkt.len, j)
               x == WordAt(buf, pkt.len, j)
    <3>2. u \in Nat /\ x \in Nat
      BY SMT, <1>1, StateWordAt
    <3>3. x = u + (IF j = pkt.field THEN stored ELSE 0)
      <4>1. x = Arrived(j)
        BY Zenon, <1>1, <1>2 DEF SentInv
      <4> QED
        BY SMT, <2>1, <2>2, <3>1, <3>2, <4>1 DEF Arrived
    <3>4. Arrived(j)' = u + (IF j = pkt.field THEN stored ELSE 0) + (IF j = i THEN v - w ELSE 0)
      BY SMT, <1>2 DEF Arrived
    <3>5. j = i => x = w
      BY Zenon DEF w
    <3>6. WordAt(buf', pkt.len, j) = IF j = i THEN v ELSE x
      BY SMT, <1>7, <3>1
    <3> HIDE DEF u, x
    <3> QED
      BY SMT, <1>5, <1>6, <2>2, <3>2, <3>3, <3>4, <3>5, <3>6
  <2>4. /\ stored = Complement(pkt, IF Long(pkt) THEN Raw(pkt, trace[Words]) ELSE 0)
        /\ Long(pkt) => Traced(Words) /\ TraceFits
    BY Zenon, <1>1, <1>2 DEF SentInv
  <2> QED
    BY SMT, <1>2, <2>2, <2>3, <2>4 DEF SentInv, Traced, TraceFits, Long
<1>12. ReceiverInv' /\ VerdictTells'
  BY SMT, <1>2 DEF ReceiverInv, VerdictTells
<1>13. SumFits'
  BY SMT, <1>1, <1>2 DEF SumFits
<1> QED
  BY SMT, <1>8, <1>9, <1>10, <1>11, <1>12, <1>13 DEF IInv

(* One word is added: the sender's sum goes into trace, the receiver's     *)
(* stays trace plus the stored checksum and the change, once passed.       *)
LEMMA AddInv ==
  ASSUME IInv, pc = "sum", n < Words, Add(WordAt(buf, pkt.len, n + 1))
  PROVE  IInv'
<1> DEFINE w == WordAt(buf, pkt.len, n + 1)
           u == WordAt(pkt.buf, pkt.len, n + 1)
<1>1. TypeOK /\ ControlInv /\ SenderInv /\ SentInv /\ ReceiverInv /\ SumFits
  BY Zenon DEF IInv
<1>2. /\ n' = n + 1 /\ sum' = sum + w
      /\ trace' = IF pass = "send" THEN [trace EXCEPT ![n + 1] = sum + w] ELSE trace
      /\ UNCHANGED <<pkt, buf, pc, pass, stored, verdict, hit, delta>>
  BY Zenon DEF Add
<1>3. /\ Words \in Nat /\ Words <= 32768 /\ Words' = Words
      /\ pkt.field \in Nat /\ pkt.field >= 1 /\ pkt.field <= Words
  BY SMT, <1>1, <1>2, StateWords DEF Words
<1>4. /\ n \in Nat /\ n + 1 \in 1..Words /\ sum \in Nat /\ delta \in Int
      /\ hit \in Nat /\ trace \in [0..Words -> Nat]
  BY SMT, <1>1, <1>3 DEF TypeOK, Words
<1>5. w \in Nat /\ w <= 65535 /\ u \in Nat
  BY SMT, <1>1, <1>4, StateWordAt
<1>6. stored \in Nat
  BY SMT, <1>1, Bounds DEF TypeOK, Word16
<1> HIDE DEF w
<1>7. TypeOK'
  <2>1. n' \in 0..Words /\ sum' \in Nat /\ trace' \in [0..Words -> Nat]
    BY SMT, <1>2, <1>3, <1>4, <1>5
  <2> QED
    BY SMT, <1>1, <1>2, <2>1 DEF TypeOK, Words
<1>8. ControlInv'
  BY SMT, <1>1, <1>2 DEF ControlInv, DeltaFits, Long
<1>9. SumFits'
  BY SMT, <1>1, <1>2, <1>3, <1>4, <1>5, Bounds DEF SumFits
<1>10. VerdictTells'
  BY SMT, <1>2 DEF VerdictTells
<1>11. CASE pass = "send"
  <2>1. buf = pkt.buf /\ sum = trace[n] /\ Traced(n)
    BY SMT, <1>1, <1>11 DEF SenderInv
  <2>2. w = u
    BY SMT, <2>1 DEF w
  <2> HIDE DEF u
  <2>3. /\ trace'[n + 1] = trace[n] + u
        /\ \A i \in 0..n : trace'[i] = trace[i]
    BY SMT, <1>2, <1>3, <1>4, <1>11, <2>1, <2>2
  <2>4. Traced(n)'
    <3>1. ASSUME NEW i \in 0..n
          PROVE  trace'[i + 1] = trace'[i] + WordAt(pkt.buf, pkt.len, i + 1)
      <4>1. CASE i = n
        BY SMT, <1>4, <2>3, <4>1 DEF u
      <4>2. CASE i # n
        <5>1. i \in 0..n - 1 /\ i + 1 \in 0..n
          BY SMT, <1>4, <4>2
        <5>2. trace[i + 1] = trace[i] + WordAt(pkt.buf, pkt.len, i + 1)
          BY SMT, <2>1, <5>1 DEF Traced
        <5> QED
          BY SMT, <1>4, <2>3, <5>1, <5>2
      <4> QED
        BY SMT, <4>1, <4>2
    <3>2. n' - 1 = n
      BY SMT, <1>2, <1>4
    <3> QED
      BY SMT, <1>2, <3>1, <3>2 DEF Traced
  <2>5. SenderInv'
    BY SMT, <1>1, <1>2, <1>4, <1>11, <2>1, <2>2, <2>3, <2>4 DEF SenderInv
  <2>6. SentInv' /\ ReceiverInv'
    BY SMT, <1>2, <1>11 DEF SentInv, ReceiverInv
  <2> QED
    BY SMT, <1>7, <1>8, <1>9, <1>10, <2>5, <2>6 DEF IInv
<1>12. CASE pass = "recv"
  <2>1. SenderInv'
    BY SMT, <1>1, <1>2, <1>12 DEF SenderInv
  <2>2. SentInv'
    BY SMT, <1>1, <1>2, <1>3, <1>12 DEF SentInv, Traced, TraceFits, Arrived, Long
  <2>3. w = u + (IF n + 1 = pkt.field THEN stored ELSE 0) + (IF n + 1 = hit THEN delta ELSE 0)
    <3>1. w = Arrived(n + 1)
      BY SMT, <1>1, <1>4, <1>12 DEF SentInv, w
    <3> QED
      BY SMT, <3>1 DEF Arrived
  <2>4. trace[n + 1] = trace[n] + u
    <3>1. Traced(Words) /\ n \in 0..Words - 1
      BY SMT, <1>1, <1>3, <1>4, <1>12 DEF SentInv, ControlInv
    <3> QED
      BY SMT, <3>1 DEF Traced
  <2>5. sum = trace[n] + (IF pkt.field <= n THEN stored ELSE 0) + (IF hit <= n THEN delta ELSE 0)
    BY SMT, <1>1, <1>12 DEF ReceiverInv
  <2>6. trace[n] \in Nat /\ trace[n + 1] \in Nat
    BY SMT, <1>3, <1>4
  <2> HIDE DEF u
  <2>7. sum' = trace[n + 1] + (IF pkt.field <= n + 1 THEN stored ELSE 0)
                            + (IF hit <= n + 1 THEN delta ELSE 0)
    <3> DEFINE a == IF pkt.field <= n THEN stored ELSE 0
               b == IF n + 1 = pkt.field THEN stored ELSE 0
               c == IF hit <= n THEN delta ELSE 0
               d == IF n + 1 = hit THEN delta ELSE 0
    <3>1. a \in Int /\ b \in Int /\ (IF pkt.field <= n + 1 THEN stored ELSE 0) = a + b
      BY SMT, <1>3, <1>4, <1>6
    <3>2. c \in Int /\ d \in Int /\ (IF hit <= n + 1 THEN delta ELSE 0) = c + d
      BY SMT, <1>4
    <3>3. sum = trace[n] + a + c /\ w = u + b + d
      BY SMT, <2>3, <2>5
    <3>4. sum' = sum + w
      BY SMT, <1>2
    <3> HIDE DEF a, b, c, d
    <3>5. sum' = trace[n + 1] + (a + b) + (c + d)
      BY SMT, <1>5, <2>4, <2>6, <3>1, <3>2, <3>3, <3>4
    <3> QED
      BY SMT, <3>1, <3>2, <3>5
  <2>8. ReceiverInv'
    BY SMT, <1>2, <1>12, <2>7 DEF ReceiverInv
  <2> QED
    BY SMT, <1>7, <1>8, <1>9, <1>10, <2>1, <2>2, <2>8 DEF IInv
<1>13. pass = "send" \/ pass = "recv"
  BY Zenon, <1>1 DEF TypeOK
<1> QED
  BY SMT, <1>11, <1>12, <1>13

(* A turn of the loop of __fgen_raw_cksum adds one whole word. *)
LEMMA SumWordInv == IInv /\ SumWord => IInv'
<1> SUFFICES ASSUME IInv, SumWord PROVE IInv'
  OBVIOUS
<1>1. TypeOK
  BY Zenon DEF IInv
<1>2. pc = "sum" /\ pkt.len - 2 * n >= 2 /\ Add(WordAt(buf, pkt.len, n + 1))
  BY Zenon DEF SumWord
<1>3. n < Words
  <2>1. n \in Nat /\ pkt.len \in Nat
    BY SMT, <1>1, StateWords DEF TypeOK, Words
  <2> QED
    BY SMT, <1>2, <2>1 DEF Words, WordCount
<1> QED
  BY Zenon, <1>2, <1>3, AddInv

(* The last byte of an odd length is a word padded with zero. *)
LEMMA SumOddByteInv == IInv /\ SumOddByte => IInv'
<1> SUFFICES ASSUME IInv, SumOddByte PROVE IInv'
  OBVIOUS
<1>1. TypeOK
  BY Zenon DEF IInv
<1>2. pc = "sum" /\ pkt.len - 2 * n = 1 /\ Add(WordAt(buf, pkt.len, n + 1))
  BY Zenon DEF SumOddByte
<1>3. n < Words
  <2>1. n \in Nat /\ pkt.len \in Nat
    BY SMT, <1>1, StateWords DEF TypeOK, Words
  <2> QED
    BY SMT, <1>2, <2>1 DEF Words, WordCount
<1> QED
  BY Zenon, <1>2, <1>3, AddInv

(* The receiver compares: arithmetic modulo 65535 decides the verdict. *)
LEMMA CompareInv ==
  ASSUME IInv, pass = "recv", NEW raw,
         Return(raw), UNCHANGED <<pkt, pass, n, sum, hit, delta, trace>>,
         raw = 65535 <=> Long(pkt) /\ delta \in {-65535, 0, 65535}
  PROVE  IInv'
<1>1. TypeOK /\ ControlInv /\ SenderInv /\ SentInv /\ SumFits
  BY SMT DEF IInv
<1>2. /\ pc' = "done" /\ stored' = stored /\ buf' = buf
      /\ verdict' = IF raw = 65535 THEN 0 ELSE -1
  BY SMT DEF Return
<1>3. UNCHANGED <<pkt, pass, n, sum, hit, delta, trace>>
  OBVIOUS
<1>4. TypeOK'
  BY SMT, <1>1, <1>2, <1>3 DEF TypeOK
<1>5. ControlInv' /\ SenderInv'
  BY SMT, <1>1, <1>2, <1>3 DEF ControlInv, DeltaFits, SenderInv
<1>6. SentInv'
  BY SMT, <1>1, <1>2, <1>3 DEF SentInv, Words, Traced, TraceFits, Arrived, Long
<1>7. ReceiverInv'
  BY SMT, <1>2 DEF ReceiverInv
<1>8. VerdictTells'
  BY SMT, <1>2, <1>3 DEF VerdictTells, Long
<1>9. SumFits'
  BY SMT, <1>1, <1>3 DEF SumFits
<1> QED
  BY SMT, <1>4, <1>5, <1>6, <1>7, <1>8, <1>9 DEF IInv

(* A length below the header's gives no sum at all. *)
LEMMA TooShortInv == IInv /\ TooShort => IInv'
<1> SUFFICES ASSUME IInv, TooShort PROVE IInv'
  OBVIOUS
<1>1. TypeOK
  BY Zenon DEF IInv
<1>2. /\ pc = "entry" /\ pkt.part = "l4" /\ pkt.l3len < pkt.hlen /\ Return(0)
      /\ UNCHANGED <<pkt, pass, n, sum, hit, delta, trace>>
  BY SMT DEF TooShort
<1>3. ~Long(pkt)
  BY SMT, <1>1, <1>2, StatePacket, PacketFacts DEF Long
<1>4. Result = 0 /\ Result \in Word16
  BY SMT, <1>3, Bounds DEF Result, Word16
<1>5. CASE pass = "send"
  BY SMT, <1>2, <1>3, <1>4, <1>5, StoreInv
<1>6. CASE pass = "recv"
  BY SMT, <1>2, <1>3, <1>6, CompareInv
<1>7. pass = "send" \/ pass = "recv"
  BY Zenon, <1>1 DEF TypeOK
<1> QED
  BY SMT, <1>5, <1>6, <1>7

(* The end of a sum: the sender stores it, the receiver judges it. *)
LEMMA SumDoneInv == IInv /\ SumDone => IInv'
<1> SUFFICES ASSUME IInv, SumDone PROVE IInv'
  OBVIOUS
<1>1. TypeOK /\ ControlInv /\ SenderInv /\ SentInv /\ ReceiverInv /\ SumFits
  BY Zenon DEF IInv
<1>2. /\ pc = "sum" /\ n = Words /\ Return(Raw(pkt, sum))
      /\ UNCHANGED <<pkt, pass, n, sum, hit, delta, trace>>
  BY SMT DEF SumDone, Words
<1>3. Long(pkt) /\ IsPacket(pkt)
  BY Zenon, <1>1, <1>2, StatePacket DEF ControlInv
<1>4. /\ Words \in Nat /\ Words <= 32768
      /\ pkt.field \in Nat /\ pkt.field <= Words
  BY SMT, <1>1, StateWords
<1>5. sum \in Nat /\ sum <= 65535 * Words /\ sum < 4294967296
  BY SMT, <1>1, <1>2, <1>4 DEF TypeOK, SumFits
<1>6. Raw(pkt, sum) \in Nat /\ Raw(pkt, sum) <= 65535
  BY SMT, <1>3, <1>5, RawFacts
<1>7. CASE pass = "send"
  <2>1. sum = trace[Words] /\ Traced(Words)
    BY SMT, <1>1, <1>2, <1>7 DEF SenderInv
  <2>2. TraceFits
    BY SMT, <1>5, <2>1 DEF TraceFits
  <2>3. Result = Raw(pkt, sum)
    BY SMT, <1>3, <2>1 DEF Result
  <2>4. Result \in Word16
    BY SMT, <1>6, <2>3, Bounds DEF Word16
  <2> QED
    BY SMT, <1>2, <1>7, <2>1, <2>2, <2>3, <2>4, StoreInv
<1>8. CASE pass = "recv"
  <2> DEFINE S == trace[Words]
             raw == Raw(pkt, S)
             raw2 == Raw(pkt, sum)
             E == Extra(pkt)
  <2>1. S \in Nat /\ S < 4294967296
    <3>1. S \in Nat
      BY SMT, <1>1, <1>4 DEF TypeOK, Words
    <3>2. S <= 65535 * Words
      BY SMT, <1>1, <1>3, <1>8 DEF SentInv, TraceFits
    <3> QED
      BY SMT, <1>4, <3>1, <3>2
  <2>2. stored = Complement(pkt, raw)
    BY SMT, <1>1, <1>3, <1>8 DEF SentInv
  <2>3. E \in Nat /\ raw \in Nat /\ raw <= 65535
    BY SMT, <1>3, <2>1, RawFacts
  <2>4. PICK q \in Nat : S + E = raw + 65535 * q
    BY SMT, <1>3, <2>1, <2>3, RawFacts
  <2>5. raw2 \in Nat /\ raw2 <= 65535 /\ (sum + E > 0 => raw2 > 0)
    BY SMT, <1>3, <1>5, RawFacts
  <2>6. PICK q2 \in Nat : sum + E = raw2 + 65535 * q2
    BY SMT, <1>3, <1>5, <2>5, RawFacts
  <2>7. /\ stored \in Nat
        /\ stored = 65535 - raw \/ (raw = 65535 /\ stored = 65535)
    BY SMT, <2>2, <2>3, ComplementFacts
  <2>8. delta \in Int /\ -65535 <= delta /\ delta <= 65535 /\ hit \in Nat /\ hit <= Words
    BY SMT, <1>1, <1>4 DEF TypeOK, Words, ControlInv, DeltaFits
  <2>9. E > 0 \/ delta = 0
    <3>1. CASE pkt.part = "ip"
      BY SMT, <1>1, <3>1 DEF ControlInv
    <3>2. CASE pkt.part = "l4"
      <4>1. Extra(pkt) \in Nat /\ Extra(pkt) > 0
        BY SMT, <1>3, <3>2, PhdrFacts DEF Extra, Long
      <4> QED
        BY SMT, <4>1
    <3>3. pkt.part = "ip" \/ pkt.part = "l4"
      BY SMT, <1>3, PacketFacts
    <3> QED
      BY SMT, <3>1, <3>2, <3>3
  <2>10. sum = S + stored + delta
    BY SMT, <1>1, <1>2, <1>4, <1>8, <2>8 DEF ReceiverInv
  <2> HIDE DEF S, raw, raw2, E
  <2>11. raw2 = 65535 <=> delta \in {-65535, 0, 65535}
    BY SMT, <1>5, <2>1, <2>3, <2>4, <2>5, <2>6, <2>7, <2>8, <2>9, <2>10, VerdictArith
  <2>12. Return(raw2)
    BY SMT, <1>2 DEF raw2
  <2> QED
    BY SMT, <1>2, <1>3, <1>8, <2>11, <2>12, CompareInv
<1>9. pass = "send" \/ pass = "recv"
  BY Zenon, <1>1 DEF TypeOK
<1> QED
  BY SMT, <1>7, <1>8, <1>9

(* The invariant only reads the variables. *)
LEMMA StutterInv == IInv /\ UNCHANGED vars => IInv'
<1> SUFFICES ASSUME IInv, UNCHANGED vars PROVE IInv'
  OBVIOUS
<1>1. UNCHANGED <<pkt, buf, pc, pass, n, sum, stored, verdict, hit, delta, trace>>
  BY SMT DEF vars
<1>2. TypeOK' /\ ControlInv' /\ SenderInv'
  BY SMT, <1>1 DEF IInv, TypeOK, ControlInv, DeltaFits, SenderInv, Traced, Long
<1>3. SentInv'
  BY SMT, <1>1 DEF IInv, SentInv, Words, Traced, TraceFits, Arrived, Long
<1>4. ReceiverInv' /\ SumFits' /\ VerdictTells'
  BY SMT, <1>1 DEF IInv, ReceiverInv, SumFits, VerdictTells
<1> QED
  BY SMT, <1>2, <1>3, <1>4 DEF IInv

(* Every step keeps the invariant, one lemma an action. *)
LEMMA NextInv == IInv /\ [Next]_vars => IInv'
<1> SUFFICES ASSUME IInv, [Next]_vars PROVE IInv'
  OBVIOUS
<1>1. CASE TooShort
  BY Zenon, <1>1, TooShortInv
<1>2. CASE Enter
  BY Zenon, <1>2, EnterInv
<1>3. CASE SumWord
  BY Zenon, <1>3, SumWordInv
<1>4. CASE SumOddByte
  BY Zenon, <1>4, SumOddByteInv
<1>5. CASE SumDone
  BY Zenon, <1>5, SumDoneInv
<1>6. CASE Deliver
  BY Zenon, <1>6, DeliverInv
<1>7. CASE \E i \in 1..WordCount(pkt.len), v \in Noise : Damage(i, v)
  BY Zenon, <1>7, DamageInv
<1>8. CASE UNCHANGED vars
  BY Zenon, <1>8, StutterInv
<1> QED
  BY Zenon, <1>1, <1>2, <1>3, <1>4, <1>5, <1>6, <1>7, <1>8 DEF Next

(* The invariant holds throughout. *)
LEMMA ChecksumInvariant == Spec => []IInv
BY InitInv, NextInv, PTL DEF Spec

(* The types hold in every state. *)
THEOREM ChecksumTypeCorrect == Spec => []TypeOK
<1>1. IInv => TypeOK
  BY Zenon DEF IInv
<1> QED
  BY <1>1, ChecksumInvariant, PTL

(* The accumulator of __fgen_raw_cksum never wraps, whatever the packet of *)
(* at most 65535 bytes.                                                    *)
THEOREM ChecksumSumFits == Spec => []SumFits
<1>1. IInv => SumFits
  BY Zenon DEF IInv
<1> QED
  BY <1>1, ChecksumInvariant, PTL

(* fgen_ipv4_udptcp_cksum_verify accepts every checksum that the sender's  *)
(* routines store and rejects every visible change of one word, for every  *)
(* packet and every change.                                                *)
THEOREM ChecksumVerdictTells == Spec => []VerdictTells
<1>1. IInv => VerdictTells
  BY Zenon DEF IInv
<1> QED
  BY <1>1, ChecksumInvariant, PTL

(* No UDP packet, and no TCP packet over IPv6, is sent with a checksum of  *)
(* zero, for every packet.                                                 *)
THEOREM ChecksumZeroMeansNone == Spec => []ZeroMeansNone
<1>1. IInv => ZeroMeansNone
  <2> SUFFICES ASSUME IInv, pc \in {"sent", "done"}, pkt.part = "l4",
                      pkt.v6 \/ pkt.proto = IPPROTO_UDP
               PROVE  stored # 0
    BY SMT DEF ZeroMeansNone
  <2>1. TypeOK /\ ControlInv /\ SentInv
    BY Zenon DEF IInv
  <2>2. stored = Complement(pkt, Result)
    BY SMT, <2>1 DEF ControlInv, SentInv, Result
  <2>3. Result \in Nat /\ Result <= 65535
    <3>1. CASE ~Long(pkt)
      BY SMT, <3>1 DEF Result
    <3>2. CASE Long(pkt)
      <4>1. Words \in Nat /\ Words <= 32768
        BY SMT, <2>1, StateWords
      <4>2. trace[Words] \in Nat
        BY SMT, <2>1, <4>1 DEF TypeOK, Words
      <4>3. trace[Words] <= 65535 * Words
        BY SMT, <2>1, <3>2 DEF ControlInv, SentInv, TraceFits
      <4>4. trace[Words] < 4294967296
        BY SMT, <4>1, <4>2, <4>3
      <4>5. IsPacket(pkt)
        BY SMT, <2>1, StatePacket
      <4>6. Raw(pkt, trace[Words]) \in Nat /\ Raw(pkt, trace[Words]) <= 65535
        BY SMT, <3>2, <4>2, <4>4, <4>5, RawFacts
      <4> QED
        BY SMT, <3>2, <4>6 DEF Result
    <3> QED
      BY SMT, <3>1, <3>2
  <2> QED
    BY SMT, <2>2, <2>3 DEF Complement
<1> QED
  BY <1>1, ChecksumInvariant, PTL
=============================================================================
