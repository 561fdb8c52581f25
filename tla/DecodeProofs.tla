---------------------------- MODULE DecodeProofs ----------------------------
(***************************************************************************)
(* Proofs about the decoder, for any frames, lengths of pieces, slack and  *)
(* greatest length of a text.  The inductive invariants:                   *)
(*   - BufferInv: what _append keeps of the buffer over any sequence of    *)
(*     calls; it adds that without a buffer there is no text, and that     *)
(*     pieces are appended during a call only;                             *)
(*   - Walk: where in the frame the handlers are.  A handler's header is   *)
(*     at data_off, and the time stamp is looked for behind the last one;  *)
(*   - Order: when nothing was lost, the pieces printed and those yet to   *)
(*     be printed continue each other, and what of them can be a time      *)
(*     stamp or Payload, by the handler that runs next.                    *)
(***************************************************************************)
EXTENDS Decode, TLAPS

BufferInv ==
  /\ TextInBuffer
  /\ OneBuffer
  /\ buf_len = 0 => text = <<>> /\ used = 0
  /\ ~Running => todo = <<>>
  /\ Running => made

HeaderHandlers == {"Ether", "Dot1q", "Dot1ad", "IPv4", "IPv6", "UDP", "TCP"}
OnWire(handler) == IF handler \in {"Dot1q", "Dot1ad"} THEN "Vlan" ELSE handler

Walk ==
  /\ Running => frame \in Frames
  /\ at \in HeaderHandlers =>
       data_off \in DOMAIN frame.hdrs /\ frame.hdrs[data_off].typ = OnWire(at)
  /\ at = "TSC" => \E off \in DOMAIN frame.hdrs : IsLast(frame, off) /\ data_off = EndOf(frame, off)

(* A piece printed by the handler, in the text or yet to be appended. *)
Has(by) == (\E k \in DOMAIN text : text[k].by = by) \/ (\E k \in DOMAIN todo : todo[k].by = by)

Order ==
  Running /\ ~lost =>
    /\ Chained(text) /\ Chained(todo)
    /\ text # <<>> /\ todo # <<>> => Link(text[Len(text)], todo[1])
    /\ at # "ok" => ~Has("Payload")
    /\ at = "ok" => IF todo = <<>> THEN text # <<>> /\ text[Len(text)].by = "Payload"
                    ELSE todo[Len(todo)].by = "Payload"
    /\ at \in HeaderHandlers \union {"TSC"} => ~Has("TSC")
    /\ at \in {"Raw", "Payload", "ok"} => (Has("TSC") <=> StampBehind(frame))

DecodeInv == TypeOK /\ BufferInv /\ Walk /\ Order

-----------------------------------------------------------------------------
(* The pieces a handler prints: its own, numbered from 1. *)
LEMMA PiecesOf ==
  ASSUME NEW by \in Printers, NEW lens \in Seq(Nat)
  PROVE  /\ Pieces(by, lens) \in Seq(Piece) /\ Len(Pieces(by, lens)) = Len(lens)
         /\ DOMAIN Pieces(by, lens) = 1..Len(lens)
         /\ \A k \in 1..Len(lens) : Pieces(by, lens)[k].by = by /\ Pieces(by, lens)[k].i = k
<1> DEFINE P == [i \in 1..Len(lens) |-> [by |-> by, i |-> i, len |-> lens[i]]]
<1>1. Pieces(by, lens) = P
  BY DEF Pieces
<1>2. P \in [1..Len(lens) -> Piece] /\ Len(lens) \in Nat
  BY DEF Piece
<1>3. P \in Seq(Piece) /\ Len(P) = Len(lens)
  BY <1>2
<1> QED BY <1>1, <1>3

(* A header's size is one of a few numbers. *)
LEMMA SizeInNat == \A typ \in HdrTypes \union {"TSC"} : Size(typ) \in Nat
BY DEF HdrTypes, Size

(* What the constants are. *)
LEMMA Bounds ==
  /\ FGEN_EXTRA_SPACE \in Nat /\ FGEN_EXTRA_SPACE > 0 /\ FGEN_MAX_FSTR_LEN \in Nat
  /\ 4 * FGEN_EXTRA_SPACE \in Nat /\ 4 * FGEN_EXTRA_SPACE > FGEN_EXTRA_SPACE
  /\ 4 * FGEN_EXTRA_SPACE <= FGEN_MAX_FSTR_LEN /\ 0 < FGEN_MAX_FSTR_LEN
  /\ MaxFail \in Nat /\ UINT16_MAX \in Nat
BY BoundsAssumption DEF UINT16_MAX

(* An empty decoder: no text and no buffer. *)
LEMMA Emptied ==
  ASSUME text' = <<>>, used' = 0, buf_len' = 0, heap' = 0, todo' = <<>>, Running' => made'
  PROVE  BufferInv'
<1>1. DOMAIN text' = {}
  OBVIOUS
<1>2. PiecesAdjoin'
  BY <1>1 DEF PiecesAdjoin
<1> QED BY <1>2, Bounds DEF BufferInv, TextInBuffer, OneBuffer

(* Before the first call there is no decoder and no buffer. *)
LEMMA InitOK == Init => DecodeInv
<1> SUFFICES ASSUME Init PROVE DecodeInv
  OBVIOUS
<1>1. TypeOK
  <2>1. todo \in Seq(Piece) /\ text \in Seq(Placed)
    BY DEF Init
  <2>2. frame \in Frames \union {NoFrame} /\ fails \in 0..MaxFail /\ data_off \in 0..UINT16_MAX
    BY Bounds DEF Init
  <2>3. made \in BOOLEAN /\ lost \in BOOLEAN
    BY DEF Init
  <2> QED BY <2>1, <2>2, <2>3 DEF Init, TypeOK
<1>2. BufferInv
  <2>1. DOMAIN text = {}
    BY DEF Init
  <2>2. PiecesAdjoin
    BY <2>1 DEF Init, PiecesAdjoin
  <2> QED BY <2>2, Bounds DEF Init, BufferInv, TextInBuffer, OneBuffer, Running
<1>3. Walk /\ Order
  BY DEF Init, Walk, Order, Running, HeaderHandlers
<1> QED BY <1>1, <1>2, <1>3 DEF DecodeInv

-----------------------------------------------------------------------------
(* _append: one piece goes from todo to the text. *)
Placing == [by |-> Head(todo).by, i |-> Head(todo).i, len |-> Head(todo).len, pos |-> used]

(* What _append takes from the front of the pieces to print, and what      *)
(* adding it leaves of the two sequences.                                  *)
LEMMA PutFacts ==
  ASSUME TypeOK, todo # <<>>
  PROVE  /\ Head(todo) \in Piece /\ Head(todo) = todo[1] /\ Placing \in Placed
         /\ Tail(todo) \in Seq(Piece) /\ Len(Tail(todo)) = Len(todo) - 1
         /\ \A k \in 1..Len(todo) - 1 : Tail(todo)[k] = todo[k + 1]
         /\ Append(text, Placing) \in Seq(Placed)
         /\ Len(Append(text, Placing)) = Len(text) + 1
         /\ \A k \in 1..Len(text) : Append(text, Placing)[k] = text[k]
         /\ Append(text, Placing)[Len(text) + 1] = Placing
<1>1. todo \in Seq(Piece) /\ text \in Seq(Placed) /\ used \in Nat
  BY DEF TypeOK
<1>2. Head(todo) \in Piece /\ Head(todo) = todo[1]
  BY <1>1
<1>3. Placing \in Placed
  BY <1>1, <1>2 DEF Placing, Piece, Placed
<1> HIDE DEF Placing
<1> QED BY <1>1, <1>2, <1>3

(* A piece put behind the text, in a buffer of n bytes that has room for   *)
(* it and for the slack.                                                   *)
LEMMA PutKeepsBuffer ==
  ASSUME TypeOK, BufferInv, Appending, todo' = Tail(todo), Put, NewBuffer, buf_len' \in Nat,
         Needs <= buf_len', buf_len' < FGEN_MAX_FSTR_LEN \/ buf_len' = 4 * FGEN_EXTRA_SPACE,
         UNCHANGED <<lost, fails>>
  PROVE  TypeOK' /\ BufferInv'
<1>1. /\ todo # <<>> /\ text' = Append(text, Placing) /\ used' = used + Head(todo).len
      /\ Running /\ made /\ made' /\ Running'
  BY DEF Appending, Put, Placing, BufferInv, Running
<1>2. /\ used \in Nat /\ Head(todo).len \in Nat /\ used' \in Nat /\ buf_len \in Nat
      /\ used' + FGEN_EXTRA_SPACE <= buf_len' /\ buf_len' > 0
  BY SMTT(30), <1>1, PutFacts, Bounds DEF TypeOK, Piece, Needs
<1>3. heap' = 1
  BY Bounds DEF NewBuffer, BufferInv, OneBuffer, TypeOK
<1>4. TypeOK'
  BY <1>1, <1>2, <1>3, PutFacts DEF TypeOK, Appending
<1>5. PiecesAdjoin'
  <2> DEFINE n == Len(text)
  <2>1. n \in Nat /\ text \in Seq(Placed) /\ DOMAIN text = 1..n
    BY DEF TypeOK
  <2>2. /\ text' \in Seq(Placed) /\ Len(text') = n + 1 /\ DOMAIN text' = 1..n + 1
        /\ text'[n + 1] = Placing
        /\ \A k \in 1..n : text'[k] = text[k]
    BY <1>1, <2>1, PutFacts
  <2>3. PiecesAdjoin
    BY DEF BufferInv, TextInBuffer
  <2>4. Placing.pos = used /\ Placing.len = Head(todo).len
    BY DEF Placing
  <2>5. text' # <<>> /\ text'[1].pos = 0
    BY <2>1, <2>2, <2>3, <2>4 DEF PiecesAdjoin
  <2>6. ASSUME NEW k \in 1..n + 1
        PROVE  text'[k].pos + text'[k].len = IF k = n + 1 THEN used' ELSE text'[k + 1].pos
    <3>1. CASE k = n + 1
      BY <1>1, <2>2, <2>4, <3>1, Zenon
    <3>2. CASE k = n
      <4>1. k \in 1..n /\ k # n + 1
        <5> HIDE DEF n
        <5> QED BY <2>1, <3>2
      <4>2. text[k].pos + text[k].len = used
        BY <2>1, <2>3, <3>2, <4>1, Zenon DEF PiecesAdjoin
      <4>3. text'[k + 1].pos = used /\ text'[k] = text[k]
        BY <2>2, <2>4, <3>2, <4>1, Zenon
      <4> QED BY <4>1, <4>2, <4>3, Zenon
    <3>3. CASE k < n
      BY <2>1, <2>2, <2>3, <3>3 DEF PiecesAdjoin
    <3>4. k = n + 1 \/ k = n \/ k < n
      <4> HIDE DEF n
      <4> QED BY <2>1
    <3> QED BY <3>1, <3>2, <3>3, <3>4, Zenon
  <2> QED BY <2>2, <2>5, <2>6 DEF PiecesAdjoin
<1>6. BufferInv'
  BY <1>1, <1>2, <1>3, <1>5 DEF BufferInv, TextInBuffer, OneBuffer
<1> QED BY <1>4, <1>6

(* A piece that is dropped leaves the text as it was; a first buffer that  *)
(* was allocated for it stays.                                             *)
LEMMA DropKeepsBuffer ==
  ASSUME TypeOK, BufferInv, Appending, PieceDropped, lost' = TRUE, fails' \in 0..MaxFail,
         UNCHANGED <<text, used>>,
         \/ NewBuffer /\ buf_len' = Base
         \/ UNCHANGED <<buf_len, heap>>
  PROVE  TypeOK' /\ BufferInv'
<1>1. /\ todo # <<>> /\ todo' \in Seq(Piece) /\ Running /\ made /\ made' /\ Running'
  BY PutFacts DEF Appending, PieceDropped, BufferInv, Running
<1>2. /\ buf_len' \in Nat /\ heap' = (IF buf_len' > 0 THEN 1 ELSE 0)
      /\ buf_len' = buf_len \/ (buf_len = 0 /\ buf_len' = 4 * FGEN_EXTRA_SPACE)
  BY Bounds DEF NewBuffer, Base, BufferInv, OneBuffer, TypeOK
<1>3. TypeOK'
  BY <1>1, <1>2 DEF TypeOK, Appending
<1>4. TextInBuffer'
  BY <1>2 DEF TextInBuffer, BufferInv, PiecesAdjoin, TypeOK
<1>5. BufferInv'
  BY <1>1, <1>2, <1>4 DEF BufferInv, OneBuffer
<1> QED BY <1>3, <1>5

(* Each way through _append. *)
LEMMA AppendKeepsBuffer ==
  ASSUME TypeOK, BufferInv, _append PROVE TypeOK' /\ BufferInv'
<1>1. CASE AppendFits
  <2>1. Base \in Nat /\ Needs <= Base /\ (Base = buf_len \/ Base = 4 * FGEN_EXTRA_SPACE)
        /\ (Base < FGEN_MAX_FSTR_LEN \/ Base = 4 * FGEN_EXTRA_SPACE)
    <3>1. todo # <<>>
      BY <1>1 DEF AppendFits, Appending
    <3>2. Needs \in Nat
      BY SMTT(30), <3>1, PutFacts, Bounds DEF Needs, TypeOK, Piece
    <3> QED BY <1>1, <3>2, Bounds DEF AppendFits, Base, TypeOK, BufferInv, TextInBuffer
  <2> QED BY <1>1, <2>1, PutKeepsBuffer DEF AppendFits
<1>2. CASE AppendGrows
  <2>1. Needs \in Nat /\ Needs < FGEN_MAX_FSTR_LEN
    <3>1. todo # <<>>
      BY <1>2 DEF AppendGrows, Appending
    <3>2. Needs \in Nat
      BY <3>1, PutFacts, Bounds DEF Needs, TypeOK, Piece
    <3> QED BY <1>2, <3>2, Bounds DEF AppendGrows, TooLong
  <2> QED BY <1>2, <2>1, PutKeepsBuffer DEF AppendGrows
<1>3. CASE AppendTooLong
  BY <1>3, DropKeepsBuffer DEF AppendTooLong, TypeOK
<1>4. CASE AppendNoRealloc
  <2>1. fails' \in 0..MaxFail
    BY <1>4, Bounds DEF AppendNoRealloc, TypeOK
  <2> QED BY <1>4, <2>1, DropKeepsBuffer DEF AppendNoRealloc
<1>5. CASE AppendNoBuffer
  <2>1. fails' \in 0..MaxFail
    BY <1>5, Bounds DEF AppendNoBuffer, TypeOK
  <2> QED BY <1>5, <2>1, DropKeepsBuffer DEF AppendNoBuffer
<1> QED BY <1>1, <1>2, <1>3, <1>4, <1>5 DEF _append

(* The empty sequence is the one of length 0. *)
LEMMA EmptyLen ==
  ASSUME NEW S, NEW s \in Seq(S) PROVE Len(s) = 0 <=> s = <<>>
OBVIOUS

(* Of the order: the piece that leaves todo is the one the text ends with. *)
LEMMA PutKeepsOrder ==
  ASSUME TypeOK, BufferInv, Order, Appending, todo' = Tail(todo), Put, lost' = lost
  PROVE  Order'
<1> SUFFICES ASSUME Running', ~lost' PROVE Order'
  BY DEF Order
<1> DEFINE n == Len(text)
           m == Len(todo)
<1>1. /\ todo # <<>> /\ text' = Append(text, Placing) /\ UNCHANGED <<at, frame>>
      /\ Running /\ ~lost
  BY DEF Appending, Put, Placing, Running
<1>2. /\ n \in Nat /\ m \in Nat /\ m > 0 /\ DOMAIN text = 1..n /\ DOMAIN todo = 1..m
      /\ text' \in Seq(Placed) /\ todo' \in Seq(Piece)
      /\ Len(text') = n + 1 /\ Len(todo') = m - 1
      /\ DOMAIN text' = 1..n + 1 /\ DOMAIN todo' = 1..m - 1
    BY <1>1, PutFacts DEF TypeOK
<1>3. /\ \A k \in 1..n : text'[k] = text[k]
      /\ text'[n + 1] = Placing
      /\ \A k \in 1..m - 1 : todo'[k] = todo[k + 1]
  BY <1>1, PutFacts
<1>4. Placing.by = todo[1].by /\ Placing.i = todo[1].i
  BY <1>1, PutFacts DEF Placing
<1>5. /\ Chained(text) /\ Chained(todo)
      /\ text # <<>> => Link(text[n], todo[1])
  BY <1>1 DEF Order
<1>6. (n = 0 <=> text = <<>>) /\ (m - 1 = 0 <=> todo' = <<>>) /\ text' # <<>>
  <2>1. n = 0 <=> text = <<>>
    BY EmptyLen DEF TypeOK
  <2>2. Len(todo') = 0 <=> todo' = <<>>
    BY <1>2, EmptyLen
  <2>3. Len(text') = 0 <=> text' = <<>>
    BY <1>2, EmptyLen
  <2> HIDE DEF n, m
  <2> QED BY <1>2, <2>1, <2>2, <2>3
<1> HIDE DEF n, m
<1>7. Chained(text')
  <2> SUFFICES ASSUME NEW k \in 1..n PROVE Link(text'[k], text'[k + 1])
    BY <1>2 DEF Chained
  <2>1. CASE k = n
    <3>1. text # <<>> /\ text'[k] = text[n] /\ text'[k + 1] = Placing
      BY <1>2, <1>3, <1>6, <2>1
    <3> QED BY <1>4, <1>5, <3>1 DEF Link
  <2>2. CASE k # n
    <3>1. k \in 1..n - 1 /\ k + 1 \in 1..n
      BY <1>2, <2>2
    <3>2. Link(text[k], text[k + 1])
      BY <1>5, <3>1 DEF Chained, n
    <3> QED BY <1>3, <3>1, <3>2
  <2> QED BY <2>1, <2>2
<1>8. Chained(todo')
  <2> SUFFICES ASSUME NEW k \in 1..m - 2 PROVE Link(todo'[k], todo'[k + 1])
    BY <1>2 DEF Chained
  <2>1. k \in 1..m - 1 /\ k + 1 \in 1..m - 1
    BY <1>2
  <2>2. Link(todo[k + 1], todo[k + 1 + 1])
    BY <1>5, <2>1 DEF Chained, m
  <2> QED BY <1>3, <2>1, <2>2
<1>9. todo' # <<>> => Link(text'[n + 1], todo'[1])
  <2> SUFFICES ASSUME todo' # <<>> PROVE Link(Placing, todo'[1])
    BY <1>3
  <2>1. 1 \in 1..m - 1 /\ 1 + 1 = 2
    BY <1>2, <1>6
  <2>2. Link(todo[1], todo[2]) /\ todo'[1] = todo[2]
    BY <1>3, <1>5, <2>1 DEF Chained, m
  <2> QED BY <1>4, <2>2 DEF Link
<1>10. ASSUME NEW by PROVE Has(by)' <=> Has(by)
  <2>1. ASSUME Has(by)' PROVE Has(by)
    <3>1. CASE \E k \in 1..n + 1 : text'[k].by = by
      <4>1. PICK k \in 1..n + 1 : text'[k].by = by
        BY <3>1
      <4>2. CASE k = n + 1
        BY <1>2, <1>3, <1>4, <4>1, <4>2 DEF Has
      <4>3. CASE k # n + 1
        BY <1>2, <1>3, <4>1, <4>3 DEF Has
      <4> QED BY <4>2, <4>3
    <3>2. CASE \E k \in 1..m - 1 : todo'[k].by = by
      <4>1. PICK k \in 1..m - 1 : todo'[k].by = by
        BY <3>2
      <4>2. k + 1 \in 1..m /\ todo[k + 1].by = by
        BY <1>2, <1>3, <4>1
      <4> QED BY <1>2, <4>2 DEF Has
    <3> QED BY <1>2, <2>1, <3>1, <3>2 DEF Has
  <2>2. ASSUME Has(by) PROVE Has(by)'
    <3>1. CASE \E k \in 1..n : text[k].by = by
      BY <1>2, <1>3, <3>1 DEF Has
    <3>2. CASE \E k \in 1..m : todo[k].by = by
      <4>1. PICK k \in 1..m : todo[k].by = by
        BY <3>2
      <4>2. CASE k = 1
        BY <1>2, <1>3, <1>4, <4>1, <4>2 DEF Has
      <4>3. CASE k # 1
        <5>1. k - 1 \in 1..m - 1 /\ (k - 1) + 1 = k
          BY <1>2, <4>3
        <5>2. todo'[k - 1].by = by
          BY <1>3, <4>1, <5>1
        <5> QED BY <1>2, <5>1, <5>2 DEF Has
      <4> QED BY <4>2, <4>3
    <3> QED BY <1>2, <2>2, <3>1, <3>2 DEF Has
  <2> QED BY <2>1, <2>2
<1>11. at = "ok" => IF todo' = <<>> THEN text'[n + 1].by = "Payload"
                    ELSE todo'[Len(todo')].by = "Payload"
  <2> SUFFICES ASSUME at = "ok"
               PROVE  IF todo' = <<>> THEN Placing.by = "Payload"
                      ELSE todo'[Len(todo')].by = "Payload"
    BY <1>3
  <2>1. todo[m].by = "Payload"
    BY <1>1 DEF Order, m
  <2>2. CASE todo' = <<>>
    BY <1>2, <1>4, <1>6, <2>1, <2>2
  <2>3. CASE todo' # <<>>
    <3>1. m - 1 \in 1..m - 1 /\ (m - 1) + 1 = m
      BY <1>2, <1>6, <2>3
    <3>2. todo'[m - 1] = todo[m]
      BY <1>3, <3>1
    <3>3. Len(todo') = m - 1
      BY <1>2
    <3> QED BY <2>1, <2>3, <3>2, <3>3, Zenon
  <2> QED BY <2>2, <2>3
<1>12. /\ at' # "ok" => ~Has("Payload")'
       /\ at' \in HeaderHandlers \union {"TSC"} => ~Has("TSC")'
       /\ at' \in {"Raw", "Payload", "ok"} => (Has("TSC")' <=> StampBehind(frame'))
  <2>1. /\ at # "ok" => ~Has("Payload")
        /\ at \in HeaderHandlers \union {"TSC"} => ~Has("TSC")
        /\ at \in {"Raw", "Payload", "ok"} => (Has("TSC") <=> StampBehind(frame))
    BY <1>1, Zenon DEF Order
  <2> QED BY <1>1, <1>10, <2>1, Zenon
<1>13. at' = at /\ Len(text') = n + 1 /\ text' # <<>>
  BY <1>1, <1>2, <1>6
<1> QED BY <1>7, <1>8, <1>9, <1>11, <1>12, <1>13, Zenon DEF Order

(* _append does not move in the frame. *)
LEMMA AppendOK ==
  ASSUME DecodeInv, _append PROVE DecodeInv'
<1> USE DEF DecodeInv
<1>1. TypeOK' /\ BufferInv'
  BY AppendKeepsBuffer
<1>2. UNCHANGED <<at, frame, data_off>>
  BY DEF _append, AppendFits, AppendGrows, AppendTooLong, AppendNoRealloc, AppendNoBuffer, Appending
<1>3. Walk'
  BY <1>2 DEF Walk, Running
<1>4. CASE AppendFits \/ AppendGrows
  <2>1. Order'
    BY <1>4, PutKeepsOrder DEF AppendFits, AppendGrows
  <2> QED BY <1>1, <1>3, <2>1
<1>5. CASE AppendTooLong \/ AppendNoRealloc \/ AppendNoBuffer
  <2>1. lost'
    BY <1>5 DEF AppendTooLong, AppendNoRealloc, AppendNoBuffer
  <2> QED BY <1>1, <1>3, <2>1 DEF Order
<1> QED BY <1>4, <1>5 DEF _append

-----------------------------------------------------------------------------
(* A handler that is entered with nothing left to append has the pieces of *)
(* by to print, and next runs after it.                                    *)
Entered(by, lens, next) ==
  /\ Running /\ todo = <<>>
  /\ todo' = Pieces(by, lens) /\ at' = next
  /\ UNCHANGED <<made, frame, bufVars, ret>>

(* A handler that is entered only queues pieces: the buffer stays as it    *)
(* was.                                                                    *)
LEMMA EnteredKeepsBuffer ==
  ASSUME TypeOK, BufferInv, NEW by \in Printers, NEW lens \in Seq(Nat),
         NEW next \in Printers \union {"ok", "error"}, Entered(by, lens, next),
         data_off' \in 0..UINT16_MAX
  PROVE  TypeOK' /\ BufferInv'
<1>1. todo' \in Seq(Piece) /\ next # "idle"
  BY PiecesOf DEF Entered, Printers
<1>2. TypeOK'
  BY <1>1 DEF TypeOK, Entered, bufVars
<1>3. TextInBuffer' /\ OneBuffer'
  BY DEF BufferInv, TextInBuffer, PiecesAdjoin, OneBuffer, Entered, bufVars
<1>4. BufferInv'
  BY <1>1, <1>3 DEF BufferInv, Entered, bufVars, Running
<1> QED BY <1>2, <1>4

(* What is printed then is what was printed before it, and by. *)
LEMMA EnteredPrints ==
  ASSUME TypeOK, Order, ~lost, at # "ok",
         NEW by \in Printers, NEW lens \in Seq(Nat), NEW next, Entered(by, lens, next)
  PROVE  /\ Chained(text') /\ Chained(todo')
         /\ text' # <<>> /\ todo' # <<>> => Link(text'[Len(text')], todo'[1])
         /\ \A b : Has(b)' <=> Has(b) \/ (b = by /\ lens # <<>>)
         /\ todo' # <<>> => todo'[Len(todo')].by = by
         /\ todo' = <<>> <=> lens = <<>>
<1> DEFINE n == Len(lens)
<1>1. /\ todo' \in Seq(Piece) /\ Len(todo') = n /\ DOMAIN todo' = 1..n /\ n \in Nat
      /\ \A k \in 1..n : todo'[k].by = by /\ todo'[k].i = k
  BY PiecesOf DEF Entered
<1>2. /\ text' = text /\ text \in Seq(Placed) /\ todo = <<>> /\ Running
      /\ DOMAIN text = 1..Len(text) /\ Len(text) \in Nat /\ DOMAIN todo = {}
  BY DEF Entered, bufVars, TypeOK
<1>3. Chained(text) /\ ~Has("Payload")
  BY <1>2 DEF Order
<1>4. (n = 0 <=> lens = <<>>) /\ (n = 0 <=> todo' = <<>>)
  BY <1>1, EmptyLen
<1> HIDE DEF n
<1>5. Chained(todo')
  <2> SUFFICES ASSUME NEW k \in 1..n - 1 PROVE Link(todo'[k], todo'[k + 1])
    BY <1>1 DEF Chained
  <2>1. k \in 1..n /\ k + 1 \in 1..n /\ k + 1 # 1
    BY <1>1
  <2> QED BY <1>1, <2>1 DEF Link
<1>6. ASSUME text # <<>>, todo' # <<>> PROVE Link(text[Len(text)], todo'[1])
  <2>1. Len(text) \in DOMAIN text /\ 1 \in 1..n
    BY <1>1, <1>2, <1>4, <1>6, EmptyLen
  <2>2. text[Len(text)].by # "Payload" /\ todo'[1].i = 1
    BY <1>1, <1>3, <2>1 DEF Has
  <2> QED BY <2>2 DEF Link
<1>7. ASSUME NEW b PROVE Has(b)' <=> Has(b) \/ (b = by /\ lens # <<>>)
  <2>1. (\E k \in DOMAIN todo' : todo'[k].by = b) <=> (b = by /\ lens # <<>>)
    <3>1. ASSUME b = by, lens # <<>> PROVE \E k \in DOMAIN todo' : todo'[k].by = b
      <4>1. 1 \in 1..n
        BY <1>1, <1>4, <3>1
      <4> QED BY <1>1, <3>1, <4>1
    <3>2. ASSUME NEW k \in DOMAIN todo', todo'[k].by = b PROVE b = by /\ lens # <<>>
      BY <1>1, <1>4, <3>2
    <3> QED BY <3>1, <3>2
  <2> QED BY <1>2, <2>1 DEF Has
<1>8. ASSUME todo' # <<>> PROVE todo'[Len(todo')].by = by
  <2>1. n \in 1..n
    BY <1>1, <1>4, <1>8
  <2> QED BY <1>1, <2>1
<1> QED BY <1>2, <1>3, <1>4, <1>5, <1>6, <1>7, <1>8

(* A header handler comes to the header behind its own, or it was the last.*)
LEMMA NextHeader ==
  ASSUME NEW f \in Frames, NEW off \in DOMAIN f.hdrs
  PROVE  LET hd == f.hdrs[off] IN
           /\ hd.typ \in HdrTypes /\ hd.proto \in Protos
           /\ off \in Nat /\ EndOf(f, off) \in 0..UINT16_MAX
           /\ Announced(hd) = "none" => IsLast(f, off)
           /\ Announced(hd) # "none" =>
                EndOf(f, off) \in DOMAIN f.hdrs /\ f.hdrs[EndOf(f, off)].typ = Announced(hd)
<1>1. WholeHeaders(f)
  BY FramesAssumption
<1>2. f.hdrs[off].typ \in HdrTypes /\ f.hdrs[off].proto \in Protos /\ off \in Nat
  BY <1>1 DEF WholeHeaders
<1>3. EndOf(f, off) \in 0..UINT16_MAX
  <2>1. f.data_len \in 1..UINT16_MAX
    BY FramesAssumption
  <2>2. EndOf(f, off) \in Nat
    BY <1>2, SizeInNat DEF EndOf
  <2> QED BY <1>1, <2>1, <2>2, Bounds DEF WholeHeaders
<1> QED BY <1>1, <1>2, <1>3 DEF WholeHeaders

(* The step of a header handler. *)
LEMMA HeaderOK ==
  ASSUME DecodeInv, at \in HeaderHandlers, todo = <<>>,
         NEW next \in HeaderHandlers \union {"TSC", "error"},
         Prints(at, Size(OnWire(at)), next),
         next = "TSC" => Announced(frame.hdrs[data_off]) = "none",
         next \in HeaderHandlers => Announced(frame.hdrs[data_off]) = OnWire(next)
  PROVE  DecodeInv'
<1> USE DEF DecodeInv
<1>1. /\ frame \in Frames /\ data_off \in DOMAIN frame.hdrs
      /\ frame.hdrs[data_off].typ = OnWire(at) /\ Running
  BY DEF Walk, Running, HeaderHandlers
<1>2. data_off' = EndOf(frame, data_off) /\ frame' = frame /\ at' = next /\ lost' = lost
  BY <1>1 DEF Prints, EndOf, bufVars
<1>3. at \in Printers /\ next \in Printers \union {"ok", "error"} /\ TextLen[at] \in Seq(Nat)
  <2>1. at \in Printers /\ next \in Printers \union {"ok", "error"}
    BY DEF HeaderHandlers, Printers
  <2> QED BY <2>1, PiecesAssumption
<1>4. Entered(at, TextLen[at], next)
  BY <1>1 DEF Prints, Entered
<1>5. TypeOK' /\ BufferInv'
  <2>1. data_off' \in 0..UINT16_MAX
    BY <1>1, <1>2, NextHeader
  <2> QED BY <1>3, <1>4, <2>1, EnteredKeepsBuffer
<1>6. Walk'
  <2>1. CASE next = "TSC"
    <3>1. IsLast(frame, data_off)
      BY <1>1, <2>1, NextHeader
    <3> QED BY <1>1, <1>2, <2>1, <3>1 DEF Walk, HeaderHandlers
  <2>2. CASE next \in HeaderHandlers
    <3>1. OnWire(next) # "none"
      BY <2>2 DEF OnWire, HeaderHandlers
    <3>2. /\ EndOf(frame, data_off) \in DOMAIN frame.hdrs
          /\ frame.hdrs[EndOf(frame, data_off)].typ = OnWire(next)
      BY <1>1, <2>2, <3>1, NextHeader
    <3> QED BY <1>1, <1>2, <2>2, <3>2 DEF Walk, HeaderHandlers
  <2>3. CASE next = "error"
    BY <1>1, <1>2, <2>3 DEF Walk, HeaderHandlers
  <2> QED BY <2>1, <2>2, <2>3
<1>7. Order'
  <2> SUFFICES ASSUME ~lost PROVE Order'
    BY <1>2 DEF Order
  <2>1. at # "ok" /\ at # "Payload" /\ at # "TSC" /\ ~Has("Payload") /\ ~Has("TSC")
    BY <1>1 DEF Order, HeaderHandlers
  <2>2. /\ Chained(text') /\ Chained(todo')
        /\ text' # <<>> /\ todo' # <<>> => Link(text'[Len(text')], todo'[1])
        /\ ~Has("Payload")' /\ ~Has("TSC")'
    BY <1>3, <1>4, <2>1, EnteredPrints
  <2>3. at' \notin {"Raw", "Payload", "ok"}
    BY <1>2 DEF HeaderHandlers
  <2> QED BY <2>2, <2>3 DEF Order
<1> QED BY <1>5, <1>6, <1>7

(* The handlers of the headers, each with what it calls next. *)
LEMMA HeaderHandlerOK ==
  ASSUME DecodeInv, _decode_ether \/ _decode_vlan \/ DecodeInet \/ DecodeL4
  PROVE  DecodeInv'
<1> DEFINE hd == frame.hdrs[data_off]
<1>1. at \in HeaderHandlers /\ todo = <<>>
  BY DEF _decode_ether, _decode_vlan, DecodeInet, DecodeL4, At, HeaderHandlers
<1>2. hd.typ = OnWire(at) /\ hd.proto \in Protos
  BY <1>1, NextHeader DEF DecodeInv, Walk, Running, HeaderHandlers
<1> HIDE DEF hd
<1>3. CASE _decode_ether
  <2>1. at = "Ether" /\ OnWire(at) = "Ether"
    BY <1>3 DEF _decode_ether, At, OnWire
  <2>2. Prints(at, Size(OnWire(at)), EtherNext(hd.proto))
    BY <1>3, <2>1 DEF _decode_ether, Proto, hd
  <2>3. /\ EtherNext(hd.proto) \in HeaderHandlers \union {"error"}
        /\ EtherNext(hd.proto) # "error" => Announced(hd) = OnWire(EtherNext(hd.proto))
    BY <1>2, <2>1 DEF EtherNext, Announced, OnWire, HeaderHandlers, Protos
  <2>4. EtherNext(hd.proto) # "TSC" /\ "error" \notin HeaderHandlers
    BY <2>3 DEF HeaderHandlers
  <2> QED BY <1>1, <2>2, <2>3, <2>4, HeaderOK DEF hd
<1>4. CASE _decode_vlan
  <2>1. at \in {"Dot1q", "Dot1ad"} /\ OnWire(at) = "Vlan"
    BY <1>4 DEF _decode_vlan, At, OnWire
  <2>2. Prints(at, Size(OnWire(at)), VlanNext(at, hd.proto))
    BY <1>4, <2>1 DEF _decode_vlan, Proto, hd
  <2>3. /\ VlanNext(at, hd.proto) \in HeaderHandlers \union {"error"}
        /\ VlanNext(at, hd.proto) # "error" => Announced(hd) = OnWire(VlanNext(at, hd.proto))
    BY <1>2, <2>1 DEF VlanNext, Announced, OnWire, HeaderHandlers, Protos
  <2>4. VlanNext(at, hd.proto) # "TSC" /\ "error" \notin HeaderHandlers
    BY <2>3 DEF HeaderHandlers
  <2> QED BY <1>1, <2>2, <2>3, <2>4, HeaderOK DEF hd
<1>5. CASE DecodeInet
  <2>1. at \in {"IPv4", "IPv6"} /\ OnWire(at) = at
    BY <1>5 DEF DecodeInet, At, OnWire
  <2>2. Prints(at, Size(OnWire(at)), InetNext(hd.proto))
    BY <1>5, <2>1 DEF DecodeInet, Proto, hd
  <2>3. /\ InetNext(hd.proto) \in {"UDP", "TCP", "TSC"}
        /\ InetNext(hd.proto) = "TSC" => Announced(hd) = "none"
        /\ InetNext(hd.proto) # "TSC" => Announced(hd) = OnWire(InetNext(hd.proto))
    BY <1>2, <2>1 DEF InetNext, Announced, OnWire, Protos
  <2>4. "TSC" \notin HeaderHandlers /\ {"UDP", "TCP"} \subseteq HeaderHandlers
    BY DEF HeaderHandlers
  <2> QED BY <1>1, <2>2, <2>3, <2>4, HeaderOK DEF hd
<1>6. CASE DecodeL4
  <2>1. at \in {"UDP", "TCP"} /\ OnWire(at) = at
    BY <1>6 DEF DecodeL4, At, OnWire
  <2>2. Prints(at, Size(OnWire(at)), "TSC")
    BY <1>6, <2>1 DEF DecodeL4
  <2>3. Announced(hd) = "none" /\ "TSC" \notin HeaderHandlers
    BY <1>2, <2>1 DEF Announced, HeaderHandlers
  <2> QED BY <1>1, <2>2, <2>3, HeaderOK DEF hd
<1> QED BY <1>3, <1>4, <1>5, <1>6

(* At the time stamp: it is behind the last header, and nowhere else. *)
LEMMA OneEnd ==
  ASSUME NEW f \in Frames, NEW off \in DOMAIN f.hdrs, IsLast(f, off)
  PROVE  StampBehind(f) <=> EndOf(f, off) \in f.stamps
<1>1. ASSUME NEW o \in DOMAIN f.hdrs, IsLast(f, o) PROVE o = off
  <2>1. o <= off /\ off <= o
    BY <1>1 DEF IsLast
  <2> QED BY <2>1, NextHeader
<1> QED BY <1>1 DEF StampBehind

(* The time stamp is looked for behind the last header, where Walk says    *)
(* data_off is.                                                            *)
LEMMA StampOK ==
  ASSUME DecodeInv, _decode_tsc PROVE DecodeInv'
<1> USE DEF DecodeInv
<1>1. at = "TSC" /\ todo = <<>> /\ Running /\ frame \in Frames
  BY DEF _decode_tsc, At, Walk, Running
<1>2. PICK off \in DOMAIN frame.hdrs : IsLast(frame, off) /\ data_off = EndOf(frame, off)
  BY <1>1 DEF Walk
<1>3. StampBehind(frame) <=> data_off \in frame.stamps
  BY <1>1, <1>2, OneEnd
<1>4. ~lost => ~Has("TSC") /\ ~Has("Payload")
  BY <1>1 DEF Order
<1>5. CASE data_off \in frame.stamps
  <2>1. Entered("TSC", TextLen["TSC"], "Raw") /\ data_off' = data_off + Size("TSC")
    BY <1>1, <1>5 DEF _decode_tsc, Prints, Entered
  <2>2. "TSC" \in Printers /\ "Raw" \in Printers /\ "TSC" \in Printers \ {"Raw"}
    BY DEF Printers
  <2>3. TextLen["TSC"] \in Seq(Nat) /\ TextLen["TSC"] # <<>>
    BY <2>2, PiecesAssumption
  <2>4. data_off' \in 0..UINT16_MAX
    <3>1. frame.data_len \in 1..UINT16_MAX /\ data_off + Size("TSC") <= frame.data_len
      BY <1>1, <1>5, FramesAssumption
    <3> QED BY <2>1, <3>1, SizeInNat, Bounds DEF TypeOK
  <2>5. TypeOK' /\ BufferInv'
    BY <2>1, <2>2, <2>3, <2>4, EnteredKeepsBuffer
  <2>6. at' = "Raw" /\ frame' = frame /\ lost' = lost
    BY <2>1 DEF Entered, bufVars
  <2>7. Walk'
    BY <1>1, <2>6 DEF Walk, HeaderHandlers
  <2>8. Order'
    <3> SUFFICES ASSUME ~lost PROVE Order'
      BY <2>6 DEF Order
    <3>1. /\ Chained(text') /\ Chained(todo')
          /\ text' # <<>> /\ todo' # <<>> => Link(text'[Len(text')], todo'[1])
          /\ ~Has("Payload")' /\ Has("TSC")'
      BY <1>1, <1>4, <2>1, <2>2, <2>3, EnteredPrints
    <3>2. at' \notin HeaderHandlers \union {"TSC"} /\ at' # "ok"
      BY <2>6 DEF HeaderHandlers
    <3> QED BY <1>3, <1>5, <2>6, <3>1, <3>2 DEF Order
  <2> QED BY <2>5, <2>7, <2>8
<1>6. CASE data_off \notin frame.stamps
  <2>1. at' = "Raw" /\ UNCHANGED <<made, frame, data_off, todo, bufVars, ret>>
    BY <1>6 DEF _decode_tsc
  <2>2. TypeOK' /\ BufferInv'
    <3>1. TypeOK'
      BY <2>1 DEF TypeOK, bufVars, Printers
    <3>2. BufferInv'
      BY <1>1, <2>1 DEF BufferInv, TextInBuffer, PiecesAdjoin, OneBuffer, bufVars, Running
    <3> QED BY <3>1, <3>2
  <2>3. Walk'
    BY <1>1, <2>1 DEF Walk, HeaderHandlers
  <2>4. Order'
    <3> SUFFICES ASSUME ~lost PROVE Order'
      BY <2>1 DEF Order, bufVars
    <3>1. /\ Has("TSC")' <=> Has("TSC")
          /\ Has("Payload")' <=> Has("Payload")
      BY <2>1 DEF Has, bufVars
    <3>2. Chained(text) /\ todo = <<>> /\ text' = text /\ todo' = todo /\ Chained(todo)
      BY <1>1, <2>1 DEF Order, bufVars
    <3>3. at' \notin HeaderHandlers \union {"TSC"} /\ at' # "ok"
      BY <2>1 DEF HeaderHandlers
    <3> QED BY <1>3, <1>4, <1>6, <2>1, <3>1, <3>2, <3>3 DEF Order
  <2> QED BY <2>2, <2>3, <2>4
<1> QED BY <1>5, <1>6

(* Raw: the bytes left, when there are any. *)
LEMMA RawOK ==
  ASSUME DecodeInv, _decode_raw PROVE DecodeInv'
<1> USE DEF DecodeInv
<1> DEFINE lens == <<5>> \o frame.body \o <<3>>
<1>1. /\ at = "Raw" /\ todo = <<>> /\ Running /\ frame \in Frames /\ at' = "Payload"
      /\ UNCHANGED <<made, frame, bufVars, ret>>
  BY DEF _decode_raw, At, Walk, Running
<1>2. frame' = frame /\ lost' = lost /\ text' = text
  BY <1>1 DEF bufVars
<1>3. Walk'
  BY <1>1, <1>2 DEF Walk, HeaderHandlers
<1>4. ~lost => ~Has("Payload") /\ (Has("TSC") <=> StampBehind(frame)) /\ Chained(text)
  BY <1>1 DEF Order
<1>5. at' \notin HeaderHandlers \union {"TSC"} /\ at' # "ok"
  BY <1>1 DEF HeaderHandlers
<1>6. CASE frame.data_len > data_off
  <2>1. lens \in Seq(Nat)
    <3>1. frame.body \in Seq({1, 4})
      BY <1>1, FramesAssumption
    <3>2. frame.body \in Seq(Nat)
      <4>1. /\ Len(frame.body) \in Nat /\ frame.body = [k \in 1..Len(frame.body) |-> frame.body[k]]
            /\ \A k \in 1..Len(frame.body) : frame.body[k] \in Nat
        BY <3>1
      <4> QED BY <4>1
    <3>3. <<5>> \in Seq(Nat) /\ <<3>> \in Seq(Nat)
      OBVIOUS
    <3> QED BY <3>2, <3>3
  <2>2. Entered("Raw", lens, "Payload") /\ data_off' = data_off + RawLen
    BY <1>1, <1>6 DEF _decode_raw, Entered
  <2>3. "Raw" \in Printers /\ "Payload" \in Printers
    BY DEF Printers
  <2>4. data_off' \in 0..UINT16_MAX
    <3>1. frame.data_len \in 1..UINT16_MAX
      BY <1>1, FramesAssumption
    <3> QED BY <2>2, <3>1, Bounds DEF RawLen, TypeOK
  <2> HIDE DEF lens
  <2>5. TypeOK' /\ BufferInv'
    BY <2>1, <2>2, <2>3, <2>4, EnteredKeepsBuffer
  <2>6. Order'
    <3> SUFFICES ASSUME ~lost PROVE Order'
      BY <1>2 DEF Order
    <3>1. /\ Chained(text') /\ Chained(todo')
          /\ text' # <<>> /\ todo' # <<>> => Link(text'[Len(text')], todo'[1])
          /\ ~Has("Payload")' /\ (Has("TSC")' <=> Has("TSC"))
      BY <1>1, <1>4, <2>1, <2>2, <2>3, EnteredPrints
    <3> QED BY <1>1, <1>2, <1>4, <1>5, <3>1 DEF Order
  <2> QED BY <1>3, <2>5, <2>6
<1>7. CASE ~(frame.data_len > data_off)
  <2>1. todo' = todo /\ data_off' = data_off
    BY <1>7 DEF _decode_raw
  <2>2. TypeOK'
    BY <1>1, <2>1 DEF TypeOK, bufVars, Printers
  <2>3. BufferInv'
    BY <1>1, <2>1 DEF BufferInv, TextInBuffer, PiecesAdjoin, OneBuffer, bufVars, Running
  <2>4. Order'
    <3> SUFFICES ASSUME ~lost PROVE Order'
      BY <1>2 DEF Order
    <3>1. (Has("TSC")' <=> Has("TSC")) /\ (Has("Payload")' <=> Has("Payload"))
      BY <1>2, <2>1 DEF Has
    <3>2. Chained(todo)
      BY <1>1 DEF Order
    <3> QED BY <1>1, <1>2, <1>4, <1>5, <2>1, <3>1, <3>2 DEF Order
  <2> QED BY <1>3, <2>2, <2>3, <2>4
<1> QED BY <1>6, <1>7

(* Payload, which is never empty, ends the text. *)
LEMMA PayloadOK ==
  ASSUME DecodeInv, _decode_payload PROVE DecodeInv'
<1> USE DEF DecodeInv
<1>1. /\ at = "Payload" /\ todo = <<>> /\ Running /\ frame \in Frames
      /\ Entered("Payload", TextLen["Payload"], "ok") /\ data_off' = data_off + 0
  BY DEF _decode_payload, At, Prints, Entered, Walk, Running
<1>2. frame' = frame /\ lost' = lost /\ at' = "ok"
  BY <1>1 DEF Entered, bufVars
<1>3. "Payload" \in Printers /\ "Payload" \in Printers \ {"Raw"}
  BY DEF Printers
<1>4. TextLen["Payload"] \in Seq(Nat) /\ TextLen["Payload"] # <<>>
  BY <1>3, PiecesAssumption
<1>5. TypeOK' /\ BufferInv'
  <2>1. data_off' \in 0..UINT16_MAX
    BY <1>1, Bounds DEF TypeOK
  <2> QED BY <1>1, <1>3, <1>4, <2>1, EnteredKeepsBuffer
<1>6. Walk'
  BY <1>1, <1>2 DEF Walk, HeaderHandlers
<1>7. Order'
  <2> SUFFICES ASSUME ~lost PROVE Order'
    BY <1>2 DEF Order
  <2>1. Has("TSC") <=> StampBehind(frame)
    BY <1>1 DEF Order
  <2>2. /\ Chained(text') /\ Chained(todo')
        /\ text' # <<>> /\ todo' # <<>> => Link(text'[Len(text')], todo'[1])
        /\ Has("TSC")' <=> Has("TSC")
        /\ todo' # <<>> /\ todo'[Len(todo')].by = "Payload"
    BY <1>1, <1>3, <1>4, EnteredPrints
  <2>3. at' \notin HeaderHandlers \union {"TSC"}
    BY <1>2 DEF HeaderHandlers
  <2> QED BY <1>2, <2>1, <2>2, <2>3 DEF Order
<1> QED BY <1>5, <1>6, <1>7

-----------------------------------------------------------------------------
(* The end of a call leaves the decoder's text. *)
LEMMA ReturnOK ==
  ASSUME DecodeInv, Return PROVE DecodeInv'
<1> USE DEF DecodeInv
<1>1. /\ at' = "idle" /\ todo = <<>> /\ ret' \in Int
      /\ UNCHANGED <<made, frame, data_off, todo, bufVars>>
  BY DEF Return, At, TypeOK
<1>2. TypeOK'
  BY <1>1 DEF TypeOK, bufVars
<1>3. BufferInv'
  BY <1>1 DEF BufferInv, TextInBuffer, PiecesAdjoin, OneBuffer, bufVars, Running
<1>4. Walk' /\ Order'
  BY <1>1 DEF Walk, Order, Running, HeaderHandlers
<1> QED BY <1>2, <1>3, <1>4

(* A call begins with the buffer of the one before it freed. *)
LEMMA CallOK ==
  ASSUME DecodeInv, NEW f \in Frames, NEW opt, fgen_decode(f, opt) PROVE DecodeInv'
<1> USE DEF DecodeInv
<1>1. /\ text' = <<>> /\ used' = 0 /\ buf_len' = 0 /\ todo' = <<>> /\ made' /\ made
      /\ frame' = f /\ data_off' = 0 /\ at' = StartAt(opt) /\ lost' = FALSE
      /\ UNCHANGED <<made, fails, ret>> /\ f.hdrs[0].typ = StartAt(opt)
  BY DEF fgen_decode, BufferFreed
<1>2. heap' = 0
  BY DEF fgen_decode, BufferFreed, BufferInv, OneBuffer, TypeOK
<1>3. StartAt(opt) \in HeaderHandlers /\ OnWire(StartAt(opt)) = StartAt(opt)
  BY DEF StartAt, HeaderHandlers, OnWire
<1>4. TypeOK'
  <2>1. todo' \in Seq(Piece) /\ text' \in Seq(Placed)
    BY <1>1
  <2>2. lost' \in BOOLEAN /\ at' \in Printers
    BY <1>1, <1>3 DEF HeaderHandlers, Printers
  <2>3. data_off' \in 0..UINT16_MAX
    BY <1>1, Bounds
  <2> QED BY <1>1, <1>2, <2>1, <2>2, <2>3 DEF TypeOK
<1>5. BufferInv'
  BY <1>1, <1>2, Emptied
<1>6. 0 \in DOMAIN f.hdrs
  <2>1. WholeHeaders(f)
    BY FramesAssumption
  <2> QED BY <2>1 DEF WholeHeaders
<1>7. Walk'
  BY <1>1, <1>3, <1>6 DEF Walk, HeaderHandlers
<1>8. Order'
  <2>1. DOMAIN text' = {} /\ DOMAIN todo' = {} /\ Len(text') = 0 /\ Len(todo') = 0
    BY <1>1
  <2>2. Chained(text') /\ Chained(todo') /\ ~Has("Payload")' /\ ~Has("TSC")'
    BY <2>1 DEF Chained, Has
  <2>3. at' \notin {"Raw", "Payload", "ok"}
    BY <1>1, <1>3 DEF HeaderHandlers
  <2> QED BY <1>1, <2>2, <2>3 DEF Order
<1> QED BY <1>4, <1>5, <1>7, <1>8

(* Creating and destroying a decoder. *)
LEMMA LifeOK ==
  ASSUME DecodeInv, fgen_decode_create \/ fgen_decode_destroy PROVE DecodeInv'
<1> USE DEF DecodeInv
<1>1. at = "idle" /\ at' = "idle" /\ todo = <<>> /\ todo' = <<>>
  BY DEF fgen_decode_create, fgen_decode_destroy, BufferInv, Running
<1>2. Walk' /\ Order'
  BY <1>1 DEF Walk, Order, Running, HeaderHandlers
<1>3. CASE fgen_decode_create
  <2>1. made' = TRUE /\ UNCHANGED <<frame, data_off, at, todo, bufVars, ret>>
    BY <1>3 DEF fgen_decode_create
  <2>2. TypeOK'
    BY <2>1 DEF TypeOK, bufVars
  <2>3. BufferInv'
    BY <1>1, <2>1 DEF BufferInv, TextInBuffer, PiecesAdjoin, OneBuffer, bufVars, Running
  <2> QED BY <1>2, <2>2, <2>3
<1>4. CASE fgen_decode_destroy
  <2>1. /\ text' = <<>> /\ used' = 0 /\ buf_len' = 0 /\ made' = FALSE /\ lost' = FALSE
        /\ frame' = NoFrame /\ data_off' = 0 /\ UNCHANGED <<at, todo, fails, ret>>
    BY <1>4 DEF fgen_decode_destroy
  <2>2. heap' = 0
    BY <1>4 DEF fgen_decode_destroy, BufferInv, OneBuffer, TypeOK
  <2>3. TypeOK'
    <3>1. text' \in Seq(Placed) /\ todo' \in Seq(Piece)
      BY <1>1, <2>1
    <3>2. made' \in BOOLEAN /\ lost' \in BOOLEAN
      BY <2>1
    <3>3. data_off' \in 0..UINT16_MAX
      BY <2>1, Bounds
    <3> QED BY <2>1, <2>2, <3>1, <3>2, <3>3 DEF TypeOK
  <2>4. BufferInv'
    BY <1>1, <2>1, <2>2, Emptied DEF Running
  <2> QED BY <1>2, <2>3, <2>4
<1> QED BY <1>3, <1>4

(* Every step keeps the invariant. *)
LEMMA NextOK == DecodeInv /\ [Next]_vars => DecodeInv'
<1> SUFFICES ASSUME DecodeInv, [Next]_vars PROVE DecodeInv'
  OBVIOUS
<1>1. CASE UNCHANGED vars
  <2>1. TypeOK' /\ BufferInv'
    BY <1>1 DEF vars, DecodeInv, TypeOK, BufferInv, TextInBuffer, PiecesAdjoin, OneBuffer, Running
  <2>2. Walk' /\ Order'
    BY <1>1 DEF vars, DecodeInv, Walk, Order, Running, Has, Chained
  <2> QED BY <2>1, <2>2 DEF DecodeInv
<1>2. CASE Handler
  BY <1>2, HeaderHandlerOK, StampOK, RawOK, PayloadOK, ReturnOK DEF Handler
<1> QED BY <1>1, <1>2, LifeOK, CallOK, AppendOK DEF Next

(* The inductive invariant holds in every reachable state. *)
LEMMA DecodeInvariant == Spec => []DecodeInv
BY InitOK, NextOK, PTL DEF Spec

(* The decoder's variables keep their types. *)
THEOREM TypesHold == Spec => []TypeOK
<1>1. DecodeInv => TypeOK
  BY DEF DecodeInv
<1> QED BY <1>1, DecodeInvariant, PTL

(* _append never writes past the buffer: the pieces adjoin, and the text   *)
(* ends in it with the slack, however pieces were lost or the buffer grew. *)
THEOREM TextFits == Spec => []TextInBuffer
<1>1. DecodeInv => TextInBuffer
  BY DEF DecodeInv, BufferInv
<1> QED BY <1>1, DecodeInvariant, PTL

(* A decoder has one buffer at most over any sequence of calls, and none   *)
(* after fgen_decode_destroy.                                              *)
THEOREM BuffersFreed == Spec => []OneBuffer
<1>1. DecodeInv => OneBuffer
  BY DEF DecodeInv, BufferInv
<1> QED BY <1>1, DecodeInvariant, PTL

(* A text from which nothing was lost is that of the frame decoded: whole  *)
(* layers in order, Payload last, and the time stamp exactly when there is *)
(* one behind the last header.                                             *)
THEOREM TextIsOfFrame == Spec => []TextOfThisFrame
<1>1. DecodeInv => TextOfThisFrame
  <2> SUFFICES ASSUME DecodeInv, at = "ok", todo = <<>>, ~lost
               PROVE  /\ text # <<>> /\ text[Len(text)].by = "Payload"
                      /\ Chained(text)
                      /\ "TSC" \in Kinds <=> StampBehind(frame)
    BY DEF TextOfThisFrame
  <2>1. /\ text # <<>> /\ text[Len(text)].by = "Payload" /\ Chained(text)
        /\ Has("TSC") <=> StampBehind(frame)
    BY DEF DecodeInv, Order, Running
  <2>2. Has("TSC") <=> "TSC" \in Kinds
    BY DEF Has, Kinds
  <2> QED BY <2>1, <2>2
<1> QED BY <1>1, DecodeInvariant, PTL
=============================================================================
