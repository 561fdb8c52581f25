---------------------------- MODULE EncodeProofs ----------------------------
(***************************************************************************)
(* Proofs about the encoder, for any texts and any number of layers whose  *)
(* headers can be counted in 16 bits.                                      *)
(*                                                                         *)
(* The properties are about a frame that is finished; the invariant says   *)
(* what the handlers entered, and those that have returned, have made of   *)
(* it so far:                                                              *)
(*   - Shape: opts is that of the text, and where in it the handlers are;  *)
(*   - Verdict: every layer entered has parsed, an error comes from a      *)
(*     malformed text, and no error from one that is not so far;           *)
(*   - Lengths: the lengths completed reach the end of the frame;          *)
(*   - Layout: with Payload last, every header begins behind those before  *)
(*     it, and every write but a checksum is in the writer's own header;   *)
(*   - Sums: every checksum computed covers bytes behind the headers of    *)
(*     the handlers that have yet to return.                               *)
(***************************************************************************)
EXTENDS RoundTrip, WellFoundedInduction, TLAPS

Running == pc \in {"down", "up"}
Finished == pc = "done" /\ result = 0
Returning == pc = "up" \/ Finished

Shape ==
  /\ Running \/ Finished => text # <<>> /\ opts = OptsOf(text) /\ result = 0
  /\ pc = "down" => lidx \in 1..LastLayer + 1 /\ ret = "none"
  /\ pc = "up" => lidx \in 1..LastLayer
  /\ pc = "done" => lidx = 0

Parsing == {"Ether", "Dot1q", "Dot1ad", "IPv4", "UDP", "TCP", "Payload"}
Parsed(i) == /\ opts[i].typ \in LayerTypes
             /\ opts[i].typ \in Parsing => ParamsParse(opts[i])
TwoTags(i) == opts[i].typ = "Dot1q" /\ opts[i + 1].typ = "Dot1q"

Verdict ==
  /\ pc = "down" => \A i \in 1..lidx - 1 : Parsed(i)
  /\ Returning /\ ret = "error" => Malformed(text)
  /\ Returning /\ ret # "error" => /\ \A i \in 1..LastLayer : Parsed(i)
                                   /\ \A i \in lidx + 1..LastLayer - 1 : ~TwoTags(i)
                                   /\ ret = opts[lidx + 1].typ

Lengths ==
  Returning /\ ret # "error" =>
    \A i \in lidx + 1..LastLayer :
      opts[i].typ \in {"IPv4", "UDP"} => u16(act[i].off + act[i].len) = data_len

(* The layers whose handlers were entered, and the end of their headers. *)
Entered == IF pc = "down" THEN 1..lidx - 1 ELSE 1..LastLayer
End(i) == act[i].off + HeaderLen(opts[i].typ)

(* No error so far, and Payload last: the frame has a layout. *)
Sound == PayloadLast /\ (pc = "down" \/ (Returning /\ ret # "error"))

(* A header begins behind those before it; that of Ether is at the start. *)
Behind ==
  \A j \in Entered : IF opts[j].typ = "Ether" THEN act[j].off = 0
                     ELSE \A i \in 1..j - 1 : End(i) <= act[j].off

Counted ==
  pc = "down" /\ lidx <= LastLayer =>
    data_len <= 40 * (lidx - 1) /\ \A i \in Entered : End(i) <= data_len

(* The length of a frame with a payload. *)
PayloadEnd ==
  LastLayer \in Entered /\ opts[LastLayer].typ = "Payload" =>
    LET pktlen == act[LastLayer].pktlen
    IN  data_len = IF pc = "down" THEN u16(pktlen) ELSE Clamp(u16(pktlen))

(* What the fill does to a frame that append has made too short. *)
Refill(w) ==
  /\ opts[w.by].typ = "Payload" /\ act[w.by].fill # 0
  /\ w.lo = act[w.by].pktlen /\ w.lo < ETH_ZLEN

OwnHeader(w) ==
  /\ w.by \in Entered
  /\ (act[w.by].off <= w.lo \/ Refill(w))
  /\ opts[w.by].typ # "Payload" => w.hi <= End(w.by)

Layout ==
  Sound => /\ Behind
           /\ Counted
           /\ PayloadEnd
           /\ \A k \in DOMAIN log : log[k].chi = 0 => OwnHeader(log[k])

(* A checksum is that of an IPv4 layer that has returned, or none yet. *)
OfReturned(w) ==
  pc # "down" /\ \E i \in lidx + 1..LastLayer : opts[i].typ = "IPv4" /\ act[i].off <= w.clo

Clear(w, v) == v.chi = 0 \/ w.hi <= v.clo \/ v.chi <= w.lo

Sums ==
  Sound =>
    /\ \A k \in DOMAIN log : log[k].chi > 0 => OfReturned(log[k])
    /\ \A k \in DOMAIN log : \A j \in k + 1..Len(log) : Clear(log[j], log[k])

IInv == TypeOK /\ Shape /\ Verdict /\ Lengths /\ Layout /\ Sums

-----------------------------------------------------------------------------
(* The layer table of a text: its layers, then the done layer. *)
LEMMA OptsFacts ==
  ASSUME text \in Seq(Layer), text # <<>>, opts = OptsOf(text)
  PROVE  /\ LastLayer \in Nat /\ LastLayer >= 1 /\ LastLayer <= Len(text)
         /\ LastLayer + 1 \in Idx /\ 1..LastLayer \subseteq Idx
         /\ opts[LastLayer + 1] = DoneOpt
         /\ \A i \in 1..LastLayer : opts[i] = IF text[i].typ # "Unknown" THEN text[i] ELSE NoOpt
         /\ \A i \in 1..LastLayer : /\ opts[i].typ = text[i].typ
                                    /\ opts[i].typ \in LayerTypes \union {"Unknown"}
         /\ Layers = {i \in 1..LastLayer : opts[i].typ # "Unknown"}
<1>1. Len(text) \in Nat /\ Len(text) >= 1 /\ MAX_LAYERS \in Nat /\ MAX_LAYERS >= 2
  BY EncodeAssumption
<1>2. LastLayer \in Nat /\ LastLayer >= 1 /\ LastLayer <= Len(text) /\ LastLayer <= MAX_LAYERS - 1
  BY <1>1 DEF LastLayer, NbLayers
<1>3. LastLayer + 1 \in Idx /\ 1..LastLayer \subseteq Idx
  BY <1>1, <1>2 DEF Idx
<1>4. \A i \in Idx : opts[i] = IF i = LastLayer + 1 THEN DoneOpt
                               ELSE IF i <= LastLayer /\ text[i].typ # "Unknown" THEN text[i]
                               ELSE NoOpt
  BY DEF OptsOf, LastLayer
<1>5. opts[LastLayer + 1] = DoneOpt
  BY <1>3, <1>4
<1>6. ASSUME NEW i \in 1..LastLayer
      PROVE  /\ opts[i] = IF text[i].typ # "Unknown" THEN text[i] ELSE NoOpt
             /\ opts[i].typ = text[i].typ /\ opts[i].typ \in LayerTypes \union {"Unknown"}
  <2>1. i \in Idx /\ i # LastLayer + 1 /\ i <= LastLayer
    BY <1>2, <1>3
  <2>2. text[i] \in Layer
    BY <1>2
  <2> QED BY <1>4, <2>1, <2>2 DEF NoOpt, Layer
<1>7. Layers = {i \in 1..LastLayer : opts[i].typ # "Unknown"}
  <2>1. ASSUME NEW i \in Idx, i \notin 1..LastLayer PROVE opts[i].typ \notin LayerTypes
    <3>1. i = LastLayer + 1 \/ ~(i <= LastLayer)
      BY <1>2, <2>1 DEF Idx
    <3> QED BY <1>4, <3>1 DEF DoneOpt, NoOpt, LayerTypes
  <2>2. "Unknown" \notin LayerTypes
    BY DEF LayerTypes
  <2> QED BY <1>3, <1>6, <2>1, <2>2 DEF Layers
<1> QED BY <1>2, <1>3, <1>5, <1>6, <1>7

-----------------------------------------------------------------------------
(* What the steps have in common, one formula for every way a handler goes *)
(* on: into the next layer, back with an error, or back with its type.     *)

Grows == /\ Len(log) <= Len(log')
         /\ \A k \in 1..Len(log) : log'[k] = log[k]

(* The writes that the step adds to the log. *)
Added == {log'[k] : k \in Len(log) + 1..Len(log')}

GoesDown ==
  LET typ == opts[lidx].typ IN
  /\ pc = "down" /\ next_layer
  /\ Parsed(lidx)
  /\ \A i \in Idx \ {lidx} : act'[i] = act[i]
  /\ act'[lidx].off = IF typ = "Ether" THEN 0 ELSE data_len
  /\ IF typ = "Payload"
     THEN /\ act'[lidx].pktlen = PktLen(opts[lidx].params, data_len)
          /\ data_len' = u16(act'[lidx].pktlen)
     ELSE data_len' = u16(data_len + HeaderLen(typ))
  /\ Grows
  /\ \A w \in Added : /\ w.by = lidx /\ w.chi = 0
                      /\ act'[lidx].off <= w.lo
                      /\ typ # "Payload" => w.hi <= act'[lidx].off + HeaderLen(typ)

Refused == pc = "down" /\ Leave("error") /\ ~Parsed(lidx) /\ opts[lidx].typ # "Done"

Turns == EnterDone

Fails ==
  /\ pc = "up" /\ Leave("error")
  /\ ret = "error" \/ (opts[lidx].typ = "Dot1q" /\ ret = "Dot1q")

Returns ==
  LET typ == opts[lidx].typ IN
  /\ pc = "up" /\ ret # "error" /\ Leave(typ)
  /\ typ # "Dot1q" \/ ret # "Dot1q"
  /\ UNCHANGED data_len
  /\ \A i \in Idx : /\ act'[i].off = act[i].off /\ act'[i].pktlen = act[i].pktlen
                    /\ act'[i].fill = act[i].fill
  /\ \A i \in Idx \ {lidx} : act'[i].len = act[i].len
  /\ typ \in {"IPv4", "UDP"} => act'[lidx].len = u16(data_len - Off)
  /\ Grows
  /\ \A w \in Added : /\ w.by = lidx
                      /\ w.chi = 0 => IF typ = "Payload"
                                      THEN /\ w.lo = act[lidx].pktlen /\ w.lo < data_len
                                           /\ act[lidx].fill # 0
                                      ELSE /\ (typ = "Ether" /\ 0 <= w.lo) \/ Off <= w.lo
                                           /\ w.hi <= End(lidx)
                      /\ w.chi > 0 => /\ typ = "IPv4" /\ Off <= w.clo
                                      /\ \/ w.hi <= End(lidx)
                                         \/ ret = "UDP" /\ w.hi <= End(lidx) + 8
                                         \/ ret = "TCP" /\ w.hi <= End(lidx) + 20
  /\ \A k \in Len(log) + 1..Len(log') : \A j \in k + 1..Len(log') : Clear(log'[j], log'[k])

Crashes == pc = "up" /\ pc' = "crashed" /\ UNCHANGED <<lidx, ret>>

(* What every handler leaves alone, and the types of what it may change. *)
Kept == /\ UNCHANGED frameVars
        /\ data_len' \in U16 /\ tsc_off' \in U16
        /\ act' \in [Idx -> Activation] /\ log' \in Seq(Write)

(* Sixteen bits. *)
LEMMA U16Facts ==
  /\ \A n \in U16 : n \in Nat /\ n <= 65535
  /\ \A n \in Int : u16(n) \in U16 /\ u16(n) \in Nat
  /\ \A n \in Nat : n < 65536 => u16(n) = n
  /\ \A a, b \in U16 : u16(b + u16(a - b)) = a
<1>0. ASSUME NEW n \in U16 PROVE n \in Nat /\ n <= 65535
  <2>1. n \in Nat /\ n <= UINT16_MAX
    BY DEF U16
  <2> QED BY <2>1 DEF UINT16_MAX
<1>1. ASSUME NEW n \in Int PROVE u16(n) \in U16 /\ u16(n) \in Nat
  <2>1. n % 65536 \in Nat /\ n % 65536 <= 65535
    OBVIOUS
  <2>2. n % 65536 <= UINT16_MAX /\ UINT16_MAX \in Nat
    BY <2>1 DEF UINT16_MAX
  <2> QED BY <2>1, <2>2 DEF u16, U16
<1>2. \A n \in Nat : n < 65536 => u16(n) = n
  BY DEF u16
<1>3. ASSUME NEW a \in U16, NEW b \in U16 PROVE u16(b + u16(a - b)) = a
  <2>0. a \in Nat /\ b \in Nat /\ a <= 65535 /\ b <= 65535
    BY <1>0
  <2>1. CASE a >= b
    <3>1. (a - b) % 65536 = a - b /\ a % 65536 = a
      BY <2>0, <2>1
    <3> QED BY <2>0, <3>1 DEF u16
  <2>2. CASE a < b
    <3>1. (a - b) % 65536 = a - b + 65536
      BY <2>0, <2>2
    <3>2. (a + 65536) % 65536 = a
      BY <2>0
    <3>3. b + ((a - b) % 65536) = a + 65536
      BY <2>0, <3>1
    <3> QED BY <3>2, <3>3 DEF u16
  <2> QED BY <2>0, <2>1, <2>2
<1> QED BY <1>0, <1>1, <1>2, <1>3

(* Where a handler that runs is, and its locals. *)
LEMMA Here ==
  ASSUME TypeOK, Shape, Running
  PROVE  /\ lidx \in Idx /\ lidx \in Nat /\ lidx >= 1
         /\ opts[lidx].typ \in LayerTypes \union {"Unknown", "Done"}
         /\ opts[lidx].params \in Seq(Param)
         /\ data_len \in Nat /\ data_len <= 65535
         /\ act[lidx] \in Activation /\ Off \in Nat /\ Off <= 65535
         /\ text # <<>> /\ opts = OptsOf(text) /\ text \in Seq(Layer)
         /\ LastLayer \in Nat /\ lidx <= LastLayer + 1
<1>1. text # <<>> /\ opts = OptsOf(text) /\ text \in Seq(Layer)
  BY DEF TypeOK, Shape, Running
<1>2. LastLayer \in Nat /\ LastLayer >= 1 /\ LastLayer + 1 \in Idx
  BY <1>1, OptsFacts
<1>3. lidx \in 1..LastLayer + 1
  BY <1>2 DEF Shape, Running
<1>4. lidx \in Idx /\ lidx \in Nat /\ lidx >= 1 /\ lidx <= LastLayer + 1
  BY <1>2, <1>3, EncodeAssumption DEF Idx
<1>5. opts[lidx] \in Opt /\ act[lidx] \in Activation
  BY <1>4 DEF TypeOK
<1>6. data_len \in Nat /\ data_len <= 65535
  BY U16Facts DEF TypeOK
<1>7. Off \in Nat /\ Off <= 65535
  <2>1. act[lidx].off \in U16
    BY <1>5 DEF Activation
  <2> QED BY <2>1, U16Facts DEF Off
<1> QED BY <1>1, <1>2, <1>4, <1>5, <1>6, <1>7 DEF Opt

(* A write at the end of the log. *)
LEMMA AppendGrows ==
  ASSUME log \in Seq(Write), NEW w \in Write, log' = Append(log, w)
  PROVE  /\ log' \in Seq(Write) /\ Grows /\ Added = {w}
         /\ Len(log') = Len(log) + 1
<1>1. Len(log') = Len(log) + 1 /\ log'[Len(log) + 1] = w /\ Len(log) \in Nat
      /\ \A k \in 1..Len(log) : log'[k] = log[k]
  OBVIOUS
<1>2. log' \in Seq(Write)
  OBVIOUS
<1>3. Len(log) + 1..Len(log') = {Len(log) + 1}
  BY <1>1
<1> QED BY <1>1, <1>2, <1>3 DEF Grows, Added

(* No write. *)
LEMMA SameGrows ==
  ASSUME log \in Seq(Write), log' = log
  PROVE  log' \in Seq(Write) /\ Grows /\ Added = {} /\ Len(log') = Len(log)
<1>1. Len(log) \in Nat
  OBVIOUS
<1>2. Len(log) + 1..Len(log') = {}
  BY <1>1
<1> QED BY <1>1, <1>2 DEF Grows, Added

(* The slot of one layer is changed. *)
LEMMA ActExcept ==
  ASSUME act \in [Idx -> Activation], NEW i \in Idx, NEW a \in Activation,
         act' = [act EXCEPT ![i] = a]
  PROVE  act' \in [Idx -> Activation] /\ act'[i] = a /\ \A j \in Idx \ {i} : act'[j] = act[j]
OBVIOUS

(* The lengths of the headers. *)
LEMMA HeaderLens ==
  /\ HeaderLen("Ether") = 14 /\ HeaderLen("Dot1q") = 4 /\ HeaderLen("Dot1ad") = 4
  /\ HeaderLen("Payload") = 0
  /\ \A typ \in {"IPv4", "IPv6", "UDP", "TCP", "Vxlan", "Echo", "TSC", "Raw"} :
       HeaderLen(typ) = HdrLen(typ)
  /\ HdrLen("IPv4") = 20 /\ HdrLen("UDP") = 8 /\ HdrLen("TCP") = 20 /\ HdrLen("Vxlan") = 8
  /\ HdrLen("TSC") = 16 /\ HdrLen("IPv6") = 40 /\ HdrLen("Echo") = 20 /\ HdrLen("Raw") = 20
  /\ \A typ \in LayerTypes : HeaderLen(typ) \in Nat /\ HeaderLen(typ) <= 40
<1>1. /\ HeaderLen("Ether") = 14 /\ HeaderLen("Dot1q") = 4 /\ HeaderLen("Dot1ad") = 4
      /\ HeaderLen("Payload") = 0
  BY DEF HeaderLen
<1>2. \A typ \in {"IPv4", "IPv6", "UDP", "TCP", "Vxlan", "Echo", "TSC", "Raw"} :
        HeaderLen(typ) = HdrLen(typ)
  BY DEF HeaderLen
<1>3. /\ HdrLen("IPv4") = 20 /\ HdrLen("UDP") = 8 /\ HdrLen("TCP") = 20 /\ HdrLen("Vxlan") = 8
      /\ HdrLen("TSC") = 16 /\ HdrLen("IPv6") = 40 /\ HdrLen("Echo") = 20 /\ HdrLen("Raw") = 20
  BY DEF HdrLen
<1>4. ASSUME NEW typ \in LayerTypes PROVE HeaderLen(typ) \in Nat /\ HeaderLen(typ) <= 40
  <2>1. \/ typ \in {"Ether", "Dot1q", "Dot1ad", "Payload"}
        \/ typ \in {"IPv4", "IPv6", "UDP", "TCP", "Vxlan", "Echo", "TSC", "Raw"}
    BY DEF LayerTypes
  <2>2. CASE typ \in {"Ether", "Dot1q", "Dot1ad", "Payload"}
    BY <1>1, <2>2
  <2>3. CASE typ \in {"IPv4", "IPv6", "UDP", "TCP", "Vxlan", "Echo", "TSC", "Raw"}
    <3>1. HeaderLen(typ) = HdrLen(typ)
      BY <1>2, <2>3
    <3> QED BY <1>3, <2>3, <3>1
  <2> QED BY <2>1, <2>2, <2>3
<1> QED BY <1>1, <1>2, <1>3, <1>4

(* The fields of a write. *)
LEMMA WroteFacts ==
  ASSUME lidx \in Idx, NEW lo \in Int, NEW hi \in Nat
  PROVE  /\ Wrote(lo, hi) \in Write /\ Wrote(lo, hi).by = lidx /\ Wrote(lo, hi).lo = lo
         /\ Wrote(lo, hi).hi = hi /\ Wrote(lo, hi).clo = 0 /\ Wrote(lo, hi).chi = 0
BY DEF Wrote, Write

(* The fields of a checksum. *)
LEMMA SummedFacts ==
  ASSUME lidx \in Idx, NEW lo \in Nat, NEW hi \in Nat, NEW clo \in Nat, NEW chi \in Nat
  PROVE  /\ Summed(lo, hi, clo, chi) \in Write /\ Summed(lo, hi, clo, chi).by = lidx
         /\ Summed(lo, hi, clo, chi).lo = lo /\ Summed(lo, hi, clo, chi).hi = hi
         /\ Summed(lo, hi, clo, chi).clo = clo /\ Summed(lo, hi, clo, chi).chi = chi
BY DEF Summed, Write

(* The offset of a handler is set. *)
LEMMA OffSet ==
  ASSUME NEW a \in Activation, NEW off \in U16
  PROVE  [a EXCEPT !.off = off] \in Activation /\ [a EXCEPT !.off = off].off = off
BY DEF Activation

(* The log kept, or longer by a write of bytes lo .. hi-1. *)
LEMMA OneWrite ==
  ASSUME log \in Seq(Write), lidx \in Idx, NEW lo \in Int, NEW hi \in Nat,
         log' = log \/ log' = Append(log, Wrote(lo, hi))
  PROVE  /\ log' \in Seq(Write) /\ Grows
         /\ Len(log) \in Nat /\ (Len(log') = Len(log) \/ Len(log') = Len(log) + 1)
         /\ \A w \in Added : w.by = lidx /\ w.chi = 0 /\ w.lo = lo /\ w.hi = hi
<1>1. Len(log) \in Nat
  OBVIOUS
<1>2. CASE log' = log
  BY <1>1, <1>2, SameGrows
<1>3. CASE log' = Append(log, Wrote(lo, hi))
  <2>1. log' \in Seq(Write) /\ Grows /\ Added = {Wrote(lo, hi)} /\ Len(log') = Len(log) + 1
    BY <1>3, AppendGrows, WroteFacts
  <2> QED BY <1>1, <2>1, WroteFacts
<1> QED BY <1>2, <1>3

(* A handler that goes on or refuses its parameters. *)
LEMMA Onward ==
  ASSUME pc = "down", opts[lidx].typ \in Parsing, OnwardIf(ParamsOk)
  PROVE  \/ ParamsOk /\ next_layer /\ Parsed(lidx)
         \/ ~ParamsOk /\ Refused
<1>1. opts[lidx].typ \in LayerTypes /\ opts[lidx].typ # "Done"
  BY DEF Parsing, LayerTypes
<1> QED BY <1>1 DEF OnwardIf, ParamsOk, Parsed, Refused

(* The step of a handler of one header before next_layer, in one form:     *)
(* header at off, log kept or longer by one write within the header.       *)
HeaderStep(off, hi) ==
  /\ pc = "down" /\ Parsed(lidx) /\ opts[lidx].typ # "Payload" /\ next_layer
  /\ off = IF opts[lidx].typ = "Ether" THEN 0 ELSE data_len
  /\ hi <= off + HeaderLen(opts[lidx].typ)
  /\ act' = [act EXCEPT ![lidx].off = off]
  /\ log' = log \/ log' = Append(log, Wrote(off, hi))
  /\ data_len' = u16(data_len + HeaderLen(opts[lidx].typ))

(* Such a step goes down. *)
LEMMA EnterHeader ==
  ASSUME TypeOK, Shape, NEW off \in U16, NEW hi \in Nat, HeaderStep(off, hi)
  PROVE  GoesDown /\ act' \in [Idx -> Activation] /\ log' \in Seq(Write) /\ data_len' \in U16
<1>1. lidx \in Idx /\ act[lidx] \in Activation /\ data_len \in Nat
  BY Here DEF Running, HeaderStep
<1>2. act \in [Idx -> Activation] /\ log \in Seq(Write)
  BY DEF TypeOK
<1>3. /\ [act[lidx] EXCEPT !.off = off] \in Activation
      /\ [act[lidx] EXCEPT !.off = off].off = off
  BY <1>1, OffSet
<1>4. act' = [act EXCEPT ![lidx] = [act[lidx] EXCEPT !.off = off]]
  BY <1>1, <1>2 DEF HeaderStep
<1>5. /\ act' \in [Idx -> Activation] /\ act'[lidx] = [act[lidx] EXCEPT !.off = off]
      /\ \A j \in Idx \ {lidx} : act'[j] = act[j]
  BY <1>1, <1>2, <1>3, <1>4, ActExcept
<1>6. act'[lidx].off = off
  BY <1>3, <1>5
<1>7. data_len' \in U16
  <2>1. HeaderLen(opts[lidx].typ) \in Nat
    BY HeaderLens DEF Parsed, HeaderStep
  <2>2. data_len + HeaderLen(opts[lidx].typ) \in Int
    BY <1>1, <2>1
  <2> QED BY <2>2, U16Facts DEF HeaderStep
<1>8. /\ log' \in Seq(Write) /\ Grows
      /\ \A w \in Added : w.by = lidx /\ w.chi = 0 /\ w.lo = off /\ w.hi = hi
  <2>1. off \in Int
    BY U16Facts
  <2> QED BY <1>1, <1>2, <2>1, OneWrite DEF HeaderStep
<1>9. off <= off
  BY U16Facts
<1> QED BY <1>5, <1>6, <1>7, <1>8, <1>9 DEF GoesDown, HeaderStep

-----------------------------------------------------------------------------
(* The handlers before next_layer. *)

(* _encode_ether. *)
LEMMA EtherDown ==
  ASSUME TypeOK, Shape, EnterEther
  PROVE  Kept /\ (GoesDown \/ Refused)
<1>1. pc = "down" /\ opts[lidx].typ = "Ether" /\ opts[lidx].typ \in Parsing
  BY DEF EnterEther, Entering, Parsing
<1>2. lidx \in Idx /\ act \in [Idx -> Activation] /\ act[lidx] \in Activation
      /\ log \in Seq(Write) /\ data_len \in Nat
  BY <1>1, Here DEF TypeOK, Running
<1>3. /\ act' = [act EXCEPT ![lidx].off = 0]
      /\ log' = Append(log, Wrote(0, 12))
      /\ data_len' = u16(data_len + 14)
      /\ OnwardIf(ParamsOk)
      /\ UNCHANGED <<frameVars, tsc_off>>
  BY DEF EnterEther
<1>4. 0 \in U16
  BY DEF U16, UINT16_MAX
<1>5. Kept
  <2>1. data_len' \in U16 /\ tsc_off' \in U16
    BY <1>2, <1>3, U16Facts DEF TypeOK
  <2>2. [act[lidx] EXCEPT !.off = 0] \in Activation
    BY <1>2, <1>4, OffSet
  <2>3. act' \in [Idx -> Activation]
    BY <1>2, <1>3, <2>2
  <2>4. log' \in Seq(Write)
    <3>1. 0 \in Int /\ 12 \in Nat
      OBVIOUS
    <3> QED BY <1>2, <1>3, <3>1, OneWrite
  <2> QED BY <1>3, <2>1, <2>3, <2>4 DEF Kept
<1>6. CASE ParamsOk /\ next_layer /\ Parsed(lidx)
  <2>1. HeaderStep(0, 12)
    BY <1>1, <1>3, <1>6, HeaderLens DEF HeaderStep
  <2> QED BY <1>4, <1>5, <2>1, EnterHeader
<1> QED BY <1>1, <1>3, <1>5, <1>6, Onward

(* _encode_vlan. *)
LEMMA VlanDown ==
  ASSUME TypeOK, Shape, EnterVlan
  PROVE  Kept /\ (GoesDown \/ Refused)
<1>1. pc = "down" /\ opts[lidx].typ \in {"Dot1q", "Dot1ad"} /\ opts[lidx].typ \in Parsing
      /\ HeaderLen(opts[lidx].typ) = 4
  BY HeaderLens DEF EnterVlan, Entering, Parsing
<1>2. /\ OnwardIf(ParamsOk) /\ UNCHANGED <<frameVars, tsc_off>>
      /\ act \in [Idx -> Activation] /\ log \in Seq(Write)
      /\ data_len \in U16 /\ data_len \in Nat /\ tsc_off \in U16
  BY U16Facts DEF EnterVlan, TypeOK
<1>3. CASE ParamsOk /\ next_layer /\ Parsed(lidx)
  <2>1. /\ act' = [act EXCEPT ![lidx].off = data_len]
        /\ log' = Append(log, Wrote(data_len, data_len + 4))
        /\ data_len' = u16(data_len + 4)
    BY <1>3 DEF EnterVlan
  <2>2. data_len + 4 \in Nat
    BY <1>2
  <2>3. HeaderStep(data_len, data_len + 4)
    BY <1>1, <1>2, <1>3, <2>1, <2>2 DEF HeaderStep
  <2>4. /\ GoesDown /\ act' \in [Idx -> Activation] /\ log' \in Seq(Write)
        /\ data_len' \in U16
    BY <1>2, <2>2, <2>3, EnterHeader
  <2> QED BY <1>2, <2>4 DEF Kept
<1>4. CASE ~ParamsOk /\ Refused
  <2>1. UNCHANGED <<act, log, data_len>>
    BY <1>4 DEF EnterVlan
  <2> QED BY <1>2, <1>4, <2>1 DEF Kept
<1> QED BY <1>1, <1>2, <1>3, <1>4, Onward

(* _encode_ipv4, _encode_udp and _encode_tcp. *)
LEMMA InetDown ==
  ASSUME TypeOK, Shape, EnterInet
  PROVE  Kept /\ (GoesDown \/ Refused)
<1> DEFINE n == HdrLen(opts[lidx].typ)
<1>1. pc = "down" /\ opts[lidx].typ \in {"IPv4", "UDP", "TCP"} /\ opts[lidx].typ \in Parsing
      /\ HeaderLen(opts[lidx].typ) = n /\ n \in Nat
  BY HeaderLens DEF EnterInet, Entering, Parsing
<1>2. /\ lidx \in Idx /\ act \in [Idx -> Activation] /\ act[lidx] \in Activation
      /\ log \in Seq(Write) /\ data_len \in U16 /\ data_len \in Nat /\ tsc_off \in U16
  BY <1>1, Here DEF TypeOK, Running
<1>3. /\ act' = [act EXCEPT ![lidx].off = data_len]
      /\ log' = Append(log, Wrote(data_len, data_len + n))
      /\ data_len' = IF ParamsOk THEN u16(data_len + n) ELSE data_len
      /\ OnwardIf(ParamsOk)
      /\ UNCHANGED <<frameVars, tsc_off>>
  BY DEF EnterInet
<1> HIDE DEF n
<1>4. data_len + n \in Nat
  BY <1>1, <1>2
<1>5. Kept
  <2>1. data_len' \in U16 /\ tsc_off' \in U16
    BY <1>2, <1>3, <1>4, U16Facts
  <2>2. [act[lidx] EXCEPT !.off = data_len] \in Activation
    BY <1>2, OffSet
  <2>3. act' \in [Idx -> Activation]
    BY <1>2, <1>3, <2>2
  <2>4. log' \in Seq(Write)
    BY <1>2, <1>3, <1>4, OneWrite
  <2> QED BY <1>3, <2>1, <2>3, <2>4 DEF Kept
<1>6. CASE ParamsOk /\ next_layer /\ Parsed(lidx)
  <2>1. HeaderStep(data_len, data_len + n)
    BY <1>1, <1>2, <1>3, <1>4, <1>6 DEF HeaderStep
  <2> QED BY <1>2, <1>4, <1>5, <2>1, EnterHeader
<1> QED BY <1>1, <1>3, <1>5, <1>6, Onward

(* _encode_vxlan, _encode_tsc, and the handlers that only make room. *)
LEMMA PlainDown ==
  ASSUME TypeOK, Shape, EnterVxlan \/ EnterTSC \/ EnterRoom
  PROVE  Kept /\ GoesDown
<1> DEFINE n == HdrLen(opts[lidx].typ)
<1>1. /\ pc = "down" /\ opts[lidx].typ \in {"Vxlan", "TSC", "IPv6", "Echo", "Raw"}
      /\ next_layer /\ UNCHANGED frameVars /\ (tsc_off' = data_len \/ tsc_off' = tsc_off)
      /\ act' = [act EXCEPT ![lidx].off = data_len]
      /\ log' = log \/ log' = Append(log, Wrote(data_len, data_len + n))
      /\ data_len' = u16(data_len + n)
  <2>1. CASE EnterVxlan
    BY <2>1, HeaderLens DEF EnterVxlan, Entering, VxlanHeader
  <2>2. CASE EnterTSC
    BY <2>2, HeaderLens DEF EnterTSC, Entering
  <2>3. CASE EnterRoom
    BY <2>3 DEF EnterRoom, Entering
  <2> QED BY <2>1, <2>2, <2>3
<1>2. /\ HeaderLen(opts[lidx].typ) = n /\ n \in Nat /\ opts[lidx].typ # "Payload"
      /\ opts[lidx].typ # "Ether" /\ Parsed(lidx)
  BY <1>1, HeaderLens DEF Parsed, Parsing, LayerTypes
<1> HIDE DEF n
<1>3. data_len \in U16 /\ data_len \in Nat /\ tsc_off \in U16
  BY U16Facts DEF TypeOK
<1>4. data_len + n \in Nat
  BY <1>2, <1>3
<1>5. GoesDown /\ act' \in [Idx -> Activation] /\ log' \in Seq(Write) /\ data_len' \in U16
  <2>1. HeaderStep(data_len, data_len + n)
    BY <1>1, <1>2, <1>3, <1>4 DEF HeaderStep
  <2> QED BY <1>3, <1>4, <2>1, EnterHeader
<1> QED BY <1>1, <1>3, <1>5 DEF Kept

(* A set of naturals that is not empty has a least element. *)
LEMMA NatMinimum ==
  ASSUME NEW S \in SUBSET Nat, S # {}
  PROVE  \E x \in S : \A y \in S : x <= y
<1>1. PICK x \in S : \A y \in S : ~(<<y, x>> \in OpToRel(<, Nat))
  BY NatLessThanWellFounded, WFMin
<1>2. ASSUME NEW y \in S PROVE x <= y
  <2>1. x \in Nat /\ y \in Nat /\ <<y, x>> \in Nat \X Nat
    OBVIOUS
  <2>2. OpToRel(<, Nat) = {ss \in Nat \X Nat : ss[1] < ss[2]}
    BY DEF OpToRel
  <2>3. ~(<<y, x>>[1] < <<y, x>>[2])
    BY <1>1, <2>1, <2>2, Zenon
  <2> QED BY <2>1, <2>3
<1> QED BY <1>2

(* What the parameters of Payload set are numbers. *)
LEMMA PayloadNumbers ==
  ASSUME NEW ps \in Seq(Param), NEW plen \in Nat
  PROVE  PktLen(ps, plen) \in Int /\ Fill(ps) \in Int
<1>1. ASSUME NEW i \in DOMAIN ps PROVE ps[i].val \in Int
  <2>1. ps[i] \in Param
    OBVIOUS
  <2> QED BY <2>1 DEF Param
<1>2. \A n \in Int : ForcedSize(n) \in Int
  BY DEF ForcedSize, ETHER_MIN_LEN, ETHER_MAX_LEN, ETHER_CRC_LEN
<1>3. PktLen(ps, plen) \in Int
  <2>1. CASE \E i \in DOMAIN ps : ps[i].key = "size"
    <3> DEFINE c == CHOOSE i \in DOMAIN ps : ps[i].key = "size"
    <3>1. c \in DOMAIN ps
      BY <2>1
    <3>2. PktLen(ps, plen) = ForcedSize(ps[c].val)
      BY <2>1 DEF PktLen
    <3> HIDE DEF c
    <3>3. ps[c].val \in Int
      BY <1>1, <3>1
    <3> QED BY <1>2, <3>2, <3>3, Zenon
  <2>2. CASE /\ ~\E i \in DOMAIN ps : ps[i].key = "size"
             /\ \E i \in DOMAIN ps : ps[i].key = "append"
    <3> DEFINE c == CHOOSE i \in DOMAIN ps : ps[i].key = "append"
    <3>1. c \in DOMAIN ps
      BY <2>2
    <3>2. PktLen(ps, plen) = plen + ps[c].val
      BY <2>2 DEF PktLen
    <3> HIDE DEF c
    <3>3. ps[c].val \in Int
      BY <1>1, <3>1
    <3> QED BY <3>2, <3>3
  <2>3. CASE /\ ~\E i \in DOMAIN ps : ps[i].key = "size"
             /\ ~\E i \in DOMAIN ps : ps[i].key = "append"
    BY <2>3 DEF PktLen
  <2> QED BY <2>1, <2>2, <2>3
<1>4. Fill(ps) \in Int
  <2> DEFINE is == {i \in DOMAIN ps : ps[i].key = "fill"}
             back == {Len(ps) - i : i \in is}
             c == CHOOSE i \in is : \A j \in is : j <= i
  <2>1. CASE is = {}
    BY <2>1 DEF Fill, FGEN_FILLER_PATTERN
  <2>2. CASE is # {}
    <3>1. Len(ps) \in Nat /\ \A i \in is : i \in Nat /\ i <= Len(ps)
      OBVIOUS
    <3>2. back \in SUBSET Nat /\ back # {}
      BY <2>2, <3>1
    <3>3. PICK x \in back : \A y \in back : x <= y
      BY <3>2, NatMinimum
    <3>4. PICK i \in is : x = Len(ps) - i
      BY <3>3
    <3>5. ASSUME NEW j \in is PROVE j <= i
      <4>1. Len(ps) - j \in back
        OBVIOUS
      <4>2. Len(ps) - i <= Len(ps) - j
        BY <3>3, <3>4, <4>1
      <4> QED BY <3>1, <4>2
    <3>6. c \in is
      BY <3>5
    <3>7. Fill(ps) = ps[c].val
      BY <2>2 DEF Fill
    <3> QED BY <1>1, <3>6, <3>7
  <2> QED BY <2>1, <2>2
<1> QED BY <1>3, <1>4

(* _encode_payload. *)
LEMMA PayloadDown ==
  ASSUME TypeOK, Shape, EnterPayload
  PROVE  Kept /\ (GoesDown \/ Refused)
<1> DEFINE ps == opts[lidx].params
           pktlen == PktLen(ps, data_len)
           a == [act[lidx] EXCEPT !.off = data_len, !.pktlen = pktlen, !.fill = Fill(ps)]
<1>1. pc = "down" /\ opts[lidx].typ = "Payload" /\ opts[lidx].typ \in Parsing
  BY DEF EnterPayload, Entering, Parsing
<1>2. /\ lidx \in Idx /\ act \in [Idx -> Activation] /\ act[lidx] \in Activation
      /\ log \in Seq(Write) /\ data_len \in U16 /\ data_len \in Nat /\ tsc_off \in U16
      /\ ps \in Seq(Param)
  BY <1>1, Here DEF TypeOK, Running
<1>3. OnwardIf(ParamsOk) /\ UNCHANGED <<frameVars, tsc_off>>
  BY DEF EnterPayload
<1>4. CASE ParamsOk /\ next_layer /\ Parsed(lidx)
  <2>1. /\ act' = [act EXCEPT ![lidx] = a]
        /\ log' = log \/ (pktlen > data_len /\ log' = Append(log, Wrote(data_len, pktlen)))
        /\ data_len' = u16(pktlen)
    BY <1>4 DEF EnterPayload
  <2> HIDE DEF ps
  <2>2. pktlen \in Int /\ Fill(ps) \in Int
    BY <1>2, PayloadNumbers
  <2> HIDE DEF pktlen
  <2>3. a \in Activation /\ a.off = data_len /\ a.pktlen = pktlen
    BY <1>2, <2>2 DEF Activation
  <2> HIDE DEF a
  <2>4. /\ act' \in [Idx -> Activation] /\ act'[lidx] = a
        /\ \A j \in Idx \ {lidx} : act'[j] = act[j]
    BY <1>2, <2>1, <2>3, ActExcept
  <2>5. data_len' \in U16
    BY <2>1, <2>2, U16Facts
  <2>6. /\ log' \in Seq(Write) /\ Grows
        /\ \A w \in Added : w.by = lidx /\ w.chi = 0 /\ w.lo = data_len
    <3>1. CASE pktlen > data_len
      <4>1. pktlen \in Nat
        BY <1>2, <2>2, <3>1
      <4> QED BY <1>2, <2>1, <4>1, OneWrite
    <3>2. CASE ~(pktlen > data_len)
      <4>1. log' = log
        BY <2>1, <3>2
      <4> QED BY <1>2, <4>1, SameGrows
    <3> QED BY <3>1, <3>2
  <2>7. act'[lidx].off = data_len /\ act'[lidx].pktlen = PktLen(opts[lidx].params, data_len)
    BY <2>3, <2>4 DEF pktlen, ps
  <2>8. data_len' = u16(act'[lidx].pktlen)
    BY <2>1, <2>3, <2>4
  <2>9. \A w \in Added : w.by = lidx /\ w.chi = 0 /\ act'[lidx].off <= w.lo
    BY <1>2, <2>6, <2>7
  <2>10. GoesDown
    BY <1>1, <1>4, <2>4, <2>6, <2>7, <2>8, <2>9 DEF GoesDown
  <2> QED BY <1>2, <1>3, <2>4, <2>5, <2>6, <2>10 DEF Kept
<1>5. CASE ~ParamsOk /\ Refused
  <2>1. UNCHANGED <<act, log, data_len>>
    BY <1>5 DEF EnterPayload
  <2> QED BY <1>2, <1>3, <1>5, <2>1 DEF Kept
<1> QED BY <1>1, <1>3, <1>4, <1>5, Onward

(* A layer without a handler, and _encode_done. *)
LEMMA EndDown ==
  ASSUME TypeOK, Shape, NoHandler \/ EnterDone
  PROVE  Kept /\ (Refused \/ Turns)
<1>1. CASE NoHandler
  <2>1. opts[lidx].typ = "Unknown" /\ pc = "down" /\ Leave("error")
        /\ UNCHANGED <<frameVars, data_len, tsc_off, act, log>>
    BY <1>1 DEF NoHandler, Entering
  <2>2. Refused
    BY <2>1 DEF Refused, Parsed, LayerTypes
  <2> QED BY <2>1, <2>2 DEF Kept, TypeOK
<1>2. CASE EnterDone
  <2>1. data_len' = Clamp(data_len) /\ UNCHANGED <<frameVars, tsc_off, act, log>>
    BY <1>2 DEF EnterDone
  <2>2. data_len \in Nat /\ data_len <= 65535
    BY U16Facts DEF TypeOK
  <2>3. Clamp(data_len) \in Nat /\ Clamp(data_len) <= UINT16_MAX /\ UINT16_MAX \in Nat
    BY <2>2 DEF Clamp, ETH_ZLEN, ETH_FRAME_LEN, UINT16_MAX
  <2>4. data_len' \in U16
    BY <2>1, <2>3 DEF U16
  <2> QED BY <1>2, <2>1, <2>4 DEF Kept, TypeOK, Turns
<1> QED BY <1>1, <1>2

(* Every handler before next_layer. *)
LEMMA AnyDown ==
  ASSUME TypeOK, Shape, Enter
  PROVE  Kept /\ (GoesDown \/ Refused \/ Turns)
BY EtherDown, VlanDown, InetDown, PlainDown, PayloadDown, EndDown DEF Enter

-----------------------------------------------------------------------------
(* The handlers after next_layer returned. *)

(* The header fields a handler completes. *)
LEMMA Completed ==
  ASSUME act \in [Idx -> Activation], lidx \in Idx, NEW len \in U16, NEW nxt \in NextNames,
         act' = [act EXCEPT ![lidx] = [@ EXCEPT !.len = len, !.nxt = nxt]]
  PROVE  /\ act' \in [Idx -> Activation] /\ act'[lidx].len = len
         /\ \A i \in Idx : /\ act'[i].off = act[i].off /\ act'[i].pktlen = act[i].pktlen
                           /\ act'[i].fill = act[i].fill
         /\ \A i \in Idx \ {lidx} : act'[i].len = act[i].len
<1>1. act[lidx] \in Activation
  OBVIOUS
<1>2. [act[lidx] EXCEPT !.len = len, !.nxt = nxt] \in Activation
  BY <1>1 DEF Activation
<1>3. /\ [act[lidx] EXCEPT !.len = len, !.nxt = nxt].off = act[lidx].off
      /\ [act[lidx] EXCEPT !.len = len, !.nxt = nxt].pktlen = act[lidx].pktlen
      /\ [act[lidx] EXCEPT !.len = len, !.nxt = nxt].fill = act[lidx].fill
      /\ [act[lidx] EXCEPT !.len = len, !.nxt = nxt].len = len
  BY <1>1 DEF Activation
<1>4. /\ act' \in [Idx -> Activation]
      /\ act'[lidx] = [act[lidx] EXCEPT !.len = len, !.nxt = nxt]
      /\ \A j \in Idx \ {lidx} : act'[j] = act[j]
  BY <1>2, ActExcept
<1> QED BY <1>3, <1>4

(* The protocol a handler completes. *)
LEMMA Named ==
  ASSUME act \in [Idx -> Activation], lidx \in Idx, NEW nxt \in NextNames,
         act' = [act EXCEPT ![lidx].nxt = nxt]
  PROVE  /\ act' \in [Idx -> Activation]
         /\ \A i \in Idx : /\ act'[i].off = act[i].off /\ act'[i].pktlen = act[i].pktlen
                           /\ act'[i].fill = act[i].fill
         /\ \A i \in Idx \ {lidx} : act'[i].len = act[i].len
<1>1. act[lidx] \in Activation
  OBVIOUS
<1>2. [act[lidx] EXCEPT !.nxt = nxt] \in Activation
  BY <1>1 DEF Activation
<1>3. /\ [act[lidx] EXCEPT !.nxt = nxt].off = act[lidx].off
      /\ [act[lidx] EXCEPT !.nxt = nxt].pktlen = act[lidx].pktlen
      /\ [act[lidx] EXCEPT !.nxt = nxt].fill = act[lidx].fill
  BY <1>1 DEF Activation
<1>4. act' = [act EXCEPT ![lidx] = [act[lidx] EXCEPT !.nxt = nxt]]
  OBVIOUS
<1>5. /\ act' \in [Idx -> Activation]
      /\ act'[lidx] = [act[lidx] EXCEPT !.nxt = nxt]
      /\ \A j \in Idx \ {lidx} : act'[j] = act[j]
  BY <1>2, <1>4, ActExcept
<1> QED BY <1>3, <1>5

(* The step of a handler of one header after next_layer, in one form: the  *)
(* log kept, or longer by one write within the header.                     *)
UpStep(lo, hi) ==
  /\ pc = "up" /\ ret # "error" /\ Leave(opts[lidx].typ)
  /\ opts[lidx].typ # "Payload"
  /\ opts[lidx].typ # "Dot1q" \/ ret # "Dot1q"
  /\ UNCHANGED data_len
  /\ \A i \in Idx : /\ act'[i].off = act[i].off /\ act'[i].pktlen = act[i].pktlen
                    /\ act'[i].fill = act[i].fill
  /\ \A i \in Idx \ {lidx} : act'[i].len = act[i].len
  /\ opts[lidx].typ \in {"IPv4", "UDP"} => act'[lidx].len = u16(data_len - Off)
  /\ log' = log \/ log' = Append(log, Wrote(lo, hi))
  /\ opts[lidx].typ = "Ether" \/ Off <= lo
  /\ hi <= End(lidx)

(* Such a step returns. *)
LEMMA UpHeader ==
  ASSUME TypeOK, Shape, NEW lo \in Nat, NEW hi \in Nat, UpStep(lo, hi)
  PROVE  Returns /\ log' \in Seq(Write)
<1>1. lidx \in Idx
  BY Here DEF UpStep, Running
<1>2. /\ log' \in Seq(Write) /\ Grows
      /\ Len(log) \in Nat /\ (Len(log') = Len(log) \/ Len(log') = Len(log) + 1)
      /\ \A w \in Added : w.by = lidx /\ w.chi = 0 /\ w.lo = lo /\ w.hi = hi
  <2>1. log \in Seq(Write)
    BY DEF TypeOK
  <2> QED BY <1>1, <2>1, OneWrite DEF UpStep
<1>3. \A w \in Added : /\ w.by = lidx
                       /\ w.chi = 0 /\ ~(w.chi > 0)
                       /\ opts[lidx].typ = "Ether" \/ Off <= w.lo
                       /\ w.hi <= End(lidx)
  BY <1>2 DEF UpStep
<1>4. ASSUME NEW k \in Len(log) + 1..Len(log'), NEW j \in k + 1..Len(log') PROVE FALSE
  BY <1>2
<1> QED BY <1>2, <1>3, <1>4 DEF Returns, UpStep

(* Where a header is, for the handler that completes it. *)
LEMMA Inside ==
  ASSUME TypeOK, Shape, pc = "up"
  PROVE  /\ lidx \in Idx /\ Off \in Nat /\ Off \in U16 /\ data_len \in U16 /\ data_len \in Nat
         /\ End(lidx) = Off + HeaderLen(opts[lidx].typ)
         /\ act \in [Idx -> Activation] /\ log \in Seq(Write) /\ tsc_off \in U16
         /\ \A i \in Idx : act[i].off \in Nat /\ act[i].pktlen \in Int
<1>1. lidx \in Idx /\ Off \in Nat /\ data_len \in Nat /\ act[lidx] \in Activation
  BY Here DEF Running
<1>2. Off \in U16 /\ data_len \in U16
  BY <1>1 DEF Activation, Off, TypeOK
<1>3. End(lidx) = Off + HeaderLen(opts[lidx].typ)
  BY DEF End, Off
<1>4. ASSUME NEW i \in Idx PROVE act[i].off \in Nat /\ act[i].pktlen \in Int
  <2>1. act[i] \in Activation
    BY DEF TypeOK
  <2>2. act[i].off \in U16 /\ act[i].pktlen \in Int
    BY <2>1 DEF Activation
  <2> QED BY <2>2, U16Facts
<1> QED BY <1>1, <1>2, <1>3, <1>4 DEF TypeOK

(* The names of protocols and ports. *)
LEMMA NamesKnown ==
  \A r : /\ EtherType(r) \in NextNames /\ VlanProto(r) \in NextNames
         /\ IpProto(r) \in NextNames /\ UdpPorts(r) \in NextNames
<1> SUFFICES ASSUME NEW r
             PROVE  /\ EtherType(r) \in NextNames /\ VlanProto(r) \in NextNames
                    /\ IpProto(r) \in NextNames /\ UdpPorts(r) \in NextNames
  OBVIOUS
<1>1. EtherType(r) \in NextNames
  BY DEF EtherType, NextNames
<1>2. VlanProto(r) \in NextNames
  BY DEF VlanProto, NextNames
<1>3. UdpPorts(r) \in NextNames
  BY DEF UdpPorts, NextNames
<1>4. IpProto(r) \in NextNames
  BY DEF IpProto, NextNames
<1> QED BY <1>1, <1>2, <1>3, <1>4

(* _encode_ether. *)
LEMMA EtherUp ==
  ASSUME TypeOK, Shape, LeaveEther
  PROVE  Kept /\ Returns
<1>1. /\ pc = "up" /\ opts[lidx].typ = "Ether" /\ ret # "error" /\ Leave(opts[lidx].typ)
      /\ act' = [act EXCEPT ![lidx].nxt = EtherType(ret)]
      /\ log' = Append(log, Wrote(12, 14))
      /\ UNCHANGED <<frameVars, data_len, tsc_off>>
  BY DEF LeaveEther, Leaving
<1>2. /\ lidx \in Idx /\ Off \in Nat /\ act \in [Idx -> Activation]
      /\ End(lidx) = Off + 14 /\ data_len \in U16 /\ tsc_off \in U16
  BY <1>1, Inside, HeaderLens
<1>3. /\ act' \in [Idx -> Activation]
      /\ \A i \in Idx : /\ act'[i].off = act[i].off /\ act'[i].pktlen = act[i].pktlen
                        /\ act'[i].fill = act[i].fill
      /\ \A i \in Idx \ {lidx} : act'[i].len = act[i].len
  BY <1>1, <1>2, Named, NamesKnown
<1>4. UpStep(12, 14)
  BY <1>1, <1>2, <1>3 DEF UpStep
<1> QED BY <1>1, <1>2, <1>3, <1>4, UpHeader DEF Kept

(* _encode_vlan, which refuses a Dot1q tag in a Dot1q tag. *)
LEMMA VlanUp ==
  ASSUME TypeOK, Shape, LeaveVlan
  PROVE  Kept /\ (Returns \/ Fails)
<1>1. /\ pc = "up" /\ opts[lidx].typ \in {"Dot1q", "Dot1ad"} /\ ret # "error"
      /\ UNCHANGED <<frameVars, data_len, tsc_off>>
  BY DEF LeaveVlan, Leaving
<1>2. /\ lidx \in Idx /\ Off \in Nat /\ act \in [Idx -> Activation] /\ log \in Seq(Write)
      /\ End(lidx) = Off + 4 /\ data_len \in U16 /\ tsc_off \in U16
  BY <1>1, Inside, HeaderLens
<1>3. CASE opts[lidx].typ = "Dot1q" /\ ret = "Dot1q"
  <2>1. Leave("error") /\ UNCHANGED <<act, log>>
    BY <1>3 DEF LeaveVlan
  <2> QED BY <1>1, <1>2, <1>3, <2>1 DEF Kept, Fails
<1>4. CASE ~(opts[lidx].typ = "Dot1q" /\ ret = "Dot1q")
  <2>1. /\ act' = [act EXCEPT ![lidx].nxt = VlanProto(ret)]
        /\ log' = log \/ log' = Append(log, Wrote(Off + 2, Off + 4))
        /\ Leave(opts[lidx].typ)
    BY <1>4 DEF LeaveVlan
  <2>2. /\ act' \in [Idx -> Activation]
        /\ \A i \in Idx : /\ act'[i].off = act[i].off /\ act'[i].pktlen = act[i].pktlen
                          /\ act'[i].fill = act[i].fill
        /\ \A i \in Idx \ {lidx} : act'[i].len = act[i].len
    BY <1>2, <2>1, Named, NamesKnown
  <2>3. Off + 2 \in Nat /\ Off + 4 \in Nat /\ Off <= Off + 2 /\ Off + 4 <= End(lidx)
    BY <1>2
  <2>4. UpStep(Off + 2, Off + 4)
    BY <1>1, <1>4, <2>1, <2>2, <2>3 DEF UpStep
  <2> QED BY <1>1, <1>2, <2>2, <2>3, <2>4, UpHeader DEF Kept
<1> QED BY <1>3, <1>4

(* _encode_udp. *)
LEMMA UdpUp ==
  ASSUME TypeOK, Shape, LeaveUDP
  PROVE  Kept /\ Returns
<1>1. /\ pc = "up" /\ opts[lidx].typ = "UDP" /\ ret # "error" /\ Leave(opts[lidx].typ)
      /\ act' = [act EXCEPT ![lidx] =
                   [@ EXCEPT !.len = u16(data_len - Off), !.nxt = UdpPorts(ret)]]
      /\ log' = Append(log, Wrote(Off, Off + 6))
      /\ UNCHANGED <<frameVars, data_len, tsc_off>>
  BY DEF LeaveUDP, Leaving
<1>2. /\ lidx \in Idx /\ Off \in Nat /\ act \in [Idx -> Activation]
      /\ End(lidx) = Off + 8 /\ data_len \in U16 /\ data_len \in Nat /\ tsc_off \in U16
  BY <1>1, Inside, HeaderLens
<1>3. u16(data_len - Off) \in U16
  BY <1>2, U16Facts
<1>4. /\ act' \in [Idx -> Activation] /\ act'[lidx].len = u16(data_len - Off)
      /\ \A i \in Idx : /\ act'[i].off = act[i].off /\ act'[i].pktlen = act[i].pktlen
                        /\ act'[i].fill = act[i].fill
      /\ \A i \in Idx \ {lidx} : act'[i].len = act[i].len
  BY <1>1, <1>2, <1>3, Completed, NamesKnown
<1>5. Off + 6 \in Nat /\ Off <= Off /\ Off + 6 <= End(lidx)
  BY <1>2
<1>6. UpStep(Off, Off + 6)
  BY <1>1, <1>4, <1>5 DEF UpStep
<1> QED BY <1>1, <1>2, <1>4, <1>5, <1>6, UpHeader DEF Kept

(* _encode_vxlan. *)
LEMMA VxlanUp ==
  ASSUME TypeOK, Shape, LeaveVxlan
  PROVE  Kept /\ Returns
<1> DEFINE nxt == IF ret = "Ether" THEN "ETH" ELSE "0"
<1>1. /\ pc = "up" /\ opts[lidx].typ = "Vxlan" /\ ret # "error" /\ Leave(opts[lidx].typ)
      /\ act' = [act EXCEPT ![lidx].nxt = nxt]
      /\ log' = Append(log, Wrote(Off, Off + 4))
      /\ UNCHANGED <<frameVars, data_len, tsc_off>>
  BY DEF LeaveVxlan, Leaving
<1>2. nxt \in NextNames
  BY DEF NextNames
<1> HIDE DEF nxt
<1>3. /\ lidx \in Idx /\ Off \in Nat /\ act \in [Idx -> Activation]
      /\ End(lidx) = Off + 8 /\ data_len \in U16 /\ tsc_off \in U16
  BY <1>1, Inside, HeaderLens
<1>4. /\ act' \in [Idx -> Activation]
      /\ \A i \in Idx : /\ act'[i].off = act[i].off /\ act'[i].pktlen = act[i].pktlen
                        /\ act'[i].fill = act[i].fill
      /\ \A i \in Idx \ {lidx} : act'[i].len = act[i].len
  BY <1>1, <1>2, <1>3, Named
<1>5. Off + 4 \in Nat /\ Off <= Off /\ Off + 4 <= End(lidx)
  BY <1>3
<1>6. UpStep(Off, Off + 4)
  BY <1>1, <1>4, <1>5 DEF UpStep
<1> QED BY <1>1, <1>3, <1>4, <1>5, <1>6, UpHeader DEF Kept

(* The handlers that complete nothing. *)
LEMMA OtherUp ==
  ASSUME TypeOK, Shape, LeaveOther
  PROVE  Kept /\ Returns
<1>1. /\ pc = "up" /\ opts[lidx].typ \in {"IPv6", "Echo", "TSC", "Raw"} /\ ret # "error"
      /\ Leave(opts[lidx].typ)
      /\ UNCHANGED <<frameVars, data_len, tsc_off, act, log>>
  BY DEF LeaveOther, Leaving
<1>2. /\ Off \in Nat /\ End(lidx) = Off + HeaderLen(opts[lidx].typ)
      /\ HeaderLen(opts[lidx].typ) \in Nat
  BY <1>1, Inside, HeaderLens DEF LayerTypes
<1>3. Off <= Off /\ Off <= End(lidx)
  BY <1>2
<1>4. UpStep(Off, Off)
  BY <1>1, <1>3 DEF UpStep
<1> QED BY <1>1, <1>2, <1>4, UpHeader DEF Kept, TypeOK

(* Writes at the end of the log. *)
LEMMA WritesAdded ==
  ASSUME log \in Seq(Write), NEW ws \in Seq(Write), log' = log \o ws,
         \A k \in 1..Len(ws) : \A j \in k + 1..Len(ws) : Clear(ws[j], ws[k])
  PROVE  /\ log' \in Seq(Write) /\ Grows
         /\ \A w \in Added : \E k \in 1..Len(ws) : w = ws[k]
         /\ \A k \in Len(log) + 1..Len(log') : \A j \in k + 1..Len(log') :
              Clear(log'[j], log'[k])
<1>1. Len(log) \in Nat /\ Len(ws) \in Nat /\ log' \in Seq(Write)
      /\ Len(log') = Len(log) + Len(ws)
  OBVIOUS
<1>2. \A k \in 1..Len(log) : log'[k] = log[k]
  OBVIOUS
<1>3. ASSUME NEW k \in Len(log) + 1..Len(log')
      PROVE  k - Len(log) \in 1..Len(ws) /\ log'[k] = ws[k - Len(log)]
  BY <1>1
<1>4. ASSUME NEW k \in Len(log) + 1..Len(log'), NEW j \in k + 1..Len(log')
      PROVE  Clear(log'[j], log'[k])
  <2>1. j \in Len(log) + 1..Len(log')
    BY <1>1
  <2>2. /\ k - Len(log) \in 1..Len(ws) /\ log'[k] = ws[k - Len(log)]
        /\ j - Len(log) \in 1..Len(ws) /\ log'[j] = ws[j - Len(log)]
    BY <1>3, <2>1
  <2>3. j - Len(log) \in (k - Len(log)) + 1..Len(ws)
    BY <1>1, <2>1
  <2> QED BY <2>2, <2>3
<1>5. \A w \in Added : \E k \in 1..Len(ws) : w = ws[k]
  BY <1>3 DEF Added
<1>6. Len(log) <= Len(log')
  BY <1>1
<1> QED BY <1>1, <1>2, <1>4, <1>5, <1>6 DEF Grows

(* Nothing written before a checksum was computed is covered by none. *)
LEMMA ClearOfPlain ==
  ASSUME NEW w \in Write, NEW v \in Write, v.chi = 0
  PROVE  Clear(w, v)
BY DEF Clear

(* _encode_tcp. *)
LEMMA TcpUp ==
  ASSUME TypeOK, Shape, LeaveTCP
  PROVE  Kept /\ Returns
<1> DEFINE w1 == Wrote(Off + 12, Off + 16)
           w2 == Wrote(Off, Off + 4)
           ws == <<w1, w2>>
<1>1. /\ pc = "up" /\ opts[lidx].typ = "TCP" /\ ret # "error" /\ Leave(opts[lidx].typ)
      /\ log' = log \o ws
      /\ UNCHANGED <<frameVars, data_len, tsc_off, act>>
  BY DEF LeaveTCP, Leaving
<1>2. /\ lidx \in Idx /\ Off \in Nat /\ End(lidx) = Off + 20 /\ log \in Seq(Write)
  BY <1>1, Inside, HeaderLens
<1>3. /\ w1 \in Write /\ w1.by = lidx /\ w1.chi = 0 /\ Off <= w1.lo /\ w1.hi <= End(lidx)
      /\ w2 \in Write /\ w2.by = lidx /\ w2.chi = 0 /\ Off <= w2.lo /\ w2.hi <= End(lidx)
  <2>1. Off + 12 \in Nat /\ Off + 16 \in Nat /\ Off + 4 \in Nat
    BY <1>2
  <2> QED BY <1>2, <2>1, WroteFacts
<1> HIDE DEF w1, w2
<1>4. ws \in Seq(Write) /\ Len(ws) = 2 /\ ws[1] = w1 /\ ws[2] = w2
  BY <1>3
<1>5. \A k \in 1..Len(ws) : ws[k] = w1 \/ ws[k] = w2
  BY <1>4
<1> HIDE DEF ws
<1>6. \A k \in 1..Len(ws) : \A j \in k + 1..Len(ws) : Clear(ws[j], ws[k])
  <2>1. ASSUME NEW k \in 1..Len(ws), NEW j \in k + 1..Len(ws) PROVE Clear(ws[j], ws[k])
    <3>1. k \in 1..Len(ws) /\ j \in 1..Len(ws)
      BY <1>4
    <3>2. ws[k] \in Write /\ ws[j] \in Write /\ ws[k].chi = 0
      BY <1>3, <1>5, <3>1
    <3> QED BY <3>2, ClearOfPlain
  <2> QED BY <2>1
<1>7. /\ log' \in Seq(Write) /\ Grows
      /\ \A w \in Added : \E k \in 1..Len(ws) : w = ws[k]
      /\ \A k \in Len(log) + 1..Len(log') : \A j \in k + 1..Len(log') :
           Clear(log'[j], log'[k])
  BY <1>1, <1>2, <1>4, <1>6, WritesAdded
<1>8. \A w \in Added : /\ w.by = lidx /\ w.chi = 0 /\ ~(w.chi > 0)
                       /\ Off <= w.lo /\ w.hi <= End(lidx)
  <2>1. \A w \in Added : w = w1 \/ w = w2
    BY <1>5, <1>7
  <2> QED BY <1>3, <2>1
<1>9. Returns
  BY <1>1, <1>7, <1>8 DEF Returns
<1> QED BY <1>1, <1>7, <1>9 DEF Kept, TypeOK

(* _encode_payload, which fills up what the done layer added. *)
LEMMA PayloadUp ==
  ASSUME TypeOK, Shape, LeavePayload \/ PayloadOverrun
  PROVE  Kept /\ (Returns \/ Crashes)
<1>1. CASE LeavePayload
  <2> DEFINE pktlen == act[lidx].pktlen
  <2>1. /\ pc = "up" /\ opts[lidx].typ = "Payload" /\ ret # "error" /\ Leave(opts[lidx].typ)
        /\ \/ log' = log
           \/ /\ data_len # pktlen /\ ~(data_len < pktlen) /\ act[lidx].fill # 0
              /\ log' = Append(log, Wrote(pktlen, data_len))
        /\ UNCHANGED <<frameVars, data_len, tsc_off, act>>
    BY <1>1 DEF LeavePayload, Leaving, FillsUp
  <2>2. lidx \in Idx /\ pktlen \in Int /\ data_len \in Nat /\ log \in Seq(Write)
    BY <2>1, Inside
  <2>3. /\ log' \in Seq(Write) /\ Grows
        /\ Len(log) \in Nat /\ (Len(log') = Len(log) \/ Len(log') = Len(log) + 1)
        /\ \A w \in Added : w.by = lidx /\ w.chi = 0 /\ w.lo = pktlen
    BY <2>1, <2>2, OneWrite
  <2>4. log' = log => Added = {}
    BY <2>2, SameGrows
  <2>5. \A w \in Added : /\ w.by = lidx /\ w.chi = 0 /\ ~(w.chi > 0)
                         /\ w.lo = pktlen /\ w.lo < data_len /\ act[lidx].fill # 0
    BY <2>1, <2>2, <2>3, <2>4
  <2>6. ASSUME NEW k \in Len(log) + 1..Len(log'), NEW j \in k + 1..Len(log') PROVE FALSE
    BY <2>3
  <2>7. Returns
    BY <2>1, <2>3, <2>5, <2>6 DEF Returns
  <2> QED BY <2>1, <2>3, <2>7 DEF Kept, TypeOK
<1>2. CASE PayloadOverrun
  BY <1>2 DEF PayloadOverrun, Leaving, Crashes, Kept, TypeOK
<1> QED BY <1>1, <1>2

(* Every handler but that of IPv4 passes an error on. *)
LEMMA ErrorUp ==
  ASSUME TypeOK, Shape, PassError
  PROVE  Kept /\ Fails
BY DEF PassError, Leaving, Kept, TypeOK, Fails

(* A sequence of three writes. *)
LEMMA ThreeWrites ==
  ASSUME NEW u \in Seq(Write), Len(u) = 3
  PROVE  u = <<u[1], u[2], u[3]>>
OBVIOUS

(* What LeaveIPv4 appends for a layer 4 it knows, as one sequence. *)
InParts(s, a, b, c, d) == Append(s, a) \o ((<<b>> \o <<c>>) \o <<d>>)
AtOnce(s, a, b, c, d) == s \o <<a, b, c, d>>

(* The two are the same. *)
LEMMA FourAppended ==
  ASSUME NEW s \in Seq(Write), NEW a \in Write, NEW b \in Write, NEW c \in Write,
         NEW d \in Write
  PROVE  InParts(s, a, b, c, d) = AtOnce(s, a, b, c, d)
<1>1. /\ (<<b>> \o <<c>>) \in Seq(Write) /\ Len(<<b>> \o <<c>>) = 2
      /\ (<<b>> \o <<c>>)[1] = b /\ (<<b>> \o <<c>>)[2] = c
  OBVIOUS
<1>2. PICK t \in Seq(Write) : t = <<b>> \o <<c>> /\ Len(t) = 2 /\ t[1] = b /\ t[2] = c
  BY <1>1
<1>3. /\ (t \o <<d>>) \in Seq(Write) /\ Len(t \o <<d>>) = 3
      /\ (t \o <<d>>)[1] = b /\ (t \o <<d>>)[2] = c /\ (t \o <<d>>)[3] = d
  BY <1>2
<1>4. PICK u \in Seq(Write) : u = t \o <<d>> /\ Len(u) = 3 /\ u[1] = b /\ u[2] = c /\ u[3] = d
  BY <1>3
<1>5. u = <<b, c, d>>
  BY <1>4, ThreeWrites, Zenon
<1>6. Append(s, a) \o <<b, c, d>> = s \o <<a, b, c, d>>
  OBVIOUS
<1> QED BY <1>2, <1>4, <1>5, <1>6 DEF InParts, AtOnce

(* What it appends for any other layer inside. *)
LEMMA TwoAppended ==
  ASSUME NEW s \in Seq(Write), NEW a \in Write, NEW d \in Write
  PROVE  Append(s, a) \o ((<<>> \o <<>>) \o <<d>>) = s \o <<a, d>>
<1>1. (<<>> \o <<>>) \o <<d>> = <<d>>
  OBVIOUS
<1>2. Append(s, a) \o <<d>> = s \o <<a, d>>
  OBVIOUS
<1> QED BY <1>1, <1>2

(* An element of a sequence of writes. *)
LEMMA IsWrite ==
  ASSUME NEW ws \in Seq(Write), NEW k \in 1..Len(ws)
  PROVE  ws[k] \in Write
OBVIOUS

(* Two plain writes, a checksum, and a write below what it covers. *)
LEMMA FourClear ==
  ASSUME NEW ws \in Seq(Write), Len(ws) = 4, ws[1].chi = 0, ws[2].chi = 0,
         ws[4].hi <= ws[3].clo
  PROVE  \A k \in 1..Len(ws) : \A j \in k + 1..Len(ws) : Clear(ws[j], ws[k])
<1> SUFFICES ASSUME NEW k \in 1..Len(ws), NEW j \in k + 1..Len(ws)
             PROVE  Clear(ws[j], ws[k])
  OBVIOUS
<1>1. ws[k] \in Write /\ ws[j] \in Write
  <2>1. j \in 1..Len(ws)
    OBVIOUS
  <2> QED BY <2>1, IsWrite
<1>2. (k = 3 /\ j = 4) \/ k = 1 \/ k = 2
  OBVIOUS
<1>3. CASE k = 3 /\ j = 4
  BY <1>3 DEF Clear
<1>4. CASE k = 1 \/ k = 2
  BY <1>1, <1>4, ClearOfPlain
<1> QED BY <1>2, <1>3, <1>4

(* The elements of a sequence over a set. *)
LEMMA Elements ==
  ASSUME NEW S, NEW ws \in Seq(S)
  PROVE  \A i \in 1..Len(ws) : ws[i] \in S
OBVIOUS

(* A plain write and any other. *)
LEMMA TwoClear ==
  ASSUME NEW ws \in Seq(Write), Len(ws) = 2, ws[1].chi = 0
  PROVE  \A k \in 1..Len(ws) : \A j \in k + 1..Len(ws) : Clear(ws[j], ws[k])
<1> SUFFICES ASSUME NEW k \in 1..Len(ws), NEW j \in k + 1..Len(ws)
             PROVE  Clear(ws[j], ws[k])
  OBVIOUS
<1>1. ws[k] \in Write /\ ws[j] \in Write
  <2>1. Len(ws) \in Nat /\ k \in Int /\ k >= 1
    OBVIOUS
  <2>2. k \in 1..Len(ws) /\ j \in 1..Len(ws)
    BY <2>1
  <2>3. \A i \in 1..Len(ws) : ws[i] \in Write
    BY Elements
  <2> QED BY <2>2, <2>3, Zenon
<1>2. k = 1
  OBVIOUS
<1> QED BY <1>1, <1>2, ClearOfPlain

(* The writes appended are those named. *)
LEMMA FourNamed ==
  ASSUME NEW ws \in Seq(Write), Len(ws) = 4, NEW k \in 1..Len(ws)
  PROVE  ws[k] = ws[1] \/ ws[k] = ws[2] \/ ws[k] = ws[3] \/ ws[k] = ws[4]
<1>1. k = 1 \/ k = 2 \/ k = 3 \/ k = 4
  OBVIOUS
<1> QED BY <1>1

(* The same for two. *)
LEMMA TwoNamed ==
  ASSUME NEW ws \in Seq(Write), Len(ws) = 2, NEW k \in 1..Len(ws)
  PROVE  ws[k] = ws[1] \/ ws[k] = ws[2]
<1>1. k = 1 \/ k = 2
  OBVIOUS
<1> QED BY <1>1

(* _encode_ipv4: the length, then the protocol and the two checksums. *)
LEMMA Ipv4Up ==
  ASSUME TypeOK, Shape, LeaveIPv4
  PROVE  Kept /\ (Returns \/ Fails)
<1>1. /\ pc = "up" /\ opts[lidx].typ = "IPv4"
      /\ act' = [act EXCEPT ![lidx] = [@ EXCEPT !.len = TotalLength, !.nxt = IpProto(ret)]]
      /\ UNCHANGED <<frameVars, data_len, tsc_off>>
  BY DEF LeaveIPv4, Leaving
<1>2. /\ lidx \in Idx /\ Off \in Nat /\ act \in [Idx -> Activation] /\ log \in Seq(Write)
      /\ End(lidx) = Off + 20 /\ data_len \in U16 /\ data_len \in Nat /\ tsc_off \in U16
  BY <1>1, Inside, HeaderLens
<1>3. TotalLength \in U16 /\ TotalLength \in Nat /\ TotalLength = u16(data_len - Off)
  <2>1. data_len - Off \in Int
    BY <1>2
  <2>2. u16(data_len - Off) \in U16 /\ u16(data_len - Off) \in Nat
    BY <2>1, U16Facts
  <2> QED BY <2>2 DEF TotalLength
<1>4. /\ act' \in [Idx -> Activation] /\ act'[lidx].len = u16(data_len - Off)
      /\ \A i \in Idx : /\ act'[i].off = act[i].off /\ act'[i].pktlen = act[i].pktlen
                        /\ act'[i].fill = act[i].fill
      /\ \A i \in Idx \ {lidx} : act'[i].len = act[i].len
  BY <1>1, <1>2, <1>3, Completed, NamesKnown
<1>5. PICK fld \in Nat : fld = Off + 20 + L4FieldAt(ret)
  BY <1>2 DEF L4FieldAt
<1>6. PICK end \in Nat : /\ end = IF TotalLength < 20 THEN Off + 20 ELSE Off + TotalLength
                         /\ end > 0
  BY <1>2, <1>3
<1>7. PICK a \in Write : /\ a = Wrote(Off + 2, Off + 4) /\ a.by = lidx /\ a.lo = Off + 2
                         /\ a.hi = Off + 4 /\ a.chi = 0
  BY <1>2, WroteFacts
<1>8. PICK b \in Write : /\ b = Wrote(Off + 9, Off + 10) /\ b.by = lidx /\ b.lo = Off + 9
                         /\ b.hi = Off + 10 /\ b.chi = 0
  BY <1>2, WroteFacts
<1>9. PICK c \in Write : /\ c = Summed(fld, fld + 2, Off + 20, end) /\ c.by = lidx
                         /\ c.hi = fld + 2 /\ c.clo = Off + 20 /\ c.chi = end
  <2>1. lidx \in Idx /\ fld + 2 \in Nat /\ Off + 20 \in Nat
    BY <1>2
  <2>2. PICK hi \in Nat, clo \in Nat : hi = fld + 2 /\ clo = Off + 20
    BY <2>1
  <2>3. /\ Summed(fld, hi, clo, end) \in Write /\ Summed(fld, hi, clo, end).by = lidx
        /\ Summed(fld, hi, clo, end).hi = hi /\ Summed(fld, hi, clo, end).clo = clo
        /\ Summed(fld, hi, clo, end).chi = end
    BY <2>1 DEF Summed, Write
  <2> QED BY <2>2, <2>3
<1>10. PICK d \in Write : /\ d = Summed(Off + 10, Off + 12, Off, Off + 20) /\ d.by = lidx
                          /\ d.hi = Off + 12 /\ d.clo = Off /\ d.chi = Off + 20
  <2>1. lidx \in Idx /\ Off \in Nat /\ Off + 10 \in Nat /\ Off + 12 \in Nat /\ Off + 20 \in Nat
    BY <1>2
  <2>2. PICK lo \in Nat, hi \in Nat, clo \in Nat, chi \in Nat :
          lo = Off + 10 /\ hi = Off + 12 /\ clo = Off /\ chi = Off + 20
    BY <2>1
  <2> QED BY <2>1, <2>2, SummedFacts
<1>11. CASE ret = "error"
  <2>1. log' = Append(log, a) \o <<>> /\ Leave("error")
    BY <1>7, <1>11 DEF LeaveIPv4
  <2>2. Append(log, a) \o <<>> \in Seq(Write)
    BY <1>2
  <2> QED BY <1>1, <1>2, <1>4, <1>11, <2>1, <2>2 DEF Kept, Fails
<1>12. CASE ret # "error"
  <2>1. Leave(opts[lidx].typ) /\ log' = Append(log, a) \o ProtoAndSums(ret)
    BY <1>1, <1>7, <1>12 DEF LeaveIPv4
  <2> DEFINE Both == ret \in {"UDP", "TCP"}
  <2>2. PICK ws \in Seq(Write) : /\ log' = log \o ws
                                 /\ Both => ws = <<a, b, c, d>>
                                 /\ ~Both => ws = <<a, d>>
    <3>1. CASE Both
      <4>1. Proto(ret) = <<b>> /\ L4Sum(ret) = <<c>>
        BY <1>5, <1>6, <1>8, <1>9, <3>1 DEF Proto, L4Sum
      <4>2. ProtoAndSums(ret) = (<<b>> \o <<c>>) \o <<d>>
        BY <1>10, <4>1 DEF ProtoAndSums
      <4>3. Append(log, a) \o ((<<b>> \o <<c>>) \o <<d>>) = log \o <<a, b, c, d>>
        <5>1. log \in Seq(Write)
          BY <1>2
        <5>2. InParts(log, a, b, c, d) = AtOnce(log, a, b, c, d)
          BY <5>1, FourAppended
        <5> QED BY <5>2 DEF InParts, AtOnce
      <4>4. <<a, b, c, d>> \in Seq(Write)
        OBVIOUS
      <4> QED BY <2>1, <3>1, <4>2, <4>3, <4>4
    <3>2. CASE ~Both
      <4>1. Proto(ret) = <<>> /\ L4Sum(ret) = <<>>
        BY <3>2 DEF Proto, L4Sum
      <4>2. ProtoAndSums(ret) = (<<>> \o <<>>) \o <<d>>
        BY <1>10, <4>1 DEF ProtoAndSums
      <4>3. Append(log, a) \o ((<<>> \o <<>>) \o <<d>>) = log \o <<a, d>>
        BY <1>2, TwoAppended
      <4>4. <<a, d>> \in Seq(Write)
        OBVIOUS
      <4> QED BY <2>1, <3>2, <4>2, <4>3, <4>4
    <3> QED BY <3>1, <3>2
  <2>3. /\ Both => Len(ws) = 4 /\ ws[1] = a /\ ws[2] = b /\ ws[3] = c /\ ws[4] = d
        /\ ~Both => Len(ws) = 2 /\ ws[1] = a /\ ws[2] = d
    BY <2>2
  <2>4. ASSUME NEW k \in 1..Len(ws)
        PROVE  \/ ws[k] = a \/ ws[k] = b \/ ws[k] = d
               \/ ws[k] = c /\ Both
    BY <2>3, FourNamed, TwoNamed
  <2>5. \A k \in 1..Len(ws) : \A j \in k + 1..Len(ws) : Clear(ws[j], ws[k])
    <3>1. d.hi <= c.clo
      BY <1>2, <1>9, <1>10
    <3>2. CASE Both
      BY <1>7, <1>8, <2>3, <3>1, <3>2, FourClear
    <3>3. CASE ~Both
      BY <1>7, <2>3, <3>3, TwoClear
    <3> QED BY <3>2, <3>3
  <2>6. /\ log' \in Seq(Write) /\ Grows
        /\ \A w \in Added : \E k \in 1..Len(ws) : w = ws[k]
        /\ \A k \in Len(log) + 1..Len(log') : \A j \in k + 1..Len(log') :
             Clear(log'[j], log'[k])
    BY <1>2, <2>2, <2>5, WritesAdded
  <2>7. ASSUME NEW w \in Added
        PROVE  /\ w.by = lidx
               /\ w.chi = 0 => Off <= w.lo /\ w.hi <= End(lidx)
               /\ w.chi > 0 => /\ Off <= w.clo
                               /\ \/ w.hi <= End(lidx)
                                  \/ ret = "UDP" /\ w.hi <= End(lidx) + 8
                                  \/ ret = "TCP" /\ w.hi <= End(lidx) + 20
    <3>1. w = a \/ w = b \/ w = d \/ (w = c /\ Both)
      BY <2>4, <2>6
    <3>2. CASE w = a \/ w = b
      BY <1>2, <1>7, <1>8, <3>2
    <3>3. CASE w = d
      BY <1>2, <1>10, <3>3
    <3>4. CASE w = c /\ Both
      <4>1. w.by = lidx /\ Off <= w.clo /\ ~(w.chi = 0)
        BY <1>2, <1>6, <1>9, <3>4
      <4>2. ret = "UDP" => fld + 2 <= Off + 28
        BY <1>2, <1>5 DEF L4FieldAt
      <4>3. ret = "TCP" => fld + 2 <= Off + 40
        BY <1>2, <1>5 DEF L4FieldAt
      <4>4. w.hi = fld + 2
        BY <1>9, <3>4
      <4>5. \/ ret = "UDP" /\ w.hi <= End(lidx) + 8
            \/ ret = "TCP" /\ w.hi <= End(lidx) + 20
        BY <1>2, <3>4, <4>2, <4>3, <4>4
      <4> QED BY <4>1, <4>5
    <3> QED BY <3>1, <3>2, <3>3, <3>4
  <2>8. Returns
    BY <1>1, <1>4, <1>12, <2>1, <2>6, <2>7 DEF Returns
  <2> QED BY <1>1, <1>2, <1>4, <2>6, <2>8 DEF Kept
<1> QED BY <1>11, <1>12

(* Every handler after next_layer. *)
LEMMA AnyUp ==
  ASSUME TypeOK, Shape, Return
  PROVE  Kept /\ (Returns \/ Fails \/ Crashes)
BY EtherUp, VlanUp, Ipv4Up, UdpUp, TcpUp, VxlanUp, OtherUp, PayloadUp, ErrorUp DEF Return

-----------------------------------------------------------------------------
(* A step of a handler leaves the text and the layer table alone. *)
LEMMA SameText ==
  ASSUME Kept
  PROVE  /\ text' = text /\ opts' = opts /\ result' = result /\ LastLayer' = LastLayer
         /\ PayloadLast' = PayloadLast /\ Malformed(text)' = Malformed(text)
         /\ \A i : Parsed(i)' = Parsed(i) /\ TwoTags(i)' = TwoTags(i)
<1>1. text' = text /\ opts' = opts /\ result' = result
  BY DEF Kept, frameVars
<1>2. LastLayer' = LastLayer
  BY <1>1 DEF LastLayer
<1>3. Layers' = Layers
  BY <1>1 DEF Layers
<1>4. PayloadLast' = PayloadLast
  BY <1>1, <1>2, <1>3 DEF PayloadLast
<1>5. Malformed(text)' = Malformed(text)
  BY <1>1 DEF Malformed
<1>6. \A i : Parsed(i)' = Parsed(i) /\ TwoTags(i)' = TwoTags(i)
  BY <1>1 DEF Parsed, TwoTags
<1> QED BY <1>1, <1>2, <1>4, <1>5, <1>6

(* A layer of the text that does not parse makes it malformed. *)
LEMMA NotParsed ==
  ASSUME text \in Seq(Layer), text # <<>>, opts = OptsOf(text),
         NEW i \in 1..LastLayer, ~Parsed(i)
  PROVE  Malformed(text)
<1>1. /\ opts[i] = IF text[i].typ # "Unknown" THEN text[i] ELSE NoOpt
      /\ opts[i].typ = text[i].typ /\ opts[i].typ \in LayerTypes \union {"Unknown"}
  BY OptsFacts
<1>2. i \in 1..NbLayers(text)
  BY DEF LastLayer
<1>3. CASE text[i].typ = "Unknown"
  BY <1>2, <1>3 DEF Malformed
<1>4. CASE text[i].typ # "Unknown"
  <2>1. opts[i] = text[i] /\ text[i].typ \in LayerTypes
    BY <1>1, <1>4
  <2>2. text[i].typ \in Parsing /\ ~ParamsParse(text[i])
    BY <2>1 DEF Parsed
  <2> QED BY <1>2, <2>2 DEF Malformed, Parsing
<1> QED BY <1>3, <1>4

(* So do two Dot1q tags. *)
LEMMA TagInTag ==
  ASSUME text \in Seq(Layer), text # <<>>, opts = OptsOf(text),
         NEW i \in 1..LastLayer, TwoTags(i)
  PROVE  Malformed(text)
<1>1. LastLayer \in Nat /\ opts[LastLayer + 1].typ = "Done"
  BY OptsFacts DEF DoneOpt
<1>2. opts[i].typ = "Dot1q" /\ opts[i + 1].typ = "Dot1q"
  BY DEF TwoTags
<1>3. i # LastLayer
  BY <1>1, <1>2
<1>4. i + 1 \in 1..LastLayer /\ i + 1 > 1 /\ (i + 1) - 1 = i
  BY <1>1, <1>3
<1>5. text[i].typ = "Dot1q" /\ text[i + 1].typ = "Dot1q"
  BY <1>2, <1>4, OptsFacts
<1>6. i + 1 \in 1..NbLayers(text)
  BY <1>4 DEF LastLayer
<1> QED BY <1>4, <1>5, <1>6 DEF Malformed

(* Only these make it malformed. *)
LEMMA WellFormed ==
  ASSUME text \in Seq(Layer), text # <<>>, opts = OptsOf(text),
         \A i \in 1..LastLayer : Parsed(i), \A i \in 1..LastLayer - 1 : ~TwoTags(i)
  PROVE  ~Malformed(text)
<1>1. ASSUME NEW i \in 1..LastLayer
      PROVE  /\ text[i].typ # "Unknown"
             /\ text[i].typ \in Parsing => ParamsParse(text[i])
  <2>1. /\ opts[i] = IF text[i].typ # "Unknown" THEN text[i] ELSE NoOpt
        /\ opts[i].typ = text[i].typ
    BY OptsFacts
  <2>2. "Unknown" \notin LayerTypes
    BY DEF LayerTypes
  <2>3. text[i].typ # "Unknown"
    BY <2>1, <2>2 DEF Parsed
  <2> QED BY <2>1, <2>3 DEF Parsed
<1>2. LastLayer \in Nat
  BY OptsFacts
<1>3. ASSUME NEW i \in 1..LastLayer, i > 1
      PROVE  ~(text[i].typ = "Dot1q" /\ text[i - 1].typ = "Dot1q")
  <2>1. i - 1 \in 1..LastLayer - 1 /\ i - 1 \in 1..LastLayer /\ (i - 1) + 1 = i
    BY <1>2, <1>3
  <2>2. ~TwoTags(i - 1)
    BY <2>1
  <2>3. opts[i].typ = text[i].typ /\ opts[i - 1].typ = text[i - 1].typ
    BY <2>1, OptsFacts
  <2> QED BY <2>1, <2>2, <2>3 DEF TwoTags
<1>4. NbLayers(text) = LastLayer
  BY DEF LastLayer
<1> QED BY <1>1, <1>3, <1>4 DEF Malformed, Parsing

(* A step of a handler keeps types, place and verdict. *)
LEMMA Goes ==
  ASSUME TypeOK, Shape, Verdict, Enter \/ Return
  PROVE  TypeOK' /\ Shape' /\ Verdict'
<1>1. Running /\ Kept /\ (GoesDown \/ Refused \/ Turns \/ Fails \/ Returns \/ Crashes)
  <2>1. CASE Enter
    <3>1. Kept /\ (GoesDown \/ Refused \/ Turns)
      BY <2>1, AnyDown
    <3> QED BY <3>1 DEF GoesDown, Refused, Turns, EnterDone, Entering, Running
  <2>2. CASE Return
    <3>1. Kept /\ (Returns \/ Fails \/ Crashes)
      BY <2>2, AnyUp
    <3> QED BY <3>1 DEF Returns, Fails, Crashes, Running
  <2> QED BY <2>1, <2>2
<1>2. /\ lidx \in Idx /\ lidx \in Nat /\ lidx >= 1 /\ lidx <= LastLayer + 1
      /\ text # <<>> /\ opts = OptsOf(text) /\ text \in Seq(Layer) /\ result = 0
  BY <1>1, Here DEF Shape, Running
<1>3. /\ LastLayer \in Nat /\ LastLayer >= 1 /\ LastLayer + 1 \in Idx
      /\ opts[LastLayer + 1].typ = "Done"
      /\ \A i \in 1..LastLayer : opts[i].typ \in LayerTypes \union {"Unknown"}
  BY <1>2, OptsFacts DEF DoneOpt
<1>4. LastLayer + 1 <= MAX_LAYERS /\ MAX_LAYERS \in Nat
  BY <1>3, EncodeAssumption DEF Idx
<1>5. /\ text' = text /\ opts' = opts /\ result' = result /\ LastLayer' = LastLayer
      /\ Malformed(text)' = Malformed(text)
      /\ \A i : Parsed(i)' = Parsed(i) /\ TwoTags(i)' = TwoTags(i)
  BY <1>1, SameText
<1>6. /\ lidx' \in 0..MAX_LAYERS
      /\ pc' \in {"idle", "down", "up", "done", "crashed"}
      /\ ret' \in LayerTypes \union {"none", "Done", "error"}
      => TypeOK'
  BY <1>1, <1>5 DEF TypeOK, Kept
<1>7. "Done" \notin LayerTypes \union {"Unknown"} /\ "error" \notin LayerTypes \union {"Unknown"}
  BY DEF LayerTypes
<1>8. CASE GoesDown
  <2>1. pc = "down" /\ pc' = "down" /\ lidx' = lidx + 1 /\ ret' = ret /\ Parsed(lidx)
    BY <1>8 DEF GoesDown, next_layer
  <2>2. lidx # LastLayer + 1
    BY <1>3, <1>7, <2>1 DEF Parsed
  <2>3. lidx' \in 1..LastLayer + 1 /\ lidx' \in 0..MAX_LAYERS
    BY <1>2, <1>3, <1>4, <2>1, <2>2
  <2>4. ret' = "none"
    BY <2>1 DEF Shape
  <2>5. TypeOK' /\ Shape'
    BY <1>2, <1>5, <1>6, <2>1, <2>3, <2>4 DEF Shape
  <2>6. \A i \in 1..lidx : Parsed(i)
    BY <1>2, <2>1 DEF Verdict
  <2>7. lidx' - 1 = lidx
    BY <1>2, <2>1
  <2>8. Verdict'
    BY <1>5, <2>1, <2>6, <2>7 DEF Verdict, Returning, Finished
  <2> QED BY <2>5, <2>8
<1>9. CASE Refused
  <2>1. /\ pc = "down" /\ ~Parsed(lidx) /\ opts[lidx].typ # "Done"
        /\ ret' = "error" /\ lidx' = lidx - 1 /\ pc' = IF lidx = 1 THEN "done" ELSE "up"
    BY <1>9 DEF Refused, Leave
  <2>2. lidx \in 1..LastLayer
    BY <1>2, <1>3, <2>1
  <2>3. lidx' \in 0..MAX_LAYERS /\ (pc' = "up" => lidx' \in 1..LastLayer)
        /\ (pc' = "done" => lidx' = 0)
    BY <1>2, <1>3, <1>4, <2>1, <2>2
  <2>4. TypeOK' /\ Shape'
    BY <1>2, <1>5, <1>6, <2>1, <2>3 DEF Shape
  <2>5. Malformed(text)
    BY <1>2, <2>1, <2>2, NotParsed
  <2> QED BY <1>5, <2>1, <2>4, <2>5 DEF Verdict
<1>10. CASE Turns
  <2>1. /\ pc = "down" /\ opts[lidx].typ = "Done" /\ ret' = "Done" /\ lidx' = lidx - 1
        /\ pc' = IF lidx = 1 THEN "done" ELSE "up"
    BY <1>10 DEF Turns, EnterDone, Entering, Leave
  <2>2. lidx = LastLayer + 1
    <3>1. lidx \notin 1..LastLayer
      BY <1>3, <1>7, <2>1
    <3> QED BY <1>2, <1>3, <3>1
  <2>3. /\ lidx' = LastLayer /\ pc' = "up" /\ lidx' \in 1..LastLayer /\ lidx' \in 0..MAX_LAYERS
        /\ lidx' + 1 = LastLayer + 1 /\ lidx - 1 = LastLayer
    BY <1>3, <1>4, <2>1, <2>2
  <2>4. TypeOK' /\ Shape'
    BY <1>2, <1>5, <1>6, <2>1, <2>3 DEF Shape
  <2>5. \A i \in 1..LastLayer : Parsed(i)
    BY <2>1, <2>3 DEF Verdict
  <2>6. \A i \in lidx' + 1..LastLayer - 1 : FALSE
    BY <1>3, <2>3
  <2>7. ret' = opts[lidx' + 1].typ
    BY <1>3, <2>1, <2>3
  <2>8. ret' # "error"
    BY <2>1
  <2> QED BY <1>5, <2>3, <2>4, <2>5, <2>6, <2>7, <2>8 DEF Verdict
<1>11. CASE Fails
  <2>1. /\ pc = "up" /\ ret' = "error" /\ lidx' = lidx - 1
        /\ pc' = IF lidx = 1 THEN "done" ELSE "up"
        /\ ret = "error" \/ (opts[lidx].typ = "Dot1q" /\ ret = "Dot1q")
    BY <1>11 DEF Fails, Leave
  <2>2. lidx \in 1..LastLayer
    BY <2>1 DEF Shape
  <2>3. lidx' \in 0..MAX_LAYERS /\ (pc' = "up" => lidx' \in 1..LastLayer)
        /\ (pc' = "done" => lidx' = 0)
    BY <1>2, <1>3, <1>4, <2>1, <2>2
  <2>4. TypeOK' /\ Shape'
    BY <1>2, <1>5, <1>6, <2>1, <2>3 DEF Shape
  <2>5. Malformed(text)
    <3>1. CASE ret = "error"
      BY <2>1, <3>1 DEF Verdict, Returning
    <3>2. CASE opts[lidx].typ = "Dot1q" /\ ret = "Dot1q"
      <4>1. TwoTags(lidx)
        BY <2>1, <3>2 DEF Verdict, Returning, TwoTags
      <4> QED BY <1>2, <2>2, <4>1, TagInTag
    <3> QED BY <2>1, <3>1, <3>2
  <2> QED BY <1>5, <2>1, <2>4, <2>5 DEF Verdict
<1>12. CASE Returns
  <2>1. /\ pc = "up" /\ ret # "error" /\ ret' = opts[lidx].typ /\ lidx' = lidx - 1
        /\ pc' = IF lidx = 1 THEN "done" ELSE "up"
        /\ opts[lidx].typ # "Dot1q" \/ ret # "Dot1q"
    BY <1>12 DEF Returns, Leave
  <2>2. lidx \in 1..LastLayer
    BY <2>1 DEF Shape
  <2>3. lidx' \in 0..MAX_LAYERS /\ (pc' = "up" => lidx' \in 1..LastLayer)
        /\ (pc' = "done" => lidx' = 0) /\ lidx' + 1 = lidx
    BY <1>2, <1>3, <1>4, <2>1, <2>2
  <2>4. /\ \A i \in 1..LastLayer : Parsed(i)
        /\ \A i \in lidx + 1..LastLayer - 1 : ~TwoTags(i)
        /\ ret = opts[lidx + 1].typ
    BY <2>1 DEF Verdict, Returning
  <2>5. ret' \in LayerTypes /\ ret' # "error"
    BY <1>7, <2>1, <2>2, <2>4 DEF Parsed
  <2>6. TypeOK' /\ Shape'
    BY <1>2, <1>5, <1>6, <2>1, <2>3, <2>5 DEF Shape
  <2>7. ASSUME NEW i \in lidx..LastLayer - 1 PROVE ~TwoTags(i)
    <3>1. CASE i = lidx
      BY <2>1, <2>4, <3>1 DEF TwoTags
    <3>2. CASE i # lidx
      <4>1. i \in lidx + 1..LastLayer - 1
        BY <1>2, <1>3, <3>2
      <4> QED BY <2>4, <4>1
    <3> QED BY <3>1, <3>2
  <2>8. Verdict'
    BY <1>5, <2>1, <2>3, <2>4, <2>5, <2>7 DEF Verdict
  <2> QED BY <2>6, <2>8
<1>13. CASE Crashes
  <2>1. pc = "up" /\ pc' = "crashed" /\ lidx' = lidx /\ ret' = ret
    BY <1>13 DEF Crashes
  <2>2. TypeOK'
    BY <1>6, <2>1 DEF TypeOK
  <2> QED BY <2>1, <2>2 DEF Shape, Verdict, Running, Returning, Finished
<1> QED BY <1>1, <1>8, <1>9, <1>10, <1>11, <1>12, <1>13

-----------------------------------------------------------------------------
(* The lengths completed reach the end of the frame: the frame grows no    *)
(* more once the handlers return.                                          *)
LEMMA LengthsKept ==
  ASSUME TypeOK, Shape, Verdict, Lengths, Enter \/ Return
  PROVE  Lengths'
<1>1. Kept /\ (GoesDown \/ Refused \/ Turns \/ Fails \/ Returns \/ Crashes)
  BY AnyDown, AnyUp
<1>2. opts' = opts /\ LastLayer' = LastLayer
  BY <1>1, SameText
<1>3. CASE GoesDown \/ Refused \/ Fails \/ Crashes
  BY <1>3 DEF GoesDown, next_layer, Refused, Fails, Crashes, Leave, Lengths, Returning, Finished
<1>4. CASE Turns
  <2>1. TypeOK' /\ Shape' /\ Verdict'
    BY Goes
  <2>2. pc = "down" /\ opts[lidx].typ = "Done" /\ lidx' = lidx - 1
    BY <1>4 DEF Turns, EnterDone, Entering, Leave
  <2>3. /\ lidx \in Nat /\ LastLayer \in Nat /\ lidx >= 1 /\ lidx <= LastLayer + 1
        /\ text # <<>> /\ opts = OptsOf(text) /\ text \in Seq(Layer)
    BY <2>2, Here DEF Running
  <2>4. lidx \notin 1..LastLayer
    BY <2>2, <2>3, OptsFacts DEF LayerTypes
  <2>5. lidx' = LastLayer
    BY <2>2, <2>3, <2>4
  <2>6. \A i \in lidx' + 1..LastLayer : FALSE
    BY <2>3, <2>5
  <2> QED BY <1>2, <2>6 DEF Lengths
<1>5. CASE Returns
  <2>1. /\ pc = "up" /\ ret # "error" /\ lidx' = lidx - 1 /\ data_len' = data_len
        /\ \A i \in Idx : act'[i].off = act[i].off
        /\ \A i \in Idx \ {lidx} : act'[i].len = act[i].len
        /\ opts[lidx].typ \in {"IPv4", "UDP"} => act'[lidx].len = u16(data_len - Off)
    BY <1>5 DEF Returns, Leave
  <2>2. /\ lidx \in Idx /\ lidx \in Nat /\ LastLayer \in Nat /\ Off \in U16 /\ data_len \in U16
        /\ text # <<>> /\ opts = OptsOf(text) /\ text \in Seq(Layer)
    BY <2>1, Here, Inside DEF Running
  <2>3. 1..LastLayer \subseteq Idx
    BY <2>2, OptsFacts
  <2>4. lidx \in 1..LastLayer /\ lidx' + 1 = lidx
    BY <2>1, <2>2 DEF Shape
  <2>5. ASSUME NEW i \in lidx..LastLayer, opts[i].typ \in {"IPv4", "UDP"}
        PROVE  u16(act'[i].off + act'[i].len) = data_len
    <3>1. CASE i = lidx
      <4>1. act'[i].off = Off /\ act'[i].len = u16(data_len - Off)
        BY <2>1, <2>2, <2>5, <3>1 DEF Off
      <4> QED BY <2>2, <4>1, U16Facts
    <3>2. CASE i # lidx
      <4>1. i \in lidx + 1..LastLayer /\ i \in 1..LastLayer
        BY <2>2, <2>4, <3>2
      <4>2. act'[i].off = act[i].off /\ act'[i].len = act[i].len
        BY <2>1, <2>3, <3>2, <4>1
      <4> QED BY <2>1, <2>5, <4>1, <4>2 DEF Lengths, Returning
    <3> QED BY <3>1, <3>2
  <2> QED BY <1>2, <2>1, <2>4, <2>5 DEF Lengths
<1> QED BY <1>1, <1>3, <1>4, <1>5

(* The layers entered. *)
LEMMA EnteredFacts ==
  ASSUME TypeOK, Shape, Verdict, Sound
  PROVE  /\ LastLayer \in Nat /\ lidx \in Nat
         /\ Entered \subseteq 1..LastLayer /\ 1..LastLayer \subseteq Idx
         /\ \A i \in Entered : /\ Parsed(i) /\ opts[i].typ \in LayerTypes
                               /\ act[i].off \in Nat /\ act[i].pktlen \in Int
                               /\ HeaderLen(opts[i].typ) \in Nat /\ End(i) \in Nat
         /\ \A i \in Entered : opts[i].typ = "Payload" => i = LastLayer
         /\ text \in Seq(Layer) /\ text # <<>> /\ opts = OptsOf(text)
<1>1. text \in Seq(Layer) /\ text # <<>> /\ opts = OptsOf(text)
  BY DEF Sound, Returning, Shape, Running, TypeOK
<1>2. LastLayer \in Nat /\ 1..LastLayer \subseteq Idx /\ lidx \in Nat
  BY <1>1, OptsFacts DEF TypeOK
<1>3. Entered \subseteq 1..LastLayer
  <2>1. CASE pc = "down"
    <3>1. lidx <= LastLayer + 1
      BY <1>2, <2>1 DEF Shape
    <3> QED BY <1>2, <2>1, <3>1 DEF Entered
  <2>2. CASE pc # "down"
    BY <2>2 DEF Entered
  <2> QED BY <2>1, <2>2
<1>4. \A i \in Entered : Parsed(i)
  <2>1. CASE pc = "down"
    BY <2>1 DEF Entered, Verdict
  <2>2. CASE pc # "down"
    BY <2>2 DEF Entered, Verdict, Sound
  <2> QED BY <2>1, <2>2
<1>5. ASSUME NEW i \in Entered
      PROVE  /\ Parsed(i) /\ opts[i].typ \in LayerTypes
             /\ act[i].off \in Nat /\ act[i].pktlen \in Int
             /\ HeaderLen(opts[i].typ) \in Nat /\ End(i) \in Nat
             /\ opts[i].typ = "Payload" => i = LastLayer
  <2>1. Parsed(i) /\ opts[i].typ \in LayerTypes
    BY <1>4 DEF Parsed
  <2>2. act[i] \in Activation /\ i \in Idx
    BY <1>2, <1>3 DEF TypeOK
  <2>3. act[i].off \in U16 /\ act[i].pktlen \in Int
    BY <2>2 DEF Activation
  <2>4. act[i].off \in Nat
    BY <2>3, U16Facts
  <2>5. HeaderLen(opts[i].typ) \in Nat
    BY <2>1, HeaderLens
  <2>6. opts[i].typ = "Payload" => i = LastLayer
    BY <2>1, <2>2 DEF Sound, PayloadLast, Layers
  <2> QED BY <2>1, <2>3, <2>4, <2>5, <2>6 DEF End
<1> QED BY <1>1, <1>2, <1>3, <1>5

(* Frames stay within 16 bits until Payload. *)
LEMMA NoWrap ==
  ASSUME NEW n \in Nat, NEW h \in Nat, NEW l \in Nat, l + 1 \in Idx, h <= 40,
         l >= 1, n <= 40 * (l - 1)
  PROVE  u16(n + h) = n + h /\ n + h <= 40 * ((l + 1) - 1)
<1>1. l + 1 <= MAX_LAYERS /\ MAX_LAYERS \in Nat /\ 40 * MAX_LAYERS < 65536
  BY EncodeAssumption DEF Idx
<1>2. n + h \in Nat /\ n + h <= 40 * l /\ n + h < 65536
  BY <1>1
<1>3. u16(n + h) = n + h
  BY <1>2, U16Facts
<1> QED BY <1>2, <1>3

(* The layout when a layer is entered. *)
LEMMA DownLayout ==
  ASSUME TypeOK, Shape, Verdict, Sound, Layout, Kept, GoesDown,
         TypeOK', Shape', Verdict', Sound'
  PROVE  Layout'
<1> DEFINE typ == opts[lidx].typ
<1>1. /\ pc = "down" /\ pc' = "down" /\ lidx' = lidx + 1 /\ Parsed(lidx)
      /\ \A i \in Idx \ {lidx} : act'[i] = act[i]
      /\ act'[lidx].off = IF typ = "Ether" THEN 0 ELSE data_len
  BY DEF GoesDown, next_layer
<1>2. /\ LastLayer \in Nat /\ lidx \in Nat /\ 1..LastLayer \subseteq Idx
      /\ \A i \in Entered : act[i].off \in Nat /\ End(i) \in Nat
      /\ Entered \subseteq 1..LastLayer
  BY EnteredFacts
<1>3. text' = text /\ opts' = opts /\ LastLayer' = LastLayer
  BY SameText
<1>4. /\ Entered = 1..lidx - 1 /\ Entered' = 1..lidx /\ Entered' \subseteq 1..LastLayer
      /\ \A i \in Entered' : act'[i].off \in Nat /\ End(i)' \in Nat
      /\ \A i \in Entered' : opts[i].typ = "Payload" => i = LastLayer
  <2>1. lidx' \in 1..LastLayer + 1
    BY <1>1, <1>3 DEF Shape
  <2>2. Entered = 1..lidx - 1 /\ Entered' = 1..lidx
    BY <1>1, <1>2 DEF Entered
  <2>3. Entered' \subseteq 1..LastLayer
    BY <1>1, <1>2, <2>1, <2>2
  <2>4. ASSUME NEW i \in Entered'
        PROVE  /\ act'[i].off \in Nat /\ End(i)' \in Nat
               /\ opts[i].typ = "Payload" => i = LastLayer
    <3>1. act'[i] \in Activation /\ i \in Idx
      BY <1>2, <2>3 DEF Kept
    <3>2. act'[i].off \in Nat
      BY <3>1, U16Facts DEF Activation
    <3>3. Parsed(i)
      <4>1. i = lidx \/ i \in 1..lidx - 1
        BY <1>2, <2>2
      <4> QED BY <1>1, <4>1 DEF Verdict
    <3>4. opts[i].typ \in LayerTypes
      BY <3>3 DEF Parsed
    <3>5. HeaderLen(opts[i].typ) \in Nat
      BY <3>4, HeaderLens
    <3>6. opts[i].typ = "Payload" => i = LastLayer
      BY <3>1, <3>4 DEF Sound, PayloadLast, Layers
    <3> QED BY <1>3, <3>2, <3>5, <3>6 DEF End
  <2> QED BY <2>2, <2>3, <2>4
<1>5. lidx >= 1 /\ lidx <= LastLayer /\ lidx \in 1..LastLayer /\ lidx \in Entered'
  <2>1. lidx >= 1
    BY <1>1, <1>2, Here DEF Running
  <2>2. lidx \in Entered'
    BY <1>2, <1>4, <2>1
  <2>3. lidx \in 1..LastLayer
    BY <1>4, <2>2
  <2>4. lidx <= LastLayer
    BY <1>2, <2>3
  <2> QED BY <2>1, <2>2, <2>3, <2>4
<1>6. ASSUME NEW i \in Entered
      PROVE  act'[i] = act[i] /\ End(i)' = End(i) /\ i # lidx /\ i \in Entered' /\ i < lidx
  <2>1. i \in Idx /\ i # lidx /\ i \in Entered' /\ i < lidx
    BY <1>2, <1>4
  <2> QED BY <1>1, <1>3, <2>1 DEF End
<1>7. /\ Behind /\ Counted /\ \A k \in DOMAIN log : log[k].chi = 0 => OwnHeader(log[k])
  BY DEF Layout
<1>8. data_len \in Nat /\ data_len <= 40 * (lidx - 1) /\ \A i \in Entered : End(i) <= data_len
  BY <1>1, <1>5, <1>7, U16Facts DEF Counted, TypeOK
<1>9. Behind'
  <2> SUFFICES ASSUME NEW j \in Entered'
               PROVE  IF opts[j].typ = "Ether" THEN act'[j].off = 0
                      ELSE \A i \in 1..j - 1 : End(i)' <= act'[j].off
    BY <1>3 DEF Behind
  <2>1. CASE j = lidx
    <3>1. CASE typ = "Ether"
      BY <1>1, <2>1, <3>1
    <3>2. CASE typ # "Ether"
      BY <1>1, <1>4, <1>6, <1>8, <2>1, <3>2
    <3> QED BY <3>1, <3>2
  <2>2. CASE j # lidx
    <3>1. j \in Entered /\ \A i \in 1..j - 1 : i \in Entered
      BY <1>2, <1>4, <2>2
    <3>2. IF opts[j].typ = "Ether" THEN act[j].off = 0
          ELSE \A i \in 1..j - 1 : End(i) <= act[j].off
      BY <1>7, <3>1 DEF Behind
    <3> QED BY <1>6, <3>1, <3>2
  <2> QED BY <2>1, <2>2
<1>10. Counted'
  <2> SUFFICES ASSUME lidx' <= LastLayer
               PROVE  data_len' <= 40 * (lidx' - 1) /\ \A i \in Entered' : End(i)' <= data_len'
    BY <1>3 DEF Counted
  <2>1. typ # "Payload" /\ lidx + 1 \in Idx
    BY <1>1, <1>2, <1>4, <1>5
  <2>2. data_len' = u16(data_len + HeaderLen(typ))
    BY <2>1 DEF GoesDown
  <2>3. HeaderLen(typ) \in Nat /\ HeaderLen(typ) <= 40
    BY <1>1, HeaderLens DEF Parsed
  <2>4. data_len' = data_len + HeaderLen(typ) /\ data_len' <= 40 * ((lidx + 1) - 1)
    BY <1>2, <1>5, <1>8, <2>1, <2>2, <2>3, NoWrap
  <2>5. ASSUME NEW i \in Entered' PROVE End(i)' <= data_len'
    <3>1. CASE i = lidx
      <4>1. End(i)' = act'[i].off + HeaderLen(opts[i].typ)
        BY <1>3 DEF End
      <4>2. act'[lidx].off \in Nat /\ act'[lidx].off <= data_len
        BY <1>1, <1>8
      <4> QED BY <1>8, <2>3, <2>4, <3>1, <4>1, <4>2
    <3>2. CASE i # lidx
      <4>1. i \in Entered
        BY <1>2, <1>4, <3>2
      <4>2. End(i)' = End(i) /\ End(i) <= data_len /\ End(i) \in Nat
        BY <1>2, <1>6, <1>8, <4>1
      <4> QED BY <1>8, <2>3, <2>4, <4>2
    <3> QED BY <3>1, <3>2
  <2> QED BY <1>1, <2>4, <2>5
<1>11. PayloadEnd'
  <2> SUFFICES ASSUME LastLayer \in Entered', opts[LastLayer].typ = "Payload"
               PROVE  data_len' = u16(act'[LastLayer].pktlen)
    BY <1>1, <1>3 DEF PayloadEnd
  <2>1. lidx = LastLayer
    BY <1>2, <1>4, <1>5
  <2>2. data_len' = u16(act'[lidx].pktlen)
    BY <2>1 DEF GoesDown
  <2> QED BY <2>1, <2>2
<1>12. ASSUME NEW k \in DOMAIN log', log'[k].chi = 0 PROVE OwnHeader(log[k])'
  <2>1. log \in Seq(Write) /\ log' \in Seq(Write) /\ Grows
    BY DEF TypeOK, Kept, GoesDown
  <2>2. CASE k \in 1..Len(log)
    <3>1. log'[k] = log[k] /\ k \in DOMAIN log
      BY <2>1, <2>2 DEF Grows
    <3>2. OwnHeader(log[k])
      BY <1>7, <1>12, <3>1
    <3>3. PICK w : w = log[k]
      OBVIOUS
    <3>4. /\ w.by \in Entered /\ (act[w.by].off <= w.lo \/ Refill(w))
          /\ opts[w.by].typ # "Payload" => w.hi <= End(w.by)
      BY <3>2, <3>3 DEF OwnHeader
    <3>5. act'[w.by] = act[w.by] /\ (Refill(w) => Refill(w)')
      BY <1>3, <1>6, <3>4 DEF Refill
    <3>6. /\ w.by \in Entered' /\ (act'[w.by].off <= w.lo \/ Refill(w)')
          /\ opts'[w.by].typ # "Payload" => w.hi <= End(w.by)'
      BY <1>3, <1>6, <3>4, <3>5
    <3> QED BY <3>1, <3>3, <3>6 DEF OwnHeader
  <2>3. CASE k \notin 1..Len(log)
    <3>1. log'[k] \in Added
      <4>1. k \in Len(log) + 1..Len(log')
        BY <2>1, <2>3 DEF Grows
      <4> QED BY <4>1 DEF Added
    <3>2. PICK w \in Added : w = log'[k]
      BY <3>1
    <3>3. /\ w.by = lidx /\ act'[lidx].off <= w.lo
          /\ typ # "Payload" => w.hi <= act'[lidx].off + HeaderLen(typ)
      BY DEF GoesDown
    <3>4. PICK l : l = lidx
      OBVIOUS
    <3>5. End(l)' = act'[l].off + HeaderLen(opts[l].typ)
      BY <1>3 DEF End
    <3>6. /\ w.by \in Entered' /\ act'[w.by].off <= w.lo
          /\ opts'[w.by].typ # "Payload" => w.hi <= End(w.by)'
      <4>1. w.by = l
        BY <3>3, <3>4
      <4> QED BY <1>3, <1>5, <3>3, <3>4, <3>5, <4>1
    <3> QED BY <3>2, <3>6 DEF OwnHeader
  <2> QED BY <2>2, <2>3
<1> QED BY <1>9, <1>10, <1>11, <1>12 DEF Layout

(* _encode_done is called when every layer has been entered. *)
LEMMA TurnsAtEnd ==
  ASSUME TypeOK, Shape, Turns
  PROVE  lidx = LastLayer + 1 /\ LastLayer \in Nat /\ lidx' = LastLayer
<1>1. pc = "down" /\ opts[lidx].typ = "Done" /\ lidx' = lidx - 1
  BY DEF Turns, EnterDone, Entering, Leave
<1>2. /\ lidx \in Nat /\ LastLayer \in Nat /\ lidx >= 1 /\ lidx <= LastLayer + 1
      /\ text # <<>> /\ opts = OptsOf(text) /\ text \in Seq(Layer)
  BY <1>1, Here DEF Running
<1>3. lidx \notin 1..LastLayer
  BY <1>1, <1>2, OptsFacts DEF LayerTypes
<1> QED BY <1>1, <1>2, <1>3

(* The layout when the done layer turns back. *)
LEMMA TurnLayout ==
  ASSUME TypeOK, Shape, Verdict, Sound, Layout, Kept, Turns, TypeOK', Shape'
  PROVE  Layout'
<1>1. /\ pc = "down" /\ pc' # "down" /\ data_len' = Clamp(data_len) /\ act' = act /\ log' = log
  BY DEF Turns, EnterDone, Entering, Leave
<1>2. lidx = LastLayer + 1 /\ LastLayer \in Nat
  BY TurnsAtEnd
<1>3. text' = text /\ opts' = opts /\ LastLayer' = LastLayer
  BY SameText
<1>4. Entered' = Entered
  BY <1>1, <1>2, <1>3 DEF Entered
<1>5. \A i : End(i)' = End(i)
  BY <1>1, <1>3 DEF End
<1>6. Behind'
  BY <1>1, <1>3, <1>4, <1>5 DEF Layout, Behind
<1>7. Counted'
  BY <1>1 DEF Counted
<1>8. PayloadEnd'
  BY <1>1, <1>3, <1>4 DEF Layout, PayloadEnd
<1>9. \A w : OwnHeader(w) => OwnHeader(w)'
  BY <1>1, <1>3, <1>4, <1>5 DEF OwnHeader, Refill
<1>10. ASSUME NEW k \in DOMAIN log', log'[k].chi = 0 PROVE OwnHeader(log[k])'
  <2>1. PICK w : w = log[k] /\ OwnHeader(w)
    BY <1>1, <1>10 DEF Layout
  <2>2. OwnHeader(w)'
    BY <1>9, <2>1
  <2>3. w = log'[k]
    BY <1>1, <2>1
  <2> QED BY <2>2, <2>3
<1> QED BY <1>6, <1>7, <1>8, <1>10 DEF Layout

(* The done layer makes a frame longer than pktlen only if that is less    *)
(* than the shortest legal length.                                         *)
LEMMA FilledBelow ==
  ASSUME NEW n \in Int, n < Clamp(u16(n))
  PROVE  n < 60
<1> SUFFICES ASSUME n >= 60 PROVE FALSE
  OBVIOUS
<1>1. u16(n) \in Nat /\ (n < 65536 => u16(n) = n)
  BY U16Facts
<1> QED BY <1>1 DEF Clamp, ETH_ZLEN, ETH_FRAME_LEN

(* The layout when a layer returns. *)
LEMMA UpLayout ==
  ASSUME TypeOK, Shape, Verdict, Sound, Layout, Kept, Returns, TypeOK', Shape'
  PROVE  Layout'
<1>1. /\ pc = "up" /\ pc' # "down" /\ data_len' = data_len
      /\ \A i \in Idx : /\ act'[i].off = act[i].off /\ act'[i].pktlen = act[i].pktlen
                        /\ act'[i].fill = act[i].fill
  BY DEF Returns, Leave
<1>2. text' = text /\ opts' = opts /\ LastLayer' = LastLayer
  BY SameText
<1>3. /\ LastLayer \in Nat /\ Entered \subseteq Idx /\ lidx \in 1..LastLayer
      /\ Entered = 1..LastLayer /\ Entered' = Entered
  <2>1. LastLayer \in Nat /\ Entered \subseteq Idx
    BY EnteredFacts
  <2> QED BY <1>1, <1>2, <2>1 DEF Entered, Shape
<1>4. \A i \in Entered : End(i)' = End(i) /\ act'[i].off = act[i].off
                         /\ act'[i].pktlen = act[i].pktlen /\ act'[i].fill = act[i].fill
  BY <1>1, <1>2, <1>3 DEF End
<1>5. Behind'
  <2> SUFFICES ASSUME NEW j \in Entered
               PROVE  IF opts[j].typ = "Ether" THEN act'[j].off = 0
                      ELSE \A i \in 1..j - 1 : End(i)' <= act'[j].off
    BY <1>2, <1>3 DEF Behind
  <2>1. \A i \in 1..j - 1 : i \in Entered
    BY <1>3
  <2>2. IF opts[j].typ = "Ether" THEN act[j].off = 0
        ELSE \A i \in 1..j - 1 : End(i) <= act[j].off
    BY DEF Layout, Behind
  <2> QED BY <1>4, <2>1, <2>2
<1>6. Counted'
  BY <1>1 DEF Counted
<1>7. PayloadEnd'
  <2> SUFFICES ASSUME LastLayer \in Entered, opts[LastLayer].typ = "Payload"
               PROVE  data_len' = Clamp(u16(act'[LastLayer].pktlen))
    BY <1>1, <1>2, <1>3 DEF PayloadEnd
  <2> QED BY <1>1, <1>4 DEF Layout, PayloadEnd
<1>8. ASSUME NEW k \in DOMAIN log', log'[k].chi = 0 PROVE OwnHeader(log[k])'
  <2>1. log \in Seq(Write) /\ log' \in Seq(Write) /\ Grows
    BY DEF TypeOK, Kept, Returns
  <2>2. CASE k \in 1..Len(log)
    <3>1. log'[k] = log[k] /\ k \in DOMAIN log
      BY <2>1, <2>2 DEF Grows
    <3>2. PICK w : w = log'[k] /\ OwnHeader(w)
      BY <1>8, <3>1 DEF Layout
    <3>3. w.by \in Entered /\ (Refill(w) => Refill(w)')
      BY <1>2, <1>3, <1>4, <3>2 DEF OwnHeader, Refill
    <3>4. /\ w.by \in Entered' /\ (act'[w.by].off <= w.lo \/ Refill(w)')
          /\ opts'[w.by].typ # "Payload" => w.hi <= End(w.by)'
      BY <1>2, <1>3, <1>4, <3>2, <3>3 DEF OwnHeader
    <3> QED BY <3>2, <3>4 DEF OwnHeader
  <2>3. CASE k \notin 1..Len(log)
    <3>1. k \in Len(log) + 1..Len(log') /\ k \in 1..Len(log')
      BY <2>1, <2>3 DEF Grows
    <3>2. PICK w \in Added : w = log'[k] /\ w \in Write /\ w.chi = 0
      BY <1>8, <2>1, <3>1 DEF Added
    <3>3. PICK l : l = lidx
      OBVIOUS
    <3>4. l \in Entered /\ w.by = l /\ act[l].off \in Nat /\ act[l].pktlen \in Int
          /\ (opts[l].typ = "Payload" => l = LastLayer) /\ w.lo \in Int
      <4>1. w.by = lidx
        BY DEF Returns
      <4>2. w.lo \in Int
        BY <3>2 DEF Write
      <4> QED BY <1>3, <3>3, <4>1, <4>2, EnteredFacts
    <3>5. (act[l].off <= w.lo \/ Refill(w)) /\ (opts[l].typ # "Payload" => w.hi <= End(l))
      <4>1. CASE opts[l].typ = "Payload"
        <5>1. w.lo = act[l].pktlen /\ w.lo < data_len /\ act[l].fill # 0
          BY <3>2, <3>3, <4>1 DEF Returns
        <5>2. data_len = Clamp(u16(w.lo))
          BY <1>1, <3>4, <4>1, <5>1 DEF Layout, PayloadEnd
        <5>3. w.lo < 60
          BY <3>4, <5>1, <5>2, FilledBelow
        <5> QED BY <3>4, <4>1, <5>1, <5>3 DEF Refill, ETH_ZLEN
      <4>2. CASE opts[l].typ # "Payload"
        <5>1. /\ (opts[l].typ = "Ether" /\ 0 <= w.lo) \/ act[l].off <= w.lo
              /\ w.hi <= End(l)
          BY <3>2, <3>3, <4>2 DEF Returns, Off
        <5>2. opts[l].typ = "Ether" => act[l].off = 0
          BY <3>4 DEF Layout, Behind
        <5> QED BY <3>4, <5>1, <5>2
      <4> QED BY <4>1, <4>2
    <3>6. Refill(w) => Refill(w)'
      BY <1>2, <1>4, <3>4 DEF Refill
    <3>7. /\ w.by \in Entered' /\ (act'[w.by].off <= w.lo \/ Refill(w)')
          /\ opts'[w.by].typ # "Payload" => w.hi <= End(w.by)'
      BY <1>2, <1>3, <1>4, <3>4, <3>5, <3>6
    <3> QED BY <3>2, <3>7 DEF OwnHeader
  <2> QED BY <2>2, <2>3
<1> QED BY <1>5, <1>6, <1>7, <1>8 DEF Layout

-----------------------------------------------------------------------------
(* No checksum is computed before the done layer. *)
LEMMA NoSumsDown ==
  ASSUME TypeOK, Sound, Sums, pc = "down", NEW k \in DOMAIN log
  PROVE  log[k] \in Write /\ log[k].chi = 0
<1>1. log[k] \in Write
  BY DEF TypeOK
<1>2. log[k].chi \in Nat
  BY <1>1 DEF Write
<1>3. ~(log[k].chi > 0)
  BY DEF Sums, OfReturned
<1> QED BY <1>1, <1>2, <1>3

(* The checksums when a layer is entered. *)
LEMMA DownSums ==
  ASSUME TypeOK, Sound, Sums, Kept, GoesDown
  PROVE  Sums'
<1>1. log \in Seq(Write) /\ log' \in Seq(Write) /\ Grows /\ pc = "down"
  BY DEF TypeOK, Kept, GoesDown
<1>2. ASSUME NEW k \in 1..Len(log') PROVE log'[k] \in Write /\ log'[k].chi = 0
  <2>1. log'[k] \in Write
    BY <1>1
  <2>2. CASE k \in 1..Len(log)
    BY <1>1, <2>2, NoSumsDown DEF Grows
  <2>3. CASE k \notin 1..Len(log)
    <3>1. k \in Len(log) + 1..Len(log')
      BY <1>1, <2>3
    <3>2. log'[k] \in Added
      BY <3>1 DEF Added
    <3> QED BY <2>1, <3>2 DEF GoesDown
  <2> QED BY <2>1, <2>2, <2>3
<1>3. Len(log') \in Nat /\ DOMAIN log' = 1..Len(log')
  BY <1>1
<1>4. ASSUME NEW k \in DOMAIN log' PROVE ~(log'[k].chi > 0)
  BY <1>2, <1>3
<1>5. ASSUME NEW k \in DOMAIN log', NEW j \in k + 1..Len(log') PROVE Clear(log'[j], log'[k])
  <2>1. j \in 1..Len(log') /\ k \in 1..Len(log')
    BY <1>3
  <2> QED BY <1>2, <2>1, ClearOfPlain
<1>6. \A k \in DOMAIN log' : \A j \in k + 1..Len(log') : Clear(log[j], log[k])'
  BY <1>5 DEF Clear
<1> QED BY <1>4, <1>6 DEF Sums

(* The checksums when the done layer turns back. *)
LEMMA TurnSums ==
  ASSUME TypeOK, Sound, Sums, Turns
  PROVE  Sums'
<1>1. log' = log /\ pc = "down"
  BY DEF Turns, EnterDone, Entering
<1>2. \A k \in DOMAIN log' : ~(log'[k].chi > 0)
  BY <1>1, NoSumsDown
<1>3. \A k \in DOMAIN log : \A j \in k + 1..Len(log) : Clear(log[j], log[k])
  BY DEF Sums
<1>4. \A k \in DOMAIN log' : \A j \in k + 1..Len(log') : Clear(log[j], log[k])'
  BY <1>1, <1>3 DEF Clear
<1> QED BY <1>2, <1>4 DEF Sums

(* What the handler of layer lidx writes last lies below every checksum of *)
(* a layer inside, also where IPv4 writes into the UDP or TCP header.      *)
LEMMA BelowSums ==
  ASSUME TypeOK, Shape, Verdict, Sound, Layout, Returns,
         NEW w \in Added, w \in Write, NEW v \in Write, v.chi > 0, OfReturned(v)
  PROVE  Clear(w, v)
<1>1. /\ pc = "up" /\ ret # "error" /\ lidx \in 1..LastLayer
  BY DEF Returns, Shape
<1>2. /\ LastLayer \in Nat /\ lidx \in Nat /\ Entered = 1..LastLayer
      /\ \A i \in Entered : /\ act[i].off \in Nat /\ End(i) \in Nat
                            /\ opts[i].typ = "Payload" => i = LastLayer
  BY <1>1, EnteredFacts DEF Entered
<1>3. PICK i \in lidx + 1..LastLayer : opts[i].typ = "IPv4" /\ act[i].off <= v.clo
  BY DEF OfReturned
<1>4. i \in Entered /\ lidx \in Entered /\ lidx \in 1..i - 1 /\ opts[lidx].typ # "Payload"
  BY <1>1, <1>2, <1>3
<1>5. \A m \in 1..i - 1 : End(m) <= act[i].off
  BY <1>3, <1>4 DEF Layout, Behind
<1>6. v.clo \in Nat /\ w.hi \in Nat /\ w.chi \in Nat
  BY DEF Write
<1>7. \/ w.hi <= End(lidx)
      \/ ret = "UDP" /\ w.hi <= End(lidx) + 8
      \/ ret = "TCP" /\ w.hi <= End(lidx) + 20
  <2>1. CASE w.chi = 0
    BY <1>4, <2>1 DEF Returns
  <2>2. CASE w.chi > 0
    BY <2>2 DEF Returns
  <2> QED BY <1>6, <2>1, <2>2
<1>8. CASE w.hi <= End(lidx)
  <2>1. End(lidx) <= act[i].off /\ End(lidx) \in Nat /\ act[i].off \in Nat
    BY <1>2, <1>4, <1>5
  <2>2. w.hi <= v.clo
    BY <1>3, <1>6, <1>8, <2>1
  <2> QED BY <2>2 DEF Clear
<1>9. CASE \/ ret = "UDP" /\ w.hi <= End(lidx) + 8
           \/ ret = "TCP" /\ w.hi <= End(lidx) + 20
  <2>1. ret = opts[lidx + 1].typ
    BY <1>1 DEF Verdict, Returning
  <2>2. i # lidx + 1
    BY <1>3, <1>9, <2>1
  <2>3. lidx + 1 \in 1..i - 1 /\ lidx + 1 \in Entered /\ lidx \in 1..(lidx + 1) - 1
    BY <1>2, <1>3, <1>4, <2>2
  <2>4. End(lidx) <= act[lidx + 1].off
    BY <1>9, <2>1, <2>3 DEF Layout, Behind
  <2>5. End(lidx + 1) = act[lidx + 1].off + HeaderLen(ret)
    BY <2>1 DEF End
  <2>6. /\ ret = "UDP" => HeaderLen(ret) = 8
        /\ ret = "TCP" => HeaderLen(ret) = 20
    BY HeaderLens
  <2>7. End(lidx + 1) <= act[i].off
    BY <1>5, <2>3
  <2>8. /\ End(lidx) \in Nat /\ End(lidx + 1) \in Nat /\ act[lidx + 1].off \in Nat
        /\ act[i].off \in Nat
    BY <1>2, <1>4, <2>3
  <2>9. w.hi <= End(lidx + 1)
    BY <1>6, <1>9, <2>4, <2>5, <2>6, <2>8
  <2>10. w.hi <= v.clo
    BY <1>3, <1>6, <2>7, <2>8, <2>9
  <2> QED BY <2>10 DEF Clear
<1> QED BY <1>7, <1>8, <1>9

(* The checksums when a layer returns. *)
LEMMA UpSums ==
  ASSUME TypeOK, Shape, Verdict, Sound, Layout, Sums, Kept, Returns
  PROVE  Sums'
<1>1. log \in Seq(Write) /\ log' \in Seq(Write) /\ Grows /\ Len(log) \in Nat
      /\ Len(log') \in Nat /\ DOMAIN log' = 1..Len(log') /\ DOMAIN log = 1..Len(log)
  BY DEF TypeOK, Kept, Returns
<1>2. /\ pc = "up" /\ pc' # "down" /\ lidx' = lidx - 1 /\ lidx \in 1..LastLayer
      /\ \A i \in Idx : act'[i].off = act[i].off
  BY DEF Returns, Leave, Shape
<1>3. text' = text /\ opts' = opts /\ LastLayer' = LastLayer
  BY SameText
<1>4. LastLayer \in Nat /\ lidx \in Nat /\ 1..LastLayer \subseteq Idx /\ lidx' + 1 = lidx
  BY <1>2, EnteredFacts
<1>5. ASSUME NEW k \in 1..Len(log')
      PROVE  /\ log'[k] \in Write
             /\ k \in 1..Len(log) => log'[k] = log[k]
             /\ k \notin 1..Len(log) => log'[k] \in Added
  <2>1. log'[k] \in Write
    BY <1>1
  <2>2. k \notin 1..Len(log) => k \in Len(log) + 1..Len(log')
    BY <1>1
  <2> QED BY <1>1, <2>1, <2>2 DEF Grows, Added
<1>6. ASSUME NEW k \in 1..Len(log'), log'[k].chi > 0
      PROVE  \E i \in lidx..LastLayer : opts[i].typ = "IPv4" /\ act'[i].off <= log'[k].clo
  <2>1. CASE k \in 1..Len(log)
    <3>1. OfReturned(log[k]) /\ log'[k] = log[k]
      BY <1>1, <1>5, <1>6, <2>1 DEF Sums
    <3>2. PICK i \in lidx + 1..LastLayer : opts[i].typ = "IPv4" /\ act[i].off <= log[k].clo
      BY <3>1 DEF OfReturned
    <3>3. i \in lidx..LastLayer /\ i \in Idx
      BY <1>2, <1>4
    <3> QED BY <1>2, <3>1, <3>2, <3>3
  <2>2. CASE k \notin 1..Len(log)
    <3>1. PICK w \in Added : w = log'[k]
      BY <1>5, <2>2
    <3>2. opts[lidx].typ = "IPv4" /\ act[lidx].off <= w.clo
      BY <1>6, <3>1 DEF Returns, Off
    <3>3. lidx \in lidx..LastLayer /\ lidx \in Idx
      BY <1>2, <1>4
    <3> QED BY <1>2, <3>1, <3>2, <3>3
  <2> QED BY <2>1, <2>2
<1>7. \A k \in DOMAIN log' : log'[k].chi > 0 => OfReturned(log[k])'
  BY <1>1, <1>2, <1>3, <1>4, <1>6 DEF OfReturned
<1>8. ASSUME NEW k \in 1..Len(log'), NEW j \in k + 1..Len(log')
      PROVE  Clear(log'[j], log'[k])
  <2>1. j \in 1..Len(log') /\ k < j /\ k \in Nat /\ j \in Nat
    BY <1>1
  <2>2. CASE j \in 1..Len(log)
    <3>1. k \in 1..Len(log) /\ j \in k + 1..Len(log)
      BY <1>1, <2>1, <2>2
    <3>2. Clear(log[j], log[k])
      BY <1>1, <3>1 DEF Sums
    <3> QED BY <1>5, <2>1, <2>2, <3>1, <3>2
  <2>3. CASE k \notin 1..Len(log)
    <3>1. k \in Len(log) + 1..Len(log')
      BY <1>1, <2>3
    <3> QED BY <3>1 DEF Returns
  <2>4. CASE k \in 1..Len(log) /\ j \notin 1..Len(log)
    <3>1. PICK v \in Write : v = log'[k] /\ v = log[k]
      BY <1>5, <2>4
    <3>2. PICK w \in Write : w = log'[j] /\ w \in Added
      BY <1>5, <2>1, <2>4
    <3>3. CASE v.chi = 0
      BY <3>1, <3>2, <3>3, ClearOfPlain
    <3>4. CASE v.chi > 0
      <4>1. OfReturned(v)
        BY <1>1, <2>4, <3>1, <3>4 DEF Sums
      <4> QED BY <3>1, <3>2, <3>4, <4>1, BelowSums
    <3>5. v.chi \in Nat
      BY DEF Write
    <3> QED BY <3>3, <3>4, <3>5
  <2> QED BY <2>2, <2>3, <2>4
<1>9. \A k \in DOMAIN log' : \A j \in k + 1..Len(log') : Clear(log[j], log[k])'
  BY <1>1, <1>8 DEF Clear
<1> QED BY <1>7, <1>9 DEF Sums

-----------------------------------------------------------------------------
(* A layer not yet visited, and an entry of the table not in use, have     *)
(* their types.                                                            *)
LEMMA Blanks == NoAct \in Activation /\ NoOpt \in Opt /\ DoneOpt \in Opt
<1>1. "" \in NextNames
  BY DEF NextNames
<1>2. 0 \in U16 /\ 0 \in Int
  BY DEF U16, UINT16_MAX
<1>3. NoAct \in Activation
  BY <1>1, <1>2 DEF NoAct, Activation
<1>4. NoOpt \in Opt /\ DoneOpt \in Opt
  BY DEF DoneOpt, NoOpt, Opt
<1> QED BY <1>3, <1>4

(* The invariant holds before the first frame. *)
LEMMA InitOK == Init => IInv
<1> SUFFICES ASSUME Init PROVE IInv
  OBVIOUS
<1>1. /\ text = <<>> /\ opts = [i \in Idx |-> NoOpt] /\ pc = "idle" /\ lidx = 0
      /\ data_len = 0 /\ tsc_off = 0 /\ act = [i \in Idx |-> NoAct] /\ log = <<>>
      /\ ret = "none" /\ result = 0
  BY DEF Init
<1>2. 0 \in U16 /\ 0 \in 0..MAX_LAYERS
  BY EncodeAssumption DEF U16, UINT16_MAX
<1>3. NoAct \in Activation /\ NoOpt \in Opt
  BY Blanks
<1>4. TypeOK
  BY <1>1, <1>2, <1>3 DEF TypeOK
<1>5. ~Running /\ ~Returning /\ pc # "done" /\ ~Sound
  BY <1>1 DEF Running, Returning, Finished, Sound
<1> QED BY <1>1, <1>4, <1>5 DEF IInv, Shape, Verdict, Lengths, Layout, Sums, Returning, Finished

(* The layer table of a text has its type. *)
LEMMA OptsTyped ==
  ASSUME NEW t \in Seq(Layer)
  PROVE  OptsOf(t) \in [Idx -> Opt]
<1> SUFFICES ASSUME NEW i \in Idx
             PROVE  (IF i = NbLayers(t) + 1 THEN DoneOpt
                     ELSE IF i <= NbLayers(t) /\ t[i].typ # "Unknown" THEN t[i]
                     ELSE NoOpt) \in Opt
  BY DEF OptsOf
<1>1. DoneOpt \in Opt /\ NoOpt \in Opt
  BY Blanks
<1>2. CASE i <= NbLayers(t)
  <2>1. i \in Nat /\ i >= 1 /\ NbLayers(t) <= Len(t) /\ NbLayers(t) \in Int
    BY EncodeAssumption DEF Idx, NbLayers
  <2>2. i \in 1..Len(t)
    BY <1>2, <2>1
  <2>3. t[i] \in Layer
    BY <2>2
  <2>4. t[i] \in Opt
    BY <2>3 DEF Layer, Opt
  <2> QED BY <1>1, <2>4
<1> QED BY <1>1, <1>2

(* A new frame begins in it. *)
LEMMA FrameOK ==
  ASSUME TypeOK, NEW t \in Texts, _encode_frame(t)
  PROVE  IInv'
<1>1. /\ text' = t /\ data_len' = 0 /\ tsc_off' = 0 /\ act' = [i \in Idx |-> NoAct]
      /\ log' = <<>> /\ ret' = "none" /\ t \in Seq(Layer)
  BY EncodeAssumption DEF _encode_frame
<1>2. 0 \in U16 /\ 0 \in 0..MAX_LAYERS /\ 1 \in 0..MAX_LAYERS
  BY EncodeAssumption DEF U16, UINT16_MAX
<1>3. NoAct \in Activation /\ NoOpt \in Opt
  BY Blanks
<1>4. act' \in [Idx -> Activation] /\ log' \in Seq(Write) /\ data_len' \in U16 /\ tsc_off' \in U16
  BY <1>1, <1>2, <1>3
<1>5. CASE t = <<>>
  <2>1. result' = -1 /\ pc' = "done" /\ lidx' = 0 /\ opts' = [i \in Idx |-> NoOpt]
    BY <1>5 DEF _encode_frame
  <2>2. TypeOK'
    BY <1>1, <1>2, <1>3, <1>4, <2>1 DEF TypeOK
  <2>3. result' # 0
    BY <2>1
  <2> QED BY <2>1, <2>2, <2>3
          DEF IInv, Shape, Verdict, Lengths, Layout, Sums, Running, Returning, Finished, Sound
<1>6. CASE t # <<>>
  <2>1. result' = 0 /\ pc' = "down" /\ lidx' = 1 /\ opts' = OptsOf(t)
    BY <1>6 DEF _encode_frame
  <2>2. TypeOK'
    BY <1>1, <1>2, <1>4, <2>1, OptsTyped DEF TypeOK
  <2>3. LastLayer' \in Nat /\ LastLayer' >= 1
    BY <1>1, <1>6, EncodeAssumption DEF LastLayer, NbLayers
  <2>4. Shape'
    <3>1. Running' /\ ~Finished'
      BY <2>1 DEF Running, Finished
    <3>2. PICK m \in Nat : m = LastLayer'
      BY <2>3
    <3>3. 1 \in 1..m + 1
      OBVIOUS
    <3>4. lidx' \in 1..LastLayer' + 1
      BY <2>1, <3>2, <3>3
    <3>5. text' # <<>> /\ opts' = OptsOf(text)'
      BY <1>1, <1>6, <2>1
    <3> QED BY <1>1, <2>1, <3>1, <3>4, <3>5 DEF Shape
  <2>5. \A i \in 1..lidx' - 1 : FALSE
    BY <2>1
  <2>6. Verdict' /\ Lengths'
    BY <2>1, <2>5 DEF Verdict, Lengths, Returning, Finished
  <2>7. Entered' = {}
    BY <2>1, <2>5 DEF Entered
  <2>8. DOMAIN log' = {}
    BY <1>1
  <2>9. data_len' <= 40 * (lidx' - 1)
    BY <1>1, <2>1
  <2>10. Behind' /\ Counted' /\ PayloadEnd'
    BY <2>7, <2>9 DEF Behind, Counted, PayloadEnd
  <2> QED BY <2>2, <2>4, <2>6, <2>8, <2>10 DEF IInv, Layout, Sums
<1> QED BY <1>5, <1>6

(* Every step of a handler keeps it. *)
LEMMA HandlerOK ==
  ASSUME IInv, Enter \/ Return
  PROVE  IInv'
<1>1. TypeOK /\ Shape /\ Verdict /\ Lengths /\ Layout /\ Sums
  BY DEF IInv
<1>2. TypeOK' /\ Shape' /\ Verdict' /\ Lengths'
  BY <1>1, Goes, LengthsKept
<1>3. Kept /\ (GoesDown \/ Refused \/ Turns \/ Fails \/ Returns \/ Crashes)
  BY <1>1, AnyDown, AnyUp
<1>4. Layout' /\ Sums'
  <2>1. CASE ~Sound'
    BY <2>1 DEF Layout, Sums
  <2>2. CASE Sound' /\ GoesDown
    <3>1. Sound
      BY <1>3, <2>2, SameText DEF Sound, GoesDown
    <3> QED BY <1>1, <1>2, <1>3, <2>2, <3>1, DownLayout, DownSums
  <2>3. CASE Sound' /\ Turns
    <3>1. Sound
      BY <1>3, <2>3, SameText DEF Sound, Turns, EnterDone, Entering
    <3> QED BY <1>1, <1>2, <1>3, <2>3, <3>1, TurnLayout, TurnSums
  <2>4. CASE Sound' /\ Returns
    <3>1. Sound
      BY <1>3, <2>4, SameText DEF Sound, Returns, Returning
    <3> QED BY <1>1, <1>2, <1>3, <2>4, <3>1, UpLayout, UpSums
  <2>5. CASE Sound' /\ (Refused \/ Fails \/ Crashes)
    BY <2>5 DEF Sound, Refused, Fails, Crashes, Leave, Returning, Finished
  <2> QED BY <1>3, <2>1, <2>2, <2>3, <2>4, <2>5
<1> QED BY <1>2, <1>4 DEF IInv

(* A step that leaves the encoder alone keeps it. *)
LEMMA StutterOK ==
  ASSUME IInv, UNCHANGED vars
  PROVE  IInv'
<1>1. /\ text' = text /\ opts' = opts /\ pc' = pc /\ lidx' = lidx /\ data_len' = data_len
      /\ tsc_off' = tsc_off /\ act' = act /\ log' = log /\ ret' = ret /\ result' = result
  BY DEF vars
<1>2. LastLayer' = LastLayer /\ Layers' = Layers
  BY <1>1 DEF LastLayer, Layers
<1>3. TypeOK'
  BY <1>1 DEF IInv, TypeOK
<1>4. Returning' = Returning /\ Running' = Running /\ Finished' = Finished
      /\ PayloadLast' = PayloadLast
  BY <1>1, <1>2 DEF Returning, Running, Finished, PayloadLast
<1>5. Shape'
  BY <1>1, <1>2, <1>4 DEF IInv, Shape
<1>6. Verdict'
  BY <1>1, <1>2, <1>4 DEF IInv, Verdict, Parsed, TwoTags
<1>7. Lengths'
  BY <1>1, <1>2, <1>4 DEF IInv, Lengths
<1>8. Sound' = Sound
  BY <1>1, <1>4 DEF Sound
<1>9. Entered' = Entered
  BY <1>1, <1>2 DEF Entered
<1>10. \A i : End(i)' = End(i)
  BY <1>1 DEF End
<1>11. Layout'
  BY <1>1, <1>2, <1>8, <1>9, <1>10
     DEF IInv, Layout, Behind, Counted, PayloadEnd, OwnHeader, Refill
<1>12. Sums'
  BY <1>1, <1>2, <1>8 DEF IInv, Sums, OfReturned, Clear
<1> QED BY <1>3, <1>5, <1>6, <1>7, <1>11, <1>12 DEF IInv

(* The invariant is inductive. *)
LEMMA NextOK ==
  ASSUME IInv, [Next]_vars
  PROVE  IInv'
<1>1. CASE \E t \in Texts : _encode_frame(t)
  BY <1>1, FrameOK DEF IInv
<1> QED BY <1>1, HandlerOK, StutterOK DEF Next

-----------------------------------------------------------------------------
(* The layers of a frame that is finished are all those of its text, and   *)
(* every one has returned.                                                 *)
LEMMA AllReturned ==
  ASSUME IInv, Finished
  PROVE  /\ lidx = 0 /\ Returning /\ LastLayer \in Nat /\ LastLayer >= 1
         /\ Layers \subseteq 1..LastLayer /\ 1..LastLayer \subseteq Idx
         /\ Entered = 1..LastLayer
         /\ text \in Seq(Layer) /\ text # <<>> /\ opts = OptsOf(text)
<1>1. TypeOK /\ Shape
  BY DEF IInv
<1>2. text \in Seq(Layer) /\ text # <<>> /\ opts = OptsOf(text)
  BY <1>1 DEF Shape, TypeOK
<1>3. LastLayer \in Nat /\ LastLayer >= 1 /\ Layers \subseteq 1..LastLayer
      /\ 1..LastLayer \subseteq Idx
  BY <1>2, OptsFacts
<1>4. lidx = 0 /\ Returning /\ Entered = 1..LastLayer
  BY <1>1 DEF Shape, Finished, Returning, Entered
<1> QED BY <1>2, <1>3, <1>4

(* LengthsReachEnd follows from Lengths once the outermost has returned. *)
LEMMA LengthsAtEnd == IInv => LengthsReachEnd
<1> SUFFICES ASSUME IInv, Encoded, NEW i \in Layers, opts[i].typ \in {"IPv4", "UDP"}
             PROVE  u16(act[i].off + act[i].len) = data_len
  BY DEF LengthsReachEnd
<1>1. Finished /\ ret # "error"
  BY DEF Encoded, Finished
<1>2. lidx = 0 /\ Returning /\ LastLayer \in Nat /\ i \in 1..LastLayer
  BY <1>1, AllReturned
<1>3. i \in lidx + 1..LastLayer
  BY <1>2
<1> QED BY <1>1, <1>2, <1>3 DEF IInv, Lengths

(* FailsIffMalformed follows from Verdict likewise. *)
LEMMA VerdictAtEnd == IInv => FailsIffMalformed
<1> SUFFICES ASSUME IInv, Finished
             PROVE  ret = "error" <=> Malformed(text)
  BY DEF FailsIffMalformed, Finished
<1>1. /\ lidx = 0 /\ Returning /\ LastLayer \in Nat
      /\ text \in Seq(Layer) /\ text # <<>> /\ opts = OptsOf(text)
  BY AllReturned
<1>2. Verdict
  BY DEF IInv
<1>3. CASE ret = "error"
  BY <1>1, <1>2, <1>3 DEF Verdict
<1>4. CASE ret # "error"
  <2>1. /\ \A i \in 1..LastLayer : Parsed(i)
        /\ \A i \in lidx + 1..LastLayer - 1 : ~TwoTags(i)
    BY <1>1, <1>2, <1>4 DEF Verdict
  <2>2. \A i \in 1..LastLayer - 1 : ~TwoTags(i)
    BY <1>1, <2>1
  <2>3. ~Malformed(text)
    BY <1>1, <2>1, <2>2, WellFormed
  <2> QED BY <1>4, <2>3
<1> QED BY <1>3, <1>4

(* ChecksumsFinal is what Sums says of a finished frame. *)
LEMMA SumsAtEnd == IInv => ChecksumsFinal
<1> SUFFICES ASSUME IInv, Encoded, PayloadLast,
                    NEW k \in DOMAIN log, NEW j \in k + 1..Len(log)
             PROVE  \/ log[k].chi = 0 \/ log[j].hi <= log[k].clo
                    \/ log[k].chi <= log[j].lo
  BY DEF ChecksumsFinal
<1>1. Sound
  BY DEF Encoded, Sound, Returning, Finished
<1>2. Clear(log[j], log[k])
  BY <1>1 DEF IInv, Sums
<1> QED BY <1>2 DEF Clear

(* HeadersIntact follows from Layout: a write that is no checksum is in    *)
(* the header of its own layer, or behind all of them in the payload, or   *)
(* begins where append has cut the frame; and with Ether first no two      *)
(* headers share a byte.                                                   *)
LEMMA LayoutAtEnd == IInv => HeadersIntact
<1> SUFFICES ASSUME IInv, Encoded, PayloadLast,
                    \A i \in Layers : opts[i].typ = "Ether" => i = 1,
                    NEW i \in Layers, ~Cut(i), NEW k \in DOMAIN log, log[k].by # i,
                    NEW b \in log[k].lo .. log[k].hi - 1, b \in Header(i)
             PROVE  log[k].chi > 0
  BY DEF HeadersIntact, Intact
<1>1. Finished /\ ret # "error" /\ Sound
  BY DEF Encoded, Finished, Sound, Returning
<1>2. /\ LastLayer \in Nat /\ i \in 1..LastLayer /\ 1..LastLayer \subseteq Idx
      /\ Entered = 1..LastLayer /\ text \in Seq(Layer) /\ text # <<>> /\ opts = OptsOf(text)
  BY <1>1, AllReturned
<1>3. TypeOK /\ Layout /\ Verdict
  BY DEF IInv
<1>4. PICK w \in Write : w = log[k]
  BY <1>3 DEF TypeOK
<1>5. w.chi \in Nat /\ w.lo \in Int /\ w.hi \in Nat /\ w.by # i
  BY <1>4 DEF Write
<1> SUFFICES ASSUME w.chi = 0 PROVE FALSE
  BY <1>4, <1>5
<1>6. OwnHeader(w)
  BY <1>1, <1>3, <1>4 DEF Layout
<1>7. PICK j : j = w.by
  OBVIOUS
<1>8. /\ j \in 1..LastLayer /\ (act[j].off <= w.lo \/ Refill(w))
      /\ opts[j].typ # "Payload" => w.hi <= End(j)
  BY <1>2, <1>6, <1>7 DEF OwnHeader
<1>9. j \in Layers
  <2>1. Returning
    BY <1>1 DEF Returning
  <2>2. Parsed(j)
    BY <1>1, <1>3, <1>8, <2>1 DEF Verdict
  <2> QED BY <1>2, <1>8, <2>2 DEF Layers, Parsed
<1>10. i \in Int /\ j \in Int /\ 1 <= i /\ i <= LastLayer /\ 1 <= j /\ j <= LastLayer /\ i # j
  BY <1>2, <1>5, <1>7, <1>8
<1>11. i \in Idx /\ j \in Idx
  BY <1>2, <1>8
<1>12. act[i].off \in Nat /\ act[j].off \in Nat
  BY <1>3, <1>11 DEF TypeOK, Activation, U16
<1>13. HeaderLen(opts[i].typ) \in Nat /\ HeaderLen(opts[j].typ) \in Nat
  BY <1>9, HeaderLens DEF Layers
<1>14. PICK e \in Int : e = End(i)
  BY <1>12, <1>13 DEF End
<1>15. PICK f \in Int : f = End(j)
  BY <1>12, <1>13 DEF End
<1>16. b \in Int /\ act[i].off <= b /\ b < e /\ w.lo <= b /\ b < w.hi
  <2>1. b \in w.lo .. w.hi - 1
    BY <1>4
  <2>2. b \in act[i].off .. e - 1
    <3>1. e = act[i].off + HeaderLen(opts[i].typ)
      BY <1>14 DEF End
    <3> QED BY <1>12, <1>13, <3>1 DEF Header
  <2> QED BY <1>5, <1>12, <2>1, <2>2
<1>17. act[j].off <= w.lo
  <2>1. ASSUME Refill(w) PROVE e <= w.lo
    <3>1. ~(act[j].pktlen < act[i].off + HeaderLen(opts[i].typ))
      BY <1>7, <1>9, <2>1 DEF Refill, Cut
    <3>2. act[j].pktlen = w.lo /\ e = act[i].off + HeaderLen(opts[i].typ)
      BY <1>7, <1>14, <2>1 DEF Refill, End
    <3> QED BY <1>5, <1>14, <3>1, <3>2
  <2> QED BY <1>5, <1>8, <1>16, <2>1
<1>18. CASE j < i
  <2>1. opts[i].typ # "Ether" /\ opts[j].typ # "Payload"
    BY <1>9, <1>10, <1>18 DEF PayloadLast
  <2>2. j \in 1..i - 1
    BY <1>10, <1>18
  <2>3. f <= act[i].off
    BY <1>1, <1>2, <1>3, <1>15, <2>1, <2>2 DEF Layout, Behind
  <2>4. w.hi <= f
    BY <1>8, <1>15, <2>1
  <2> QED BY <1>5, <1>12, <1>16, <2>3, <2>4
<1>19. CASE i < j
  <2>1. opts[j].typ # "Ether"
    BY <1>9, <1>10, <1>19
  <2>2. i \in 1..j - 1
    BY <1>10, <1>19
  <2>3. e <= act[j].off
    BY <1>1, <1>2, <1>3, <1>8, <1>14, <2>1, <2>2 DEF Layout, Behind
  <2> QED BY <1>5, <1>12, <1>16, <1>17, <2>3
<1> QED BY <1>10, <1>18, <1>19

-----------------------------------------------------------------------------
(* The invariant holds of every behaviour of the encoder. *)
THEOREM EncodeInvariant == Spec => []IInv
<1>1. Init => IInv
  BY InitOK
<1>2. IInv /\ [Next]_vars => IInv'
  BY NextOK
<1> QED BY <1>1, <1>2, PTL DEF Spec

(* The length, the offsets and the lengths in the headers are 16-bit       *)
(* numbers, the handlers stay within opts, and every field has a value of  *)
(* its kind, whatever texts are encoded one after the other.               *)
THEOREM EncodeTypes == Spec => []TypeOK
<1>1. IInv => TypeOK
  BY DEF IInv
<1> QED BY <1>1, EncodeInvariant, PTL

(* Header offset plus length is the end of the frame, for every IPv4 and   *)
(* UDP header of every text that encodes, at any depth.                    *)
THEOREM LengthsReachTheEnd == Spec => []LengthsReachEnd
BY LengthsAtEnd, EncodeInvariant, PTL

(* A text is refused exactly when it is malformed, with any history of     *)
(* texts encoded before it.                                                *)
THEOREM FailsOnlyIfMalformed == Spec => []FailsIffMalformed
BY VerdictAtEnd, EncodeInvariant, PTL

(* With Payload last, nothing is written into the bytes a checksum covers  *)
(* once it has been computed.                                              *)
THEOREM ChecksumsAreFinal == Spec => []ChecksumsFinal
BY SumsAtEnd, EncodeInvariant, PTL

(* With Ether first and Payload last, only its own handler writes into a   *)
(* header, but for the checksums that IPv4 sets and for the fill where a   *)
(* negative append has cut the header off; for any length, append or fill. *)
THEOREM HeadersStayIntact == Spec => []HeadersIntact
BY LayoutAtEnd, EncodeInvariant, PTL

-----------------------------------------------------------------------------
(* The generator and the decoder together behave, seen from the encoder,   *)
(* as the encoder alone: adding a frame is _encode_frame on a text, and a  *)
(* decoder, at any point of its life, leaves the encoder's state alone.    *)
(* Every property above therefore holds while frames are decoded too.      *)
THEOREM RoundTripEncodes == RoundSpec => Spec
<1>1. RoundInit => Init
  BY DEF RoundInit
<1>2. ASSUME [RoundNext]_roundVars
      PROVE  [Next]_vars
  <2>1. CASE AddFrame
    BY <2>1 DEF AddFrame, Next
  <2>2. CASE EncodeStep
    BY <2>2 DEF EncodeStep, Next
  <2>3. CASE DecodeFrame
    BY <2>3 DEF DecodeFrame
  <2>4. CASE DecoderLife
    BY <2>4 DEF DecoderLife
  <2>5. CASE DecoderStep
    BY <2>5 DEF DecoderStep
  <2>6. CASE UNCHANGED roundVars
    BY <2>6 DEF roundVars
  <2> QED BY <1>2, <2>1, <2>2, <2>3, <2>4, <2>5, <2>6 DEF RoundNext
<1> QED BY <1>1, <1>2, PTL DEF RoundSpec, Spec
=============================================================================
