------------------------------- MODULE Decode -------------------------------
(***************************************************************************)
(* The decoder of lib/core/decode.c: fgen_decode walks the headers of a    *)
(* frame and prints each one into a text buffer that _append grows.  One   *)
(* step of the model is a handler up to its first _append, or one _append; *)
(* the pieces a handler has yet to print are in todo.  Every handler       *)
(* ignores what _append returns.                                           *)
(*                                                                         *)
(* A piece of text is known by the handler that prints it, its place among *)
(* that handler's pieces and its length, and in the buffer also by its     *)
(* position.  Frames hold whole headers; the heap (calloc, realloc, free)  *)
(* is external.                                                            *)
(***************************************************************************)
EXTENDS Integers, Sequences

CONSTANTS
  Frames,             \* the frames decoded
  TextLen,            \* lengths of the pieces each header handler prints
  FGEN_EXTRA_SPACE,
  FGEN_MAX_FSTR_LEN,
  MaxFail             \* bound: heap calls that fail, over a run

UINT16_MAX == 65535   \* of dc->data_len

HdrTypes == {"Ether", "Vlan", "IPv4", "IPv6", "UDP", "TCP"}
Protos == {"VLAN", "QINQ", "IPv4", "IPv6", "UDP", "TCP", "other"}
Printers == {"Ether", "Dot1q", "Dot1ad", "IPv4", "IPv6", "UDP", "TCP", "TSC", "Raw", "Payload"}

(* hdrs: the headers by their offset in the frame, with the protocol field *)
(* of each; stamps: the offsets at which the bytes are TIMESTAMP_ID; body: *)
(* the other bytes, 1 for one that prints as itself and 4 for \xNN.        *)
NoFrame == [hdrs |-> <<>>, stamps |-> {}, body |-> <<>>, data_len |-> 0]

Size(typ) == CASE typ = "Ether" -> 14 [] typ = "Vlan" -> 4 [] typ = "IPv4" -> 20
               [] typ = "IPv6" -> 40 [] typ = "UDP" -> 8 [] typ = "TCP" -> 20
               [] typ = "TSC" -> 16

(* The header that the protocol field of a header h names. *)
Announced(h) ==
  CASE h.typ \in {"Ether", "Vlan"} /\ h.proto \in {"VLAN", "QINQ"} -> "Vlan"
    [] h.typ \in {"Ether", "Vlan"} /\ h.proto \in {"IPv4", "IPv6"} -> h.proto
    [] h.typ \in {"IPv4", "IPv6"} /\ h.proto \in {"UDP", "TCP"} -> h.proto
    [] OTHER -> "none"

IsLast(f, off) == \A o \in DOMAIN f.hdrs : o <= off
EndOf(f, off) == off + Size(f.hdrs[off].typ)

(* The headers are one after the other, each the one that the one before   *)
(* it announces, and end within the frame.                                 *)
WholeHeaders(f) ==
  /\ DOMAIN f.hdrs \subseteq Nat /\ 0 \in DOMAIN f.hdrs
  /\ \A off \in DOMAIN f.hdrs :
       /\ f.hdrs[off] \in [typ : HdrTypes, proto : Protos]
       /\ EndOf(f, off) <= f.data_len
       /\ IF Announced(f.hdrs[off]) = "none"
          THEN IsLast(f, off)
          ELSE /\ EndOf(f, off) \in DOMAIN f.hdrs
               /\ f.hdrs[EndOf(f, off)].typ = Announced(f.hdrs[off])

ASSUME FramesAssumption ==
  \A f \in Frames :
    /\ WholeHeaders(f)
    /\ f.body \in Seq({1, 4}) /\ f.data_len \in 1..UINT16_MAX
    /\ \A o \in f.stamps : o \in Nat /\ o + Size("TSC") <= f.data_len

ASSUME PiecesAssumption ==
  /\ TextLen \in [Printers -> Seq(Nat)]
  /\ \A by \in Printers \ {"Raw"} : TextLen[by] # <<>>

ASSUME BoundsAssumption ==
  /\ FGEN_EXTRA_SPACE \in Nat \ {0}
  /\ FGEN_MAX_FSTR_LEN \in Nat
  /\ 4 * FGEN_EXTRA_SPACE <= FGEN_MAX_FSTR_LEN
  /\ MaxFail \in Nat

VARIABLES
  made,      \* a decode_t exists
  frame,     \* dc->data
  data_off,  \* dc->data_off
  at,        \* the handler that runs next, "ok" or "error" at the end, or "idle"
  todo,      \* the pieces the handlers entered have yet to append
  text,      \* the pieces in dc->buffer, oldest first
  used,      \* dc->used
  buf_len,   \* dc->buf_len; the buffer is NULL when it is 0
  heap,      \* buffers allocated and not freed
  lost,      \* history: an _append of this call failed
  fails,     \* heap calls that failed
  ret        \* what fgen_decode returned

vars == <<made, frame, data_off, at, todo, text, used, buf_len, heap, lost, fails, ret>>
bufVars == <<text, used, buf_len, heap, lost, fails>>

Piece == [by : Printers, i : Nat, len : Nat]
Placed == [by : Printers, i : Nat, len : Nat, pos : Nat]
Running == at # "idle"

Init ==
  /\ made = FALSE /\ frame = NoFrame /\ data_off = 0
  /\ at = "idle" /\ todo = <<>>
  /\ text = <<>> /\ used = 0 /\ buf_len = 0 /\ heap = 0
  /\ lost = FALSE /\ fails = 0 /\ ret = 0

-----------------------------------------------------------------------------
fgen_decode_create ==
  /\ ~made
  /\ made' = TRUE
  /\ UNCHANGED <<frame, data_off, at, todo, bufVars, ret>>

fgen_decode_destroy ==
  /\ made /\ ~Running
  /\ made' = FALSE
  /\ frame' = NoFrame /\ data_off' = 0
  /\ text' = <<>> /\ used' = 0 /\ buf_len' = 0
  /\ heap' = IF buf_len > 0 THEN heap - 1 ELSE heap
  /\ lost' = FALSE
  /\ UNCHANGED <<at, todo, fails, ret>>

(* The switch on opt; every other type starts at Ethernet. *)
StartAt(opt) == IF opt \in {"IPv4", "IPv6", "UDP", "TCP"} THEN opt ELSE "Ether"

BufferKept ==             \* slip: the text of the last call stays
  UNCHANGED <<text, used, buf_len, heap>>

BufferDropped ==          \* slip: the pointer is cleared, the buffer is not freed
  text' = <<>> /\ used' = 0 /\ buf_len' = 0 /\ UNCHANGED heap

(* The buffer of the call before is freed. *)
BufferFreed ==
  /\ text' = <<>> /\ used' = 0 /\ buf_len' = 0
  /\ heap' = IF buf_len > 0 THEN heap - 1 ELSE heap

fgen_decode(f, opt) ==
  /\ made /\ ~Running
  /\ f.hdrs[0].typ = StartAt(opt)
  /\ BufferFreed
  /\ frame' = f /\ data_off' = 0
  /\ at' = StartAt(opt) /\ todo' = <<>>
  /\ lost' = FALSE
  /\ UNCHANGED <<made, fails, ret>>

-----------------------------------------------------------------------------
(* The handlers.  Each counts its header, has pieces to print, and names   *)
(* the handler it calls last.                                              *)
Proto == frame.hdrs[data_off].proto
Pieces(by, lens) == [i \in DOMAIN lens |-> [by |-> by, i |-> i, len |-> lens[i]]]
At(handlers) == at \in handlers /\ todo = <<>>

Prints(by, size, next) ==
  /\ data_off' = data_off + size
  /\ todo' = Pieces(by, TextLen[by])
  /\ at' = next
  /\ UNCHANGED <<made, frame, bufVars, ret>>

EtherNext(p) == CASE p = "VLAN" -> "Dot1ad" [] p = "QINQ" -> "Dot1q" [] p = "IPv4" -> "IPv4"
                  [] OTHER -> "error"

_decode_ether == At({"Ether"}) /\ Prints("Ether", Size("Ether"), EtherNext(Proto))

VlanNext(tag, p) ==
  CASE tag = "Dot1ad" /\ p = "VLAN" -> "Dot1q" [] p = "QINQ" -> "Dot1ad"
    [] p \in {"IPv4", "IPv6"} -> p [] OTHER -> "error"

_decode_vlan == At({"Dot1q", "Dot1ad"}) /\ Prints(at, Size("Vlan"), VlanNext(at, Proto))

InetNext(p) == IF p \in {"UDP", "TCP"} THEN p ELSE "TSC"

DecodeInet == At({"IPv4", "IPv6"}) /\ Prints(at, Size(at), InetNext(Proto))

DecodeL4 == At({"UDP", "TCP"}) /\ Prints(at, Size(at), "TSC")

(* Without the time stamp's mark the bytes are left to _decode_raw. *)
_decode_tsc ==
  /\ At({"TSC"})
  /\ IF data_off \in frame.stamps
     THEN Prints("TSC", Size("TSC"), "Raw")
     ELSE at' = "Raw" /\ UNCHANGED <<made, frame, data_off, todo, bufVars, ret>>

RawLen == frame.data_len - data_off

(* Raw('...')/ with every byte that is left, when any is. *)
_decode_raw ==
  /\ At({"Raw"})
  /\ at' = "Payload"
  /\ IF frame.data_len > data_off
     THEN /\ todo' = Pieces("Raw", <<5>> \o frame.body \o <<3>>)
          /\ data_off' = data_off + RawLen
     ELSE UNCHANGED <<todo, data_off>>
  /\ UNCHANGED <<made, frame, bufVars, ret>>

_decode_payload == At({"Payload"}) /\ Prints("Payload", 0, "ok")

(* fgen_decode returns the length of the buffer. *)
Return ==
  /\ At({"ok", "error"})
  /\ ret' = IF at = "ok" THEN buf_len ELSE -1
  /\ at' = "idle"
  /\ UNCHANGED <<made, frame, data_off, todo, bufVars>>

-----------------------------------------------------------------------------
(* _append.  A NULL buffer is allocated first. *)
Base == IF buf_len = 0 THEN 4 * FGEN_EXTRA_SPACE ELSE buf_len
NewBuffer == heap' = IF buf_len = 0 THEN heap + 1 ELSE heap

NeedsTight == Head(todo).len + used    \* slip: no room is kept for the end of the text
Needs == Head(todo).len + used + FGEN_EXTRA_SPACE

(* strlcat: the piece is put behind the text, and its end is the new used. *)
Put ==
  LET p == Head(todo) IN
    /\ text' = Append(text, [by |-> p.by, i |-> p.i, len |-> p.len, pos |-> used])
    /\ used' = used + p.len

PieceRetried == UNCHANGED todo         \* slip: a piece that failed is tried again
PieceDropped == todo' = Tail(todo)

Appending ==
  /\ todo # <<>>
  /\ UNCHANGED <<made, frame, data_off, at, ret>>

AppendFits ==
  /\ Appending /\ todo' = Tail(todo)
  /\ Needs < Base
  /\ NewBuffer /\ buf_len' = Base /\ Put
  /\ UNCHANGED <<lost, fails>>

TooLong(n) == n >= FGEN_MAX_FSTR_LEN

AppendGrows ==
  /\ Appending /\ todo' = Tail(todo)
  /\ Needs >= Base /\ ~TooLong(Needs)
  /\ NewBuffer /\ buf_len' = Needs /\ Put
  /\ UNCHANGED <<lost, fails>>

AppendTooLong ==
  /\ Appending /\ PieceDropped
  /\ Needs >= Base /\ TooLong(Needs)
  /\ NewBuffer /\ buf_len' = Base
  /\ lost' = TRUE
  /\ UNCHANGED <<text, used, fails>>

(* realloc fails: the buffer stays as it is. *)
AppendNoRealloc ==
  /\ Appending /\ PieceDropped
  /\ Needs >= Base /\ ~TooLong(Needs)
  /\ fails < MaxFail
  /\ NewBuffer /\ buf_len' = Base
  /\ lost' = TRUE /\ fails' = fails + 1
  /\ UNCHANGED <<text, used>>

(* The first calloc fails: the next piece tries again. *)
AppendNoBuffer ==
  /\ Appending /\ PieceDropped
  /\ buf_len = 0
  /\ fails < MaxFail
  /\ lost' = TRUE /\ fails' = fails + 1
  /\ UNCHANGED <<text, used, buf_len, heap>>

-----------------------------------------------------------------------------
Handler ==
  \/ _decode_ether \/ _decode_vlan \/ DecodeInet \/ DecodeL4
  \/ _decode_tsc \/ _decode_raw \/ _decode_payload \/ Return

_append ==
  \/ AppendFits \/ AppendGrows \/ AppendTooLong \/ AppendNoRealloc \/ AppendNoBuffer

Next ==
  \/ fgen_decode_create
  \/ fgen_decode_destroy
  \/ \E f \in Frames, opt \in {"Ether", "IPv4", "IPv6", "UDP", "TCP", "Dot1q"} :
       fgen_decode(f, opt)
  \/ Handler
  \/ _append

Spec == Init /\ [][Next]_vars

(* A call of fgen_decode runs on. *)
FairSpec == Spec /\ WF_vars(Handler \/ _append)

-----------------------------------------------------------------------------
TypeOK ==
  /\ made \in BOOLEAN
  /\ frame \in Frames \union {NoFrame}
  /\ data_off \in 0..UINT16_MAX
  /\ at \in Printers \union {"ok", "error", "idle"}
  /\ todo \in Seq(Piece) /\ text \in Seq(Placed)
  /\ used \in Nat /\ buf_len \in Nat /\ heap \in {0, 1}
  /\ lost \in BOOLEAN /\ fails \in 0..MaxFail
  /\ ret \in Int

(* The pieces in the buffer adjoin: the first is at its start, the last    *)
(* ends at dc->used.                                                       *)
PiecesAdjoin ==
  /\ IF text = <<>> THEN used = 0 ELSE text[1].pos = 0
  /\ \A k \in DOMAIN text :
       text[k].pos + text[k].len = IF k = Len(text) THEN used ELSE text[k + 1].pos

(* _append: however pieces fail or grow the buffer, the pieces of the text *)
(* adjoin, the text ends inside the buffer with the slack for its end that *)
(* _append reserves, and the buffer never reaches FGEN_MAX_FSTR_LEN but    *)
(* when it is the first one.                                               *)
TextInBuffer ==
  /\ PiecesAdjoin
  /\ buf_len > 0 => used + FGEN_EXTRA_SPACE <= buf_len \/ used = 0
  /\ buf_len < FGEN_MAX_FSTR_LEN \/ buf_len = 4 * FGEN_EXTRA_SPACE

(* The decoder holds one buffer at most, the one its text is in, over any  *)
(* sequence of calls: none is left behind, and none after destroy.         *)
OneBuffer == heap = (IF buf_len > 0 THEN 1 ELSE 0) /\ (~made => heap = 0)

(* Piece b may follow piece a; nothing follows Payload. *)
Link(a, b) == IF b.i = 1 THEN a.by # "Payload" ELSE b.by = a.by /\ b.i = a.i + 1
Chained(s) == \A k \in 1..Len(s) - 1 : Link(s[k], s[k + 1])

Kinds == {text[k].by : k \in DOMAIN text}
StampBehind(f) == \E off \in DOMAIN f.hdrs : IsLast(f, off) /\ EndOf(f, off) \in f.stamps

(* A decoder is used again: when a frame has been decoded without losing a *)
(* piece, the text is that frame's alone, each handler's pieces together   *)
(* in order, it ends with the Payload layer, and it has a time stamp when  *)
(* the bytes behind the frame's last header are one.                       *)
TextOfThisFrame ==
  at = "ok" /\ todo = <<>> /\ ~lost =>
    /\ text # <<>> /\ text[Len(text)].by = "Payload"
    /\ Chained(text)
    /\ "TSC" \in Kinds <=> StampBehind(frame)

(* fgen_decode returns: the chain of headers is followed to its end.       *)
DecodeReturns == Running ~> ~Running

(* "-1 on error or length of decoded string": what is returned is the      *)
(* length of the text.                                                     *)
ReturnsTextLength == ~Running /\ ret > 0 /\ buf_len > 0 => ret = used

(* The same, for errors: a call that could not add to the text says so.    *)
LostTextReported == ~Running /\ lost => ret = -1

(* FGEN_ETHER_TYPE_VLAN is "IEEE 802.1Q VLAN tagging": a frame whose       *)
(* Ethernet type is that one is printed as Dot1Q.                          *)
TagNamedByType ==
  at = "ok" /\ todo = <<>> /\ frame.hdrs[0].typ = "Ether" /\ frame.hdrs[0].proto = "VLAN"
    /\ ~lost => "Dot1q" \in Kinds
=============================================================================
