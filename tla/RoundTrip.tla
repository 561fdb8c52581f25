------------------------------ MODULE RoundTrip ------------------------------
(***************************************************************************)
(* The encoder and the decoder together, as fgen_start of the test program *)
(* uses them: a generator encodes one text after the other at the start of *)
(* its only block, and a decoder prints the frame that is there.  The      *)
(* decoder is Decode, given the bytes that Encode has left: the protocol   *)
(* field of every header, the length, and the time stamps in the block,    *)
(* those of earlier frames that nothing was written over included.  Here a *)
(* decoder decodes one frame; its use for several is in Decode.            *)
(***************************************************************************)
EXTENDS Encode, SequencesExt

CONSTANTS
  TextLen, FGEN_EXTRA_SPACE, FGEN_MAX_FSTR_LEN, MaxFail,   \* as in Decode
  MaxFrames   \* bound: frames of one generator

ASSUME RoundTripAssumption == MaxFrames \in Nat \ {0}

VARIABLES
  mem,        \* offsets at which earlier frames have left a time stamp
  nb_frames,  \* frames of the generator
  fresh,      \* the frame encoded last is to be decoded
  made, frame, data_off, at, todo, out, used, buf_len, heap, lost, fails, dret

decoderVars == <<made, frame, data_off, at, todo, out, used, buf_len, heap, lost, fails, dret>>
blockVars == <<mem, nb_frames, fresh>>
roundVars == <<vars, blockVars, decoderVars>>

(* The decoder; its text is out, what it returned dret. *)
D == INSTANCE Decode WITH Frames <- {}, text <- out, ret <- dret

RoundInit ==
  /\ Init
  /\ mem = {} /\ nb_frames = 0 /\ fresh = FALSE
  /\ D!Init

-----------------------------------------------------------------------------
(* TIMESTAMP_ID is in the first four bytes of a tsc_t. *)
Untouched(o, k) == \A j \in k..Len(log) : log[j].hi <= o \/ o + 4 <= log[j].lo
OwnStamps == {k \in DOMAIN log : opts[log[k].by].typ = "TSC"}

(* The time stamps in the block. *)
Stamps == {o \in mem : Untouched(o, 1)}
            \cup {log[k].lo : k \in {k \in OwnStamps : Untouched(log[k].lo, k + 1)}}

(* The headers the decoder can come to: those before the first layer of    *)
(* another kind.                                                           *)
HeaderTypes == {"Ether", "Dot1q", "Dot1ad", "IPv4", "UDP", "TCP"}
Headers == {i \in Layers : \A h \in 1..i :
              opts[h].typ \in HeaderTypes /\ (opts[h].typ = "Ether" <=> h = 1)}

WireType(typ) == IF typ \in {"Dot1q", "Dot1ad"} THEN "Vlan" ELSE typ
WireProto(nxt) == IF nxt \in {"VLAN", "QINQ", "IPv4", "UDP", "TCP"} THEN nxt ELSE "other"

(* The frame as the decoder reads it.  The bytes of the body are left out, *)
(* their number is not.                                                    *)
Wire ==
  [hdrs |-> [off \in {act[i].off : i \in Headers} |->
               LET i == CHOOSE i \in Headers : act[i].off = off
               IN  [typ |-> WireType(opts[i].typ), proto |-> WireProto(act[i].nxt)]],
   stamps |-> Stamps, body |-> <<>>, data_len |-> data_len]

-----------------------------------------------------------------------------
(* A frame is added: what earlier ones have left in the block stays. *)
AddFrame ==
  /\ ~made /\ nb_frames < MaxFrames
  /\ \E t \in Texts : _encode_frame(t)
  /\ mem' = Stamps
  /\ nb_frames' = nb_frames + 1
  /\ fresh' = FALSE
  /\ UNCHANGED decoderVars

EncodeStep ==
  /\ Enter \/ Return
  /\ fresh' = (Encoded' /\ text[1].typ = "Ether")
  /\ UNCHANGED <<mem, nb_frames, decoderVars>>

(* fgen_decode with opt 0, which starts at Ethernet. *)
DecodeFrame ==
  /\ fresh
  /\ D!fgen_decode(Wire, "Ether")
  /\ fresh' = FALSE
  /\ UNCHANGED <<vars, mem, nb_frames>>

DecoderLife ==
  /\ \/ D!fgen_decode_create /\ fresh
     \/ D!fgen_decode_destroy /\ ~fresh
  /\ UNCHANGED <<vars, blockVars>>

DecoderStep ==
  /\ D!Handler \/ D!_append
  /\ UNCHANGED <<vars, blockVars>>

RoundNext == AddFrame \/ EncodeStep \/ DecoderLife \/ DecodeFrame \/ DecoderStep

RoundSpec == RoundInit /\ [][RoundNext]_roundVars

-----------------------------------------------------------------------------
RoundTypeOK ==
  /\ TypeOK
  /\ mem \subseteq U16 /\ nb_frames \in 0..MaxFrames /\ fresh \in BOOLEAN
  /\ at # "idle" => frame.data_len = data_len
(* What the decoder prints of a text: the headers that follow one another, *)
(* a time stamp behind them, what is left as Raw, and Payload.             *)
Follows(a, b) ==
  \/ a = "Ether" /\ b \in {"Dot1q", "Dot1ad", "IPv4"}
  \/ a \in {"Dot1q", "Dot1ad"} /\ b \in {"Dot1q", "Dot1ad", "IPv4"}
  \/ a = "IPv4" /\ b \in {"UDP", "TCP"}
Chain == CHOOSE k \in 1..LastLayer :
           /\ \A i \in 1..k - 1 : Follows(opts[i].typ, opts[i + 1].typ)
           /\ k < LastLayer => ~Follows(opts[k].typ, opts[k + 1].typ)

(* A text with an IPv4 layer the decoder finds; it gives up at a Dot1q tag *)
(* right behind a first Dot1ad.                                            *)
Decodable ==
  /\ opts[Chain].typ \in {"IPv4", "UDP", "TCP"}
  /\ ~(opts[2].typ = "Dot1ad" /\ opts[3].typ = "Dot1q")

(* The layers printed, the two kinds of tag taken for one: the decoder     *)
(* names the first one wrongly.                                            *)
Tag(by) == IF by \in {"Dot1q", "Dot1ad"} THEN "Vlan" ELSE by
Printed == LET firsts == SelectSeq(out, LAMBDA p : p.i = 1)
           IN  [k \in DOMAIN firsts |-> Tag(firsts[k].by)]

HasStamp == Chain < LastLayer /\ opts[Chain + 1].typ = "TSC"
HeadersEnd == act[Chain].off + D!Size(WireType(opts[Chain].typ)) + (IF HasStamp THEN 16 ELSE 0)

(* Decoding gives the layers of the text back, in their order and each     *)
(* read where the encoder put it: every offset the decoder adds up and     *)
(* every protocol field it follows is one that the encoder completed on    *)
(* the way out.  A frame at the start of a block in which an earlier one   *)
(* left a time stamp may show that one too.  A frame whose headers or      *)
(* stamp a negative append has cut is left out.                            *)
RoundTripKeepsLayers ==
  (at \in {"ok", "error"} /\ todo = <<>> /\ ~lost /\ Decodable
    /\ \A i \in 1..Chain + (IF HasStamp THEN 1 ELSE 0) : ~Cut(i)) =>
    LET layers == [i \in 1..Chain |-> WireType(opts[i].typ)]
        rest == (IF data_len > HeadersEnd THEN <<"Raw">> ELSE <<>>) \o <<"Payload">>
    IN  /\ at = "ok"
        /\ \/ Printed = layers \o (IF HasStamp THEN <<"TSC">> ELSE <<>>) \o rest
           \/ HeadersEnd \in mem /\ ~HasStamp /\ IsPrefix(layers \o <<"TSC">>, Printed)

(* fgen.h, fgen_decode: "Decode a frame of data into a text string" - the  *)
(* time stamp printed is one the frame's text has.                         *)
StampIsOwn == at = "ok" /\ todo = <<>> /\ Decodable =>
                ("TSC" \in Range(Printed) => HasStamp)

(* The same: what the encoder accepts the decoder decodes.                 *)
EncodedFrameDecodes ==
  at \in {"ok", "error"} => (opts[Chain].typ \in {"IPv4", "UDP", "TCP"} => at = "ok")
=============================================================================
