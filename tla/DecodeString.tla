---------------------------- MODULE DecodeString ----------------------------
(***************************************************************************)
(* fgen_decode_string of lib/core/decode.c, which turns a hex dump into    *)
(* bytes.  One step is one turn of its loop.  A character is a space, a    *)
(* hexadecimal digit (its value is not kept) or another one; the end of    *)
(* the string reads as a character that is none of these.                  *)
(***************************************************************************)
EXTENDS Integers, Sequences, FiniteSets

CONSTANTS Texts,     \* the dumps decoded
          Lengths    \* lengths of the buffers given, 0 included

Chars == {"space", "hex", "other"}

VARIABLES
  pc,      \* "idle" or "loop"
  text,    \* the string
  pos,     \* index of *text in it
  len,     \* the argument len
  cnt,     \* bytes put into the buffer
  from,    \* history: index of the digits each byte was made from
  errno,   \* whether errno is ERANGE, left by an earlier call
  ret      \* what the last call returned

vars == <<pc, text, pos, len, cnt, from, errno, ret>>

Char(i) == IF i <= Len(text) THEN text[i] ELSE "end"

Init ==
  /\ pc = "idle"
  /\ text = <<>> /\ pos = 1 /\ len = 0 /\ cnt = 0 /\ from = <<>>
  /\ errno \in BOOLEAN
  /\ ret = 0

fgen_decode_string(t, n) ==
  /\ pc = "idle"
  /\ text' = t /\ pos' = 1 /\ len' = n /\ cnt' = 0 /\ from' = <<>>
  /\ IF n = 0 THEN ret' = -1 /\ UNCHANGED pc ELSE pc' = "loop" /\ UNCHANGED ret
  /\ UNCHANGED errno

Leave(r) == ret' = r /\ pc' = "idle" /\ UNCHANGED <<text, pos, len, cnt, from, errno>>

InLoop == pc = "loop" /\ Char(pos) # "end"

EndOfText == pc = "loop" /\ Char(pos) = "end" /\ Leave(cnt)

Full == cnt >= len

BufferFull == InLoop /\ Full /\ Leave(-1)

Space ==
  /\ InLoop /\ ~Full
  /\ Char(pos) = "space"
  /\ pos' = pos + 1
  /\ UNCHANGED <<pc, text, len, cnt, from, errno, ret>>

IsPair == Char(pos) = "hex" /\ Char(pos + 1) = "hex"

(* strtol on two digits leaves errno alone; the byte is stored, and text   *)
(* stays where it is.                                                      *)
Pair ==
  /\ InLoop /\ ~Full
  /\ Char(pos) # "space" /\ IsPair
  /\ ~errno
  /\ cnt' = cnt + 1
  /\ from' = Append(from, pos)
  /\ UNCHANGED <<pc, text, pos, len, errno, ret>>

PairRange ==
  /\ InLoop /\ ~Full
  /\ Char(pos) # "space" /\ IsPair
  /\ errno
  /\ Leave(-1)

(* Anything else: the loop goes round with nothing changed. *)
Neither ==
  /\ InLoop /\ ~Full
  /\ Char(pos) # "space" /\ ~IsPair
  /\ UNCHANGED vars

Turn == EndOfText \/ BufferFull \/ Space \/ Pair \/ PairRange \/ Neither

Next == Turn \/ \E t \in Texts, n \in Lengths : fgen_decode_string(t, n)

Spec == Init /\ [][Next]_vars

(* A call runs on. *)
FairSpec == Spec /\ WF_vars(Turn)

-----------------------------------------------------------------------------
TypeOK ==
  /\ pc \in {"idle", "loop"}
  /\ text \in Seq(Chars) /\ pos \in Nat \ {0}
  /\ len \in Nat /\ cnt \in 0..len /\ from \in Seq(Nat)
  /\ errno \in BOOLEAN
  /\ ret \in Int

(* A dump of pairs of digits with spaces around them, and its pairs. *)
IsDump(t) ==
  \A i \in DOMAIN t :
    /\ t[i] # "other"
    /\ t[i] = "hex" => (i > 1 /\ t[i - 1] = "hex") # (i < Len(t) /\ t[i + 1] = "hex")
Digits(t) == {i \in DOMAIN t : t[i] = "hex"}
Pairs(t) == {i \in Digits(t) : i + 1 \in Digits(t)}

(* "number of decoded bytes in the buffer": a dump with fewer bytes than   *)
(* the buffer holds is decoded, each pair of digits once.                  *)
DumpDecoded ==
  pc = "idle" /\ IsDump(text) /\ Cardinality(Pairs(text)) < len /\ ~errno =>
    ret = Cardinality(Pairs(text)) /\ {from[k] : k \in DOMAIN from} = Pairs(text)

(* fgen_decode_string returns -1 or a count, whatever the text.            *)
DecodeStringReturns == pc = "loop" ~> pc = "idle"
=============================================================================
