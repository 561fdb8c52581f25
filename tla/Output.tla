------------------------------- MODULE Output --------------------------------
(***************************************************************************)
(* Colored output: the print functions of lib/osal/fgen_stdio.c, fgen_vlog *)
(* of lib/log/fgen_log.c, and vt_color_parse and color_begin of            *)
(* lib/osal/vt100_out.c, which replace the tuples [fg:bg:attr] of a text   *)
(* by terminal codes in the buffer the text came in.  One turn of the loop *)
(* of vt_color_parse is a step; a call ends before the next one begins.    *)
(*                                                                         *)
(* A text is a sequence of characters; the codes it is given are elements  *)
(* of their own that take CodeLen bytes.  A write behind the buffer ends   *)
(* the model (pc = "past"): what it does is not defined.                   *)
(***************************************************************************)
EXTENDS Integers, Sequences, SequencesExt

CONSTANTS
  Texts,             \* by function: what vsnprintf makes of format and arguments
  Sizes,             \* sizes of the buffers given to fgen_snprintf
  OUTPUT_BUFF_SIZE,
  MAX_LOG_BUF_SIZE,
  DataSize,          \* sizeof(data) in color_begin
  CodeLen,           \* bytes of a terminal code
  ColorNames,        \* names of the colors, but "default"
  Levels             \* values fgen_log_set_level is called with

FGEN_LOG_EMERG == 1
FGEN_LOG_INFO == 7
FGEN_LOG_DEBUG == 8
ENOMEM == 12

Printers == {"fgen_printf", "fgen_vprintf", "fgen_printf_pos", "fgen_cprintf", "fgen_fprintf"}
PrintFns == Printers \cup {"fgen_snprintf", "fgen_vlog"}

ASSUME OutputAssumption ==
  /\ {OUTPUT_BUFF_SIZE, MAX_LOG_BUF_SIZE, DataSize, CodeLen} \cup Sizes \subseteq Nat \ {0}
  /\ Levels \subseteq Nat
  /\ DOMAIN Texts = PrintFns

VARIABLES
  pc,             \* "idle", "format", "parse", "write", "done", "past"
  fn,             \* the function called
  text,           \* its formatted text
  size,           \* bytes of its buffer
  color,          \* TTY_COLOR_ON is set
  fgen_loglevel,
  buff,           \* the buffer up to the first NUL
  cbuf, c,        \* vt_color_parse: the copy, and the place in it,
  len, b_index,   \* and its two counters
  ret,            \* what was returned to the function, and then by it
  term            \* what the call has put on the terminal

vars == <<pc, fn, text, size, color, fgen_loglevel, buff, cbuf, c, len, b_index, ret, term>>
callVars == <<fn, text, size, color, fgen_loglevel>>
loopVars == <<cbuf, c, len, b_index>>

Init ==
  /\ pc = "idle" /\ fn = "none"
  /\ text = <<>> /\ size = 1
  /\ color \in BOOLEAN
  /\ fgen_loglevel = FGEN_LOG_INFO
  /\ buff = <<>> /\ cbuf = <<>> /\ c = 1 /\ len = 0 /\ b_index = 0
  /\ ret = 0 /\ term = <<>>

(* The codes, and one that snprintf had to cut. *)
Codes == {"attr", "bg", "fg", "cut"}
Bytes(s) == Len(s) + (CodeLen - 1) * Len(SelectSeq(s, LAMBDA x : x \in Codes))

-----------------------------------------------------------------------------
(* The calls. *)
Begin(f, t, n) ==
  /\ pc = "idle"
  /\ fn' = f /\ text' = t /\ size' = n
  /\ UNCHANGED <<loopVars, buff, ret, term>>

fgen_snprintf ==
  /\ \E t \in Texts["fgen_snprintf"], n \in Sizes : Begin("fgen_snprintf", t, n)
  /\ pc' = "format"
  /\ UNCHANGED <<color, fgen_loglevel>>

(* The functions that print; no memory for the buffer is -ENOMEM. *)
Printf ==
  /\ \E f \in Printers : \E t \in Texts[f] : Begin(f, t, OUTPUT_BUFF_SIZE)
  /\ pc' = "format"
  /\ UNCHANGED <<color, fgen_loglevel>>

PrintfNoMem ==
  /\ pc = "format" /\ fn \in Printers
  /\ ret' = -ENOMEM
  /\ pc' = "done"
  /\ UNCHANGED <<callVars, loopVars, buff, term>>

(* fgen_vlog: nothing above the level in force.  The text is the prefix    *)
(* with the message's format; vprintf then fills in the arguments.         *)
fgen_vlog ==
  \E t \in Texts["fgen_vlog"], level \in Levels :
    /\ Begin("fgen_vlog", t, MAX_LOG_BUF_SIZE)
    /\ pc' = IF level > fgen_loglevel THEN "done" ELSE "format"
    /\ UNCHANGED <<color, fgen_loglevel>>

fgen_log_set_level ==
  /\ pc = "idle"
  /\ \E level \in Levels :
       fgen_loglevel' = IF level < FGEN_LOG_EMERG THEN FGEN_LOG_EMERG
                        ELSE IF level > FGEN_LOG_DEBUG THEN FGEN_LOG_DEBUG ELSE level
  /\ UNCHANGED <<pc, fn, text, size, color, loopVars, buff, ret, term>>

(* tty_enable_color, tty_disable_color. *)
TtyColor ==
  /\ pc = "idle"
  /\ color' = ~color
  /\ UNCHANGED <<pc, fn, text, size, fgen_loglevel, loopVars, buff, ret, term>>

-----------------------------------------------------------------------------
(* fgen_vsnprintf: the text, cut to the buffer, then vt_color_parse.  A    *)
(* text without '[' stays as it is.                                        *)
Formatted == SubSeq(text, 1, IF Len(text) < size THEN Len(text) ELSE size - 1)

fgen_vsnprintf ==
  /\ pc = "format"
  /\ IF "[" \in Range(Formatted)
     THEN /\ cbuf' = Formatted /\ c' = 1
          /\ len' = size /\ b_index' = 0
          /\ pc' = "parse"
          /\ UNCHANGED <<buff, ret>>
     ELSE /\ buff' = Formatted
          /\ ret' = Len(Formatted)
          /\ pc' = "write"
          /\ UNCHANGED loopVars
  /\ UNCHANGED <<callVars, term>>

(* vsnprintf reports an error, or there is no memory for cbuf. *)
VsnprintfFails ==
  /\ pc = "format"
  /\ buff' \in {<<>>} \cup {s \in {Formatted} : "[" \in Range(s)}
  /\ ret' = -1
  /\ pc' = "write"
  /\ UNCHANGED <<callVars, loopVars, term>>

(* The tuple from '[' at i to the first ']'. *)
Closing(s, i) == {j \in i + 1..Len(s) : s[j] = "]"}
HasTag(s, i) == s[i] = "[" /\ Closing(s, i) # {}
TagEnd(s, i) == CHOOSE j \in Closing(s, i) : \A k \in Closing(s, i) : j <= k
TagAt(s, i) == SubSeq(s, i, TagEnd(s, i))

(* strtrimset(d, "[]"), and the k-th of the fields between colons. *)
Inside(d) ==
  LET lo == CHOOSE i \in 1..Len(d) + 1 :
              (i > Len(d) \/ d[i] # "[") /\ \A k \in 1..i - 1 : d[k] = "["
      hi == CHOOSE i \in lo - 1..Len(d) :
              (i < lo \/ d[i] # "]") /\ \A k \in i + 1..Len(d) : d[k] = "]"
  IN  SubSeq(d, lo, hi)
Starts(d) == {i \in 1..Len(d) : d[i] # ":" /\ (i = 1 \/ d[i - 1] = ":")}
Missing == <<"default">>
Token(d, k) ==
  LET nth == {i \in Starts(d) : Cardinality({j \in Starts(d) : j <= i}) = k}
  IN  IF nth = {} THEN Missing
      ELSE LET i == CHOOSE i \in nth : TRUE
               e == CHOOSE e \in i..Len(d) : (e = Len(d) \/ d[e + 1] = ":")
                                             /\ \A h \in i..e : d[h] # ":"
           IN  SubSeq(d, i, e)

(* A name is looked for by its beginning; a color that is not found is the *)
(* default, which has no code, an attribute that is not found is "off".    *)
match_rgb_color(t) == \E n \in ColorNames : IsPrefix(t, n)
match_attr(t) == t # Missing

(* color_begin on a tuple: the codes for it, none for the defaults. *)
color_begin(tag) ==
  IF tag = <<"[", "]">> THEN <<"attr">>
  ELSE LET d == Inside(SubSeq(tag, 1, IF Len(tag) < DataSize THEN Len(tag) ELSE DataSize - 1))
       IN  (IF match_attr(Token(d, 3)) THEN <<"attr">> ELSE <<>>)
             \o (IF match_rgb_color(Token(d, 2)) THEN <<"bg">> ELSE <<>>)
             \o (IF match_rgb_color(Token(d, 1)) THEN <<"fg">> ELSE <<>>)

InLoopShort == pc = "parse" /\ c <= Len(cbuf) /\ b_index + 1 < len   \* slip: one turn too few
InLoop == pc = "parse" /\ c <= Len(cbuf) /\ b_index < len
TagNext == HasTag(cbuf, c)

(* *b++ = *c++ *)
CopyChar ==
  /\ buff' = Append(buff, cbuf[c])
  /\ c' = c + 1
  /\ b_index' = b_index + 1
  /\ pc' = IF Bytes(buff) + 1 > size THEN "past" ELSE pc

(* A character of the text; a '[' without its ']' is one. *)
ParseChar ==
  /\ InLoop /\ ~TagNext
  /\ CopyChar
  /\ len' = len - 1
  /\ UNCHANGED <<callVars, cbuf, ret, term>>

(* Room for the k-th code as color_begin counts it: snprintf takes a       *)
(* number below 0 for a very large one.  A code that finds too little is   *)
(* cut, and counted in full.                                               *)
RoomFor(k) == len - (k - 1) * CodeLen
Fits(k) == RoomFor(k) > CodeLen \/ RoomFor(k) < 0
Written(k) == IF Fits(k) THEN CodeLen + 1 ELSE RoomFor(k)

AfterTagStays(e) == IF color THEN e + 1 ELSE c   \* slip: found again when color is off
AfterTagShort(e) == e                             \* slip: e is not moved behind the ']'
AfterTag(e) == e + 1

(* A tuple: its codes, the '[' alone when it has none, nothing when color  *)
(* is off.                                                                 *)
ParseTag ==
  /\ InLoop /\ TagNext
  /\ LET codes == color_begin(TagAt(cbuf, c))
         done == [k \in DOMAIN codes |-> IF Fits(k) THEN codes[k] ELSE "cut"]
     IN  IF color /\ codes = <<>>
         THEN CopyChar
         ELSE /\ c' = AfterTag(TagEnd(cbuf, c))
              /\ buff' = IF color THEN buff \o done ELSE buff
              /\ pc' = IF color /\ \E k \in DOMAIN codes :
                                     Bytes(buff) + (k - 1) * CodeLen + Written(k) > size
                       THEN "past" ELSE pc
              /\ UNCHANGED b_index
  /\ UNCHANGED <<callVars, cbuf, len, ret, term>>

ParseEnd ==
  /\ pc = "parse" /\ ~InLoop
  /\ ret' = Bytes(buff)
  /\ pc' = "write"
  /\ UNCHANGED <<callVars, loopVars, buff, term>>

-----------------------------------------------------------------------------
(* The call's end.  fgen_snprintf returns the length; fgen_vlog and        *)
(* fgen_vprintf return when there is nothing to print.                     *)
ReturnOnly ==
  /\ pc = "write"
  /\ fn = "fgen_snprintf" \/ (fn \in {"fgen_vlog", "fgen_vprintf"} /\ ret <= 0)
  /\ pc' = "done"
  /\ UNCHANGED <<callVars, loopVars, buff, ret, term>>

(* The terminal is given ret bytes, or the whole string when ret is not    *)
(* above 0, behind a cursor position pos; write may take fewer, or fail.   *)
Put(pos) ==
  /\ pc = "write" /\ pc' = "done"
  /\ \E n \in 0..Len(buff) :
       term' = pos \o SubSeq(buff, 1, n) /\ ret' = Bytes(SubSeq(buff, 1, n))
  /\ UNCHANGED <<callVars, loopVars, buff>>

PutFails(pos) ==
  /\ pc = "write" /\ pc' = "done"
  /\ term' = pos /\ ret' = -1
  /\ UNCHANGED <<callVars, loopVars, buff>>

tty_write ==
  /\ fn = "fgen_printf" \/ (fn = "fgen_vprintf" /\ ret > 0)
  /\ Put(<<>>) \/ PutFails(<<>>)

(* fgen_printf_pos leaves the cursor alone for a negative row or column. *)
WriteAt ==
  /\ fn \in {"fgen_printf_pos", "fgen_cprintf"}
  /\ \E pos \in {<<"pos">>} \cup {p \in {<<>>} : fn = "fgen_printf_pos"} :
       Put(pos) \/ PutFails(pos)

(* fwrite reports how much it wrote, and no error. *)
tty_fwrite == fn = "fgen_fprintf" /\ Put(<<>>)

WriteLog ==
  /\ fn = "fgen_vlog" /\ ret > 0
  /\ Put(<<>>) \/ PutFails(<<>>)

(* The caller takes the result; what was local to the call is gone. *)
Returned ==
  /\ pc = "done"
  /\ pc' = "idle" /\ fn' = "none" /\ text' = <<>> /\ size' = 1
  /\ buff' = <<>> /\ cbuf' = <<>> /\ c' = 1 /\ len' = 0 /\ b_index' = 0
  /\ ret' = 0 /\ term' = <<>>
  /\ UNCHANGED <<color, fgen_loglevel>>

Call == fgen_snprintf \/ Printf \/ fgen_vlog \/ fgen_log_set_level \/ TtyColor

Step ==
  \/ PrintfNoMem \/ fgen_vsnprintf \/ VsnprintfFails
  \/ ParseChar \/ ParseTag \/ ParseEnd \/ ReturnOnly \/ tty_write
  \/ WriteAt \/ tty_fwrite \/ WriteLog \/ Returned

Next == Call \/ Step

(* A thread goes on with the call it is in. *)
Spec == Init /\ [][Next]_vars /\ WF_vars(Step)

-----------------------------------------------------------------------------
TypeOK ==
  /\ pc \in {"idle", "format", "parse", "write", "done", "past"}
  /\ fn \in PrintFns \cup {"none"}
  /\ fn # "none" => text \in Texts[fn]
  /\ size \in Nat
  /\ color \in BOOLEAN
  /\ fgen_loglevel \in FGEN_LOG_EMERG..FGEN_LOG_DEBUG
  /\ c \in 1..Len(cbuf) + 1
  /\ len \in Int /\ b_index \in Nat /\ ret \in Int

(* What a text should look like on the terminal, place by place and with   *)
(* no counters: a tuple begins at a '[' that is not inside an earlier one. *)
Rendered(s, on) ==
  LET begins[i \in 0..Len(s)] ==
        /\ i > 0 /\ HasTag(s, i)
        /\ on => color_begin(TagAt(s, i)) # <<>>
        /\ \A h \in 1..i - 1 : begins[h] => TagEnd(s, h) < i
      inside(i) == \E h \in 1..i : begins[h] /\ i <= TagEnd(s, h)
  IN  FlattenSeq([i \in 1..Len(s) |->
        IF begins[i] THEN IF on THEN color_begin(TagAt(s, i)) ELSE <<>>
        ELSE IF inside(i) THEN <<>> ELSE <<s[i]>>])

Expected == Rendered(Formatted, color)
PlainChars == Len(SelectSeq(Expected, LAMBDA x : x \notin Codes))

(* However small the buffer, vt_color_parse only ever drops the end of the *)
(* text: what it has put into the buffer is what the text should look      *)
(* like, from its beginning, no tuple half replaced and no character of    *)
(* one left behind, but for codes that snprintf cut.                       *)
OnlyTheEndIsLost ==
  pc \in {"parse", "write"} /\ ret >= 0 =>
    /\ Len(buff) <= Len(Expected)
    /\ \A i \in 1..Len(buff) : buff[i] \in {Expected[i], "cut"}

Roomy == Bytes(Expected) < size /\ 2 * PlainChars < size

(* A text is shown whole when it fits and its characters fill less than    *)
(* half the buffer: both counters of the loop move with a character,       *)
(* towards each other.                                                     *)
RoomyTextWhole ==
  pc = "write" /\ ret >= 0 /\ Roomy => buff = Expected /\ ret = Bytes(Expected)

(* Every call comes back, whatever brackets the text has: each turn of the *)
(* loop moves on in the text.                                              *)
CallReturns == (pc = "format") ~> (pc \in {"idle", "past"})

(* vt100_out.h: "Convert the buffer with color tuples into vt100 color     *)
(* codes."  A text that fits into the buffer is not cut.                   *)
FittingTextWhole ==
  pc = "write" /\ ret >= 0 /\ Bytes(Expected) < size => buff = Expected

(* vt_color_parse: "\param len Length of buffer".  It stays in the buffer. *)
WritesInBuffer == pc # "past"

(* "']' not found assume only a '[' in text": brackets that are no color   *)
(* tuple are text, with color on or off.                                   *)
BracketsKept ==
  pc = "write" /\ ret >= 0 /\ Roomy /\ Rendered(Formatted, TRUE) = Formatted =>
    buff = Formatted
=============================================================================
