------------------------------- MODULE Frames -------------------------------
(***************************************************************************)
(* The frame list of lib/core/fgen.c: creating and destroying a frame      *)
(* generator, adding a frame, loading frames from an array of strings and  *)
(* from files, and finding a frame by name.                                *)
(*                                                                         *)
(* A name is a sequence of characters (short words stand for runs of       *)
(* characters), because lookup compares prefixes and loading cuts names.   *)
(* A frame text is abstracted to what the list code can tell apart:        *)
(*   "empty"    the empty string                                           *)
(*   "slashes"  only separators: _encode_frame finds no layer, returns -1  *)
(*   "broken"   some layer does not encode; _encode_frame returns 0        *)
(*   "good"     every layer encodes                                        *)
(* A file is the sequence of its lines after comments and white space are  *)
(* removed; a line of it with only separators is "/", as "//" begins a     *)
(* comment.  The API is single-threaded: while a load runs nothing else    *)
(* happens, so a load is a sequence of steps only to show that it ends.    *)
(***************************************************************************)
EXTENDS Integers, Sequences, SequencesExt

CONSTANTS
  Char,            \* characters of names
  Digit,           \* the ten digits, by value
  AnyFrame,        \* "frame-", which starts the name of an unnamed string
  AnyFileFrame,    \* "Frame-", which starts that of an unnamed frame of a file
  Names,           \* names given to fgen_add_frame, the empty one included
  StringArrays,    \* arrays given to fgen_load_strings
  FileArrays,      \* arrays given to fgen_load_files
  NAME_LENGTH,     \* FGEN_FRAME_NAME_LENGTH
  MaxFrames        \* bound: no call is made on a list of this length

Texts == {"empty", "slashes", "broken", "good"}
Name == Seq(Char)

(* An array element of fgen_load_strings: "name := text", or only text. *)
FrameString == [named : BOOLEAN, name : Name, text : Texts]

(* A line of a file: nothing, "name := rest", or more text of a frame. *)
Line == [k : {"blank", "hdr", "text"}, name : Name, text : Texts]

(* A file that may or may not open. *)
File == [opens : BOOLEAN, lines : Seq(Line)]

Frame == [name : Name, text : Texts]

ASSUME FramesAssumption ==
  /\ Digit \in [0..9 -> Char]
  /\ AnyFrame \in Name /\ AnyFileFrame \in Name
  /\ Names \subseteq Name
  /\ StringArrays \subseteq Seq(FrameString)
  /\ FileArrays \subseteq Seq(File)
  /\ NAME_LENGTH \in Nat \ {0}
  /\ MaxFrames \in Nat

VARIABLES
  fg,         \* a frame generator exists
  head,       \* its list of frames, in list order
  nb_frames,  \* fg->nb_frames
  buf,        \* name of the frame encoded last at offset 0 of the block
  call,       \* the load in progress, or Idle
  last        \* the last call that returned, its arguments and its result

vars == <<fg, head, nb_frames, buf, call, last>>
listVars == <<head, nb_frames, buf>>

Idle == [op |-> "idle"]
NoCall == [op |-> "none", val |-> 0]

-----------------------------------------------------------------------------
FindBackwards(fs, name) ==       \* slip: the list is walked from its tail
  SelectLastInSeq(fs, LAMBDA f : IsPrefix(name, f.name))

(* Lookup: the first frame whose name starts with the name asked for. *)
fgen_find_frame(fs, name) == SelectInSeq(fs, LAMBDA f : IsPrefix(name, f.name))

(* strlcpy into a buffer of n characters. *)
strlcpy(name, n) == SubSeq(name, 1, IF Len(name) < n - 1 THEN Len(name) ELSE n - 1)

(* snprintf "word%d".  Only the last two digits are kept: the instances    *)
(* count below 100, and what is proved does not depend on the digits.      *)
Numbered(word, n) ==
  word \o (IF n < 10 THEN <<Digit[n]>> ELSE <<Digit[(n \div 10) % 10], Digit[n % 10]>>)

Acceptable(name, text) ==
  /\ name # <<>>
  /\ text # "empty"
  /\ fgen_find_frame(head, name) = 0

AddedUncounted(name, text) ==    \* slip: nb_frames is not incremented
  /\ head' = Append(head, [name |-> name, text |-> text])
  /\ nb_frames' = nb_frames
  /\ buf' = name

AddedInFront(name, text) ==      \* slip: TAILQ_INSERT_HEAD
  /\ head' = <<[name |-> name, text |-> text]>> \o head
  /\ nb_frames' = nb_frames + 1
  /\ buf' = name

(* frame_alloc and an encoding that did not return -1. *)
Added(name, text) ==
  /\ head' = Append(head, [name |-> name, text |-> text])
  /\ nb_frames' = nb_frames + 1
  /\ buf' = name

(* Why _add_frame returns -1: bad arguments, a name that is found, no      *)
(* memory, or a text without layers, after which frame_free takes the      *)
(* frame off the list again.                                               *)
Refusals(name, text) ==
  {why \in {"args", "exists", "nomem", "encode"} :
     CASE why = "args"   -> name = <<>> \/ text = "empty"
       [] why = "exists" -> name # <<>> /\ text # "empty" /\ fgen_find_frame(head, name) # 0
       [] why = "nomem"  -> Acceptable(name, text)
       [] why = "encode" -> Acceptable(name, text) /\ text = "slashes"}

UnwoundByCountOnly(name, text, why) ==  \* slip: TAILQ_REMOVE is forgotten
  IF why = "encode"
  THEN head' = Append(head, [name |-> name, text |-> text]) /\ UNCHANGED <<nb_frames, buf>>
  ELSE UNCHANGED listVars

Unwound(name, text, why) == UNCHANGED listVars

(* _add_frame returns 0.  _encode_frame fails only without any layer (or   *)
(* without memory); a layer that does not encode is not reported.          *)
Accepted(name, text) ==
  /\ Acceptable(name, text)
  /\ text # "slashes"
  /\ Added(name, text)

-----------------------------------------------------------------------------
Init ==
  /\ fg = FALSE
  /\ head = <<>>
  /\ nb_frames = 0
  /\ buf = <<>>
  /\ call = Idle
  /\ last = NoCall

fgen_create ==
  /\ ~fg
  /\ fg' = TRUE
  /\ head' = <<>>
  /\ nb_frames' = 0
  /\ buf' = <<>>
  /\ UNCHANGED <<call, last>>

fgen_destroy ==
  /\ fg /\ call = Idle
  /\ fg' = FALSE
  /\ head' = <<>>
  /\ nb_frames' = 0
  /\ buf' = <<>>
  /\ last' = NoCall
  /\ UNCHANGED call

Free == fg /\ call = Idle /\ Len(head) < MaxFrames

AddReturns(name, text, val, why) ==
  last' = [op |-> "add", val |-> val, name |-> name, text |-> text, why |-> why,
           base |-> head]

fgen_add_frame(name, text) ==
  /\ Free
  /\ \/ Accepted(name, text) /\ AddReturns(name, text, 0, "ok")
     \/ \E why \in Refusals(name, text) :
           Unwound(name, text, why) /\ AddReturns(name, text, -1, why)
  /\ UNCHANGED <<fg, call>>

-----------------------------------------------------------------------------
(* fgen_load_strings(fg, arr, n): base remembers the list at the call. *)
LoadStrings(arr, n) ==
  /\ Free
  /\ call' = [op |-> "strings", arr |-> arr, n |-> n, cnt |-> 0, base |-> head]
  /\ last' = NoCall
  /\ UNCHANGED <<fg, listVars>>

StringName(s, cnt) ==
  IF s.named THEN strlcpy(s.name, NAME_LENGTH) ELSE Numbered(AnyFrame, cnt)

StringsReturn(val) ==
  /\ call' = Idle
  /\ last' = [op |-> "strings", val |-> val, arr |-> call.arr, n |-> call.n,
              base |-> call.base]

(* One turn of the loop.  The NULL-terminated case of the loop's first     *)
(* test needs nb_frames == 0, for which the loop is never entered.         *)
LoadString ==
  /\ call.op = "strings"
  /\ call.cnt < call.n
  /\ LET s == call.arr[call.cnt + 1]
         name == StringName(s, call.cnt)
     IN \/ /\ Accepted(name, s.text)
           /\ call' = [call EXCEPT !.cnt = @ + 1]
           /\ UNCHANGED last
        \/ \E why \in Refusals(name, s.text) :
              Unwound(name, s.text, why) /\ StringsReturn(-1)
  /\ UNCHANGED fg

LoadStringsDone ==
  /\ call.op = "strings"
  /\ call.cnt >= call.n
  /\ StringsReturn(call.cnt)
  /\ UNCHANGED <<fg, listVars>>

-----------------------------------------------------------------------------
(* find_next_frame: the first line from i on that holds ":=", 0 at EOF. *)
find_next_frame(f, i) ==
  SelectInSubSeq(f.lines, i, Len(f.lines), LAMBDA l : l.k = "hdr")

(* Where get_frame_string stops: the header after the one in line i. *)
BodyEnd(f, i) ==
  LET j == find_next_frame(f, i + 1) IN IF j = 0 THEN Len(f.lines) + 1 ELSE j

(* The lines whose text get_frame_string gathers after the ":=" of line i. *)
Body(f, i) ==
  {j \in i..(BodyEnd(f, i) - 1) : f.lines[j].k # "blank" /\ f.lines[j].text # "empty"}

(* What it makes of them.  A "/" ends each line that has none, and the     *)
(* last one is stripped: nothing is left of a body that is a single "/",   *)
(* and only separators of one that is several.                             *)
get_frame_string(f, i) ==
  LET parts == {f.lines[j].text : j \in Body(f, i)}
  IN IF parts \subseteq {"slashes"}
     THEN IF Cardinality(Body(f, i)) <= 1 THEN "empty" ELSE "slashes"
     ELSE IF "broken" \in parts THEN "broken" ELSE "good"

(* fgen_load_files(fg, files, Len(files)) *)
LoadFiles(files) ==
  /\ Free
  /\ call' = [op |-> "files", pc |-> "outer", files |-> files, cnt |-> 0,
              file |-> 0, at |-> 1, base |-> head]
  /\ last' = NoCall
  /\ UNCHANGED <<fg, listVars>>

FilesReturn(val) ==
  /\ call' = Idle
  /\ last' = [op |-> "files", val |-> val, files |-> call.files, base |-> call.base]

(* The head of the outer loop: open files[cnt], then cnt starts again from *)
(* 0 for the inner loop, which uses the same variable.                     *)
OpenFile ==
  /\ call.op = "files" /\ call.pc = "outer"
  /\ call.cnt < Len(call.files)
  /\ IF call.files[call.cnt + 1].opens
     THEN /\ call' = [call EXCEPT !.pc = "inner", !.file = call.cnt + 1, !.cnt = 0, !.at = 1]
          /\ UNCHANGED last
     ELSE FilesReturn(-1)
  /\ UNCHANGED <<fg, listVars>>

LoadFilesDone ==
  /\ call.op = "files" /\ call.pc = "outer"
  /\ call.cnt >= Len(call.files)
  /\ FilesReturn(nb_frames)
  /\ UNCHANGED <<fg, listVars>>

CntKept == call.cnt              \* slip: the outer loop does not count
CntAfterFile == call.cnt + 1

(* The inner loop ends at EOF, and at a header without text. *)
EndOfFile ==
  /\ call.op = "files" /\ call.pc = "inner"
  /\ LET f == call.files[call.file]
         i == find_next_frame(f, call.at)
     IN i # 0 => get_frame_string(f, i) = "empty"
  /\ call' = [call EXCEPT !.pc = "outer", !.cnt = CntAfterFile]
  /\ UNCHANGED <<fg, last, listVars>>

FileName(l, cnt) ==
  IF l.name = <<>> THEN Numbered(AnyFileFrame, cnt) ELSE strlcpy(l.name, NAME_LENGTH + 1)

AfterFrameByLine(f, i) == i + 2  \* slip: the header after a short frame is passed
AfterFrame(f, i) == BodyEnd(f, i)

(* One frame of the file; what follows its text is read next. *)
LoadFileFrame ==
  /\ call.op = "files" /\ call.pc = "inner"
  /\ LET f == call.files[call.file]
         i == find_next_frame(f, call.at)
         text == get_frame_string(f, i)
         name == FileName(f.lines[i], call.cnt)
     IN /\ i # 0 /\ text # "empty"
        /\ \/ /\ Accepted(name, text)
              /\ call' = [call EXCEPT !.cnt = @ + 1, !.at = AfterFrame(f, i)]
              /\ UNCHANGED last
           \/ \E why \in Refusals(name, text) :
                 Unwound(name, text, why) /\ FilesReturn(-1)
  /\ UNCHANGED fg

-----------------------------------------------------------------------------
Step == LoadString \/ LoadStringsDone \/ OpenFile \/ LoadFileFrame \/ EndOfFile \/ LoadFilesDone

Next ==
  \/ fgen_create
  \/ fgen_destroy
  \/ \E name \in Names, text \in Texts : fgen_add_frame(name, text)
  \/ \E arr \in StringArrays : LoadStrings(arr, Len(arr)) \/ LoadStrings(arr, 0)
  \/ \E files \in FileArrays : LoadFiles(files)
  \/ LoadString
  \/ LoadStringsDone
  \/ OpenFile
  \/ LoadFileFrame
  \/ EndOfFile
  \/ LoadFilesDone

Spec == Init /\ [][Next]_vars

(* A load that has been called runs on: it is ordinary sequential code. *)
FairSpec == Spec /\ WF_vars(Step)

-----------------------------------------------------------------------------
StringsCall ==
  {c \in [op : {"strings"}, arr : StringArrays, n : Nat, cnt : Nat, base : Seq(Frame)] :
     c.n <= Len(c.arr)}

FilesRecord ==
  [op : {"files"}, pc : {"outer", "inner"}, files : FileArrays, cnt : Nat, file : Nat,
   at : Nat \ {0}, base : Seq(Frame)]

FilesCall == {c \in FilesRecord : c.pc = "inner" => c.file \in 1..Len(c.files)}

(* The list, its count and the record of calls are well-formed; a load     *)
(* never indexes past the array it was given.                              *)
TypeOK ==
  /\ fg \in BOOLEAN
  /\ head \in Seq(Frame)
  /\ nb_frames \in Nat
  /\ buf \in Name
  /\ call \in {Idle} \union StringsCall \union FilesCall
  /\ last.val \in Nat \union {-1}

(* fgen_fcnt agrees with the list in every state, the middle of a load and *)
(* every failed add included.                                              *)
CountMatchesList == nb_frames = Len(head)

(* Although lookup compares prefixes, every frame on the list is what      *)
(* fgen_find_frame returns for that frame's own name: _add_frame keeps out *)
(* each name that would be hidden.                                         *)
FoundByOwnName == \A j \in 1..Len(head) : fgen_find_frame(head, head[j].name) = j

(* Until fgen_destroy frames are only appended: no call, failed or not,    *)
(* removes or moves a frame that an earlier call put on the list.          *)
ListOnlyGrows == [][fg /\ fg' => IsPrefix(head, head')]_vars

(* The frames fgen_load_strings makes of the first k elements of arr. *)
FramesOf(arr, k) ==
  [i \in 1..k |-> [name |-> StringName(arr[i], i - 1), text |-> arr[i].text]]

(* fgen_load_strings, given a length, loads in order and to the first      *)
(* failure: it returns n having added exactly the n frames, or -1 having   *)
(* added a proper prefix.  What a zero length promises is below.           *)
StringsLoadedInOrder ==
  last.op = "strings" /\ last.n > 0 =>
    \/ last.val = last.n /\ head = last.base \o FramesOf(last.arr, last.n)
    \/ /\ last.val = -1
       /\ \E k \in 0..(last.n - 1) : head = last.base \o FramesOf(last.arr, k)

(* The headers of file f, up to the first without text. *)
Headers(f) ==
  {i \in 1..Len(f.lines) :
     /\ f.lines[i].k = "hdr"
     /\ \A j \in 1..i : f.lines[j].k = "hdr" => get_frame_string(f, j) # "empty"}

Holds(fs, l) == \E j \in 1..Len(fs) :
  l.name # <<>> => fs[j].name = strlcpy(l.name, NAME_LENGTH + 1)

(* Loading one file successfully brings in every frame of it that has a    *)
(* name, up to the first header without text, and nothing else.            *)
OneFileLoaded ==
  last.op = "files" /\ last.val >= 0 /\ Len(last.files) = 1 =>
    LET f == last.files[1]
    IN /\ \A i \in Headers(f) : Holds(head, f.lines[i])
       /\ Len(head) = Len(last.base) + Cardinality(Headers(f))

(* A load of strings, and a load of at most one file, comes back. *)
LoadsReturn ==
  (call.op = "strings" \/ (call.op = "files" /\ Len(call.files) <= 1)) ~> call = Idle

-----------------------------------------------------------------------------
(* What the documentation promises and the code does not keep.             *)

(* fgen.h, fgen_add_frame: "0 on success or -1 on error". *)
BrokenTextReported == last.op = "add" /\ last.text = "broken" => last.val = -1

(* fgen.c: the refusal says that the frame "already exists". *)
RefusedNameExists ==
  last.op = "add" /\ last.val = -1 =>
    (last.why = "exists" => \E j \in 1..Len(last.base) : last.base[j].name = last.name)

(* fgen.h, fgen_load_strings: "The len can be zero, but the array must be  *)
(* NULL terminated": a zero length then loads the array.                   *)
ZeroLengthLoadsArray ==
  last.op = "strings" /\ last.n = 0 /\ last.val >= 0 => last.val = Len(last.arr)

(* fgen.h, fgen_load_files: "-1 on error or number of frames loaded", and  *)
(* nb_files is "The number of files to load".                              *)
EveryFileLoaded ==
  last.op = "files" /\ last.val >= 0 =>
    \A n \in 1..Len(last.files) : \A i \in Headers(last.files[n]) :
      Holds(head, last.files[n].lines[i])

(* The same line: what is returned is the number this call loaded. *)
FilesReturnCountsLoaded ==
  last.op = "files" /\ last.val >= 0 => last.val = Len(head) - Len(last.base)

(* The same line: the call returns one of the two. *)
FilesReturns == call.op = "files" ~> call = Idle

(* fgen.h, frame_t: data_off is the "Frame offset into buffer space": the  *)
(* block holds each frame's bytes at its offset, here those of all frames. *)
EveryFrameKeepsItsBytes == \A j \in 1..Len(head) : buf = head[j].name

=============================================================================
