---------------------------- MODULE FramesProofs ----------------------------
(***************************************************************************)
(* Proofs about the frame list, for every set of names, arrays and files.  *)
(*                                                                         *)
(* That a frame is found under its own name is not inductive: what         *)
(* _add_frame keeps true is that no frame's name begins the name of a      *)
(* frame before it (NoneHidden).  FramesInv adds that and the count.       *)
(*                                                                         *)
(* What a load has added when it returns needs what it has added so far:   *)
(* StringsSoFar and FileSoFar relate the list in the middle of a load to   *)
(* the strings or the lines that the loop has passed.                      *)
(***************************************************************************)
EXTENDS Frames, SequenceTheorems, FiniteSetTheorems, WellFoundedInduction, TLAPS

(* No frame is hidden behind an earlier one. *)
NoneHidden ==
  \A j \in 1..Len(head) : \A i \in 1..(j - 1) : ~IsPrefix(head[j].name, head[i].name)

FramesInv ==
  /\ TypeOK
  /\ CountMatchesList
  /\ NoneHidden

-----------------------------------------------------------------------------
(* A non-empty set of naturals has a least element, and Min chooses it. *)
LEMMA MinOfNaturals ==
  ASSUME NEW S \in SUBSET Nat, S # {}
  PROVE  Min(S) \in S /\ \A m \in S : Min(S) <= m
<1>1. \E x \in S : \A y \in S : ~(<<y, x>> \in OpToRel(<, Nat))
  BY NatLessThanWellFounded, WFMin
<1>2. PICK x \in S : \A y \in S : ~(<<y, x>> \in OpToRel(<, Nat))
  BY <1>1
<1>3. ASSUME NEW y \in S PROVE x <= y
  <2>1. x \in Nat /\ y \in Nat /\ <<y, x>> \in Nat \X Nat
    OBVIOUS
  <2>2. OpToRel(<, Nat) = {ss \in Nat \X Nat : ss[1] < ss[2]}
    BY DEF OpToRel
  <2>3. ~(<<y, x>>[1] < <<y, x>>[2])
    BY <1>2, <2>1, <2>2, Zenon
  <2> QED BY <2>1, <2>3
<1> QED BY <1>3 DEF Min

(* A search that answers 0 has met no frame whose name starts with name. *)
LEMMA FindNothing ==
  ASSUME NEW fs \in Seq(Frame), NEW name, fgen_find_frame(fs, name) = 0
  PROVE  \A i \in 1..Len(fs) : ~IsPrefix(name, fs[i].name)
<1> DEFINE I == {i \in 1..Len(fs) : IsPrefix(name, fs[i].name)}
<1>1. fgen_find_frame(fs, name) = IF I # {} THEN Min(I) ELSE 0
  BY DEF fgen_find_frame, SelectInSeq
<1>2. Len(fs) \in Nat
  BY LenProperties
<1>3. ASSUME I # {} PROVE FALSE
  <2>1. I \in SUBSET Nat
    BY <1>2
  <2>2. Min(I) \in I
    BY <2>1, <1>3, MinOfNaturals
  <2>3. Min(I) # 0
    BY <2>2, <1>2
  <2> QED BY <2>3, <1>1, <1>3
<1> QED BY <1>3

(* A search answers j when frame j matches and no frame before it does. *)
LEMMA FindFirst ==
  ASSUME NEW fs \in Seq(Frame), NEW name, NEW j \in 1..Len(fs),
         IsPrefix(name, fs[j].name),
         \A i \in 1..(j - 1) : ~IsPrefix(name, fs[i].name)
  PROVE  fgen_find_frame(fs, name) = j
<1> DEFINE I == {i \in 1..Len(fs) : IsPrefix(name, fs[i].name)}
<1>1. fgen_find_frame(fs, name) = IF I # {} THEN Min(I) ELSE 0
  BY DEF fgen_find_frame, SelectInSeq
<1>2. Len(fs) \in Nat
  BY LenProperties
<1>3. j \in I /\ I \in SUBSET Nat
  BY <1>2
<1>4. Min(I) \in I /\ Min(I) <= j
  BY <1>3, MinOfNaturals
<1>5. ASSUME Min(I) # j PROVE FALSE
  <2>1. Min(I) \in 1..(j - 1)
    BY <1>4, <1>5, <1>2
  <2> QED BY <2>1, <1>4
<1> QED BY <1>1, <1>3, <1>5

(* Every name begins itself. *)
LEMMA PrefixOfItself == ASSUME NEW name \in Name PROVE IsPrefix(name, name)
  BY LenProperties DEF IsPrefix, Name

(* Names cut by strlcpy, and numbered names, are names. *)
LEMMA CutName ==
  ASSUME NEW name \in Name, NEW n \in Nat \ {0}
  PROVE  strlcpy(name, n) \in Name
<1> DEFINE k == IF Len(name) < n - 1 THEN Len(name) ELSE n - 1
<1>1. Len(name) \in Nat /\ k \in Nat /\ k <= Len(name)
  BY LenProperties DEF Name
<1>2. SubSeq(name, 1, k) \in Seq(Char)
  BY <1>1, SubSeqProperties DEF Name
<1> QED BY <1>2 DEF strlcpy, Name

(* A generated name (Frame-<n>) is a name. *)
LEMMA NumberedName ==
  ASSUME NEW word \in Name, NEW n \in Nat
  PROVE  Numbered(word, n) \in Name
<1> DEFINE d == IF n < 10 THEN <<Digit[n]>> ELSE <<Digit[(n \div 10) % 10], Digit[n % 10]>>
<1>1. /\ n < 10 => n \in 0..9
      /\ n % 10 \in 0..9 /\ (n \div 10) % 10 \in 0..9
  OBVIOUS
<1>2. d \in Seq(Char)
  BY <1>1, FramesAssumption
<1> QED BY <1>2, ConcatProperties DEF Numbered, Name

(* The header search answers 0 or a line of the file from i on. *)
LEMMA HeaderLine ==
  ASSUME NEW f \in File, NEW i \in Nat \ {0}
  PROVE  find_next_frame(f, i) = 0 \/ find_next_frame(f, i) \in i..Len(f.lines)
<1> DEFINE I == {m \in i..Len(f.lines) : f.lines[m].k = "hdr"}
<1>1. find_next_frame(f, i) = IF I # {} THEN Min(I) ELSE 0
  BY DEF find_next_frame, SelectInSubSeq
<1>2. Len(f.lines) \in Nat
  BY LenProperties DEF File
<1>3. I \in SUBSET Nat
  BY <1>2
<1>4. I # {} => Min(I) \in I
  BY <1>3, MinOfNaturals
<1> QED BY <1>1, <1>4

(* Behind a frame the reading of a file goes on at a line number. *)
LEMMA AfterFrameLine ==
  ASSUME NEW f \in File, NEW i \in Nat \ {0}
  PROVE  AfterFrame(f, i) \in Nat \ {0}
<1>1. i + 1 \in Nat \ {0}
  OBVIOUS
<1>2. find_next_frame(f, i + 1) = 0 \/ find_next_frame(f, i + 1) \in (i + 1)..Len(f.lines)
  BY <1>1, HeaderLine
<1>3. Len(f.lines) \in Nat
  BY LenProperties DEF File
<1> QED BY <1>2, <1>3 DEF AfterFrame, BodyEnd

-----------------------------------------------------------------------------
(* What _add_frame does to the list when it returns 0. *)
LEMMA AcceptedKeeps ==
  ASSUME FramesInv, NEW name \in Name, NEW text \in Texts, Accepted(name, text)
  PROVE  /\ head' \in Seq(Frame) /\ nb_frames' \in Nat /\ buf' \in Name
         /\ CountMatchesList'
         /\ NoneHidden'
<1> DEFINE f == [name |-> name, text |-> text]
<1>1. /\ head' = Append(head, f) /\ nb_frames' = nb_frames + 1 /\ buf' = name
      /\ fgen_find_frame(head, name) = 0
  BY DEF Accepted, Added, Acceptable
<1>2. head \in Seq(Frame) /\ f \in Frame /\ nb_frames \in Nat /\ nb_frames = Len(head)
  BY DEF FramesInv, TypeOK, CountMatchesList, Frame
<1>3. /\ head' \in Seq(Frame)
      /\ Len(head') = Len(head) + 1
      /\ \A i \in 1..Len(head) : head'[i] = head[i]
      /\ head'[Len(head) + 1] = f
  BY <1>1, <1>2, AppendProperties
<1>4. Len(head) \in Nat
  BY <1>2, LenProperties
<1>5. \A i \in 1..Len(head) : ~IsPrefix(name, head[i].name)
  BY <1>1, <1>2, FindNothing
<1>6. NoneHidden'
  <2> SUFFICES ASSUME NEW j \in 1..Len(head'), NEW i \in 1..(j - 1)
               PROVE  ~IsPrefix(head'[j].name, head'[i].name)
    BY DEF NoneHidden
  <2>1. i \in 1..Len(head) /\ head'[i] = head[i]
    BY <1>3, <1>4
  <2>2. CASE j = Len(head) + 1
    BY <2>1, <2>2, <1>3, <1>5
  <2>3. CASE j \in 1..Len(head)
    BY <2>1, <2>3, <1>3 DEF FramesInv, NoneHidden
  <2> QED BY <2>2, <2>3, <1>3, <1>4
<1> QED BY <1>1, <1>2, <1>3, <1>6 DEF CountMatchesList

(* What is left alone keeps its part of the invariant. *)
LEMMA ListUnchanged ==
  ASSUME FramesInv, UNCHANGED listVars
  PROVE  /\ head' \in Seq(Frame) /\ nb_frames' \in Nat /\ buf' \in Name
         /\ CountMatchesList'
         /\ NoneHidden'
  BY DEF FramesInv, TypeOK, CountMatchesList, NoneHidden, listVars

(* No list, no call: the invariant holds at first. *)
LEMMA InitInv == Init => FramesInv
<1> SUFFICES ASSUME Init PROVE FramesInv
  OBVIOUS
<1>1. head \in Seq(Frame) /\ nb_frames \in Nat /\ buf \in Name
  BY EmptySeq DEF Init, Name
<1>2. fg \in BOOLEAN
  BY DEF Init
<1>3. call \in {Idle} \union StringsCall \union FilesCall /\ last.val \in Nat \union {-1}
  BY DEF Init, NoCall
<1>4. Len(head) = 0
  BY EmptySeq DEF Init
<1>5. CountMatchesList
  BY <1>4 DEF CountMatchesList, Init
<1>6. NoneHidden
  BY <1>4 DEF NoneHidden
<1> QED BY <1>1, <1>2, <1>3, <1>5, <1>6 DEF FramesInv, TypeOK

(* Advancing the counters of a call keeps it well-formed. *)
LEMMA StringsCallAdvanced ==
  ASSUME NEW c \in StringsCall
  PROVE  [c EXCEPT !.cnt = @ + 1] \in StringsCall
<1> DEFINE R == [op : {"strings"}, arr : StringArrays, n : Nat, cnt : Nat, base : Seq(Frame)]
           d == [c EXCEPT !.cnt = @ + 1]
<1>1. c \in R /\ c.n <= Len(c.arr)
  BY DEF StringsCall
<1>2. d \in R
  BY <1>1
<1>3. d.n = c.n /\ d.arr = c.arr
  BY <1>1
<1> HIDE DEF d
<1> QED BY <1>1, <1>2, <1>3 DEF StringsCall

(* Setting one field of a file load to a value of its type. *)
LEMMA FilesFields ==
  ASSUME NEW c \in FilesRecord, NEW k \in Nat
  PROVE  /\ [c EXCEPT !.cnt = k] \in FilesRecord
         /\ [c EXCEPT !.file = k] \in FilesRecord
         /\ k # 0 => [c EXCEPT !.at = k] \in FilesRecord
         /\ [c EXCEPT !.pc = "inner"] \in FilesRecord
         /\ [c EXCEPT !.pc = "outer"] \in FilesRecord
<1>1. [c EXCEPT !.cnt = k] \in FilesRecord
  BY DEF FilesRecord
<1>2. [c EXCEPT !.file = k] \in FilesRecord
  BY DEF FilesRecord
<1>3. k # 0 => [c EXCEPT !.at = k] \in FilesRecord
  BY DEF FilesRecord
<1>4. [c EXCEPT !.pc = "inner"] \in FilesRecord
  BY DEF FilesRecord
<1>5. [c EXCEPT !.pc = "outer"] \in FilesRecord
  BY DEF FilesRecord
<1> QED BY <1>1, <1>2, <1>3, <1>4, <1>5

(* Opening a file keeps the locals of fgen_load_files in their types. *)
LEMMA FilesCallOpened ==
  ASSUME NEW c \in FilesCall, NEW k \in 1..Len(c.files)
  PROVE  [c EXCEPT !.pc = "inner", !.file = k, !.cnt = 0, !.at = 1] \in FilesCall
<1> DEFINE c1 == [c EXCEPT !.pc = "inner"]
           c2 == [c1 EXCEPT !.file = k]
           c3 == [c2 EXCEPT !.cnt = 0]
           d  == [c3 EXCEPT !.at = 1]
<1>1. c \in FilesRecord /\ k \in Nat
  BY DEF FilesCall
<1>2. c1 \in FilesRecord
  BY <1>1, FilesFields
<1>3. c2 \in FilesRecord
  BY <1>1, <1>2, FilesFields
<1>4. c3 \in FilesRecord
  BY <1>3, FilesFields
<1>5. d \in FilesRecord
  <2> HIDE DEF c3
  <2> QED BY <1>4 DEF FilesRecord
<1>6. d.file = k /\ d.files = c.files
  BY <1>1 DEF FilesRecord
<1>7. d \in FilesCall
  <2> HIDE DEF d
  <2> QED BY <1>5, <1>6 DEF FilesCall
<1> QED BY <1>7

(* So does a frame of the file that was added. *)
LEMMA FilesCallAdvanced ==
  ASSUME NEW c \in FilesCall, NEW k \in Nat \ {0}
  PROVE  [c EXCEPT !.cnt = @ + 1, !.at = k] \in FilesCall
<1> DEFINE c1 == [c EXCEPT !.cnt = c.cnt + 1]
           d  == [c1 EXCEPT !.at = k]
<1>1. c \in FilesRecord /\ (c.pc = "inner" => c.file \in 1..Len(c.files))
  BY DEF FilesCall
<1>2. c.cnt + 1 \in Nat
  BY <1>1 DEF FilesRecord
<1>3. c1 \in FilesRecord
  BY <1>1, <1>2, FilesFields
<1>4. d \in FilesRecord
  BY <1>3, FilesFields
<1>5. d.pc = c.pc /\ d.file = c.file /\ d.files = c.files
  BY <1>1 DEF FilesRecord
<1>6. d \in FilesCall
  <2> HIDE DEF d
  <2> QED BY <1>1, <1>4, <1>5 DEF FilesCall
<1> QED BY <1>6

(* And so does the end of a file. *)
LEMMA FilesCallClosed ==
  ASSUME NEW c \in FilesCall
  PROVE  [c EXCEPT !.pc = "outer", !.cnt = c.cnt + 1] \in FilesCall
<1> DEFINE c1 == [c EXCEPT !.pc = "outer"]
           d  == [c1 EXCEPT !.cnt = c.cnt + 1]
<1>1. c \in FilesRecord
  BY DEF FilesCall
<1>2. c.cnt + 1 \in Nat
  BY <1>1 DEF FilesRecord
<1>3. c1 \in FilesRecord
  BY <1>1, FilesFields
<1>4. d \in FilesRecord
  BY <1>2, <1>3, FilesFields
<1>5. d.pc = "outer"
  BY <1>1 DEF FilesRecord
<1>6. d \in FilesCall
  <2> HIDE DEF d
  <2> QED BY <1>4, <1>5 DEF FilesCall
<1> QED BY <1>6

(* The op field tells which record a call in progress is. *)
LEMMA CallKind ==
  ASSUME TypeOK
  PROVE  /\ call.op = "strings" => call \in StringsCall
         /\ call.op = "files" => call \in FilesCall
<1>1. \A c \in StringsCall : c.op = "strings"
  BY DEF StringsCall
<1>2. \A c \in FilesCall : c.op = "files"
  BY DEF FilesCall, FilesRecord
<1>3. Idle.op = "idle"
  BY DEF Idle
<1> QED BY <1>1, <1>2, <1>3 DEF TypeOK

(* A returning load leaves a well-formed result behind. *)
LEMMA ReturnTyped ==
  ASSUME NEW val \in Nat \union {-1}, StringsReturn(val) \/ FilesReturn(val)
  PROVE  call' = Idle /\ last'.val \in Nat \union {-1}
  BY DEF StringsReturn, FilesReturn

(* The name and the text one turn of fgen_load_strings uses. *)
LEMMA StringTyped ==
  ASSUME TypeOK, call.op = "strings", call.cnt < call.n
  PROVE  /\ StringName(call.arr[call.cnt + 1], call.cnt) \in Name
         /\ call.arr[call.cnt + 1].text \in Texts
<1>1. call \in StringsCall
  BY CallKind
<1>2. /\ call.arr \in Seq(FrameString) /\ call.cnt \in Nat /\ call.n \in Nat
      /\ call.n <= Len(call.arr)
  BY <1>1, FramesAssumption DEF StringsCall
<1>3. Len(call.arr) \in Nat /\ call.cnt + 1 \in 1..Len(call.arr)
  BY <1>2, LenProperties
<1>4. call.arr[call.cnt + 1] \in FrameString
  BY <1>2, <1>3, ElementOfSeq
<1>5. strlcpy(call.arr[call.cnt + 1].name, NAME_LENGTH) \in Name
  BY <1>4, CutName, FramesAssumption DEF FrameString
<1>6. Numbered(AnyFrame, call.cnt) \in Name
  BY <1>2, NumberedName, FramesAssumption
<1> QED BY <1>4, <1>5, <1>6 DEF StringName, FrameString

(* The header, the name and the text one turn of fgen_load_files uses. *)
LEMMA FileTyped ==
  ASSUME TypeOK, call.op = "files", call.pc = "inner",
         NEW f, f = call.files[call.file],
         NEW i, i = find_next_frame(f, call.at), i # 0
  PROVE  /\ f \in File
         /\ i \in Nat \ {0}
         /\ FileName(f.lines[i], call.cnt) \in Name
<1>1. call \in FilesCall
  BY CallKind
<1>2. /\ call.files \in Seq(File) /\ call.cnt \in Nat /\ call.at \in Nat \ {0}
      /\ call.file \in 1..Len(call.files)
  BY <1>1, FramesAssumption DEF FilesCall, FilesRecord
<1>3. f \in File
  BY <1>2, ElementOfSeq
<1>4. i \in call.at..Len(f.lines) /\ Len(f.lines) \in Nat /\ f.lines \in Seq(Line)
  BY <1>2, <1>3, HeaderLine, LenProperties DEF File
<1>5. i \in 1..Len(f.lines)
  BY <1>4, <1>2
<1>6. f.lines[i] \in Line
  BY <1>4, <1>5, ElementOfSeq
<1>7. NAME_LENGTH + 1 \in Nat \ {0}
  BY FramesAssumption
<1>8. strlcpy(f.lines[i].name, NAME_LENGTH + 1) \in Name
  BY <1>6, <1>7, CutName DEF Line
<1>9. Numbered(AnyFileFrame, call.cnt) \in Name
  BY <1>2, NumberedName, FramesAssumption
<1> QED BY <1>3, <1>4, <1>5, <1>8, <1>9 DEF FileName

(* The text of a frame, whatever its lines, is one that can be encoded. *)
LEMMA TextGathered == \A f, i : get_frame_string(f, i) \in Texts
  BY DEF get_frame_string, Texts

-----------------------------------------------------------------------------
(* The seven calls and loop turns that touch the list or a call. *)
LEMMA StepKeepsInv ==
  ASSUME FramesInv, Next
  PROVE  FramesInv'
<1> USE FramesAssumption
<1>t. TypeOK /\ fg \in BOOLEAN
  BY DEF FramesInv, TypeOK
<1>1. CASE fgen_create
  <2>1. /\ head' = <<>> /\ nb_frames' = 0 /\ buf' = <<>>
        /\ fg' \in BOOLEAN /\ call' = call /\ last' = last
    BY <1>1 DEF fgen_create
  <2>2. head' \in Seq(Frame) /\ buf' \in Name /\ Len(head') = 0
    BY <2>1, EmptySeq DEF Name
  <2> QED BY <2>1, <2>2 DEF FramesInv, TypeOK, CountMatchesList, NoneHidden
<1>2. CASE fgen_destroy
  <2>1. /\ head' = <<>> /\ nb_frames' = 0 /\ buf' = <<>>
        /\ fg' \in BOOLEAN /\ call' = call /\ last'.val \in Nat \union {-1}
    BY <1>2 DEF fgen_destroy, NoCall
  <2>2. head' \in Seq(Frame) /\ buf' \in Name /\ Len(head') = 0
    BY <2>1, EmptySeq DEF Name
  <2> QED BY <2>1, <2>2 DEF FramesInv, TypeOK, CountMatchesList, NoneHidden
<1>3. ASSUME NEW name \in Names, NEW text \in Texts, fgen_add_frame(name, text)
      PROVE  FramesInv'
  <2>1. fg' = fg /\ call' = call /\ last'.val \in Nat \union {-1}
    BY <1>3 DEF fgen_add_frame, AddReturns
  <2>2. Accepted(name, text) \/ UNCHANGED listVars
    BY <1>3 DEF fgen_add_frame, Unwound
  <2>3. name \in Name
    OBVIOUS
  <2>4. /\ head' \in Seq(Frame) /\ nb_frames' \in Nat /\ buf' \in Name
        /\ CountMatchesList' /\ NoneHidden'
    BY <2>2, <2>3, AcceptedKeeps, ListUnchanged
  <2> QED BY <2>1, <2>4, <1>t DEF FramesInv, TypeOK
<1>4. ASSUME NEW arr \in StringArrays, NEW n \in {0, Len(arr)}, LoadStrings(arr, n)
      PROVE  FramesInv'
  <2>1. /\ fg' = fg /\ UNCHANGED listVars /\ last' = NoCall
        /\ call' = [op |-> "strings", arr |-> arr, n |-> n, cnt |-> 0, base |-> head]
    BY <1>4 DEF LoadStrings
  <2>2. n \in Nat /\ n <= Len(arr) /\ head \in Seq(Frame)
    BY LenProperties, <1>t DEF TypeOK
  <2>3. call' \in StringsCall
    BY <2>1, <2>2 DEF StringsCall
  <2>4. last'.val \in Nat \union {-1}
    BY <2>1 DEF NoCall
  <2> QED BY <2>1, <2>3, <2>4, <1>t, ListUnchanged DEF FramesInv, TypeOK
<1>5. ASSUME NEW files \in FileArrays, LoadFiles(files)
      PROVE  FramesInv'
  <2>1. /\ fg' = fg /\ UNCHANGED listVars /\ last' = NoCall
        /\ call' = [op |-> "files", pc |-> "outer", files |-> files, cnt |-> 0,
                    file |-> 0, at |-> 1, base |-> head]
    BY <1>5 DEF LoadFiles
  <2>2. head \in Seq(Frame)
    BY <1>t DEF TypeOK
  <2>3. call' \in FilesCall
    BY <2>1, <2>2 DEF FilesCall, FilesRecord
  <2>4. last'.val \in Nat \union {-1}
    BY <2>1 DEF NoCall
  <2> QED BY <2>1, <2>3, <2>4, <1>t, ListUnchanged DEF FramesInv, TypeOK
<1>6. CASE LoadString
  <2> DEFINE s == call.arr[call.cnt + 1]
             name == StringName(s, call.cnt)
  <2>1. call.op = "strings" /\ call.cnt < call.n /\ fg' = fg
    BY <1>6 DEF LoadString
  <2>2. name \in Name /\ s.text \in Texts /\ call \in StringsCall
    BY <2>1, <1>t, StringTyped, CallKind
  <2>3. CASE Accepted(name, s.text) /\ call' = [call EXCEPT !.cnt = @ + 1] /\ UNCHANGED last
    <3>1. /\ head' \in Seq(Frame) /\ nb_frames' \in Nat /\ buf' \in Name
          /\ CountMatchesList' /\ NoneHidden'
      BY <2>2, <2>3, AcceptedKeeps
    <3>2. call' \in StringsCall
      BY <2>2, <2>3, StringsCallAdvanced
    <3> QED BY <3>1, <3>2, <2>1, <2>3, <1>t DEF FramesInv, TypeOK
  <2>4. CASE UNCHANGED listVars /\ StringsReturn(-1)
    BY <2>1, <2>4, <1>t, ListUnchanged, ReturnTyped DEF FramesInv, TypeOK
  <2> QED BY <1>6, <2>3, <2>4 DEF LoadString, Unwound
<1>7. CASE LoadStringsDone
  <2>1. /\ fg' = fg /\ UNCHANGED listVars /\ StringsReturn(call.cnt)
        /\ call \in StringsCall
    BY <1>7, <1>t, CallKind DEF LoadStringsDone
  <2>2. call.cnt \in Nat
    BY <2>1 DEF StringsCall
  <2>3. call' = Idle /\ last'.val \in Nat \union {-1}
    BY <2>1, <2>2, ReturnTyped
  <2> QED BY <2>1, <2>3, <1>t, ListUnchanged DEF FramesInv, TypeOK
<1>8. CASE OpenFile
  <2>1. /\ fg' = fg /\ UNCHANGED listVars /\ call \in FilesCall
        /\ call.cnt < Len(call.files)
    BY <1>8, <1>t, CallKind DEF OpenFile
  <2>2. CASE /\ call' = [call EXCEPT !.pc = "inner", !.file = call.cnt + 1, !.cnt = 0, !.at = 1]
             /\ UNCHANGED last
    <3>1. call.cnt \in Nat /\ call.files \in Seq(File) /\ Len(call.files) \in Nat
      BY <2>1, LenProperties DEF FilesCall, FilesRecord
    <3>2. call.cnt + 1 \in Nat /\ call.cnt + 1 \in 1..Len(call.files)
      BY <2>1, <3>1
    <3>3. call' \in FilesCall
      BY <2>1, <2>2, <3>2, FilesCallOpened
    <3> QED BY <2>1, <2>2, <3>3, <1>t, ListUnchanged DEF FramesInv, TypeOK
  <2>3. CASE FilesReturn(-1)
    BY <2>1, <2>3, <1>t, ListUnchanged, ReturnTyped DEF FramesInv, TypeOK
  <2> QED BY <1>8, <2>2, <2>3 DEF OpenFile
<1>9. CASE LoadFileFrame
  <2> DEFINE f == call.files[call.file]
             i == find_next_frame(f, call.at)
             text == get_frame_string(f, i)
             name == FileName(f.lines[i], call.cnt)
  <2>1. call.op = "files" /\ call.pc = "inner" /\ i # 0 /\ fg' = fg
    BY <1>9 DEF LoadFileFrame
  <2>2. f \in File /\ i \in Nat \ {0} /\ name \in Name /\ text \in Texts /\ call \in FilesCall
    BY <2>1, <1>t, FileTyped, TextGathered, CallKind
  <2>3. CASE /\ Accepted(name, text) /\ UNCHANGED last
             /\ call' = [call EXCEPT !.cnt = @ + 1, !.at = AfterFrame(f, i)]
    <3>1. /\ head' \in Seq(Frame) /\ nb_frames' \in Nat /\ buf' \in Name
          /\ CountMatchesList' /\ NoneHidden'
      BY <2>2, <2>3, AcceptedKeeps
    <3>2. AfterFrame(f, i) \in Nat \ {0}
      BY <2>2, AfterFrameLine
    <3>3. call' \in FilesCall
      BY <2>2, <2>3, <3>2, FilesCallAdvanced
    <3> QED BY <3>1, <3>3, <2>1, <2>3, <1>t DEF FramesInv, TypeOK
  <2>4. CASE UNCHANGED listVars /\ FilesReturn(-1)
    BY <2>1, <2>4, <1>t, ListUnchanged, ReturnTyped DEF FramesInv, TypeOK
  <2> QED BY <1>9, <2>3, <2>4 DEF LoadFileFrame, Unwound
<1>10. CASE EndOfFile
  <2>1. /\ fg' = fg /\ UNCHANGED listVars /\ last' = last /\ call \in FilesCall
        /\ call' = [call EXCEPT !.pc = "outer", !.cnt = call.cnt + 1]
    BY <1>10, <1>t, CallKind DEF EndOfFile, CntAfterFile
  <2>2. call' \in FilesCall
    BY <2>1, FilesCallClosed
  <2> QED BY <2>1, <2>2, <1>t, ListUnchanged DEF FramesInv, TypeOK
<1>11. CASE LoadFilesDone
  <2>1. fg' = fg /\ UNCHANGED listVars /\ FilesReturn(nb_frames) /\ nb_frames \in Nat
    BY <1>11, <1>t DEF LoadFilesDone, TypeOK
  <2>2. call' = Idle /\ last'.val \in Nat \union {-1}
    BY <2>1, ReturnTyped
  <2> QED BY <2>1, <2>2, <1>t, ListUnchanged DEF FramesInv, TypeOK
<1> QED BY <1>1, <1>2, <1>3, <1>4, <1>5, <1>6, <1>7, <1>8, <1>9, <1>10, <1>11 DEF Next

(* The strengthened invariant holds in every reachable state. *)
THEOREM FramesInvariant == Spec => []FramesInv
<1>1. FramesInv /\ UNCHANGED vars => FramesInv'
  BY DEF FramesInv, TypeOK, CountMatchesList, NoneHidden, vars
<1>2. FramesInv /\ [Next]_vars => FramesInv'
  BY <1>1, StepKeepsInv
<1> QED BY <1>2, InitInv, PTL DEF Spec

(* The list and its calls are well-formed after any sequence of calls. *)
THEOREM FramesTypeCorrect == Spec => []TypeOK
  BY FramesInvariant, PTL DEF FramesInv

(* fgen_fcnt is the length of the list in every state. *)
THEOREM FramesCounted == Spec => []CountMatchesList
  BY FramesInvariant, PTL DEF FramesInv

(* fgen_find_frame returns each frame for its own name, whatever the       *)
(* names, the order of the calls and the failures between them.            *)
THEOREM FramesFoundByOwnName == Spec => []FoundByOwnName
<1>1. FramesInv => FoundByOwnName
  <2> SUFFICES ASSUME FramesInv, NEW j \in 1..Len(head)
               PROVE  fgen_find_frame(head, head[j].name) = j
    BY DEF FoundByOwnName
  <2>1. head \in Seq(Frame) /\ head[j] \in Frame
    BY ElementOfSeq DEF FramesInv, TypeOK
  <2>2. IsPrefix(head[j].name, head[j].name)
    BY <2>1, PrefixOfItself DEF Frame
  <2>3. \A i \in 1..(j - 1) : ~IsPrefix(head[j].name, head[i].name)
    BY DEF FramesInv, NoneHidden
  <2> QED BY <2>1, <2>2, <2>3, FindFirst
<1> QED BY <1>1, FramesInvariant, PTL
-----------------------------------------------------------------------------
(* The list grows at its end. *)
LEMMA AppendPrefix ==
  ASSUME NEW fs \in Seq(Frame), NEW f \in Frame
  PROVE  IsPrefix(fs, fs) /\ IsPrefix(fs, Append(fs, f))
<1> DEFINE n == Len(fs)
           t == Append(fs, f)
<1>1. n \in Nat /\ t \in Seq(Frame) /\ Len(t) = n + 1 /\ \A i \in 1..n : t[i] = fs[i]
  BY AppendProperties, LenProperties
<1>2. SubSeq(fs, 1, n) = [i \in 1..n |-> fs[i]]
  BY <1>1
<1>3. SubSeq(t, 1, n) = [i \in 1..n |-> t[i]]
  <2> HIDE DEF t
  <2> QED BY <1>1
<1>4. SubSeq(fs, 1, n) = SubSeq(t, 1, n)
  <2> HIDE DEF t, n
  <2> QED BY <1>1, <1>2, <1>3
<1> QED BY <1>1, <1>4 DEF IsPrefix

(* What a step does to the list of a generator that stays. *)
LEMMA ListStep ==
  ASSUME TypeOK, [Next]_vars, fg, fg'
  PROVE  head' = head \/ \E f \in Frame : head' = Append(head, f)
<1>1. ASSUME NEW name \in Name, NEW text \in Texts, Accepted(name, text)
      PROVE  \E f \in Frame : head' = Append(head, f)
  BY <1>1 DEF Accepted, Added, Frame
<1>2. CASE UNCHANGED vars
  BY <1>2 DEF vars
<1>3. CASE fgen_create \/ fgen_destroy
  BY <1>3 DEF fgen_create, fgen_destroy
<1>4. ASSUME NEW name \in Names, NEW text \in Texts, fgen_add_frame(name, text)
      PROVE  head' = head \/ \E f \in Frame : head' = Append(head, f)
  <2>1. name \in Name
    BY FramesAssumption
  <2> QED BY <1>1, <1>4, <2>1 DEF fgen_add_frame, Unwound, listVars
<1>5. CASE LoadString
  <2> DEFINE s == call.arr[call.cnt + 1]
             name == StringName(s, call.cnt)
  <2>1. name \in Name /\ s.text \in Texts
    BY <1>5, StringTyped DEF LoadString
  <2>2. Accepted(name, s.text) \/ UNCHANGED listVars
    BY <1>5 DEF LoadString, Unwound
  <2> QED BY <1>1, <2>1, <2>2 DEF listVars
<1>6. CASE LoadFileFrame
  <2> DEFINE f == call.files[call.file]
             i == find_next_frame(f, call.at)
             text == get_frame_string(f, i)
             name == FileName(f.lines[i], call.cnt)
  <2>1. name \in Name /\ text \in Texts
    BY <1>6, FileTyped, TextGathered DEF LoadFileFrame
  <2>2. Accepted(name, text) \/ UNCHANGED listVars
    BY <1>6 DEF LoadFileFrame, Unwound
  <2> QED BY <1>1, <2>1, <2>2 DEF listVars
<1>7. ASSUME UNCHANGED listVars PROVE head' = head
  BY <1>7 DEF listVars
<1>8. CASE LoadStringsDone \/ OpenFile \/ EndOfFile \/ LoadFilesDone
  BY <1>7, <1>8 DEF LoadStringsDone, OpenFile, EndOfFile, LoadFilesDone
<1>9. ASSUME NEW arr, NEW n, LoadStrings(arr, n) PROVE head' = head
  BY <1>7, <1>9 DEF LoadStrings
<1>10. ASSUME NEW files, LoadFiles(files) PROVE head' = head
  BY <1>7, <1>10 DEF LoadFiles
<1> QED BY <1>2, <1>3, <1>4, <1>5, <1>6, <1>8, <1>9, <1>10 DEF Next

(* No call, failed or not, removes or moves a frame on the list. *)
THEOREM FramesStay == Spec => ListOnlyGrows
<1>1. FramesInv /\ [Next]_vars => [fg /\ fg' => IsPrefix(head, head')]_vars
  <2> SUFFICES ASSUME FramesInv, [Next]_vars, fg, fg' PROVE IsPrefix(head, head')
    OBVIOUS
  <2>1. TypeOK /\ head \in Seq(Frame)
    BY DEF FramesInv, TypeOK
  <2>2. head' = head \/ \E f \in Frame : head' = Append(head, f)
    BY <2>1, ListStep
  <2>3. CASE head' = head
    <3>1. SubSeq(head, 1, Len(head)) = SubSeq(head', 1, Len(head)) /\ Len(head) <= Len(head')
      BY <2>1, <2>3, LenProperties
    <3> QED BY <3>1 DEF IsPrefix
  <2>4. CASE \E f \in Frame : head' = Append(head, f)
    BY <2>1, <2>4, AppendPrefix
  <2> QED BY <2>2, <2>3, <2>4
<1> QED BY <1>1, FramesInvariant, PTL DEF Spec, ListOnlyGrows

-----------------------------------------------------------------------------
(* A load of strings.  While it runs nothing has returned, and the list is *)
(* what it was at the call followed by the frames of the strings read.     *)
StringsSoFar ==
  /\ ~fg => call = Idle
  /\ ~fg \/ call # Idle => last = NoCall
  /\ call.op = "strings" =>
       call.cnt <= call.n /\ head = call.base \o FramesOf(call.arr, call.cnt)
  /\ StringsLoadedInOrder

(* One string more is one frame more. *)
LEMMA FramesOfMore ==
  ASSUME NEW arr \in StringArrays, NEW k \in Nat, k < Len(arr), NEW base \in Seq(Frame)
  PROVE  LET f == [name |-> StringName(arr[k + 1], k), text |-> arr[k + 1].text] IN
           Append(base \o FramesOf(arr, k), f) = base \o FramesOf(arr, k + 1)
<1> DEFINE F(i) == [name |-> StringName(arr[i], i - 1), text |-> arr[i].text]
           A == FramesOf(arr, k)
           B == FramesOf(arr, k + 1)
<1>1. arr \in Seq(FrameString) /\ Len(arr) \in Nat
  BY FramesAssumption, LenProperties
<1>2. ASSUME NEW i \in 1..k + 1 PROVE F(i) \in Frame
  <2>1. arr[i] \in FrameString /\ i - 1 \in Nat
    BY <1>1, ElementOfSeq
  <2>2. strlcpy(arr[i].name, NAME_LENGTH) \in Name /\ Numbered(AnyFrame, i - 1) \in Name
    BY <2>1, CutName, NumberedName, FramesAssumption DEF FrameString
  <2> QED BY <2>1, <2>2 DEF StringName, Frame, FrameString
<1>3. A = [i \in 1..k |-> F(i)] /\ B = [i \in 1..k + 1 |-> F(i)]
  BY DEF FramesOf
<1> HIDE DEF F, A, B
<1>4. A \in Seq(Frame) /\ Len(A) = k /\ \A i \in 1..k : A[i] = F(i)
  BY <1>2, <1>3
<1>5. B \in Seq(Frame) /\ Len(B) = k + 1 /\ \A i \in 1..k + 1 : B[i] = F(i)
  BY <1>2, <1>3
<1>6. F(k + 1) \in Frame
  BY <1>2
<1>7. Append(A, F(k + 1)) = B
  <2> DEFINE C == Append(A, F(k + 1))
  <2>1. /\ C \in Seq(Frame) /\ Len(C) = k + 1
        /\ \A i \in 1..k : C[i] = A[i]
        /\ C[k + 1] = F(k + 1)
    BY <1>4, <1>6, AppendProperties
  <2> HIDE DEF C
  <2>2. \A i \in 1..k + 1 : C[i] = B[i]
    BY <1>4, <1>5, <2>1
  <2>3. C = B
    BY <1>5, <2>1, <2>2, SeqEqual
  <2> QED BY <2>3 DEF C
<1>8. Append(base \o A, F(k + 1)) = (base \o A) \o <<F(k + 1)>>
  BY <1>4, <1>6, ConcatProperties, AppendIsConcat
<1>9. <<F(k + 1)>> \in Seq(Frame) /\ Append(A, F(k + 1)) = A \o <<F(k + 1)>>
  BY <1>4, <1>6, AppendIsConcat
<1>10. Append(base \o A, F(k + 1)) = base \o B
  <2> DEFINE e == <<F(k + 1)>>
  <2>1. (base \o A) \o e = base \o (A \o e)
    <3> HIDE DEF e
    <3>1. e \in Seq(Frame)
      BY <1>9 DEF e
    <3> QED BY SMTT(30), <1>4, <3>1, ConcatAssociative
  <2> QED BY <1>7, <1>8, <1>9, <2>1
<1>11. F(k + 1) = [name |-> StringName(arr[k + 1], k), text |-> arr[k + 1].text]
  BY DEF F
<1> QED BY <1>10, <1>11 DEF A, B

(* A load that has read nothing has added nothing. *)
LEMMA FramesOfNone ==
  ASSUME NEW arr, NEW base \in Seq(Frame) PROVE base \o FramesOf(arr, 0) = base
<1>1. FramesOf(arr, 0) = <<>>
  BY DEF FramesOf
<1> QED BY <1>1, ConcatEmptySeq

(* Before the first call there is no load to speak of. *)
LEMMA InitSoFar == Init => StringsSoFar
BY DEF Init, StringsSoFar, StringsLoadedInOrder, Idle, NoCall

(* A turn of fgen_load_strings adds the frame of one more string; other    *)
(* steps do not touch a load of strings.                                   *)
LEMMA StepSoFar ==
  ASSUME FramesInv, StringsSoFar, [Next]_vars PROVE StringsSoFar'
<1>t. TypeOK /\ head \in Seq(Frame)
  BY DEF FramesInv, TypeOK
<1>i. Idle.op = "idle" /\ NoCall.op = "none"
  BY DEF Idle, NoCall
<1>1. CASE UNCHANGED vars
  BY <1>1 DEF vars, StringsSoFar, StringsLoadedInOrder
<1>2. CASE fgen_create
  BY <1>i, <1>2 DEF fgen_create, StringsSoFar, StringsLoadedInOrder
<1>3. CASE fgen_destroy
  BY <1>i, <1>3 DEF fgen_destroy, StringsSoFar, StringsLoadedInOrder
<1>4. ASSUME NEW name, NEW text, fgen_add_frame(name, text) PROVE StringsSoFar'
  <2>1. fg' = fg /\ fg /\ call' = Idle /\ last'.op = "add"
    BY <1>4 DEF fgen_add_frame, Free, AddReturns
  <2> QED BY <1>i, <2>1 DEF StringsSoFar, StringsLoadedInOrder
<1>5. ASSUME NEW arr \in StringArrays, NEW n \in {0, Len(arr)}, LoadStrings(arr, n)
      PROVE  StringsSoFar'
  <2>1. /\ call'.op = "strings" /\ call'.cnt = 0 /\ call'.n = n /\ call'.arr = arr
        /\ call'.base = head /\ head' = head /\ last' = NoCall /\ fg' /\ n \in Nat
    BY <1>5, FramesAssumption, LenProperties DEF LoadStrings, Free, listVars
  <2>2. head' = call'.base \o FramesOf(call'.arr, call'.cnt)
    BY <1>t, <2>1, FramesOfNone
  <2>3. call'.cnt <= call'.n /\ last'.op # "strings"
    BY <1>i, <2>1
  <2> QED BY <1>i, <2>1, <2>2, <2>3 DEF StringsSoFar, StringsLoadedInOrder
<1>6. ASSUME NEW files, LoadFiles(files) PROVE StringsSoFar'
  <2>1. call'.op = "files" /\ last' = NoCall /\ fg'
    BY <1>6 DEF LoadFiles, Free
  <2> QED BY <1>i, <2>1 DEF StringsSoFar, StringsLoadedInOrder
<1>7. ASSUME call.op = "strings"
      PROVE  /\ call \in StringsCall /\ call.arr \in StringArrays /\ call.n \in Nat
             /\ call.cnt \in Nat /\ call.n <= Len(call.arr) /\ call.base \in Seq(Frame)
             /\ fg /\ call.cnt <= call.n
             /\ head = call.base \o FramesOf(call.arr, call.cnt) /\ last = NoCall
  <2>1. call \in StringsCall
    BY <1>7, <1>t, CallKind
  <2>2. call # Idle
    BY <1>7, <1>i
  <2> QED BY <1>7, <2>1, <2>2 DEF StringsCall, StringsSoFar
<1>8. CASE LoadString
  <2> DEFINE s == call.arr[call.cnt + 1]
             name == StringName(s, call.cnt)
  <2>1. call.op = "strings" /\ call.cnt < call.n /\ fg' = fg
    BY <1>8 DEF LoadString
  <2>2. CASE Accepted(name, s.text) /\ call' = [call EXCEPT !.cnt = @ + 1] /\ UNCHANGED last
    <3>1. /\ call'.op = "strings" /\ call'.cnt = call.cnt + 1 /\ call'.n = call.n
          /\ call'.arr = call.arr /\ call'.base = call.base
      BY <1>7, <2>1, <2>2 DEF StringsCall
    <3>2. head' = Append(head, [name |-> name, text |-> s.text])
      BY <2>2 DEF Accepted, Added
    <3>3. /\ call.arr \in StringArrays /\ call.cnt \in Nat /\ call.cnt < Len(call.arr)
          /\ call.base \in Seq(Frame)
      <4>1. Len(call.arr) \in Nat
        BY <1>7, <2>1, FramesAssumption, LenProperties
      <4> QED BY <1>7, <2>1, <4>1
    <3>4. head' = call.base \o FramesOf(call.arr, call.cnt + 1)
      BY <1>7, <2>1, <3>2, <3>3, FramesOfMore
    <3>5. head' = call'.base \o FramesOf(call'.arr, call'.cnt)
      BY <3>1, <3>4
    <3>6. fg' /\ last' = NoCall /\ call'.cnt <= call'.n
      BY <1>7, <2>1, <2>2, <3>1
    <3> QED BY <1>i, <3>1, <3>5, <3>6 DEF StringsSoFar, StringsLoadedInOrder
  <2>3. CASE UNCHANGED listVars /\ StringsReturn(-1)
    <3>1. /\ call' = Idle /\ head' = head /\ fg' /\ last'.op = "strings" /\ last'.val = -1
          /\ last'.n = call.n /\ last'.arr = call.arr /\ last'.base = call.base
      BY <1>7, <2>1, <2>3 DEF listVars, StringsReturn
    <3>2. call.cnt \in 0..(last'.n - 1)
      <4>1. call.cnt \in 0..(call.n - 1)
        BY <1>7, <2>1
      <4> QED BY <3>1, <4>1
    <3>3. head' = last'.base \o FramesOf(last'.arr, call.cnt)
      <4>1. head = call.base \o FramesOf(call.arr, call.cnt)
        BY <1>7, <2>1
      <4> QED BY <3>1, <4>1
    <3> QED BY <1>i, <3>1, <3>2, <3>3 DEF StringsSoFar, StringsLoadedInOrder
  <2> QED BY <1>8, <2>2, <2>3 DEF LoadString, Unwound
<1>9. CASE LoadStringsDone
  <2>1. /\ call.op = "strings" /\ call.cnt >= call.n /\ head' = head
        /\ fg' = fg /\ call' = Idle
        /\ last'.op = "strings" /\ last'.val = call.cnt /\ last'.n = call.n
        /\ last'.arr = call.arr /\ last'.base = call.base
    BY <1>9 DEF LoadStringsDone, StringsReturn, listVars
  <2>2. fg' /\ last'.val = last'.n /\ head' = last'.base \o FramesOf(last'.arr, last'.n)
    <3>1. call.cnt = call.n
      BY <1>7, <2>1
    <3> QED BY <1>7, <2>1, <3>1
  <2> QED BY <1>i, <2>1, <2>2 DEF StringsSoFar, StringsLoadedInOrder
<1>10. ASSUME call.op = "files",
              \/ call'.op = "files" /\ UNCHANGED last
              \/ call' = Idle /\ last'.op = "files",
              fg' = fg
       PROVE  StringsSoFar'
  <2>1. call # Idle
    BY <1>i, <1>10
  <2>2. fg' /\ last = NoCall
    BY <1>10, <2>1 DEF StringsSoFar
  <2> QED BY <1>i, <1>10, <2>2 DEF StringsSoFar, StringsLoadedInOrder
<1>11. \A val : FilesReturn(val) => call' = Idle /\ last'.op = "files"
  BY DEF FilesReturn
<1>12. call.op = "files" => call \in FilesCall /\ call \in FilesRecord
  BY <1>t, CallKind DEF FilesCall
<1>13. CASE OpenFile
  <2>1. call.op = "files" /\ fg' = fg
    BY <1>13 DEF OpenFile
  <2>2. CASE /\ call' = [call EXCEPT !.pc = "inner", !.file = call.cnt + 1, !.cnt = 0, !.at = 1]
             /\ UNCHANGED last
    <3>1. call'.op = "files"
      BY <1>12, <2>1, <2>2 DEF FilesRecord
    <3> QED BY <1>10, <2>1, <2>2, <3>1
  <2> QED BY <1>10, <1>11, <1>13, <2>1, <2>2 DEF OpenFile
<1>14. CASE LoadFileFrame
  <2> DEFINE f == call.files[call.file]
             i == find_next_frame(f, call.at)
  <2>1. call.op = "files" /\ fg' = fg
    BY <1>14 DEF LoadFileFrame
  <2>2. CASE call' = [call EXCEPT !.cnt = @ + 1, !.at = AfterFrame(f, i)] /\ UNCHANGED last
    <3>1. call'.op = "files"
      BY <1>12, <2>1, <2>2 DEF FilesRecord
    <3> QED BY <1>10, <2>1, <2>2, <3>1
  <2> QED BY <1>10, <1>11, <1>14, <2>1, <2>2 DEF LoadFileFrame
<1>15. CASE EndOfFile
  <2>1. /\ call.op = "files" /\ fg' = fg /\ UNCHANGED last
        /\ call' = [call EXCEPT !.pc = "outer", !.cnt = CntAfterFile]
    BY <1>15 DEF EndOfFile
  <2>2. call'.op = "files"
    BY <1>12, <2>1 DEF FilesRecord
  <2> QED BY <1>10, <2>1, <2>2
<1>16. CASE LoadFilesDone
  BY <1>10, <1>11, <1>16 DEF LoadFilesDone
<1> QED BY <1>1, <1>2, <1>3, <1>4, <1>5, <1>6, <1>8, <1>9, <1>13, <1>14, <1>15, <1>16 DEF Next

(* fgen_load_strings adds the frames of its strings in order and to the    *)
(* first failure, for every array, whatever is on the list before.         *)
THEOREM StringsInOrder == Spec => []StringsLoadedInOrder
<1>1. StringsSoFar => StringsLoadedInOrder
  BY DEF StringsSoFar
<1>2. FramesInv /\ StringsSoFar /\ [Next]_vars => StringsSoFar'
  BY StepSoFar
<1> QED BY <1>1, <1>2, InitSoFar, FramesInvariant, PTL DEF Spec

-----------------------------------------------------------------------------
(* A load of one file.  Up to line n the headers of f have been read, and  *)
(* each of them has given a frame; Before(f, n) is their set.              *)
Before(f, n) == {i \in Headers(f) : i < n}
AllWithText(f, n) ==
  \A j \in 1..Len(f.lines) : j < n /\ f.lines[j].k = "hdr" => get_frame_string(f, j) # "empty"
Loaded(fs, base, f, hs) ==
  Len(fs) = Len(base) + Cardinality(hs) /\ \A i \in hs : Holds(fs, f.lines[i])

FileSoFar ==
  /\ call.op = "files" /\ Len(call.files) = 1 =>
       LET f == call.files[1] IN
         /\ call.pc = "outer" /\ call.cnt = 0 => head = call.base
         /\ call.pc = "outer" /\ call.cnt # 0 => Loaded(head, call.base, f, Headers(f))
         /\ call.pc = "inner" => /\ call.file = 1 /\ AllWithText(f, call.at)
                                 /\ Loaded(head, call.base, f, Before(f, call.at))
  /\ OneFileLoaded

(* The search finds the first header from line i on. *)
LEMMA FirstHeader ==
  ASSUME NEW f \in File, NEW i \in Nat \ {0}
  PROVE  LET m == find_next_frame(f, i) IN
           /\ m = 0 => \A j \in i..Len(f.lines) : f.lines[j].k # "hdr"
           /\ m # 0 => /\ m \in i..Len(f.lines) /\ f.lines[m].k = "hdr"
                       /\ \A j \in i..Len(f.lines) : j < m => f.lines[j].k # "hdr"
<1> DEFINE I == {j \in i..Len(f.lines) : f.lines[j].k = "hdr"}
           m == find_next_frame(f, i)
<1>1. m = IF I # {} THEN Min(I) ELSE 0
  BY DEF find_next_frame, SelectInSubSeq
<1>2. Len(f.lines) \in Nat /\ I \in SUBSET Nat /\ 0 \notin I
  BY LenProperties DEF File
<1>3. ASSUME I # {} PROVE m \in I /\ \A j \in I : m <= j
  BY ZenonT(60), <1>1, <1>2, <1>3, MinOfNaturals
<1>4. m = 0 => I = {}
  BY <1>2, <1>3
<1>5. m # 0 => I # {}
  BY <1>1
<1>6. ASSUME m # 0, NEW j \in i..Len(f.lines), j < m PROVE f.lines[j].k # "hdr"
  <2>1. ASSUME j \in I PROVE FALSE
    <3>1. m <= j /\ m \in Nat /\ j \in Nat
      BY <1>2, <1>3, <1>5, <1>6, <2>1
    <3> QED BY <1>6, <3>1
  <2> QED BY <2>1
<1> HIDE DEF m
<1>7. /\ m = 0 => \A j \in i..Len(f.lines) : f.lines[j].k # "hdr"
      /\ m # 0 => m \in i..Len(f.lines) /\ f.lines[m].k = "hdr"
  BY <1>3, <1>4, <1>5
<1> QED BY <1>6, <1>7 DEF m

(* A file has finitely many headers. *)
LEMMA HeadersFinite ==
  ASSUME NEW f \in File, NEW n
  PROVE  /\ Headers(f) \subseteq 1..Len(f.lines) /\ Len(f.lines) \in Nat
         /\ IsFiniteSet(Headers(f)) /\ IsFiniteSet(Before(f, n))
<1>1. Len(f.lines) \in Nat /\ Headers(f) \subseteq 1..Len(f.lines)
  BY LenProperties DEF File, Headers
<1>2. IsFiniteSet(1..Len(f.lines))
  BY <1>1, FS_Interval
<1>3. IsFiniteSet(Headers(f))
  BY <1>1, <1>2, FS_Subset
<1>4. Before(f, n) \subseteq Headers(f)
  BY DEF Before
<1> QED BY <1>1, <1>3, <1>4, FS_Subset

(* Where the inner loop ends all headers have been read. *)
LEMMA AllRead ==
  ASSUME NEW f \in File, NEW n \in Nat \ {0},
         find_next_frame(f, n) # 0 => get_frame_string(f, find_next_frame(f, n)) = "empty"
  PROVE  Before(f, n) = Headers(f)
<1> DEFINE m == find_next_frame(f, n)
<1> SUFFICES ASSUME NEW i \in Headers(f), ~(i < n) PROVE FALSE
  BY DEF Before
<1>1. i \in 1..Len(f.lines) /\ Len(f.lines) \in Nat /\ i \in n..Len(f.lines)
  BY HeadersFinite
<1>2. f.lines[i].k = "hdr"
        /\ \A j \in 1..i : f.lines[j].k = "hdr" => get_frame_string(f, j) # "empty"
  BY DEF Headers
<1>3. m # 0
  BY <1>1, <1>2, FirstHeader
<1>4. m \in n..Len(f.lines) /\ f.lines[m].k = "hdr" /\ ~(i < m)
  BY <1>1, <1>2, <1>3, FirstHeader
<1>5. get_frame_string(f, m) = "empty"
  BY <1>3
<1> HIDE DEF m
<1>6. m \in 1..i
  BY <1>1, <1>4
<1> QED BY <1>2, <1>4, <1>5, <1>6

(* The header that gives the next frame is one more. *)
LEMMA OneMoreRead ==
  ASSUME NEW f \in File, NEW n \in Nat \ {0}, AllWithText(f, n),
         NEW m, m = find_next_frame(f, n), m # 0, get_frame_string(f, m) # "empty"
  PROVE  /\ AllWithText(f, AfterFrame(f, m))
         /\ m \in Headers(f) /\ m \notin Before(f, n)
         /\ Before(f, AfterFrame(f, m)) = Before(f, n) \union {m}
<1> DEFINE k == AfterFrame(f, m)
           L == Len(f.lines)
<1>1. L \in Nat
  BY HeadersFinite
<1>2. /\ m \in n..L /\ f.lines[m].k = "hdr"
      /\ \A j \in n..L : j < m => f.lines[j].k # "hdr"
  BY FirstHeader
<1>3. m \in Nat \ {0} /\ m + 1 \in Nat \ {0}
  BY <1>1, <1>2
<1>4. k \in Nat /\ m < k /\ \A j \in (m + 1)..L : j < k => f.lines[j].k # "hdr"
  <2> DEFINE e == find_next_frame(f, m + 1)
  <2>1. /\ e = 0 => \A j \in (m + 1)..L : f.lines[j].k # "hdr"
        /\ e # 0 => /\ e \in (m + 1)..L
                    /\ \A j \in (m + 1)..L : j < e => f.lines[j].k # "hdr"
    BY <1>3, FirstHeader
  <2>2. k = IF e = 0 THEN L + 1 ELSE e
    BY DEF AfterFrame, BodyEnd
  <2> HIDE DEF e, k, L
  <2>3. CASE e = 0
    BY <1>1, <1>2, <2>1, <2>2, <2>3
  <2>4. CASE e # 0
    BY <1>1, <1>3, <2>1, <2>2, <2>4
  <2> QED BY <2>3, <2>4
<1> HIDE DEF k
<1>5. ASSUME NEW j \in 1..L, j < k, f.lines[j].k = "hdr" PROVE j < n \/ j = m
  <2>1. ~(j \in n..L /\ j < m) /\ ~(j \in (m + 1)..L)
    BY <1>2, <1>4, <1>5
  <2> HIDE DEF L
  <2> QED BY <1>1, <1>2, <1>3, <2>1
<1>6. ASSUME NEW j \in 1..L, j < k, f.lines[j].k = "hdr" PROVE get_frame_string(f, j) # "empty"
  BY <1>5, <1>6 DEF AllWithText
<1>7. AllWithText(f, k)
  BY <1>6 DEF AllWithText
<1>8. m \in Headers(f)
  <2>1. \A j \in 1..m : j \in 1..L /\ j < k
    <3> HIDE DEF L
    <3> QED BY <1>1, <1>2, <1>3, <1>4
  <2>2. m \in 1..L
    <3> HIDE DEF L
    <3> QED BY <1>1, <1>2, <1>3
  <2> QED BY <1>2, <1>6, <2>1, <2>2 DEF Headers
<1>9. ~(m < n)
  <2> HIDE DEF L
  <2> QED BY <1>1, <1>2
<1>10. ASSUME NEW i \in Headers(f) PROVE i < k <=> (i < n \/ i = m)
  <2>1. i \in 1..L /\ f.lines[i].k = "hdr"
    BY DEF Headers
  <2>2. i < n => i < k
    <3> HIDE DEF L
    <3> QED BY <1>1, <1>2, <1>4, <2>1
  <2> QED BY <1>4, <1>5, <2>1, <2>2
<1>11. Before(f, k) = Before(f, n) \union {m}
  BY <1>8, <1>10 DEF Before
<1>12. m \notin Before(f, n)
  BY <1>9 DEF Before
<1> QED BY <1>7, <1>8, <1>11, <1>12 DEF k

(* A frame added for header m is one more that is loaded. *)
LEMMA OneMoreLoaded ==
  ASSUME NEW fs \in Seq(Frame), NEW base \in Seq(Frame), NEW f \in File, NEW hs,
         IsFiniteSet(hs), NEW m, m \notin hs, Loaded(fs, base, f, hs),
         NEW fr \in Frame,
         f.lines[m].name # <<>> => fr.name = strlcpy(f.lines[m].name, NAME_LENGTH + 1)
  PROVE  Loaded(Append(fs, fr), base, f, hs \union {m})
<1> DEFINE t == Append(fs, fr)
<1>1. /\ t \in Seq(Frame) /\ Len(fs) \in Nat /\ Len(base) \in Nat /\ Len(t) = Len(fs) + 1
      /\ \A i \in 1..Len(fs) : t[i] = fs[i]
      /\ t[Len(fs) + 1] = fr
  BY AppendProperties, LenProperties
<1>2. Cardinality(hs \union {m}) = Cardinality(hs) + 1 /\ Cardinality(hs) \in Nat
  BY FS_AddElement, FS_CardinalityType
<1> HIDE DEF t
<1>3. Len(t) = Len(base) + Cardinality(hs \union {m})
  BY <1>1, <1>2 DEF Loaded
<1>4. ASSUME NEW i \in hs PROVE Holds(t, f.lines[i])
  <2>1. PICK j \in 1..Len(fs) :
          f.lines[i].name # <<>> => fs[j].name = strlcpy(f.lines[i].name, NAME_LENGTH + 1)
    BY DEF Loaded, Holds
  <2>2. j \in 1..Len(t) /\ t[j] = fs[j]
    BY <1>1
  <2> QED BY <2>1, <2>2 DEF Holds
<1>5. Holds(t, f.lines[m])
  <2>1. Len(fs) + 1 \in 1..Len(t)
    BY <1>1
  <2> QED BY <1>1, <2>1 DEF Holds
<1>6. Loaded(t, base, f, hs \union {m})
  BY <1>3, <1>4, <1>5 DEF Loaded
<1> QED BY <1>6 DEF t

(* A turn of the inner loop of fgen_load_files adds the frame of one more  *)
(* header; other steps do not touch a load of one file.                    *)
LEMMA StepFile ==
  ASSUME FramesInv, StringsSoFar, FileSoFar, [Next]_vars PROVE FileSoFar'
<1>t. TypeOK /\ head \in Seq(Frame)
  BY DEF FramesInv, TypeOK
<1>i. Idle.op = "idle" /\ NoCall.op = "none"
  BY DEF Idle, NoCall
<1>1. CASE UNCHANGED vars
  BY <1>1 DEF vars, FileSoFar, OneFileLoaded
<1>2. ASSUME call'.op # "files", last'.op # "files" PROVE FileSoFar'
  BY <1>2 DEF FileSoFar, OneFileLoaded
<1>3. CASE fgen_create \/ fgen_destroy
  <2>1. call' = Idle /\ last' = NoCall
    BY <1>3 DEF fgen_create, fgen_destroy, StringsSoFar
  <2> QED BY <1>2, <1>i, <2>1
<1>4. ASSUME NEW name, NEW text, fgen_add_frame(name, text) PROVE FileSoFar'
  <2>1. call' = Idle /\ last'.op = "add"
    BY <1>4 DEF fgen_add_frame, Free, AddReturns
  <2> QED BY <1>2, <1>i, <2>1
<1>5. ASSUME NEW arr, NEW n, LoadStrings(arr, n) PROVE FileSoFar'
  <2>1. call'.op = "strings" /\ last' = NoCall
    BY <1>5 DEF LoadStrings
  <2> QED BY <1>2, <1>i, <2>1
<1>6. CASE LoadString \/ LoadStringsDone
  <2>1. call.op = "strings"
    BY <1>6 DEF LoadString, LoadStringsDone
  <2>2. call \in StringsCall /\ last = NoCall
    <3>1. call # Idle
      BY <1>i, <2>1
    <3> QED BY <1>t, <2>1, <3>1, CallKind DEF StringsSoFar
  <2>3. \A val : StringsReturn(val) => call' = Idle /\ last'.op = "strings"
    BY DEF StringsReturn
  <2>4. CASE call' = [call EXCEPT !.cnt = @ + 1] /\ UNCHANGED last
    <3>1. call'.op = "strings"
      BY <2>2, <2>4 DEF StringsCall
    <3> QED BY <1>2, <1>i, <2>2, <2>4, <3>1
  <2>5. CASE \E val : StringsReturn(val)
    BY <1>2, <1>i, <2>3, <2>5
  <2> QED BY <1>6, <2>4, <2>5 DEF LoadString, LoadStringsDone
<1>7. ASSUME NEW files, LoadFiles(files) PROVE FileSoFar'
  <2>1. /\ call'.op = "files" /\ call'.pc = "outer" /\ call'.cnt = 0
        /\ call'.base = head /\ head' = head /\ last' = NoCall
    BY <1>7 DEF LoadFiles, listVars
  <2> QED BY <1>i, <2>1 DEF FileSoFar, OneFileLoaded
<1>8. ASSUME FilesReturn(-1) PROVE FileSoFar'
  <2>1. call' = Idle /\ last'.val = -1
    BY <1>8 DEF FilesReturn
  <2> QED BY <1>i, <2>1 DEF FileSoFar, OneFileLoaded
<1>9. ASSUME call.op = "files"
      PROVE  /\ call \in FilesRecord /\ call.files \in Seq(File) /\ call.base \in Seq(Frame)
             /\ call.cnt \in Nat /\ call.at \in Nat \ {0} /\ last = NoCall
             /\ Len(call.files) = 1 => call.files[1] \in File
  <2>1. call # Idle /\ call \in FilesCall
    BY <1>9, <1>i, <1>t, CallKind
  <2>2. call \in FilesRecord /\ last = NoCall
    BY <2>1 DEF FilesCall, StringsSoFar
  <2>3. call.files \in Seq(File)
    BY <2>2, FramesAssumption DEF FilesRecord
  <2> QED BY <2>2, <2>3 DEF FilesRecord
<1>10. CASE OpenFile
  <2>1. call.op = "files" /\ call.pc = "outer" /\ call.cnt < Len(call.files) /\ head' = head
    BY <1>10 DEF OpenFile, listVars
  <2>2. CASE /\ call' = [call EXCEPT !.pc = "inner", !.file = call.cnt + 1, !.cnt = 0, !.at = 1]
             /\ UNCHANGED last
    <3>1. /\ call'.pc = "inner" /\ call'.file = call.cnt + 1 /\ call'.at = 1
          /\ call'.files = call.files /\ call'.base = call.base
      BY <1>9, <2>1, <2>2 DEF FilesRecord
    <3>2. last' = NoCall
      BY <1>9, <2>1, <2>2
    <3>3. ASSUME Len(call.files) = 1
          PROVE  LET f == call.files[1] IN
                   /\ call'.file = 1 /\ AllWithText(f, 1)
                   /\ Loaded(head', call.base, f, Before(f, 1))
      <4> DEFINE f == call.files[1]
      <4>1. call.cnt = 0 /\ head = call.base /\ f \in File
        BY <1>9, <2>1, <3>3 DEF FileSoFar
      <4>2. Headers(f) \subseteq 1..Len(f.lines) /\ Len(f.lines) \in Nat
        BY <4>1, HeadersFinite
      <4> HIDE DEF f
      <4>3. Before(f, 1) = {} /\ AllWithText(f, 1)
        BY <4>2 DEF Before, AllWithText
      <4>4. Cardinality({}) = 0 /\ Len(head) \in Nat
        BY <1>t, FS_EmptySet, LenProperties
      <4>5. Loaded(head', call.base, f, Before(f, 1))
        BY <2>1, <4>1, <4>3, <4>4 DEF Loaded
      <4> QED BY <3>1, <4>1, <4>3, <4>5 DEF f
    <3> QED BY <1>i, <3>1, <3>2, <3>3 DEF FileSoFar, OneFileLoaded
  <2> QED BY <1>8, <1>10, <2>2 DEF OpenFile
<1>11. CASE LoadFileFrame
  <2> DEFINE g == call.files[call.file]
             m == find_next_frame(g, call.at)
             text == get_frame_string(g, m)
             name == FileName(g.lines[m], call.cnt)
  <2>1. call.op = "files" /\ call.pc = "inner" /\ m # 0 /\ text # "empty"
    BY <1>11 DEF LoadFileFrame
  <2>2. CASE /\ Accepted(name, text) /\ UNCHANGED last
             /\ call' = [call EXCEPT !.cnt = @ + 1, !.at = AfterFrame(g, m)]
    <3>1. /\ call'.pc = "inner" /\ call'.file = call.file /\ call'.at = AfterFrame(g, m)
          /\ call'.files = call.files /\ call'.base = call.base /\ last' = NoCall
      BY <1>9, <2>1, <2>2 DEF FilesRecord
    <3>2. ASSUME Len(call.files) = 1
          PROVE  LET f == call.files[1] IN
                   /\ call'.file = 1 /\ AllWithText(f, call'.at)
                   /\ Loaded(head', call'.base, f, Before(f, call'.at))
      <4>1. /\ call.file = 1 /\ AllWithText(g, call.at) /\ g \in File
            /\ Loaded(head, call.base, g, Before(g, call.at))
        BY <1>9, <2>1, <3>2 DEF FileSoFar
      <4>2. /\ AllWithText(g, AfterFrame(g, m)) /\ m \notin Before(g, call.at)
            /\ Before(g, AfterFrame(g, m)) = Before(g, call.at) \union {m}
        BY <1>9, <2>1, <4>1, OneMoreRead
      <4> DEFINE fr == [name |-> name, text |-> text]
      <4>3. head' = Append(head, fr) /\ fr \in Frame
        <5>1. name \in Name /\ text \in Texts
          BY <1>t, <2>1, FileTyped, TextGathered
        <5> HIDE DEF name, text
        <5> QED BY <2>2, <5>1 DEF Accepted, Added, Frame
      <4>4. g.lines[m].name # <<>> => fr.name = strlcpy(g.lines[m].name, NAME_LENGTH + 1)
        BY DEF FileName
      <4>5. IsFiniteSet(Before(g, call.at))
        BY <4>1, HeadersFinite
      <4>6. Loaded(head', call.base, g, Before(g, AfterFrame(g, m)))
        <5> HIDE DEF fr, g, m
        <5>1. call.base \in Seq(Frame)
          BY <1>9, <2>1
        <5> QED BY <1>t, <4>1, <4>2, <4>3, <4>4, <4>5, <5>1, OneMoreLoaded
      <4> QED BY <3>1, <4>1, <4>2, <4>6
    <3> QED BY <1>i, <3>1, <3>2 DEF FileSoFar, OneFileLoaded
  <2> QED BY <1>8, <1>11, <2>2 DEF LoadFileFrame
<1>12. CASE EndOfFile
  <2>1. /\ call.op = "files" /\ call.pc = "inner" /\ head' = head /\ last' = last
        /\ call' = [call EXCEPT !.pc = "outer", !.cnt = CntAfterFile]
    BY <1>12 DEF EndOfFile, listVars
  <2>2. /\ call'.pc = "outer" /\ call'.cnt = call.cnt + 1 /\ call'.cnt # 0
        /\ call'.files = call.files /\ call'.base = call.base /\ last' = NoCall
    BY <1>9, <2>1 DEF FilesRecord, CntAfterFile
  <2>3. ASSUME Len(call.files) = 1
        PROVE  Loaded(head', call'.base, call.files[1], Headers(call.files[1]))
    <3> DEFINE f == call.files[1]
    <3>1. call.file = 1 /\ f \in File /\ Loaded(head, call.base, f, Before(f, call.at))
      BY <1>9, <2>1, <2>3 DEF FileSoFar
    <3>2. find_next_frame(f, call.at) # 0 =>
            get_frame_string(f, find_next_frame(f, call.at)) = "empty"
      BY <1>12, <3>1 DEF EndOfFile
    <3>3. Before(f, call.at) = Headers(f)
      BY <1>9, <2>1, <3>1, <3>2, AllRead
    <3> QED BY <2>1, <2>2, <3>1, <3>3
  <2> QED BY <1>i, <2>2, <2>3 DEF FileSoFar, OneFileLoaded
<1>13. CASE LoadFilesDone
  <2>1. /\ call.op = "files" /\ call.pc = "outer" /\ call.cnt >= Len(call.files)
        /\ head' = head /\ call' = Idle
        /\ last'.files = call.files /\ last'.base = call.base
    BY <1>13 DEF LoadFilesDone, listVars, FilesReturn
  <2>2. ASSUME Len(call.files) = 1
        PROVE  Loaded(head', last'.base, last'.files[1], Headers(last'.files[1]))
    <3>1. call.cnt # 0
      BY <1>9, <2>1, <2>2
    <3> QED BY <2>1, <2>2, <3>1 DEF FileSoFar
  <2> QED BY <1>i, <2>1, <2>2 DEF FileSoFar, OneFileLoaded, Loaded
<1> QED BY <1>1, <1>3, <1>4, <1>5, <1>6, <1>7, <1>10, <1>11, <1>12, <1>13 DEF Next

(* A load of one file that succeeds has added a frame for each header up   *)
(* to the first without text, under its own name when it has one.          *)
THEOREM OneFileComplete == Spec => []OneFileLoaded
<1>1. FileSoFar => OneFileLoaded
  BY DEF FileSoFar
<1>2. Init => StringsSoFar /\ FileSoFar
  BY InitSoFar DEF Init, FileSoFar, OneFileLoaded, Idle, NoCall
<1>3. FramesInv /\ StringsSoFar /\ FileSoFar /\ [Next]_vars => (StringsSoFar /\ FileSoFar)'
  BY StepSoFar, StepFile
<1> QED BY <1>1, <1>2, <1>3, FramesInvariant, PTL DEF Spec
=============================================================================
