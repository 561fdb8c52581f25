------------------------------ MODULE MCFrames ------------------------------
(***************************************************************************)
(* Small instances of Frames: names that are prefixes of one another, with *)
(* one too long for a frame name, and files with headers that no text, or  *)
(* only slashes, follow.                                                                *)
(***************************************************************************)
EXTENDS Frames

MCDigit == [d \in 0..9 |-> <<"0", "1", "2", "3", "4", "5", "6", "7", "8", "9">>[d + 1]]
MCChar == {MCDigit[d] : d \in 0..9} \union
          {"F", "G", "H", "X", "Y", "L", "o", "n", "g", "e", "r", "Frame", "frame", "-"}
MCAnyFrame == <<"frame", "-">>
MCAnyFileFrame == <<"Frame", "-">>

MCNames == {<<>>, <<"F">>, <<"F", "1">>, <<"G">>}

Str(name, text) == [named |-> TRUE, name |-> name, text |-> text]
Bare(text) == [named |-> FALSE, name |-> <<>>, text |-> text]

MCElements == {Str(<<"F">>, "good"), Str(<<"F", "1">>, "good"), Bare("good"),
               Str(<<"G">>, "slashes"), Str(<<"L", "o", "n", "g", "e", "r">>, "broken")}
MCStringArrays == SeqOf(MCElements, 2)

Hdr(name, text) == [k |-> "hdr", name |-> name, text |-> text]
More(text) == [k |-> "text", name |-> <<>>, text |-> text]
Blank == [k |-> "blank", name |-> <<>>, text |-> "empty"]
Opens(lines) == [opens |-> TRUE, lines |-> lines]

MCFiles == {
  Opens(<<Blank>>),
  Opens(<<Hdr(<<"F">>, "good"), More("good"), Hdr(<<"G">>, "empty"), Blank, More("good")>>),
  Opens(<<Hdr(<<"F", "1">>, "good"), Hdr(<<"H">>, "good")>>),
  Opens(<<Hdr(<<"H">>, "good"), Hdr(<<"F">>, "slashes"), Hdr(<<"G">>, "good")>>),
  Opens(<<Hdr(<<"H">>, "slashes"), More("slashes")>>),
  Opens(<<Hdr(<<"H">>, "empty"), More("slashes"), More("good")>>),
  Opens(<<Hdr(<<>>, "broken"), Hdr(<<"X">>, "empty"), Hdr(<<"Y">>, "good")>>),
  [opens |-> FALSE, lines |-> <<>>]}
MCFileArrays == SeqOf(MCFiles, 2)
MCSingleFiles == SeqOf(MCFiles, 1)

=============================================================================
