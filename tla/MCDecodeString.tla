--------------------------- MODULE MCDecodeString ---------------------------
(***************************************************************************)
(* Every text of up to four characters; and the two texts of the runs that *)
(* look at one call.                                                       *)
(***************************************************************************)
EXTENDS DecodeString

AllTexts == UNION {[1..n -> Chars] : n \in 0..4}
TwoBytes == {<<"hex", "hex", "space", "hex", "hex", "space">>}
=============================================================================
