------------------------------ MODULE MCOutput -------------------------------
(***************************************************************************)
(* Every short text over the characters that the parser tells apart: "r"   *)
(* begins the name of a color, "x" does not.                               *)
(***************************************************************************)
EXTENDS Output

TextsOf(S, n) == UNION {[1..k -> S] : k \in 0..n}

Names == {<<"r", "e", "d">>}

(* Longer ones: text around tuples, attributes, nested brackets, a tuple   *)
(* cut by color_begin, several tuples one after the other.                 *)
Long == {<<"x", "[", "r", "]", "x", "[", "]", "x">>, <<"[", "x", ":", "r", ":", "x", "]", "x">>,
         <<"[", "[", "r", "]", "]", "x", "x">>, <<"[", "r", "]", "[", "r", "]", "[", "r", "]">>,
         <<"[", "x", "x", ":", "r", "]", "x", "x">>, <<"x", "x", "x", "x", "[", "]">>}

All == TextsOf({"[", "]", ":", "r", "x"}, 4) \cup Long
MCTexts == [f \in PrintFns |-> IF f = "fgen_snprintf" THEN All ELSE Long]

(* A code of four bytes is longer than the shortest tuple it stands for. *)
MCSizes == {1, 4, 9, 12}
=============================================================================
