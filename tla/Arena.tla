------------------------------- MODULE Arena -------------------------------
(***************************************************************************)
(* What the salloc allocator promises its caller, with nothing of how the  *)
(* block is kept: while an arena is open every successful request is       *)
(* answered with a range of the requested length that shares no byte with  *)
(* any range handed out before, and no range is ever taken back until the  *)
(* arena is destroyed (salloc.h: "The API does not provide any methods to  *)
(* free memory allocated by this API").                                    *)
(***************************************************************************)
EXTENDS Integers

VARIABLES open,     \* an arena exists
          granted   \* the ranges [off, len] handed out since it was created

vars == <<open, granted>>

Range == [off : Nat, len : Nat \ {0}]

(* The two ranges have no byte in common. *)
Apart(r, s) == r.off + r.len <= s.off \/ s.off + s.len <= r.off

Init == open = FALSE /\ granted = {}

Create ==
  /\ ~open
  /\ open' = TRUE
  /\ granted' = {}

Grant ==
  /\ open
  /\ \E r \in granted' \ granted :
        /\ r \in Range
        /\ \A s \in granted : Apart(r, s)
        /\ granted' = granted \union {r}
  /\ open' = open

Destroy ==
  /\ open
  /\ open' = FALSE
  /\ granted' = {}

Next == Create \/ Destroy \/ Grant

Spec == Init /\ [][Next]_vars

=============================================================================
