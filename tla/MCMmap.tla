------------------------------- MODULE MCMmap -------------------------------
(***************************************************************************)
(* Mmap with pages of 1, 4 and 8 units.                                    *)
(***************************************************************************)
EXTENDS Mmap, TLC

CONSTANTS h1, h2

SmallPages == (0 :> 1) @@ (1 :> 4) @@ (2 :> 8)
=============================================================================
