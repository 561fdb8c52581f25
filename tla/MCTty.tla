-------------------------------- MODULE MCTty --------------------------------
(* Tty with stdin, a second terminal and a socket, and two window sizes    *)
(* that differ in both halves.                                             *)
EXTENDS Tty

MCSizes == {<<24, 80>>, <<50, 132>>}
=============================================================================
