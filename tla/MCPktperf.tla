----------------------------- MODULE MCPktperf ------------------------------
(***************************************************************************)
(* Command lines of up to two -m options, with and without one that ends   *)
(* the parsing behind them (what follows that one is not read), over three *)
(* lcores, two ports and one more that a mapping can name.                 *)
(***************************************************************************)
EXTENDS Pktperf

CONSTANTS m1, m2

Both(p, rx) == [good |-> TRUE, port |-> p, split |-> FALSE, rx |-> rx, tx |-> <<>>]
Split(p, rx, tx) == [good |-> TRUE, port |-> p, split |-> TRUE, rx |-> rx, tx |-> tx]
NotGood == [Both(0, <<1, 1>>) EXCEPT !.good = FALSE]

Forms == {Both(0, <<1, 2>>), Both(0, <<3, 3>>), Split(0, <<1, 1>>, <<2, 3>>),
          Split(0, <<1, 2>>, <<3, 3>>), Split(0, <<1, 1>>, <<>>), Both(1, <<1, 2>>),
          Split(1, <<1, 1>>, <<2, 2>>), Split(1, <<2, 2>>, <<1, 3>>), Both(2, <<1, 2>>), NotGood}

Map(m) == [k |-> "map", map |-> m]
Ending(k) == [k |-> k, map |-> NotGood]
Line(maps) == [i \in 1..Len(maps) |-> Map(maps[i])]

MapLines == {Line(maps) : maps \in UNION {[1..k -> Forms] : k \in 0..2}}
AnyLine == MapLines \cup {Append(l, Ending(k)) : l \in MapLines, k \in {"fgen", "desc", "usage"}}

(* "-m 1-2.0": two threads that share the packets of a port, beside an     *)
(* lcore and a port without a mapping.                                     *)
Pair == <<Both(0, <<1, 2>>)>>

(* "-m 1:2.1": one thread that receives, one that transmits.               *)
Apart == <<Split(1, <<1, 1>>, <<2, 2>>)>>

(* "-m 3.0", for a port that could not be started.                         *)
Alone == <<Both(0, <<3, 3>>)>>

(* "-m 1-2.2", for a port that is not there.                               *)
Away == <<Both(2, <<1, 2>>)>>

Threads == {<<Pair, {0}>>, <<Apart, {1}>>, <<Alone, {}>>, <<Away, {0}>>}
RxOnOne == [p \in 0..2 |-> IF p = 1 THEN 1 ELSE 0]
NoRx == [p \in 0..2 |-> 0]

(* "-m 1.0". *)
Single == <<Both(0, <<1, 1>>)>>

(* "-m 1:2-3.0", "-m 1-2:3.0", and "-m 1.0 -m 1.1": one lcore, two ports. *)
MoreTx == <<Split(0, <<1, 1>>, <<2, 3>>)>>
MoreRx == <<Split(0, <<1, 2>>, <<3, 3>>)>>
Reused == <<Both(0, <<1, 1>>), Both(1, <<1, 1>>)>>

SingleLine == {Line(Single)}
SingleThread == {<<Single, {0}>>}
ApartLine == {Line(Apart)}
ApartThreads == {<<Apart, {1}>>}
OpenLines == {Line(MoreTx), Line(MoreRx), Line(Reused), Append(Line(Single), Ending("fgen"))}
=============================================================================
