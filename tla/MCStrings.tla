------------------------------ MODULE MCStrings ------------------------------
(* Every short text over the characters that each call tells apart.        *)
EXTENDS Strings

TextsOf(S, n) == UNION {[1..k -> S] : k \in 0..n}

LayerCalls == {[fn |-> "layers", text |-> t] : t \in TextsOf({"a", " ", TAB, "/"}, 6)}

(* param_str points at the "(" behind the layer's name. *)
ParamCalls ==
  {[fn |-> "params", text |-> <<"(">> \o t] : t \in TextsOf({"a", "=", ",", " ", TAB, ")"}, 5)}
  \cup {[fn |-> "params", text |-> <<"(", "a", "=", "b", ",">> \o t] :
          t \in TextsOf({"c", "=", ",", " ", TAB, ")", "("}, 4)}

QuoteCalls ==
  {[fn |-> "qtok", text |-> t] : t \in TextsOf({"a", ",", TAB, "\"", "'", "{", "}"}, 4)}
  \cup {[fn |-> "qtok", text |-> <<"a", ",">> \o t] : t \in TextsOf({"a", ",", "\"", "{", "}"}, 4)}

(* Texts with a backslash, none of them last. *)
EscapeCalls ==
  {[fn |-> "qtok", text |-> t \o <<"a">>] : t \in TextsOf({"a", ",", "\\", "\""}, 4)}

MCCalls == LayerCalls \cup ParamCalls \cup QuoteCalls \cup EscapeCalls

OpenCalls ==
  EscapeCalls \cup {[fn |-> "qtok", text |-> t] : t \in TextsOf({"a", ",", "\\", "\""}, 4)}
              \cup {[fn |-> "params", text |-> <<"(", "a", "=", "b", ",">> \o t] :
                      t \in TextsOf({"c", "=", " ", TAB, ")"}, 4)}
=============================================================================
