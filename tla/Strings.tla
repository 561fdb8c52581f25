------------------------------- MODULE Strings -------------------------------
(***************************************************************************)
(* The string helpers of lib/include/fgen_strings.h as the parser of       *)
(* lib/core/encode.c uses them, on one array that they cut up in place:    *)
(*   "layers"  a frame string cut at "/", as _encode_frame does;           *)
(*   "params"  a layer's parameters: _encode_opts cuts "(k=v,k=v)" into    *)
(*             pieces, then parser_kvp cuts each piece, which is still a   *)
(*             part of the same array, into key and value;                 *)
(*   "qtok"    fgen_strqtok, which keeps quoted text together.             *)
(* One turn of a tokenising loop is a step.  A pointer is an index into    *)
(* the array.  Whether a key is known is not modelled: it is in Encode.    *)
(***************************************************************************)
EXTENDS Integers, Sequences, FiniteSetsExt

CONSTANTS
  Calls,               \* [fn, text]: what is called with which string
  Delim,               \* delimiters given to fgen_strqtok
  MaxLayers,           \* FGEN_MAX_LAYERS - 1
  FGEN_MAX_PARAMS,
  FGEN_MAX_KVP_TOKENS,
  MaxTokens            \* maxtokens of fgen_strqtok

NUL == "nul"
TAB == "tab"             \* a tab, for everything isspace takes but the blank
Space == {" ", TAB}

(* param_str is cut at the "(" behind the layer's name. *)
ASSUME StringsAssumption ==
  /\ \A c \in Calls : /\ c.fn \in {"layers", "params", "qtok"}
                     /\ c.text \in Seq(Range(c.text)) /\ NUL \notin Range(c.text)
  /\ \A c \in Calls : c.fn = "params" => c.text # <<>> /\ c.text[1] = "("
  /\ {MaxLayers, FGEN_MAX_PARAMS, FGEN_MAX_KVP_TOKENS, MaxTokens} \subseteq Nat \ {0}

VARIABLES
  call,    \* the call
  mem,     \* the array: the text and its NUL
  pc,      \* call, layers, opts, param, vars, qtok, past, crashed or done
  at,      \* where strtok_r goes on: str, then saved
  toks,    \* the tokens the loop in progress has found
  params,  \* fg->params
  pairs,   \* keys and values parser_kvp has returned
  p,       \* fgen_strqtok: the character looked at,
  start,   \* start_of_word
  state,   \* and the kind of text p is in
  ret      \* what the call returns

vars == <<call, mem, pc, at, toks, params, pairs, p, start, state, ret>>
qtokVars == <<p, start, state>>

States == {"INIT", "WORD", "STRING_QUOTE", "STRING_TICK", "STRING_BRACKET"}
Addr == 0..Len(call.text) + 2

TypeOK ==
  /\ call.fn \in {"layers", "params", "qtok"}
  /\ DOMAIN mem = 1..Len(call.text) + 1
  /\ pc \in {"call", "layers", "opts", "param", "vars", "qtok", "past", "crashed",
             "done"}
  /\ at \in Addr
  /\ toks \in Seq(Addr)
  /\ params \in Seq(Addr)
  /\ pairs \in Seq(Addr \X Addr)
  /\ p \in Addr
  /\ start \in Addr
  /\ state \in States
  /\ ret \in Int

Init ==
  /\ call \in Calls
  /\ mem = Append(call.text, NUL)
  /\ pc = "call"
  /\ at = 0
  /\ toks = <<>>
  /\ params = <<>>
  /\ pairs = <<>>
  /\ p = 0
  /\ start = 0
  /\ state = "WORD"
  /\ ret = 0

(***************************************************************************)
(* Trimming and cutting, on an array m from index i.                       *)
(***************************************************************************)

StrEnd(m, i) == Min({j \in i..Len(m) : m[j] = NUL})
FirstNotIn(m, i, S) == Min({j \in i..Len(m) : m[j] \notin S})

(* Skip front, then end the string behind its last character not in back; *)
(* a string that is empty by then is left alone.                           *)
Trim(m, i, front, back) ==
  LET b == FirstNotIn(m, i, front)
      last == Max({j \in b..StrEnd(m, b) - 1 : m[j] \notin back} \cup {b - 1})
  IN  [at |-> b, mem |-> IF m[b] = NUL THEN m ELSE [m EXCEPT ![last + 1] = NUL]]

strtrim(m, i) == Trim(m, i, Space, Space)
strtrimset(m, i, open, close) == Trim(m, i, Space \cup {open}, Space \cup {close})

(* strtrimset(strtrim(str), "()"), of which the callers take the length:   *)
(* strtrimset returns NULL when strtrim has left nothing.                  *)
Blank(m, i) == LET t == strtrim(m, i) IN t.mem[t.at] = NUL
Bare(m, i) == LET t == strtrim(m, i) IN strtrimset(t.mem, t.at, "(", ")")

(* strtok_r from index i: a token found at b ends at e, which is cut. *)
strtok_r(m, i, D) ==
  LET b == FirstNotIn(m, i, D)
      e == Min({j \in b..Len(m) : m[j] \in D \cup {NUL}})
  IN  [found |-> m[b] # NUL,
       at |-> b,
       saved |-> IF m[e] = NUL THEN e ELSE e + 1,
       mem |-> IF m[b] = NUL THEN m ELSE [m EXCEPT ![e] = NUL]]

(***************************************************************************)
(* fgen_strtok and its callers.                                            *)
(***************************************************************************)

_encode_frame ==
  /\ pc = "call" /\ call.fn = "layers"
  /\ at' = 1
  /\ pc' = IF mem[1] = NUL THEN "done" ELSE "layers"
  /\ UNCHANGED <<call, mem, toks, params, pairs, qtokVars, ret>>

_encode_opts ==
  /\ pc = "call" /\ call.fn = "params"
  /\ LET t == Bare(mem, 1)
     IN  /\ mem' = t.mem
         /\ at' = t.at
         /\ pc' = IF t.mem[t.at] = NUL THEN "done" ELSE "opts"
  /\ UNCHANGED <<call, toks, params, pairs, qtokVars, ret>>

(* parser_kvp on the next parameter: _encode_vars.  What is left without a *)
(* character between its parentheses is no pair; a parameter of white      *)
(* space, which fgen_strtok has trimmed to nothing, ends in strlen(NULL).  *)
BlankParam ==
  /\ pc = "param"
  /\ Blank(mem, Head(params))
  /\ pc' = "crashed"
  /\ UNCHANGED <<call, mem, at, toks, params, pairs, qtokVars, ret>>

_encode_vars ==
  /\ pc = "param"
  /\ ~Blank(mem, Head(params))
  /\ LET t == Bare(mem, Head(params))
     IN  /\ mem' = t.mem
         /\ at' = t.at
         /\ params' = Tail(params)
         /\ IF t.mem[t.at] = NUL
            THEN pc' = "done" /\ ret' = -1
            ELSE pc' = "vars" /\ UNCHANGED ret
  /\ UNCHANGED <<call, toks, pairs, qtokVars>>

delims ==
  CASE pc = "layers" -> {"/"} [] pc = "opts" -> {",", " "} [] pc = "vars" -> {"=", " "}
maxtokens ==
  CASE pc = "layers" -> MaxLayers
    [] pc = "opts" -> FGEN_MAX_PARAMS
    [] pc = "vars" -> FGEN_MAX_KVP_TOKENS

FullLate(ts) == Len(ts) > maxtokens   \* slip: i++ < maxtokens
Full(ts) == Len(ts) = maxtokens

(* The loop of fgen_strtok goes on behind the token it has just found. *)
StrtokTurn ==
  /\ pc \in {"layers", "opts", "vars"}
  /\ LET k == strtok_r(mem, at, delims)
         t == strtrim(k.mem, k.at)
     IN  /\ k.found
         /\ ~Full(Append(toks, t.at))
         /\ mem' = t.mem
         /\ at' = k.saved
         /\ toks' = Append(toks, t.at)
  /\ UNCHANGED <<call, pc, params, pairs, qtokVars, ret>>

(* What the caller does with the tokens ts. *)
Return(ts) ==
  \/ /\ pc = "layers"
     /\ pc' = "done"
     /\ toks' = ts
     /\ ret' = Len(ts)
     /\ UNCHANGED <<params, pairs>>
  \/ /\ pc = "opts"
     /\ pc' = IF ts = <<>> THEN "done" ELSE "param"
     /\ params' = ts
     /\ toks' = <<>>
     /\ UNCHANGED <<pairs, ret>>
  \/ /\ pc = "vars"
     /\ toks' = <<>>
     /\ IF Len(ts) = 2
        THEN /\ pairs' = Append(pairs, <<ts[1], ts[2]>>)
             /\ pc' = IF params = <<>> THEN "done" ELSE "param"
             /\ ret' = Len(pairs')
        ELSE pc' = "done" /\ ret' = -1 /\ UNCHANGED pairs
     /\ UNCHANGED params

(* The loop ends: no token is left, or the array of tokens is full. *)
StrtokNull ==
  /\ pc \in {"layers", "opts", "vars"}
  /\ ~strtok_r(mem, at, delims).found
  /\ Return(toks)
  /\ UNCHANGED <<call, mem, at, qtokVars>>

StrtokFull ==
  /\ pc \in {"layers", "opts", "vars"}
  /\ LET k == strtok_r(mem, at, delims)
         t == strtrim(k.mem, k.at)
     IN  /\ k.found
         /\ Full(Append(toks, t.at))
         /\ mem' = t.mem
         /\ at' = k.saved
         /\ Return(Append(toks, t.at))
  /\ UNCHANGED <<call, qtokVars>>

(***************************************************************************)
(* fgen_strqtok.                                                           *)
(***************************************************************************)

fgen_strqtok ==
  /\ pc = "call" /\ call.fn = "qtok"
  /\ LET t == strtrim(mem, 1)
     IN  mem' = t.mem /\ p' = t.at /\ start' = t.at
  /\ pc' = "qtok"
  /\ UNCHANGED <<call, at, toks, params, pairs, state, ret>>

InLoop == pc = "qtok" /\ Len(toks) < MaxTokens /\ mem[p] # NUL

(* The character behind a backslash is not looked at and begins a word; a  *)
(* NUL there is stepped over, and the loop reads on behind the array.      *)
Backslash ==
  /\ InLoop
  /\ mem[p] = "\\"
  /\ start' = p + 1
  /\ p' = p + 2
  /\ pc' = IF p + 2 > Len(mem) THEN "past" ELSE pc
  /\ UNCHANGED <<call, mem, at, toks, params, pairs, state, ret>>

Opens == [STRING_QUOTE |-> "\"", STRING_TICK |-> "'", STRING_BRACKET |-> "{"]
Closes == [STRING_QUOTE |-> "\"", STRING_TICK |-> "'", STRING_BRACKET |-> "}"]

(* Where a word begins that is found at i. *)
WordAtDelim(i) == start   \* slip: start_of_word is left where it was
WordAt(i) == i

(* In state INIT: delimiters are skipped, anything else begins a token. *)
QtokInit ==
  /\ InLoop /\ mem[p] # "\\" /\ state = "INIT"
  /\ \/ \E s \in DOMAIN Opens :
          mem[p] = Opens[s] /\ state' = s /\ start' = p + 1
     \/ /\ mem[p] \notin Range(Opens) \cup Delim
        /\ state' = "WORD"
        /\ start' = WordAt(p)
     \/ /\ mem[p] \in Delim \ Range(Opens)
        /\ UNCHANGED <<state, start>>
  /\ p' = p + 1
  /\ UNCHANGED <<call, mem, pc, at, toks, params, pairs, ret>>

EndsToken(c) == IF state = "WORD" THEN c \in Delim ELSE c = Closes[state]

(* In a word or a quoted text: its end is cut and the token kept. *)
QtokInside ==
  /\ InLoop /\ mem[p] # "\\" /\ state # "INIT"
  /\ IF EndsToken(mem[p])
     THEN /\ mem' = [mem EXCEPT ![p] = NUL]
          /\ toks' = Append(toks, start)
          /\ state' = "INIT"
          /\ start' = IF state = "WORD" THEN p + 1 ELSE start
     ELSE UNCHANGED <<mem, toks, state, start>>
  /\ p' = p + 1
  /\ UNCHANGED <<call, pc, at, params, pairs, ret>>

(* Behind the loop a token not ended by anything is kept.  That argc is 0  *)
(* by then, where str itself would be kept, cannot happen.  The NULL put   *)
(* behind the last token takes an entry of its own, not counted here.      *)
QtokEnd ==
  /\ pc = "qtok" /\ ~InLoop
  /\ toks' = IF state # "INIT" /\ Len(toks) < MaxTokens THEN Append(toks, start) ELSE toks
  /\ ret' = Len(toks')
  /\ pc' = "done"
  /\ UNCHANGED <<call, mem, at, params, pairs, qtokVars>>

Next ==
  \/ _encode_frame \/ _encode_opts \/ _encode_vars \/ BlankParam
  \/ StrtokTurn \/ StrtokNull \/ StrtokFull
  \/ fgen_strqtok \/ Backslash \/ QtokInit \/ QtokInside \/ QtokEnd

Spec == Init /\ [][Next]_vars

(***************************************************************************)
(* The properties.  What is expected is defined on the text as given, with *)
(* no array and no order of steps.                                         *)
(***************************************************************************)

Str(i) == SubSeq(mem, i, StrEnd(mem, i) - 1)

Stripped(s, front, back) ==
  LET lo == Min({i \in 1..Len(s) : s[i] \notin front} \cup {Len(s) + 1})
      hi == Max({i \in lo..Len(s) : s[i] \notin back} \cup {lo - 1})
  IN  SubSeq(s, lo, hi)

(* The longest runs of s without a character of D, as first and last      *)
(* index, and the place of a run among them, from left to right.           *)
Runs(s, D) ==
  {r \in (1..Len(s)) \X (1..Len(s)) :
     /\ r[1] <= r[2]
     /\ \A i \in r[1]..r[2] : s[i] \notin D
     /\ r[1] = 1 \/ s[r[1] - 1] \in D
     /\ r[2] = Len(s) \/ s[r[2] + 1] \in D}
Place(runs, r) == Cardinality({q \in runs : q[1] <= r[1]})

Fields(s, D) ==
  LET runs == Runs(s, D)
  IN  [k \in 1..Cardinality(runs) |->
         LET r == CHOOSE r \in runs : Place(runs, r) = k
         IN  SubSeq(s, r[1], r[2])]

AtMost(k, s) == SubSeq(s, 1, Min({k, Len(s)}))
Unparen(s) == Stripped(Stripped(s, Space, Space), Space \cup {"("}, Space \cup {")"})

Words(s, D) == LET fs == Fields(s, D)
               IN  [k \in DOMAIN fs |-> Stripped(fs[k], Space, Space)]

Pieces == AtMost(FGEN_MAX_PARAMS, Words(Unparen(call.text), {",", " "}))
KeyValue(piece) == AtMost(FGEN_MAX_KVP_TOKENS, Words(Unparen(piece), {"=", " "}))

(* Cutting in place gives what cutting the text gives: the layers of a     *)
(* frame string are its fields between slashes, without the space around   *)
(* them; the parameters of a layer are read as the pairs of its pieces up  *)
(* to the first that is no pair, which makes the call fail, or the program *)
(* end when that piece is nothing but white space other than blanks; and   *)
(* the keys and values read first are still in the array when the last is  *)
(* read.                                                                   *)
TokensAreFields ==
  pc \in {"done", "crashed"} =>
    /\ call.fn = "layers" =>
         LET fs == AtMost(MaxLayers, Words(call.text, {"/"}))
         IN  /\ ret = Len(fs)
             /\ [i \in 1..Len(toks) |-> Str(toks[i])] = fs
    /\ call.fn = "params" =>
         LET bad == {i \in 1..Len(Pieces) : Len(KeyValue(Pieces[i])) # 2}
             n == Min({i - 1 : i \in bad} \cup {Len(Pieces)})
         IN  /\ pc = "crashed" <=> bad # {} /\ Stripped(Pieces[n + 1], Space, Space) = <<>>
             /\ pc = "done" => ret = IF bad = {} THEN n ELSE -1
             /\ [i \in 1..Len(pairs) |-> <<Str(pairs[i][1]), Str(pairs[i][2])>>]
                  = [i \in 1..n |-> KeyValue(Pieces[i])]

Extent(i) == toks[i]..StrEnd(mem, toks[i]) - 1

(* fgen_strqtok keeps each character of a text without backslashes that is *)
(* neither delimiter nor quote in exactly one token, in order, up to where *)
(* it stopped because maxtokens tokens were found.                         *)
EachCharOnce ==
  pc = "done" /\ call.fn = "qtok" /\ "\\" \notin Range(call.text) =>
    /\ \A i, j \in 1..ret : i < j => toks[i] < toks[j]
    /\ \A c \in 1..Len(call.text) :
         call.text[c] \notin Delim \cup Space \cup Range(Opens) \cup Range(Closes) =>
           \/ Cardinality({i \in 1..ret : c \in Extent(i)}) = 1
           \/ ret = MaxTokens /\ c > StrEnd(mem, toks[ret])

(* fgen_strings.h: "handle quoted strings within the string being parsed". *)
(* A text that is one quoted string is one token.                          *)
QuotedKept ==
  (/\ pc = "done" /\ call.fn = "qtok"
   /\ Len(call.text) > 2
   /\ call.text[1] = "\"" /\ call.text[Len(call.text)] = "\""
   /\ \A i \in 2..Len(call.text) - 1 : call.text[i] \in Delim \cup {"a"})
     => ret = 1

(* encode.c: "Parameters '%s' invalid" - parameters that do not parse are   *)
(* reported.                                                               *)
BadParamsReported == pc # "crashed"

(* fgen_strings.h: "String to be tokenized and will be modified, null      *)
(* terminated".  The loop stops at the NUL.                                *)
StopsAtNul == pc # "past"
=============================================================================
