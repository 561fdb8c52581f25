---------------------------- MODULE StringsProofs ----------------------------
(***************************************************************************)
(* Proofs about the tokenisers, for texts of any length over any           *)
(* characters and arrays of any number of tokens: fgen_strqtok with any    *)
(* delimiters first, then fgen_strtok as the encoder's parser uses it.     *)
(*                                                                         *)
(* What the tokens hold is said of the array when the call is over, but it *)
(* is cut while it is read.  The invariant says what has become of the     *)
(* part read so far: every token found ends before the next one begins and *)
(* before the character looked at, so that no later cut reaches it, and    *)
(* every character to be kept is in a token or in the word being read.     *)
(* For fgen_strtok it also says which field of the text each token holds,  *)
(* and that what is still to be read is as it was.                         *)
(***************************************************************************)
EXTENDS Strings, SequenceTheorems, FiniteSetTheorems, WellFoundedInduction, TLAPS

(* The characters of the text that fgen_strqtok is to keep. *)
Kept == {c \in 1..Len(call.text) :
           call.text[c] \notin Delim \cup Space \cup Range(Opens) \cup Range(Closes)}

(* The string that begins at i in the array m ends at e. *)
EndsAt(m, i, e) == e \in i..Len(m) /\ m[e] = NUL /\ \A j \in i..e - 1 : m[j] # NUL

(* It ends before hi. *)
EndsBefore(m, i, hi) == \E e \in i..hi - 1 : EndsAt(m, i, e)

InToken(m, ts, c) ==
  \E i \in 1..Len(ts) : \E e \in c + 1..Len(m) : EndsAt(m, ts[i], e) /\ ts[i] <= c

Apart(m, ts) == \A i, j \in 1..Len(ts) : i < j => EndsBefore(m, ts[i], ts[j])

Covered(m, ts, c) == InToken(m, ts, c) \/ (state # "INIT" /\ start <= c)

(* The array still has the characters to be kept, and nothing is put into  *)
(* it but NUL.                                                             *)
Array ==
  /\ mem \in Seq(Range(call.text) \cup {NUL}) /\ Len(mem) = Len(call.text) + 1
  /\ \A j \in 1..Len(call.text) : mem[j] \in {call.text[j], NUL}
  /\ \A c \in Kept : mem[c] = call.text[c]

Tokens ==
  /\ toks \in Seq(1..Len(mem))
  /\ Len(toks) <= MaxTokens /\ (Len(toks) = MaxTokens => state = "INIT")
  /\ \A i \in 1..Len(toks) : EndsBefore(mem, toks[i], p)
  /\ Apart(mem, toks)

Word ==
  state # "INIT" =>
    /\ start \in 1..p
    /\ \A j \in start..p - 1 : mem[j] # NUL
    /\ \A i \in 1..Len(toks) : EndsBefore(mem, toks[i], start)

Scan ==
  /\ p \in 1..Len(mem) /\ state \in States
  /\ \E e \in p..Len(mem) : EndsAt(mem, p, e) /\ \A c \in Kept : c < e
  /\ \A c \in Kept : c < p => Covered(mem, toks, c)

(* A call of fgen_strqtok on a text without a backslash. *)
Quoting == call.fn = "qtok" /\ "\\" \notin Range(call.text)

QtokInv ==
  /\ call \in Calls
  /\ Quoting => /\ pc \in {"call", "qtok", "done"}
                /\ Array
                /\ pc = "call" => mem = Append(call.text, NUL) /\ toks = <<>> /\ state = "WORD"
                /\ pc = "qtok" => Tokens /\ Word /\ Scan
                /\ pc = "done" => EachCharOnce

-----------------------------------------------------------------------------
(* A set of natural numbers that is not empty has a least member. *)
LEMMA HasMin ==
  ASSUME NEW S, S \subseteq Nat, S # {}
  PROVE  /\ Min(S) \in S
         /\ \A y \in S : Min(S) <= y
<1>1. PICK x \in S : \A y \in S : ~(<<y, x>> \in OpToRel(<, Nat))
  BY NatLessThanWellFounded, WFMin
<1>2. ASSUME NEW y \in S PROVE x <= y
  <2>1. x \in Nat /\ y \in Nat /\ <<y, x>> \in Nat \X Nat
    OBVIOUS
  <2>2. OpToRel(<, Nat) = {ss \in Nat \X Nat : ss[1] < ss[2]}
    BY DEF OpToRel
  <2>3. ~(<<y, x>>[1] < <<y, x>>[2])
    BY <1>1, <2>1, <2>2, Zenon
  <2> QED BY <2>1, <2>3
<1> QED BY <1>2 DEF Min

(* The same for the greatest of a bounded set. *)
LEMMA HasMax ==
  ASSUME NEW n \in Nat, NEW S, S \subseteq 0..n, S # {}
  PROVE  /\ Max(S) \in S
         /\ \A y \in S : y <= Max(S)
<1> DEFINE T == {x \in Nat : n - x \in S}
<1>1. T # {}
  <2>1. PICK x \in S : TRUE
    OBVIOUS
  <2>2. n - x \in Nat /\ n - (n - x) = x
    OBVIOUS
  <2> QED BY <2>1, <2>2
<1>2. PICK m \in T : \A y \in T : m <= y
  BY <1>1, HasMin
<1>3. n - m \in S /\ m \in Nat
  BY <1>2
<1>4. ASSUME NEW y \in S PROVE y <= n - m
  <2>1. n - y \in Nat /\ n - (n - y) = y
    OBVIOUS
  <2>2. n - y \in T
    BY <2>1
  <2> QED BY <1>2, <2>1, <2>2
<1>5. \E x \in S : \A y \in S : y <= x
  BY <1>3, <1>4
<1> QED BY <1>5 DEF Max

(* StrEnd is the end of the string. *)
LEMMA StrEndIs ==
  ASSUME NEW m, Len(m) \in Nat, NEW i \in Int, NEW e, EndsAt(m, i, e)
  PROVE  StrEnd(m, i) = e
<1>1. e \in i..Len(m) /\ m[e] = NUL /\ \A j \in i..e - 1 : m[j] # NUL
  BY DEF EndsAt
<1> DEFINE S == {j \in i..Len(m) : m[j] = NUL}
<1>2. e \in S /\ \A j \in S : e <= j
  BY <1>1
<1>3. \A x \in S : (\A j \in S : x <= j) => x = e
  BY <1>1, <1>2
<1>4. Min(S) = e
  BY <1>2, <1>3 DEF Min
<1> QED BY <1>4 DEF StrEnd

(* A string that ends before lo ends before hi. *)
LEMMA Wider ==
  ASSUME NEW m, NEW i \in Int, NEW lo \in Int, NEW hi \in Int, lo <= hi, EndsBefore(m, i, lo)
  PROVE  EndsBefore(m, i, hi)
BY DEF EndsBefore

(* The texts and bounds of the calls. *)
LEMMA CallFacts ==
  ASSUME call \in Calls
  PROVE  /\ call.text \in Seq(Range(call.text)) /\ Len(call.text) \in Nat
         /\ NUL \notin Range(call.text)
         /\ \A j \in 1..Len(call.text) : call.text[j] \in Range(call.text)
         /\ MaxTokens \in Nat /\ MaxTokens >= 1
<1>1. call.text \in Seq(Range(call.text)) /\ NUL \notin Range(call.text)
  BY StringsAssumption
<1>2. MaxTokens \in Nat /\ MaxTokens >= 1
  BY StringsAssumption
<1>3. \A j \in 1..Len(call.text) : call.text[j] \in Range(call.text)
  BY <1>1
<1> QED BY <1>1, <1>2, <1>3

(* Every quote that opens a text has a state, and the state its other end. *)
LEMMA QuoteFacts ==
  /\ \A s \in DOMAIN Opens : s \in States /\ s # "INIT" /\ Opens[s] \in Range(Opens)
  /\ \A s \in States \ {"INIT", "WORD"} : Closes[s] \in Range(Closes)
<1>1. DOMAIN Opens = {"STRING_QUOTE", "STRING_TICK", "STRING_BRACKET"}
  BY DEF Opens
<1>2. DOMAIN Closes = {"STRING_QUOTE", "STRING_TICK", "STRING_BRACKET"}
  BY DEF Closes
<1>3. \A s \in DOMAIN Opens : Opens[s] \in Range(Opens)
  BY DEF Range
<1>4. \A s \in DOMAIN Closes : Closes[s] \in Range(Closes)
  BY DEF Range
<1> QED BY <1>1, <1>2, <1>3, <1>4 DEF States

(* What strtrim makes of a text: it begins and ends at a character that is *)
(* no space.                                                               *)
IsTrimmed(T, C, b, m, e) ==
  /\ b \in 1..Len(T) + 1 /\ e \in b..Len(T) + 1
  /\ m \in Seq(C \cup {NUL}) /\ Len(m) = Len(T) + 1
  /\ EndsAt(m, b, e)
  /\ \A j \in 1..Len(T) : m[j] = T[j] \/ (m[j] = NUL /\ T[j] \in Space)
  /\ \A j \in 1..Len(T) : T[j] \notin Space => b <= j /\ j < e

(* A cut changes one place of an array and leaves its length. *)
IsCut(C, m, q, m2) ==
  /\ m2 \in Seq(C) /\ Len(m2) = Len(m) /\ m2[q] = NUL
  /\ \A j \in 1..Len(m) : j # q => m2[j] = m[j]

(* So does the assignment of NUL to a place of the array. *)
LEMMA CutArray ==
  ASSUME NEW C, NUL \in C, NEW m \in Seq(C), NEW q \in 1..Len(m),
         NEW m2, m2 = [m EXCEPT ![q] = NUL]
  PROVE  IsCut(C, m, q, m2)
BY DEF IsCut

(* A cut leaves the strings that end before it as they are. *)
LEMMA CutKeeps ==
  ASSUME NEW C, NEW m, Len(m) \in Nat, NEW q \in 1..Len(m), NEW m2, IsCut(C, m, q, m2),
         NEW i \in Nat, i >= 1, NEW e \in Int, e < q, EndsAt(m, i, e)
  PROVE  EndsAt(m2, i, e)
<1>1. e \in i..Len(m) /\ m[e] = NUL /\ \A j \in i..e - 1 : m[j] # NUL
  BY DEF EndsAt
<1>2. Len(m2) = Len(m) /\ \A j \in 1..Len(m) : j # q => m2[j] = m[j]
  BY DEF IsCut
<1>3. \A j \in i..e : j \in 1..Len(m) /\ j # q
  BY <1>1
<1>4. e \in i..e /\ \A j \in i..e - 1 : j \in i..e
  BY <1>1
<1> QED BY <1>1, <1>2, <1>3, <1>4 DEF EndsAt

(* A string has one end. *)
LEMMA OneEnd ==
  ASSUME NEW m, NEW i \in Int, NEW e \in Int, NEW f \in Int, EndsAt(m, i, e), EndsAt(m, i, f)
  PROVE  e = f
<1>1. e \in i..Len(m) /\ m[e] = NUL /\ \A j \in i..e - 1 : m[j] # NUL
  BY DEF EndsAt
<1>2. f \in i..Len(m) /\ m[f] = NUL /\ \A j \in i..f - 1 : m[j] # NUL
  BY DEF EndsAt
<1>3. ~(e < f)
  <2>1. e < f => e \in i..f - 1
    BY <1>1, <1>2
  <2> QED BY <1>1, <1>2, <2>1
<1>4. ~(f < e)
  <2>1. f < e => f \in i..e - 1
    BY <1>1, <1>2
  <2> QED BY <1>1, <1>2, <2>1
<1> QED BY <1>3, <1>4

(* strtrim of a text with its NUL behind it. *)
LEMMA Trimmed ==
  ASSUME NEW C, NEW T \in Seq(C), NUL \notin C, NEW m, m = Append(T, NUL)
  PROVE  \E e : IsTrimmed(T, C, strtrim(m, 1).at, strtrim(m, 1).mem, e)
<1>1. PICK n \in Nat : n = Len(T)
  OBVIOUS
<1>2. /\ m \in Seq(C \cup {NUL}) /\ Len(m) = n + 1 /\ m[n + 1] = NUL
      /\ \A j \in 1..n : m[j] = T[j] /\ m[j] # NUL
  BY <1>1
<1>3. NUL \notin Space
  BY DEF NUL, TAB, Space
<1>4. PICK b : b = FirstNotIn(m, 1, Space)
  OBVIOUS
<1>5. /\ b \in 1..n + 1 /\ m[b] \notin Space
      /\ \A j \in 1..n + 1 : m[j] \notin Space => b <= j
  <2> DEFINE S == {j \in 1..n + 1 : m[j] \notin Space}
  <2>1. S \subseteq Nat /\ n + 1 \in S
    BY <1>2, <1>3
  <2>2. b = Min(S)
    BY <1>2, <1>4 DEF FirstNotIn
  <2> HIDE DEF S
  <2>3. b \in S /\ \A j \in S : b <= j
    BY <2>1, <2>2, HasMin
  <2> QED BY <2>3 DEF S
<1>6. StrEnd(m, b) = n + 1
  <2>1. EndsAt(m, b, n + 1)
    BY <1>2, <1>5 DEF EndsAt
  <2>2. Len(m) \in Nat /\ b \in Int
    BY <1>2, <1>5
  <2> QED BY <2>1, <2>2, StrEndIs
<1>7. PICK z : z = Max({j \in b..n : m[j] \notin Space} \cup {b - 1})
  OBVIOUS
<1>8. strtrim(m, 1) = [at |-> b, mem |-> IF m[b] = NUL THEN m ELSE [m EXCEPT ![z + 1] = NUL]]
  <2>1. StrEnd(m, b) - 1 = n
    BY <1>6
  <2>2. z = Max({j \in b..StrEnd(m, b) - 1 : m[j] \notin Space} \cup {b - 1})
    BY <1>7, <2>1
  <2> HIDE DEF StrEnd, FirstNotIn
  <2> QED BY <1>4, <2>2, Zenon DEF strtrim, Trim
<1>9. CASE m[b] = NUL
  <2>1. b = n + 1
    BY <1>2, <1>5, <1>9
  <2>2. EndsAt(m, b, n + 1)
    BY <1>2, <2>1 DEF EndsAt
  <2>3. \A j \in 1..Len(T) : T[j] \in Space
    BY <1>1, <1>2, <1>5, <2>1
  <2>4. strtrim(m, 1).at = b /\ strtrim(m, 1).mem = m
    BY <1>8, <1>9
  <2>5. n + 1 \in b..n + 1
    BY <2>1
  <2>6. IsTrimmed(T, C, b, m, n + 1)
    BY <1>1, <1>2, <1>5, <2>2, <2>3, <2>5 DEF IsTrimmed
  <2> QED BY <2>4, <2>6
<1>10. CASE m[b] # NUL
  <2>1. b \in 1..n
    BY <1>2, <1>5, <1>10
  <2>2. z \in b..n /\ \A j \in b..n : m[j] \notin Space => j <= z
    <3> DEFINE S == {j \in b..n : m[j] \notin Space} \cup {b - 1}
    <3>1. S \subseteq 0..n /\ b \in S
      <4>1. b \in b..n /\ b..n \subseteq 0..n /\ b - 1 \in 0..n
        BY <2>1
      <4> QED BY <1>5, <4>1
    <3>2. z = Max(S)
      BY <1>7
    <3> HIDE DEF S
    <3>3. z \in S /\ \A j \in S : j <= z
      BY <3>1, <3>2, HasMax
    <3>4. b <= z
      BY <3>1, <3>3
    <3>5. z \in b..n
      <4>1. z # b - 1
        BY <2>1, <3>4
      <4> QED BY <3>3, <4>1 DEF S
    <3> QED BY <3>3, <3>5 DEF S
  <2>3. PICK m2 : m2 = [m EXCEPT ![z + 1] = NUL]
    OBVIOUS
  <2>4. z + 1 \in 1..n + 1 /\ z + 1 \in b..n + 1
    BY <2>1, <2>2
  <2>5. /\ m2 \in Seq(C \cup {NUL}) /\ Len(m2) = n + 1 /\ m2[z + 1] = NUL
        /\ \A j \in 1..n + 1 : j # z + 1 => m2[j] = m[j]
    <3>1. PICK D : D = C \cup {NUL}
      OBVIOUS
    <3>2. PICK q : q = z + 1
      OBVIOUS
    <3>3. NUL \in D /\ m \in Seq(D) /\ q \in 1..Len(m) /\ m2 = [m EXCEPT ![q] = NUL]
      BY <1>2, <2>3, <2>4, <3>1, <3>2
    <3>4. IsCut(D, m, q, m2)
      BY <3>3, CutArray
    <3> QED BY <1>2, <3>1, <3>2, <3>4 DEF IsCut
  <2>6. EndsAt(m2, b, z + 1)
    <3>1. \A j \in b..(z + 1) - 1 : j \in 1..n /\ j \in 1..n + 1 /\ j # z + 1
      BY <2>1, <2>2
    <3> QED BY <1>2, <2>4, <2>5, <3>1 DEF EndsAt
  <2>7. \A j \in 1..n : m2[j] = T[j] \/ (m2[j] = NUL /\ T[j] \in Space)
    <3> SUFFICES ASSUME NEW j \in 1..n PROVE m2[j] = T[j] \/ (m2[j] = NUL /\ T[j] \in Space)
      OBVIOUS
    <3>1. CASE j # z + 1
      BY <1>2, <2>5, <3>1
    <3>2. CASE j = z + 1
      <4>1. j \in b..n /\ ~(j <= z)
        BY <2>1, <2>2, <3>2
      <4>2. m[j] \in Space
        BY <2>2, <4>1
      <4> QED BY <1>2, <2>5, <3>2, <4>2
    <3> QED BY <3>1, <3>2
  <2>8. \A j \in 1..n : T[j] \notin Space => b <= j /\ j < z + 1
    <3> SUFFICES ASSUME NEW j \in 1..n, T[j] \notin Space PROVE b <= j /\ j < z + 1
      OBVIOUS
    <3>1. m[j] \notin Space /\ b <= j
      BY <1>2, <1>5
    <3>2. j \in b..n
      BY <2>1, <3>1
    <3>3. j <= z
      BY <2>2, <3>1, <3>2
    <3> QED BY <2>2, <3>1, <3>3
  <2>9. strtrim(m, 1).at = b /\ strtrim(m, 1).mem = m2
    <3>1. (IF m[b] = NUL THEN m ELSE [m EXCEPT ![z + 1] = NUL]) = m2
      BY <1>10, <2>3
    <3>2. strtrim(m, 1) = [at |-> b, mem |-> m2]
      BY <1>8, <3>1
    <3> QED BY <3>2
  <2>10. IsTrimmed(T, C, b, m2, z + 1)
    BY <1>1, <1>5, <2>4, <2>5, <2>6, <2>7, <2>8 DEF IsTrimmed
  <2> QED BY <2>9, <2>10
<1> QED BY <1>9, <1>10

-----------------------------------------------------------------------------
(* What a step of fgen_strqtok before its end has to keep. *)
Goes == pc = "qtok" /\ Array /\ Tokens /\ Word /\ Scan

(* fgen_strqtok trims the text and starts to read it. *)
LEMMA BeginStep ==
  ASSUME QtokInv, Quoting, fgen_strqtok
  PROVE  Goes'
<1>1. /\ call \in Calls /\ mem = Append(call.text, NUL) /\ toks = <<>> /\ state = "WORD"
      /\ call' = call /\ toks' = toks /\ state' = state /\ pc' = "qtok"
  BY DEF QtokInv, fgen_strqtok
<1>2. /\ mem' = strtrim(mem, 1).mem /\ p' = strtrim(mem, 1).at /\ start' = strtrim(mem, 1).at
  BY DEF fgen_strqtok
<1>3. PICK T, C : T = call.text /\ C = Range(call.text)
  OBVIOUS
<1>4. /\ T \in Seq(C) /\ Len(T) \in Nat /\ NUL \notin C /\ MaxTokens \in Nat /\ MaxTokens >= 1
      /\ \A j \in 1..Len(T) : T[j] \in C
  BY <1>1, <1>3, CallFacts
<1>5. PICK e : IsTrimmed(T, C, p', mem', e)
  BY <1>1, <1>2, <1>3, <1>4, Trimmed
<1>6. /\ p' \in 1..Len(T) + 1 /\ e \in p'..Len(T) + 1
      /\ mem' \in Seq(C \cup {NUL}) /\ Len(mem') = Len(T) + 1
      /\ EndsAt(mem', p', e)
      /\ \A j \in 1..Len(T) : mem'[j] = T[j] \/ (mem'[j] = NUL /\ T[j] \in Space)
      /\ \A j \in 1..Len(T) : T[j] \notin Space => p' <= j /\ j < e
  BY <1>5 DEF IsTrimmed
<1>7. Kept' = {c \in 1..Len(T) : T[c] \notin Delim \cup Space \cup Range(Opens) \cup Range(Closes)}
  BY <1>1, <1>3 DEF Kept
<1>8. Array'
  BY <1>1, <1>3, <1>6, <1>7 DEF Array
<1>9. toks' = <<>> /\ Len(toks') = 0 /\ toks' \in Seq(1..Len(mem'))
  BY <1>1
<1>10. Tokens'
  BY <1>4, <1>9 DEF Tokens, Apart
<1>11. start' \in 1..p' /\ \A j \in start'..p' - 1 : FALSE
  BY <1>2, <1>4, <1>6
<1>12. Word'
  BY <1>9, <1>11 DEF Word
<1>13. \A c \in Kept' : c < e /\ ~(c < p')
  BY <1>4, <1>6, <1>7
<1>14. Scan'
  BY <1>1, <1>4, <1>6, <1>13 DEF Scan, States
<1> QED BY <1>1, <1>8, <1>10, <1>12, <1>14 DEF Goes

(* What a turn of the loop knows before it moves on by a character. *)
LEMMA Turn ==
  ASSUME QtokInv, Quoting, InLoop
  PROVE  /\ call \in Calls /\ Array /\ Tokens /\ Word /\ Scan
         /\ Len(mem) \in Nat /\ p \in 1..Len(mem) /\ p + 1 \in 1..Len(mem)
         /\ mem[p] # NUL /\ Len(toks) \in Nat /\ Len(toks) < MaxTokens /\ MaxTokens \in Nat
         /\ p \in Kept => mem[p] = call.text[p]
         /\ \E e \in p + 1..Len(mem) : EndsAt(mem, p + 1, e) /\ \A c \in Kept : c < e
<1>1. pc = "qtok" /\ Len(toks) < MaxTokens /\ mem[p] # NUL
  BY DEF InLoop
<1>2. call \in Calls /\ Array /\ Tokens /\ Word /\ Scan
  BY <1>1 DEF QtokInv
<1>3. MaxTokens \in Nat /\ Len(call.text) \in Nat
  BY <1>2, CallFacts
<1>4. Len(mem) \in Nat /\ p \in 1..Len(mem) /\ Len(toks) \in Nat
  BY <1>2, <1>3 DEF Array, Scan, Tokens
<1>5. PICK e \in p..Len(mem) : EndsAt(mem, p, e) /\ \A c \in Kept : c < e
  BY <1>2 DEF Scan
<1>6. e # p
  BY <1>1, <1>5 DEF EndsAt
<1>7. e \in p + 1..Len(mem) /\ p + 1 \in 1..Len(mem)
  BY <1>4, <1>5, <1>6
<1>8. EndsAt(mem, p + 1, e)
  <2>1. \A j \in p + 1..e - 1 : j \in p..e - 1
    BY <1>4, <1>7
  <2> QED BY <1>5, <1>7, <2>1 DEF EndsAt
<1>9. p \in Kept => mem[p] = call.text[p]
  BY <1>2 DEF Array
<1> QED BY <1>1, <1>2, <1>3, <1>4, <1>5, <1>7, <1>8, <1>9

(* Between two tokens. *)
LEMMA InitStep ==
  ASSUME QtokInv, Quoting, QtokInit
  PROVE  Goes'
<1>1. /\ InLoop /\ state = "INIT" /\ p' = p + 1
      /\ mem' = mem /\ toks' = toks /\ call' = call /\ pc' = "qtok"
  BY DEF QtokInit, InLoop
<1>2. /\ call \in Calls /\ Array /\ Tokens /\ Scan
      /\ Len(mem) \in Nat /\ p \in 1..Len(mem) /\ p + 1 \in 1..Len(mem)
      /\ mem[p] # NUL /\ Len(toks) \in Nat /\ Len(toks) < MaxTokens /\ MaxTokens \in Nat
      /\ p \in Kept => mem[p] = call.text[p]
      /\ \E e \in p + 1..Len(mem) : EndsAt(mem, p + 1, e) /\ \A c \in Kept : c < e
  BY <1>1, Turn
<1>3. Kept' = Kept /\ Kept \subseteq Int
  BY <1>1 DEF Kept
<1>4. Array'
  BY <1>1, <1>2, <1>3 DEF Array
<1>5. \A i \in 1..Len(toks) : toks[i] \in Int
  BY <1>2 DEF Tokens
<1>6. \A i \in 1..Len(toks) : EndsBefore(mem, toks[i], p) /\ EndsBefore(mem, toks[i], p + 1)
  <2> SUFFICES ASSUME NEW i \in 1..Len(toks)
               PROVE  EndsBefore(mem, toks[i], p) /\ EndsBefore(mem, toks[i], p + 1)
    OBVIOUS
  <2>1. EndsBefore(mem, toks[i], p) /\ toks[i] \in Int
    BY <1>2, <1>5 DEF Tokens
  <2>2. p \in Int /\ p + 1 \in Int /\ p <= p + 1
    BY <1>2
  <2> QED BY <2>1, <2>2, Wider
<1>7. Tokens'
  BY <1>1, <1>2, <1>6 DEF Tokens
<1>8. \A c \in Kept : c < p => InToken(mem, toks, c)
  BY <1>1, <1>2 DEF Scan, Covered
<1>e. /\ p' \in 1..Len(mem')
      /\ \E e \in p'..Len(mem') : EndsAt(mem', p', e) /\ \A c \in Kept' : c < e
  BY <1>1, <1>2, <1>3
<1>f. \A c \in Kept : c < p + 1 => c < p \/ (c = p /\ p <= c)
  <2>1. p \in Int
    BY <1>2
  <2> QED BY <1>3, <2>1
<1>9. CASE \E s \in DOMAIN Opens : mem[p] = Opens[s] /\ state' = s /\ start' = p + 1
  <2>1. state' \in States /\ state' # "INIT" /\ mem[p] \in Range(Opens)
    BY <1>9, QuoteFacts
  <2>2. p \notin Kept
    BY <1>2, <2>1 DEF Kept
  <2>3. \A c \in Kept : c < p + 1 => InToken(mem, toks, c)
    BY <1>8, <1>f, <2>2, Zenon
  <2>4. start' \in 1..p' /\ \A j \in start'..p' - 1 : FALSE
    BY <1>1, <1>2, <1>9
  <2>5. Word'
    BY <1>1, <1>6, <1>9, <2>4 DEF Word
  <2>6. \A c \in Kept' : c < p' => Covered(mem, toks, c)'
    BY <1>1, <1>3, <2>3 DEF Covered
  <2>7. Scan'
    BY <1>e, <2>1, <2>6 DEF Scan
  <2> QED BY <1>1, <1>4, <1>7, <2>5, <2>7 DEF Goes
<1>10. CASE mem[p] \notin Range(Opens) \cup Delim /\ state' = "WORD" /\ start' = WordAt(p)
  <2>1. start' = p /\ state' = "WORD"
    BY <1>10 DEF WordAt
  <2>2. start' \in 1..p' /\ \A j \in start'..p' - 1 : j = p
    BY <1>1, <1>2, <2>1
  <2>3. Word'
    BY <1>1, <1>2, <1>6, <2>1, <2>2 DEF Word
  <2>4. \A c \in Kept : c < p + 1 => InToken(mem, toks, c) \/ p <= c
    BY <1>8, <1>f, Zenon
  <2>5. \A c \in Kept' : c < p' => Covered(mem, toks, c)'
    BY <1>1, <1>3, <2>1, <2>4 DEF Covered
  <2>6. Scan'
    BY <1>e, <2>1, <2>5 DEF Scan, States
  <2> QED BY <1>1, <1>4, <1>7, <2>3, <2>6 DEF Goes
<1>11. CASE mem[p] \in Delim \ Range(Opens) /\ state' = state /\ start' = start
  <2>1. p \notin Kept
    BY <1>2, <1>11 DEF Kept
  <2>2. \A c \in Kept : c < p + 1 => InToken(mem, toks, c)
    BY <1>8, <1>f, <2>1, Zenon
  <2>3. Word'
    BY <1>1, <1>11 DEF Word
  <2>4. \A c \in Kept' : c < p' => Covered(mem, toks, c)'
    BY <1>1, <1>3, <2>2 DEF Covered
  <2>5. Scan'
    BY <1>1, <1>e, <1>11, <2>4 DEF Scan, States
  <2> QED BY <1>1, <1>4, <1>7, <2>3, <2>5 DEF Goes
<1> QED BY <1>9, <1>10, <1>11 DEF QtokInit

(* In a word or a quoted text that goes on. *)
LEMMA StayStep ==
  ASSUME QtokInv, Quoting, QtokInside, ~EndsToken(mem[p])
  PROVE  Goes'
<1>1. /\ InLoop /\ state # "INIT" /\ p' = p + 1 /\ call' = call /\ pc' = "qtok"
      /\ mem' = mem /\ toks' = toks /\ state' = state /\ start' = start
  BY DEF QtokInside, InLoop
<1>2. /\ Array /\ Tokens /\ Word /\ Scan
      /\ Len(mem) \in Nat /\ p \in 1..Len(mem) /\ p + 1 \in 1..Len(mem)
      /\ mem[p] # NUL /\ Len(toks) \in Nat /\ Len(toks) < MaxTokens /\ MaxTokens \in Nat
      /\ \E e \in p + 1..Len(mem) : EndsAt(mem, p + 1, e) /\ \A c \in Kept : c < e
  BY <1>1, Turn
<1>3. Kept' = Kept /\ Kept \subseteq Int
  BY <1>1 DEF Kept
<1>4. Array'
  BY <1>1, <1>2, <1>3 DEF Array
<1>5. \A i \in 1..Len(toks) : EndsBefore(mem, toks[i], p + 1)
  <2> SUFFICES ASSUME NEW i \in 1..Len(toks) PROVE EndsBefore(mem, toks[i], p + 1)
    OBVIOUS
  <2>1. EndsBefore(mem, toks[i], p) /\ toks[i] \in Int
    BY <1>2 DEF Tokens
  <2>2. p \in Int /\ p + 1 \in Int /\ p <= p + 1
    BY <1>2
  <2> QED BY <2>1, <2>2, Wider
<1>6. Tokens'
  BY <1>1, <1>2, <1>5 DEF Tokens
<1>7. /\ start \in 1..p /\ \A j \in start..p - 1 : mem[j] # NUL
      /\ \A i \in 1..Len(toks) : EndsBefore(mem, toks[i], start)
  BY <1>1, <1>2 DEF Word
<1>8. start \in 1..p + 1 /\ \A j \in start..(p + 1) - 1 : j \in start..p - 1 \/ j = p
  BY <1>2, <1>7
<1>9. \A j \in start..(p + 1) - 1 : mem[j] # NUL
  BY <1>2, <1>7, <1>8
<1>10. Word'
  BY <1>1, <1>7, <1>8, <1>9 DEF Word
<1>11. \A c \in Kept : c < p + 1 => c < p \/ start <= c
  <2>1. p \in Int /\ start \in Int /\ start <= p
    BY <1>2, <1>7
  <2> QED BY <1>3, <2>1
<1>12. \A c \in Kept : c < p + 1 => InToken(mem, toks, c) \/ start <= c
  <2>1. \A c \in Kept : c < p => InToken(mem, toks, c) \/ start <= c
    BY <1>2 DEF Scan, Covered
  <2> QED BY <1>11, <2>1, Zenon
<1>13. /\ p' \in 1..Len(mem')
       /\ \E e \in p'..Len(mem') : EndsAt(mem', p', e) /\ \A c \in Kept' : c < e
  BY <1>1, <1>2, <1>3
<1>14. \A c \in Kept' : c < p' => Covered(mem, toks, c)'
  BY <1>1, <1>3, <1>12 DEF Covered
<1>15. Scan'
  BY <1>1, <1>2, <1>13, <1>14 DEF Scan
<1> QED BY <1>1, <1>4, <1>6, <1>10, <1>15 DEF Goes

(* A word or a quoted text that ends becomes a token: the array is cut at  *)
(* its end, and the tokens found before it keep theirs.                    *)
LEMMA CutStep ==
  ASSUME QtokInv, Quoting, QtokInside, EndsToken(mem[p])
  PROVE  Goes'
<1>1. /\ InLoop /\ state # "INIT" /\ p' = p + 1 /\ call' = call /\ pc' = "qtok"
      /\ mem' = [mem EXCEPT ![p] = NUL] /\ toks' = Append(toks, start) /\ state' = "INIT"
  BY DEF QtokInside, InLoop
<1>2. /\ call \in Calls /\ Array /\ Tokens /\ Word /\ Scan
      /\ Len(mem) \in Nat /\ p \in 1..Len(mem) /\ p + 1 \in 1..Len(mem)
      /\ mem[p] # NUL /\ Len(toks) \in Nat /\ Len(toks) < MaxTokens /\ MaxTokens \in Nat
      /\ p \in Kept => mem[p] = call.text[p]
      /\ \E e \in p + 1..Len(mem) : EndsAt(mem, p + 1, e) /\ \A c \in Kept : c < e
  BY <1>1, Turn
<1>3. Kept' = Kept /\ Kept \subseteq 1..Len(call.text)
  BY <1>1 DEF Kept
<1>4. PICK q \in Nat, n \in Nat, L \in Nat : q = p /\ n = Len(toks) /\ L = Len(mem)
  <2>1. Len(mem) \in Nat /\ p \in Nat /\ Len(toks) \in Nat
    BY <1>2
  <2> QED BY <2>1
<1>5. q \in 1..L /\ q + 1 \in 1..L /\ n < MaxTokens
  BY <1>2, <1>4
<1>6. p \notin Kept
  <2>1. mem[p] \in Delim \cup Range(Closes)
    <3>1. state \in States
      BY <1>2 DEF Scan
    <3> QED BY <1>1, <3>1, QuoteFacts DEF EndsToken
  <2> QED BY <1>2, <2>1 DEF Kept
<1>7. PICK D : D = Range(call.text) \cup {NUL}
  OBVIOUS
<1>8. IsCut(D, mem, p, mem')
  <2>1. NUL \in D /\ mem \in Seq(D)
    BY <1>2, <1>7 DEF Array
  <2> QED BY <1>1, <1>2, <2>1, CutArray
<1>9. /\ mem' \in Seq(D) /\ Len(mem') = L /\ mem'[q] = NUL
      /\ \A j \in 1..L : j # q => mem'[j] = mem[j]
  BY <1>4, <1>8 DEF IsCut
<1>10. Array'
  <2>1. L = Len(call.text) + 1 /\ Len(call.text) \in Nat
    BY <1>2, <1>4, CallFacts DEF Array
  <2>2. \A j \in 1..Len(call.text) : j \in 1..L
    BY <2>1
  <2>3. \A j \in 1..Len(call.text) : mem'[j] \in {call.text[j], NUL}
    BY <1>2, <1>9, <2>2 DEF Array
  <2>4. \A c \in Kept : c \in 1..L /\ c # q
    BY <1>3, <1>4, <1>6, <2>2
  <2>5. \A c \in Kept : mem'[c] = call.text[c]
    BY <1>2, <1>9, <2>4 DEF Array
  <2> QED BY <1>1, <1>3, <1>7, <1>9, <2>1, <2>3, <2>5 DEF Array
<1>11. PICK w \in 1..q : /\ w = start
                         /\ \A j \in w..q - 1 : mem[j] # NUL
                         /\ \A i \in 1..n : EndsBefore(mem, toks[i], w)
  BY <1>1, <1>2, <1>4 DEF Word
<1>12. /\ \A i \in 1..n : toks[i] \in 1..L
       /\ \A i \in 1..n : EndsBefore(mem, toks[i], q)
       /\ \A i, j \in 1..n : i < j => EndsBefore(mem, toks[i], toks[j])
  BY <1>2, <1>4 DEF Tokens, Apart
<1>13. /\ Len(toks') = n + 1 /\ toks'[n + 1] = w /\ \A i \in 1..n : toks'[i] = toks[i]
       /\ toks' \in Seq(1..L)
  <2>1. w \in 1..L
    BY <1>5, <1>11
  <2> QED BY <1>1, <1>2, <1>4, <1>11, <2>1 DEF Tokens
<1>14. EndsAt(mem', w, q)
  <2>1. q \in w..L /\ \A j \in w..q - 1 : j \in 1..L /\ j # q
    BY <1>5, <1>11
  <2> QED BY <1>9, <1>11, <2>1 DEF EndsAt
<1>15. ASSUME NEW i \in 1..n, NEW e \in Int, e < q, EndsAt(mem, toks[i], e)
       PROVE  EndsAt(mem', toks[i], e)
  <2>1. toks[i] \in Nat /\ toks[i] >= 1
    BY <1>12
  <2> QED BY <1>2, <1>4, <1>8, <1>15, <2>1, CutKeeps
<1>16. ASSUME NEW i \in 1..n, NEW hi \in Int, hi <= q, EndsBefore(mem, toks[i], hi)
       PROVE  EndsBefore(mem', toks[i], hi)
  <2>1. PICK e \in toks[i]..hi - 1 : EndsAt(mem, toks[i], e)
    BY <1>16 DEF EndsBefore
  <2>2. e \in Int /\ e < q
    BY <1>12, <1>16, <2>1
  <2>3. EndsAt(mem', toks[i], e)
    BY <1>15, <2>1, <2>2
  <2> QED BY <2>3 DEF EndsBefore
<1>17. Tokens'
  <2>1. ASSUME NEW i \in 1..n + 1 PROVE EndsBefore(mem', toks'[i], q + 1)
    <3>1. CASE i \in 1..n
      <4>1. EndsBefore(mem', toks[i], q)
        BY <1>12, <1>16, <3>1
      <4>2. toks[i] \in Int /\ q <= q + 1
        BY <1>12, <3>1
      <4>3. EndsBefore(mem', toks[i], q + 1)
        BY <4>1, <4>2, Wider
      <4> QED BY <1>13, <3>1, <4>3
    <3>2. CASE i = n + 1
      <4>1. q \in w..(q + 1) - 1
        BY <1>11
      <4> QED BY <1>13, <1>14, <3>2, <4>1 DEF EndsBefore
    <3> QED BY <3>1, <3>2
  <2>2. ASSUME NEW i \in 1..n + 1, NEW j \in 1..n + 1, i < j
        PROVE  EndsBefore(mem', toks'[i], toks'[j])
    <3>1. i \in 1..n
      BY <2>2
    <3>2. CASE j \in 1..n
      <4>1. EndsBefore(mem, toks[i], toks[j]) /\ EndsBefore(mem, toks[j], q) /\ toks[j] \in Int
        BY <1>12, <2>2, <3>1, <3>2
      <4>2. toks[j] <= q
        BY <4>1 DEF EndsBefore
      <4>3. EndsBefore(mem', toks[i], toks[j])
        BY <1>16, <3>1, <4>1, <4>2
      <4> QED BY <1>13, <3>1, <3>2, <4>3
    <3>3. CASE j = n + 1
      <4>1. EndsBefore(mem, toks[i], w) /\ w \in Int /\ w <= q
        BY <1>11, <3>1
      <4>2. EndsBefore(mem', toks[i], w)
        BY <1>16, <3>1, <4>1
      <4> QED BY <1>13, <3>1, <3>3, <4>2
    <3> QED BY <3>2, <3>3
  <2>3. Apart(mem', toks')
    BY <1>13, <2>2 DEF Apart
  <2>4. Len(toks') <= MaxTokens
    BY <1>2, <1>5, <1>13
  <2>5. \A i \in 1..Len(toks') : EndsBefore(mem', toks'[i], p')
    BY <1>1, <1>4, <1>13, <2>1
  <2> QED BY <1>1, <1>9, <1>13, <2>3, <2>4, <2>5 DEF Tokens
<1>18. Word'
  BY <1>1 DEF Word
<1>19. ASSUME NEW c \in Kept, c < q + 1
       PROVE  InToken(mem', toks', c)
  <2>1. c \in Int /\ c < q
    BY <1>3, <1>4, <1>6, <1>19
  <2>2. CASE InToken(mem, toks, c)
    <3>1. PICK i \in 1..n, e \in c + 1..L : EndsAt(mem, toks[i], e) /\ toks[i] <= c
      BY <1>4, <2>2 DEF InToken
    <3>2. PICK f \in toks[i]..q - 1 : EndsAt(mem, toks[i], f)
      BY <1>12 DEF EndsBefore
    <3>3. toks[i] \in Int /\ e \in Int /\ f \in Int /\ f < q
      BY <1>12, <2>1, <3>1, <3>2
    <3>4. e = f
      BY <3>1, <3>2, <3>3, OneEnd
    <3>5. EndsAt(mem', toks[i], e)
      BY <1>15, <3>1, <3>3, <3>4
    <3>6. i \in 1..n + 1 /\ toks'[i] = toks[i]
      BY <1>13
    <3> QED BY <1>9, <1>13, <3>1, <3>5, <3>6 DEF InToken
  <2>3. CASE w <= c
    <3>1. n + 1 \in 1..n + 1 /\ q \in c + 1..L
      BY <1>5, <2>1
    <3> QED BY <1>9, <1>13, <1>14, <2>3, <3>1 DEF InToken
  <2>4. InToken(mem, toks, c) \/ w <= c
    <3>1. c < p
      BY <1>4, <2>1
    <3> QED BY <1>2, <1>11, <3>1 DEF Scan, Covered
  <2> QED BY <2>2, <2>3, <2>4
<1>20. PICK e \in q + 1..L : EndsAt(mem, q + 1, e) /\ \A c \in Kept : c < e
  BY <1>2, <1>4
<1>21. EndsAt(mem', q + 1, e)
  <2>1. \A j \in q + 1..e : j \in 1..L /\ j # q
    BY <1>5, <1>20
  <2>2. e \in q + 1..e /\ \A j \in q + 1..e - 1 : j \in q + 1..e
    BY <1>5, <1>20
  <2> QED BY <1>4, <1>9, <1>20, <2>1, <2>2 DEF EndsAt
<1>22. Scan'
  <2>1. \A c \in Kept' : c < p' => Covered(mem, toks, c)'
    BY <1>1, <1>3, <1>4, <1>19 DEF Covered
  <2>2. /\ p' \in 1..Len(mem')
        /\ \E f \in p'..Len(mem') : EndsAt(mem', p', f) /\ \A c \in Kept' : c < f
    BY <1>1, <1>3, <1>4, <1>5, <1>9, <1>20, <1>21
  <2> QED BY <1>1, <2>1, <2>2 DEF Scan, States
<1> QED BY <1>1, <1>10, <1>17, <1>18, <1>22 DEF Goes

-----------------------------------------------------------------------------
(* Tokens that end one before the other begin in order, and a character in *)
(* one of them is in no other.                                             *)
LEMMA Once ==
  ASSUME NEW m, Len(m) \in Nat, NEW ts \in Seq(1..Len(m)), Apart(m, ts),
         \A i \in 1..Len(ts) : \E e \in Int : EndsAt(m, ts[i], e)
  PROVE  /\ \A i, j \in 1..Len(ts) : i < j => ts[i] < ts[j]
         /\ \A c \in Int : InToken(m, ts, c) =>
              Cardinality({i \in 1..Len(ts) : c \in ts[i]..StrEnd(m, ts[i]) - 1}) = 1
<1>1. PICK n \in Nat : n = Len(ts)
  OBVIOUS
<1>2. \A i \in 1..n : ts[i] \in Int
  BY <1>1
<1>3. ASSUME NEW i \in 1..n, NEW j \in 1..n, i < j
      PROVE  \E e \in ts[i]..ts[j] - 1 : e = StrEnd(m, ts[i])
  <2>1. PICK e \in ts[i]..ts[j] - 1 : EndsAt(m, ts[i], e)
    BY <1>1, <1>3 DEF Apart, EndsBefore
  <2> QED BY <1>2, <2>1, StrEndIs
<1>4. ASSUME NEW i \in 1..n, NEW j \in 1..n, i < j PROVE ts[i] < ts[j]
  BY <1>2, <1>3, <1>4
<1>5. ASSUME NEW c \in Int, InToken(m, ts, c)
      PROVE  Cardinality({i \in 1..n : c \in ts[i]..StrEnd(m, ts[i]) - 1}) = 1
  <2>1. PICK k \in 1..n : \E e \in c + 1..Len(m) : EndsAt(m, ts[k], e) /\ ts[k] <= c
    BY <1>1, <1>5 DEF InToken
  <2>2. PICK e \in c + 1..Len(m) : EndsAt(m, ts[k], e) /\ ts[k] <= c
    BY <2>1
  <2>3. StrEnd(m, ts[k]) = e
    BY <1>2, <2>2, StrEndIs
  <2>4. c \in ts[k]..StrEnd(m, ts[k]) - 1
    BY <1>2, <2>2, <2>3
  <2>5. ASSUME NEW i \in 1..n, i # k PROVE c \notin ts[i]..StrEnd(m, ts[i]) - 1
    <3>1. CASE i < k
      <4>1. PICK f \in ts[i]..ts[k] - 1 : f = StrEnd(m, ts[i])
        BY <1>3, <3>1
      <4> QED BY <1>2, <2>2, <4>1
    <3>2. CASE k < i
      <4>1. PICK f \in ts[k]..ts[i] - 1 : f = StrEnd(m, ts[k])
        BY <1>3, <3>2
      <4>2. c < ts[i]
        BY <1>2, <2>2, <2>3, <4>1
      <4> QED BY <1>2, <4>2
    <3> QED BY <2>5, <3>1, <3>2
  <2>6. {i \in 1..n : c \in ts[i]..StrEnd(m, ts[i]) - 1} = {k}
    BY <2>4, <2>5
  <2> QED BY <2>6, FS_Singleton
<1> QED BY <1>1, <1>4, <1>5

(* What the end of the call needs of the tokens ts. *)
Final(ts) ==
  /\ ts \in Seq(1..Len(mem)) /\ Apart(mem, ts)
  /\ \A i \in 1..Len(ts) : \E e \in Int : EndsAt(mem, ts[i], e)
  /\ \A c \in Kept : \/ InToken(mem, ts, c)
                     \/ Len(ts) = MaxTokens /\ EndsBefore(mem, ts[Len(ts)], c)

(* fgen_strqtok returns them. *)
LEMMA FinalOnce ==
  ASSUME call \in Calls, Array, NEW ts, Final(ts),
         mem' = mem, call' = call, toks' = ts, ret' = Len(ts)
  PROVE  EachCharOnce'
<1>1. PICK n \in Nat, L \in Nat : n = Len(ts) /\ L = Len(mem)
  <2>1. Len(mem) \in Nat
    BY CallFacts DEF Array
  <2> QED BY <2>1 DEF Final
<1>2. /\ \A i, j \in 1..n : i < j => ts[i] < ts[j]
      /\ \A c \in Int : InToken(mem, ts, c) =>
           Cardinality({i \in 1..n : c \in ts[i]..StrEnd(mem, ts[i]) - 1}) = 1
  BY <1>1, Once DEF Final
<1>3. ASSUME NEW c \in Kept
      PROVE  \/ Cardinality({i \in 1..n : c \in ts[i]..StrEnd(mem, ts[i]) - 1}) = 1
             \/ n = MaxTokens /\ c > StrEnd(mem, ts[n])
  <2>1. c \in Int
    BY DEF Kept
  <2>2. CASE InToken(mem, ts, c)
    BY <1>2, <2>1, <2>2
  <2>3. CASE n = MaxTokens /\ EndsBefore(mem, ts[n], c)
    <3>1. n \in 1..n /\ ts[n] \in Int
      <4>1. n \in 1..n
        BY <1>1, <2>3, CallFacts
      <4> QED BY <1>1, <4>1 DEF Final
    <3>2. PICK e \in ts[n]..c - 1 : EndsAt(mem, ts[n], e)
      BY <2>3 DEF EndsBefore
    <3>3. StrEnd(mem, ts[n]) = e
      BY <1>1, <3>1, <3>2, StrEndIs
    <3> QED BY <2>1, <2>3, <3>1, <3>2, <3>3
  <2> QED BY <1>1, <2>2, <2>3 DEF Final
<1>4. \A c \in 1..Len(call.text) :
        call.text[c] \notin Delim \cup Space \cup Range(Opens) \cup Range(Closes) => c \in Kept
  BY DEF Kept
<1>5. \A i : Extent(i)' = ts[i]..StrEnd(mem, ts[i]) - 1
  BY DEF Extent
<1> QED BY <1>1, <1>2, <1>3, <1>4, <1>5 DEF EachCharOnce

(* The end of the call: what is being read becomes the last token. *)
LEMMA EndStep ==
  ASSUME QtokInv, Quoting, QtokEnd
  PROVE  Array' /\ EachCharOnce' /\ pc' = "done"
<1>1. /\ pc = "qtok" /\ ~InLoop /\ mem' = mem /\ call' = call /\ pc' = "done"
      /\ toks' = IF state # "INIT" /\ Len(toks) < MaxTokens THEN Append(toks, start) ELSE toks
      /\ ret' = Len(toks')
  BY DEF QtokEnd
<1>2. call \in Calls /\ Array /\ Tokens /\ Word /\ Scan
  BY <1>1 DEF QtokInv
<1>3. Kept' = Kept /\ Kept \subseteq Int
  BY <1>1 DEF Kept
<1>4. Array'
  BY <1>1, <1>2, <1>3 DEF Array
<1>5. PICK q \in Nat, n \in Nat, L \in Nat : q = p /\ n = Len(toks) /\ L = Len(mem)
  <2>1. Len(mem) \in Nat
    BY <1>2, CallFacts DEF Array
  <2>2. p \in Nat
    BY <1>2, <2>1 DEF Scan
  <2>3. Len(toks) \in Nat
    BY <1>2 DEF Tokens
  <2> QED BY <2>1, <2>2, <2>3
<1>6. q \in 1..L /\ MaxTokens \in Nat /\ n <= MaxTokens /\ toks \in Seq(1..L)
  BY <1>2, <1>5, CallFacts DEF Scan, Tokens
<1>7. /\ \A i \in 1..n : toks[i] \in 1..L
      /\ \A i \in 1..n : EndsBefore(mem, toks[i], q)
      /\ \A i, j \in 1..n : i < j => EndsBefore(mem, toks[i], toks[j])
  BY <1>2, <1>5 DEF Tokens, Apart
<1>8. \A i \in 1..n : \E e \in Int : EndsAt(mem, toks[i], e)
  BY <1>7 DEF EndsBefore
<1>9. mem[q] = NUL => \A c \in Kept : c < q
  <2>1. PICK e \in q..L : EndsAt(mem, q, e) /\ \A c \in Kept : c < e
    BY <1>2, <1>5 DEF Scan
  <2>2. mem[q] = NUL => e = q
    <3>1. q < e => q \in q..e - 1
      BY <2>1
    <3> QED BY <2>1, <3>1 DEF EndsAt
  <2> QED BY <2>1, <2>2
<1>10. CASE state # "INIT" /\ n < MaxTokens
  <2>1. mem[q] = NUL /\ toks' = Append(toks, start)
    BY <1>1, <1>5, <1>10 DEF InLoop
  <2>2. PICK w \in 1..q : /\ w = start
                          /\ \A j \in w..q - 1 : mem[j] # NUL
                          /\ \A i \in 1..n : EndsBefore(mem, toks[i], w)
    BY <1>2, <1>5, <1>10 DEF Word
  <2>3. EndsAt(mem, w, q)
    BY <1>5, <1>6, <2>1, <2>2 DEF EndsAt
  <2>4. /\ Len(toks') = n + 1 /\ toks'[n + 1] = w /\ \A i \in 1..n : toks'[i] = toks[i]
        /\ toks' \in Seq(1..L)
    <3>1. w \in 1..L
      BY <1>6, <2>2
    <3> QED BY <1>5, <1>6, <2>1, <2>2, <3>1
  <2>5. ASSUME NEW i \in 1..n + 1 PROVE \E e \in Int : EndsAt(mem, toks'[i], e)
    BY <1>8, <2>3, <2>4
  <2>6. ASSUME NEW i \in 1..n + 1, NEW j \in 1..n + 1, i < j
        PROVE  EndsBefore(mem, toks'[i], toks'[j])
    <3>1. i \in 1..n /\ (j \in 1..n \/ j = n + 1)
      BY <2>6
    <3> QED BY <1>7, <2>2, <2>4, <2>6, <3>1
  <2>7. ASSUME NEW c \in Kept PROVE InToken(mem, toks', c)
    <3>1. c \in Int /\ c < q
      BY <1>3, <1>9, <2>1
    <3>2. CASE InToken(mem, toks, c)
      <4>1. PICK i \in 1..n, e \in c + 1..L : EndsAt(mem, toks[i], e) /\ toks[i] <= c
        BY <1>5, <3>2 DEF InToken
      <4>2. i \in 1..n + 1 /\ toks'[i] = toks[i]
        BY <2>4
      <4> QED BY <1>5, <2>4, <4>1, <4>2 DEF InToken
    <3>3. CASE w <= c
      <4>1. n + 1 \in 1..n + 1 /\ q \in c + 1..L
        BY <1>6, <3>1
      <4> QED BY <1>5, <2>3, <2>4, <3>3, <4>1 DEF InToken
    <3>4. InToken(mem, toks, c) \/ w <= c
      <4>1. c < p
        BY <1>5, <3>1
      <4> QED BY <1>2, <2>2, <4>1 DEF Scan, Covered
    <3> QED BY <3>2, <3>3, <3>4
  <2>8. Final(toks')
    BY <1>5, <2>4, <2>5, <2>6, <2>7 DEF Final, Apart
  <2>9. EachCharOnce'
    BY <1>1, <1>2, <2>8, FinalOnce
  <2> QED BY <1>1, <1>4, <2>9
<1>11. CASE ~(state # "INIT" /\ n < MaxTokens)
  <2>1. toks' = toks /\ state = "INIT"
    <3>1. n < MaxTokens \/ n = MaxTokens
      BY <1>6
    <3> QED BY <1>1, <1>2, <1>5, <1>11, <3>1 DEF Tokens
  <2>2. \A c \in Kept : c < q => InToken(mem, toks, c)
    BY <1>2, <1>5, <2>1 DEF Scan, Covered
  <2>3. ASSUME NEW c \in Kept
        PROVE  InToken(mem, toks, c) \/ (n = MaxTokens /\ EndsBefore(mem, toks[n], c))
    <3>1. CASE c < q
      BY <2>2, <3>1
    <3>2. CASE ~(c < q)
      <4>1. n = MaxTokens /\ n \in 1..n
        <5>1. mem[q] # NUL
          BY <1>9, <3>2
        <5>2. ~(n < MaxTokens)
          BY <1>1, <1>5, <5>1 DEF InLoop
        <5>3. MaxTokens >= 1
          BY <1>2, CallFacts
        <5> QED BY <1>6, <5>2, <5>3
      <4>2. EndsBefore(mem, toks[n], q) /\ toks[n] \in Int /\ q \in Int /\ c \in Int /\ q <= c
        BY <1>3, <1>7, <3>2, <4>1
      <4> QED BY <4>1, <4>2, Wider
    <3> QED BY <3>1, <3>2
  <2>4. Final(toks)
    BY <1>2, <1>5, <1>6, <1>8, <2>3 DEF Final, Tokens
  <2>5. EachCharOnce'
    BY <1>1, <1>2, <2>1, <2>4, FinalOnce
  <2> QED BY <1>1, <1>4, <2>5
<1> QED BY <1>10, <1>11

-----------------------------------------------------------------------------
(* The invariant holds of the string as it was given. *)
LEMMA InitInv == Init => QtokInv
<1> SUFFICES ASSUME Init PROVE QtokInv
  OBVIOUS
<1>1. call \in Calls /\ mem = Append(call.text, NUL) /\ pc = "call" /\ toks = <<>> /\ state = "WORD"
  BY DEF Init
<1>2. PICK T, C : T = call.text /\ C = Range(call.text)
  OBVIOUS
<1>3. T \in Seq(C)
  BY <1>1, <1>2, CallFacts
<1>4. /\ mem \in Seq(C \cup {NUL}) /\ Len(mem) = Len(T) + 1
      /\ \A j \in 1..Len(T) : mem[j] = T[j]
  BY <1>1, <1>2, <1>3
<1>5. Array
  BY <1>2, <1>4 DEF Array, Kept
<1> QED BY <1>1, <1>5 DEF QtokInv

(* Every step keeps it. *)
LEMMA NextInv ==
  ASSUME QtokInv, [Next]_vars
  PROVE  QtokInv'
<1>1. call' = call /\ call \in Calls
  BY DEF QtokInv, Next, vars, _encode_frame, _encode_opts, _encode_vars, BlankParam, StrtokTurn,
         StrtokNull, StrtokFull, fgen_strqtok, Backslash, QtokInit, QtokInside, QtokEnd
<1>2. CASE ~Quoting
  BY <1>1, <1>2 DEF QtokInv, Quoting
<1>3. CASE Quoting
  <2>1. /\ pc \in {"call", "qtok", "done"} /\ call.fn = "qtok" /\ Array
        /\ pc = "call" => mem = Append(call.text, NUL) /\ toks = <<>> /\ state = "WORD"
        /\ pc = "qtok" => Tokens /\ Word /\ Scan
        /\ pc = "done" => EachCharOnce
    BY <1>3 DEF QtokInv, Quoting
  <2>2. CASE Goes' \/ (Array' /\ EachCharOnce' /\ pc' = "done")
    BY <1>1, <2>2 DEF QtokInv, Goes
  <2>3. CASE UNCHANGED vars
    <3>1. /\ call' = call /\ mem' = mem /\ pc' = pc /\ toks' = toks /\ p' = p /\ start' = start
          /\ state' = state /\ ret' = ret
      BY <2>3 DEF vars
    <3>2. Kept' = Kept
      BY <3>1 DEF Kept
    <3>3. Array' /\ Tokens' = Tokens /\ Word' = Word
      BY <2>1, <3>1, <3>2 DEF Array, Tokens, Word
    <3>4. Scan' = Scan
      BY <3>1, <3>2 DEF Scan, Covered
    <3>5. EachCharOnce' = EachCharOnce
      BY <3>1 DEF EachCharOnce, Extent
    <3> QED BY <1>1, <2>1, <3>1, <3>3, <3>4, <3>5 DEF QtokInv
  <2>4. ~Backslash
    <3>1. ASSUME InLoop PROVE mem[p] # "\\"
      <4>1. pc = "qtok" /\ mem[p] # NUL /\ p \in 1..Len(mem)
        BY <2>1, <3>1 DEF InLoop, Scan
      <4>2. p \in 1..Len(call.text)
        <5>1. Len(call.text) \in Nat /\ call.text \in Seq(Range(call.text))
          BY <1>1, CallFacts
        <5>2. Len(mem) = Len(call.text) + 1
          BY <2>1 DEF Array
        <5>3. p + 1 \in 1..Len(mem)
          BY <1>3, <3>1, Turn
        <5> QED BY <4>1, <5>1, <5>2, <5>3
      <4>3. mem[p] = call.text[p] /\ call.text[p] \in Range(call.text)
        BY <1>1, <2>1, <4>1, <4>2, CallFacts DEF Array
      <4> QED BY <1>3, <4>3 DEF Quoting
    <3> QED BY <3>1 DEF Backslash
  <2>5. CASE Next
    <3>1. fgen_strqtok \/ QtokInit \/ QtokInside \/ QtokEnd
      BY <2>1, <2>4, <2>5 DEF Next, _encode_frame, _encode_opts, _encode_vars, BlankParam,
         StrtokTurn, StrtokNull, StrtokFull
    <3> QED BY <1>3, <2>2, <3>1, BeginStep, InitStep, StayStep, CutStep, EndStep
  <2> QED BY <2>3, <2>5
<1> QED BY <1>2, <1>3

(* fgen_strqtok keeps each character of a text without backslashes that is *)
(* neither delimiter nor quote in exactly one token, in order, up to where *)
(* it stopped because maxtokens tokens were found, however long the text   *)
(* and whatever the delimiters.                                            *)
THEOREM EveryCharOnce == Spec => []EachCharOnce
<1>1. QtokInv => EachCharOnce
  BY DEF QtokInv, Quoting, EachCharOnce
<1> QED BY <1>1, InitInv, NextInv, PTL DEF Spec
-----------------------------------------------------------------------------
(***************************************************************************)
(* fgen_strtok.  The loop reads a string s that begins behind index o of   *)
(* the array, and has come to index a.                                     *)
(***************************************************************************)

(* The array m has the string w at x. *)
Holds(m, x, w) ==
  /\ x \in 1..Len(m) /\ x + Len(w) <= Len(m)
  /\ \A j \in 1..Len(w) : m[x + j - 1] = w[j]
  /\ m[x + Len(w)] = NUL

Field(s, D, i) == Fields(s, D)[i]
Token(s, D, i) == Stripped(Field(s, D, i), Space, Space)

(* What was not read yet is as it was, and a run begins there or none. *)
Unread(m, o, a, s, D) ==
  /\ o \in Nat /\ o + Len(s) + 1 <= Len(m)
  /\ a \in o + 1..o + Len(s) + 1
  /\ \A j \in a - o..Len(s) : m[o + j] = s[j]
  /\ m[o + Len(s) + 1] = NUL
  /\ a = o + 1 \/ a = o + Len(s) + 1 \/ s[a - o - 1] \in D

(* The tokens found are fields of s in their order, and none reaches the   *)
(* next or goes beyond a.                                                  *)
Read(C, m, ts, o, a, s, D) ==
  /\ \A i \in 1..Len(ts) :
       /\ Field(s, D, i) \in Seq(C)
       /\ \A j \in 1..Len(Field(s, D, i)) : Field(s, D, i)[j] \notin D
       /\ Holds(m, ts[i], Token(s, D, i))
       /\ o < ts[i] /\ ts[i] + Len(Token(s, D, i)) <= a
  /\ \A k, i \in 1..Len(ts) : k < i => ts[k] + Len(Token(s, D, k)) < ts[i]

RunsBefore(s, D, x) == {q \in Runs(s, D) : q[1] < x}

Loop(C, m, ts, o, a, s, D) ==
  /\ Unread(m, o, a, s, D)
  /\ Read(C, m, ts, o, a, s, D)
  /\ Len(ts) = Cardinality(RunsBefore(s, D, a - o))

-----------------------------------------------------------------------------
(* The characters of the text, and the delimiters the callers give. *)
Chars == Range(call.text)
LayerDelims == {"/"}
PieceDelims == {",", " "}
PairDelims == {"=", " "}

ArrayOK == mem \in Seq(Chars \cup {NUL}) /\ Len(mem) = Len(call.text) + 1 /\ toks \in Seq(Nat)

Starting == mem = Append(call.text, NUL) /\ toks = <<>> /\ params = <<>> /\ pairs = <<>> /\ ret = 0

(* While a frame string is cut, and when it has been. *)
LayersInv ==
  /\ pc \in {"call", "layers", "done"}
  /\ ArrayOK
  /\ pc = "call" => Starting
  /\ pc = "layers" => /\ Len(toks) < MaxLayers
                      /\ Loop(Chars, mem, toks, 0, at, call.text, LayerDelims)
  /\ pc = "done" => TokensAreFields

(* The pieces ps that parser_kvp has yet to read, the first of them number *)
(* n of the pieces P of the text, are in the array behind index x.         *)
Pending(m, ps, P, n, x) ==
  /\ ps \in Seq(Nat) /\ n + Len(ps) = Len(P) + 1
  /\ \A k \in 1..Len(ps) : Holds(m, ps[k], P[n + k - 1]) /\ x < ps[k]
  /\ \A k, l \in 1..Len(ps) : k < l => ps[k] + Len(P[n + k - 1]) < ps[l]

(* The pairs read are those of the pieces passed, in the array up to x. *)
PairsKept(C, m, prs, P, x) ==
  /\ P \in Seq(Seq(C)) /\ prs \in Seq(Nat \X Nat) /\ Len(prs) <= Len(P)
  /\ \A i \in 1..Len(prs) :
       /\ KeyValue(P[i]) \in Seq(Seq(C)) /\ Len(KeyValue(P[i])) = 2
       /\ \A h \in 1..2 : /\ Holds(m, prs[i][h], KeyValue(P[i])[h])
                          /\ prs[i][h] + Len(KeyValue(P[i])[h]) <= x

(* Nothing but white space. *)
Spaces(w) == Stripped(w, Space, Space) = <<>>

(* While the parameters of a layer are cut, piece by piece, and when they  *)
(* have been.                                                              *)
ParamsInv ==
  /\ pc \in {"call", "opts", "param", "vars", "crashed", "done"}
  /\ ArrayOK
  /\ pc = "call" => Starting
  /\ pc = "opts" => /\ Len(toks) < FGEN_MAX_PARAMS
                    /\ params = <<>> /\ pairs = <<>> /\ ret = 0
                    /\ \E o \in Nat : Loop(Chars, mem, toks, o, at, Unparen(call.text), PieceDelims)
  /\ pc = "param" => /\ params # <<>> /\ toks = <<>> /\ ret = Len(pairs)
                     /\ \E x \in Nat : /\ Pending(mem, params, Pieces, Len(pairs) + 1, x)
                                      /\ PairsKept(Chars, mem, pairs, Pieces, x)
  /\ pc = "vars" => /\ Len(toks) < FGEN_MAX_KVP_TOKENS /\ ret = Len(pairs)
                    /\ \E o \in Nat : LET s == Unparen(Pieces[Len(pairs) + 1]) IN
                         /\ Loop(Chars, mem, toks, o, at, s, PairDelims)
                         /\ Pending(mem, params, Pieces, Len(pairs) + 2, o + Len(s) + 1)
                         /\ PairsKept(Chars, mem, pairs, Pieces, o)
                    /\ ~Spaces(Pieces[Len(pairs) + 1])
  /\ pc \in {"crashed", "done"} => TokensAreFields

StrtokInv ==
  /\ call \in Calls
  /\ call.fn = "layers" => LayersInv
  /\ call.fn = "params" => ParamsInv

-----------------------------------------------------------------------------
(* The least member of a set of numbers is the one below all others. *)
LEMMA MinIs ==
  ASSUME NEW S, S \subseteq Int, NEW v \in S, \A y \in S : v <= y
  PROVE  Min(S) = v
<1>1. \A x \in S : (\A y \in S : x <= y) => x = v
  <2> SUFFICES ASSUME NEW x \in S, \A y \in S : x <= y PROVE x = v
    OBVIOUS
  <2>1. x <= v /\ v <= x /\ x \in Int /\ v \in Int
    OBVIOUS
  <2> QED BY <2>1
<1> QED BY <1>1 DEF Min

(* The greatest is the one above all others. *)
LEMMA MaxIs ==
  ASSUME NEW S, S \subseteq Int, NEW v \in S, \A y \in S : y <= v
  PROVE  Max(S) = v
<1>1. \A x \in S : (\A y \in S : y <= x) => x = v
  <2> SUFFICES ASSUME NEW x \in S, \A y \in S : y <= x PROVE x = v
    OBVIOUS
  <2>1. x <= v /\ v <= x /\ x \in Int /\ v \in Int
    OBVIOUS
  <2> QED BY <2>1
<1> QED BY <1>1 DEF Max

(* w is the part of s from lo to hi. *)
IsPart(C, s, lo, hi, w) ==
  w \in Seq(C) /\ Len(w) = hi - lo + 1 /\ \A i \in 1..hi - lo + 1 : w[i] = s[lo + i - 1]

(* SubSeq gives a part. *)
LEMMA PartOf ==
  ASSUME NEW C, NEW s \in Seq(C), NEW lo \in Int, NEW hi \in Int,
         lo >= 1, hi <= Len(s), lo <= hi + 1
  PROVE  IsPart(C, s, lo, hi, SubSeq(s, lo, hi))
<1>1. \A i \in lo..hi : s[i] \in C
  OBVIOUS
<1>2. /\ SubSeq(s, lo, hi) \in Seq(C)
      /\ Len(SubSeq(s, lo, hi)) = IF lo <= hi THEN hi - lo + 1 ELSE 0
      /\ \A i \in 1..hi - lo + 1 : SubSeq(s, lo, hi)[i] = s[lo + i - 1]
  BY <1>1, SubSeqProperties
<1>3. Len(SubSeq(s, lo, hi)) = hi - lo + 1
  BY <1>2
<1> QED BY <1>2, <1>3 DEF IsPart

(* The arrays m and m2 are the same outside of lo..hi. *)
SameBut(C, m, m2, lo, hi) ==
  /\ m2 \in Seq(C \cup {NUL}) /\ Len(m2) = Len(m)
  /\ \A j \in 1..Len(m) : j < lo \/ hi < j => m2[j] = m[j]

(* A string outside of what changed is still there. *)
LEMMA HoldsStill ==
  ASSUME NEW C, NEW m, Len(m) \in Nat, NEW m2, NEW lo \in Int, NEW hi \in Int,
         SameBut(C, m, m2, lo, hi),
         NEW x \in Int, NEW w, Len(w) \in Nat, Holds(m, x, w), x + Len(w) < lo \/ hi < x
  PROVE  Holds(m2, x, w)
<1>1. /\ x \in 1..Len(m) /\ x + Len(w) <= Len(m) /\ m[x + Len(w)] = NUL
      /\ \A j \in 1..Len(w) : m[x + j - 1] = w[j]
  BY DEF Holds
<1>2. Len(m2) = Len(m) /\ \A j \in 1..Len(m) : j < lo \/ hi < j => m2[j] = m[j]
  BY DEF SameBut
<1>3. ASSUME NEW j \in 1..Len(w) PROVE m2[x + j - 1] = w[j]
  <2>1. x + j - 1 \in 1..Len(m) /\ (x + j - 1 < lo \/ hi < x + j - 1)
    BY <1>1
  <2> QED BY <1>1, <1>2, <2>1
<1>4. m2[x + Len(w)] = NUL
  <2>1. x + Len(w) \in 1..Len(m) /\ (x + Len(w) < lo \/ hi < x + Len(w))
    BY <1>1
  <2> QED BY <1>1, <1>2, <2>1
<1> QED BY <1>1, <1>2, <1>3, <1>4 DEF Holds

(* Two changes, one after the other, within the same limits. *)
LEMMA SameButBoth ==
  ASSUME NEW C, NEW m, NEW m2, NEW m3, Len(m) \in Nat,
         NEW lo \in Int, NEW hi \in Int, SameBut(C, m, m2, lo, hi),
         NEW lo2 \in Int, NEW hi2 \in Int, SameBut(C, m2, m3, lo2, hi2), lo <= lo2, hi2 <= hi
  PROVE  SameBut(C, m, m3, lo, hi)
<1>1. Len(m2) = Len(m) /\ \A j \in 1..Len(m) : j < lo \/ hi < j => m2[j] = m[j]
  BY DEF SameBut
<1>2. /\ m3 \in Seq(C \cup {NUL}) /\ Len(m3) = Len(m2)
      /\ \A j \in 1..Len(m) : j < lo2 \/ hi2 < j => m3[j] = m2[j]
  BY <1>1 DEF SameBut
<1>3. ASSUME NEW j \in 1..Len(m), j < lo \/ hi < j PROVE m3[j] = m[j]
  <2>1. j < lo2 \/ hi2 < j
    BY <1>3
  <2> QED BY <1>1, <1>2, <1>3, <2>1
<1> QED BY <1>1, <1>2, <1>3 DEF SameBut

(* What Trim does to the string w at x: v is at y, within the old string. *)
Trims(C, m, x, w, y, m2, v) ==
  /\ v \in Seq(C) /\ Holds(m2, y, v)
  /\ x <= y /\ y + Len(v) <= x + Len(w) /\ m2[x + Len(w)] = NUL
  /\ SameBut(C, m, m2, x, x + Len(w))

(* Trim finds the ends b and z, and so does Stripped. *)
HasEnds(m, x, w, front, back, b, z) ==
  /\ b \in x..x + Len(w) /\ z \in b - 1..x + Len(w) - 1
  /\ m[b] = NUL => b = x + Len(w)
  /\ Trim(m, x, front, back) =
       [at |-> b, mem |-> IF m[b] = NUL THEN m ELSE [m EXCEPT ![z + 1] = NUL]]
  /\ Stripped(w, front, back) = SubSeq(w, b - x + 1, z - x + 1)

(* Where Trim finds the ends of a string, in the array and in the string. *)
LEMMA TrimEnds ==
  ASSUME NEW C, NUL \notin C, NEW m \in Seq(C \cup {NUL}), NEW x \in Int, NEW w \in Seq(C),
         Holds(m, x, w), NEW front, NUL \notin front, NEW back
  PROVE  \E b, z \in Int : HasEnds(m, x, w, front, back, b, z)
<1>1. PICK n \in Nat : n = Len(w)
  OBVIOUS
<1>2. PICK L \in Nat : L = Len(m)
  OBVIOUS
<1>3. /\ x \in 1..L /\ x + n <= L /\ m[x + n] = NUL
      /\ \A j \in 1..n : m[x + j - 1] = w[j] /\ w[j] # NUL
  BY <1>1, <1>2 DEF Holds
<1>4. \A j \in x..x + n - 1 : j - x + 1 \in 1..n /\ m[j] = w[j - x + 1] /\ m[j] # NUL
  <2> SUFFICES ASSUME NEW j \in x..x + n - 1
               PROVE  j - x + 1 \in 1..n /\ m[j] = w[j - x + 1] /\ m[j] # NUL
    OBVIOUS
  <2>1. j - x + 1 \in 1..n /\ x + (j - x + 1) - 1 = j
    BY <1>3
  <2> QED BY <1>3, <2>1
<1>5. PICK b : b = FirstNotIn(m, x, front)
  OBVIOUS
<1>6. /\ b \in x..x + n /\ m[b] \notin front
      /\ \A j \in x..x + n : m[j] \notin front => b <= j
  <2> DEFINE S == {j \in x..L : m[j] \notin front}
  <2>1. S \subseteq Nat /\ x + n \in S /\ \A j \in x..x + n : j \in x..L
    BY <1>2, <1>3
  <2>2. b = Min(S)
    BY <1>2, <1>5 DEF FirstNotIn
  <2>3. b \in S /\ \A j \in S : b <= j
    <3> HIDE DEF S
    <3> QED BY <2>1, <2>2, HasMin
  <2>4. b <= x + n
    BY <2>1, <2>3
  <2>5. \A j \in x..x + n : m[j] \notin front => j \in S
    BY <2>1
  <2> QED BY <2>3, <2>4, <2>5, <1>3
<1>7. StrEnd(m, b) = x + n
  <2>1. EndsAt(m, b, x + n)
    <3>1. \A j \in b..x + n - 1 : j \in x..x + n - 1
      BY <1>3, <1>6
    <3>2. x + n \in b..L
      BY <1>3, <1>6
    <3> QED BY <1>2, <1>3, <1>4, <3>1, <3>2 DEF EndsAt
  <2> QED BY <1>2, <1>3, <1>6, <2>1, StrEndIs
<1>8. PICK z : z = Max({j \in b..x + n - 1 : m[j] \notin back} \cup {b - 1})
  OBVIOUS
<1>9. /\ z \in b - 1..x + n - 1
      /\ z = b - 1 \/ (z \in b..x + n - 1 /\ m[z] \notin back)
      /\ \A j \in b..x + n - 1 : m[j] \notin back => j <= z
  <2> DEFINE S == {j \in b..x + n - 1 : m[j] \notin back} \cup {b - 1}
  <2>1. S \subseteq 0..L /\ b - 1 \in S
    BY <1>2, <1>3, <1>6
  <2>2. z = Max(S)
    BY <1>8
  <2>3. z \in S /\ \A j \in S : j <= z
    <3> HIDE DEF S
    <3> QED BY <1>2, <2>1, <2>2, HasMax
  <2> QED BY <1>3, <1>6, <2>3
<1>10. m[b] = NUL => b = x + n
  <2>1. b # x + n => b \in x..x + n - 1
    BY <1>3, <1>6
  <2> QED BY <1>4, <2>1
<1>11. Trim(m, x, front, back) =
         [at |-> b, mem |-> IF m[b] = NUL THEN m ELSE [m EXCEPT ![z + 1] = NUL]]
  <2>1. z = Max({j \in b..StrEnd(m, b) - 1 : m[j] \notin back} \cup {b - 1})
    BY <1>7, <1>8
  <2> QED BY <1>5, <2>1, Zenon DEF Trim
<1>12. Min({i \in 1..n : w[i] \notin front} \cup {n + 1}) = b - x + 1
  <2> DEFINE S == {i \in 1..n : w[i] \notin front} \cup {n + 1}
  <2>1. S \subseteq Int
    OBVIOUS
  <2>2. b - x + 1 \in S
    <3>1. CASE b = x + n
      BY <1>3, <3>1
    <3>2. CASE b # x + n
      <4>1. b \in x..x + n - 1
        BY <1>3, <1>6, <3>2
      <4> QED BY <1>4, <1>6, <4>1
    <3> QED BY <3>1, <3>2
  <2>3. ASSUME NEW i \in S PROVE b - x + 1 <= i
    <3>1. CASE i = n + 1
      BY <1>3, <1>6, <3>1
    <3>2. CASE i \in 1..n /\ w[i] \notin front
      <4>1. x + i - 1 \in x..x + n /\ m[x + i - 1] \notin front
        BY <1>3, <3>2
      <4>2. b <= x + i - 1
        BY <1>6, <4>1
      <4> QED BY <1>3, <1>6, <3>2, <4>2
    <3> QED BY <3>1, <3>2
  <2> HIDE DEF S
  <2>4. Min(S) = b - x + 1
    BY <2>1, <2>2, <2>3, MinIs
  <2> QED BY <2>4 DEF S
<1>13. Max({i \in b - x + 1..n : w[i] \notin back} \cup {(b - x + 1) - 1}) = z - x + 1
  <2> DEFINE S == {i \in b - x + 1..n : w[i] \notin back} \cup {(b - x + 1) - 1}
  <2>1. S \subseteq Int
    BY <1>3, <1>6
  <2>2. z - x + 1 \in S
    <3>1. CASE z = b - 1
      BY <1>3, <1>6, <3>1
    <3>2. CASE z \in b..x + n - 1 /\ m[z] \notin back
      <4>1. z \in x..x + n - 1 /\ z - x + 1 \in b - x + 1..n
        BY <1>3, <1>6, <3>2
      <4> QED BY <1>4, <3>2, <4>1
    <3> QED BY <1>9, <3>1, <3>2
  <2>3. ASSUME NEW i \in S PROVE i <= z - x + 1
    <3>1. CASE i = (b - x + 1) - 1
      BY <1>3, <1>6, <1>9, <3>1
    <3>2. CASE i \in b - x + 1..n /\ w[i] \notin back
      <4>1. i \in 1..n /\ x + i - 1 \in b..x + n - 1
        BY <1>3, <1>6, <3>2
      <4>2. m[x + i - 1] \notin back
        BY <1>3, <3>2, <4>1
      <4>3. x + i - 1 <= z
        BY <1>9, <4>1, <4>2
      <4> QED BY <1>3, <1>6, <1>9, <4>1, <4>3
    <3> QED BY <3>1, <3>2
  <2> HIDE DEF S
  <2>4. Max(S) = z - x + 1
    BY <2>1, <2>2, <2>3, MaxIs
  <2> QED BY <2>4 DEF S
<1>14. Stripped(w, front, back) = SubSeq(w, b - x + 1, z - x + 1)
  BY <1>1, <1>12, <1>13, Zenon DEF Stripped
<1>15. b \in Int /\ z \in Int
  BY <1>3, <1>6, <1>9
<1>16. HasEnds(m, x, w, front, back, b, z)
  BY <1>1, <1>6, <1>9, <1>10, <1>11, <1>14 DEF HasEnds
<1> QED BY <1>15, <1>16

(* So Trim leaves what Stripped makes of the string. *)
LEMMA TrimHolds ==
  ASSUME NEW C, NUL \notin C, NEW m \in Seq(C \cup {NUL}), NEW x \in Int, NEW w \in Seq(C),
         Holds(m, x, w), NEW front, NUL \notin front, NEW back
  PROVE  Trims(C, m, x, w, Trim(m, x, front, back).at, Trim(m, x, front, back).mem,
               Stripped(w, front, back))
<1>0. PICK b, z \in Int : HasEnds(m, x, w, front, back, b, z)
  BY TrimEnds
<1>1. /\ b \in x..x + Len(w) /\ z \in b - 1..x + Len(w) - 1
      /\ m[b] = NUL => b = x + Len(w)
      /\ Trim(m, x, front, back) =
           [at |-> b, mem |-> IF m[b] = NUL THEN m ELSE [m EXCEPT ![z + 1] = NUL]]
      /\ Stripped(w, front, back) = SubSeq(w, b - x + 1, z - x + 1)
  BY <1>0 DEF HasEnds
<1>2. PICK n \in Nat : n = Len(w)
  OBVIOUS
<1>3. PICK L \in Nat : L = Len(m)
  OBVIOUS
<1>4. /\ x \in 1..L /\ x + n <= L /\ m[x + n] = NUL
      /\ \A j \in 1..n : m[x + j - 1] = w[j]
  BY <1>2, <1>3 DEF Holds
<1>5. PICK v : v = Stripped(w, front, back)
  OBVIOUS
<1>6. v \in Seq(C) /\ Len(v) = z - b + 1 /\ \A i \in 1..z - b + 1 : v[i] = w[b - x + i]
  <2>1. PICK lo \in Int : lo = b - x + 1
    BY <1>1
  <2>2. PICK hi \in Int : hi = z - x + 1
    BY <1>1
  <2>3. lo >= 1 /\ hi <= Len(w) /\ lo <= hi + 1
    BY <1>1, <1>2, <2>1, <2>2
  <2>4. IsPart(C, w, lo, hi, v)
    BY <1>1, <1>5, <2>1, <2>2, <2>3, PartOf
  <2>5. hi - lo + 1 = z - b + 1 /\ \A i \in 1..z - b + 1 : lo + i - 1 = b - x + i
    BY <1>1, <2>1, <2>2
  <2> QED BY <2>4, <2>5 DEF IsPart
<1>7. PICK y, m2 : y = Trim(m, x, front, back).at /\ m2 = Trim(m, x, front, back).mem
  OBVIOUS
<1>8. y = b /\ m2 = IF m[b] = NUL THEN m ELSE [m EXCEPT ![z + 1] = NUL]
  BY <1>1, <1>7
<1>9. CASE m[b] = NUL
  <2>1. m2 = m /\ b = x + n /\ z = b - 1 /\ Len(v) = 0
    BY <1>1, <1>2, <1>6, <1>8, <1>9
  <2>2. Holds(m2, b, v)
    BY <1>3, <1>4, <2>1 DEF Holds
  <2>3. SameBut(C, m, m2, x, x + n)
    BY <2>1 DEF SameBut
  <2>4. x <= b /\ b + Len(v) <= x + n
    BY <1>4, <2>1
  <2> QED BY <1>2, <1>4, <1>5, <1>6, <1>7, <1>8, <2>1, <2>2, <2>3, <2>4 DEF Trims
<1>10. CASE m[b] # NUL
  <2>1. m2 = [m EXCEPT ![z + 1] = NUL]
    BY <1>8, <1>10
  <2>2. PICK q : q = z + 1
    OBVIOUS
  <2>3. q \in 1..L /\ q \in b..x + n /\ q = b + Len(v)
    BY <1>1, <1>2, <1>4, <1>6, <2>2
  <2>4. /\ m2 \in Seq(C \cup {NUL}) /\ Len(m2) = L /\ m2[q] = NUL
        /\ \A j \in 1..L : j # q => m2[j] = m[j]
    <3>1. PICK D : D = C \cup {NUL}
      OBVIOUS
    <3>2. IsCut(D, m, q, m2)
      BY <1>3, <2>1, <2>2, <2>3, <3>1, CutArray
    <3> QED BY <1>3, <3>1, <3>2 DEF IsCut
  <2>5. ASSUME NEW j \in 1..Len(v) PROVE m2[b + j - 1] = v[j]
    <3>1. b >= x /\ z <= x + n - 1 /\ j \in 1..z - b + 1 /\ x >= 1 /\ x + n <= L /\ q = z + 1
      BY <1>1, <1>2, <1>4, <1>6, <2>2
    <3>2. b + j - 1 \in 1..L /\ b + j - 1 # q
      BY <3>1
    <3>3. b - x + j \in 1..n /\ x + (b - x + j) - 1 = b + j - 1
      BY <3>1
    <3>4. m2[b + j - 1] = m[b + j - 1] /\ v[j] = w[b - x + j]
      BY <1>6, <2>4, <3>1, <3>2
    <3>5. m[x + (b - x + j) - 1] = w[b - x + j]
      BY <1>4, <3>3
    <3> QED BY <3>3, <3>4, <3>5
  <2>6. Holds(m2, b, v)
    <3>1. b \in 1..L /\ b + Len(v) <= L
      <4>1. q \in 1..L /\ q \in b..x + n /\ q = b + Len(v)
        BY <2>3
      <4>2. b \in Int /\ x \in Int /\ b >= x /\ x >= 1
        BY <1>1, <1>4
      <4> QED BY <4>1, <4>2
    <3> QED BY <2>3, <2>4, <2>5, <3>1 DEF Holds
  <2>7. SameBut(C, m, m2, x, x + n)
    <3>1. \A j \in 1..L : j < x \/ x + n < j => j # q
      BY <1>1, <1>2, <1>4, <2>3
    <3> QED BY <1>3, <2>4, <3>1 DEF SameBut
  <2>8. m2[x + n] = NUL
    <3>1. x + n \in 1..L
      BY <1>4
    <3> QED BY <1>4, <2>4, <3>1
  <2>9. x <= b /\ b + Len(v) <= x + n
    BY <1>1, <1>2, <1>4, <2>3
  <2> QED BY <1>2, <1>5, <1>6, <1>7, <1>8, <2>6, <2>7, <2>8, <2>9 DEF Trims
<1> QED BY <1>9, <1>10

-----------------------------------------------------------------------------
(* The runs of a text are finite in number, and two do not overlap: one    *)
(* that begins at another's beginning is that one.                         *)
LEMMA RunsFinite ==
  ASSUME NEW s, Len(s) \in Nat, NEW D
  PROVE  /\ IsFiniteSet(Runs(s, D)) /\ Cardinality(Runs(s, D)) \in Nat
         /\ \A r \in Runs(s, D) : /\ r[1] \in 1..Len(s) /\ r[2] \in r[1]..Len(s)
                                  /\ r = <<r[1], r[2]>>
<1>1. Runs(s, D) \subseteq (1..Len(s)) \X (1..Len(s))
  BY DEF Runs
<1>2. IsFiniteSet(1..Len(s))
  BY FS_Interval
<1>3. IsFiniteSet((1..Len(s)) \X (1..Len(s)))
  BY <1>2, FS_Product
<1>4. IsFiniteSet(Runs(s, D))
  BY <1>1, <1>3, FS_Subset
<1>5. ASSUME NEW r \in Runs(s, D)
      PROVE  r[1] \in 1..Len(s) /\ r[2] \in r[1]..Len(s) /\ r = <<r[1], r[2]>>
  BY DEF Runs
<1> QED BY <1>4, <1>5, FS_CardinalityType

(* A part of the text that is a run. *)
IsRun(s, D, b, e) ==
  /\ b \in 1..Len(s) /\ e \in b + 1..Len(s) + 1
  /\ \A i \in b..e - 1 : s[i] \notin D
  /\ b = 1 \/ s[b - 1] \in D
  /\ e = Len(s) + 1 \/ s[e] \in D

(* The runs from b to e - 1 are the pairs of these. *)
LEMMA RunIs ==
  ASSUME NEW s, Len(s) \in Nat, NEW D, NEW b, NEW e, IsRun(s, D, b, e)
  PROVE  /\ <<b, e - 1>> \in Runs(s, D)
         /\ \A q \in Runs(s, D) : q[1] = b => q = <<b, e - 1>>
         /\ \A q \in Runs(s, D) : b < q[1] => e < q[1]
<1>1. /\ b \in 1..Len(s) /\ e \in b + 1..Len(s) + 1
      /\ \A i \in b..e - 1 : s[i] \notin D
      /\ b = 1 \/ s[b - 1] \in D
      /\ e = Len(s) + 1 \/ s[e] \in D
  BY DEF IsRun
<1>2. b \in Int /\ e \in Int /\ e - 1 \in 1..Len(s) /\ b <= e - 1 /\ (e - 1) + 1 = e
  BY <1>1
<1>3. e - 1 = Len(s) \/ s[(e - 1) + 1] \in D
  BY <1>1, <1>2
<1>4. <<b, e - 1>> \in Runs(s, D)
  BY <1>1, <1>2, <1>3 DEF Runs
<1>5. ASSUME NEW q \in Runs(s, D)
      PROVE  /\ q[1] \in 1..Len(s) /\ q[2] \in q[1]..Len(s) /\ q = <<q[1], q[2]>>
             /\ \A i \in q[1]..q[2] : s[i] \notin D
             /\ q[1] = 1 \/ s[q[1] - 1] \in D
             /\ q[2] = Len(s) \/ s[q[2] + 1] \in D
  BY DEF Runs
<1>6. ASSUME NEW q \in Runs(s, D), q[1] = b PROVE q = <<b, e - 1>>
  <2>1. PICK g \in Int : g = q[2]
    BY <1>5
  <2>2. g \in b..Len(s) /\ (\A i \in b..g : s[i] \notin D) /\ (g = Len(s) \/ s[g + 1] \in D)
    BY <1>5, <1>6, <2>1
  <2>3. ~(g < e - 1)
    <3>1. g < e - 1 => g + 1 \in b..e - 1 /\ g # Len(s)
      BY <1>1, <1>2, <2>2
    <3> QED BY <1>1, <2>2, <3>1
  <2>4. ~(e - 1 < g)
    <3>1. e - 1 < g => e \in b..g /\ e # Len(s) + 1
      BY <1>1, <1>2, <2>2
    <3> QED BY <1>1, <2>2, <3>1
  <2>5. g = e - 1
    BY <1>2, <2>2, <2>3, <2>4
  <2> QED BY <1>5, <1>6, <2>1, <2>5
<1>7. ASSUME NEW q \in Runs(s, D), b < q[1] PROVE e < q[1]
  <2>1. PICK f \in Int : f = q[1]
    BY <1>5
  <2>2. /\ f \in 1..Len(s) /\ b < f /\ s[f - 1] \in D /\ s[f] \notin D
    <3>1. q[1] \in q[1]..q[2] /\ q[1] # 1
      BY <1>1, <1>5, <1>7
    <3> QED BY <1>5, <1>7, <2>1, <3>1
  <2>3. ~(f < e + 1)
    <3>1. f < e => f - 1 \in b..e - 1
      BY <1>1, <1>2, <2>2
    <3>2. f = e => s[e] \in D
      BY <1>1, <1>2, <2>2
    <3> QED BY <1>1, <1>2, <2>2, <3>1, <3>2
  <2> QED BY <1>2, <2>1, <2>2, <2>3
<1> QED BY <1>4, <1>6, <1>7

(* The places of two runs differ. *)
LEMMA PlacesDiffer ==
  ASSUME NEW s, Len(s) \in Nat, NEW D, NEW r \in Runs(s, D), NEW q \in Runs(s, D),
         r[1] < q[1]
  PROVE  Place(Runs(s, D), r) # Place(Runs(s, D), q)
<1>1. PICK R : R = Runs(s, D)
  OBVIOUS
<1>2. IsFiniteSet(R) /\ r[1] \in Int /\ q[1] \in Int /\ \A x \in R : x[1] \in Int
  <2>1. \A x \in R : x[1] \in 1..Len(s)
    BY <1>1, RunsFinite
  <2> QED BY <1>1, <2>1, RunsFinite
<1> DEFINE A == {x \in R : x[1] <= r[1]}
           B == {x \in R : x[1] <= q[1]}
<1>3. A \subseteq B /\ q \in B /\ q \notin A /\ B \subseteq R
  BY <1>1, <1>2
<1> HIDE DEF A, B
<1>4. IsFiniteSet(B)
  BY <1>2, <1>3, FS_Subset
<1>5. Cardinality(A) # Cardinality(B)
  BY <1>3, <1>4, FS_Subset
<1> QED BY <1>1, <1>5 DEF A, B, Place

(* A run is the field at its place. *)
LEMMA FieldAtPlace ==
  ASSUME NEW s, Len(s) \in Nat, NEW D, NEW r \in Runs(s, D)
  PROVE  /\ Place(Runs(s, D), r) \in 1..Cardinality(Runs(s, D))
         /\ Field(s, D, Place(Runs(s, D), r)) = SubSeq(s, r[1], r[2])
<1>1. PICK R : R = Runs(s, D)
  OBVIOUS
<1>2. IsFiniteSet(R) /\ Cardinality(R) \in Nat
  BY <1>1, RunsFinite
<1>3. PICK k : k = Place(R, r)
  OBVIOUS
<1>4. k \in 1..Cardinality(R)
  <2> DEFINE A == {x \in R : x[1] <= r[1]}
  <2>1. A \subseteq R /\ r \in A
    <3>1. r[1] \in Int
      BY RunsFinite
    <3> QED BY <1>1, <3>1
  <2> HIDE DEF A
  <2>2. IsFiniteSet(A) /\ Cardinality(A) <= Cardinality(R)
    BY <1>2, <2>1, FS_Subset
  <2>3. Cardinality(A) \in Nat /\ Cardinality(A) # 0
    BY <2>1, <2>2, FS_CardinalityType, FS_EmptySet
  <2>4. k = Cardinality(A)
    BY <1>3 DEF A, Place
  <2> QED BY <1>2, <2>2, <2>3, <2>4
<1>5. ASSUME NEW q \in R, Place(R, q) = k PROVE q = r
  <2>1. r[1] \in Int /\ q[1] \in Int
    BY <1>1, RunsFinite
  <2>2. ~(r[1] < q[1]) /\ ~(q[1] < r[1])
    BY <1>1, <1>3, <1>5, PlacesDiffer
  <2>3. q[1] = r[1]
    BY <2>1, <2>2
  <2>4. IsRun(s, D, r[1], r[2] + 1)
    BY DEF Runs, IsRun
  <2>5. q = <<r[1], (r[2] + 1) - 1>> /\ r = <<r[1], (r[2] + 1) - 1>>
    BY <1>1, <2>3, <2>4, RunIs
  <2> QED BY <2>5
<1>6. (CHOOSE x \in R : Place(R, x) = k) = r
  BY <1>1, <1>3, <1>5
<1>7. Fields(s, D)[k] = LET x == CHOOSE x \in R : Place(R, x) = k IN SubSeq(s, x[1], x[2])
  BY <1>1, <1>4 DEF Fields
<1>8. Fields(s, D)[k] = SubSeq(s, r[1], r[2])
  BY <1>6, <1>7
<1> QED BY <1>1, <1>3, <1>4, <1>8 DEF Field

(* The loop at c goes on to the run from b to e - 1. *)
NextRun(s, D, c, b, e) ==
  IsRun(s, D, b, e) /\ c <= b /\ \A i \in c..b - 1 : s[i] \in D

Behind(s, e) == IF e = Len(s) + 1 THEN e ELSE e + 1

(* There are n runs before it; it is one more, and w is the next field. *)
IsOneMore(s, D, e, w, n) ==
  /\ n \in Nat /\ n + 1 \in 1..Cardinality(Runs(s, D))
  /\ Cardinality(RunsBefore(s, D, Behind(s, e))) = n + 1
  /\ Field(s, D, n + 1) = w

(* Its place is behind those passed. *)
LEMMA OneRunMore ==
  ASSUME NEW s, Len(s) \in Nat, NEW D, NEW c \in Int, c >= 1, NEW b, NEW e,
         NextRun(s, D, c, b, e)
  PROVE  IsOneMore(s, D, e, SubSeq(s, b, e - 1), Cardinality(RunsBefore(s, D, c)))
<1>1. PICK R : R = Runs(s, D)
  OBVIOUS
<1>2. PICK r : r = <<b, e - 1>>
  OBVIOUS
<1>3. /\ b \in 1..Len(s) /\ e \in b + 1..Len(s) + 1 /\ c <= b
      /\ \A i \in c..b - 1 : s[i] \in D
  BY DEF NextRun, IsRun
<1>4. /\ r \in R /\ r[1] = b /\ r[2] = e - 1
      /\ \A q \in R : q[1] = b => q = r
      /\ \A q \in R : b < q[1] => e < q[1]
  BY <1>1, <1>2, RunIs DEF NextRun
<1>5. \A q \in R : q[1] \in Int /\ s[q[1]] \notin D
  BY <1>1 DEF Runs
<1>6. PICK x \in Int : x = Behind(s, e)
  BY <1>3 DEF Behind
<1>7. b < x /\ x <= e + 1
  BY <1>3, <1>6 DEF Behind
<1>8. ASSUME NEW q \in R
      PROVE  (q[1] < x <=> q[1] < c \/ q = r) /\ (q[1] <= b <=> q[1] < c \/ q = r)
  <2>1. PICK f \in Int : f = q[1]
    BY <1>5
  <2>2. ~(f \in c..b - 1)
    BY <1>3, <1>5, <2>1
  <2>3. f = b <=> q = r
    BY <1>4, <2>1
  <2>4. b < f => e < f
    BY <1>4, <2>1
  <2>5. f < c \/ f = b \/ b < f
    BY <1>3, <2>2
  <2>6. f < x <=> f < c \/ f = b
    BY <1>3, <1>7, <2>4, <2>5
  <2>7. f <= b <=> f < c \/ f = b
    BY <1>3, <2>5
  <2> QED BY <2>1, <2>3, <2>6, <2>7
<1> DEFINE A == {q \in R : q[1] < c}
<1>9. {q \in R : q[1] < x} = A \cup {r} /\ {q \in R : q[1] <= r[1]} = A \cup {r}
  BY <1>4, <1>8
<1>10. r \notin A /\ A \subseteq R
  BY <1>3, <1>4
<1>11. A = RunsBefore(s, D, c) /\ RunsBefore(s, D, x) = A \cup {r}
  BY <1>1, <1>9 DEF RunsBefore
<1>12. Place(R, r) = Cardinality(A \cup {r})
  BY <1>9 DEF Place
<1> HIDE DEF A
<1>13. IsFiniteSet(R) /\ IsFiniteSet(A)
  BY <1>1, <1>10, RunsFinite, FS_Subset
<1>14. Cardinality(A) \in Nat
  BY <1>13, FS_CardinalityType
<1>15. Cardinality(A \cup {r}) = Cardinality(A) + 1
  BY <1>10, <1>13, FS_AddElement
<1>16. /\ Place(R, r) \in 1..Cardinality(R)
       /\ Field(s, D, Place(R, r)) = SubSeq(s, r[1], r[2])
  BY <1>1, <1>4, FieldAtPlace
<1>17. PICK n \in Nat : n = Cardinality(A)
  BY <1>14
<1>18. Place(R, r) = n + 1 /\ Cardinality(RunsBefore(s, D, Behind(s, e))) = n + 1
  BY <1>6, <1>11, <1>12, <1>15, <1>17
<1>19. Field(s, D, n + 1) = SubSeq(s, b, e - 1)
  BY <1>4, <1>16, <1>18
<1> QED BY <1>1, <1>11, <1>16, <1>17, <1>18, <1>19 DEF IsOneMore

(* No run is left: all are passed. *)
LEMMA NoRunLeft ==
  ASSUME NEW s, Len(s) \in Nat, NEW D, NEW c \in Int, \A i \in c..Len(s) : s[i] \in D
  PROVE  RunsBefore(s, D, c) = Runs(s, D)
<1>1. ASSUME NEW q \in Runs(s, D) PROVE q[1] < c
  <2>1. q[1] \in 1..Len(s) /\ s[q[1]] \notin D
    BY DEF Runs
  <2> QED BY <2>1
<1> QED BY <1>1 DEF RunsBefore

(* What strtok_r finds in the string s from a on. *)
Finds(m, o, a, s, D, k, b, e) ==
  /\ NextRun(s, D, a - o, b, e)
  /\ k.at = o + b /\ k.saved = o + Behind(s, e) /\ k.mem = [m EXCEPT ![o + e] = NUL]

(* It is the next run, or there is none. *)
LEMMA StrtokFinds ==
  ASSUME NEW C, NUL \notin C, NEW D, NUL \notin D, NEW s \in Seq(C), NEW m,
         Len(m) \in Nat, NEW o, NEW a, Unread(m, o, a, s, D)
  PROVE  /\ strtok_r(m, a, D).found =>
              \E b, e \in Int : Finds(m, o, a, s, D, strtok_r(m, a, D), b, e)
         /\ ~strtok_r(m, a, D).found => \A i \in a - o..Len(s) : s[i] \in D
<1>1. PICK n \in Nat : n = Len(s)
  OBVIOUS
<1>2. PICK L \in Nat : L = Len(m)
  OBVIOUS
<1>3. /\ o \in Nat /\ o + n + 1 <= L /\ a \in o + 1..o + n + 1
      /\ \A j \in a - o..n : m[o + j] = s[j]
      /\ m[o + n + 1] = NUL
      /\ a = o + 1 \/ a = o + n + 1 \/ s[a - o - 1] \in D
  BY <1>1, <1>2 DEF Unread
<1>4. \A j \in 1..n : s[j] # NUL
  BY <1>1
<1>5. \A j \in a..o + n : j - o \in a - o..n /\ j - o \in 1..n /\ m[j] = s[j - o] /\ m[j] # NUL
  <2> SUFFICES ASSUME NEW j \in a..o + n
               PROVE  j - o \in a - o..n /\ j - o \in 1..n /\ m[j] = s[j - o] /\ m[j] # NUL
    OBVIOUS
  <2>1. j - o \in a - o..n /\ j - o \in 1..n /\ o + (j - o) = j
    BY <1>3
  <2> QED BY <1>3, <1>4, <2>1
<1>6. PICK B : B = FirstNotIn(m, a, D)
  OBVIOUS
<1>7. /\ B \in a..o + n + 1 /\ m[B] \notin D
      /\ \A j \in a..o + n + 1 : m[j] \notin D => B <= j
  <2> DEFINE S == {j \in a..L : m[j] \notin D}
  <2>1. S \subseteq Nat /\ o + n + 1 \in S /\ \A j \in a..o + n + 1 : j \in a..L
    BY <1>2, <1>3
  <2>2. B = Min(S)
    BY <1>2, <1>6 DEF FirstNotIn
  <2>3. B \in S /\ \A j \in S : B <= j
    <3> HIDE DEF S
    <3> QED BY <2>1, <2>2, HasMin
  <2>4. B <= o + n + 1
    BY <2>1, <2>3
  <2>5. \A j \in a..o + n + 1 : m[j] \notin D => j \in S
    BY <2>1
  <2> QED BY <2>3, <2>4, <2>5, <1>3
<1>8. PICK E : E = Min({j \in B..L : m[j] \in D \cup {NUL}})
  OBVIOUS
<1>9. /\ E \in B..o + n + 1 /\ m[E] \in D \cup {NUL}
      /\ \A j \in B..E - 1 : m[j] \notin D
  <2> DEFINE S == {j \in B..L : m[j] \in D \cup {NUL}}
  <2>1. S \subseteq Nat /\ o + n + 1 \in S
    BY <1>2, <1>3, <1>7
  <2>2. E = Min(S)
    BY <1>8
  <2>3. E \in S /\ \A j \in S : E <= j
    <3> HIDE DEF S
    <3> QED BY <2>1, <2>2, HasMin
  <2>4. E <= o + n + 1
    BY <2>1, <2>3
  <2>5. ASSUME NEW j \in B..E - 1, m[j] \in D PROVE FALSE
    <3>1. j \in S
      BY <1>2, <1>3, <1>7, <2>3, <2>4, <2>5
    <3>2. E <= j
      BY <2>3, <3>1
    <3> QED BY <1>3, <1>7, <2>3, <3>2
  <2> QED BY <1>3, <1>7, <2>3, <2>4, <2>5
<1>10. /\ strtok_r(m, a, D).found <=> m[B] # NUL
       /\ strtok_r(m, a, D).at = B
       /\ strtok_r(m, a, D).saved = IF m[E] = NUL THEN E ELSE E + 1
       /\ strtok_r(m, a, D).mem = IF m[B] = NUL THEN m ELSE [m EXCEPT ![E] = NUL]
  <2>1. PICK f : f = (m[B] # NUL)
    OBVIOUS
  <2>2. PICK sv : sv = IF m[E] = NUL THEN E ELSE E + 1
    OBVIOUS
  <2>3. PICK mm : mm = IF m[B] = NUL THEN m ELSE [m EXCEPT ![E] = NUL]
    OBVIOUS
  <2>4. strtok_r(m, a, D) = [found |-> f, at |-> B, saved |-> sv, mem |-> mm]
    BY <1>2, <1>6, <1>8, <2>1, <2>2, <2>3, Zenon DEF strtok_r
  <2>5. /\ strtok_r(m, a, D).found = f /\ strtok_r(m, a, D).at = B
        /\ strtok_r(m, a, D).saved = sv /\ strtok_r(m, a, D).mem = mm
    BY <2>4
  <2>6. strtok_r(m, a, D).found <=> m[B] # NUL
    BY <2>1, <2>5, Zenon
  <2> QED BY <2>2, <2>3, <2>5, <2>6
<1>11. CASE m[B] = NUL
  <2>1. B = o + n + 1
    <3>1. B # o + n + 1 => B \in a..o + n
      BY <1>3, <1>7
    <3> QED BY <1>5, <1>11, <3>1
  <2>2. ASSUME NEW i \in a - o..n PROVE s[i] \in D
    <3>1. o + i \in a..o + n + 1 /\ ~(B <= o + i)
      BY <1>3, <2>1
    <3>2. m[o + i] \in D
      BY <1>7, <3>1
    <3> QED BY <1>3, <3>2
  <2>3. ~strtok_r(m, a, D).found
    BY <1>10, <1>11
  <2> QED BY <1>1, <2>2, <2>3
<1>12. CASE m[B] # NUL
  <2>1. B \in a..o + n
    <3>1. B # o + n + 1
      BY <1>3, <1>12
    <3>2. o \in Nat /\ n \in Nat /\ a \in Int /\ B \in a..o + n + 1
      BY <1>3, <1>7
    <3> QED BY <3>1, <3>2
  <2>2. PICK b \in Int : b = B - o
    BY <1>3, <1>7
  <2>3. PICK e \in Int : e = E - o
    BY <1>3, <1>7, <1>9
  <2>4. E # B
    BY <1>7, <1>9, <1>12
  <2>5. b \in 1..n /\ e \in b + 1..n + 1 /\ a - o <= b /\ o + b = B /\ o + e = E
    BY <1>3, <1>9, <2>1, <2>2, <2>3, <2>4
  <2>6. ASSUME NEW i \in b..e - 1 PROVE s[i] \notin D
    <3>1. o + i \in B..E - 1 /\ i \in a - o..n
      BY <1>3, <1>7, <2>5
    <3> QED BY <1>3, <1>9, <3>1
  <2>7. ASSUME NEW i \in a - o..b - 1 PROVE s[i] \in D
    <3>1. o + i \in a..o + n + 1 /\ ~(B <= o + i) /\ i \in a - o..n
      BY <1>3, <2>5
    <3>2. m[o + i] \in D
      BY <1>7, <3>1
    <3> QED BY <1>3, <3>1, <3>2
  <2>8. b = 1 \/ s[b - 1] \in D
    <3>1. CASE b = a - o
      <4>1. a # o + n + 1
        BY <1>3, <2>5, <3>1
      <4>2. a = o + 1 => b = 1
        BY <1>3, <3>1
      <4>3. a - o - 1 = b - 1
        BY <3>1
      <4> QED BY <1>3, <4>1, <4>2, <4>3
    <3>2. CASE b # a - o
      <4>1. b - 1 \in a - o..b - 1
        BY <1>3, <2>5, <3>2
      <4> QED BY <2>7, <4>1
    <3> QED BY <3>1, <3>2
  <2>9. (e = n + 1 <=> m[E] = NUL) /\ (e = n + 1 \/ s[e] \in D)
    <3>1. CASE e = n + 1
      <4>1. E = o + n + 1
        BY <1>3, <2>5, <3>1
      <4> QED BY <1>3, <3>1, <4>1
    <3>2. CASE e # n + 1
      <4>1. E \in a..o + n
        BY <1>3, <1>7, <1>9, <2>5, <3>2
      <4>2. m[E] = s[e] /\ m[E] # NUL
        BY <1>5, <2>3, <4>1
      <4> QED BY <1>9, <3>2, <4>2
    <3> QED BY <3>1, <3>2
  <2>10. NextRun(s, D, a - o, b, e)
    BY <1>1, <2>5, <2>6, <2>7, <2>8, <2>9 DEF NextRun, IsRun
  <2>11. strtok_r(m, a, D).saved = o + Behind(s, e)
    <3>1. strtok_r(m, a, D).saved = IF m[E] = NUL THEN E ELSE E + 1
      BY <1>10
    <3> QED BY <1>1, <1>3, <2>5, <2>9, <3>1 DEF Behind
  <2>12. strtok_r(m, a, D).at = o + b /\ strtok_r(m, a, D).mem = [m EXCEPT ![o + e] = NUL]
    BY <1>10, <1>12, <2>5
  <2>13. Finds(m, o, a, s, D, strtok_r(m, a, D), b, e)
    BY <2>10, <2>11, <2>12 DEF Finds
  <2>14. strtok_r(m, a, D).found
    BY <1>10, <1>12
  <2> QED BY <2>13, <2>14
<1> QED BY <1>11, <1>12

(* What Stripped leaves of a word is a word, and no longer. *)
LEMMA StrippedLen ==
  ASSUME NEW C, NEW w \in Seq(C), NEW front, NEW back
  PROVE  /\ Stripped(w, front, back) \in Seq(C) /\ Len(Stripped(w, front, back)) \in Nat
         /\ w = <<>> => Stripped(w, front, back) = <<>>
<1>1. PICK n \in Nat : n = Len(w)
  OBVIOUS
<1>2. PICK lo : lo = Min({i \in 1..n : w[i] \notin front} \cup {n + 1})
  OBVIOUS
<1>3. lo \in 1..n + 1
  <2> DEFINE S == {i \in 1..n : w[i] \notin front} \cup {n + 1}
  <2>1. S \subseteq Nat /\ S # {} /\ S \subseteq 1..n + 1
    OBVIOUS
  <2>2. lo = Min(S)
    BY <1>2
  <2> HIDE DEF S
  <2>3. lo \in S
    BY <2>1, <2>2, HasMin
  <2> QED BY <2>1, <2>3
<1>4. PICK hi : hi = Max({i \in lo..n : w[i] \notin back} \cup {lo - 1})
  OBVIOUS
<1>5. hi \in lo - 1..n
  <2> DEFINE S == {i \in lo..n : w[i] \notin back} \cup {lo - 1}
  <2>1. S \subseteq 0..n /\ S # {} /\ S \subseteq lo - 1..n
    BY <1>3
  <2>2. hi = Max(S)
    BY <1>4
  <2> HIDE DEF S
  <2>3. hi \in S
    BY <2>1, <2>2, HasMax
  <2> QED BY <2>1, <2>3
<1>6. Stripped(w, front, back) = SubSeq(w, lo, hi)
  BY <1>1, <1>2, <1>4, Zenon DEF Stripped
<1>7. IsPart(C, w, lo, hi, SubSeq(w, lo, hi))
  BY <1>1, <1>3, <1>5, PartOf
<1>8. PICK v : v = Stripped(w, front, back)
  OBVIOUS
<1>9. v \in Seq(C) /\ Len(v) = hi - lo + 1 /\ Len(v) \in Nat
  BY <1>3, <1>5, <1>6, <1>7, <1>8 DEF IsPart
<1>10. w = <<>> => v = <<>>
  <2>1. n = 0 => hi - lo + 1 <= 0
    BY <1>3, <1>5
  <2>2. n = 0 => Len(v) = 0
    BY <1>9, <2>1
  <2> QED BY <1>1, <1>9, <2>2
<1> QED BY <1>8, <1>9, <1>10

(* A turn of the loop of fgen_strtok: the array m2 and the token y after   *)
(* it, and where the loop goes on.                                         *)
Turned(C, m, ts, o, a, s, D, m2, y, a2) ==
  /\ Loop(C, m2, Append(ts, y), o, a2, s, D)
  /\ SameBut(C, m, m2, o + 1, o + Len(s) + 1) /\ y \in Nat

(* It finds the next field of the text. *)
LEMMA LoopTurn ==
  ASSUME NEW C, NUL \notin C, NEW D, NUL \notin D, NEW s \in Seq(C),
         NEW m \in Seq(C \cup {NUL}), NEW o, NEW a, NEW ts \in Seq(Nat),
         Loop(C, m, ts, o, a, s, D), strtok_r(m, a, D).found
  PROVE  LET k == strtok_r(m, a, D)
             t == strtrim(k.mem, k.at)
         IN  Turned(C, m, ts, o, a, s, D, t.mem, t.at, k.saved)
<1>1. PICK n \in Nat : n = Len(s)
  OBVIOUS
<1>2. PICK L \in Nat : L = Len(m)
  OBVIOUS
<1>3. Unread(m, o, a, s, D) /\ Read(C, m, ts, o, a, s, D)
  BY DEF Loop
<1>4. PICK c \in Int : c = a - o
  BY <1>3 DEF Unread
<1>5. /\ o \in Nat /\ o + n + 1 <= L /\ a \in o + 1..o + n + 1 /\ c >= 1 /\ c \in 1..n + 1
      /\ \A j \in c..n : m[o + j] = s[j]
      /\ m[o + n + 1] = NUL
  BY <1>1, <1>2, <1>3, <1>4 DEF Unread
<1>6. PICK k : k = strtok_r(m, a, D)
  OBVIOUS
<1>7. PICK b, e \in Int : Finds(m, o, a, s, D, k, b, e)
  BY <1>2, <1>3, <1>6, StrtokFinds
<1>8. NextRun(s, D, c, b, e)
  BY <1>4, <1>7 DEF Finds
<1>9. /\ k.at = o + b /\ k.saved = o + Behind(s, e) /\ k.mem = [m EXCEPT ![o + e] = NUL]
  BY <1>7 DEF Finds
<1>10. /\ b \in 1..n /\ e \in b + 1..n + 1 /\ c <= b
       /\ \A i \in b..e - 1 : s[i] \notin D
       /\ e = n + 1 \/ s[e] \in D
  BY <1>1, <1>8 DEF NextRun, IsRun
<1>11. PICK m1 : m1 = k.mem
  OBVIOUS
<1>12. PICK x \in Int : x = o + b
  BY <1>5
<1>0. /\ o \in Nat /\ a \in Int /\ o + n + 1 <= L /\ o + 1 <= a /\ a <= o + n + 1 /\ c >= 1
      /\ 1 <= b /\ b < e /\ e <= n + 1 /\ c <= b /\ x = o + b /\ c = a - o
  BY <1>4, <1>5, <1>10, <1>12
<1>13. /\ m1 \in Seq(C \cup {NUL}) /\ Len(m1) = L /\ m1[o + e] = NUL
       /\ \A j \in 1..L : j # o + e => m1[j] = m[j]
  <2>1. PICK A : A = C \cup {NUL}
    OBVIOUS
  <2>2. PICK q : q = o + e
    OBVIOUS
  <2>3. q \in 1..Len(m)
    BY <1>2, <1>5, <1>10, <2>2
  <2>4. IsCut(A, m, q, m1)
    BY <1>9, <1>11, <2>1, <2>2, <2>3, CutArray
  <2> QED BY <1>2, <2>1, <2>2, <2>4 DEF IsCut
<1>14. PICK w : w = SubSeq(s, b, e - 1)
  OBVIOUS
<1>15. w \in Seq(C) /\ Len(w) = e - b /\ \A i \in 1..e - b : w[i] = s[b + i - 1]
  <2>1. IsPart(C, s, b, e - 1, w)
    BY <1>1, <1>10, <1>14, PartOf
  <2>2. (e - 1) - b + 1 = e - b
    OBVIOUS
  <2> QED BY <2>1, <2>2 DEF IsPart
<1>16. \A j \in 1..Len(w) : w[j] \notin D
  <2> SUFFICES ASSUME NEW j \in 1..Len(w) PROVE w[j] \notin D
    OBVIOUS
  <2>1. b + j - 1 \in b..e - 1 /\ j \in 1..e - b
    BY <1>10, <1>15
  <2> QED BY <1>10, <1>15, <2>1
<1>17. Holds(m1, x, w)
  <2>1. x \in 1..L /\ x + Len(w) <= L /\ x + Len(w) = o + e
    BY <1>5, <1>10, <1>12, <1>15
  <2>2. ASSUME NEW j \in 1..Len(w) PROVE m1[x + j - 1] = w[j]
    <3>1. x + j - 1 \in 1..L /\ x + j - 1 # o + e /\ x + j - 1 = o + (b + j - 1)
      BY <1>5, <1>10, <1>12, <1>15, <2>1
    <3>2. b + j - 1 \in c..n /\ j \in 1..e - b
      BY <1>5, <1>10, <1>15
    <3> QED BY <1>5, <1>13, <1>15, <3>1, <3>2
  <2> QED BY <1>13, <2>1, <2>2 DEF Holds
<1>18. PICK v : v = Stripped(w, Space, Space)
  OBVIOUS
<1>19. PICK y, m2 : y = strtrim(m1, x).at /\ m2 = strtrim(m1, x).mem
  OBVIOUS
<1>20. Trims(C, m1, x, w, y, m2, v)
  <2>1. NUL \notin Space
    BY DEF NUL, TAB, Space
  <2> QED BY <1>13, <1>15, <1>17, <1>18, <1>19, <2>1, TrimHolds DEF strtrim
<1>21. /\ v \in Seq(C) /\ Holds(m2, y, v) /\ x <= y /\ y + Len(v) <= o + e
       /\ m2[o + e] = NUL /\ SameBut(C, m1, m2, x, o + e)
  <2>1. x + Len(w) = o + e
    BY <1>5, <1>10, <1>12, <1>15
  <2> QED BY <1>20, <2>1 DEF Trims
<1>22. y \in Nat /\ y >= x
  BY <1>5, <1>10, <1>12, <1>21 DEF Holds
<1>23. SameBut(C, m, m2, x, o + e)
  <2>1. SameBut(C, m, m1, x, o + e)
    <3>1. \A j \in 1..L : j < x \/ o + e < j => j # o + e
      BY <1>5, <1>10, <1>12
    <3> QED BY <1>2, <1>13, <3>1 DEF SameBut
  <2>2. o + e \in Int /\ x <= x /\ o + e <= o + e
    BY <1>5
  <2> QED BY <1>2, <1>21, <2>1, <2>2, SameButBoth
<1>24. SameBut(C, m, m2, o + 1, o + n + 1)
  <2>1. \A j \in 1..L : j < o + 1 \/ o + n + 1 < j => j < x \/ o + e < j
    BY <1>5, <1>10, <1>12
  <2> QED BY <1>2, <1>23, <2>1 DEF SameBut
<1>25. PICK a2 \in Int : a2 = k.saved
  BY <1>5, <1>9, <1>10 DEF Behind
<1>26. /\ a2 = o + Behind(s, e) /\ a2 - o = Behind(s, e)
       /\ a2 \in o + 1..o + n + 1 /\ o + e <= a2 /\ (e # n + 1 => a2 = o + e + 1)
       /\ (e = n + 1 => a2 = o + n + 1)
  <2>1. a2 = o + Behind(s, e) /\ Behind(s, e) = IF e = n + 1 THEN e ELSE e + 1
    BY <1>1, <1>9, <1>25 DEF Behind
  <2> QED BY <1>0, <2>1
<1>27. Unread(m2, o, a2, s, D)
  <2>1. Len(m2) = L /\ \A j \in 1..L : j < x \/ o + e < j => m2[j] = m[j]
    BY <1>2, <1>23 DEF SameBut
  <2>2. ASSUME NEW j \in a2 - o..n PROVE m2[o + j] = s[j]
    <3>1. e # n + 1
      BY <1>5, <1>26
    <3>2. o + j \in 1..L /\ o + e < o + j /\ j \in c..n
      BY <1>0, <1>26, <3>1
    <3> QED BY <1>5, <2>1, <3>2
  <2>3. m2[o + n + 1] = NUL
    <3>1. CASE e = n + 1
      <4>1. o + e = o + n + 1
        BY <1>0, <3>1
      <4> QED BY <1>21, <4>1
    <3>2. CASE e # n + 1
      <4>1. o + n + 1 \in 1..L /\ o + e < o + n + 1
        BY <1>0, <3>2
      <4> QED BY <1>5, <2>1, <4>1
    <3> QED BY <3>1, <3>2
  <2>4. a2 = o + n + 1 \/ s[a2 - o - 1] \in D
    <3>1. e # n + 1 => a2 - o - 1 = e
      BY <1>5, <1>26
    <3> QED BY <1>10, <1>26, <3>1
  <2> QED BY <1>1, <1>5, <1>26, <2>1, <2>2, <2>3, <2>4 DEF Unread
<1>28. /\ Len(ts) \in Nat
       /\ Len(ts) + 1 \in 1..Cardinality(Runs(s, D))
       /\ Cardinality(RunsBefore(s, D, a2 - o)) = Len(ts) + 1
       /\ Field(s, D, Len(ts) + 1) = w
  <2>1. IsOneMore(s, D, e, w, Cardinality(RunsBefore(s, D, c)))
    BY <1>0, <1>1, <1>8, <1>14, OneRunMore
  <2>2. Len(ts) = Cardinality(RunsBefore(s, D, c))
    BY <1>4 DEF Loop
  <2>3. IsOneMore(s, D, e, w, Len(ts))
    BY <2>1, <2>2
  <2> QED BY <1>26, <2>3 DEF IsOneMore
<1>29. PICK g \in Nat : g = Len(ts)
  BY <1>28
<1>30. PICK t2 : t2 = Append(ts, y)
  OBVIOUS
<1>31. /\ t2 \in Seq(Nat) /\ Len(t2) = g + 1 /\ t2[g + 1] = y
       /\ \A i \in 1..g : t2[i] = ts[i]
  BY <1>22, <1>29, <1>30
<1>32. Token(s, D, g + 1) = v /\ Field(s, D, g + 1) = w
  BY <1>18, <1>28, <1>29 DEF Token
<1>33. ASSUME NEW i \in 1..g
       PROVE  /\ Field(s, D, i) \in Seq(C)
              /\ \A j \in 1..Len(Field(s, D, i)) : Field(s, D, i)[j] \notin D
              /\ Holds(m2, ts[i], Token(s, D, i))
              /\ o < ts[i] /\ ts[i] + Len(Token(s, D, i)) <= a2
              /\ ts[i] + Len(Token(s, D, i)) < y
  <2>1. PICK z, u : z = ts[i] /\ u = Token(s, D, i)
    OBVIOUS
  <2>2. /\ Field(s, D, i) \in Seq(C)
        /\ \A j \in 1..Len(Field(s, D, i)) : Field(s, D, i)[j] \notin D
        /\ Holds(m, z, u) /\ o < z /\ z + Len(u) <= a
    BY <1>3, <1>29, <2>1 DEF Read
  <2>3. z \in Nat
    BY <1>29, <2>1
  <2>4. Len(u) \in Nat
    BY <2>1, <2>2, StrippedLen DEF Token
  <2>5. z + Len(u) < x
    <3>1. m[z + Len(u)] = NUL
      BY <2>2 DEF Holds
    <3>2. m[x] # NUL
      <4>1. b \in c..n /\ o + b = x /\ s[b] \in C
        BY <1>1, <1>5, <1>10, <1>12
      <4>2. m[x] = s[b]
        BY <1>5, <4>1
      <4> QED BY <4>1, <4>2
    <3>3. a <= x
      BY <1>4, <1>5, <1>10, <1>12
    <3>4. z + Len(u) # x
      BY <3>1, <3>2
    <3>5. PICK h \in Nat : h = z + Len(u)
      BY <2>3, <2>4
    <3>6. h <= a /\ h # x
      BY <2>2, <3>4, <3>5
    <3>7. h < x
      BY <1>0, <3>3, <3>6
    <3> QED BY <3>5, <3>7
  <2>6. Holds(m2, z, u)
    <3>1. o + e \in Int /\ z \in Int
      BY <1>5, <2>3
    <3> QED BY <1>2, <1>23, <2>2, <2>4, <2>5, <3>1, HoldsStill
  <2>7. z + Len(u) <= a2 /\ z + Len(u) < y
    <3>1. x <= a2
      BY <1>5, <1>10, <1>12, <1>26
    <3> QED BY <1>22, <2>3, <2>4, <2>5, <3>1
  <2> QED BY <2>1, <2>2, <2>6, <2>7
<1>34. o < y /\ y + Len(v) <= a2
  <2>1. Len(v) \in Nat
    BY <1>21
  <2>2. y \in Nat /\ x <= y /\ y + Len(v) <= o + e /\ o + e <= a2 /\ a2 \in Int
    BY <1>0, <1>21, <1>22, <1>26
  <2> QED BY <1>0, <2>1, <2>2
<1>35. Read(C, m2, t2, o, a2, s, D)
  <2>1. ASSUME NEW i \in 1..g + 1
        PROVE  /\ Field(s, D, i) \in Seq(C)
               /\ \A j \in 1..Len(Field(s, D, i)) : Field(s, D, i)[j] \notin D
               /\ Holds(m2, t2[i], Token(s, D, i))
               /\ o < t2[i] /\ t2[i] + Len(Token(s, D, i)) <= a2
    <3>1. CASE i = g + 1
      BY <1>15, <1>16, <1>21, <1>31, <1>32, <1>34, <3>1, Zenon
    <3>2. CASE i \in 1..g
      BY <1>31, <1>33, <3>2, Zenon
    <3> QED BY <3>1, <3>2
  <2>2. ASSUME NEW j \in 1..g + 1, NEW i \in 1..g + 1, j < i
        PROVE  t2[j] + Len(Token(s, D, j)) < t2[i]
    <3>1. j \in 1..g
      BY <2>2
    <3>2. CASE i = g + 1
      BY <1>31, <1>33, <3>1, <3>2, Zenon
    <3>3. CASE i \in 1..g
      <4>1. ts[j] + Len(Token(s, D, j)) < ts[i]
        BY <1>3, <1>29, <2>2, <3>1, <3>3 DEF Read
      <4> QED BY <1>31, <3>1, <3>3, <4>1, Zenon
    <3> QED BY <3>2, <3>3
  <2> QED BY <1>31, <2>1, <2>2 DEF Read
<1>36. Loop(C, m2, t2, o, a2, s, D)
  BY <1>27, <1>28, <1>29, <1>31, <1>35 DEF Loop
<1>37. Turned(C, m, ts, o, a, s, D, m2, y, a2)
  BY <1>1, <1>22, <1>24, <1>30, <1>36 DEF Turned
<1> QED BY <1>6, <1>9, <1>11, <1>12, <1>19, <1>25, <1>37

-----------------------------------------------------------------------------
(* fs are the words that the tokens ts are to hold, in front of a. *)
HeldWords(C, m, ts, o, a, fs) ==
  /\ fs \in Seq(Seq(C)) /\ Len(fs) = Len(ts)
  /\ \A i \in 1..Len(ts) :
       Holds(m, ts[i], fs[i]) /\ o < ts[i] /\ ts[i] + Len(fs[i]) <= a
  /\ \A k, i \in 1..Len(ts) : k < i => ts[k] + Len(fs[k]) < ts[i]

(* The first g fields, all or as many as fit, trimmed: a sequence of words. *)
IsFirst(C, s, D, g, fs) ==
  /\ fs \in Seq(Seq(C)) /\ Len(fs) = g
  /\ \A i \in 1..g : fs[i] = Token(s, D, i)

(* AtMost gives the first fields. *)
LEMMA FirstFields ==
  ASSUME NEW C, NEW s, Len(s) \in Nat, NEW D, NEW k \in Nat, NEW g \in Nat,
         g = IF k <= Cardinality(Runs(s, D)) THEN k ELSE Cardinality(Runs(s, D)),
         \A i \in 1..g : Token(s, D, i) \in Seq(C)
  PROVE  IsFirst(C, s, D, g, AtMost(k, Words(s, D)))
<1>1. PICK N \in Nat : N = Cardinality(Runs(s, D))
  BY RunsFinite
<1>2. PICK F : F = Words(s, D)
  OBVIOUS
<1> DEFINE e(i) == LET r == CHOOSE r \in Runs(s, D) : Place(Runs(s, D), r) = i
                   IN  SubSeq(s, r[1], r[2])
<1>3. /\ DOMAIN F = 1..N /\ F = [i \in 1..N |-> F[i]]
      /\ \A i \in 1..N : F[i] = Token(s, D, i)
  <2>1. PICK G : G = Fields(s, D)
    OBVIOUS
  <2>2. G = [i \in 1..N |-> e(i)]
    BY <1>1, <2>1, Zenon DEF Fields
  <2>3. DOMAIN G = 1..N
    <3> HIDE DEF e
    <3> QED BY <2>2
  <2> DEFINE t(i) == Stripped(G[i], Space, Space)
  <2>4. F = [i \in DOMAIN G |-> t(i)]
    BY <1>2, <2>1, Zenon DEF Words
  <2>5. \A i : t(i) = Token(s, D, i)
    BY <2>1 DEF Token, Field
  <2> HIDE DEF e, t
  <2> QED BY <2>3, <2>4, <2>5
<1>4. PICK S : S = {F[i] : i \in 1..N}
  OBVIOUS
<1>5. \A i \in 1..N : F[i] \in S
  BY <1>4
<1>6. F \in [1..N -> S]
  BY <1>3, <1>5
<1>7. F \in Seq(S)
  BY <1>1, <1>6, SeqDef
<1>8. Len(F) = N
  <2>1. Len(F) \in Nat /\ DOMAIN F = 1..Len(F)
    BY <1>7, LenProperties
  <2> QED BY <1>1, <1>3, <2>1
<1>9. Min({k, Len(F)}) = g
  <2>1. PICK S2 : S2 = {k, Len(F)}
    OBVIOUS
  <2>2. S2 \subseteq Int /\ g \in S2 /\ \A y \in S2 : g <= y
    BY <1>1, <1>8, <2>1
  <2>3. Min(S2) = g
    BY <2>2, MinIs
  <2> QED BY <2>1, <2>3
<1>10. AtMost(k, Words(s, D)) = SubSeq(F, 1, g)
  BY <1>2, <1>9, Zenon DEF AtMost
<1>11. \A i \in 1..g : i \in 1..N /\ F[i] \in Seq(C)
  <2>1. \A i \in 1..g : i \in 1..N
    BY <1>1
  <2> QED BY <1>3, <2>1
<1>12. PICK W : W = Seq(C)
  OBVIOUS
<1>13. /\ SubSeq(F, 1, g) \in Seq(W)
       /\ Len(SubSeq(F, 1, g)) = IF 1 <= g THEN g - 1 + 1 ELSE 0
       /\ \A i \in 1..g - 1 + 1 : SubSeq(F, 1, g)[i] = F[1 + i - 1]
  BY <1>11, <1>12, SubSeqProperties
<1>14. Len(SubSeq(F, 1, g)) = g /\ \A i \in 1..g : i \in 1..g - 1 + 1 /\ 1 + i - 1 = i
  BY <1>13
<1>15. \A i \in 1..g : SubSeq(F, 1, g)[i] = F[i]
  BY <1>13, <1>14
<1>16. \A i \in 1..g : SubSeq(F, 1, g)[i] = Token(s, D, i)
  BY <1>3, <1>11, <1>15
<1> QED BY <1>10, <1>12, <1>13, <1>14, <1>16 DEF IsFirst

(* The loop is over: ts is full, or no run is left. *)
Over(ts, s, D, a, o, k) ==
  Len(ts) = k \/ (Len(ts) <= k /\ RunsBefore(s, D, a - o) = Runs(s, D))

(* Then the tokens are the first fields of s, trimmed. *)
LEMMA LoopOver ==
  ASSUME NEW C, NEW D, NEW s \in Seq(C), NEW m, NEW o, NEW a, NEW ts \in Seq(Nat),
         Loop(C, m, ts, o, a, s, D), NEW k \in Nat, Over(ts, s, D, a, o, k)
  PROVE  IsFirst(C, s, D, Len(ts), AtMost(k, Words(s, D)))
<1>1. PICK g \in Nat : g = Len(ts)
  OBVIOUS
<1>2. \A i \in 1..g : Token(s, D, i) \in Seq(C)
  <2>1. \A i \in 1..g : Field(s, D, i) \in Seq(C)
    BY <1>1 DEF Loop, Read
  <2> QED BY <2>1, StrippedLen DEF Token
<1>3. PICK N \in Nat : N = Cardinality(Runs(s, D))
  BY RunsFinite
<1>4. g = Cardinality(RunsBefore(s, D, a - o))
  BY <1>1 DEF Loop
<1>5. g <= N
  <2>1. RunsBefore(s, D, a - o) \subseteq Runs(s, D) /\ IsFiniteSet(Runs(s, D))
    BY RunsFinite DEF RunsBefore
  <2> QED BY <1>3, <1>4, <2>1, FS_Subset
<1>6. g = k \/ (g <= k /\ g = N)
  BY <1>1, <1>3, <1>4 DEF Over
<1>7. g = IF k <= N THEN k ELSE N
  BY <1>5, <1>6
<1> QED BY <1>1, <1>2, <1>3, <1>7, FirstFields

(* So they hold the words of s. *)
LEMMA FieldWords ==
  ASSUME NEW C, NEW D, NEW s \in Seq(C), NEW m, NEW o, NEW a,
         NEW ts \in Seq(Nat), Loop(C, m, ts, o, a, s, D), NEW k \in Nat,
         Over(ts, s, D, a, o, k)
  PROVE  HeldWords(C, m, ts, o, a, AtMost(k, Words(s, D)))
<1>1. PICK fs : fs = AtMost(k, Words(s, D))
  OBVIOUS
<1>2. IsFirst(C, s, D, Len(ts), fs)
  BY <1>1, LoopOver
<1>3. /\ fs \in Seq(Seq(C)) /\ Len(fs) = Len(ts)
      /\ \A i \in 1..Len(ts) : Token(s, D, i) = fs[i]
  BY <1>2 DEF IsFirst
<1>4. Read(C, m, ts, o, a, s, D)
  BY DEF Loop
<1>5. ASSUME NEW i \in 1..Len(ts)
      PROVE  Holds(m, ts[i], fs[i]) /\ o < ts[i] /\ ts[i] + Len(fs[i]) <= a
  <2>1. Holds(m, ts[i], Token(s, D, i)) /\ o < ts[i] /\ ts[i] + Len(Token(s, D, i)) <= a
    BY <1>4 DEF Read
  <2> QED BY <1>3, <2>1, Zenon
<1>6. ASSUME NEW j \in 1..Len(ts), NEW i \in 1..Len(ts), j < i
      PROVE  ts[j] + Len(fs[j]) < ts[i]
  <2>1. ts[j] + Len(Token(s, D, j)) < ts[i]
    BY <1>4, <1>6 DEF Read
  <2> QED BY <1>3, <2>1, Zenon
<1>7. HeldWords(C, m, ts, o, a, fs)
  BY <1>3, <1>5, <1>6 DEF HeldWords
<1> QED BY <1>1, <1>7

(* What Str reads where the array holds a word. *)
LEMMA StrIs ==
  ASSUME NEW C, NUL \notin C, NEW m \in Seq(C \cup {NUL}), NEW x \in Int, NEW w \in Seq(C),
         Holds(m, x, w)
  PROVE  SubSeq(m, x, StrEnd(m, x) - 1) = w
<1>1. PICK n \in Nat : n = Len(w)
  OBVIOUS
<1>2. /\ x \in 1..Len(m) /\ x + n <= Len(m) /\ m[x + n] = NUL /\ Len(m) \in Nat
      /\ \A j \in 1..n : m[x + j - 1] = w[j] /\ w[j] \in C
  BY <1>1 DEF Holds
<1>3. \A j \in x..x + n - 1 : m[j] \in C /\ m[j] # NUL
  <2> SUFFICES ASSUME NEW j \in x..x + n - 1 PROVE m[j] \in C /\ m[j] # NUL
    OBVIOUS
  <2>1. j - x + 1 \in 1..n /\ x + (j - x + 1) - 1 = j
    BY <1>2
  <2> QED BY <1>2, <2>1
<1>4. StrEnd(m, x) = x + n
  <2>1. EndsAt(m, x, x + n)
    <3>1. x + n \in x..Len(m)
      BY <1>2
    <3> QED BY <1>2, <1>3, <3>1 DEF EndsAt
  <2> QED BY <1>2, <2>1, StrEndIs
<1>5. PICK hi \in Int : hi = x + n - 1
  BY <1>2
<1>6. PICK v : v = SubSeq(m, x, hi)
  OBVIOUS
<1>7. /\ v \in Seq(C) /\ Len(v) = IF x <= hi THEN hi - x + 1 ELSE 0
      /\ \A i \in 1..hi - x + 1 : v[i] = m[x + i - 1]
  <2>1. \A j \in x..hi : m[j] \in C
    BY <1>3, <1>5
  <2> QED BY <1>6, <2>1, SubSeqProperties
<1>8. Len(v) = n /\ hi - x + 1 = n
  BY <1>5, <1>7
<1>9. \A i \in 1..Len(v) : v[i] = w[i]
  BY <1>2, <1>7, <1>8
<1>10. v = w
  BY <1>1, <1>7, <1>8, <1>9, SeqEqual
<1> QED BY <1>4, <1>5, <1>6, <1>10

-----------------------------------------------------------------------------
(* Two trims, one after the other. *)
LEMMA TrimsBoth ==
  ASSUME NEW C, NEW m, Len(m) \in Nat, NEW x \in Int, NEW w \in Seq(C), Holds(m, x, w),
         NEW y \in Int, NEW m2, NEW v \in Seq(C), Trims(C, m, x, w, y, m2, v),
         NEW z \in Int, NEW m3, NEW u, Trims(C, m2, y, v, z, m3, u)
  PROVE  Trims(C, m, x, w, z, m3, u)
<1>1. /\ x <= y /\ y + Len(v) <= x + Len(w) /\ m2[x + Len(w)] = NUL
      /\ SameBut(C, m, m2, x, x + Len(w)) /\ Holds(m2, y, v)
  BY DEF Trims
<1>2. /\ u \in Seq(C) /\ Holds(m3, z, u)
      /\ y <= z /\ z + Len(u) <= y + Len(v) /\ m3[y + Len(v)] = NUL
      /\ SameBut(C, m2, m3, y, y + Len(v))
  BY DEF Trims
<1>3. Len(w) \in Nat /\ Len(v) \in Nat /\ Len(u) \in Nat
  BY <1>2
<1>4. x <= z /\ z + Len(u) <= x + Len(w)
  BY <1>1, <1>2, <1>3
<1>5. SameBut(C, m, m3, x, x + Len(w))
  <2>1. x + Len(w) \in Int /\ y + Len(v) \in Int
    BY <1>3
  <2> QED BY <1>1, <1>2, <2>1, SameButBoth
<1>6. m3[x + Len(w)] = NUL
  <2>1. CASE x + Len(w) = y + Len(v)
    BY <1>2, <2>1
  <2>2. CASE x + Len(w) # y + Len(v)
    <3>1. y + Len(v) < x + Len(w)
      BY <1>1, <1>3, <2>2
    <3>2. PICK q \in Int : q = x + Len(w)
      BY <1>3
    <3>3. q \in 1..Len(m2)
      <4>1. Len(m2) = Len(m) /\ y \in 1..Len(m2)
        BY <1>1 DEF SameBut, Holds
      <4>2. q <= Len(m)
        BY <3>2 DEF Holds
      <4> QED BY <1>3, <3>1, <3>2, <4>1, <4>2
    <3>4. m3[q] = m2[q]
      BY <1>2, <3>1, <3>2, <3>3 DEF SameBut
    <3> QED BY <1>1, <3>2, <3>4
  <2> QED BY <2>1, <2>2
<1> QED BY <1>2, <1>4, <1>5, <1>6 DEF Trims

(* strtrimset(strtrim(str)), the parentheses taken away. *)
LEMMA BareHolds ==
  ASSUME NEW C, NUL \notin C, NEW m \in Seq(C \cup {NUL}), NEW x \in Int, NEW w \in Seq(C),
         Holds(m, x, w)
  PROVE  Trims(C, m, x, w, Bare(m, x).at, Bare(m, x).mem, Unparen(w))
<1>1. PICK F, B : F = Space \cup {"("} /\ B = Space \cup {")"}
  OBVIOUS
<1>2. NUL \notin Space /\ NUL \notin F
  BY <1>1 DEF NUL, TAB, Space
<1>3. PICK y, m2, v : /\ y = strtrim(m, x).at /\ m2 = strtrim(m, x).mem
                      /\ v = Stripped(w, Space, Space)
  OBVIOUS
<1>4. Trims(C, m, x, w, y, m2, v)
  BY <1>2, <1>3, TrimHolds DEF strtrim
<1>5. v \in Seq(C) /\ Holds(m2, y, v) /\ m2 \in Seq(C \cup {NUL}) /\ y \in Int
  BY <1>4 DEF Trims, SameBut, Holds
<1>6. PICK t : t = Trim(m2, y, F, B)
  OBVIOUS
<1>7. Trims(C, m2, y, v, t.at, t.mem, Stripped(v, F, B))
  BY <1>2, <1>5, <1>6, TrimHolds
<1>8. t.at \in Int /\ Len(m) \in Nat
  BY <1>7 DEF Trims, Holds
<1>9. Trims(C, m, x, w, t.at, t.mem, Stripped(v, F, B))
  BY <1>4, <1>5, <1>7, <1>8, TrimsBoth
<1>10. Bare(m, x) = t
  BY <1>1, <1>3, <1>6, Zenon DEF Bare, strtrimset
<1>11. Unparen(w) = Stripped(v, F, B)
  BY <1>1, <1>3, Zenon DEF Unparen
<1> QED BY <1>9, <1>10, <1>11

(* The loop begins at a word. *)
LEMMA LoopStarts ==
  ASSUME NEW C, NUL \notin C, NEW D, NEW m, Len(m) \in Nat, NEW y, NEW v \in Seq(C),
         Holds(m, y, v)
  PROVE  /\ Loop(C, m, <<>>, y - 1, y, v, D)
         /\ m[y] = NUL => \A k \in Nat : Over(<<>>, v, D, y, y - 1, k)
<1>1. PICK n \in Nat : n = Len(v)
  OBVIOUS
<1>2. /\ y \in 1..Len(m) /\ y + n <= Len(m) /\ m[y + n] = NUL
      /\ \A j \in 1..n : m[y + j - 1] = v[j] /\ v[j] # NUL
  BY <1>1 DEF Holds
<1>3. y - (y - 1) = 1 /\ y - 1 \in Nat /\ (y - 1) + n + 1 = y + n /\ (y - 1) + 1 = y
  BY <1>2
<1>4. \A j \in 1..n : (y - 1) + j = y + j - 1
  BY <1>2
<1>5. Unread(m, y - 1, y, v, D)
  <2>1. y \in y..y + n
    BY <1>2
  <2> QED BY <1>1, <1>2, <1>3, <1>4, <2>1 DEF Unread
<1>6. Len(<<>>) = 0
  OBVIOUS
<1>7. Read(C, m, <<>>, y - 1, y, v, D)
  BY <1>6 DEF Read
<1>8. RunsBefore(v, D, 1) = {}
  <2>1. \A q \in Runs(v, D) : q[1] \in 1..n
    BY <1>1, RunsFinite
  <2> QED BY <2>1 DEF RunsBefore
<1>9. Len(<<>>) = Cardinality(RunsBefore(v, D, y - (y - 1)))
  BY <1>3, <1>6, <1>8, FS_EmptySet
<1>10. ASSUME m[y] = NUL, NEW k \in Nat PROVE Over(<<>>, v, D, y, y - 1, k)
  <2>1. n = 0
    <3>1. n # 0 => 1 \in 1..n /\ y + 1 - 1 = y
      BY <1>2
    <3> QED BY <1>2, <1>10, <3>1
  <2>2. \A i \in 1..Len(v) : v[i] \in D
    BY <1>1, <2>1
  <2>3. RunsBefore(v, D, 1) = Runs(v, D)
    BY <1>1, <2>2, NoRunLeft
  <2> QED BY <1>3, <1>6, <2>3 DEF Over
<1> QED BY <1>5, <1>7, <1>9, <1>10 DEF Loop

(* A word without a first character is read as no field at all. *)
LEMMA NoWords ==
  ASSUME NEW C, NUL \notin C, NEW D, NEW m, Len(m) \in Nat, NEW y, NEW v \in Seq(C),
         Holds(m, y, v), m[y] = NUL, NEW k \in Nat
  PROVE  AtMost(k, Words(v, D)) = <<>>
<1>1. Loop(C, m, <<>>, y - 1, y, v, D) /\ Over(<<>>, v, D, y, y - 1, k)
  BY LoopStarts
<1>2. <<>> \in Seq(Nat) /\ Len(<<>>) = 0
  OBVIOUS
<1>3. IsFirst(C, v, D, Len(<<>>), AtMost(k, Words(v, D)))
  <2>1. PICK ts : ts = <<>> /\ ts \in Seq(Nat)
    BY <1>2
  <2>2. PICK o : o = y - 1
    OBVIOUS
  <2>3. Loop(C, m, ts, o, y, v, D) /\ Over(ts, v, D, y, o, k)
    BY <1>1, <2>1, <2>2
  <2>4. IsFirst(C, v, D, Len(ts), AtMost(k, Words(v, D)))
    BY <2>1, <2>3, LoopOver
  <2> QED BY <2>1, <2>4
<1>4. PICK fs : fs = AtMost(k, Words(v, D))
  OBVIOUS
<1>5. fs \in Seq(Seq(C)) /\ Len(fs) = 0
  BY <1>2, <1>3, <1>4 DEF IsFirst
<1>6. fs = <<>>
  BY <1>5
<1> QED BY <1>4, <1>6

(* strtrim leaves nothing of a string that is nothing but white space. *)
LEMMA BlankIs ==
  ASSUME NEW C, NUL \notin C, NEW m \in Seq(C \cup {NUL}), NEW x \in Int, NEW w \in Seq(C),
         Holds(m, x, w)
  PROVE  Blank(m, x) <=> Spaces(w)
<1>1. NUL \notin Space
  BY DEF NUL, TAB, Space
<1>2. PICK y, m2, v : /\ y = strtrim(m, x).at /\ m2 = strtrim(m, x).mem
                      /\ v = Stripped(w, Space, Space)
  OBVIOUS
<1>3. Trims(C, m, x, w, y, m2, v)
  BY <1>1, <1>2, TrimHolds DEF strtrim
<1>4. PICK n \in Nat : n = Len(v)
  BY <1>3 DEF Trims
<1>5. /\ v \in Seq(C) /\ y \in Int /\ m2[y + n] = NUL
      /\ \A j \in 1..n : m2[y + j - 1] = v[j] /\ v[j] \in C
  BY <1>3, <1>4 DEF Trims, Holds
<1>6. m2[y] = NUL <=> n = 0
  <2>1. n = 0 => m2[y] = NUL
    BY <1>5
  <2>2. n # 0 => 1 \in 1..n /\ y + 1 - 1 = y
    BY <1>5
  <2>3. n # 0 => m2[y] \in C
    BY <1>5, <2>2
  <2> QED BY <2>1, <2>3
<1>7. v = <<>> <=> n = 0
  BY <1>4, <1>5
<1>8. Blank(m, x) <=> m2[y] = NUL
  BY <1>2, Zenon DEF Blank
<1> QED BY <1>2, <1>6, <1>7, <1>8 DEF Spaces

-----------------------------------------------------------------------------
(* A word of a sequence of words. *)
LEMMA WordOf ==
  ASSUME NEW C, NEW fs \in Seq(Seq(C)), NEW h \in 1..Len(fs)
  PROVE  fs[h] \in Seq(C) /\ Len(fs[h]) \in Nat
OBVIOUS

(* A change in front of the pieces to be read leaves them there. *)
LEMMA PendingStill ==
  ASSUME NEW C, NEW m, Len(m) \in Nat, NEW m2, NEW lo \in Int, NEW hi \in Int,
         SameBut(C, m, m2, lo, hi), NEW ps, NEW P \in Seq(Seq(C)), NEW n \in Nat, n >= 1,
         NEW x \in Int, Pending(m, ps, P, n, x), hi <= x
  PROVE  Pending(m2, ps, P, n, x)
<1>1. PICK l \in Nat : l = Len(ps)
  BY DEF Pending
<1>2. ps \in Seq(Nat) /\ n + l = Len(P) + 1
  BY <1>1 DEF Pending
<1>3. ASSUME NEW k \in 1..l PROVE Holds(m2, ps[k], P[n + k - 1])
  <2>1. n + k - 1 \in 1..Len(P)
    BY <1>2
  <2>2. P[n + k - 1] \in Seq(C) /\ Len(P[n + k - 1]) \in Nat
    BY <2>1
  <2>3. ps[k] \in Int
    BY <1>1, <1>2
  <2>4. Holds(m, ps[k], P[n + k - 1]) /\ hi < ps[k]
    <3>1. Holds(m, ps[k], P[n + k - 1]) /\ x < ps[k]
      BY <1>1 DEF Pending
    <3> QED BY <2>3, <3>1
  <2>5. PICK w : w = P[n + k - 1]
    OBVIOUS
  <2>6. Len(w) \in Nat /\ Holds(m, ps[k], w)
    BY <2>2, <2>4, <2>5
  <2>7. Holds(m2, ps[k], w)
    BY <2>3, <2>4, <2>6, HoldsStill
  <2> QED BY <2>5, <2>7
<1> QED BY <1>1, <1>3 DEF Pending

(* A change behind the pairs that were read leaves them there. *)
LEMMA PairsStill ==
  ASSUME NEW C, NEW m, Len(m) \in Nat, NEW m2, NEW lo \in Int, NEW hi \in Int,
         SameBut(C, m, m2, lo, hi), NEW prs, NEW P, NEW x \in Int, NEW z \in Int,
         PairsKept(C, m, prs, P, x), x < lo, x <= z
  PROVE  PairsKept(C, m2, prs, P, z)
<1>1. PICK l \in Nat : l = Len(prs)
  BY DEF PairsKept
<1>2. ASSUME NEW i \in 1..l, NEW h \in 1..2
      PROVE  /\ Holds(m2, prs[i][h], KeyValue(P[i])[h])
             /\ prs[i][h] + Len(KeyValue(P[i])[h]) <= z
  <2>1. prs \in Seq(Nat \X Nat) /\ i \in 1..Len(prs)
    BY <1>1 DEF PairsKept
  <2>2. PICK kv : kv = KeyValue(P[i])
    OBVIOUS
  <2>3. /\ kv \in Seq(Seq(C)) /\ Len(kv) = 2
        /\ Holds(m, prs[i][h], kv[h]) /\ prs[i][h] + Len(kv[h]) <= x
    BY <1>1, <2>2 DEF PairsKept
  <2>4. kv[h] \in Seq(C) /\ Len(kv[h]) \in Nat
    <3>1. kv \in Seq(Seq(C)) /\ h \in 1..Len(kv)
      BY <2>3
    <3> QED BY <3>1, WordOf
  <2>5. prs[i][h] \in Int
    <3>1. prs[i] \in Nat \X Nat
      BY <2>1
    <3>2. h = 1 \/ h = 2
      OBVIOUS
    <3> QED BY <3>1, <3>2
  <2>6. PICK y, w : y = prs[i][h] /\ w = kv[h]
    OBVIOUS
  <2>7. y \in Int /\ y + Len(w) < lo /\ y + Len(w) <= z
    <3>1. y \in Int /\ Len(w) \in Nat /\ y + Len(w) <= x
      BY <2>3, <2>4, <2>5, <2>6
    <3> QED BY <3>1
  <2>8. Holds(m2, y, w)
    BY <2>3, <2>4, <2>6, <2>7, HoldsStill
  <2> QED BY <2>2, <2>6, <2>7, <2>8
<1> QED BY <1>1, <1>2 DEF PairsKept

(* The pieces, right after the loop of _encode_opts. *)
LEMMA PendingStarts ==
  ASSUME NEW C, NEW m, NEW ts \in Seq(Nat), NEW o \in Nat, NEW a, NEW P,
         HeldWords(C, m, ts, o, a, P)
  PROVE  /\ Pending(m, ts, P, 1, o) /\ PairsKept(C, m, <<>>, P, o)
         /\ P \in Seq(Seq(C)) /\ Len(P) = Len(ts)
<1>1. /\ P \in Seq(Seq(C)) /\ Len(P) = Len(ts) /\ Len(ts) \in Nat
  BY DEF HeldWords
<1>2. \A k \in 1..Len(ts) : 1 + k - 1 = k
  BY <1>1
<1>3. Pending(m, ts, P, 1, o)
  <2>1. 1 + Len(ts) = Len(P) + 1
    BY <1>1
  <2>2. \A k \in 1..Len(ts) : Holds(m, ts[k], P[1 + k - 1]) /\ o < ts[k]
    BY <1>2 DEF HeldWords
  <2>3. \A k, l \in 1..Len(ts) : k < l => ts[k] + Len(P[1 + k - 1]) < ts[l]
    BY <1>2 DEF HeldWords
  <2> QED BY <2>1, <2>2, <2>3 DEF Pending
<1>4. <<>> \in Seq(Nat \X Nat) /\ Len(<<>>) = 0
  OBVIOUS
<1>5. PairsKept(C, m, <<>>, P, o)
  BY <1>1, <1>4 DEF PairsKept
<1> QED BY <1>1, <1>3, <1>5

(* One piece is taken from the front. *)
LEMMA PendingTail ==
  ASSUME NEW C, NEW m, NEW ps, NEW P \in Seq(Seq(C)), NEW n \in Nat, n >= 1, NEW x,
         Pending(m, ps, P, n, x), ps # <<>>, NEW z \in Int, z <= Head(ps) + Len(P[n])
  PROVE  /\ Pending(m, Tail(ps), P, n + 1, z)
         /\ Head(ps) \in Nat /\ Holds(m, Head(ps), P[n]) /\ x < Head(ps)
         /\ n \in 1..Len(P) /\ P[n] \in Seq(C)
<1>1. PICK l \in Nat : l = Len(ps)
  BY DEF Pending
<1>2. ps \in Seq(Nat) /\ n + l = Len(P) + 1 /\ Len(P) \in Nat
  BY <1>1 DEF Pending
<1>3. l >= 1 /\ 1 \in 1..l /\ n \in 1..Len(P) /\ n + 1 - 1 = n
  BY <1>1, <1>2
<1>4. PICK ts : ts = Tail(ps)
  OBVIOUS
<1>5. /\ ts \in Seq(Nat) /\ Len(ts) = l - 1 /\ Head(ps) = ps[1] /\ ps[1] \in Nat
      /\ \A k \in 1..l - 1 : ts[k] = ps[k + 1] /\ ts[k] \in Nat
  <2>1. Tail(ps) \in Seq(Nat) /\ Len(Tail(ps)) = Len(ps) - 1
    BY <1>2, HeadTailProperties
  <2>2. \A k \in 1..Len(Tail(ps)) : Tail(ps)[k] = ps[k + 1]
    BY <1>2, HeadTailProperties
  <2>3. ts \in Seq(Nat) /\ Len(ts) = l - 1
    BY <1>1, <1>4, <2>1
  <2>4. \A k \in 1..l - 1 : ts[k] = ps[k + 1]
    BY <1>1, <1>4, <2>1, <2>2
  <2>5. \A k \in 1..l - 1 : ts[k] \in Nat
    BY <2>3, ElementOfSeq
  <2>6. Head(ps) = ps[1] /\ ps[1] \in Nat
    <3>1. Head(ps) = ps[1]
      BY <1>2
    <3>2. 1 \in 1..Len(ps)
      BY <1>1, <1>3
    <3> QED BY <1>2, <3>1, <3>2, ElementOfSeq
  <2> QED BY <2>3, <2>4, <2>5, <2>6
<1>6. P[n] \in Seq(C) /\ Len(P[n]) \in Nat
  BY <1>3
<1>7. /\ \A k \in 1..l : Holds(m, ps[k], P[n + k - 1]) /\ x < ps[k]
      /\ \A k, j \in 1..l : k < j => ps[k] + Len(P[n + k - 1]) < ps[j]
  BY <1>1 DEF Pending
<1>8. Holds(m, ps[1], P[n]) /\ x < ps[1]
  BY <1>3, <1>7
<1>9. \A k \in 1..l - 1 : k + 1 \in 1..l /\ n + (k + 1) - 1 = (n + 1) + k - 1 /\ 1 < k + 1
  BY <1>3
<1>10. ASSUME NEW k \in 1..l - 1 PROVE Holds(m, ts[k], P[(n + 1) + k - 1]) /\ z < ts[k]
  <2>1. Holds(m, ts[k], P[(n + 1) + k - 1])
    <3>1. Holds(m, ps[k + 1], P[n + (k + 1) - 1])
      BY <1>7, <1>9
    <3> QED BY <1>5, <1>9, <3>1
  <2>2. ps[1] + Len(P[n]) < ts[k]
    <3>1. ps[1] + Len(P[n + 1 - 1]) < ps[k + 1]
      BY <1>3, <1>7, <1>9
    <3> QED BY <1>3, <1>5, <3>1
  <2>3. z < ts[k]
    <3>1. ts[k] \in Nat /\ ps[1] \in Nat /\ z <= ps[1] + Len(P[n])
      BY <1>5
    <3> QED BY <1>6, <2>2, <3>1
  <2> QED BY <2>1, <2>3
<1>11. ASSUME NEW k \in 1..l - 1, NEW j \in 1..l - 1, k < j
       PROVE  ts[k] + Len(P[(n + 1) + k - 1]) < ts[j]
  <2>1. k + 1 < j + 1
    BY <1>11
  <2>2. ps[k + 1] + Len(P[n + (k + 1) - 1]) < ps[j + 1]
    BY <1>7, <1>9, <2>1
  <2> QED BY <1>5, <1>9, <2>2
<1>12. Pending(m, ts, P, n + 1, z)
  <2>1. (n + 1) + Len(ts) = Len(P) + 1
    <3>1. PICK d, g : d = Len(ts) /\ g = Len(P)
      OBVIOUS
    <3>2. d = l - 1 /\ g \in Nat /\ n + l = g + 1
      BY <1>2, <1>5, <3>1
    <3>3. (n + 1) + d = g + 1
      BY <3>2
    <3> QED BY <3>1, <3>3
  <2> QED BY <1>5, <1>10, <1>11, <2>1 DEF Pending
<1> QED BY <1>3, <1>4, <1>5, <1>6, <1>8, <1>12

(* One pair more is read. *)
LEMMA PairsMore ==
  ASSUME NEW C, NEW m, NEW prs, NEW P, NEW o \in Int, PairsKept(C, m, prs, P, o),
         NEW ts \in Seq(Nat), NEW a \in Int, Len(prs) + 1 \in 1..Len(P), Len(ts) = 2,
         HeldWords(C, m, ts, o, a, KeyValue(P[Len(prs) + 1])), NEW z \in Int, o <= z, a <= z
  PROVE  PairsKept(C, m, Append(prs, <<ts[1], ts[2]>>), P, z)
<1>1. PICK l, q : l = Len(prs) /\ q = Append(prs, <<ts[1], ts[2]>>)
  OBVIOUS
<1>2. /\ prs \in Seq(Nat \X Nat) /\ P \in Seq(Seq(C))
      /\ ts[1] \in Nat /\ ts[2] \in Nat /\ l \in Nat
  <2>1. prs \in Seq(Nat \X Nat) /\ P \in Seq(Seq(C))
    BY DEF PairsKept
  <2>2. 1 \in 1..Len(ts) /\ 2 \in 1..Len(ts)
    OBVIOUS
  <2>3. ts[1] \in Nat /\ ts[2] \in Nat
    <3>1. \A i \in 1..Len(ts) : ts[i] \in Nat
      BY ElementOfSeq
    <3> QED BY <2>2, <3>1
  <2>4. l \in Nat
    BY <1>1, <2>1
  <2> QED BY <2>1, <2>3, <2>4
<1>3. /\ q \in Seq(Nat \X Nat) /\ Len(q) = l + 1
      /\ q[l + 1] = <<ts[1], ts[2]>> /\ \A i \in 1..l : q[i] = prs[i]
  <2>1. PICK e : e = <<ts[1], ts[2]>> /\ e \in Nat \X Nat
    BY <1>2
  <2>2. q = Append(prs, e)
    BY <1>1, <2>1
  <2> QED BY <1>1, <1>2, <2>1, <2>2, AppendProperties
<1>4. PICK kv : kv = KeyValue(P[l + 1])
  OBVIOUS
<1>5. /\ kv \in Seq(Seq(C)) /\ Len(kv) = 2
      /\ \A h \in 1..2 : Holds(m, ts[h], kv[h]) /\ ts[h] + Len(kv[h]) <= a
  BY <1>1, <1>4 DEF HeldWords
<1>6. \A h \in 1..2 : q[l + 1][h] = ts[h] /\ ts[h] \in Nat
  BY <1>2, <1>3
<1>7. \A h \in 1..2 : kv[h] \in Seq(C) /\ Len(kv[h]) \in Nat
  <2>1. kv \in Seq(Seq(C)) /\ 1..2 = 1..Len(kv)
    BY <1>5
  <2> QED BY <2>1, WordOf
<1>8. \A h \in 1..2 : Holds(m, q[l + 1][h], kv[h]) /\ q[l + 1][h] + Len(kv[h]) <= z
  <2> SUFFICES ASSUME NEW h \in 1..2 PROVE Holds(m, ts[h], kv[h]) /\ ts[h] + Len(kv[h]) <= z
    BY <1>6
  <2>1. Holds(m, ts[h], kv[h]) /\ ts[h] + Len(kv[h]) <= a
    BY <1>5
  <2>2. ts[h] \in Nat /\ Len(kv[h]) \in Nat
    BY <1>6, <1>7
  <2>3. ts[h] + Len(kv[h]) <= z
    BY <2>1, <2>2
  <2> QED BY <2>1, <2>3
<1>9. ASSUME NEW i \in 1..l
      PROVE  /\ KeyValue(P[i]) \in Seq(Seq(C)) /\ Len(KeyValue(P[i])) = 2
             /\ \A h \in 1..2 : /\ Holds(m, prs[i][h], KeyValue(P[i])[h])
                                /\ prs[i][h] + Len(KeyValue(P[i])[h]) <= z
  <2>1. PICK w : w = KeyValue(P[i])
    OBVIOUS
  <2>2. /\ w \in Seq(Seq(C)) /\ Len(w) = 2
        /\ \A h \in 1..2 : Holds(m, prs[i][h], w[h]) /\ prs[i][h] + Len(w[h]) <= o
    BY <1>1, <2>1 DEF PairsKept
  <2>3. \A h \in 1..2 : w[h] \in Seq(C) /\ Len(w[h]) \in Nat
    <3>1. w \in Seq(Seq(C)) /\ 1..2 = 1..Len(w)
      BY <2>2
    <3> QED BY <3>1, WordOf
  <2>4. \A h \in 1..2 : prs[i][h] \in Nat
    <3>1. prs[i] \in Nat \X Nat
      BY <1>1, <1>2, ElementOfSeq
    <3>2. \A h \in 1..2 : h = 1 \/ h = 2
      OBVIOUS
    <3> QED BY <3>1, <3>2
  <2>5. ASSUME NEW h \in 1..2 PROVE prs[i][h] + Len(w[h]) <= z
    <3>1. prs[i][h] \in Nat /\ Len(w[h]) \in Nat /\ prs[i][h] + Len(w[h]) <= o
      BY <2>2, <2>3, <2>4
    <3> QED BY <3>1
  <2> QED BY <2>1, <2>2, <2>5
<1>10. ASSUME NEW i \in 1..l + 1
       PROVE  /\ KeyValue(P[i]) \in Seq(Seq(C)) /\ Len(KeyValue(P[i])) = 2
              /\ \A h \in 1..2 : /\ Holds(m, q[i][h], KeyValue(P[i])[h])
                                 /\ q[i][h] + Len(KeyValue(P[i])[h]) <= z
  <2>1. i \in 1..l \/ i = l + 1
    BY <1>2
  <2>2. CASE i \in 1..l
    BY <1>3, <1>9, <2>2
  <2>3. CASE i = l + 1
    BY <1>4, <1>5, <1>8, <2>3
  <2> QED BY <2>1, <2>2, <2>3
<1>11. PairsKept(C, m, q, P, z)
  <2>1. l + 1 <= Len(P)
    BY <1>1, <1>2
  <2> QED BY <1>2, <1>3, <1>10, <2>1 DEF PairsKept
<1> QED BY <1>1, <1>11

-----------------------------------------------------------------------------
(* What the property says of the layers, and of the pairs, of a text. *)
LayersRight(m, ts, r, T) ==
  LET fs == AtMost(MaxLayers, Words(T, LayerDelims))
  IN  /\ r = Len(fs)
      /\ [i \in 1..Len(ts) |-> SubSeq(m, ts[i], StrEnd(m, ts[i]) - 1)] = fs

PairsRight(m, prs, r, P, e) ==
  LET bad == {i \in 1..Len(P) : Len(KeyValue(P[i])) # 2}
      n == Min({i - 1 : i \in bad} \cup {Len(P)})
  IN  /\ e = "crashed" <=> bad # {} /\ Stripped(P[n + 1], Space, Space) = <<>>
      /\ e = "done" => r = IF bad = {} THEN n ELSE -1
      /\ [i \in 1..Len(prs) |-> <<SubSeq(m, prs[i][1], StrEnd(m, prs[i][1]) - 1),
                                  SubSeq(m, prs[i][2], StrEnd(m, prs[i][2]) - 1)>>]
           = [i \in 1..n |-> KeyValue(P[i])]

(* The layers are right when the loop of fgen_strtok is over. *)
LEMMA LayersAreRight ==
  ASSUME NEW C, NUL \notin C, NEW T \in Seq(C), NEW m \in Seq(C \cup {NUL}), NEW a,
         NEW ts \in Seq(Nat), Loop(C, m, ts, 0, a, T, LayerDelims), MaxLayers \in Nat,
         Over(ts, T, LayerDelims, a, 0, MaxLayers)
  PROVE  LayersRight(m, ts, Len(ts), T)
<1>1. PICK fs : fs = AtMost(MaxLayers, Words(T, LayerDelims))
  OBVIOUS
<1>2. HeldWords(C, m, ts, 0, a, fs)
  BY <1>1, FieldWords
<1>3. fs \in Seq(Seq(C)) /\ Len(fs) = Len(ts) /\ Len(ts) \in Nat
  BY <1>2 DEF HeldWords
<1>4. ASSUME NEW i \in 1..Len(ts)
      PROVE  SubSeq(m, ts[i], StrEnd(m, ts[i]) - 1) = fs[i]
  <2>1. PICK w, x : w = fs[i] /\ x = ts[i]
    OBVIOUS
  <2>2. Holds(m, x, w)
    BY <1>2, <2>1 DEF HeldWords
  <2>3. w \in Seq(C)
    BY <1>3, <2>1, WordOf
  <2>4. x \in Int
    <3>1. ts[i] \in Nat
      BY ElementOfSeq
    <3> QED BY <2>1, <3>1
  <2>5. SubSeq(m, x, StrEnd(m, x) - 1) = w
    BY <2>2, <2>3, <2>4, StrIs
  <2> QED BY <2>1, <2>5
<1>5. [i \in 1..Len(ts) |-> SubSeq(m, ts[i], StrEnd(m, ts[i]) - 1)]
        = [i \in 1..Len(ts) |-> fs[i]]
  BY <1>4, Zenon
<1>6. fs = [i \in 1..Len(ts) |-> fs[i]]
  BY <1>3
<1> QED BY <1>1, <1>3, <1>5, <1>6, Zenon DEF LayersRight

(* The pairs read, as the caller finds them. *)
LEMMA PairStrings ==
  ASSUME NEW C, NUL \notin C, NEW m \in Seq(C \cup {NUL}), NEW prs, NEW P, NEW x,
         PairsKept(C, m, prs, P, x), NEW i \in 1..Len(prs)
  PROVE  <<SubSeq(m, prs[i][1], StrEnd(m, prs[i][1]) - 1),
           SubSeq(m, prs[i][2], StrEnd(m, prs[i][2]) - 1)>> = KeyValue(P[i])
<1>1. PICK kv : kv = KeyValue(P[i])
  OBVIOUS
<1>2. /\ kv \in Seq(Seq(C)) /\ Len(kv) = 2
      /\ \A h \in 1..2 : Holds(m, prs[i][h], kv[h])
  BY <1>1 DEF PairsKept
<1>3. prs[i][1] \in Int /\ prs[i][2] \in Int
  <2>1. prs[i] \in Nat \X Nat
    <3>1. prs \in Seq(Nat \X Nat)
      BY DEF PairsKept
    <3> QED BY <3>1, ElementOfSeq
  <2> QED BY <2>1
<1>4. 1 \in 1..2 /\ 2 \in 1..2 /\ kv \in Seq(Seq(C)) /\ 1..2 = 1..Len(kv)
  BY <1>2
<1>5. Holds(m, prs[i][1], kv[1]) /\ Holds(m, prs[i][2], kv[2])
  BY <1>2, <1>4
<1>6. kv[1] \in Seq(C) /\ kv[2] \in Seq(C)
  BY <1>4, WordOf
<1>7. SubSeq(m, prs[i][1], StrEnd(m, prs[i][1]) - 1) = kv[1]
  BY <1>3, <1>5, <1>6, StrIs
<1>8. SubSeq(m, prs[i][2], StrEnd(m, prs[i][2]) - 1) = kv[2]
  BY <1>3, <1>5, <1>6, StrIs
<1>9. kv = <<kv[1], kv[2]>>
  BY <1>2
<1> QED BY <1>1, <1>7, <1>8, <1>9

(* The pairs are right when parser_kvp has read all pieces, or has come to *)
(* one that is no pair, be it white space or not.                          *)
LEMMA PairsAreRight ==
  ASSUME NEW C, NUL \notin C, NEW m \in Seq(C \cup {NUL}), NEW prs, NEW P, NEW x,
         PairsKept(C, m, prs, P, x), NEW r, NEW e,
         \/ Len(prs) = Len(P) /\ r = Len(prs) /\ e = "done"
         \/ /\ Len(prs) + 1 \in 1..Len(P) /\ Len(KeyValue(P[Len(prs) + 1])) # 2
            /\ \/ r = -1 /\ e = "done" /\ ~Spaces(P[Len(prs) + 1])
               \/ e = "crashed" /\ Spaces(P[Len(prs) + 1])
  PROVE  PairsRight(m, prs, r, P, e)
<1>1. PICK l, g : l = Len(prs) /\ g = Len(P)
  OBVIOUS
<1>2. /\ l \in Nat /\ g \in Nat /\ l <= g
      /\ \A i \in 1..l : Len(KeyValue(P[i])) = 2
  <2>1. prs \in Seq(Nat \X Nat) /\ P \in Seq(Seq(C)) /\ Len(prs) <= Len(P)
    BY DEF PairsKept
  <2>2. \A i \in 1..l : Len(KeyValue(P[i])) = 2
    BY <1>1 DEF PairsKept
  <2> QED BY <1>1, <2>1, <2>2
<1>3. PICK bad : bad = {i \in 1..g : Len(KeyValue(P[i])) # 2}
  OBVIOUS
<1>4. PICK S : S = {i - 1 : i \in bad} \cup {g}
  OBVIOUS
<1>5. \A i \in bad : i \in 1..g /\ i - 1 \in Nat /\ l <= i - 1
  BY <1>2, <1>3
<1>6. S \subseteq Int /\ \A y \in S : l <= y
  BY <1>2, <1>4, <1>5
<1>7. /\ l \in S /\ (e = "done" => r = IF bad = {} THEN l ELSE -1)
      /\ e = "crashed" <=> (bad # {} /\ Spaces(P[l + 1]))
  <2>1. CASE Len(prs) = Len(P) /\ r = Len(prs) /\ e = "done"
    <3>1. bad = {} /\ l = g
      BY <1>1, <1>2, <1>3, <2>1
    <3> QED BY <1>1, <1>4, <2>1, <3>1
  <2>2. CASE /\ Len(prs) + 1 \in 1..Len(P) /\ Len(KeyValue(P[Len(prs) + 1])) # 2
             /\ \/ r = -1 /\ e = "done" /\ ~Spaces(P[Len(prs) + 1])
                \/ e = "crashed" /\ Spaces(P[Len(prs) + 1])
    <3>1. l + 1 \in bad /\ (l + 1) - 1 = l
      BY <1>1, <1>2, <1>3, <2>2
    <3>2. l \in {i - 1 : i \in bad}
      BY <3>1
    <3>3. l \in S /\ bad # {}
      BY <1>4, <3>1, <3>2
    <3>4. \/ r = -1 /\ e = "done" /\ ~Spaces(P[l + 1])
          \/ e = "crashed" /\ Spaces(P[l + 1])
      BY <1>1, <2>2
    <3> QED BY <3>3, <3>4
  <2> QED BY <2>1, <2>2
<1>8. Min(S) = l
  BY <1>6, <1>7, MinIs
<1>9. [i \in 1..l |-> <<SubSeq(m, prs[i][1], StrEnd(m, prs[i][1]) - 1),
                        SubSeq(m, prs[i][2], StrEnd(m, prs[i][2]) - 1)>>]
        = [i \in 1..l |-> KeyValue(P[i])]
  <2>1. \A i \in 1..Len(prs) : <<SubSeq(m, prs[i][1], StrEnd(m, prs[i][1]) - 1),
          SubSeq(m, prs[i][2], StrEnd(m, prs[i][2]) - 1)>> = KeyValue(P[i])
    BY PairStrings
  <2> QED BY <1>1, <2>1, Zenon
<1> QED BY <1>1, <1>3, <1>4, <1>7, <1>8, <1>9, Zenon DEF PairsRight, Spaces

-----------------------------------------------------------------------------
(* The bounds and the delimiters. *)
LEMMA StrtokFacts ==
  /\ MaxLayers \in Nat /\ MaxLayers >= 1
  /\ FGEN_MAX_PARAMS \in Nat /\ FGEN_MAX_PARAMS >= 1
  /\ FGEN_MAX_KVP_TOKENS \in Nat /\ FGEN_MAX_KVP_TOKENS >= 1
  /\ NUL \notin LayerDelims /\ NUL \notin PieceDelims /\ NUL \notin PairDelims
<1>1. \A k \in {MaxLayers, FGEN_MAX_PARAMS, FGEN_MAX_KVP_TOKENS, MaxTokens} : k \in Nat /\ k >= 1
  BY StringsAssumption
<1>2. /\ MaxLayers \in Nat /\ MaxLayers >= 1
      /\ FGEN_MAX_PARAMS \in Nat /\ FGEN_MAX_PARAMS >= 1
      /\ FGEN_MAX_KVP_TOKENS \in Nat /\ FGEN_MAX_KVP_TOKENS >= 1
  BY <1>1
<1> QED BY <1>2 DEF NUL, LayerDelims, PieceDelims, PairDelims

(* The text is in the array as it was given. *)
LEMMA TextHeld ==
  ASSUME call \in Calls, Starting
  PROVE  /\ Holds(mem, 1, call.text) /\ mem \in Seq(Chars \cup {NUL})
         /\ Len(mem) = Len(call.text) + 1 /\ Len(mem) \in Nat
         /\ call.text \in Seq(Chars) /\ NUL \notin Chars
<1>1. PICK T, C : T = call.text /\ C = Chars
  OBVIOUS
<1>2. T \in Seq(C) /\ Len(T) \in Nat /\ NUL \notin C /\ \A j \in 1..Len(T) : T[j] \in C
  BY <1>1, CallFacts DEF Chars
<1>3. mem = Append(T, NUL)
  BY <1>1 DEF Starting
<1>4. /\ mem \in Seq(C \cup {NUL}) /\ Len(mem) = Len(T) + 1 /\ mem[Len(T) + 1] = NUL
      /\ \A j \in 1..Len(T) : mem[j] = T[j]
  BY <1>2, <1>3
<1>5. \A j \in 1..Len(T) : 1 + j - 1 = j
  BY <1>2
<1>6. 1 \in 1..Len(mem) /\ 1 + Len(T) <= Len(mem) /\ 1 + Len(T) = Len(T) + 1
  BY <1>2, <1>4
<1>7. Holds(mem, 1, T)
  BY <1>4, <1>5, <1>6 DEF Holds
<1> QED BY <1>1, <1>2, <1>4, <1>7

(* The property, from what it says of the array and the text. *)
LEMMA RightLayers ==
  ASSUME call' = call, call.fn = "layers", LayersRight(mem', toks', ret', call.text)
  PROVE  TokensAreFields'
<1>1. \A i : Str(i)' = SubSeq(mem', i, StrEnd(mem', i) - 1)
  BY DEF Str
<1>2. /\ ret' = Len(AtMost(MaxLayers, Words(call.text, {"/"})))
      /\ [i \in 1..Len(toks') |-> SubSeq(mem', toks'[i], StrEnd(mem', toks'[i]) - 1)]
           = AtMost(MaxLayers, Words(call.text, {"/"}))
  BY Zenon DEF LayersRight, LayerDelims
<1>3. call'.fn # "params"
  OBVIOUS
<1> QED BY <1>2, <1>3, Zenon DEF TokensAreFields, Str

(* And from what it says of the array and the pieces. *)
LEMMA RightPairs ==
  ASSUME call' = call, call.fn = "params", PairsRight(mem', pairs', ret', Pieces, pc')
  PROVE  TokensAreFields'
<1>1. call'.fn # "layers"
  OBVIOUS
<1>2. Pieces' = Pieces
  BY Zenon DEF Pieces
<1> QED BY <1>1, <1>2, Zenon DEF TokensAreFields, Str, PairsRight

-----------------------------------------------------------------------------
(* What a turn of fgen_strtok's loop does to the array. *)
LEMMA TurnStep ==
  ASSUME call \in Calls, ArrayOK, NEW D, D = delims, NUL \notin D, NEW o, NEW s \in Seq(Chars),
         Loop(Chars, mem, toks, o, at, s, D), strtok_r(mem, at, delims).found,
         NEW k, k = strtok_r(mem, at, delims), NEW t, t = strtrim(k.mem, k.at),
         mem' = t.mem, at' = k.saved
  PROVE  Turned(Chars, mem, toks, o, at, s, D, mem', t.at, at')
<1>1. PICK C : C = Chars
  OBVIOUS
<1>2. mem \in Seq(C \cup {NUL}) /\ toks \in Seq(Nat) /\ NUL \notin C
  BY <1>1, CallFacts DEF ArrayOK, Chars
<1>3. k = strtok_r(mem, at, D)
  OBVIOUS
<1>4. Turned(C, mem, toks, o, at, s, D, strtrim(k.mem, k.at).mem, strtrim(k.mem, k.at).at, k.saved)
  BY <1>1, <1>2, <1>3, LoopTurn
<1> QED BY <1>1, <1>4

(* The tokens ts with which the loop ends. *)
Ends(ts, o, s, D, k) ==
  /\ ts \in Seq(Nat) /\ Return(ts)
  /\ Loop(Chars, mem', ts, o, at', s, D) /\ Over(ts, s, D, at', o, k)
  /\ SameBut(Chars, mem, mem', o + 1, o + Len(s) + 1)

(* It ends where no token is left, or where the array of tokens is full. *)
LEMMA EndsStep ==
  ASSUME call \in Calls, ArrayOK, NEW D, D = delims, NUL \notin D, NEW o, NEW s \in Seq(Chars),
         Loop(Chars, mem, toks, o, at, s, D), NEW k \in Nat, k = maxtokens, Len(toks) < k,
         StrtokNull \/ StrtokFull
  PROVE  \E ts : Ends(ts, o, s, D, k)
<1>1. PICK C : C = Chars
  OBVIOUS
<1>2. /\ mem \in Seq(C \cup {NUL}) /\ Len(mem) \in Nat /\ toks \in Seq(Nat)
      /\ NUL \notin C /\ Len(toks) \in Nat
  BY <1>1, CallFacts DEF ArrayOK, Chars
<1>3. CASE StrtokNull
  <2>1. ~strtok_r(mem, at, D).found /\ Return(toks) /\ mem' = mem /\ at' = at
    BY <1>3 DEF StrtokNull
  <2>2. Unread(mem, o, at, s, D)
    BY DEF Loop
  <2>3. \A i \in at - o..Len(s) : s[i] \in D
    BY <1>1, <1>2, <2>1, <2>2, StrtokFinds
  <2>4. at - o \in Int /\ Len(s) \in Nat
    BY <2>2 DEF Unread
  <2>5. RunsBefore(s, D, at - o) = Runs(s, D)
    BY <2>3, <2>4, NoRunLeft
  <2>6. Over(toks, s, D, at', o, k)
    BY <1>2, <2>1, <2>5 DEF Over
  <2>7. SameBut(C, mem, mem', o + 1, o + Len(s) + 1)
    BY <1>2, <2>1 DEF SameBut
  <2> QED BY <1>1, <1>2, <2>1, <2>6, <2>7 DEF Ends
<1>4. CASE StrtokFull
  <2>1. PICK q, t : q = strtok_r(mem, at, delims) /\ t = strtrim(q.mem, q.at)
    OBVIOUS
  <2>2. /\ q.found /\ Full(Append(toks, t.at)) /\ mem' = t.mem /\ at' = q.saved
        /\ Return(Append(toks, t.at))
    BY <1>4, <2>1 DEF StrtokFull
  <2>3. Turned(Chars, mem, toks, o, at, s, D, mem', t.at, at')
    BY <2>1, <2>2, TurnStep
  <2>4. PICK ts : ts = Append(toks, t.at)
    OBVIOUS
  <2>5. /\ Loop(Chars, mem', ts, o, at', s, D) /\ ts \in Seq(Nat)
        /\ SameBut(Chars, mem, mem', o + 1, o + Len(s) + 1)
    BY <1>2, <2>3, <2>4 DEF Turned
  <2>6. Len(ts) = k
    BY <2>2, <2>4 DEF Full
  <2>7. Over(ts, s, D, at', o, k)
    BY <2>6 DEF Over
  <2> QED BY <2>2, <2>4, <2>5, <2>7 DEF Ends
<1> QED BY <1>3, <1>4

(* The loop goes on behind a token it has found in s. *)
LEMMA GoesOn ==
  ASSUME call \in Calls, ArrayOK, StrtokTurn, NEW D, D = delims, NUL \notin D,
         NEW o \in Nat, NEW s \in Seq(Chars), Loop(Chars, mem, toks, o, at, s, D),
         NEW k \in Nat, k = maxtokens, Len(toks) < k
  PROVE  /\ call' = call /\ pc' = pc /\ params' = params /\ pairs' = pairs /\ ret' = ret
         /\ Loop(Chars, mem', toks', o, at', s, D) /\ Len(toks') < k
         /\ SameBut(Chars, mem, mem', o + 1, o + Len(s) + 1) /\ ArrayOK'
<1>1. PICK q, t : q = strtok_r(mem, at, delims) /\ t = strtrim(q.mem, q.at)
  OBVIOUS
<1>2. /\ q.found /\ ~Full(Append(toks, t.at)) /\ mem' = t.mem /\ at' = q.saved
      /\ toks' = Append(toks, t.at) /\ call' = call /\ pc' = pc
      /\ params' = params /\ pairs' = pairs /\ ret' = ret
  BY <1>1 DEF StrtokTurn
<1>3. Turned(Chars, mem, toks, o, at, s, D, mem', t.at, at')
  BY <1>1, <1>2, TurnStep
<1>4. /\ Loop(Chars, mem', toks', o, at', s, D) /\ t.at \in Nat
      /\ SameBut(Chars, mem, mem', o + 1, o + Len(s) + 1)
      /\ mem' \in Seq(Chars \cup {NUL}) /\ Len(mem') = Len(mem)
  BY <1>2, <1>3 DEF Turned, SameBut
<1>5. toks \in Seq(Nat) /\ toks' \in Seq(Nat) /\ Len(toks') = Len(toks) + 1 /\ Len(toks) \in Nat
  BY <1>2, <1>4 DEF ArrayOK
<1>6. Len(toks') < k
  <2>1. Len(toks') # k
    BY <1>2 DEF Full
  <2> QED BY <1>5, <2>1
<1>7. Chars' = Chars
  BY <1>2 DEF Chars
<1>8. ArrayOK'
  BY <1>2, <1>4, <1>5, <1>7 DEF ArrayOK
<1> QED BY <1>2, <1>4, <1>6, <1>8

-----------------------------------------------------------------------------
(* _encode_frame gives the text to fgen_strtok. *)
LEMMA FrameStep ==
  ASSUME call \in Calls, call.fn = "layers", LayersInv, _encode_frame
  PROVE  LayersInv'
<1>1. /\ Starting /\ call' = call /\ mem' = mem /\ toks' = toks /\ ret' = ret /\ at' = 1
      /\ pc' = IF mem[1] = NUL THEN "done" ELSE "layers"
  BY DEF LayersInv, _encode_frame
<1>2. PICK T, C : T = call.text /\ C = Chars
  OBVIOUS
<1>3. /\ Holds(mem, 1, T) /\ mem \in Seq(C \cup {NUL}) /\ Len(mem) \in Nat
      /\ Len(mem) = Len(T) + 1 /\ T \in Seq(C) /\ NUL \notin C
  BY <1>1, <1>2, TextHeld
<1>4. toks = <<>> /\ toks \in Seq(Nat) /\ Len(toks) = 0 /\ ret = 0
  BY <1>1 DEF Starting
<1>5. /\ Loop(C, mem, <<>>, 1 - 1, 1, T, LayerDelims)
      /\ mem[1] = NUL => \A k \in Nat : Over(<<>>, T, LayerDelims, 1, 1 - 1, k)
  BY <1>3, LoopStarts
<1>6. 1 - 1 = 0 /\ Chars' = Chars
  BY <1>1 DEF Chars
<1>7. Loop(C, mem, toks, 0, 1, T, LayerDelims)
  BY <1>4, <1>5, <1>6
<1>8. ArrayOK'
  BY <1>1, <1>2, <1>3, <1>4, <1>6 DEF ArrayOK
<1>9. CASE mem[1] = NUL
  <2>1. Over(toks, T, LayerDelims, 1, 0, MaxLayers) /\ MaxLayers \in Nat
    BY <1>4, <1>5, <1>6, <1>9, StrtokFacts
  <2>2. LayersRight(mem, toks, Len(toks), T)
    <3>1. PICK a : a = 1
      OBVIOUS
    <3>2. Loop(C, mem, toks, 0, a, T, LayerDelims) /\ Over(toks, T, LayerDelims, a, 0, MaxLayers)
      BY <1>7, <2>1, <3>1
    <3> QED BY <1>3, <1>4, <2>1, <3>2, LayersAreRight
  <2>3. LayersRight(mem', toks', ret', call.text)
    BY <1>1, <1>2, <1>4, <2>2
  <2>4. TokensAreFields'
    BY <1>1, <2>3, RightLayers
  <2> QED BY <1>1, <1>8, <1>9, <2>4 DEF LayersInv
<1>10. CASE mem[1] # NUL
  <2>1. Len(toks) < MaxLayers
    BY <1>4, StrtokFacts
  <2>2. Loop(Chars, mem, toks, 0, 1, call.text, LayerDelims)
    BY <1>2, <1>7
  <2> QED BY <1>1, <1>6, <1>8, <1>10, <2>1, <2>2 DEF LayersInv
<1> QED BY <1>9, <1>10

(* A layer is found, and the loop goes on. *)
LEMMA LayerTurn ==
  ASSUME call \in Calls, call.fn = "layers", LayersInv, StrtokTurn
  PROVE  LayersInv'
<1>1. pc = "layers"
  BY DEF LayersInv, StrtokTurn
<1>2. /\ ArrayOK /\ Len(toks) < MaxLayers
      /\ Loop(Chars, mem, toks, 0, at, call.text, LayerDelims)
  BY <1>1 DEF LayersInv
<1>3. delims = LayerDelims /\ maxtokens = MaxLayers
  BY <1>1 DEF delims, maxtokens, LayerDelims
<1>4. PICK T : T = call.text /\ T \in Seq(Chars)
  BY CallFacts DEF Chars
<1>5. PICK D, o : D = LayerDelims /\ NUL \notin D /\ D = delims /\ o = 0
  BY <1>3, StrtokFacts
<1>6. /\ call' = call /\ pc' = pc /\ ArrayOK' /\ Len(toks') < MaxLayers
      /\ Loop(Chars, mem', toks', o, at', T, D)
  <2>1. Loop(Chars, mem, toks, o, at, T, D) /\ MaxLayers \in Nat /\ o \in Nat
    BY <1>2, <1>4, <1>5, StrtokFacts
  <2> QED BY <1>2, <1>3, <1>4, <1>5, <2>1, GoesOn
<1>7. Chars' = Chars
  BY <1>6 DEF Chars
<1> QED BY <1>1, <1>4, <1>5, <1>6, <1>7 DEF LayersInv

(* The loop ends, and the layers are right. *)
LEMMA LayerEnd ==
  ASSUME call \in Calls, call.fn = "layers", LayersInv, StrtokNull \/ StrtokFull
  PROVE  LayersInv'
<1>1. pc = "layers" /\ call' = call
  BY DEF LayersInv, StrtokNull, StrtokFull
<1>2. /\ ArrayOK /\ Len(toks) < MaxLayers
      /\ Loop(Chars, mem, toks, 0, at, call.text, LayerDelims)
  BY <1>1 DEF LayersInv
<1>3. delims = LayerDelims /\ maxtokens = MaxLayers
  BY <1>1 DEF delims, maxtokens, LayerDelims
<1>4. PICK T : T = call.text /\ T \in Seq(Chars)
  BY CallFacts DEF Chars
<1>5. PICK ts : Ends(ts, 0, T, LayerDelims, MaxLayers)
  <2>1. PICK D : D = LayerDelims /\ NUL \notin D
    BY StrtokFacts
  <2>2. D = delims /\ Loop(Chars, mem, toks, 0, at, T, D)
    BY <1>2, <1>3, <1>4, <2>1
  <2>3. PICK ts : Ends(ts, 0, T, D, MaxLayers)
    BY <1>2, <1>3, <1>4, <2>1, <2>2, StrtokFacts, EndsStep
  <2> QED BY <2>1, <2>3
<1>6. /\ ts \in Seq(Nat) /\ Return(ts)
      /\ Loop(Chars, mem', ts, 0, at', T, LayerDelims)
      /\ Over(ts, T, LayerDelims, at', 0, MaxLayers)
      /\ mem' \in Seq(Chars \cup {NUL}) /\ Len(mem') = Len(mem)
  BY <1>5 DEF Ends, SameBut
<1>7. pc' = "done" /\ toks' = ts /\ ret' = Len(ts)
  BY <1>1, <1>6 DEF Return
<1>8. LayersRight(mem', ts, Len(ts), T)
  <2>1. PICK C, m, a : C = Chars /\ m = mem' /\ a = at'
    OBVIOUS
  <2>2. /\ NUL \notin C /\ T \in Seq(C) /\ m \in Seq(C \cup {NUL})
        /\ Loop(C, m, ts, 0, a, T, LayerDelims) /\ Over(ts, T, LayerDelims, a, 0, MaxLayers)
    BY <1>4, <1>6, <2>1, CallFacts DEF Chars
  <2>3. LayersRight(m, ts, Len(ts), T)
    BY <1>6, <2>2, StrtokFacts, LayersAreRight
  <2> QED BY <2>1, <2>3
<1>9. TokensAreFields'
  BY <1>1, <1>4, <1>7, <1>8, RightLayers
<1>10. Chars' = Chars
  BY <1>1 DEF Chars
<1>11. ArrayOK'
  BY <1>1, <1>2, <1>6, <1>7, <1>10 DEF ArrayOK
<1> QED BY <1>7, <1>9, <1>11 DEF LayersInv

-----------------------------------------------------------------------------
(* _encode_opts takes the parentheses away and gives the rest to           *)
(* fgen_strtok.                                                            *)
LEMMA OptsStep ==
  ASSUME call \in Calls, call.fn = "params", ParamsInv, _encode_opts
  PROVE  ParamsInv'
<1>1. PICK b : b = Bare(mem, 1)
  OBVIOUS
<1>2. /\ Starting /\ call' = call /\ mem' = b.mem /\ at' = b.at
      /\ toks' = toks /\ params' = params /\ pairs' = pairs /\ ret' = ret
      /\ pc' = IF b.mem[b.at] = NUL THEN "done" ELSE "opts"
  BY <1>1 DEF ParamsInv, _encode_opts
<1>3. PICK T, C, m, y, v : /\ T = call.text /\ C = Chars /\ m = mem' /\ y = at'
                           /\ v = Unparen(call.text)
  OBVIOUS
<1>4. /\ Holds(mem, 1, T) /\ mem \in Seq(C \cup {NUL}) /\ Len(mem) \in Nat
      /\ Len(mem) = Len(T) + 1 /\ T \in Seq(C) /\ NUL \notin C
  BY <1>2, <1>3, TextHeld
<1>5. /\ toks = <<>> /\ toks \in Seq(Nat) /\ Len(toks) = 0 /\ ret = 0
      /\ params = <<>> /\ pairs = <<>> /\ Len(pairs) = 0
  BY <1>2 DEF Starting
<1>6. Trims(C, mem, 1, T, y, m, v)
  <2>1. Trims(C, mem, 1, T, Bare(mem, 1).at, Bare(mem, 1).mem, Unparen(T))
    BY <1>4, BareHolds
  <2> QED BY <1>1, <1>2, <1>3, <2>1
<1>7. /\ v \in Seq(C) /\ Holds(m, y, v) /\ m \in Seq(C \cup {NUL}) /\ Len(m) = Len(mem)
      /\ y \in 1..Len(m) /\ Len(m) \in Nat
  <2>1. /\ v \in Seq(C) /\ Holds(m, y, v) /\ m \in Seq(C \cup {NUL}) /\ Len(m) = Len(mem)
    BY <1>6 DEF Trims, SameBut
  <2>2. y \in 1..Len(m)
    BY <2>1 DEF Holds
  <2> QED BY <1>4, <2>1, <2>2
<1>8. Chars' = Chars
  BY <1>2 DEF Chars
<1>9. ArrayOK'
  BY <1>2, <1>3, <1>4, <1>5, <1>7, <1>8 DEF ArrayOK
<1>10. CASE m[y] = NUL
  <2>1. AtMost(FGEN_MAX_PARAMS, Words(v, PieceDelims)) = <<>>
    BY <1>4, <1>7, <1>10, StrtokFacts, NoWords
  <2>2. Pieces = <<>>
    BY <1>3, <2>1, Zenon DEF Pieces, PieceDelims
  <2>3. PICK e : e = <<>>
    OBVIOUS
  <2>4. Len(e) = 0 /\ e \in Seq(Nat \X Nat) /\ e \in Seq(Seq(C))
    BY <2>3
  <2>5. PairsKept(C, m, e, e, 0)
    BY <2>4 DEF PairsKept
  <2>6. PairsRight(m, e, 0, e, "done")
    <3>1. Len(e) = Len(e) /\ 0 = Len(e)
      BY <2>4
    <3>2. PICK x, r, d : x = 0 /\ r = 0 /\ d = "done"
      OBVIOUS
    <3>3. PairsKept(C, m, e, e, x) /\ Len(e) = Len(e) /\ r = Len(e)
      BY <2>5, <3>1, <3>2
    <3>4. PairsRight(m, e, r, e, d)
      BY <1>4, <1>7, <3>2, <3>3, PairsAreRight
    <3> QED BY <3>2, <3>4
  <2>7. pc' = "done"
    BY <1>2, <1>3, <1>10
  <2>8. PairsRight(mem', pairs', ret', Pieces, pc')
    BY <1>2, <1>3, <1>5, <2>2, <2>3, <2>6, <2>7
  <2>9. TokensAreFields'
    BY <1>2, <2>8, RightPairs
  <2> QED BY <1>9, <2>7, <2>9 DEF ParamsInv
<1>11. CASE m[y] # NUL
  <2>1. Loop(C, m, <<>>, y - 1, y, v, PieceDelims)
    BY <1>4, <1>7, LoopStarts
  <2>2. PICK o \in Nat : o = y - 1
    BY <1>7
  <2>3. Loop(Chars', mem', toks', o, at', Unparen(call'.text), PieceDelims)
    BY <1>2, <1>3, <1>5, <1>8, <2>1, <2>2
  <2>4. Len(toks') < FGEN_MAX_PARAMS
    BY <1>2, <1>5, StrtokFacts
  <2>5. pc' = "opts"
    BY <1>2, <1>3, <1>11
  <2> QED BY <1>2, <1>5, <1>9, <2>3, <2>4, <2>5 DEF ParamsInv
<1> QED BY <1>10, <1>11

(* Unparen makes a word of a word. *)
LEMMA UnparenWord ==
  ASSUME NEW C, NEW w \in Seq(C)
  PROVE  Unparen(w) \in Seq(C)
<1>1. PICK v : v = Stripped(w, Space, Space)
  OBVIOUS
<1>2. v \in Seq(C)
  BY <1>1, StrippedLen
<1>3. Stripped(v, Space \cup {"("}, Space \cup {")"}) \in Seq(C)
  BY <1>2, StrippedLen
<1> QED BY <1>1, <1>3, Zenon DEF Unparen

(* A piece is found, and the loop goes on. *)
LEMMA OptsTurn ==
  ASSUME call \in Calls, call.fn = "params", ParamsInv, StrtokTurn, pc = "opts"
  PROVE  ParamsInv'
<1>1. PICK o \in Nat : Loop(Chars, mem, toks, o, at, Unparen(call.text), PieceDelims)
  BY DEF ParamsInv
<1>2. ArrayOK /\ Len(toks) < FGEN_MAX_PARAMS /\ params = <<>> /\ pairs = <<>> /\ ret = 0
  BY DEF ParamsInv
<1>3. delims = PieceDelims /\ maxtokens = FGEN_MAX_PARAMS
  BY DEF delims, maxtokens, PieceDelims
<1>4. PICK s : s = Unparen(call.text)
  OBVIOUS
<1>5. s \in Seq(Chars)
  BY <1>4, CallFacts, UnparenWord DEF Chars
<1>6. PICK D : D = PieceDelims /\ NUL \notin D /\ D = delims
  BY <1>3, StrtokFacts
<1>7. /\ call' = call /\ pc' = pc /\ params' = params /\ pairs' = pairs /\ ret' = ret
      /\ Loop(Chars, mem', toks', o, at', s, D) /\ Len(toks') < FGEN_MAX_PARAMS /\ ArrayOK'
  <2>1. Loop(Chars, mem, toks, o, at, s, D) /\ FGEN_MAX_PARAMS \in Nat
    BY <1>1, <1>4, <1>6, StrtokFacts
  <2> QED BY <1>2, <1>3, <1>5, <1>6, <2>1, GoesOn
<1>8. Loop(Chars', mem', toks', o, at', Unparen(call'.text), PieceDelims)
  <2>1. Chars' = Chars
    BY <1>7 DEF Chars
  <2> QED BY <1>4, <1>6, <1>7, <2>1
<1> QED BY <1>2, <1>7, <1>8 DEF ParamsInv

(* The pieces are found. *)
LEMMA OptsEnd ==
  ASSUME call \in Calls, call.fn = "params", ParamsInv, StrtokNull \/ StrtokFull, pc = "opts"
  PROVE  ParamsInv'
<1>1. PICK o \in Nat : Loop(Chars, mem, toks, o, at, Unparen(call.text), PieceDelims)
  BY DEF ParamsInv
<1>2. ArrayOK /\ Len(toks) < FGEN_MAX_PARAMS /\ params = <<>> /\ pairs = <<>> /\ ret = 0
  BY DEF ParamsInv
<1>3. delims = PieceDelims /\ maxtokens = FGEN_MAX_PARAMS /\ call' = call
  BY DEF delims, maxtokens, PieceDelims, StrtokNull, StrtokFull
<1>4. PICK s, C, m, a : s = Unparen(call.text) /\ C = Chars /\ m = mem' /\ a = at'
  OBVIOUS
<1>5. s \in Seq(C) /\ NUL \notin C
  BY <1>4, CallFacts, UnparenWord DEF Chars
<1>6. PICK D : D = PieceDelims /\ NUL \notin D /\ D = delims
  BY <1>3, StrtokFacts
<1>7. PICK ts : Ends(ts, o, s, D, FGEN_MAX_PARAMS)
  <2>1. Loop(Chars, mem, toks, o, at, s, D) /\ FGEN_MAX_PARAMS \in Nat
    BY <1>1, <1>4, <1>6, StrtokFacts
  <2> QED BY <1>2, <1>3, <1>4, <1>5, <1>6, <2>1, EndsStep
<1>8. /\ ts \in Seq(Nat) /\ Return(ts)
      /\ Loop(C, m, ts, o, a, s, D) /\ Over(ts, s, D, a, o, FGEN_MAX_PARAMS)
      /\ m \in Seq(C \cup {NUL}) /\ Len(m) = Len(mem)
  BY <1>4, <1>7 DEF Ends, SameBut
<1>9. /\ pc' = IF ts = <<>> THEN "done" ELSE "param"
      /\ params' = ts /\ toks' = <<>> /\ pairs' = pairs /\ ret' = ret
  BY <1>8 DEF Return
<1>10. PICK P : P = Pieces
  OBVIOUS
<1>11. AtMost(FGEN_MAX_PARAMS, Words(s, D)) = P
  BY <1>4, <1>6, <1>10, Zenon DEF Pieces, PieceDelims
<1>12. HeldWords(C, m, ts, o, a, P)
  BY <1>5, <1>6, <1>8, <1>11, StrtokFacts, FieldWords
<1>13. /\ Pending(m, ts, P, 1, o) /\ PairsKept(C, m, <<>>, P, o)
       /\ P \in Seq(Seq(C)) /\ Len(P) = Len(ts)
  BY <1>8, <1>12, PendingStarts
<1>14. Chars' = Chars /\ Pieces' = Pieces
  BY <1>3, Zenon DEF Chars, Pieces
<1>15. ArrayOK'
  <2>1. toks' \in Seq(Nat)
    BY <1>9
  <2> QED BY <1>2, <1>3, <1>4, <1>8, <1>14, <2>1 DEF ArrayOK
<1>16. CASE ts = <<>>
  <2>1. PICK e, r, d : e = <<>> /\ r = 0 /\ d = "done"
    OBVIOUS
  <2>2. Len(e) = Len(P) /\ r = Len(e)
    BY <1>13, <1>16, <2>1
  <2>3. PairsRight(m, e, r, P, d)
    BY <1>5, <1>8, <1>13, <2>1, <2>2, PairsAreRight
  <2>4. PairsRight(mem', pairs', ret', Pieces, pc')
    BY <1>2, <1>4, <1>9, <1>10, <1>16, <2>1, <2>3
  <2>5. TokensAreFields'
    BY <1>3, <2>4, RightPairs
  <2> QED BY <1>9, <1>15, <1>16, <2>5 DEF ParamsInv
<1>17. CASE ts # <<>>
  <2>1. Len(pairs') + 1 = 1 /\ ret' = Len(pairs')
    BY <1>2, <1>9
  <2>2. /\ Pending(mem', params', Pieces', Len(pairs') + 1, o)
        /\ PairsKept(Chars', mem', pairs', Pieces', o)
    BY <1>2, <1>4, <1>9, <1>10, <1>13, <1>14, <2>1
  <2> QED BY <1>9, <1>15, <1>17, <2>1, <2>2 DEF ParamsInv
<1> QED BY <1>16, <1>17

(* What is known of the next piece, at index h of the array, the string w. *)
InParam(C, P, x, h, w) ==
  /\ NUL \notin C /\ mem \in Seq(C \cup {NUL}) /\ Len(mem) \in Nat
  /\ x \in Nat /\ P \in Seq(Seq(C)) /\ Len(pairs) \in Nat
  /\ Pending(mem, params, P, Len(pairs) + 1, x) /\ PairsKept(C, mem, pairs, P, x)
  /\ Len(pairs) + 1 \in 1..Len(P)
  /\ h = Head(params) /\ h \in Nat /\ w = P[Len(pairs) + 1] /\ w \in Seq(C)
  /\ Holds(mem, h, w) /\ x < h

(* There is such a piece before every call of parser_kvp. *)
LEMMA ParamFacts ==
  ASSUME call \in Calls, ParamsInv, pc = "param"
  PROVE  \E x, h, w : InParam(Chars, Pieces, x, h, w)
<1>1. ArrayOK /\ params # <<>>
  BY DEF ParamsInv
<1>2. PICK C, P, n : C = Chars /\ P = Pieces /\ n = Len(pairs) + 1
  OBVIOUS
<1>3. PICK x \in Nat : Pending(mem, params, P, n, x) /\ PairsKept(C, mem, pairs, P, x)
  BY <1>2 DEF ParamsInv
<1>4. /\ P \in Seq(Seq(C)) /\ Len(pairs) \in Nat /\ n \in Nat /\ n >= 1
      /\ NUL \notin C /\ mem \in Seq(C \cup {NUL}) /\ Len(mem) \in Nat
  <2>1. P \in Seq(Seq(C)) /\ pairs \in Seq(Nat \X Nat)
    BY <1>3 DEF PairsKept
  <2>2. NUL \notin C /\ mem \in Seq(C \cup {NUL})
    BY <1>1, <1>2, CallFacts DEF ArrayOK, Chars
  <2> QED BY <1>2, <2>1, <2>2
<1>5. PICK h, w : h = Head(params) /\ w = P[n]
  OBVIOUS
<1>6. h \in Nat /\ Holds(mem, h, w) /\ x < h /\ n \in 1..Len(P) /\ w \in Seq(C)
  <2>1. PICK z : z = Head(params) + Len(P[n])
    OBVIOUS
  <2>2. Len(P[n]) \in Nat /\ Head(params) \in Nat
    <3>1. params \in Seq(Nat) /\ n + Len(params) = Len(P) + 1 /\ Len(params) \in Nat
      BY <1>3 DEF Pending
    <3>2. n \in 1..Len(P) /\ Len(params) >= 1
      BY <1>1, <1>4, <3>1
    <3>3. Len(P[n]) \in Nat
      BY <1>4, <3>2, WordOf
    <3>4. Head(params) \in Nat
      BY <1>1, <3>1
    <3> QED BY <3>3, <3>4
  <2>3. z \in Int /\ z <= Head(params) + Len(P[n])
    BY <2>1, <2>2
  <2> QED BY <1>1, <1>3, <1>4, <1>5, <2>2, <2>3, PendingTail
<1>7. InParam(C, P, x, h, w)
  BY <1>2, <1>3, <1>4, <1>5, <1>6 DEF InParam
<1> QED BY <1>2, <1>7

(* parser_kvp takes the parentheses from the next piece and gives the rest *)
(* to fgen_strtok.                                                         *)
LEMMA VarsStep ==
  ASSUME call \in Calls, call.fn = "params", ParamsInv, _encode_vars
  PROVE  ParamsInv'
<1>1. PICK b : b = Bare(mem, Head(params))
  OBVIOUS
<1>2. /\ pc = "param" /\ call' = call /\ mem' = b.mem /\ at' = b.at
      /\ toks' = toks /\ params' = Tail(params) /\ pairs' = pairs
      /\ \/ b.mem[b.at] = NUL /\ pc' = "done" /\ ret' = -1
         \/ b.mem[b.at] # NUL /\ pc' = "vars" /\ ret' = ret
      /\ ~Blank(mem, Head(params))
  BY <1>1 DEF _encode_vars
<1>3. ArrayOK /\ params # <<>> /\ toks = <<>> /\ ret = Len(pairs)
  BY <1>2 DEF ParamsInv
<1>4. PICK C, P, n, m, y : C = Chars /\ P = Pieces /\ n = Len(pairs) + 1 /\ m = mem' /\ y = at'
  OBVIOUS
<1>4a. PICK x, h, w : InParam(C, P, x, h, w)
  BY <1>2, <1>4, ParamFacts
<1>5. x \in Nat /\ Pending(mem, params, P, n, x) /\ PairsKept(C, mem, pairs, P, x)
  BY <1>4, <1>4a DEF InParam
<1>6. /\ P \in Seq(Seq(C)) /\ Len(pairs) \in Nat /\ n \in Nat /\ n >= 1
      /\ NUL \notin C /\ mem \in Seq(C \cup {NUL}) /\ Len(mem) \in Nat
  BY <1>4, <1>4a DEF InParam
<1>7. PICK v : h = Head(params) /\ w = P[n] /\ v = Unparen(P[n])
  BY <1>4, <1>4a DEF InParam
<1>8. h \in Nat /\ Holds(mem, h, w) /\ x < h /\ n \in 1..Len(P) /\ w \in Seq(C) /\ Len(w) \in Nat
  <2>1. h \in Nat /\ Holds(mem, h, w) /\ x < h /\ n \in 1..Len(P) /\ w \in Seq(C)
    BY <1>4, <1>4a DEF InParam
  <2> QED BY <2>1
<1>8a. ~Spaces(w)
  <2>1. h \in Int /\ ~Blank(mem, h)
    BY <1>2, <1>7, <1>8
  <2> QED BY <1>6, <1>8, <2>1, BlankIs
<1>9. Trims(C, mem, h, w, y, m, v)
  <2>1. Trims(C, mem, h, w, Bare(mem, h).at, Bare(mem, h).mem, Unparen(w))
    <3>1. /\ NUL \notin C /\ mem \in Seq(C \cup {NUL}) /\ h \in Int /\ w \in Seq(C)
          /\ Holds(mem, h, w)
      BY <1>6, <1>8
    <3> QED BY <3>1, BareHolds
  <2> QED BY <1>1, <1>2, <1>4, <1>7, <2>1
<1>10. /\ v \in Seq(C) /\ Holds(m, y, v) /\ h <= y /\ y + Len(v) <= h + Len(w)
       /\ SameBut(C, mem, m, h, h + Len(w)) /\ m \in Seq(C \cup {NUL}) /\ Len(m) = Len(mem)
       /\ y \in 1..Len(m) /\ Len(v) \in Nat
  <2>1. /\ v \in Seq(C) /\ Holds(m, y, v) /\ h <= y /\ y + Len(v) <= h + Len(w)
        /\ SameBut(C, mem, m, h, h + Len(w)) /\ m \in Seq(C \cup {NUL}) /\ Len(m) = Len(mem)
    BY <1>9 DEF Trims, SameBut
  <2>2. y \in 1..Len(m)
    BY <2>1 DEF Holds
  <2> QED BY <2>1, <2>2
<1>11. PICK o : o = y - 1
  OBVIOUS
<1>12. /\ o \in Nat /\ h \in Int /\ h + Len(w) \in Int /\ x \in Int /\ x < h /\ x <= o
       /\ o + Len(v) + 1 = y + Len(v) /\ o + Len(v) + 1 <= h + Len(w)
  <2>1. x \in Nat /\ h \in Nat /\ x < h /\ Len(w) \in Nat
    BY <1>5, <1>8
  <2>2. /\ y \in Nat /\ y >= 1 /\ h <= y /\ Len(v) \in Nat /\ y + Len(v) <= h + Len(w)
        /\ o = y - 1
    BY <1>10, <1>11
  <2> QED BY <2>1, <2>2
<1>13. PairsKept(C, m, pairs, P, o)
  BY <1>5, <1>6, <1>10, <1>12, PairsStill
<1>14. Pending(m, Tail(params), P, n + 1, o + Len(v) + 1)
  <2>1. PICK z, ps : z = h + Len(w) /\ ps = Tail(params)
    OBVIOUS
  <2>2. z \in Int /\ z <= Head(params) + Len(P[n])
    BY <1>7, <1>12, <2>1
  <2>3. Pending(mem, ps, P, n + 1, z)
    BY <1>3, <1>5, <1>6, <2>1, <2>2, PendingTail
  <2>4. n + 1 \in Nat /\ n + 1 >= 1 /\ z <= z /\ SameBut(C, mem, m, h, z)
    BY <1>6, <1>10, <2>1, <2>2
  <2>5. Pending(m, ps, P, n + 1, z)
    BY <1>6, <1>12, <2>2, <2>3, <2>4, PendingStill
  <2>6. PICK u : u = o + Len(v) + 1
    OBVIOUS
  <2>7. u \in Int /\ u <= z
    BY <1>10, <1>12, <2>1, <2>6
  <2>8. ps \in Seq(Nat) /\ \A k \in 1..Len(ps) : ps[k] \in Nat /\ z < ps[k]
    <3>1. ps \in Seq(Nat) /\ \A k \in 1..Len(ps) : z < ps[k]
      BY <2>5 DEF Pending
    <3> QED BY <3>1, ElementOfSeq
  <2>9. \A k \in 1..Len(ps) : u < ps[k]
    BY <2>2, <2>7, <2>8
  <2>10. Pending(m, ps, P, n + 1, u)
    BY <2>5, <2>9 DEF Pending
  <2> QED BY <2>1, <2>6, <2>10
<1>15. Chars' = Chars /\ Pieces' = Pieces
  BY <1>2, Zenon DEF Chars, Pieces
<1>16. ArrayOK'
  BY <1>2, <1>3, <1>4, <1>10, <1>15 DEF ArrayOK
<1>17. CASE m[y] = NUL
  <2>1. AtMost(FGEN_MAX_KVP_TOKENS, Words(v, PairDelims)) = <<>>
    BY <1>6, <1>10, <1>17, StrtokFacts, NoWords
  <2>2. KeyValue(P[n]) = <<>>
    BY <1>7, <2>1, Zenon DEF KeyValue, PairDelims
  <2>3. Len(KeyValue(P[n])) # 2
    BY <2>2
  <2>4. PICK r, e : r = -1 /\ e = "done"
    OBVIOUS
  <2>5. /\ Len(pairs) + 1 \in 1..Len(P) /\ Len(KeyValue(P[Len(pairs) + 1])) # 2
        /\ ~Spaces(P[Len(pairs) + 1])
    BY <1>4, <1>7, <1>8, <1>8a, <2>3
  <2>6. PairsRight(m, pairs, r, P, e)
    BY <1>6, <1>10, <1>13, <2>4, <2>5, PairsAreRight
  <2>7. PairsRight(mem', pairs', ret', Pieces, pc') /\ pc' = "done"
    BY <1>2, <1>4, <1>17, <2>4, <2>6
  <2>8. TokensAreFields'
    BY <1>2, <2>7, RightPairs
  <2> QED BY <1>16, <2>7, <2>8 DEF ParamsInv
<1>18. CASE m[y] # NUL
  <2>1. pc' = "vars" /\ ret' = Len(pairs')
    BY <1>2, <1>3, <1>4, <1>18
  <2>2. Loop(C, m, <<>>, y - 1, y, v, PairDelims)
    BY <1>6, <1>10, LoopStarts
  <2>3. Len(toks') < FGEN_MAX_KVP_TOKENS
    BY <1>2, <1>3, StrtokFacts
  <2>4. PICK s : s = Unparen(Pieces'[Len(pairs') + 1])
    OBVIOUS
  <2>5. s = v
    BY <1>2, <1>4, <1>7, <1>15, <2>4
  <2>6. /\ Loop(Chars', mem', toks', o, at', s, PairDelims)
        /\ PairsKept(Chars', mem', pairs', Pieces', o)
    BY <1>2, <1>3, <1>4, <1>11, <1>13, <1>15, <2>2, <2>5
  <2>7. Len(pairs') + 2 = n + 1 /\ ~Spaces(Pieces'[Len(pairs') + 1])
    BY <1>2, <1>4, <1>6, <1>7, <1>15, <1>8a
  <2>8. Pending(mem', params', Pieces', Len(pairs') + 2, o + Len(s) + 1)
    BY <1>2, <1>4, <1>14, <1>15, <2>5, <2>7
  <2> QED BY <1>12, <1>16, <2>1, <2>3, <2>4, <2>6, <2>7, <2>8 DEF ParamsInv
<1> QED BY <1>17, <1>18

(* A piece of white space is no pair, and ends the program. *)
LEMMA BlankStep ==
  ASSUME call \in Calls, call.fn = "params", ParamsInv, BlankParam
  PROVE  ParamsInv'
<1>1. /\ pc = "param" /\ Blank(mem, Head(params)) /\ pc' = "crashed" /\ call' = call /\ mem' = mem
      /\ toks' = toks /\ pairs' = pairs /\ ret' = ret
  BY DEF BlankParam
<1>2. PICK C, P, l : C = Chars /\ P = Pieces /\ l = Len(pairs)
  OBVIOUS
<1>3. PICK x, h, w : InParam(C, P, x, h, w)
  BY <1>1, <1>2, ParamFacts
<1>4. /\ NUL \notin C /\ mem \in Seq(C \cup {NUL}) /\ Len(mem) \in Nat
      /\ h \in Int /\ h = Head(params) /\ w = P[l + 1] /\ w \in Seq(C) /\ Holds(mem, h, w)
      /\ l + 1 \in 1..Len(P)
      /\ PairsKept(C, mem, pairs, P, x)
  BY <1>2, <1>3 DEF InParam
<1>5. Spaces(w)
  BY <1>1, <1>4, BlankIs
<1>6. PICK u : u = Unparen(w)
  OBVIOUS
<1>7. u = <<>>
  <2>1. PICK v : v = Stripped(w, Space, Space)
    OBVIOUS
  <2>2. v = <<>> /\ v \in Seq(C)
    BY <1>4, <1>5, <2>1, StrippedLen DEF Spaces
  <2>3. Stripped(v, Space \cup {"("}, Space \cup {")"}) = <<>>
    BY <2>2, StrippedLen
  <2> QED BY <1>6, <2>1, <2>3, Zenon DEF Unparen
<1>8. KeyValue(w) = <<>>
  <2>1. PICK m, y : m = <<NUL>> /\ y = 1
    OBVIOUS
  <2>2. /\ u \in Seq(C) /\ Len(u) = 0 /\ Len(m) = 1 /\ m[1] = NUL
        /\ y \in 1..Len(m) /\ y + Len(u) <= Len(m) /\ y + Len(u) = 1
    BY <1>7, <2>1
  <2>3. Holds(m, y, u) /\ m[y] = NUL /\ Len(m) \in Nat
    BY <2>1, <2>2 DEF Holds
  <2>4. AtMost(FGEN_MAX_KVP_TOKENS, Words(u, PairDelims)) = <<>>
    BY <1>4, <2>2, <2>3, StrtokFacts, NoWords
  <2> QED BY <1>6, <2>4, Zenon DEF KeyValue, PairDelims
<1>9. Len(KeyValue(P[l + 1])) # 2
  BY <1>4, <1>8
<1>10. PICK r, e : r = ret /\ e = "crashed"
  OBVIOUS
<1>11. PairsRight(mem, pairs, r, P, e)
  BY <1>2, <1>4, <1>5, <1>9, <1>10, PairsAreRight
<1>12. PairsRight(mem', pairs', ret', Pieces, pc')
  BY <1>1, <1>2, <1>10, <1>11
<1>13. TokensAreFields'
  BY <1>1, <1>12, RightPairs
<1>14. ArrayOK /\ Chars' = Chars
  BY <1>1 DEF ParamsInv, Chars
<1>15. ArrayOK'
  BY <1>1, <1>14 DEF ArrayOK
<1> QED BY <1>1, <1>13, <1>15 DEF ParamsInv

(* What is known while parser_kvp cuts a piece at index o, the string s. *)
InPiece(C, P, o, s) ==
  /\ o \in Nat /\ s \in Seq(C) /\ P \in Seq(Seq(C)) /\ Len(pairs) \in Nat
  /\ Len(pairs) + 1 \in 1..Len(P) /\ s = Unparen(P[Len(pairs) + 1])
  /\ Loop(C, mem, toks, o, at, s, PairDelims)
  /\ Pending(mem, params, P, Len(pairs) + 2, o + Len(s) + 1)
  /\ PairsKept(C, mem, pairs, P, o) /\ ~Spaces(P[Len(pairs) + 1])

(* There is such a string in every turn. *)
LEMMA PieceFacts ==
  ASSUME call \in Calls, ParamsInv, pc = "vars"
  PROVE  \E o, s : InPiece(Chars, Pieces, o, s)
<1>1. PICK s, C, P : s = Unparen(Pieces[Len(pairs) + 1]) /\ C = Chars /\ P = Pieces
  OBVIOUS
<1>2. PICK o \in Nat : /\ Loop(C, mem, toks, o, at, s, PairDelims)
                       /\ Pending(mem, params, P, Len(pairs) + 2, o + Len(s) + 1)
                       /\ PairsKept(C, mem, pairs, P, o) /\ ~Spaces(P[Len(pairs) + 1])
  BY <1>1 DEF ParamsInv
<1>3. P \in Seq(Seq(C)) /\ Len(pairs) \in Nat /\ Len(P) \in Nat
  BY <1>2 DEF PairsKept
<1>4. Len(pairs) + 1 \in 1..Len(P)
  <2>1. Len(params) \in Nat /\ (Len(pairs) + 2) + Len(params) = Len(P) + 1
    BY <1>2 DEF Pending
  <2> QED BY <1>3, <2>1
<1>5. s \in Seq(C)
  <2>1. P[Len(pairs) + 1] \in Seq(C)
    BY <1>3, <1>4, WordOf
  <2> QED BY <1>1, <2>1, UnparenWord
<1>6. InPiece(C, P, o, s)
  BY <1>1, <1>2, <1>3, <1>4, <1>5 DEF InPiece
<1> QED BY <1>1, <1>6

(* A key or a value is found, and the loop goes on. *)
LEMMA VarsTurn ==
  ASSUME call \in Calls, call.fn = "params", ParamsInv, StrtokTurn, pc = "vars"
  PROVE  ParamsInv'
<1>1. PICK C, P : C = Chars /\ P = Pieces
  OBVIOUS
<1>2. PICK o, s : InPiece(C, P, o, s)
  BY <1>1, PieceFacts
<1>3. /\ o \in Nat /\ s \in Seq(C) /\ P \in Seq(Seq(C)) /\ Len(pairs) \in Nat
      /\ s = Unparen(P[Len(pairs) + 1]) /\ Loop(C, mem, toks, o, at, s, PairDelims)
      /\ Pending(mem, params, P, Len(pairs) + 2, o + Len(s) + 1)
      /\ PairsKept(C, mem, pairs, P, o) /\ ~Spaces(P[Len(pairs) + 1])
  BY <1>2 DEF InPiece
<1>4. ArrayOK /\ Len(toks) < FGEN_MAX_KVP_TOKENS /\ ret = Len(pairs)
  BY DEF ParamsInv
<1>5. delims = PairDelims /\ maxtokens = FGEN_MAX_KVP_TOKENS
  BY DEF delims, maxtokens, PairDelims
<1>6. PICK D : D = PairDelims /\ NUL \notin D /\ D = delims
  BY <1>5, StrtokFacts
<1>7. /\ call' = call /\ pc' = pc /\ params' = params /\ pairs' = pairs /\ ret' = ret
      /\ Loop(Chars, mem', toks', o, at', s, D) /\ Len(toks') < FGEN_MAX_KVP_TOKENS
      /\ SameBut(Chars, mem, mem', o + 1, o + Len(s) + 1) /\ ArrayOK'
  <2>1. Loop(Chars, mem, toks, o, at, s, D) /\ FGEN_MAX_KVP_TOKENS \in Nat /\ s \in Seq(Chars)
    BY <1>1, <1>3, <1>6, StrtokFacts
  <2> QED BY <1>3, <1>4, <1>5, <1>6, <2>1, GoesOn
<1>8. PICK m, lo, hi, n : m = mem' /\ lo = o + 1 /\ hi = o + Len(s) + 1 /\ n = Len(pairs) + 2
  OBVIOUS
<1>9. /\ lo \in Int /\ hi \in Int /\ n \in Nat /\ n >= 1 /\ o \in Int /\ o < lo /\ o <= o
      /\ hi <= hi /\ Len(mem) \in Nat /\ SameBut(C, mem, m, lo, hi)
  <2>1. Len(s) \in Nat
    BY <1>3
  <2>2. Len(mem) \in Nat
    BY <1>4 DEF ArrayOK
  <2> QED BY <1>1, <1>3, <1>7, <1>8, <2>1, <2>2
<1>10. Pending(m, params, P, n, hi)
  BY <1>3, <1>8, <1>9, PendingStill
<1>11. PairsKept(C, m, pairs, P, o)
  BY <1>3, <1>9, PairsStill
<1>12. Chars' = Chars /\ Pieces' = Pieces
  BY <1>7, Zenon DEF Chars, Pieces
<1>13. PICK u : u = Unparen(Pieces'[Len(pairs') + 1])
  OBVIOUS
<1>14. u = s
  BY <1>1, <1>3, <1>7, <1>12, <1>13
<1>15. /\ Loop(Chars', mem', toks', o, at', u, PairDelims)
       /\ Pending(mem', params', Pieces', Len(pairs') + 2, o + Len(u) + 1)
       /\ PairsKept(Chars', mem', pairs', Pieces', o)
       /\ ~Spaces(Pieces'[Len(pairs') + 1])
  BY <1>1, <1>3, <1>6, <1>7, <1>8, <1>10, <1>11, <1>12, <1>14
<1> QED BY <1>3, <1>4, <1>7, <1>13, <1>15 DEF ParamsInv

(* A piece is read: a pair more, or the end of the call. *)
LEMMA VarsEnd ==
  ASSUME call \in Calls, call.fn = "params", ParamsInv, StrtokNull \/ StrtokFull, pc = "vars"
  PROVE  ParamsInv'
<1>1. PICK C, P : C = Chars /\ P = Pieces
  OBVIOUS
<1>2. PICK o, s : InPiece(C, P, o, s)
  BY <1>1, PieceFacts
<1>3. /\ o \in Nat /\ s \in Seq(C) /\ P \in Seq(Seq(C)) /\ Len(pairs) \in Nat
      /\ s = Unparen(P[Len(pairs) + 1]) /\ Loop(C, mem, toks, o, at, s, PairDelims)
      /\ Pending(mem, params, P, Len(pairs) + 2, o + Len(s) + 1)
      /\ PairsKept(C, mem, pairs, P, o) /\ Len(pairs) + 1 \in 1..Len(P)
      /\ ~Spaces(P[Len(pairs) + 1])
  BY <1>2 DEF InPiece
<1>4. ArrayOK /\ Len(toks) < FGEN_MAX_KVP_TOKENS /\ ret = Len(pairs)
  BY DEF ParamsInv
<1>5. delims = PairDelims /\ maxtokens = FGEN_MAX_KVP_TOKENS /\ call' = call
  BY DEF delims, maxtokens, PairDelims, StrtokNull, StrtokFull
<1>6. PICK D : D = PairDelims /\ NUL \notin D /\ D = delims
  BY <1>5, StrtokFacts
<1>7. PICK ts : Ends(ts, o, s, D, FGEN_MAX_KVP_TOKENS)
  <2>1. Loop(Chars, mem, toks, o, at, s, D) /\ FGEN_MAX_KVP_TOKENS \in Nat /\ s \in Seq(Chars)
    BY <1>1, <1>3, <1>6, StrtokFacts
  <2> QED BY <1>4, <1>5, <1>6, <2>1, EndsStep
<1>8. PICK m, a, lo, hi, n : /\ m = mem' /\ a = at' /\ lo = o + 1 /\ hi = o + Len(s) + 1
                             /\ n = Len(pairs) + 2
  OBVIOUS
<1>9. /\ ts \in Seq(Nat) /\ Return(ts)
      /\ Loop(C, m, ts, o, a, s, D) /\ Over(ts, s, D, a, o, FGEN_MAX_KVP_TOKENS)
      /\ SameBut(C, mem, m, lo, hi) /\ m \in Seq(C \cup {NUL}) /\ Len(m) = Len(mem)
  BY <1>1, <1>7, <1>8 DEF Ends, SameBut
<1>10. /\ lo \in Int /\ hi \in Int /\ n \in Nat /\ n >= 1 /\ o \in Int /\ o < lo /\ o <= o
       /\ o <= hi /\ hi <= hi /\ Len(mem) \in Nat
  <2>1. Len(s) \in Nat
    BY <1>3
  <2>2. Len(mem) \in Nat
    BY <1>4 DEF ArrayOK
  <2> QED BY <1>3, <1>8, <2>1, <2>2
<1>11. Pending(m, params, P, n, hi)
  BY <1>3, <1>8, <1>9, <1>10, PendingStill
<1>12. PairsKept(C, m, pairs, P, o)
  BY <1>3, <1>9, <1>10, PairsStill
<1>13. PICK kv : kv = KeyValue(P[Len(pairs) + 1])
  OBVIOUS
<1>14. AtMost(FGEN_MAX_KVP_TOKENS, Words(s, D)) = kv
  BY <1>3, <1>6, <1>13, Zenon DEF KeyValue, PairDelims
<1>15. HeldWords(C, m, ts, o, a, kv) /\ Len(kv) = Len(ts)
  <2>1. HeldWords(C, m, ts, o, a, kv)
    BY <1>3, <1>6, <1>9, <1>14, StrtokFacts, FieldWords
  <2> QED BY <2>1 DEF HeldWords
<1>16. Chars' = Chars /\ Pieces' = Pieces /\ NUL \notin C
  BY <1>1, <1>5, CallFacts, Zenon DEF Chars, Pieces
<1>17. toks' = <<>> /\ params' = params
  BY <1>9 DEF Return
<1>18. ArrayOK'
  <2>1. toks' \in Seq(Nat)
    BY <1>17
  <2> QED BY <1>1, <1>4, <1>5, <1>8, <1>9, <1>16, <2>1 DEF ArrayOK
<1>19. CASE Len(ts) = 2
  <2>1. /\ pairs' = Append(pairs, <<ts[1], ts[2]>>) /\ ret' = Len(pairs')
        /\ pc' = IF params = <<>> THEN "done" ELSE "param"
    BY <1>9, <1>19 DEF Return
  <2>2. a \in Int /\ a <= hi
    <3>1. a \in o + 1..o + Len(s) + 1
      BY <1>9 DEF Loop, Unread
    <3> QED BY <1>8, <1>10, <3>1
  <2>3. PICK q : q = pairs'
    OBVIOUS
  <2>4. PairsKept(C, m, q, P, hi)
    BY <1>3, <1>9, <1>10, <1>12, <1>13, <1>15, <1>19, <2>1, <2>2, <2>3, PairsMore
  <2>5. Len(q) = Len(pairs) + 1 /\ Len(q) + 1 = n
    <3>1. pairs \in Seq(Nat \X Nat)
      BY <1>3 DEF PairsKept
    <3>2. Len(q) = Len(pairs) + 1
      BY <2>1, <2>3, <3>1
    <3> QED BY <1>3, <1>8, <3>2
  <2>6. CASE params = <<>>
    <3>1. n + Len(params) = Len(P) + 1 /\ Len(params) = 0 /\ Len(P) \in Nat
      BY <1>3, <1>11, <2>6 DEF Pending
    <3>2. Len(q) = Len(P)
      BY <1>3, <1>10, <2>5, <3>1
    <3>3. PICK r, e : r = Len(q) /\ e = "done"
      OBVIOUS
    <3>4. PairsRight(m, q, r, P, e)
      BY <1>9, <1>16, <2>4, <3>2, <3>3, PairsAreRight
    <3>5. PairsRight(mem', pairs', ret', Pieces, pc') /\ pc' = "done"
      BY <1>1, <1>8, <2>1, <2>3, <2>6, <3>3, <3>4
    <3>6. TokensAreFields'
      BY <1>5, <3>5, RightPairs
    <3> QED BY <1>18, <3>5, <3>6 DEF ParamsInv
  <2>7. CASE params # <<>>
    <3>1. hi \in Nat
      BY <1>3, <1>8
    <3>2. /\ Pending(mem', params', Pieces', Len(pairs') + 1, hi)
          /\ PairsKept(Chars', mem', pairs', Pieces', hi)
      BY <1>1, <1>8, <1>11, <1>16, <1>17, <2>3, <2>4, <2>5
    <3>3. pc' = "param" /\ params' # <<>>
      BY <1>17, <2>1, <2>7
    <3> QED BY <1>17, <1>18, <2>1, <3>1, <3>2, <3>3 DEF ParamsInv
  <2> QED BY <2>6, <2>7
<1>20. CASE Len(ts) # 2
  <2>1. pc' = "done" /\ ret' = -1 /\ pairs' = pairs
    BY <1>9, <1>20 DEF Return
  <2>2. PICK r, e : r = -1 /\ e = "done"
    OBVIOUS
  <2>3. Len(KeyValue(P[Len(pairs) + 1])) # 2
    BY <1>13, <1>15, <1>20
  <2>4. PairsRight(m, pairs, r, P, e)
    BY <1>3, <1>9, <1>12, <1>16, <2>2, <2>3, PairsAreRight
  <2>5. PairsRight(mem', pairs', ret', Pieces, pc')
    BY <1>1, <1>8, <2>1, <2>2, <2>4
  <2>6. TokensAreFields'
    BY <1>5, <2>5, RightPairs
  <2> QED BY <1>18, <2>1, <2>6 DEF ParamsInv
<1> QED BY <1>19, <1>20

-----------------------------------------------------------------------------
(* The invariant holds of the string as it was given. *)
LEMMA InitStrtok == Init => StrtokInv
<1> SUFFICES ASSUME Init PROVE StrtokInv
  OBVIOUS
<1>1. call \in Calls /\ pc = "call" /\ Starting
  BY DEF Init, Starting
<1>2. mem \in Seq(Chars \cup {NUL}) /\ Len(mem) = Len(call.text) + 1
  BY <1>1, TextHeld
<1>3. toks \in Seq(Nat)
  BY <1>1 DEF Starting
<1>4. ArrayOK
  BY <1>2, <1>3 DEF ArrayOK
<1> QED BY <1>1, <1>4 DEF StrtokInv, LayersInv, ParamsInv

(* Every step keeps it. *)
LEMMA NextStrtok ==
  ASSUME StrtokInv, [Next]_vars
  PROVE  StrtokInv'
<1>1. call' = call /\ call \in Calls
  BY DEF StrtokInv, Next, vars, _encode_frame, _encode_opts, _encode_vars, BlankParam, StrtokTurn,
         StrtokNull, StrtokFull, fgen_strqtok, Backslash, QtokInit, QtokInside, QtokEnd
<1>2. CASE UNCHANGED vars
  <2>1. /\ call' = call /\ mem' = mem /\ pc' = pc /\ at' = at /\ toks' = toks /\ params' = params
        /\ pairs' = pairs /\ ret' = ret
    BY <1>2 DEF vars
  <2>2. Chars' = Chars /\ Pieces' = Pieces
    BY <2>1, Zenon DEF Chars, Pieces
  <2>3. TokensAreFields' = TokensAreFields
    BY <2>1, <2>2, Zenon DEF TokensAreFields, Str
  <2>4. ArrayOK' = ArrayOK /\ Starting' = Starting
    BY <2>1, <2>2 DEF ArrayOK, Starting
  <2>5. LayersInv' = LayersInv /\ ParamsInv' = ParamsInv
    BY <2>1, <2>2, <2>3, <2>4 DEF LayersInv, ParamsInv
  <2> QED BY <1>1, <2>1, <2>5 DEF StrtokInv
<1>3. CASE Next
  <2>1. ASSUME call.fn = "layers" PROVE LayersInv'
    <3>1. LayersInv /\ pc \in {"call", "layers", "done"}
      BY <2>1 DEF StrtokInv, LayersInv
    <3>2. _encode_frame \/ StrtokTurn \/ StrtokNull \/ StrtokFull
      BY <1>3, <2>1, <3>1 DEF Next, _encode_opts, _encode_vars, BlankParam, fgen_strqtok, Backslash,
         QtokInit, QtokInside, QtokEnd, InLoop
    <3> QED BY <1>1, <2>1, <3>1, <3>2, FrameStep, LayerTurn, LayerEnd
  <2>2. ASSUME call.fn = "params" PROVE ParamsInv'
    <3>1. ParamsInv /\ pc \in {"call", "opts", "param", "vars", "crashed", "done"}
      BY <2>2 DEF StrtokInv, ParamsInv
    <3>2. \/ _encode_opts \/ _encode_vars \/ BlankParam
          \/ pc \in {"opts", "vars"} /\ (StrtokTurn \/ StrtokNull \/ StrtokFull)
      BY <1>3, <2>2, <3>1 DEF Next, _encode_frame, fgen_strqtok, Backslash, QtokInit, QtokInside,
         QtokEnd, InLoop, StrtokTurn, StrtokNull, StrtokFull
    <3> QED BY <1>1, <2>2, <3>1, <3>2, OptsStep, VarsStep, BlankStep, OptsTurn, OptsEnd,
               VarsTurn, VarsEnd
  <2> QED BY <1>1, <2>1, <2>2 DEF StrtokInv
<1> QED BY <1>2, <1>3

(* Cutting in place gives what cutting the text gives, for the layers of a *)
(* frame string and for the parameters of a layer: fgen_strtok's tokens    *)
(* are the fields of the text without the white space around them, however *)
(* long it is and wherever blanks, tabs, parentheses and delimiters are in *)
(* it; the cuts in one piece reach neither the pairs already read nor the  *)
(* pieces yet to be read; and strtrimset's NULL ends the program at a      *)
(* parameter that is nothing but white space, and at no other.             *)
THEOREM FieldsAreCut == Spec => []TokensAreFields
<1>1. StrtokInv => TokensAreFields
  BY DEF StrtokInv, LayersInv, ParamsInv, TokensAreFields
<1> QED BY <1>1, InitStrtok, NextStrtok, PTL DEF Spec
=============================================================================
