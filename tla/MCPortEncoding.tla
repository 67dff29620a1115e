-------------------------- MODULE MCPortEncoding ---------------------------
(***************************************************************************)
(* Texts that look like structure, escapes or numbers, numbers and tags    *)
(* with common beginnings, and a tag with a newline of its own; arrays and *)
(* objects of these, and arrays and objects in them.  "bell" is the        *)
(* control character U+0007.                                               *)
(***************************************************************************)
EXTENDS PortEncoding

MCControls == {"bell"}
MCHex(c) == <<"0", "0", "0", "7">>

MCDigits[i \in Nat] ==
  IF i < 10 THEN <<ToString(i)>> ELSE Append(MCDigits[i \div 10], ToString(i % 10))

MCDecimal(i) == IF i < 0 THEN <<"-">> \o MCDigits[-i] ELSE MCDigits[i]

\* The order of the keys: that of their bytes.
Byte(ch) == CASE ch = "\"" -> 34 [] ch = "\\" -> 92 [] ch = "\n" -> 10 [] OTHER -> 97
KeyBefore(s, t) ==
  \/ IsStrictPrefix(s, t)
  \/ \E i \in DOMAIN s \cap DOMAIN t :
       /\ SubSeq(s, 1, i - 1) = SubSeq(t, 1, i - 1)
       /\ Byte(s[i]) < Byte(t[i])

MCKeysOf(map) == SetToSortSeq(DOMAIN map, KeyBefore)

MCTexts ==
  {<<>>, <<"n">>, <<"\n">>, <<"\\">>, <<"\\", "n">>, <<"\\", "\"">>, <<"bell">>,
   <<"\"", ",", "\"">>, <<"n", "u", "l", "l">>}

MCKeys == {<<>>, <<"n">>, <<"\"", ":", "1", ",", "\"">>}

MCCharacters == {"n", "u", "l", "\n", "\\", "\"", "bell", ",", ":", "1"}

MCScalars ==
  {NullValue, Bool(TRUE), Bool(FALSE), Int_(1), Int_(11), Int_(-1)}
    \cup {Text(s) : s \in MCTexts \cup MCKeys}

\* What is made of a few scalars, and of these again.
Few == {NullValue, Int_(1), Int_(11), Text(<<"n">>)}
Composites(S) ==
  {Array(items) : items \in {<<>>} \cup {<<x>> : x \in S} \cup {<<x, y>> : x, y \in S}}
    \cup {Object(map) : map \in UNION {[D -> S] : D \in {E \in SUBSET MCKeys : Cardinality(E) <= 2}}}

Small == {Array(<<>>), Array(<<Int_(1)>>), Object([key \in {<<"n">>} |-> Int_(1)]), Int_(1)}

MCValues == MCScalars \cup Composites(Few) \cup Composites(Small)

MCTags == {<<"n">>, <<"n", "1">>, <<"n", "\n", "\"">>}

\* A scalar is no deeper than 0, Few and Small no deeper than 1.
MCDepth(v) ==
  IF v \in MCScalars THEN 0 ELSE IF v \in Composites(Few) THEN 1 ELSE 2
=============================================================================
