------------------------ MODULE PortEncodingProofs ------------------------
(***************************************************************************)
(* Canonical texts and preimages tell values and tags apart, for values of *)
(* every depth, texts of every length and any set of tags, and the text a  *)
(* run of encode_into leaves is the one encode gives its value.            *)
(*                                                                         *)
(* Two runs of encode_into stay in step as long as what they write is the  *)
(* same.  Where it stops being so, it either clashes in one character, or  *)
(* one value ends where another goes on; then a mark, which closes or      *)
(* separates, comes where a value begins, and no value begins with one.    *)
(* Once parted, two texts never become equal.                              *)
(*                                                                         *)
(* What encode gives takes induction: over the depth of values, that its   *)
(* recursive definition has a solution and what it solves to; over the     *)
(* pieces of a value, that they make its text.                             *)
(***************************************************************************)
EXTENDS PortEncoding, WellFoundedInduction, SequenceTheorems, TLAPS

(***************************************************************************)
(* Values and what is written of them.                                     *)
(***************************************************************************)

Kinds == {"null", "bool", "int", "text", "array", "object"}

\* What is in a value of each kind.
LEMMA Shape ==
  ASSUME NEW v \in Values
  PROVE  /\ v.k \in Kinds
         /\ v.k = "null" => v = NullValue
         /\ v.k = "bool" => v = Bool(v.b) /\ v.b \in BOOLEAN
         /\ v.k = "int" => v = Int_(v.i) /\ v.i \in Int
         /\ v.k = "text" => v = Text(v.s) /\ v.s \in Seq(Characters)
         /\ v.k = "array" => v = Array(v.items) /\ v.items \in Seq(Values)
         /\ v.k = "object" => /\ v = Object(v.map)
                              /\ v.map \in [DOMAIN v.map -> Values]
                              /\ \A key \in DOMAIN v.map : Text(key) \in Values
  BY ValuesAssumption DEF NullValue, Kinds

\* How many pieces each kind has.
LEMMA PiecesOf ==
  ASSUME NEW v
  PROVE  /\ v.k \in {"null", "bool"} => Pieces(v) = 1
         /\ v.k = "int" => Pieces(v) = Len(Decimal(v.i))
         /\ v.k = "text" => Pieces(v) = Len(v.s) + 2
         /\ Composite(v) =>
              Pieces(v) = IF PartCount(v) = 0 THEN 2 ELSE 2 * PartCount(v) + 1
<1>1. CASE v.k \in {"null", "bool"}
  BY <1>1 DEF Pieces, Composite
<1>2. CASE v.k = "int"
  BY <1>2 DEF Pieces, Composite
<1>3. CASE v.k = "text"
  BY <1>3 DEF Pieces, Composite
<1>4. CASE Composite(v)
  BY <1>4 DEF Pieces, Composite
<1> QED
  BY <1>1, <1>2, <1>3, <1>4

\* What the i-th of them is, where it is no part.
LEMMA CharsOf ==
  ASSUME NEW v, NEW i
  PROVE  /\ v.k = "null" => Chars(v, i) = <<"n", "u", "l", "l">>
         /\ v.k = "bool" => Chars(v, i) = IF v.b THEN <<"t", "r", "u", "e">>
                                          ELSE <<"f", "a", "l", "s", "e">>
         /\ v.k = "int" => Chars(v, i) = <<Decimal(v.i)[i]>>
         /\ v.k = "text" => Chars(v, i) = IF i = 1 \/ i = Pieces(v) THEN <<"\"">>
                                          ELSE escape(v.s[i - 1])
         /\ Composite(v) => Chars(v, i) = <<Mark(v, i)>>
<1>1. CASE v.k \in {"null", "bool"}
  BY <1>1 DEF Chars, Composite
<1>2. CASE v.k = "int"
  BY <1>2 DEF Chars, Composite
<1>3. CASE v.k = "text"
  BY <1>3 DEF Chars, Composite
<1>4. CASE Composite(v)
  BY <1>4 DEF Chars, Composite
<1> QED
  BY <1>1, <1>2, <1>3, <1>4 DEF Composite

\* An array begins with its bracket.
LEMMA ArrayOpens ==
  ASSUME NEW v, v.k = "array", Pieces(v) # 1
  PROVE  Mark(v, 1) = "["
  BY DEF Mark

\* An object begins with its brace.
LEMMA ObjectOpens ==
  ASSUME NEW v, v.k = "object", Pieces(v) # 1
  PROVE  Mark(v, 1) = "{"
  BY DEF Mark

\* The last mark closes.
LEMMA MarkLast ==
  ASSUME NEW v, Pieces(v) # 1
  PROVE  Mark(v, Pieces(v)) \in {"]", "}"}
  BY DEF Mark

\* The marks between separate.
LEMMA MarkBetween ==
  ASSUME NEW v, NEW i, i # 1, i # Pieces(v)
  PROVE  Mark(v, i) \in {":", ","}
  BY DEF Mark

\* There are no other marks.
LEMMA MarkIn ==
  ASSUME NEW v, NEW i, Pieces(v) # 1
  PROVE  Mark(v, i) \in {"[", "]", "{", "}", ":", ","}
  BY DEF Mark

\* No two characters share an escape letter, and none has that of a control character.
LEMMA LettersApart ==
  /\ \A c, d \in DOMAIN Letters : Letters[c] = Letters[d] => c = d
  /\ \A c \in DOMAIN Letters : Letters[c] # "u"
<1>1. DOMAIN Letters = {"\"", "\\", "\n", "\t", "\r"}
  BY DEF Letters
<1>2. Letters["\""] = "\"" /\ Letters["\\"] = "\\"
  BY DEF Letters
<1>3. Letters["\n"] = "n" /\ Letters["\t"] = "t" /\ Letters["\r"] = "r"
  BY DEF Letters
<1> HIDE DEF Letters
<1> QED
  BY <1>1, <1>2, <1>3

-----------------------------------------------------------------------------
(***************************************************************************)
(* Characters.                                                             *)
(***************************************************************************)

\* Two texts differ in a place both have.
Clash(s, t) == \E i \in DOMAIN s \cap DOMAIN t : s[i] # t[i]

\* What canonical texts are made of: no newline, since it is escaped.
Printable ==
  (Characters \ {"\n"}) \cup HexDigits \cup
  {"n", "u", "l", "t", "r", "e", "f", "a", "s", "-", "\"", "\\",
   "[", "]", "{", "}", ":", ","}

\* What is in two sequences, one behind the other.
LEMMA Concatenated ==
  ASSUME NEW S, NEW s \in Seq(S), NEW t \in Seq(S)
  PROVE  /\ s \o t \in Seq(S)
         /\ Len(s \o t) = Len(s) + Len(t)
         /\ \A i \in 1..Len(s) : (s \o t)[i] = s[i]
         /\ \A i \in 1..Len(t) : (s \o t)[Len(s) + i] = t[i]
  OBVIOUS

\* A sequence of one.
LEMMA Letter ==
  ASSUME NEW S, NEW a \in S
  PROVE  <<a>> \in Seq(S) /\ Len(<<a>>) > 0 /\ <<a>>[1] = a
  OBVIOUS

\* The words of the encoding are texts.
LEMMA Words ==
  ASSUME NEW S, NEW a \in S, NEW b \in S, NEW c \in S, NEW d \in S, NEW e \in S
  PROVE  /\ <<a, b, c, d>> \in Seq(S) /\ Len(<<a, b, c, d>>) > 0
         /\ <<a, b, c, d, e>> \in Seq(S) /\ Len(<<a, b, c, d, e>>) > 0
  OBVIOUS

\* A sequence of two.
LEMMA Pair ==
  ASSUME NEW a, NEW b
  PROVE  DOMAIN <<a, b>> = 1..2 /\ <<a, b>>[1] = a /\ <<a, b>>[2] = b
  OBVIOUS

\* The three ways of writing a character.
LEMMA EscapeOf ==
  /\ \A c \in DOMAIN Letters : escape(c) = <<"\\", Letters[c]>>
  /\ \A c \in Controls : escape(c) = <<"\\", "u">> \o Hex(c)
  /\ \A c : c \notin DOMAIN Letters /\ c \notin Controls => escape(c) = <<c>>
<1>1. \A c \in Controls : c \notin DOMAIN Letters
  BY HexAssumption
<1> QED
  BY <1>1 DEF escape

\* What a control character is written as.
LEMMA ControlEscape ==
  ASSUME NEW c \in Controls
  PROVE  /\ escape(c) \in Seq(Printable) /\ DOMAIN escape(c) = 1..6
         /\ escape(c)[1] = "\\" /\ escape(c)[2] = "u"
         /\ \A i \in 1..4 : escape(c)[i + 2] = Hex(c)[i]
<1> DEFINE h == Hex(c)
<1>1. h \in Seq(Printable) /\ Len(h) = 4
  <2>1. h \in Seq(HexDigits) /\ Len(h) = 4
    BY HexAssumption
  <2>2. HexDigits \subseteq Printable
    BY DEF Printable
  <2> QED
    BY <2>1, <2>2
<1> DEFINE u == <<"\\", "u">>
<1>2. u \in Seq(Printable) /\ Len(u) = 2 /\ u[1] = "\\" /\ u[2] = "u"
  BY DEF Printable
<1>3. escape(c) = u \o h
  BY EscapeOf
<1> HIDE DEF h, u
<1>4. /\ escape(c) \in Seq(Printable) /\ Len(escape(c)) = 6
      /\ \A i \in 1..2 : escape(c)[i] = u[i]
      /\ \A i \in 1..4 : escape(c)[2 + i] = h[i]
  <2>1. /\ u \o h \in Seq(Printable)
        /\ Len(u \o h) = Len(u) + Len(h)
        /\ \A i \in 1..Len(u) : (u \o h)[i] = u[i]
        /\ \A i \in 1..Len(h) : (u \o h)[Len(u) + i] = h[i]
    <3>1. u \in Seq(Printable) /\ h \in Seq(Printable)
      BY <1>1, <1>2
    <3> QED
      BY <3>1, Concatenated
  <2>2. Len(u) = 2 /\ Len(h) = 4 /\ 2 + 4 = 6
    BY <1>1, <1>2
  <2> QED
    BY <1>3, <2>1, <2>2, Zenon
<1>5. DOMAIN escape(c) = 1..6
  BY <1>4
<1>6. \A i \in 1..4 : i + 2 = 2 + i
  OBVIOUS
<1> QED
  BY <1>2, <1>4, <1>5, <1>6 DEF h

\* How the three ways of writing a character begin.
LEMMA EscapeBegins ==
  /\ \A c \in DOMAIN Letters : /\ 1 \in DOMAIN escape(c) /\ 2 \in DOMAIN escape(c)
                               /\ escape(c)[1] = "\\"
                               /\ escape(c)[2] = Letters[c]
  /\ \A c \in Controls : /\ 1 \in DOMAIN escape(c) /\ 2 \in DOMAIN escape(c)
                         /\ escape(c)[1] = "\\"
                         /\ escape(c)[2] = "u"
  /\ \A c : c \notin DOMAIN Letters /\ c \notin Controls =>
       /\ 1 \in DOMAIN escape(c)
       /\ escape(c)[1] = c
       /\ c \notin {"\\", "\""}
<1>1. {"\\", "\""} \subseteq DOMAIN Letters
  BY DEF Letters
<1>2. ASSUME NEW c \in DOMAIN Letters
      PROVE  /\ 1 \in DOMAIN escape(c) /\ 2 \in DOMAIN escape(c)
             /\ escape(c)[1] = "\\"
             /\ escape(c)[2] = Letters[c]
  BY EscapeOf, Pair
<1>3. ASSUME NEW c, c \notin DOMAIN Letters, c \notin Controls
      PROVE  /\ 1 \in DOMAIN escape(c)
             /\ escape(c)[1] = c
  <2>1. escape(c) = <<c>>
    BY <1>3, EscapeOf
  <2> QED
    BY <2>1
<1>4. ASSUME NEW c \in Controls
      PROVE  1 \in DOMAIN escape(c) /\ 2 \in DOMAIN escape(c)
  BY ControlEscape
<1> QED
  BY <1>1, <1>2, <1>3, <1>4, ControlEscape

\* Two characters are not written alike, and neither begins the other.
LEMMA EscapesApart ==
  ASSUME NEW c, NEW d, c # d
  PROVE  Clash(escape(c), escape(d))
<1>1. CASE c \in Controls /\ d \in Controls
  <2>1. PICK i \in 1..4 : Hex(c)[i] # Hex(d)[i]
    <3>1. /\ Hex(c) \in Seq(HexDigits) /\ Len(Hex(c)) = 4
          /\ Hex(d) \in Seq(HexDigits) /\ Len(Hex(d)) = 4
          /\ Hex(c) # Hex(d)
      BY <1>1, HexAssumption
    <3> QED
      BY <3>1
  <2>2. i + 2 \in 1..6
    OBVIOUS
  <2> QED
    BY <1>1, <2>1, <2>2, ControlEscape DEF Clash
<1>2. CASE c \in DOMAIN Letters /\ d \in DOMAIN Letters
  <2>1. Letters[c] # Letters[d]
    BY <1>2, LettersApart
  <2>2. 2 \in DOMAIN escape(c) \cap DOMAIN escape(d)
    BY <1>2, EscapeBegins
  <2> QED
    BY <1>2, <2>1, <2>2, EscapeBegins DEF Clash
<1>3. CASE c \in DOMAIN Letters /\ d \in Controls
  <2>1. Letters[c] # "u"
    BY <1>3, LettersApart
  <2>2. 2 \in DOMAIN escape(c) \cap DOMAIN escape(d)
    BY <1>3, EscapeBegins
  <2> QED
    BY <1>3, <2>1, <2>2, EscapeBegins DEF Clash
<1>4. CASE c \in Controls /\ d \in DOMAIN Letters
  <2>1. Letters[d] # "u"
    BY <1>4, LettersApart
  <2>2. 2 \in DOMAIN escape(c) \cap DOMAIN escape(d)
    BY <1>4, EscapeBegins
  <2> QED
    BY <1>4, <2>1, <2>2, EscapeBegins DEF Clash
<1>5. CASE \/ c \notin DOMAIN Letters /\ c \notin Controls
           \/ d \notin DOMAIN Letters /\ d \notin Controls
  <2>1. 1 \in DOMAIN escape(c) \cap DOMAIN escape(d)
    BY EscapeBegins
  <2>2. escape(c)[1] # escape(d)[1]
    <3>1. ASSUME NEW x, x \notin DOMAIN Letters, x \notin Controls, NEW y, y # x
          PROVE  escape(x)[1] # escape(y)[1]
      <4>1. escape(x)[1] = x /\ x # "\\"
        BY <3>1, EscapeBegins
      <4>2. escape(y)[1] = "\\" \/ escape(y)[1] = y
        BY EscapeBegins
      <4> QED
        BY <3>1, <4>1, <4>2
    <3> QED
      BY <1>5, <3>1
  <2> QED
    BY <2>1, <2>2 DEF Clash
<1> QED
  BY <1>1, <1>2, <1>3, <1>4, <1>5

\* No character is written with a quote first.
LEMMA QuoteApart ==
  ASSUME NEW c
  PROVE  Clash(<<"\"">>, escape(c)) /\ Clash(escape(c), <<"\"">>)
<1>1. 1 \in DOMAIN escape(c) /\ escape(c)[1] # "\""
  BY EscapeBegins
<1>2. 1 \in DOMAIN <<"\"">> /\ <<"\"">>[1] = "\""
  OBVIOUS
<1> QED
  BY <1>1, <1>2 DEF Clash

\* A character is written in printable ones.
LEMMA EscapeWritten ==
  ASSUME NEW c \in Characters
  PROVE  escape(c) \in Seq(Printable) /\ Len(escape(c)) > 0
<1>1. CASE c \in DOMAIN Letters
  <2>1. Letters[c] \in Printable
    BY <1>1 DEF Letters, Printable
  <2>2. escape(c) = <<"\\", Letters[c]>> /\ "\\" \in Printable
    BY <1>1 DEF escape, Printable
  <2> QED
    BY <2>1, <2>2
<1>2. CASE c \in Controls
  BY <1>2, ControlEscape
<1>3. CASE c \notin DOMAIN Letters /\ c \notin Controls
  <2>1. c \in Printable
    BY <1>3 DEF Printable, Letters
  <2>2. escape(c) = <<c>>
    BY <1>3, EscapeOf
  <2> QED
    BY <2>1, <2>2
<1> QED
  BY <1>1, <1>2, <1>3

\* A value has a piece, an array or an object two.
LEMMA Counted ==
  ASSUME NEW v \in Values
  PROVE  /\ Pieces(v) \in Nat \ {0}
         /\ Composite(v) => PartCount(v) \in Nat /\ Pieces(v) # 1
         /\ v.k = "text" => Len(v.s) \in Nat
<1>1. CASE v.k \in {"null", "bool"}
  BY <1>1, PiecesOf DEF Composite
<1>2. CASE v.k = "int"
  BY <1>2, PiecesOf, DecimalAssumption DEF Composite
<1>3. CASE v.k = "text"
  BY <1>3, PiecesOf, Shape DEF Composite
<1>4. CASE Composite(v)
  <2>1. PartCount(v) \in Nat
    BY <1>4, Shape, KeysAssumption DEF PartCount, Composite
  <2> QED
    BY <1>4, <2>1, PiecesOf DEF Composite
<1> QED
  BY <1>1, <1>2, <1>3, <1>4, Shape DEF Kinds, Composite

\* A piece is written in printable characters, at least one.
LEMMA CharsWritten ==
  ASSUME NEW v \in Values, NEW i \in 1..Pieces(v)
  PROVE  Chars(v, i) \in Seq(Printable) /\ Len(Chars(v, i)) > 0
<1>1. Pieces(v) \in Nat
  BY Counted
<1>2. /\ "n" \in Printable /\ "u" \in Printable /\ "l" \in Printable
      /\ "t" \in Printable /\ "r" \in Printable /\ "e" \in Printable
      /\ "f" \in Printable /\ "a" \in Printable /\ "s" \in Printable
      /\ "\"" \in Printable
  BY DEF Printable
<1>3. CASE v.k \in {"null", "bool"}
  <2>1. Chars(v, i) \in {<<"n", "u", "l", "l">>, <<"t", "r", "u", "e">>,
                         <<"f", "a", "l", "s", "e">>}
    BY <1>3, CharsOf
  <2>2. /\ <<"n", "u", "l", "l">> \in Seq(Printable) /\ Len(<<"n", "u", "l", "l">>) > 0
        /\ <<"t", "r", "u", "e">> \in Seq(Printable) /\ Len(<<"t", "r", "u", "e">>) > 0
        /\ <<"f", "a", "l", "s", "e">> \in Seq(Printable)
        /\ Len(<<"f", "a", "l", "s", "e">>) > 0
    BY <1>2, Words
  <2> QED
    BY <2>1, <2>2
<1>4. CASE v.k = "int"
  <2>1. Decimal(v.i)[i] \in Digits \cup {"-"}
    BY <1>1, <1>4, PiecesOf, DecimalAssumption
  <2>2. Decimal(v.i)[i] \in Printable
    BY <2>1 DEF Printable, HexDigits
  <2>3. Chars(v, i) = <<Decimal(v.i)[i]>>
    BY <1>4, CharsOf
  <2> QED
    BY <2>2, <2>3, Letter
<1>5. CASE v.k = "text"
  <2>1. CASE i = 1 \/ i = Pieces(v)
    <3>1. Chars(v, i) = <<"\"">>
      BY <1>5, <2>1, CharsOf
    <3>2. <<"\"">> \in Seq(Printable) /\ Len(<<"\"">>) > 0
      BY <1>2, Letter
    <3> QED
      BY <3>1, <3>2
  <2>2. CASE i # 1 /\ i # Pieces(v)
    <3>1. v.s[i - 1] \in Characters
      BY <1>1, <1>5, <2>2, PiecesOf, Shape
    <3> QED
      BY <1>5, <2>2, <3>1, CharsOf, EscapeWritten
  <2> QED
    BY <2>1, <2>2
<1>6. CASE Composite(v)
  <2>1. Mark(v, i) \in {"[", "]", "{", "}", ":", ","}
    <3>1. v.k \in {"array", "object"} /\ Pieces(v) # 1
      BY <1>6, Counted DEF Composite
    <3> QED
      BY <3>1, MarkIn
  <2>2. Mark(v, i) \in Printable
    BY <2>1 DEF Printable
  <2>3. Chars(v, i) = <<Mark(v, i)>>
    BY <1>6, CharsOf
  <2> QED
    BY <2>2, <2>3, Letter
<1> QED
  BY <1>3, <1>4, <1>5, <1>6, Shape DEF Kinds, Composite

-----------------------------------------------------------------------------
(***************************************************************************)
(* Pieces tell values apart.                                               *)
(***************************************************************************)
\* What a value begins with, and what comes behind one.
Starters == Digits \cup {"-", "n", "t", "f", "\"", "[", "{"}
Marks == {",", ":", "]", "}"}

\* The j-th pieces of two values are the same.
Same(v, w, j) ==
  /\ IsPart(v, j) <=> IsPart(w, j)
  /\ IsPart(v, j) => Part(v, j \div 2) = Part(w, j \div 2)
  /\ ~IsPart(v, j) => Chars(v, j) = Chars(w, j)

Alike(v, w, n) == \A j \in 1..n : Same(v, w, j)

\* How the first piece of a value begins tells its kind.
LEMMA Begins ==
  ASSUME NEW v \in Values
  PROVE  /\ ~IsPart(v, 1)
         /\ 1 \in DOMAIN Chars(v, 1)
         /\ v.k = "null" => Chars(v, 1)[1] = "n"
         /\ v.k = "bool" => Chars(v, 1)[1] = IF v.b THEN "t" ELSE "f"
         /\ v.k = "int" => /\ Chars(v, 1)[1] = Decimal(v.i)[1]
                           /\ Decimal(v.i)[1] \in Digits \cup {"-"}
         /\ v.k = "text" => Chars(v, 1)[1] = "\""
         /\ v.k = "array" => Chars(v, 1)[1] = "["
         /\ v.k = "object" => Chars(v, 1)[1] = "{"
<1>1. ~IsPart(v, 1)
  BY DEF IsPart
<1>2. 1 \in DOMAIN Chars(v, 1)
  BY Counted, CharsWritten
<1>3. CASE v.k \in {"null", "bool"}
  <2>1. CASE v.k = "null"
    <3>1. Chars(v, 1) = <<"n", "u", "l", "l">>
      BY <2>1, CharsOf
    <3>2. Chars(v, 1)[1] = "n"
      BY <3>1
    <3> QED
      BY <1>1, <1>2, <2>1, <3>2
  <2>2. CASE v.k = "bool" /\ v.b
    <3>1. Chars(v, 1) = <<"t", "r", "u", "e">>
      BY <2>2, CharsOf
    <3>2. Chars(v, 1)[1] = "t"
      BY <3>1
    <3> QED
      BY <1>1, <1>2, <2>2, <3>2
  <2>3. CASE v.k = "bool" /\ ~v.b
    <3>1. Chars(v, 1) = <<"f", "a", "l", "s", "e">>
      BY <2>3, CharsOf
    <3>2. Chars(v, 1)[1] = "f"
      BY <3>1
    <3> QED
      BY <1>1, <1>2, <2>3, <3>2
  <2> QED
    BY <1>3, <2>1, <2>2, <2>3
<1>4. CASE v.k = "int"
  <2>1. Chars(v, 1) = <<Decimal(v.i)[1]>>
    BY <1>4, CharsOf
  <2>2. Decimal(v.i)[1] \in Digits \cup {"-"}
    BY <1>4, DecimalAssumption
  <2> QED
    BY <1>1, <1>2, <1>4, <2>1, <2>2
<1>5. CASE v.k = "text"
  <2>1. Chars(v, 1) = <<"\"">>
    BY <1>5, CharsOf
  <2>2. Chars(v, 1)[1] = "\""
    BY <2>1, Letter
  <2> QED
    BY <1>1, <1>2, <1>5, <2>2
<1>6. CASE v.k \in {"array", "object"}
  <2>1. Chars(v, 1) = <<Mark(v, 1)>>
    BY <1>6, CharsOf DEF Composite
  <2>2. Pieces(v) # 1
    BY <1>6, Counted DEF Composite
  <2>3. Chars(v, 1)[1] = Mark(v, 1)
    BY <2>1
  <2> QED
    <3>1. CASE v.k = "array"
      <4>1. Mark(v, 1) = "["
        BY <2>2, <3>1, ArrayOpens
      <4> QED
        BY <1>1, <1>2, <2>3, <3>1, <4>1
    <3>2. CASE v.k = "object"
      <4>1. Mark(v, 1) = "{"
        BY <2>2, <3>2, ObjectOpens
      <4> QED
        BY <1>1, <1>2, <2>3, <3>2, <4>1
    <3> QED
      BY <1>6, <3>1, <3>2
<1> QED
  BY <1>3, <1>4, <1>5, <1>6, Shape DEF Kinds

\* A value begins like no mark, and like no value of another kind.
LEMMA Started ==
  ASSUME NEW v \in Values
  PROVE  /\ Chars(v, 1)[1] \in Starters
         /\ \A w \in Values : Chars(v, 1)[1] = Chars(w, 1)[1]
              => v.k = w.k /\ (v.k = "bool" => v.b = w.b)
<1>1. \A w \in Values : /\ w.k \in Kinds
                        /\ w.k = "bool" => w.b \in BOOLEAN
  BY Shape
<1>2. Chars(v, 1)[1] \in Starters
  BY <1>1, Begins DEF Starters, Kinds
<1>3. ASSUME NEW w \in Values, Chars(v, 1)[1] = Chars(w, 1)[1]
      PROVE  v.k = w.k /\ (v.k = "bool" => v.b = w.b)
  <2>1. CASE v.k = "null"
    BY <1>1, <1>3, <2>1, Begins DEF Kinds, Digits
  <2>2. CASE v.k = "bool"
    BY <1>1, <1>3, <2>2, Begins DEF Kinds, Digits
  <2>3. CASE v.k = "int"
    BY <1>1, <1>3, <2>3, Begins DEF Kinds, Digits
  <2>4. CASE v.k = "text"
    BY <1>1, <1>3, <2>4, Begins DEF Kinds, Digits
  <2>5. CASE v.k = "array"
    BY <1>1, <1>3, <2>5, Begins DEF Kinds, Digits
  <2>6. CASE v.k = "object"
    BY <1>1, <1>3, <2>6, Begins DEF Kinds, Digits
  <2> QED
    BY <1>1, <2>1, <2>2, <2>3, <2>4, <2>5, <2>6 DEF Kinds
<1> QED
  BY <1>2, <1>3

\* Values with a first piece in common are of one kind.
LEMMA OneKind ==
  ASSUME NEW v \in Values, NEW w \in Values, NEW n \in Nat, n > 0, Alike(v, w, n)
  PROVE  v.k = w.k /\ (v.k = "bool" => v.b = w.b)
<1>1. Same(v, w, 1)
  BY DEF Alike
<1>2. Chars(v, 1) = Chars(w, 1)
  BY <1>1, Begins DEF Same
<1> QED
  BY <1>2, Started

\* Characters behind common pieces are equal or clash.
LEMMA OneLetter ==
  ASSUME NEW a, NEW b
  PROVE  <<a>> = <<b>> \/ Clash(<<a>>, <<b>>)
<1>1. CASE a = b
  BY <1>1
<1>2. CASE a # b
  <2>1. 1 \in DOMAIN <<a>> /\ 1 \in DOMAIN <<b>> /\ <<a>>[1] = a /\ <<b>>[1] = b
    OBVIOUS
  <2> QED
    BY <1>2, <2>1 DEF Clash
<1> QED
  BY <1>1, <1>2

\* A sequence of one determines what is in it.
LEMMA OneLetterEqual ==
  ASSUME NEW a, NEW b, <<a>> = <<b>>
  PROVE  a = b
  OBVIOUS

\* Behind common pieces the next characters are equal or clash: neither begins the other.
LEMMA CharsApart ==
  ASSUME NEW v \in Values, NEW w \in Values, NEW n \in Nat,
         n < Pieces(v), n < Pieces(w), Alike(v, w, n),
         ~IsPart(v, n + 1), ~IsPart(w, n + 1)
  PROVE  Chars(v, n + 1) = Chars(w, n + 1) \/ Clash(Chars(v, n + 1), Chars(w, n + 1))
<1>1. CASE n = 0 /\ Chars(v, 1)[1] # Chars(w, 1)[1]
  <2>1. n + 1 = 1
    BY <1>1
  <2>2. Clash(Chars(v, 1), Chars(w, 1))
    BY <1>1, Begins DEF Clash
  <2> QED
    BY <2>1, <2>2
<1>2. CASE ~(n = 0 /\ Chars(v, 1)[1] # Chars(w, 1)[1])
  <2>1. v.k = w.k /\ (v.k = "bool" => v.b = w.b)
    <3>1. CASE n = 0
      BY <1>2, <3>1, Started
    <3>2. CASE n > 0
      BY <3>2, OneKind
    <3> QED
      BY <3>1, <3>2
  <2>2. CASE v.k \in {"null", "bool"}
    BY <2>1, <2>2, CharsOf
  <2>3. CASE v.k = "int"
    BY <2>1, <2>3, CharsOf, OneLetter
  <2>4. CASE v.k = "text"
    BY <2>1, <2>4, CharsOf, EscapesApart, QuoteApart
  <2>5. CASE Composite(v)
    <3>1. /\ Chars(v, n + 1) = <<Mark(v, n + 1)>>
          /\ Chars(w, n + 1) = <<Mark(w, n + 1)>>
      BY <2>1, <2>5, CharsOf DEF Composite
    <3> QED
      BY <3>1, OneLetter
  <2> QED
    BY <2>2, <2>3, <2>4, <2>5, Shape DEF Kinds, Composite
<1> QED
  BY <1>1, <1>2

-----------------------------------------------------------------------------
(***************************************************************************)
(* Where equal pieces lead.                                                *)
(***************************************************************************)

\* An array or an object is its parts.
LEMMA PartsTell ==
  ASSUME NEW v \in Values, NEW w \in Values, Composite(v), v.k = w.k,
         PartCount(v) = PartCount(w),
         \A j \in 1..PartCount(v) : Part(v, j) = Part(w, j)
  PROVE  v = w
<1>1. CASE v.k = "array"
  <2>1. /\ v.items \in Seq(Values) /\ v = Array(v.items)
        /\ w.items \in Seq(Values) /\ w = Array(w.items)
    BY <1>1, Shape
  <2>2. Len(v.items) = Len(w.items) /\ \A j \in 1..Len(v.items) : v.items[j] = w.items[j]
    BY <1>1 DEF PartCount, Part
  <2>3. v.items = w.items
    BY <2>1, <2>2
  <2> QED
    BY <2>1, <2>3
<1>2. CASE v.k = "object"
  <2> DEFINE a == KeysOf(v.map)
             b == KeysOf(w.map)
             m == Len(a)
  <2>1. /\ v = Object(v.map) /\ v.map \in [DOMAIN v.map -> Values]
        /\ w = Object(w.map) /\ w.map \in [DOMAIN w.map -> Values]
    BY <1>2, Shape
  <2>2. /\ a \in Seq(DOMAIN v.map) /\ \A key \in DOMAIN v.map : \E i \in DOMAIN a : a[i] = key
        /\ b \in Seq(DOMAIN w.map) /\ \A key \in DOMAIN w.map : \E i \in DOMAIN b : b[i] = key
    BY <1>2, KeysAssumption
  <2>3. v.k # "array" /\ w.k # "array"
    BY <1>2
  <2>4. PartCount(v) = 2 * Len(a) /\ PartCount(w) = 2 * Len(b)
    BY <2>3 DEF PartCount
  <2>5. \A j : /\ j % 2 = 1 => /\ Part(v, j) = Text(a[(j + 1) \div 2])
                              /\ Part(w, j) = Text(b[(j + 1) \div 2])
               /\ j % 2 # 1 => /\ Part(v, j) = v.map[a[(j + 1) \div 2]]
                              /\ Part(w, j) = w.map[b[(j + 1) \div 2]]
    BY <2>3 DEF Part
  <2> HIDE DEF a, b
  <2>6. /\ m \in Nat /\ Len(b) = m
        /\ DOMAIN a = 1..m /\ DOMAIN b = 1..m
        /\ PartCount(v) = 2 * m
    <3>1. /\ Len(a) \in Nat /\ DOMAIN a = 1..Len(a)
          /\ Len(b) \in Nat /\ DOMAIN b = 1..Len(b)
      BY <2>2
    <3>2. Len(a) = Len(b)
      <4>1. 2 * Len(a) = 2 * Len(b)
        BY <2>4, Zenon
      <4>2. PICK x \in Nat, y \in Nat : x = Len(a) /\ y = Len(b)
        BY <3>1, Zenon
      <4>3. x = y
        <5>1. 2 * x = 2 * y
          BY <4>1, <4>2, Zenon
        <5> QED
          BY <5>1
      <4> QED
        BY <4>2, <4>3, Zenon
    <3> QED
      BY <2>4, <3>1, <3>2
  <2> HIDE DEF m
  <2>7. ASSUME NEW i \in 1..m
        PROVE  a[i] = b[i] /\ v.map[a[i]] = w.map[a[i]]
    <3>1. /\ 2 * i - 1 \in 1..PartCount(v) /\ (2 * i - 1) % 2 = 1
          /\ (2 * i - 1 + 1) \div 2 = i
          /\ 2 * i \in 1..PartCount(v) /\ (2 * i) % 2 # 1
          /\ (2 * i + 1) \div 2 = i
      BY <2>6
    <3>2. Text(a[i]) = Text(b[i])
      BY <2>5, <3>1
    <3>3. a[i] = b[i]
      BY <3>2 DEF Text
    <3>4. v.map[a[i]] = w.map[b[i]]
      BY <2>5, <3>1
    <3> QED
      BY <3>3, <3>4
  <2>8. DOMAIN v.map = DOMAIN w.map
    <3>1. \A i \in 1..m : a[i] \in DOMAIN v.map /\ b[i] \in DOMAIN w.map
      BY <2>2, <2>6
    <3>2. /\ \A key \in DOMAIN v.map : \E i \in 1..m : a[i] = key
          /\ \A key \in DOMAIN w.map : \E i \in 1..m : b[i] = key
      BY <2>2, <2>6
    <3>3. \A i \in 1..m : a[i] = b[i]
      BY <2>7
    <3>4. ASSUME NEW key \in DOMAIN v.map
          PROVE  key \in DOMAIN w.map
      <4>1. PICK i \in 1..m : a[i] = key
        BY <3>2
      <4> QED
        BY <3>1, <3>3, <4>1
    <3>5. ASSUME NEW key \in DOMAIN w.map
          PROVE  key \in DOMAIN v.map
      <4>1. PICK i \in 1..m : b[i] = key
        BY <3>2
      <4> QED
        BY <3>1, <3>3, <4>1
    <3> QED
      BY <3>4, <3>5, Zenon
  <2>9. \A key \in DOMAIN v.map : v.map[key] = w.map[key]
    BY <2>2, <2>6, <2>7
  <2>10. v.map = w.map
    BY <2>1, <2>8, <2>9
  <2> QED
    BY <2>1, <2>10
<1> QED
  BY <1>1, <1>2 DEF Composite

\* Where the pieces of two values have been the same up to the n-th, some characters
\* just written: both end and are one value, or both go on alike, or one of them
\* closes or ends where the other goes on with something else.
Ends(v, w, n) == n = Pieces(v) /\ n = Pieces(w) /\ v = w

GoOn(v, w, n) ==
  /\ n < Pieces(v) /\ n < Pieces(w)
  /\ IsPart(v, n + 1) <=> IsPart(w, n + 1)

Closes(v, w, n) ==
  /\ n < Pieces(v) /\ n < Pieces(w)
  /\ ~IsPart(v, n + 1) /\ IsPart(w, n + 1)
  /\ Chars(v, n + 1)[1] \in Marks

EndsFirst(v, w, n) ==
  /\ n = Pieces(v) /\ n < Pieces(w)
  /\ ~IsPart(w, n + 1)
  /\ Chars(w, n + 1)[1] \in Starters

Forks(v, w, n) ==
  \/ Ends(v, w, n) \/ GoOn(v, w, n)
  \/ Closes(v, w, n) \/ Closes(w, v, n)
  \/ EndsFirst(v, w, n) \/ EndsFirst(w, v, n)

\* Integers: they have the same digits, or one goes on with another digit.
LEMMA IntForks ==
  ASSUME NEW v \in Values, NEW w \in Values, NEW n \in Nat, n > 0,
         n <= Pieces(v), n <= Pieces(w), Alike(v, w, n), v.k = "int", w.k = "int"
  PROVE  Forks(v, w, n)
<1>1. \A j : ~IsPart(v, j) /\ ~IsPart(w, j)
  BY DEF IsPart, Composite
<1>2. /\ Pieces(v) = Len(Decimal(v.i)) /\ Pieces(w) = Len(Decimal(w.i))
      /\ \A j : Chars(v, j) = <<Decimal(v.i)[j]>> /\ Chars(w, j) = <<Decimal(w.i)[j]>>
  BY PiecesOf, CharsOf
<1>3. /\ Decimal(v.i) \in Seq(Digits \cup {"-"}) /\ Decimal(w.i) \in Seq(Digits \cup {"-"})
      /\ Decimal(v.i) = Decimal(w.i) => v.i = w.i
      /\ v = Int_(v.i) /\ w = Int_(w.i)
  BY DecimalAssumption, Shape
<1>4. \A j \in 1..n : Decimal(v.i)[j] = Decimal(w.i)[j]
  <2> TAKE j \in 1..n
  <2>1. Chars(v, j) = Chars(w, j)
    BY <1>1 DEF Alike, Same
  <2> QED
    BY <1>2, <2>1
<1>5. CASE n = Pieces(v) /\ n = Pieces(w)
  <2>1. Decimal(v.i) = Decimal(w.i)
    <3> DEFINE a == Decimal(v.i)
               b == Decimal(w.i)
    <3>1. Len(a) = n /\ Len(b) = n /\ \A j \in 1..n : a[j] = b[j]
      BY <1>2, <1>4, <1>5
    <3>2. a \in Seq(Digits \cup {"-"}) /\ b \in Seq(Digits \cup {"-"})
      BY <1>3
    <3> HIDE DEF a, b
    <3>3. a = b
      BY <3>1, <3>2
    <3> QED
      BY <3>3 DEF a, b
  <2> QED
    BY <1>3, <1>5, <2>1 DEF Forks, Ends
<1>6. CASE n < Pieces(v) /\ n < Pieces(w)
  BY <1>1, <1>6 DEF Forks, GoOn
<1>7. ASSUME NEW x \in Values, x.k = "int", n < Pieces(x)
      PROVE  Chars(x, n + 1)[1] \in Starters
  <2>1. Chars(x, n + 1) = <<Decimal(x.i)[n + 1]>> /\ Pieces(x) = Len(Decimal(x.i))
    BY <1>7, CharsOf, PiecesOf
  <2>2. Decimal(x.i)[n + 1] \in Digits \cup {"-"}
    BY <1>7, <2>1, DecimalAssumption
  <2>3. Chars(x, n + 1)[1] = Decimal(x.i)[n + 1]
    BY <2>1
  <2> QED
    BY <2>2, <2>3 DEF Starters
<1>8. CASE n = Pieces(v) /\ n < Pieces(w)
  BY <1>1, <1>7, <1>8 DEF Forks, EndsFirst
<1>9. CASE n = Pieces(w) /\ n < Pieces(v)
  BY <1>1, <1>7, <1>9 DEF Forks, EndsFirst
<1> QED
  BY <1>5, <1>6, <1>8, <1>9, Counted

\* Texts: only the closing quote ends one, so neither ends first.
LEMMA TextForks ==
  ASSUME NEW v \in Values, NEW w \in Values, NEW n \in Nat, n > 0,
         n <= Pieces(v), n <= Pieces(w), Alike(v, w, n), v.k = "text", w.k = "text"
  PROVE  Forks(v, w, n)
<1>1. \A j : ~IsPart(v, j) /\ ~IsPart(w, j)
  BY DEF IsPart, Composite
<1>2. /\ Pieces(v) = Len(v.s) + 2 /\ Pieces(w) = Len(w.s) + 2
      /\ Len(v.s) \in Nat /\ Len(w.s) \in Nat
      /\ v.s \in Seq(Characters) /\ w.s \in Seq(Characters)
      /\ v = Text(v.s) /\ w = Text(w.s)
  BY PiecesOf, Counted, Shape
<1>3. ~Clash(Chars(v, n), Chars(w, n)) /\ \A j \in 1..n : Chars(v, j) = Chars(w, j)
  BY <1>1 DEF Alike, Same, Clash
<1>4. ASSUME NEW j
      PROVE  /\ j = Pieces(v) => Chars(v, j) = <<"\"">>
             /\ j = Pieces(w) => Chars(w, j) = <<"\"">>
             /\ j # 1 /\ j # Pieces(v) => Chars(v, j) = escape(v.s[j - 1])
             /\ j # 1 /\ j # Pieces(w) => Chars(w, j) = escape(w.s[j - 1])
  BY CharsOf
<1>5. ASSUME NEW c, NEW d, escape(c) = escape(d)
      PROVE  c = d
  BY <1>5, EscapesApart DEF Clash
<1>6. \A c : escape(c) # <<"\"">>
  BY QuoteApart DEF Clash
<1>7. n = Pieces(v) <=> n = Pieces(w)
  <2>1. Chars(v, n) = Chars(w, n) /\ (n = Pieces(v) \/ n = Pieces(w) => n # 1)
    BY <1>2, <1>3
  <2>2. ASSUME n = Pieces(v), n # Pieces(w)
        PROVE  FALSE
    BY <1>4, <1>6, <2>1, <2>2
  <2>3. ASSUME n = Pieces(w), n # Pieces(v)
        PROVE  FALSE
    BY <1>4, <1>6, <2>1, <2>3
  <2> QED
    BY <2>2, <2>3
<1>8. CASE n = Pieces(v)
  <2>1. ASSUME NEW j \in 1..Len(v.s)
        PROVE  v.s[j] = w.s[j]
    <3>1. j + 1 \in 1..n /\ j + 1 # 1 /\ j + 1 # Pieces(v) /\ j + 1 # Pieces(w) /\ j + 1 - 1 = j
      BY <1>2, <1>7, <1>8
    <3>2. PICK i : i = j + 1
      OBVIOUS
    <3>3. /\ i # 1 /\ i # Pieces(v) => Chars(v, i) = escape(v.s[i - 1])
          /\ i # 1 /\ i # Pieces(w) => Chars(w, i) = escape(w.s[i - 1])
      BY <1>4
    <3>4. Chars(v, i) = escape(v.s[j]) /\ Chars(w, i) = escape(w.s[j])
      BY <3>1, <3>2, <3>3
    <3> QED
      BY <1>3, <1>5, <3>1, <3>2, <3>4
  <2>2. Len(v.s) = Len(w.s)
    BY <1>2, <1>7, <1>8
  <2>3. v.s = w.s
    BY <1>2, <2>1, <2>2
  <2> QED
    BY <1>2, <1>7, <1>8, <2>3 DEF Forks, Ends
<1>9. CASE n # Pieces(v)
  BY <1>1, <1>2, <1>7, <1>9 DEF Forks, GoOn
<1> QED
  BY <1>8, <1>9

\* The pieces of an array or an object: the opening, its parts at the even places,
\* each with a mark behind it, the last of which closes.
LEMMA CompositePieces ==
  ASSUME NEW v \in Values, Composite(v)
  PROVE  \E c \in Nat, p \in Nat :
           /\ c = PartCount(v) /\ p = Pieces(v)
           /\ c = 0 => p = 2
           /\ c > 0 => p = 2 * c + 1
<1>1. PartCount(v) \in Nat /\ Pieces(v) \in Nat
  BY Counted
<1>2. Pieces(v) = IF PartCount(v) = 0 THEN 2 ELSE 2 * PartCount(v) + 1
  BY PiecesOf
<1>3. PICK c \in Nat, p \in Nat : c = PartCount(v) /\ p = Pieces(v)
  BY <1>1, Zenon
<1>4. p = IF c = 0 THEN 2 ELSE 2 * c + 1
  BY <1>2, <1>3, Zenon
<1>5. (c = 0 => p = 2) /\ (c > 0 => p = 2 * c + 1)
  BY <1>4
<1> QED
  BY <1>3, <1>5, Zenon

\* Beside its parts an array or an object has one character at a time.
LEMMA CompositeChars ==
  ASSUME NEW v, Composite(v), NEW i
  PROVE  Chars(v, i) = <<Mark(v, i)>> /\ Chars(v, i)[1] = Mark(v, i)
<1>1. Chars(v, i) = <<Mark(v, i)>>
  BY CharsOf
<1>2. Chars(v, i)[1] = Mark(v, i)
  BY <1>1
<1> QED
  BY <1>1, <1>2

\* Behind the opening comes a mark, and the last is told from the others.
LEMMA ClosingMark ==
  ASSUME NEW v \in Values, Composite(v), NEW p, p = Pieces(v), NEW i, i # 1
  PROVE  /\ Mark(v, i) \in Marks
         /\ (i = p) <=> (Mark(v, i) \in {"]", "}"})
<1>1. p # 1
  BY Counted
<1>2. CASE i = p
  BY <1>1, <1>2, MarkLast DEF Marks
<1>3. CASE i # p
  <2>1. Mark(v, i) \in {":", ","}
    BY <1>3, MarkBetween
  <2> QED
    BY <1>3, <2>1 DEF Marks
<1> QED
  BY <1>2, <1>3

\* Arrays and objects: only an empty one closes where the other goes on.
LEMMA CompositeForks ==
  ASSUME NEW v \in Values, NEW w \in Values, NEW n \in Nat, n > 0,
         n <= Pieces(v), n <= Pieces(w), Alike(v, w, n), ~IsPart(v, n),
         Composite(v), v.k = w.k
  PROVE  Forks(v, w, n)
<1>1. Composite(w)
  BY DEF Composite
<1>2. PICK a \in Nat, p \in Nat :
        /\ a = PartCount(v) /\ p = Pieces(v)
        /\ a = 0 => p = 2
        /\ a > 0 => p = 2 * a + 1
  BY CompositePieces
<1>3. PICK b \in Nat, q \in Nat :
        /\ b = PartCount(w) /\ q = Pieces(w)
        /\ b = 0 => q = 2
        /\ b > 0 => q = 2 * b + 1
  BY <1>1, CompositePieces
<1>4. n <= p /\ n <= q
  BY <1>2, <1>3, Zenon
<1>5. /\ \A i : IsPart(v, i) <=> a > 0 /\ i % 2 = 0
      /\ \A i : IsPart(w, i) <=> b > 0 /\ i % 2 = 0
  <2>1. /\ \A i : IsPart(v, i) <=> i % 2 = 0 /\ PartCount(v) > 0
        /\ \A i : IsPart(w, i) <=> i % 2 = 0 /\ PartCount(w) > 0
    BY <1>1 DEF IsPart
  <2> QED
    BY <1>2, <1>3, <2>1, Zenon
<1>6. CASE n = 1
  <2>1. n + 1 = 2 /\ 2 % 2 = 0 /\ n < p /\ n < q
    BY <1>2, <1>3, <1>6
  <2>2. Chars(v, n + 1)[1] \in Marks /\ Chars(w, n + 1)[1] \in Marks
    <3>1. PICK i : i = n + 1
      OBVIOUS
    <3>2. i # 1
      BY <2>1, <3>1
    <3>3. Mark(v, i) \in Marks /\ Mark(w, i) \in Marks
      BY <1>1, <3>2, ClosingMark
    <3>4. Chars(v, i)[1] \in Marks /\ Chars(w, i)[1] \in Marks
      BY <1>1, <3>3, CompositeChars
    <3> QED
      BY <3>1, <3>4, Zenon
  <2>3. n < Pieces(v) /\ n < Pieces(w)
    BY <1>2, <1>3, <2>1, Zenon
  <2>4. (IsPart(v, n + 1) <=> a > 0) /\ (IsPart(w, n + 1) <=> b > 0)
    BY <1>5, <2>1, Zenon
  <2> QED
    BY <2>2, <2>3, <2>4, Zenon DEF Forks, GoOn, Closes
<1>7. CASE n # 1
  <2>1. 2 \in 1..n /\ 2 % 2 = 0
    BY <1>7
  <2>2. IsPart(v, 2) <=> IsPart(w, 2)
    BY <2>1 DEF Alike, Same
  <2>3. a > 0 <=> b > 0
    BY <1>5, <2>1, <2>2, Zenon
  <2>4. CASE a = 0
    <3>1. n = p /\ n = q /\ a = b
      BY <1>2, <1>3, <1>4, <1>7, <2>3, <2>4
    <3>2. ASSUME NEW j \in 1..a
          PROVE  Part(v, j) = Part(w, j)
      BY <2>4
    <3>3. PartCount(v) = PartCount(w) /\ \A j \in 1..PartCount(v) : Part(v, j) = Part(w, j)
      BY <1>2, <1>3, <3>1, <3>2, Zenon
    <3>4. v = w
      BY <1>1, <3>3, PartsTell
    <3> QED
      BY <1>2, <1>3, <3>1, <3>4, Zenon DEF Forks, Ends
  <2>5. CASE a # 0
    <3>1. a > 0 /\ b > 0
      BY <2>3, <2>5
    <3>2. n % 2 # 0
      BY <1>5, <3>1, Zenon
    <3>3. Mark(v, n) = Mark(w, n)
      <4>1. n \in 1..n
        OBVIOUS
      <4>2. Chars(v, n) = Chars(w, n)
        BY <4>1 DEF Alike, Same
      <4> QED
        BY <1>1, <4>2, CompositeChars, Zenon
    <3>4. n = p <=> n = q
      <4>1. /\ n = p <=> Mark(v, n) \in {"]", "}"}
            /\ n = q <=> Mark(w, n) \in {"]", "}"}
        BY <1>1, <1>2, <1>3, <1>7, ClosingMark
      <4> QED
        BY <3>3, <4>1
    <3>5. CASE n = p
      <4>1. a = b /\ n = 2 * a + 1
        BY <1>2, <1>3, <3>1, <3>4, <3>5
      <4>2. ASSUME NEW j \in 1..a
            PROVE  Part(v, j) = Part(w, j)
        <5>1. 2 * j \in 1..n /\ (2 * j) % 2 = 0 /\ (2 * j) \div 2 = j
          BY <4>1
        <5>2. PICK i : i = 2 * j
          OBVIOUS
        <5>3. i \in 1..n /\ i % 2 = 0 /\ i \div 2 = j
          BY <5>1, <5>2, Zenon
        <5>4. Same(v, w, i) /\ IsPart(v, i)
          BY <1>5, <3>1, <5>3, Zenon DEF Alike
        <5> QED
          BY <5>3, <5>4, Zenon DEF Same
      <4>3. PartCount(v) = PartCount(w) /\ \A j \in 1..PartCount(v) : Part(v, j) = Part(w, j)
        BY <1>2, <1>3, <4>1, <4>2, Zenon
      <4>4. v = w
        BY <1>1, <4>3, PartsTell
      <4> QED
        BY <1>2, <1>3, <3>4, <3>5, <4>4, Zenon DEF Forks, Ends
    <3>6. CASE n # p
      <4>1. n < p /\ n < q /\ (n + 1) % 2 = 0
        BY <1>4, <3>2, <3>4, <3>6
      <4>2. IsPart(v, n + 1) /\ IsPart(w, n + 1)
        BY <1>5, <3>1, <4>1, Zenon
      <4>3. n < Pieces(v) /\ n < Pieces(w)
        BY <1>2, <1>3, <4>1, Zenon
      <4> QED
        BY <4>2, <4>3, Zenon DEF Forks, GoOn
    <3> QED
      BY <3>5, <3>6
  <2> QED
    BY <2>4, <2>5
<1> QED
  BY <1>6, <1>7

\* So it is for any two values.
LEMMA Forked ==
  ASSUME NEW v \in Values, NEW w \in Values, NEW n \in Nat, n > 0,
         n <= Pieces(v), n <= Pieces(w), Alike(v, w, n), ~IsPart(v, n)
  PROVE  Forks(v, w, n)
<1>1. v.k = w.k /\ (v.k = "bool" => v.b = w.b)
  BY OneKind
<1>2. CASE v.k \in {"null", "bool"}
  <2>1. v = w
    BY <1>1, <1>2, Shape
  <2>2. Pieces(v) = 1 /\ Pieces(w) = 1
    BY <1>1, <1>2, PiecesOf
  <2> QED
    BY <2>1, <2>2 DEF Forks, Ends
<1> QED
  BY <1>1, <1>2, IntForks, TextForks, CompositeForks, Shape DEF Kinds, Composite

\* Behind a part comes a mark.
LEMMA MarkBehind ==
  ASSUME NEW v \in Values, NEW i \in Nat, IsPart(v, i), 0 < i, i <= Pieces(v)
  PROVE  /\ i < Pieces(v)
         /\ ~IsPart(v, i + 1)
         /\ Chars(v, i + 1)[1] \in Marks
         /\ Part(v, i \div 2) \in Values
<1>1. Composite(v) /\ i % 2 = 0 /\ PartCount(v) > 0
  BY DEF IsPart
<1>2. PICK c \in Nat, p \in Nat :
        /\ c = PartCount(v) /\ p = Pieces(v)
        /\ c = 0 => p = 2
        /\ c > 0 => p = 2 * c + 1
  BY <1>1, CompositePieces
<1>3. c > 0 /\ i <= p
  BY <1>1, <1>2, Zenon
<1>4. i < p /\ (i + 1) % 2 # 0 /\ i + 1 # 1
  BY <1>1, <1>2, <1>3
<1>5. i < Pieces(v) /\ ~IsPart(v, i + 1)
  BY <1>2, <1>4, Zenon DEF IsPart
<1>6. Chars(v, i + 1)[1] \in Marks
  <2>1. PICK j : j = i + 1
    OBVIOUS
  <2>2. j # 1
    BY <1>4, <2>1, Zenon
  <2>3. Mark(v, j) \in Marks
    BY <1>1, <2>2, ClosingMark
  <2>4. Chars(v, j)[1] = Mark(v, j)
    BY <1>1, CompositeChars
  <2> QED
    BY <2>1, <2>3, <2>4, Zenon
<1>7. Part(v, i \div 2) \in Values
  <2> DEFINE j == i \div 2
  <2>1. j \in 1..c
    BY <1>1, <1>2, <1>3, <1>4
  <2> HIDE DEF j
  <2>2. CASE v.k = "array"
    <3>1. v.items \in Seq(Values) /\ c = Len(v.items) /\ Part(v, j) = v.items[j]
      BY <1>2, <2>2, Shape DEF PartCount, Part
    <3> QED
      BY <2>1, <3>1 DEF j
  <2>3. CASE v.k = "object"
    <3> DEFINE keys == KeysOf(v.map)
    <3>1. /\ v.map \in [DOMAIN v.map -> Values]
          /\ \A key \in DOMAIN v.map : Text(key) \in Values
          /\ keys \in Seq(DOMAIN v.map)
      BY <2>3, Shape, KeysAssumption
    <3>2. c = 2 * Len(keys)
      BY <1>2, <2>3 DEF PartCount
    <3>3. Part(v, j) \in {Text(keys[(j + 1) \div 2]), v.map[keys[(j + 1) \div 2]]}
      BY <2>3 DEF Part
    <3> HIDE DEF keys
    <3>4. (j + 1) \div 2 \in 1..Len(keys)
      BY <2>1, <3>1, <3>2
    <3>5. keys[(j + 1) \div 2] \in DOMAIN v.map
      BY <3>1, <3>4
    <3> QED
      BY <3>1, <3>3, <3>5 DEF j
  <2> QED
    BY <1>1, <2>2, <2>3 DEF Composite
<1> QED
  BY <1>5, <1>6, <1>7
-----------------------------------------------------------------------------
(***************************************************************************)
(* A run on its own: each call has characters to write next, and its       *)
(* caller waits at the part it encodes.                                    *)
(***************************************************************************)
CallRecords == [v : Values, at : Nat]

\* A call goes on with characters.
Ready(c) == c.at < Pieces(c.v) /\ ~IsPart(c.v, c.at + 1)

\* A call waits for the inner one, which encodes a part of its value.
Waits(c, inner) ==
  c.at > 0 /\ IsPart(c.v, c.at) /\ inner.v = Part(c.v, c.at \div 2)

Settled(e) ==
  /\ e.value \in Values
  /\ e.out \in Seq(Printable)
  /\ e.calls \in Seq(CallRecords)
  /\ \A d \in 1..Len(e.calls) : Ready(e.calls[d])
  /\ \A d \in 1..Len(e.calls) - 1 : Waits(e.calls[d], e.calls[d + 1])
  /\ Running(e) => e.calls[1].v = e.value

\* The three ways encode_into leaves the n calls of a run, the innermost of which
\* has written the i-th piece of v.
Returned(g, n, v, i) == i = Pieces(v) /\ Len(g.calls) = n - 1

Called(g, n, v, i) ==
  /\ i < Pieces(v) /\ IsPart(v, i + 1)
  /\ Len(g.calls) = n + 1
  /\ g.calls[n].v = v /\ g.calls[n].at = i + 1
  /\ g.calls[n + 1].v = Part(v, (i + 1) \div 2) /\ g.calls[n + 1].at = 0

WentOn(g, n, v, i) ==
  /\ i < Pieces(v) /\ ~IsPart(v, i + 1)
  /\ Len(g.calls) = n
  /\ g.calls[n].v = v /\ g.calls[n].at = i

\* A step of a run, from e to g.
Moved(e, g, n, v, i) ==
  /\ n = Len(e.calls) /\ e.calls[n].v = v /\ e.calls[n].at + 1 = i
  /\ i <= Pieces(v) /\ ~IsPart(v, i)
  /\ g.value = e.value
  /\ g.out = e.out \o Chars(v, i)
  /\ g.calls \in Seq(CallRecords)
  /\ \A d \in 1..n - 1 : g.calls[d] = e.calls[d]
  /\ Returned(g, n, v, i) \/ Called(g, n, v, i) \/ WentOn(g, n, v, i)

\* All calls but the innermost,
LEMMA Callers ==
  ASSUME NEW S, NEW s \in Seq(S), NEW n \in Nat, n > 0, n = Len(s),
         NEW r, r = SubSeq(s, 1, n - 1)
  PROVE  r \in Seq(S) /\ Len(r) = n - 1 /\ \A d \in 1..n - 1 : r[d] = s[d]
  OBVIOUS

\* and one more,
LEMMA FrontAndOne ==
  ASSUME NEW S, NEW r \in Seq(S), NEW n \in Nat, n > 0, Len(r) = n - 1, NEW a \in S
  PROVE  /\ Append(r, a) \in Seq(S) /\ Len(Append(r, a)) = n
         /\ Append(r, a)[n] = a
         /\ \A d \in 1..n - 1 : Append(r, a)[d] = r[d]
  OBVIOUS

\* and two more.
LEMMA FrontAndTwo ==
  ASSUME NEW S, NEW r \in Seq(S), NEW n \in Nat, n > 0, Len(r) = n - 1,
         NEW t \in Seq(S), Len(t) = 2
  PROVE  /\ r \o t \in Seq(S) /\ Len(r \o t) = n + 1
         /\ (r \o t)[n] = t[1] /\ (r \o t)[n + 1] = t[2]
         /\ \A d \in 1..n - 1 : (r \o t)[d] = r[d]
<1>1. /\ r \o t \in Seq(S)
      /\ Len(r \o t) = Len(r) + Len(t)
      /\ \A k \in 1..Len(r) : (r \o t)[k] = r[k]
      /\ \A k \in 1..Len(t) : (r \o t)[Len(r) + k] = t[k]
  BY Concatenated
<1>2. /\ Len(r) + Len(t) = n + 1 /\ 1 \in 1..Len(t) /\ 2 \in 1..Len(t)
      /\ Len(r) + 1 = n /\ Len(r) + 2 = n + 1
  OBVIOUS
<1>3. (r \o t)[n] = t[1] /\ (r \o t)[n + 1] = t[2] /\ Len(r \o t) = n + 1
  BY <1>1, <1>2, Zenon
<1>4. \A d \in 1..n - 1 : (r \o t)[d] = r[d]
  BY <1>1, Zenon
<1> QED
  BY <1>1, <1>3, <1>4

\* encode_into does one of the three (canonical.rs:9-34).
LEMMA Moves ==
  ASSUME NEW e, Settled(e), Running(e)
  PROVE  \E n \in Nat, v \in Values, i \in Nat :
           n > 0 /\ i > 0 /\ Moved(e, encode_into(e), n, v, i)
<1>1. PICK s \in Seq(CallRecords), n \in Nat : s = e.calls /\ n = Len(s) /\ n > 0
  BY DEF Settled, Running
<1>2. s[n] \in CallRecords /\ Ready(s[n])
  BY <1>1 DEF Settled
<1>3. PICK v \in Values, at \in Nat : s[n].v = v /\ s[n].at = at
  BY <1>2 DEF CallRecords
<1>4. PICK i \in Nat : i = at + 1
  OBVIOUS
<1>5. i > 0 /\ i <= Pieces(v) /\ ~IsPart(v, i)
  <2>1. at < Pieces(v) /\ ~IsPart(v, at + 1)
    BY <1>2, <1>3 DEF Ready
  <2>2. PICK p \in Nat : p = Pieces(v)
    BY Counted
  <2>3. at < p
    BY <2>1, <2>2
  <2>4. i > 0 /\ i <= p
    BY <1>4, <2>3
  <2> QED
    BY <1>4, <2>1, <2>2, <2>4, Zenon
<1> DEFINE g == encode_into(e)
           r == SubSeq(s, 1, n - 1)
           a == [v |-> v, at |-> i + 1]
           b == Call(Part(v, (i + 1) \div 2))
           c == [v |-> v, at |-> i]
<1>6. /\ g.value = e.value
      /\ g.out = e.out \o Chars(v, i)
      /\ i = Pieces(v) => g.calls = r
      /\ i # Pieces(v) /\ IsPart(v, i + 1) => g.calls = r \o <<a, b>>
      /\ i # Pieces(v) /\ ~IsPart(v, i + 1) => g.calls = Append(r, c)
  BY <1>1, <1>3, <1>4 DEF encode_into
<1>7. c \in CallRecords /\ c.v = v /\ c.at = i
  BY DEF CallRecords
<1>8. ASSUME i # Pieces(v), IsPart(v, i + 1)
      PROVE  a \in CallRecords /\ a.v = v /\ a.at = i + 1
             /\ b \in CallRecords /\ b.v = Part(v, (i + 1) \div 2) /\ b.at = 0
  <2>1. PICK j \in Nat, p \in Nat : j = i + 1 /\ p = Pieces(v)
    BY Counted
  <2>2. 0 < j /\ j <= p
    <3>1. i <= p /\ i # p
      BY <1>5, <1>8, <2>1, Zenon
    <3> QED
      BY <2>1, <3>1
  <2>3. Part(v, j \div 2) \in Values
    BY <1>8, <2>1, <2>2, MarkBehind
  <2>4. Part(v, (i + 1) \div 2) \in Values
    BY <2>1, <2>3, Zenon
  <2>5. a \in CallRecords /\ a.v = v /\ a.at = i + 1
    BY DEF CallRecords
  <2>6. b \in CallRecords /\ b.v = Part(v, (i + 1) \div 2) /\ b.at = 0
    BY <2>4 DEF CallRecords, Call
  <2> QED
    BY <2>5, <2>6
<1> HIDE DEF g, r, a, b, c
<1>9. r \in Seq(CallRecords) /\ Len(r) = n - 1 /\ \A d \in 1..n - 1 : r[d] = s[d]
  BY <1>1, Callers DEF r
<1>10. CASE i = Pieces(v)
  <2>1. r \in Seq(CallRecords) /\ Len(r) = n - 1 /\ \A d \in 1..n - 1 : r[d] = s[d]
    BY <1>9
  <2>2. Returned(g, n, v, i)
    BY <1>6, <1>10, <2>1 DEF Returned
  <2>3. Moved(e, g, n, v, i)
    BY <1>1, <1>3, <1>4, <1>5, <1>6, <1>10, <2>1, <2>2 DEF Moved
  <2> QED
    BY <1>1, <1>5, <2>3 DEF g
<1>11. CASE i # Pieces(v) /\ IsPart(v, i + 1)
  <2>1. PICK t : t = <<a, b>>
    OBVIOUS
  <2>2. t \in Seq(CallRecords) /\ Len(t) = 2 /\ t[1] = a /\ t[2] = b
    BY <1>8, <1>11, <2>1
  <2>3. /\ r \o t \in Seq(CallRecords) /\ Len(r \o t) = n + 1
        /\ (r \o t)[n] = t[1] /\ (r \o t)[n + 1] = t[2]
        /\ \A d \in 1..n - 1 : (r \o t)[d] = s[d]
    <3>1. /\ r \o t \in Seq(CallRecords) /\ Len(r \o t) = n + 1
          /\ (r \o t)[n] = t[1] /\ (r \o t)[n + 1] = t[2]
          /\ \A d \in 1..n - 1 : (r \o t)[d] = r[d]
      BY <1>1, <1>9, <2>2, FrontAndTwo
    <3> QED
      BY <1>9, <3>1, Zenon
  <2>4. g.calls = r \o t /\ i < Pieces(v)
    <3>1. g.calls = r \o <<a, b>>
      BY <1>6, <1>11
    <3> QED
      BY <1>5, <1>11, <2>1, <3>1, Counted
  <2>5. Called(g, n, v, i)
    BY <1>8, <1>11, <2>2, <2>3, <2>4 DEF Called
  <2>6. Moved(e, g, n, v, i)
    BY <1>1, <1>3, <1>4, <1>5, <1>6, <2>3, <2>4, <2>5 DEF Moved
  <2> QED
    BY <1>1, <1>5, <2>6 DEF g
<1>12. CASE i # Pieces(v) /\ ~IsPart(v, i + 1)
  <2>1. /\ Append(r, c) \in Seq(CallRecords) /\ Len(Append(r, c)) = n
        /\ Append(r, c)[n] = c
        /\ \A d \in 1..n - 1 : Append(r, c)[d] = s[d]
    BY <1>1, <1>7, <1>9, FrontAndOne
  <2>2. g.calls = Append(r, c) /\ i < Pieces(v)
    BY <1>5, <1>6, <1>12, Counted
  <2>3. WentOn(g, n, v, i)
    BY <1>7, <1>12, <2>1, <2>2 DEF WentOn
  <2>4. Moved(e, g, n, v, i)
    BY <1>1, <1>3, <1>4, <1>5, <1>6, <2>1, <2>2, <2>3 DEF Moved
  <2> QED
    BY <1>1, <1>5, <2>4 DEF g
<1> QED
  BY <1>10, <1>11, <1>12

\* A run stays settled.
LEMMA StaysSettled ==
  ASSUME NEW e, Settled(e), NEW g, NEW n \in Nat, n > 0, NEW v \in Values,
         NEW i \in Nat, i > 0, Moved(e, g, n, v, i)
  PROVE  Settled(g)
<1>1. /\ g.value = e.value /\ e.value \in Values
      /\ g.out = e.out \o Chars(v, i) /\ e.out \in Seq(Printable)
      /\ g.calls \in Seq(CallRecords)
  BY DEF Moved, Settled
<1>2. g.out \in Seq(Printable)
  <2>1. i \in 1..Pieces(v)
    BY Counted DEF Moved
  <2>2. Chars(v, i) \in Seq(Printable)
    BY <2>1, CharsWritten
  <2> QED
    BY <1>1, <2>2, Concatenated
<1>3. PICK s \in Seq(CallRecords), t \in Seq(CallRecords) :
        s = e.calls /\ t = g.calls
  BY <1>1 DEF Settled
<1>4. /\ n = Len(s) /\ s[n].v = v /\ s[n].at + 1 = i
      /\ \A d \in 1..n : Ready(s[d])
      /\ \A d \in 1..n - 1 : Waits(s[d], s[d + 1])
      /\ \A d \in 1..n - 1 : t[d] = s[d]
      /\ s[1].v = e.value
  BY <1>3 DEF Settled, Moved, Running
<1>5. ASSUME NEW d \in 1..n - 1
      PROVE  t[d] = s[d] /\ Ready(t[d]) /\ (d + 1 \in 1..n - 1 => Waits(t[d], t[d + 1]))
  <2>1. d \in 1..n
    OBVIOUS
  <2>2. t[d] = s[d] /\ Ready(t[d])
    BY <1>4, <2>1
  <2>3. ASSUME d + 1 \in 1..n - 1
        PROVE  Waits(t[d], t[d + 1])
    <3>1. PICK k : k = d + 1
      OBVIOUS
    <3>2. Waits(s[d], s[k]) /\ t[k] = s[k]
      BY <1>4, <2>3, <3>1, Zenon
    <3> QED
      BY <2>2, <3>1, <3>2, Zenon
  <2> QED
    BY <2>2, <2>3
<1>6. CASE Returned(g, n, v, i)
  <2>1. Len(t) = n - 1
    BY <1>3, <1>6 DEF Returned
  <2>2. \A d \in 1..Len(t) : Ready(t[d])
    BY <1>5, <2>1, Zenon
  <2>3. ASSUME NEW d \in 1..Len(t) - 1
        PROVE  Waits(t[d], t[d + 1])
    <3>1. d \in 1..n - 1 /\ d + 1 \in 1..n - 1
      BY <2>1
    <3> QED
      BY <1>5, <3>1, Zenon
  <2>4. t # <<>> => t[1].v = e.value
    <3>1. t # <<>> => 1 \in 1..n - 1
      BY <2>1
    <3> QED
      BY <1>4, <3>1
  <2> QED
    BY <1>1, <1>2, <1>3, <2>2, <2>3, <2>4 DEF Settled, Running
<1>7. \A d \in 1..n - 1 : d < n - 1 \/ d = n - 1
  OBVIOUS
<1>8. ASSUME n > 1, t[n].v = v
      PROVE  Waits(t[n - 1], t[n])
  <2>1. PICK k \in Nat : k = n - 1
    BY <1>8
  <2>2. k \in 1..n - 1 /\ k + 1 = n
    BY <1>8, <2>1
  <2>3. Waits(s[k], s[n]) /\ t[k] = s[k]
    BY <1>4, <2>2, Zenon
  <2>4. Waits(t[k], t[n])
    BY <1>4, <1>8, <2>3 DEF Waits
  <2> QED
    BY <2>1, <2>4, Zenon
<1>9. CASE WentOn(g, n, v, i)
  <2>1. /\ Len(t) = n /\ t[n].v = v /\ t[n].at = i
        /\ i < Pieces(v) /\ ~IsPart(v, i + 1)
    BY <1>3, <1>9 DEF WentOn
  <2>2. ASSUME NEW d \in 1..Len(t)
        PROVE  Ready(t[d])
    <3>1. CASE d = n
      BY <2>1, <3>1 DEF Ready
    <3>2. CASE d # n
      <4>1. d \in 1..n - 1
        BY <2>1, <3>2
      <4> QED
        BY <1>5, <4>1
    <3> QED
      BY <3>1, <3>2
  <2>3. ASSUME NEW d \in 1..Len(t) - 1
        PROVE  Waits(t[d], t[d + 1])
    <3>1. d \in 1..n - 1 /\ (d + 1 \in 1..n - 1 \/ (n > 1 /\ d = n - 1 /\ d + 1 = n))
      BY <2>1
    <3>2. CASE d + 1 \in 1..n - 1
      BY <1>5, <3>1, <3>2, Zenon
    <3>3. CASE n > 1 /\ d = n - 1 /\ d + 1 = n
      BY <1>8, <2>1, <3>3, Zenon
    <3> QED
      BY <3>1, <3>2, <3>3
  <2>4. t[1].v = e.value
    <3>1. n = 1 \/ 1 \in 1..n - 1
      OBVIOUS
    <3> QED
      BY <1>4, <2>1, <3>1
  <2> QED
    BY <1>1, <1>2, <1>3, <2>2, <2>3, <2>4 DEF Settled, Running
<1>10. CASE Called(g, n, v, i)
  <2>1. /\ Len(t) = n + 1 /\ t[n].v = v /\ t[n].at = i + 1
        /\ i < Pieces(v) /\ IsPart(v, i + 1)
        /\ t[n + 1].v = Part(v, (i + 1) \div 2) /\ t[n + 1].at = 0
    BY <1>3, <1>10 DEF Called
  <2>2. PICK j \in Nat : j = i + 1
    OBVIOUS
  <2>3. 0 < j /\ j <= Pieces(v)
    BY <2>1, <2>2, Counted
  <2>4. j < Pieces(v) /\ ~IsPart(v, j + 1) /\ Part(v, j \div 2) \in Values
    BY <2>1, <2>2, <2>3, MarkBehind
  <2>5. Ready(t[n])
    BY <2>1, <2>2, <2>4, Zenon DEF Ready
  <2>6. Ready(t[n + 1])
    <3>1. PICK x \in Values : x = Part(v, j \div 2)
      BY <2>4
    <3>2. t[n + 1].v = x
      BY <2>1, <2>2, <3>1, Zenon
    <3>3. Pieces(x) \in Nat \ {0} /\ ~IsPart(x, 1)
      BY Begins, Counted, Zenon
    <3>4. 0 < Pieces(x) /\ ~IsPart(x, 1)
      BY <3>3
    <3>5. 0 + 1 = 1
      OBVIOUS
    <3> QED
      BY <2>1, <3>2, <3>4, <3>5, Zenon DEF Ready
  <2>7. Waits(t[n], t[n + 1])
    BY <2>1, <2>2, <2>3, Zenon DEF Waits
  <2>8. ASSUME NEW d \in 1..Len(t)
        PROVE  Ready(t[d])
    <3>1. d \in 1..n - 1 \/ d = n \/ d = n + 1
      BY <2>1
    <3> QED
      BY <1>5, <2>5, <2>6, <3>1, Zenon
  <2>9. ASSUME NEW d \in 1..Len(t) - 1
        PROVE  Waits(t[d], t[d + 1])
    <3>1. \/ d \in 1..n - 1 /\ d + 1 \in 1..n - 1
          \/ n > 1 /\ d = n - 1 /\ d + 1 = n
          \/ d = n
      BY <2>1
    <3>2. CASE d \in 1..n - 1 /\ d + 1 \in 1..n - 1
      BY <1>5, <3>2, Zenon
    <3>3. CASE n > 1 /\ d = n - 1 /\ d + 1 = n
      BY <1>8, <2>1, <3>3, Zenon
    <3>4. CASE d = n
      BY <2>7, <3>4, Zenon
    <3> QED
      BY <3>1, <3>2, <3>3, <3>4
  <2>10. t[1].v = e.value
    <3>1. n = 1 \/ 1 \in 1..n - 1
      OBVIOUS
    <3> QED
      BY <1>4, <2>1, <3>1
  <2> QED
    BY <1>1, <1>2, <1>3, <2>8, <2>9, <2>10 DEF Settled, Running
<1> QED
  BY <1>6, <1>9, <1>10 DEF Moved

-----------------------------------------------------------------------------
(***************************************************************************)
(* Two runs, side by side.                                                 *)
(***************************************************************************)
\* So far the same pieces, of values that may be the same.
InStep(e, f) ==
  /\ e.out = f.out
  /\ Len(e.calls) = Len(f.calls)
  /\ Len(e.calls) = 0 => e.value = f.value
  /\ \A d \in 1..Len(e.calls) :
       /\ e.calls[d].at = f.calls[d].at
       /\ Alike(e.calls[d].v, f.calls[d].v, e.calls[d].at - 1)
  /\ Len(e.calls) > 0 =>
       Alike(e.calls[Len(e.calls)].v, f.calls[Len(e.calls)].v, e.calls[Len(e.calls)].at)

\* What a run writes next.
NextChars(e) == Chars(e.calls[Len(e.calls)].v, e.calls[Len(e.calls)].at + 1)

\* The second run is past the end of the first.
Ahead(e, f) == ~Running(e) /\ Len(f.out) > Len(e.out)

\* The texts differ, or are bound to.
Parted(e, f) ==
  \/ Clash(e.out, f.out)
  \/ Ahead(e, f) \/ Ahead(f, e)
  \/ e.out = f.out /\ (Running(e) <=> ~Running(f))
  \/ e.out = f.out /\ Running(e) /\ Running(f) /\ Clash(NextChars(e), NextChars(f))

\* Where a run is to go on.
LEMMA Nexts ==
  ASSUME NEW g, Settled(g), NEW n \in Nat, n > 0, NEW v \in Values,
         NEW i \in Nat, i > 0, NEW e, Moved(e, g, n, v, i)
  PROVE  /\ Called(g, n, v, i) => Running(g) /\ NextChars(g)[1] \in Starters
                                  /\ 1 \in DOMAIN NextChars(g)
         /\ WentOn(g, n, v, i) => Running(g) /\ NextChars(g) = Chars(v, i + 1)
                                  /\ 1 \in DOMAIN Chars(v, i + 1)
         /\ Returned(g, n, v, i) /\ n = 1 => ~Running(g)
         /\ Returned(g, n, v, i) /\ n > 1 /\ Settled(e) =>
              Running(g) /\ NextChars(g)[1] \in Marks
                            /\ 1 \in DOMAIN NextChars(g)
<1>1. PICK t \in Seq(CallRecords) : t = g.calls
  BY DEF Settled
<1>2. CASE Called(g, n, v, i)
  <2>1. PICK m \in Nat : m = n + 1
    OBVIOUS
  <2>2. m = Len(t) /\ m \in 1..Len(t)
    BY <1>1, <1>2, <2>1 DEF Called
  <2>3. t[m] \in CallRecords
    BY <2>2
  <2>4. PICK x \in Values, k \in Nat : m = Len(t) /\ x = t[m].v /\ k = t[m].at
    BY <2>2, <2>3 DEF CallRecords
  <2>5. k = 0 /\ k + 1 = 1 /\ t # <<>>
    BY <1>1, <1>2, <2>1, <2>4 DEF Called
  <2>6. NextChars(g) = Chars(x, 1)
    BY <1>1, <2>4, <2>5, Zenon DEF NextChars
  <2>7. Chars(x, 1)[1] \in Starters /\ 1 \in DOMAIN Chars(x, 1)
    BY Started, Begins
  <2> QED
    BY <1>1, <1>2, <2>5, <2>6, <2>7 DEF Running, Called, WentOn, Returned
<1>3. CASE WentOn(g, n, v, i)
  <2>1. Len(t) = n /\ t[n].v = v /\ t[n].at = i /\ t # <<>> /\ i < Pieces(v)
    BY <1>1, <1>3 DEF WentOn
  <2>2. NextChars(g) = Chars(v, i + 1)
    BY <1>1, <2>1, Zenon DEF NextChars
  <2>3. 1 \in DOMAIN Chars(v, i + 1)
    <3>1. i + 1 \in 1..Pieces(v)
      BY <2>1, Counted
    <3>2. PICK j : j = i + 1
      OBVIOUS
    <3>3. Chars(v, j) \in Seq(Printable) /\ Len(Chars(v, j)) > 0
      BY <3>1, <3>2, CharsWritten
    <3> QED
      BY <3>2, <3>3
  <2> QED
    BY <1>1, <1>3, <2>1, <2>2, <2>3 DEF Running, Called, WentOn, Returned
<1>4. CASE Returned(g, n, v, i) /\ n = 1
  BY <1>1, <1>4 DEF Running, Called, WentOn, Returned
<1>5. CASE Returned(g, n, v, i) /\ n > 1 /\ Settled(e)
  <2>1. PICK k \in Nat : k = n - 1
    BY <1>5
  <2>2. k \in 1..n - 1 /\ k > 0 /\ k + 1 = n /\ Len(t) = k /\ t # <<>> /\ k \in 1..k
    BY <1>1, <1>5, <2>1 DEF Returned
  <2>3. t[k] = e.calls[k] /\ Waits(e.calls[k], e.calls[k + 1]) /\ t[k] \in CallRecords
    <3>1. Len(e.calls) = n /\ t[k] = e.calls[k]
      BY <1>1, <2>2 DEF Moved
    <3>2. Waits(e.calls[k], e.calls[k + 1])
      BY <1>5, <2>2, <3>1 DEF Settled
    <3>3. t[k] \in CallRecords
      BY <2>2
    <3> QED
      BY <3>1, <3>2, <3>3
  <2>4. PICK x \in Values, j \in Nat : x = t[k].v /\ j = t[k].at
    BY <2>3 DEF CallRecords
  <2>5. j > 0 /\ IsPart(x, j)
    BY <2>3, <2>4, Zenon DEF Waits
  <2>6. Ready(t[k])
    BY <1>1, <2>2 DEF Settled
  <2>7. j <= Pieces(x) /\ j + 1 <= Pieces(x)
    BY <2>4, <2>6, Counted DEF Ready
  <2>8. Chars(x, j + 1)[1] \in Marks
    BY <2>5, <2>7, MarkBehind
  <2>9. NextChars(g) = Chars(x, j + 1)
    BY <1>1, <2>2, <2>4, Zenon DEF NextChars
  <2>10. 1 \in DOMAIN Chars(x, j + 1)
    <3>1. PICK l : l = j + 1
      OBVIOUS
    <3>2. l \in 1..Pieces(x)
      BY <2>7, <3>1, Counted
    <3>3. Chars(x, l) \in Seq(Printable) /\ Len(Chars(x, l)) > 0
      BY <3>2, CharsWritten
    <3> QED
      BY <3>1, <3>3
  <2> QED
    BY <1>1, <1>5, <2>2, <2>8, <2>9, <2>10 DEF Running, Called, WentOn, Returned
<1> QED
  BY <1>2, <1>3, <1>4, <1>5 DEF Moved

\* No value begins with a mark.
LEMMA MarksStart ==
  ASSUME NEW s, NEW t, 1 \in DOMAIN s, 1 \in DOMAIN t, s[1] \in Marks, t[1] \in Starters
  PROVE  Clash(s, t) /\ Clash(t, s)
<1>1. Marks \cap Starters = {}
  BY DEF Marks, Starters, Digits
<1> QED
  BY <1>1 DEF Clash

\* A clash behind a common text is one of the whole texts.
LEMMA ClashBehind ==
  ASSUME NEW S, NEW s \in Seq(S), NEW a \in Seq(S), NEW b \in Seq(S), Clash(a, b)
  PROVE  Clash(s \o a, s \o b)
<1>1. PICK l \in Nat : l = Len(s)
  OBVIOUS
<1>2. PICK k \in 1..Len(a) : k \in 1..Len(b) /\ a[k] # b[k]
  BY DEF Clash
<1>3. /\ s \o a \in Seq(S) /\ Len(s \o a) = Len(s) + Len(a)
      /\ \A j \in 1..Len(a) : (s \o a)[Len(s) + j] = a[j]
  BY Concatenated
<1>4. /\ s \o b \in Seq(S) /\ Len(s \o b) = Len(s) + Len(b)
      /\ \A j \in 1..Len(b) : (s \o b)[Len(s) + j] = b[j]
  BY Concatenated
<1>5. l + k \in DOMAIN (s \o a) /\ l + k \in DOMAIN (s \o b)
  BY <1>1, <1>2, <1>3, <1>4
<1>6. (s \o a)[l + k] # (s \o b)[l + k]
  BY <1>1, <1>2, <1>3, <1>4, Zenon
<1> QED
  BY <1>5, <1>6 DEF Clash

\* What is written behind a clash does not undo it.
LEMMA ClashLasts ==
  ASSUME NEW S, NEW s \in Seq(S), NEW t \in Seq(S), NEW a \in Seq(S), NEW b \in Seq(S),
         Clash(s, t)
  PROVE  Clash(s \o a, t \o b) /\ Clash(s \o a, t) /\ Clash(s, t \o b)
<1>1. PICK k \in 1..Len(s) : k \in 1..Len(t) /\ s[k] # t[k]
  BY DEF Clash
<1>2. /\ s \o a \in Seq(S) /\ Len(s \o a) = Len(s) + Len(a) /\ (s \o a)[k] = s[k]
      /\ t \o b \in Seq(S) /\ Len(t \o b) = Len(t) + Len(b) /\ (t \o b)[k] = t[k]
  BY <1>1, Concatenated
<1>3. k \in DOMAIN (s \o a) /\ k \in DOMAIN (t \o b) /\ k \in DOMAIN s /\ k \in DOMAIN t
  BY <1>1, <1>2
<1> QED
  BY <1>1, <1>2, <1>3 DEF Clash

\* Parting is mutual.
LEMMA PartedEither ==
  ASSUME NEW e, NEW f, Parted(e, f)
  PROVE  Parted(f, e)
<1>1. \A s, t : Clash(s, t) => Clash(t, s)
  BY DEF Clash
<1> QED
  BY <1>1 DEF Parted

\* A mark in one run, a value's start in the other.
LEMMA ClosesParts ==
  ASSUME NEW g, Settled(g), NEW e, NEW h, Settled(h), NEW f,
         NEW n \in Nat, n > 0, NEW i \in Nat, i > 0,
         NEW v \in Values, Moved(e, g, n, v, i), NEW w \in Values, Moved(f, h, n, w, i),
         g.out = h.out, Closes(v, w, i)
  PROVE  Parted(g, h)
<1>1. Pieces(v) \in Nat /\ Pieces(w) \in Nat
  BY Counted
<1>2. WentOn(g, n, v, i) /\ Called(h, n, w, i)
  BY <1>1 DEF Closes, Moved, WentOn, Called, Returned
<1>3. /\ Running(g) /\ NextChars(g)[1] \in Marks /\ 1 \in DOMAIN NextChars(g)
      /\ Running(h) /\ NextChars(h)[1] \in Starters /\ 1 \in DOMAIN NextChars(h)
  BY <1>2, Nexts DEF Closes
<1> QED
  BY <1>3, MarksStart DEF Parted

\* The end of a value in one run, more of it in the other.
LEMMA EndsParts ==
  ASSUME NEW e, Settled(e), NEW g, Settled(g), NEW h, Settled(h), NEW f,
         NEW n \in Nat, n > 0, NEW i \in Nat, i > 0,
         NEW v \in Values, Moved(e, g, n, v, i), NEW w \in Values, Moved(f, h, n, w, i),
         g.out = h.out, EndsFirst(v, w, i)
  PROVE  Parted(g, h)
<1>1. Pieces(v) \in Nat /\ Pieces(w) \in Nat
  BY Counted
<1>2. Returned(g, n, v, i) /\ WentOn(h, n, w, i)
  BY <1>1 DEF EndsFirst, Moved, WentOn, Called, Returned
<1>3. Running(h) /\ NextChars(h)[1] \in Starters /\ 1 \in DOMAIN NextChars(h)
  BY <1>2, Nexts DEF EndsFirst
<1>4. CASE n = 1
  <2>1. ~Running(g)
    BY <1>2, <1>4, Nexts
  <2> QED
    BY <1>3, <2>1 DEF Parted
<1>5. CASE n > 1
  <2>1. Running(g) /\ NextChars(g)[1] \in Marks /\ 1 \in DOMAIN NextChars(g)
    BY <1>2, <1>5, Nexts
  <2> QED
    BY <1>3, <2>1, MarksStart DEF Parted
<1> QED
  BY <1>4, <1>5

\* Two runs in step stay so, or part.
LEMMA FromInStep ==
  ASSUME NEW e, Settled(e), NEW g, Settled(g), NEW f, Settled(f), NEW h, Settled(h),
         InStep(e, f),
         NEW n \in Nat, n > 0, NEW v \in Values, NEW i \in Nat, i > 0, Moved(e, g, n, v, i),
         NEW m \in Nat, m > 0, NEW w \in Values, NEW j \in Nat, j > 0, Moved(f, h, m, w, j)
  PROVE  InStep(g, h) \/ Parted(g, h)
<1>1. PICK s \in Seq(CallRecords), t \in Seq(CallRecords) : s = e.calls /\ t = f.calls
  BY DEF Settled
<1>2. /\ n = Len(s) /\ s[n].v = v /\ s[n].at + 1 = i
      /\ m = Len(t) /\ t[m].v = w /\ t[m].at + 1 = j
      /\ i <= Pieces(v) /\ ~IsPart(v, i) /\ j <= Pieces(w) /\ ~IsPart(w, j)
  BY <1>1 DEF Moved
<1>3. m = n /\ s[n].at = t[n].at /\ Alike(v, w, s[n].at)
  <2>1. /\ Len(s) = Len(t) /\ \A d \in 1..Len(s) : s[d].at = t[d].at
        /\ Len(s) > 0 => Alike(s[Len(s)].v, t[Len(s)].v, s[Len(s)].at)
    BY <1>1 DEF InStep
  <2> QED
    BY <1>2, <2>1
<1>4. s[n] \in CallRecords
  BY <1>2
<1>5. PICK k \in Nat : k = s[n].at
  BY <1>4 DEF CallRecords
<1>6. i = k + 1 /\ j = i
  BY <1>2, <1>3, <1>5
<1>7. Pieces(v) \in Nat /\ Pieces(w) \in Nat /\ i \in 1..Pieces(v) /\ i \in 1..Pieces(w)
  BY <1>2, <1>6, Counted
<1>8. Chars(v, i) \in Seq(Printable) /\ Chars(w, i) \in Seq(Printable)
  BY <1>7, CharsWritten
<1>9. /\ e.out \in Seq(Printable) /\ e.out = f.out
      /\ g.out = e.out \o Chars(v, i) /\ h.out = e.out \o Chars(w, i)
  BY <1>6 DEF Settled, InStep, Moved
<1>10. Chars(v, i) = Chars(w, i) \/ Clash(Chars(v, i), Chars(w, i))
  <2>1. k < Pieces(v) /\ k < Pieces(w)
    BY <1>6, <1>7
  <2>2. Alike(v, w, k) /\ ~IsPart(v, k + 1) /\ ~IsPart(w, k + 1)
    BY <1>2, <1>3, <1>5, <1>6
  <2> QED
    BY <1>6, <2>1, <2>2, CharsApart
<1>11. CASE Clash(Chars(v, i), Chars(w, i))
  BY <1>8, <1>9, <1>11, ClashBehind DEF Parted
<1>12. CASE Chars(v, i) = Chars(w, i)
  <2>1. g.out = h.out
    BY <1>9, <1>12
  <2>2. Alike(v, w, i)
    <3>1. Same(v, w, i)
      BY <1>2, <1>6, <1>12 DEF Same
    <3>2. \A d \in 1..i : d \in 1..k \/ d = i
      BY <1>6
    <3>3. \A d \in 1..k : Same(v, w, d)
      BY <1>3, <1>5 DEF Alike
    <3> QED
      BY <3>1, <3>2, <3>3, Zenon DEF Alike
  <2>3. Forks(v, w, i)
    BY <1>2, <1>6, <2>2, Forked
  <2>4. Moved(f, h, n, w, i)
    BY <1>3, <1>6
  <2>5. CASE Closes(v, w, i)
    BY <2>1, <2>4, <2>5, ClosesParts
  <2>6. CASE Closes(w, v, i)
    BY <2>1, <2>4, <2>6, ClosesParts, PartedEither
  <2>7. CASE EndsFirst(v, w, i)
    BY <2>1, <2>4, <2>7, EndsParts
  <2>8. CASE EndsFirst(w, v, i)
    BY <2>1, <2>4, <2>8, EndsParts, PartedEither
  <2> DEFINE x == g.calls
             y == h.calls
  <2>9. x \in Seq(CallRecords) /\ y \in Seq(CallRecords)
    BY DEF Settled
  <2>10. \A d \in 1..n - 1 : x[d] = s[d] /\ y[d] = t[d]
    BY <1>1, <2>4 DEF Moved
  <2>11. \A d \in 1..n - 1 : x[d].at = y[d].at /\ Alike(x[d].v, y[d].v, x[d].at - 1)
    <3>1. \A d \in 1..n : s[d].at = t[d].at /\ Alike(s[d].v, t[d].v, s[d].at - 1)
      BY <1>1, <1>2 DEF InStep
    <3>2. \A d \in 1..n - 1 : d \in 1..n
      OBVIOUS
    <3> QED
      BY <2>10, <3>1, <3>2, Zenon
  <2>12. CASE Ends(v, w, i)
    <3>1. v = w /\ Returned(g, n, v, i) /\ Returned(h, n, w, i)
      BY <1>7, <2>4, <2>12 DEF Ends, Moved, Returned, Called, WentOn
    <3>2. Len(x) = n - 1 /\ Len(y) = n - 1
      BY <3>1 DEF Returned
    <3>3. n = 1 => g.value = h.value
      <4>1. e.calls[1].v = e.value /\ f.calls[1].v = f.value
        BY <1>1, <1>2 DEF Settled, Running
      <4>2. g.value = e.value /\ h.value = f.value
        BY DEF Moved
      <4> QED
        BY <1>1, <1>2, <1>3, <3>1, <4>1, <4>2
    <3>4. ASSUME n > 1
          PROVE  Alike(x[n - 1].v, y[n - 1].v, x[n - 1].at)
      <4>1. PICK l \in Nat : l = n - 1
        BY <3>4
      <4>2. l \in 1..n - 1 /\ l + 1 = n
        BY <3>4, <4>1
      <4>3. Waits(s[l], s[n]) /\ Waits(t[l], t[n])
        <5>1. Waits(s[l], s[l + 1]) /\ Waits(t[l], t[l + 1])
          BY <1>1, <1>2, <1>3, <4>2 DEF Settled
        <5> QED
          BY <4>2, <5>1
      <4>4. PICK a, b, c : a = s[l].v /\ b = t[l].v /\ c = s[l].at
        OBVIOUS
      <4>5. s[l] \in CallRecords /\ l \in 1..n
        BY <1>2, <4>2
      <4>6. c \in Nat
        BY <4>4, <4>5 DEF CallRecords
      <4>7. c = t[l].at /\ Alike(a, b, c - 1)
        BY <2>10, <2>11, <4>2, <4>4
      <4>8. Same(a, b, c)
        BY <1>2, <1>3, <3>1, <4>3, <4>4, <4>7 DEF Waits, Same
      <4>9. Alike(a, b, c)
        BY <4>6, <4>7, <4>8 DEF Alike
      <4> QED
        BY <2>10, <4>1, <4>2, <4>4, <4>9
    <3> HIDE DEF x, y
    <3>5. \A d \in 1..Len(x) : x[d].at = y[d].at /\ Alike(x[d].v, y[d].v, x[d].at - 1)
      BY <2>11, <3>2, Zenon
    <3>6. Len(x) > 0 => Alike(x[Len(x)].v, y[Len(x)].v, x[Len(x)].at)
      BY <3>2, <3>4
    <3>7. Len(x) = 0 => g.value = h.value
      BY <3>2, <3>3
    <3> QED
      BY <2>1, <3>2, <3>5, <3>6, <3>7, Zenon DEF InStep, x, y
  <2>13. CASE GoOn(v, w, i) /\ ~IsPart(v, i + 1)
    <3>1. WentOn(g, n, v, i) /\ WentOn(h, n, w, i)
      BY <1>7, <2>4, <2>13 DEF GoOn, Moved, Returned, Called, WentOn
    <3>2. /\ Len(x) = n /\ x[n].v = v /\ x[n].at = i
          /\ Len(y) = n /\ y[n].v = w /\ y[n].at = i
      BY <3>1 DEF WentOn
    <3>3. Alike(v, w, i - 1)
      BY <2>2 DEF Alike
    <3>4. \A d \in 1..n : d \in 1..n - 1 \/ d = n
      OBVIOUS
    <3> HIDE DEF x, y
    <3>5. \A d \in 1..Len(x) : x[d].at = y[d].at /\ Alike(x[d].v, y[d].v, x[d].at - 1)
      BY <2>11, <3>2, <3>3, <3>4, Zenon
    <3>6. Alike(x[Len(x)].v, y[Len(x)].v, x[Len(x)].at)
      BY <2>2, <3>2, Zenon
    <3>7. Len(x) # 0
      BY <3>2
    <3> QED
      BY <2>1, <3>2, <3>5, <3>6, <3>7, Zenon DEF InStep, x, y
  <2>14. CASE GoOn(v, w, i) /\ IsPart(v, i + 1)
    <3>1. Called(g, n, v, i) /\ Called(h, n, w, i)
      BY <1>7, <2>4, <2>14 DEF GoOn, Moved, Returned, Called, WentOn
    <3>2. /\ Len(x) = n + 1 /\ x[n].v = v /\ x[n].at = i + 1 /\ x[n + 1].at = 0
          /\ Len(y) = n + 1 /\ y[n].v = w /\ y[n].at = i + 1 /\ y[n + 1].at = 0
      BY <3>1 DEF Called
    <3>3. i + 1 - 1 = i
      OBVIOUS
    <3>4. \A d \in 1..n + 1 : d \in 1..n - 1 \/ d = n \/ d = n + 1
      OBVIOUS
    <3>5. \A a, b : Alike(a, b, 0) /\ Alike(a, b, 0 - 1)
      BY DEF Alike
    <3> HIDE DEF x, y
    <3>6. ASSUME NEW d \in 1..Len(x)
          PROVE  x[d].at = y[d].at /\ Alike(x[d].v, y[d].v, x[d].at - 1)
      <4>1. CASE d \in 1..n - 1
        BY <2>11, <4>1, Zenon
      <4>2. CASE d = n
        <5>1. x[d].v = v /\ y[d].v = w /\ x[d].at = y[d].at /\ x[d].at - 1 = i
          BY <3>2, <3>3, <4>2
        <5> QED
          BY <2>2, <5>1, Zenon
      <4>3. CASE d = n + 1
        BY <3>2, <3>5, <4>3, Zenon
      <4> QED
        BY <3>2, <3>4, <4>1, <4>2, <4>3, Zenon
    <3>7. Alike(x[Len(x)].v, y[Len(x)].v, x[Len(x)].at)
      BY <3>2, <3>5, Zenon
    <3>8. Len(x) # 0
      BY <3>2
    <3> QED
      BY <2>1, <3>2, <3>6, <3>7, <3>8, Zenon DEF InStep, x, y
  <2> QED
    BY <2>3, <2>5, <2>6, <2>7, <2>8, <2>12, <2>13, <2>14 DEF Forks
<1> QED
  BY <1>10, <1>11, <1>12

\* A running run writes some characters.
LEMMA Writes ==
  ASSUME NEW e, Settled(e), Running(e)
  PROVE  /\ Settled(encode_into(e)) /\ encode_into(e).value = e.value
         /\ NextChars(e) \in Seq(Printable) /\ Len(NextChars(e)) > 0
         /\ encode_into(e).out = e.out \o NextChars(e)
         /\ e.out \in Seq(Printable)
<1>1. PICK n \in Nat, v \in Values, i \in Nat :
        n > 0 /\ i > 0 /\ Moved(e, encode_into(e), n, v, i)
  BY Moves
<1>2. Settled(encode_into(e))
  BY <1>1, StaysSettled
<1>3. n = Len(e.calls) /\ e.calls[n].v = v /\ e.calls[n].at + 1 = i
  BY <1>1 DEF Moved
<1>4. NextChars(e) = Chars(v, i)
  BY <1>3, Zenon DEF NextChars
<1>5. i \in 1..Pieces(v)
  BY <1>1, Counted DEF Moved
<1>6. Chars(v, i) \in Seq(Printable) /\ Len(Chars(v, i)) > 0
  BY <1>5, CharsWritten
<1>7. /\ encode_into(e).value = e.value /\ e.out \in Seq(Printable)
      /\ encode_into(e).out = e.out \o Chars(v, i)
  BY <1>1 DEF Moved, Settled
<1> QED
  BY <1>2, <1>4, <1>6, <1>7

\* What Next does to a run.
Stepped(e, g) ==
  \/ Running(e) /\ g = encode_into(e)
  \/ ~Running(e) /\ g = e

\* What a step of Next leaves of a run.
LEMMA Grows ==
  ASSUME NEW e, Settled(e), NEW g, Stepped(e, g)
  PROVE  /\ Settled(g)
         /\ e.out \in Seq(Printable)
         /\ \E a \in Seq(Printable) :
              /\ g.out = e.out \o a
              /\ Running(e) => Len(a) > 0 /\ a = NextChars(e)
              /\ ~Running(e) => a = <<>> /\ g = e
<1>1. CASE Running(e)
  BY <1>1, Writes DEF Stepped
<1>2. CASE ~Running(e)
  <2>1. g = e /\ e.out \in Seq(Printable)
    BY <1>2 DEF Stepped, Settled
  <2>2. <<>> \in Seq(Printable) /\ e.out \o <<>> = e.out
    BY <2>1
  <2> QED
    BY <1>2, <2>1, <2>2
<1> QED
  BY <1>1, <1>2

\* A run that has ended does not catch up.
LEMMA AheadStays ==
  ASSUME NEW e, Settled(e), NEW g, Stepped(e, g), NEW f, Settled(f), NEW h, Stepped(f, h),
         Ahead(e, f)
  PROVE  Ahead(g, h)
<1>1. g = e /\ ~Running(e)
  BY DEF Ahead, Stepped
<1>2. PICK b \in Seq(Printable) : h.out = f.out \o b
  BY Grows
<1>3. f.out \in Seq(Printable) /\ e.out \in Seq(Printable)
  BY DEF Settled
<1>4. Len(h.out) = Len(f.out) + Len(b)
  BY <1>2, <1>3, Concatenated
<1>5. Len(h.out) >= Len(f.out)
  BY <1>3, <1>4
<1> QED
  BY <1>1, <1>3, <1>4 DEF Ahead

\* A run that has ended falls behind one that has not.
LEMMA FallsBehind ==
  ASSUME NEW e, Settled(e), NEW g, Stepped(e, g), NEW f, Settled(f), NEW h, Stepped(f, h),
         e.out = f.out, ~Running(e), Running(f)
  PROVE  Ahead(g, h)
<1>1. g = e
  BY DEF Stepped
<1>2. PICK b \in Seq(Printable) : h.out = f.out \o b /\ Len(b) > 0
  BY Grows
<1>3. f.out \in Seq(Printable)
  BY DEF Settled
<1>4. Len(h.out) = Len(f.out) + Len(b)
  BY <1>2, <1>3, Concatenated
<1> QED
  BY <1>1, <1>2, <1>3, <1>4 DEF Ahead

\* Runs that have parted do not meet again.
LEMMA FromParted ==
  ASSUME NEW e, Settled(e), NEW g, Stepped(e, g), NEW f, Settled(f), NEW h, Stepped(f, h),
         Parted(e, f)
  PROVE  Parted(g, h)
<1>1. CASE Clash(e.out, f.out)
  <2>1. PICK a \in Seq(Printable) : g.out = e.out \o a
    BY Grows
  <2>2. PICK b \in Seq(Printable) : h.out = f.out \o b
    BY Grows
  <2>3. e.out \in Seq(Printable) /\ f.out \in Seq(Printable)
    BY DEF Settled
  <2>4. Clash(g.out, h.out)
    BY <1>1, <2>1, <2>2, <2>3, ClashLasts
  <2> QED
    BY <2>4 DEF Parted
<1>2. CASE Ahead(e, f)
  BY <1>2, AheadStays DEF Parted
<1>3. CASE Ahead(f, e)
  BY <1>3, AheadStays DEF Parted
<1>4. CASE e.out = f.out /\ (Running(e) <=> ~Running(f))
  <2>1. CASE Running(f)
    BY <1>4, <2>1, FallsBehind DEF Parted
  <2>2. CASE ~Running(f)
    BY <1>4, <2>2, FallsBehind DEF Parted
  <2> QED
    BY <2>1, <2>2
<1>5. CASE e.out = f.out /\ Running(e) /\ Running(f) /\ Clash(NextChars(e), NextChars(f))
  <2>1. /\ g.out = e.out \o NextChars(e) /\ NextChars(e) \in Seq(Printable)
        /\ h.out = f.out \o NextChars(f) /\ NextChars(f) \in Seq(Printable)
        /\ e.out \in Seq(Printable)
    BY <1>5, Writes DEF Stepped
  <2>2. Clash(g.out, h.out)
    BY <1>5, <2>1, ClashBehind
  <2> QED
    BY <2>2 DEF Parted
<1> QED
  BY <1>1, <1>2, <1>3, <1>4, <1>5 DEF Parted

-----------------------------------------------------------------------------
(***************************************************************************)
(* The inductive invariant: the two runs have written the same pieces, or  *)
(* what they have written or are about to write tells them apart for good. *)
(***************************************************************************)
Inv ==
  /\ Settled(left)
  /\ Settled(right)
  /\ InStep(left, right) \/ Parted(left, right)

\* A run begins settled.
LEMMA Begun ==
  ASSUME NEW v \in Values
  PROVE  /\ Settled(Encoding(v))
         /\ Encoding(v).out = <<>> /\ Len(Encoding(v).calls) = 1
         /\ Encoding(v).calls[1].at = 0
<1> DEFINE e == Encoding(v)
           c == Call(v)
<1>1. e.value = v /\ e.out = <<>> /\ e.calls = <<c>>
  BY DEF Encoding
<1>2. c \in CallRecords /\ c.v = v /\ c.at = 0
  BY DEF Call, CallRecords
<1>3. Ready(c)
  <2>1. Pieces(v) \in Nat \ {0} /\ ~IsPart(v, 1)
    BY Begins, Counted, Zenon
  <2>2. 0 < Pieces(v) /\ 0 + 1 = 1
    BY <2>1
  <2> QED
    BY <1>2, <2>1, <2>2, Zenon DEF Ready
<1> HIDE DEF e, c
<1>4. e.calls \in Seq(CallRecords) /\ Len(e.calls) = 1 /\ e.calls[1] = c
  BY <1>1, <1>2
<1>5. Settled(e)
  BY <1>1, <1>2, <1>3, <1>4 DEF Settled
<1> QED
  BY <1>1, <1>2, <1>4, <1>5 DEF e

\* The invariant holds at first.
LEMMA InitInv == Init => Inv
<1> SUFFICES ASSUME NEW v \in Values, NEW w \in Values,
                    left = Encoding(v), right = Encoding(w)
             PROVE  Inv
  BY DEF Init
<1>1. /\ Settled(left) /\ left.out = <<>> /\ Len(left.calls) = 1 /\ left.calls[1].at = 0
      /\ Settled(right) /\ right.out = <<>> /\ Len(right.calls) = 1 /\ right.calls[1].at = 0
  BY Begun
<1>2. \A a, b : Alike(a, b, 0) /\ Alike(a, b, 0 - 1)
  BY DEF Alike
<1>3. \A d \in 1..1 : d = 1
  OBVIOUS
<1>4. InStep(left, right)
  BY <1>1, <1>2, <1>3 DEF InStep
<1> QED
  BY <1>1, <1>4 DEF Inv

\* A step of the two runs keeps it.
LEMMA NextInv == Inv /\ [Next]_vars => Inv'
<1> SUFFICES ASSUME Inv, [Next]_vars
             PROVE  Inv'
  OBVIOUS
<1>1. CASE UNCHANGED vars
  BY <1>1 DEF Inv, vars
<1>2. CASE Next
  <2>1. Stepped(left, left') /\ Stepped(right, right')
    BY <1>2 DEF Next, Stepped
  <2>2. Settled(left') /\ Settled(right')
    BY <2>1, Grows DEF Inv
  <2>3. CASE Parted(left, right)
    <3>1. Parted(left', right')
      BY <2>1, <2>3, FromParted DEF Inv
    <3> QED
      BY <2>2, <3>1 DEF Inv
  <2>4. CASE InStep(left, right)
    <3>1. left.calls \in Seq(CallRecords) /\ right.calls \in Seq(CallRecords)
      BY DEF Inv, Settled
    <3>2. Running(left) /\ Running(right)
      BY <1>2, <2>4, <3>1 DEF Next, InStep, Running
    <3>3. PICK n \in Nat, v \in Values, i \in Nat :
            n > 0 /\ i > 0 /\ Moved(left, left', n, v, i)
      BY <2>1, <3>2, Moves DEF Inv, Stepped
    <3>4. PICK m \in Nat, w \in Values, j \in Nat :
            m > 0 /\ j > 0 /\ Moved(right, right', m, w, j)
      BY <2>1, <3>2, Moves DEF Inv, Stepped
    <3>5. InStep(left', right') \/ Parted(left', right')
      BY <2>2, <2>4, <3>3, <3>4, FromInStep DEF Inv
    <3> QED
      BY <2>2, <3>5 DEF Inv
  <2> QED
    BY <2>3, <2>4 DEF Inv
<1> QED
  BY <1>1, <1>2

\* Runs that end with one text are in step, so they were of one value.
LEMMA InvApart == Inv => EncodedApart
<1> SUFFICES ASSUME Inv, Encoded, left.out = right.out
             PROVE  left.value = right.value
  BY DEF EncodedApart
<1>1. left.calls = <<>> /\ right.calls = <<>>
  BY DEF Encoded, Running
<1>2. left.out \in Seq(Printable)
  BY DEF Inv, Settled
<1>3. ~Parted(left, right)
  BY <1>1, <1>2 DEF Parted, Clash, Ahead, Running
<1>4. InStep(left, right)
  BY <1>3 DEF Inv
<1> QED
  BY <1>1, <1>4 DEF InStep

\* Two values with the same canonical text are the same value (canonical.rs:9-50).
THEOREM TextsApart == Spec => []EncodedApart
<1>1. Spec => []Inv
  BY InitInv, NextInv, PTL DEF Spec
<1> QED
  BY <1>1, InvApart, PTL

-----------------------------------------------------------------------------
\* A canonical text has no newline, whatever the texts in it have.
LEMMA NoNewline == "\n" \notin Printable
  BY DEF Printable, HexDigits, Digits

\* Where the pieces of a preimage are.
LEMMA PreimageAt ==
  ASSUME NEW t \in Tags, NEW o \in Seq(Printable)
  PROVE  /\ Len(preimage(t, o)) = Len(t) + 1 + Len(o)
         /\ \A k \in 1..Len(t) : preimage(t, o)[k] = t[k]
         /\ preimage(t, o)[Len(t) + 1] = "\n"
         /\ \A k \in 1..Len(o) : preimage(t, o)[Len(t) + 1 + k] = o[k]
         /\ Len(t) \in Nat /\ Len(o) \in Nat /\ t \in Seq(Characters)
<1> DEFINE S == Characters \cup Printable \cup {"\n"}
<1>1. t \in Seq(Characters)
  BY TagsAssumption
<1>2. t \in Seq(S) /\ o \in Seq(S)
  BY <1>1
<1>3. PICK l \in Seq(S) : l = <<"\n">> /\ Len(l) = 1 /\ l[1] = "\n"
  <2>1. <<"\n">> \in Seq(S) /\ Len(<<"\n">>) = 1 /\ <<"\n">>[1] = "\n"
    OBVIOUS
  <2> QED
    BY <2>1
<1> HIDE DEF S
<1>4. /\ t \o l \in Seq(S) /\ Len(t \o l) = Len(t) + Len(l)
      /\ \A k \in 1..Len(t) : (t \o l)[k] = t[k]
      /\ \A k \in 1..Len(l) : (t \o l)[Len(t) + k] = l[k]
  BY <1>2, <1>3, Concatenated
<1>5. PICK x \in Seq(S) : x = t \o l
  BY <1>4
<1>6. /\ x \o o \in Seq(S) /\ Len(x \o o) = Len(x) + Len(o)
      /\ \A k \in 1..Len(x) : (x \o o)[k] = x[k]
      /\ \A k \in 1..Len(o) : (x \o o)[Len(x) + k] = o[k]
  BY <1>2, Concatenated
<1>7. preimage(t, o) = x \o o
  BY <1>3, <1>5 DEF preimage
<1>8. Len(x) = Len(t) + 1 /\ x[Len(t) + 1] = "\n" /\ \A k \in 1..Len(t) : x[k] = t[k]
  BY <1>3, <1>4, <1>5
<1>9. Len(t) \in Nat /\ Len(o) \in Nat /\ Len(t) + 1 \in 1..Len(x)
      /\ \A k \in 1..Len(t) : k \in 1..Len(x)
  BY <1>2, <1>8
<1> QED
  BY <1>1, <1>6, <1>7, <1>8, <1>9, Zenon

\* A newline in the longer tag cannot be the separator: it would be inside the other text.
LEMMA TagsAsLong ==
  ASSUME NEW t \in Tags, NEW o \in Seq(Printable), NEW u \in Tags, NEW p \in Seq(Printable),
         preimage(t, o) = preimage(u, p)
  PROVE  ~(Len(u) < Len(t))
<1> SUFFICES ASSUME Len(u) < Len(t) PROVE FALSE
  OBVIOUS
<1>1. PICK a \in Nat, b \in Nat, c \in Nat, d \in Nat, x \in {preimage(t, o)} :
        a = Len(t) /\ b = Len(u) /\ c = Len(o) /\ d = Len(p) /\ x = preimage(t, o)
  BY PreimageAt
<1>2. Len(x) = a + 1 + c /\ x[a + 1] = "\n"
  BY <1>1, PreimageAt
<1>3. Len(x) = b + 1 + d /\ \A k \in 1..d : x[b + 1 + k] = p[k]
  BY <1>1, PreimageAt
<1>4. PICK k : k = a - b
  OBVIOUS
<1>5. k \in 1..d /\ b + 1 + k = a + 1
  BY <1>1, <1>2, <1>3, <1>4
<1>6. p[k] = "\n" /\ p[k] \in Printable
  BY <1>1, <1>2, <1>3, <1>5
<1> QED
  BY <1>6, NoNewline

\* Sequences are equal where their elements are.
LEMMA SameSequence ==
  ASSUME NEW S, NEW s \in Seq(S), NEW t \in Seq(S), NEW n \in Nat,
         Len(s) = n, Len(t) = n, \A k \in 1..n : s[k] = t[k]
  PROVE  s = t
<1>1. DOMAIN s = 1..n /\ DOMAIN t = 1..n
  OBVIOUS
<1>2. s = [k \in 1..n |-> s[k]] /\ t = [k \in 1..n |-> t[k]]
  BY <1>1
<1> QED
  BY <1>2

\* What is hashed determines the tag and the text.
LEMMA PreimagesApart ==
  ASSUME NEW t \in Tags, NEW o \in Seq(Printable), NEW u \in Tags, NEW p \in Seq(Printable),
         preimage(t, o) = preimage(u, p)
  PROVE  t = u /\ o = p
<1>1. PICK a \in Nat, b \in Nat, c \in Nat, d \in Nat, x \in {preimage(t, o)} :
        a = Len(t) /\ b = Len(u) /\ c = Len(o) /\ d = Len(p) /\ x = preimage(t, o)
  BY PreimageAt
<1>2. a = b
  <2>1. ~(b < a) /\ ~(a < b)
    BY <1>1, TagsAsLong
  <2> QED
    BY <2>1
<1>3. /\ Len(x) = a + 1 + c /\ t \in Seq(Characters)
      /\ \A k \in 1..a : x[k] = t[k]
      /\ \A k \in 1..c : x[a + 1 + k] = o[k]
  BY <1>1, PreimageAt
<1>4. /\ Len(x) = b + 1 + d /\ u \in Seq(Characters)
      /\ \A k \in 1..b : x[k] = u[k]
      /\ \A k \in 1..d : x[b + 1 + k] = p[k]
  BY <1>1, PreimageAt
<1>5. c = d
  BY <1>2, <1>3, <1>4
<1>6. \A k \in 1..a : t[k] = u[k]
  BY <1>2, <1>3, <1>4
<1>7. \A k \in 1..c : o[k] = p[k]
  BY <1>2, <1>3, <1>4, <1>5, Zenon
<1>8. t = u
  <2>1. Len(t) = a /\ Len(u) = a /\ t \in Seq(Characters) /\ u \in Seq(Characters)
    BY <1>1, <1>2, <1>3, <1>4, Zenon
  <2> QED
    BY <1>6, <2>1, SameSequence
<1>9. o = p
  <2>1. Len(o) = c /\ Len(p) = c
    BY <1>1, <1>5, Zenon
  <2> QED
    BY <1>7, <2>1, SameSequence
<1> QED
  BY <1>8, <1>9

\* What is hashed determines the tag and the value (hash.rs:12-18).
THEOREM PreimagesTell == Spec => []DomainsApart
<1>1. Inv => DomainsApart
  <2> SUFFICES ASSUME Inv, Encoded, NEW t \in Tags, NEW u \in Tags,
                      preimage(t, left.out) = preimage(u, right.out)
               PROVE  t = u /\ left.value = right.value
    BY DEF DomainsApart
  <2>1. left.out \in Seq(Printable) /\ right.out \in Seq(Printable)
    BY DEF Inv, Settled
  <2>2. t = u /\ left.out = right.out
    BY <2>1, PreimagesApart
  <2> QED
    BY <2>2, InvApart DEF EncodedApart
<1>2. Spec => []Inv
  BY InitInv, NextInv, PTL DEF Spec
<1> QED
  BY <1>1, <1>2, PTL

-----------------------------------------------------------------------------
(***************************************************************************)
(* Induction, over natural numbers, from the library's theorem on well     *)
(* founded relations; then FlattenSeq, and encode as a solution of its     *)
(* definition.                                                             *)
(***************************************************************************)
\* The order of the natural numbers is well founded.
Below == {ss \in Nat \X Nat : ss[1] < ss[2]}

LEMMA BelowWellFounded == IsWellFoundedOn(Below, Nat)
  BY NatLessThanWellFounded DEF OpToRel, Below

\* Induction, for a set of natural numbers.
LEMMA Induction ==
  ASSUME NEW S, 0 \in S, \A n \in Nat : n \in S => n + 1 \in S
  PROVE  Nat \subseteq S
<1> DEFINE T == Nat \ S
<1>1. SUFFICES ASSUME T # {} PROVE FALSE
  OBVIOUS
<1>2. PICK x \in T : \A y \in T : ~ (<<y, x>> \in Below)
  <2>1. T \subseteq Nat /\ T # {}
    BY <1>1
  <2> HIDE DEF T
  <2> QED
    BY <2>1, WFMin, BelowWellFounded, Zenon
<1>3. x \in Nat /\ x # 0 /\ x - 1 \in Nat /\ (x - 1) + 1 = x
  OBVIOUS
<1>4. <<x - 1, x>> \in Below
  BY <1>3 DEF Below
<1>5. x - 1 \in S
  BY <1>2, <1>3, <1>4
<1>6. x \in S
  BY <1>3, <1>5, Zenon
<1> QED
  BY <1>6

\* p has, for each n, the first n of the texts in g, one behind the other.
Beginnings(g, n, p) ==
  /\ DOMAIN p = 0..n
  /\ p[0] = <<>>
  /\ \A i \in 1..n : p[i] = p[i - 1] \o g[i]

\* The prefixes of texts are texts,
LEMMA PrefixesType ==
  ASSUME NEW C, NEW g \in Seq(Seq(C)), NEW p, Beginnings(g, Len(g), p)
  PROVE  \A i \in 0..Len(g) : p[i] \in Seq(C)
<1> DEFINE P(n) == n <= Len(g) => p[n] \in Seq(C)
           S == {n \in Nat : P(n)}
<1>1. P(0)
  <2>1. p[0] = <<>> /\ <<>> \in Seq(C)
    BY DEF Beginnings
  <2> QED
    BY <2>1, Zenon
<1>2. ASSUME NEW n \in Nat, P(n)
      PROVE  P(n + 1)
  <2> SUFFICES ASSUME n + 1 <= Len(g) PROVE p[n + 1] \in Seq(C)
    OBVIOUS
  <2>1. n <= Len(g) /\ n + 1 \in 1..Len(g) /\ (n + 1) - 1 = n
    OBVIOUS
  <2>2. p[n] \in Seq(C) /\ g[n + 1] \in Seq(C)
    BY <1>2, <2>1
  <2>3. p[n + 1] = p[n] \o g[n + 1]
    BY <2>1, Zenon DEF Beginnings
  <2> QED
    BY <2>2, <2>3
<1> HIDE DEF P
<1>3. Nat \subseteq S
  <2>1. 0 \in S /\ \A n \in Nat : n \in S => n + 1 \in S
    BY <1>1, <1>2
  <2> HIDE DEF S
  <2> QED
    BY <2>1, Induction, Zenon
<1> QED
  BY <1>3 DEF P

\* A sequence with one more at its end.
LEMMA OneMore ==
  ASSUME NEW n \in Nat, NEW p, DOMAIN p = 0..n, NEW a
  PROVE  \E q : /\ DOMAIN q = 0..n + 1
                /\ q[n + 1] = a
                /\ \A i \in 0..n : q[i] = p[i]
<1> DEFINE q == [i \in 0..n + 1 |-> IF i = n + 1 THEN a ELSE p[i]]
<1>1. DOMAIN q = 0..n + 1 /\ q[n + 1] = a /\ \A i \in 0..n : q[i] = p[i]
  OBVIOUS
<1> HIDE DEF q
<1> QED
  BY <1>1

\* and any texts have them.
LEMMA PrefixesExist ==
  ASSUME NEW g, NEW m \in Nat
  PROVE  \E p : Beginnings(g, m, p)
<1> DEFINE P(n) == \E p : Beginnings(g, n, p)
           S == {n \in Nat : P(n)}
<1>1. P(0)
  <2>1. PICK p : p = [i \in 0..0 |-> <<>>]
    OBVIOUS
  <2>2. DOMAIN p = 0..0 /\ p[0] = <<>> /\ 1..0 = {}
    BY <2>1
  <2>3. Beginnings(g, 0, p)
    BY <2>2 DEF Beginnings
  <2> QED
    BY <2>3
<1>2. ASSUME NEW n \in Nat, P(n)
      PROVE  P(n + 1)
  <2>1. PICK p : Beginnings(g, n, p)
    BY <1>2
  <2>2. DOMAIN p = 0..n
    BY <2>1 DEF Beginnings
  <2>3. PICK q : /\ DOMAIN q = 0..n + 1
                 /\ q[n + 1] = p[n] \o g[n + 1]
                 /\ \A i \in 0..n : q[i] = p[i]
    BY <2>2, OneMore
  <2>4. q[0] = <<>>
    BY <2>1, <2>3 DEF Beginnings
  <2>5. ASSUME NEW i \in 1..n + 1
        PROVE  q[i] = q[i - 1] \o g[i]
    <3>1. CASE i = n + 1
      <4>1. i - 1 = n /\ n \in 0..n
        BY <3>1
      <4> QED
        BY <2>3, <3>1, <4>1
    <3>2. CASE i # n + 1
      <4>1. i \in 1..n /\ i \in 0..n /\ i - 1 \in 0..n
        BY <3>2
      <4>2. p[i] = p[i - 1] \o g[i]
        BY <2>1, <4>1 DEF Beginnings
      <4> QED
        BY <2>3, <4>1, <4>2
    <3> QED
      BY <3>1, <3>2
  <2>6. Beginnings(g, n + 1, q)
    BY <2>3, <2>4, <2>5 DEF Beginnings
  <2> QED
    BY <2>6
<1> HIDE DEF P
<1>3. Nat \subseteq S
  <2>1. 0 \in S /\ \A n \in Nat : n \in S => n + 1 \in S
    BY <1>1, <1>2
  <2> HIDE DEF S
  <2> QED
    BY <2>1, Induction, Zenon
<1>4. P(m)
  BY <1>3
<1> QED
  BY <1>4 DEF P

\* A function on 1..n is a sequence of n.
LEMMA Listed ==
  ASSUME NEW S, NEW n \in Nat, NEW g, g = [i \in 1..n |-> g[i]], \A i \in 1..n : g[i] \in S
  PROVE  g \in Seq(S) /\ Len(g) = n
  OBVIOUS

\* FlattenSeq is the last of them.
LEMMA Flattened ==
  ASSUME NEW C, NEW g \in Seq(Seq(C)), NEW p, Beginnings(g, Len(g), p)
  PROVE  FlattenSeq(g) = p[Len(g)]
<1>1. CASE Len(g) = 0
  <2>1. g = <<>> /\ p[0] = <<>>
    BY <1>1 DEF Beginnings
  <2>2. FlattenSeq(g) = g
    BY <1>1 DEF FlattenSeq
  <2> QED
    BY <1>1, <2>1, <2>2, Zenon
<1>2. CASE Len(g) # 0
  <2>0. PICK N \in Nat : N = Len(g) /\ N > 0
    BY <1>2
  <2> DEFINE F(f) == [i \in 1..Len(g) |-> IF i = 1 THEN g[i] ELSE f[i - 1] \o g[i]]
             flatten == CHOOSE f : f = F(f)
  <2>1. PICK f0 : f0 = [i \in 1..Len(g) |-> p[i]]
    OBVIOUS
  <2>2. f0 = F(f0)
    <3>1. ASSUME NEW i \in 1..Len(g)
          PROVE  f0[i] = IF i = 1 THEN g[i] ELSE f0[i - 1] \o g[i]
      <4>0. p[i] = p[i - 1] \o g[i] /\ p[0] = <<>>
        BY Zenon DEF Beginnings
      <4>1. f0[i] = p[i] /\ g[i] \in Seq(C)
        BY <2>1
      <4>2. CASE i = 1
        <5>1. i - 1 = 0
          BY <4>2
        <5>2. p[i] = <<>> \o g[i]
          BY <4>0, <5>1, Zenon
        <5>3. <<>> \o g[i] = g[i]
          BY <4>1
        <5> QED
          BY <4>1, <4>2, <5>2, <5>3, Zenon
      <4>3. CASE i # 1
        <5>1. i - 1 \in 1..Len(g)
          BY <4>3
        <5>2. f0[i - 1] = p[i - 1]
          BY <2>1, <5>1
        <5> QED
          BY <4>0, <4>1, <4>3, <5>2, Zenon
      <4> QED
        BY <4>2, <4>3
    <3>2. DOMAIN f0 = 1..Len(g) /\ f0 = [i \in 1..Len(g) |-> f0[i]]
      BY <2>1
    <3> QED
      BY <3>1, <3>2
  <2>3. flatten = F(flatten)
    <3> HIDE DEF F
    <3> QED
      BY <2>2, Zenon
  <2>4. FlattenSeq(g) = flatten[Len(g)]
    BY <1>2, Zenon DEF FlattenSeq
  <2> HIDE DEF flatten
  <2>5. \A i \in 1..Len(g) : flatten[i] = IF i = 1 THEN g[i] ELSE flatten[i - 1] \o g[i]
    BY <2>3
  <2> DEFINE P(n) == n + 1 <= N => flatten[n + 1] = p[n + 1]
             S == {n \in Nat : P(n)}
  <2>6. P(0)
    <3>1. 1 \in 1..Len(g) /\ 0 + 1 = 1
      BY <2>0
    <3>2. p[1] = p[1 - 1] \o g[1] /\ p[0] = <<>>
      BY <3>1, Zenon DEF Beginnings
    <3>3. 1 - 1 = 0 /\ g[1] \in Seq(C) /\ <<>> \o g[1] = g[1]
      BY <3>1
    <3>4. p[1] = g[1]
      BY <3>2, <3>3, Zenon
    <3> QED
      BY <2>5, <3>1, <3>4
  <2>7. ASSUME NEW n \in Nat, P(n)
        PROVE  P(n + 1)
    <3> SUFFICES ASSUME (n + 1) + 1 <= N
                 PROVE  flatten[(n + 1) + 1] = p[(n + 1) + 1]
      OBVIOUS
    <3>1. PICK i \in Nat : i = (n + 1) + 1
      OBVIOUS
    <3>2. i \in 1..Len(g) /\ i # 1 /\ i - 1 = n + 1 /\ n + 1 <= N
      BY <2>0, <3>1
    <3>3. flatten[i - 1] = p[i - 1]
      BY <2>7, <3>2
    <3>4. p[i] = p[i - 1] \o g[i]
      BY <3>2 DEF Beginnings
    <3>5. flatten[i] = flatten[i - 1] \o g[i]
      BY <2>5, <3>2
    <3> QED
      BY <3>1, <3>3, <3>4, <3>5, Zenon
  <2> HIDE DEF P
  <2>8. Nat \subseteq S
    <3>1. 0 \in S /\ \A n \in Nat : n \in S => n + 1 \in S
      BY <2>6, <2>7
    <3> HIDE DEF S
    <3> QED
      BY <3>1, Induction, Zenon
  <2>9. N - 1 \in Nat /\ (N - 1) + 1 = N
    BY <2>0
  <2>10. P(N - 1)
    BY <2>8, <2>9
  <2>11. flatten[N] = p[N]
    BY <2>9, <2>10 DEF P
  <2> QED
    BY <2>0, <2>4, <2>11
<1> QED
  BY <1>1, <1>2


\* One unfolding of the definition of encode.
Unfolded(f, v) ==
  CASE v.k = "array"  ->
         <<"[">> \o separated([i \in DOMAIN v.items |-> f[v.items[i]]]) \o <<"]">>
    [] v.k = "object" ->
         LET keys == KeysOf(v.map)
         IN  <<"{">> \o separated([i \in DOMAIN keys |->
                          quoted(keys[i]) \o <<":">> \o f[v.map[keys[i]]]]) \o <<"}">>
    [] v.k = "null"   -> <<"n", "u", "l", "l">>
    [] v.k = "bool"   -> IF v.b THEN <<"t", "r", "u", "e">> ELSE <<"f", "a", "l", "s", "e">>
    [] v.k = "int"    -> Decimal(v.i)
    [] v.k = "text"   -> quoted(v.s)

\* The parts of arrays and objects are less deep.
LEMMA ItemsOf ==
  ASSUME NEW v \in Values, v.k = "array", NEW i \in 1..Len(v.items)
  PROVE  /\ PartCount(v) = Len(v.items) /\ Part(v, i) = v.items[i]
         /\ v.items[i] \in Values /\ Depth(v.items[i]) < Depth(v)
<1>1. Composite(v) /\ v.items \in Seq(Values) /\ PartCount(v) = Len(v.items)
      /\ Part(v, i) = v.items[i]
  BY Shape DEF Composite, PartCount, Part
<1>2. i \in 1..PartCount(v) /\ v.items[i] \in Values
  BY <1>1
<1> QED
  BY <1>1, <1>2, DepthAssumption

LEMMA EntriesOf ==
  ASSUME NEW v \in Values, v.k = "object", NEW i \in 1..Len(KeysOf(v.map))
  PROVE  /\ PartCount(v) = 2 * Len(KeysOf(v.map))
         /\ KeysOf(v.map)[i] \in DOMAIN v.map
         /\ Text(KeysOf(v.map)[i]) \in Values
         /\ Part(v, 2 * i - 1) = Text(KeysOf(v.map)[i])
         /\ Part(v, 2 * i) = v.map[KeysOf(v.map)[i]]
         /\ v.map[KeysOf(v.map)[i]] \in Values
         /\ Depth(v.map[KeysOf(v.map)[i]]) < Depth(v)
<1>1. Composite(v) /\ KeysOf(v.map) \in Seq(DOMAIN v.map)
      /\ PartCount(v) = 2 * Len(KeysOf(v.map))
  BY KeysAssumption DEF Composite, PartCount
<1>2. PICK keys \in Seq(DOMAIN v.map) : keys = KeysOf(v.map)
  BY <1>1
<1>3. keys[i] \in DOMAIN v.map
  BY <1>2
<1>4. Text(keys[i]) \in Values /\ v.map[keys[i]] \in Values
  BY <1>3, Shape
<1>5. (2 * i) % 2 = 0 /\ (2 * i + 1) \div 2 = i /\ 2 * i \in 1..2 * Len(keys)
      /\ (2 * i - 1) % 2 = 1 /\ ((2 * i - 1) + 1) \div 2 = i
  BY <1>2
<1>6. Part(v, 2 * i) = v.map[keys[i]] /\ Part(v, 2 * i - 1) = Text(keys[i])
  BY <1>2, <1>5 DEF Part
<1>7. Depth(v.map[keys[i]]) < Depth(v)
  BY <1>1, <1>2, <1>5, <1>6, DepthAssumption
<1> QED
  BY <1>1, <1>2, <1>3, <1>4, <1>6, <1>7

\* It reads the function at less deep values only.
LEMMA UnfoldsBelow ==
  ASSUME NEW v \in Values, NEW f, NEW g,
         \A u \in Values : Depth(u) < Depth(v) => f[u] = g[u]
  PROVE  Unfolded(f, v) = Unfolded(g, v)
<1>1. CASE v.k = "array"
  <2>1. [i \in DOMAIN v.items |-> f[v.items[i]]] = [i \in DOMAIN v.items |-> g[v.items[i]]]
    <3>1. DOMAIN v.items = 1..Len(v.items)
      BY <1>1, Shape
    <3>2. \A i \in DOMAIN v.items : f[v.items[i]] = g[v.items[i]]
      BY <1>1, <3>1, ItemsOf
    <3> QED
      BY <3>2
  <2>2. \A h : Unfolded(h, v) =
          <<"[">> \o separated([i \in DOMAIN v.items |-> h[v.items[i]]]) \o <<"]">>
    BY <1>1 DEF Unfolded
  <2> QED
    BY <2>1, <2>2, Zenon
<1>2. CASE v.k = "object"
  <2> DEFINE keys == KeysOf(v.map)
             texts(h) == [i \in DOMAIN keys |-> quoted(keys[i]) \o <<":">> \o h[v.map[keys[i]]]]
  <2>1. texts(f) = texts(g)
    <3>1. DOMAIN keys = 1..Len(keys)
      BY <1>2, KeysAssumption
    <3>2. \A i \in DOMAIN keys : f[v.map[keys[i]]] = g[v.map[keys[i]]]
      BY <1>2, <3>1, EntriesOf
    <3> HIDE DEF keys
    <3> QED
      BY <3>2
  <2>2. \A h : Unfolded(h, v) = <<"{">> \o separated(texts(h)) \o <<"}">>
    BY <1>2 DEF Unfolded
  <2> HIDE DEF texts
  <2> QED
    BY <2>1, <2>2, Zenon
<1>3. CASE v.k \notin {"array", "object"}
  BY <1>3, Shape DEF Unfolded, Kinds
<1> QED
  BY <1>1, <1>2, <1>3

\* f is encode as far as values of a depth below n go.
Encodes(f, n) ==
  \A v \in Values : Depth(v) < n => f[v] = Unfolded(f, v)

\* There is one such function for every depth,
LEMMA EncodesSome ==
  ASSUME NEW m \in Nat
  PROVE  \E f : Encodes(f, m)
<1> DEFINE P(n) == \E f : Encodes(f, n)
           S == {n \in Nat : P(n)}
<1>1. P(0)
  BY DepthAssumption DEF Encodes
<1>2. ASSUME NEW n \in Nat, P(n)
      PROVE  P(n + 1)
  <2>1. PICK f : Encodes(f, n)
    BY <1>2
  <2>2. PICK g : g = [v \in Values |-> Unfolded(f, v)]
    OBVIOUS
  <2>3. \A u \in Values : g[u] = Unfolded(f, u)
    BY <2>2
  <2>4. ASSUME NEW v \in Values, Depth(v) < n + 1
        PROVE  g[v] = Unfolded(g, v)
    <3>1. ASSUME NEW u \in Values, Depth(u) < Depth(v)
          PROVE  f[u] = g[u]
      <4>1. Depth(u) < n
        BY <2>4, <3>1, DepthAssumption
      <4> QED
        BY <2>1, <2>3, <4>1 DEF Encodes
    <3> QED
      BY <2>3, <3>1, UnfoldsBelow
  <2> QED
    BY <2>4 DEF Encodes
<1> HIDE DEF P
<1>3. Nat \subseteq S
  <2>1. 0 \in S /\ \A n \in Nat : n \in S => n + 1 \in S
    BY <1>1, <1>2
  <2> HIDE DEF S
  <2> QED
    BY <2>1, Induction, Zenon
<1>4. P(m)
  BY <1>3
<1> QED
  BY <1>4 DEF P

\* any two agree,
LEMMA EncodesOne ==
  ASSUME NEW a \in Nat, NEW f, Encodes(f, a), NEW b \in Nat, NEW g, Encodes(g, b)
  PROVE  \A v \in Values : Depth(v) < a /\ Depth(v) < b => f[v] = g[v]
<1> DEFINE P(n) == \A v \in Values :
                     Depth(v) < n /\ Depth(v) < a /\ Depth(v) < b => f[v] = g[v]
           S == {n \in Nat : P(n)}
<1>1. P(0)
  BY DepthAssumption
<1>2. ASSUME NEW n \in Nat, P(n)
      PROVE  P(n + 1)
  <2> SUFFICES ASSUME NEW v \in Values, Depth(v) < n + 1, Depth(v) < a, Depth(v) < b
               PROVE  f[v] = g[v]
    OBVIOUS
  <2>1. ASSUME NEW u \in Values, Depth(u) < Depth(v)
        PROVE  f[u] = g[u]
    <3>1. Depth(u) < n /\ Depth(u) < a /\ Depth(u) < b
      BY <2>1, DepthAssumption
    <3> QED
      BY <1>2, <3>1
  <2>2. Unfolded(f, v) = Unfolded(g, v)
    BY <2>1, UnfoldsBelow
  <2> QED
    BY <2>2 DEF Encodes
<1> HIDE DEF P
<1>3. Nat \subseteq S
  <2>1. 0 \in S /\ \A n \in Nat : n \in S => n + 1 \in S
    BY <1>1, <1>2
  <2> HIDE DEF S
  <2> QED
    BY <2>1, Induction, Zenon
<1>4. P(a)
  BY <1>3
<1> QED
  BY <1>4 DEF P

\* so that together they are encode: its definition has a solution.
LEMMA EncodeUnfolds ==
  encode = [v \in Values |-> Unfolded(encode, v)]
<1> DEFINE F(f) == [v \in Values |-> Unfolded(f, v)]
           Some(n) == CHOOSE f : Encodes(f, n)
           all == [v \in Values |-> Some(Depth(v) + 1)[v]]
<1>1. \A n \in Nat : Encodes(Some(n), n)
  BY EncodesSome
<1> HIDE DEF Some
<1>2. ASSUME NEW v \in Values
      PROVE  all[v] = Unfolded(all, v)
  <2>1. PICK d \in Nat : d = Depth(v) + 1 /\ Depth(v) < d
    BY DepthAssumption
  <2>2. Encodes(Some(d), d) /\ all[v] = Some(d)[v]
    BY <1>1, <2>1
  <2>3. Some(d)[v] = Unfolded(Some(d), v)
    BY <2>1, <2>2 DEF Encodes
  <2>4. ASSUME NEW u \in Values, Depth(u) < Depth(v)
        PROVE  Some(d)[u] = all[u]
    <3>1. PICK c \in Nat : c = Depth(u) + 1 /\ Depth(u) < c /\ Depth(u) < d
      BY <2>1, <2>4, DepthAssumption
    <3>2. Encodes(Some(c), c) /\ all[u] = Some(c)[u]
      BY <1>1, <3>1
    <3> QED
      BY <2>2, <3>1, <3>2, EncodesOne
  <2> HIDE DEF all
  <2>5. Unfolded(Some(d), v) = Unfolded(all, v)
    BY <2>4, UnfoldsBelow
  <2> QED
    BY <2>2, <2>3, <2>5
<1>3. all = F(all)
  <2>1. all = [v \in Values |-> all[v]]
    OBVIOUS
  <2> HIDE DEF all
  <2> QED
    BY <1>2, <2>1
<1> HIDE DEF all
<1>4. encode = CHOOSE f : f = F(f)
  BY DEF encode, Unfolded
<1> HIDE DEF F
<1>5. encode = F(encode)
  BY <1>3, <1>4, Zenon
<1> QED
  BY <1>5 DEF F

\* A text and FlattenSeq of others behind it, met one after the other.
LEMMA Followed ==
  ASSUME NEW C, NEW a \in Seq(C), NEW g \in Seq(Seq(C)), NEW q, q[1] = a,
         \A j \in 1..Len(g) : q[j + 1] = q[j] \o g[j]
  PROVE  q[Len(g) + 1] = a \o FlattenSeq(g)
<1>0. \A x, y \in Seq(C) : (a \o x) \o y = a \o (x \o y)
  BY ConcatAssociative
<1>1. PICK N \in Nat : N = Len(g)
  OBVIOUS
<1>2. PICK p : Beginnings(g, Len(g), p)
  BY PrefixesExist
<1>3. \A i \in 0..Len(g) : p[i] \in Seq(C)
  BY <1>2, PrefixesType
<1> DEFINE P(n) == n <= N => q[n + 1] = a \o p[n]
           S == {n \in Nat : P(n)}
<1>4. P(0)
  <2>1. 0 + 1 = 1 /\ a \o <<>> = a
    OBVIOUS
  <2>2. p[0] = <<>>
    BY <1>2 DEF Beginnings
  <2> QED
    BY <2>1, <2>2, Zenon
<1>5. ASSUME NEW n \in Nat, P(n)
      PROVE  P(n + 1)
  <2> SUFFICES ASSUME n + 1 <= N PROVE q[(n + 1) + 1] = a \o p[n + 1]
    OBVIOUS
  <2>1. PICK k \in 1..Len(g) : k = n + 1 /\ k - 1 = n /\ n \in 0..Len(g) /\ n <= N
    BY <1>1
  <2>2. q[k] = a \o p[n]
    BY <1>5, <2>1
  <2>3. p[k] = p[k - 1] \o g[k]
    BY <1>2, Zenon DEF Beginnings
  <2>4. p[n] \in Seq(C) /\ g[k] \in Seq(C)
    BY <1>3, <2>1
  <2>5. q[k + 1] = (a \o p[n]) \o g[k]
    BY <2>2, Zenon
  <2>6. (a \o p[n]) \o g[k] = a \o (p[n] \o g[k])
    BY <1>0, <2>4
  <2> QED
    BY <2>1, <2>3, <2>5, <2>6, Zenon
<1> HIDE DEF P
<1>6. Nat \subseteq S
  <2>1. 0 \in S /\ \A n \in Nat : n \in S => n + 1 \in S
    BY <1>4, <1>5
  <2> HIDE DEF S
  <2> QED
    BY <2>1, Induction, Zenon
<1>7. P(N)
  BY <1>6
<1>8. q[N + 1] = a \o p[N]
  BY <1>7 DEF P
<1>9. FlattenSeq(g) = p[Len(g)]
  BY <1>2, Flattened
<1> QED
  BY <1>1, <1>8, <1>9, Zenon

\* FlattenSeq of texts is one,
LEMMA FlattenType ==
  ASSUME NEW C, NEW g \in Seq(Seq(C))
  PROVE  FlattenSeq(g) \in Seq(C)
<1>1. PICK p : Beginnings(g, Len(g), p)
  <2>1. Len(g) \in Nat
    OBVIOUS
  <2> QED
    BY <2>1, PrefixesExist
<1>2. p[Len(g)] \in Seq(C)
  <2>1. Len(g) \in 0..Len(g)
    OBVIOUS
  <2> QED
    BY <1>1, <2>1, PrefixesType
<1>3. FlattenSeq(g) = p[Len(g)]
  BY <1>1, Flattened
<1> QED
  BY <1>2, <1>3

\* so are what separates texts
SeparatedItems(texts) ==
  [i \in DOMAIN texts |-> IF i > 1 THEN <<",">> \o texts[i] ELSE texts[i]]

LEMMA SeparatedType ==
  ASSUME NEW texts \in Seq(Seq(Printable))
  PROVE  /\ SeparatedItems(texts) \in Seq(Seq(Printable))
         /\ Len(SeparatedItems(texts)) = Len(texts)
         /\ separated(texts) = FlattenSeq(SeparatedItems(texts))
         /\ separated(texts) \in Seq(Printable)
<1>1. "," \in Printable
  BY DEF Printable
<1>2. <<",">> \in Seq(Printable)
  BY <1>1, Letter
<1> DEFINE g == SeparatedItems(texts)
<1>3. ASSUME NEW i \in DOMAIN texts
      PROVE  g[i] \in Seq(Printable)
  <2>1. texts[i] \in Seq(Printable)
    OBVIOUS
  <2>2. <<",">> \o texts[i] \in Seq(Printable)
    BY <1>2, <2>1, Concatenated
  <2>3. g[i] = IF i > 1 THEN <<",">> \o texts[i] ELSE texts[i]
    BY DEF SeparatedItems
  <2> QED
    BY <2>1, <2>2, <2>3
<1>4. DOMAIN texts = 1..Len(texts) /\ DOMAIN g = 1..Len(texts) /\ Len(texts) \in Nat
  BY DEF SeparatedItems
<1>5. g = [i \in 1..Len(texts) |-> g[i]]
  BY <1>4 DEF SeparatedItems
<1> HIDE DEF g
<1>6. g \in Seq(Seq(Printable)) /\ Len(g) = Len(texts)
  BY <1>3, <1>4, <1>5
<1>7. separated(texts) = FlattenSeq(g)
  BY DEF separated, SeparatedItems, g
<1>8. FlattenSeq(g) \in Seq(Printable)
  BY <1>6, FlattenType
<1> QED
  BY <1>6, <1>7, <1>8, Zenon DEF g

\* and a quoted text.
Escapes(s) == [i \in DOMAIN s |-> escape(s[i])]

LEMMA QuotedType ==
  ASSUME NEW s \in Seq(Characters)
  PROVE  /\ Escapes(s) \in Seq(Seq(Printable))
         /\ Len(Escapes(s)) = Len(s)
         /\ quoted(s) = <<"\"">> \o FlattenSeq(Escapes(s)) \o <<"\"">>
         /\ quoted(s) \in Seq(Printable)
<1> DEFINE g == Escapes(s)
<1>1. \A i \in DOMAIN s : s[i] \in Characters /\ g[i] = escape(s[i])
  BY DEF Escapes
<1>2. DOMAIN s = 1..Len(s) /\ DOMAIN g = 1..Len(s) /\ Len(s) \in Nat
  BY DEF Escapes
<1>3. \A i \in 1..Len(s) : g[i] \in Seq(Printable)
  BY <1>1, <1>2, EscapeWritten
<1>4. g = [i \in 1..Len(s) |-> g[i]]
  BY <1>2 DEF Escapes
<1> HIDE DEF g
<1>5. g \in Seq(Seq(Printable)) /\ Len(g) = Len(s)
  BY <1>2, <1>3, <1>4
<1>6. quoted(s) = <<"\"">> \o FlattenSeq(g) \o <<"\"">>
  BY DEF quoted, Escapes, g
<1>7. "\"" \in Printable
  BY DEF Printable
<1>8. <<"\"">> \in Seq(Printable)
  BY <1>7, Letter
<1>9. FlattenSeq(g) \in Seq(Printable)
  BY <1>5, FlattenType
<1>10. quoted(s) \in Seq(Printable)
  <2>1. <<"\"">> \o FlattenSeq(g) \in Seq(Printable)
    BY <1>8, <1>9, Concatenated
  <2> QED
    BY <1>6, <1>8, <2>1, Concatenated
<1> QED
  BY <1>5, <1>6, <1>10, Zenon DEF g

\* The text of each kind of value.
ItemTexts(v) == [i \in DOMAIN v.items |-> encode[v.items[i]]]

EntryTexts(v) ==
  [i \in DOMAIN KeysOf(v.map) |->
     quoted(KeysOf(v.map)[i]) \o <<":">> \o encode[v.map[KeysOf(v.map)[i]]]]

LEMMA EncodeIs ==
  ASSUME NEW v \in Values
  PROVE  /\ v.k = "null" => encode[v] = <<"n", "u", "l", "l">>
         /\ v.k = "bool" => encode[v] = IF v.b THEN <<"t", "r", "u", "e">>
                                        ELSE <<"f", "a", "l", "s", "e">>
         /\ v.k = "int" => encode[v] = Decimal(v.i)
         /\ v.k = "text" => encode[v] = quoted(v.s)
         /\ v.k = "array" => encode[v] = <<"[">> \o separated(ItemTexts(v)) \o <<"]">>
         /\ v.k = "object" => encode[v] = <<"{">> \o separated(EntryTexts(v)) \o <<"}">>
<1>1. encode[v] = Unfolded(encode, v)
  BY EncodeUnfolds
<1>2. CASE v.k \in {"null", "bool"}
  BY <1>1, <1>2 DEF Unfolded
<1>3. CASE v.k = "int"
  BY <1>1, <1>3 DEF Unfolded
<1>4. CASE v.k = "text"
  BY <1>1, <1>4 DEF Unfolded
<1>5. CASE v.k = "array"
  <2>1. Unfolded(encode, v) = <<"[">> \o separated(ItemTexts(v)) \o <<"]">>
    BY <1>5, Zenon DEF Unfolded, ItemTexts
  <2> QED
    BY <1>1, <1>5, <2>1
<1>6. CASE v.k = "object"
  <2>1. Unfolded(encode, v) = <<"{">> \o separated(EntryTexts(v)) \o <<"}">>
    BY <1>6 DEF Unfolded, EntryTexts
  <2> QED
    BY <1>1, <1>6, <2>1
<1> QED
  BY <1>2, <1>3, <1>4, <1>5, <1>6, Shape DEF Kinds

\* The texts of items and entries are texts if those of the parts are.
LEMMA ItemTextsType ==
  ASSUME NEW v \in Values, v.k = "array",
         \A u \in Values : Depth(u) < Depth(v) => encode[u] \in Seq(Printable)
  PROVE  /\ ItemTexts(v) \in Seq(Seq(Printable))
         /\ Len(ItemTexts(v)) = Len(v.items)
         /\ \A i \in 1..Len(v.items) : ItemTexts(v)[i] = encode[v.items[i]]
<1> DEFINE g == ItemTexts(v)
<1>1. v.items \in Seq(Values) /\ DOMAIN v.items = 1..Len(v.items) /\ Len(v.items) \in Nat
  BY Shape
<1>2. \A i \in 1..Len(v.items) : g[i] = encode[v.items[i]]
  BY <1>1 DEF ItemTexts
<1>3. \A i \in 1..Len(v.items) : g[i] \in Seq(Printable)
  BY <1>2, ItemsOf
<1>4. g = [i \in 1..Len(v.items) |-> g[i]]
  BY <1>1 DEF ItemTexts
<1> HIDE DEF g
<1>5. g \in Seq(Seq(Printable)) /\ Len(g) = Len(v.items)
  <2>1. PICK n \in Nat : n = Len(v.items)
    BY <1>1
  <2>2. g = [i \in 1..n |-> g[i]] /\ \A i \in 1..n : g[i] \in Seq(Printable)
    BY <1>3, <1>4, <2>1
  <2> QED
    BY <2>1, <2>2, Listed
<1> QED
  BY <1>2, <1>5 DEF g

LEMMA EntryTextsType ==
  ASSUME NEW v \in Values, v.k = "object",
         \A u \in Values : Depth(u) < Depth(v) => encode[u] \in Seq(Printable)
  PROVE  /\ EntryTexts(v) \in Seq(Seq(Printable))
         /\ Len(EntryTexts(v)) = Len(KeysOf(v.map))
         /\ \A i \in 1..Len(KeysOf(v.map)) :
              /\ EntryTexts(v)[i] = quoted(KeysOf(v.map)[i]) \o <<":">>
                                      \o encode[v.map[KeysOf(v.map)[i]]]
              /\ quoted(KeysOf(v.map)[i]) \in Seq(Printable)
              /\ encode[v.map[KeysOf(v.map)[i]]] \in Seq(Printable)
<1> DEFINE g == EntryTexts(v)
           keys == KeysOf(v.map)
<1>1. keys \in Seq(DOMAIN v.map)
  BY KeysAssumption
<1>2. DOMAIN keys = 1..Len(keys) /\ Len(keys) \in Nat
  BY <1>1
<1>3. \A i \in 1..Len(keys) : g[i] = quoted(keys[i]) \o <<":">> \o encode[v.map[keys[i]]]
  BY <1>2 DEF EntryTexts
<1>4. ASSUME NEW i \in 1..Len(keys)
      PROVE  quoted(keys[i]) \in Seq(Printable) /\ encode[v.map[keys[i]]] \in Seq(Printable)
  <2>1. Text(keys[i]) \in Values /\ v.map[keys[i]] \in Values
        /\ Depth(v.map[keys[i]]) < Depth(v)
    BY EntriesOf
  <2>2. Text(keys[i]).k = "text" /\ Text(keys[i]).s = keys[i]
    BY DEF Text
  <2>3. keys[i] \in Seq(Characters)
    BY <2>1, <2>2, Shape
  <2> QED
    BY <2>1, <2>3, QuotedType
<1>5. ":" \in Printable
  BY DEF Printable
<1>6. <<":">> \in Seq(Printable)
  BY <1>5, Letter
<1>7. \A i \in 1..Len(keys) : g[i] \in Seq(Printable)
  <2> SUFFICES ASSUME NEW i \in 1..Len(keys) PROVE g[i] \in Seq(Printable)
    OBVIOUS
  <2>1. quoted(keys[i]) \o <<":">> \in Seq(Printable)
    BY <1>4, <1>6, Concatenated
  <2>2. quoted(keys[i]) \o <<":">> \o encode[v.map[keys[i]]] \in Seq(Printable)
    BY <1>4, <2>1, Concatenated
  <2> QED
    BY <1>3, <2>2, Zenon
<1>8. g = [i \in 1..Len(keys) |-> g[i]]
  BY <1>2 DEF EntryTexts
<1> HIDE DEF g
<1>9. g \in Seq(Seq(Printable)) /\ Len(g) = Len(keys)
  BY <1>2, <1>7, <1>8
<1> QED
  BY <1>3, <1>4, <1>9 DEF g

\* What encode gives is a text,
LEMMA EncodeType ==
  ASSUME NEW v \in Values
  PROVE  encode[v] \in Seq(Printable)
<1> DEFINE P(n) == \A u \in Values : Depth(u) < n => encode[u] \in Seq(Printable)
           S == {n \in Nat : P(n)}
<1>0. \A c \in {"[", "]", "{", "}", ":", "n", "u", "l", "t", "r", "e", "f", "a", "s"} :
        c \in Printable /\ <<c>> \in Seq(Printable)
  <2>1. \A c \in {"[", "]", "{", "}", ":", "n", "u", "l", "t", "r", "e", "f", "a", "s"} :
          c \in Printable
    BY DEF Printable
  <2> QED
    BY <2>1, Letter
<1>1. P(0)
  BY DepthAssumption
<1>2. ASSUME NEW n \in Nat, P(n)
      PROVE  P(n + 1)
  <2> SUFFICES ASSUME NEW u \in Values, Depth(u) < n + 1
               PROVE  encode[u] \in Seq(Printable)
    OBVIOUS
  <2>1. \A w \in Values : Depth(w) < Depth(u) => encode[w] \in Seq(Printable)
    <3>1. ASSUME NEW w \in Values, Depth(w) < Depth(u)
          PROVE  Depth(w) < n
      BY <3>1, DepthAssumption
    <3> QED
      BY <1>2, <3>1
  <2>2. CASE u.k \in {"null", "bool"}
    <3>1. encode[u] \in {<<"n", "u", "l", "l">>, <<"t", "r", "u", "e">>,
                         <<"f", "a", "l", "s", "e">>}
      BY <2>2, EncodeIs
    <3>2. /\ <<"n", "u", "l", "l">> \in Seq(Printable)
          /\ <<"t", "r", "u", "e">> \in Seq(Printable)
          /\ <<"f", "a", "l", "s", "e">> \in Seq(Printable)
      BY <1>0, Words
    <3> QED
      BY <3>1, <3>2
  <2>3. CASE u.k = "int"
    <3>1. Decimal(u.i) \in Seq(Digits \cup {"-"})
      BY <2>3, DecimalAssumption
    <3>2. Digits \cup {"-"} \subseteq Printable
      BY DEF Printable, HexDigits
    <3>3. Decimal(u.i) \in Seq(Printable)
      BY <3>1, <3>2
    <3> QED
      BY <2>3, <3>3, EncodeIs
  <2>4. CASE u.k = "text"
    BY <2>4, EncodeIs, QuotedType, Shape
  <2>5. CASE u.k = "array"
    <3>1. ItemTexts(u) \in Seq(Seq(Printable))
      BY <2>1, <2>5, ItemTextsType
    <3>2. separated(ItemTexts(u)) \in Seq(Printable)
      BY <3>1, SeparatedType
    <3>3. <<"[">> \in Seq(Printable) /\ <<"]">> \in Seq(Printable)
      BY <1>0
    <3>4. <<"[">> \o separated(ItemTexts(u)) \o <<"]">> \in Seq(Printable)
      BY <3>2, <3>3, Concatenated
    <3> QED
      BY <2>5, <3>4, EncodeIs
  <2>6. CASE u.k = "object"
    <3>1. EntryTexts(u) \in Seq(Seq(Printable))
      BY <2>1, <2>6, EntryTextsType
    <3>2. separated(EntryTexts(u)) \in Seq(Printable)
      BY <3>1, SeparatedType
    <3>3. <<"{">> \in Seq(Printable) /\ <<"}">> \in Seq(Printable)
      BY <1>0
    <3>4. <<"{">> \o separated(EntryTexts(u)) \o <<"}">> \in Seq(Printable)
      BY <3>2, <3>3, Concatenated
    <3> QED
      BY <2>6, <3>4, EncodeIs
  <2> QED
    BY <2>2, <2>3, <2>4, <2>5, <2>6, Shape DEF Kinds
<1> HIDE DEF P
<1>3. Nat \subseteq S
  <2>1. 0 \in S /\ \A n \in Nat : n \in S => n + 1 \in S
    BY <1>1, <1>2
  <2> HIDE DEF S
  <2> QED
    BY <2>1, Induction, Zenon
<1>4. PICK d \in Nat : d = Depth(v) + 1 /\ Depth(v) < d
  BY DepthAssumption
<1>5. P(d)
  BY <1>3
<1> QED
  BY <1>4, <1>5 DEF P

(***************************************************************************)
(* What encode_into writes of a value, piece by piece.                     *)
(***************************************************************************)
PieceText(v, i) == IF IsPart(v, i) THEN encode[Part(v, i \div 2)] ELSE Chars(v, i)

\* Upto(v)[i] is what its first i pieces make.
Upto(v) == CHOOSE p : Beginnings([i \in 1..Pieces(v) |-> PieceText(v, i)], Pieces(v), p)

LEMMA UptoIs ==
  ASSUME NEW v \in Values
  PROVE  /\ Upto(v)[0] = <<>>
         /\ \A i \in 1..Pieces(v) : /\ Upto(v)[i] = Upto(v)[i - 1] \o PieceText(v, i)
                                    /\ PieceText(v, i) \in Seq(Printable)
         /\ \A i \in 0..Pieces(v) : Upto(v)[i] \in Seq(Printable)
<1>1. PICK n \in Nat : n = Pieces(v)
  BY Counted
<1>2. PICK g : g = [i \in 1..n |-> PieceText(v, i)]
  OBVIOUS
<1>3. PICK p : Beginnings(g, n, p) /\ p = Upto(v)
  <2>1. \E p : Beginnings(g, n, p)
    BY PrefixesExist
  <2> QED
    BY <1>1, <1>2, <2>1, Zenon DEF Upto
<1>4. ASSUME NEW i \in 1..n
      PROVE  PieceText(v, i) \in Seq(Printable)
  <2>1. CASE IsPart(v, i)
    <3>1. i \in Nat /\ 0 < i /\ i <= Pieces(v)
      BY <1>1
    <3>2. Part(v, i \div 2) \in Values
      BY <2>1, <3>1, MarkBehind
    <3> QED
      BY <2>1, <3>2, EncodeType DEF PieceText
  <2>2. CASE ~IsPart(v, i)
    BY <1>1, <2>2, CharsWritten DEF PieceText
  <2> QED
    BY <2>1, <2>2
<1>5. g \in Seq(Seq(Printable)) /\ Len(g) = n
  BY <1>2, <1>4
<1>6. \A i \in 0..n : p[i] \in Seq(Printable)
  BY <1>3, <1>5, PrefixesType
<1>7. p[0] = <<>> /\ \A i \in 1..n : p[i] = p[i - 1] \o PieceText(v, i)
  BY <1>2, <1>3 DEF Beginnings
<1> QED
  BY <1>1, <1>3, <1>4, <1>6, <1>7, Zenon

\* It begins with its first piece.
LEMMA UptoOne ==
  ASSUME NEW v \in Values
  PROVE  Upto(v)[1] = Chars(v, 1)
<1>1. 1 \in 1..Pieces(v) /\ 1 - 1 = 0
  BY Counted
<1>2. PieceText(v, 1) = Chars(v, 1) /\ Chars(v, 1) \in Seq(Printable)
  BY <1>1, Begins, CharsWritten DEF PieceText
<1>3. Upto(v)[1] = <<>> \o Chars(v, 1)
  BY <1>1, <1>2, UptoIs, Zenon
<1>4. <<>> \o Chars(v, 1) = Chars(v, 1)
  BY <1>2
<1> QED
  BY <1>3, <1>4, Zenon

\* All of a null or a Boolean,
LEMMA UptoWord ==
  ASSUME NEW v \in Values, v.k \in {"null", "bool"}
  PROVE  Upto(v)[Pieces(v)] = encode[v]
<1>1. Pieces(v) = 1
  BY PiecesOf
<1>2. Chars(v, 1) = encode[v]
  BY CharsOf, EncodeIs
<1> QED
  BY <1>1, <1>2, UptoOne, Zenon

\* of an integer,
LEMMA UptoInteger ==
  ASSUME NEW v \in Values, v.k = "int"
  PROVE  Upto(v)[Pieces(v)] = encode[v]
<1>1. PICK d \in Seq(Digits \cup {"-"}), n \in Nat :
        d = Decimal(v.i) /\ n = Len(d) /\ n = Pieces(v)
  BY DecimalAssumption, PiecesOf
<1> DEFINE P(i) == i <= n => Upto(v)[i] = SubSeq(d, 1, i)
           S == {i \in Nat : P(i)}
<1>2. P(0)
  <2>1. SubSeq(d, 1, 0) = <<>>
    OBVIOUS
  <2> QED
    BY <2>1, UptoIs
<1>3. ASSUME NEW i \in Nat, P(i)
      PROVE  P(i + 1)
  <2> SUFFICES ASSUME i + 1 <= n PROVE Upto(v)[i + 1] = SubSeq(d, 1, i + 1)
    OBVIOUS
  <2>1. PICK k \in 1..n : k = i + 1 /\ k - 1 = i /\ i <= n
    OBVIOUS
  <2>2. Upto(v)[k] = Upto(v)[k - 1] \o PieceText(v, k)
    BY <1>1, UptoIs
  <2>3. PieceText(v, k) = <<d[k]>>
    BY <1>1, CharsOf DEF PieceText, IsPart, Composite
  <2>4. Upto(v)[k - 1] = SubSeq(d, 1, k - 1)
    BY <1>3, <2>1
  <2>5. SubSeq(d, 1, k - 1) \o <<d[k]>> = SubSeq(d, 1, k)
    BY <1>1
  <2> QED
    BY <2>1, <2>2, <2>3, <2>4, <2>5, Zenon
<1> HIDE DEF P
<1>4. Nat \subseteq S
  <2>1. 0 \in S /\ \A i \in Nat : i \in S => i + 1 \in S
    BY <1>2, <1>3
  <2> HIDE DEF S
  <2> QED
    BY <2>1, Induction, Zenon
<1>5. P(n)
  BY <1>4
<1>6. SubSeq(d, 1, n) = d
  BY <1>1, SubSeqFull
<1>7. Upto(v)[n] = d
  BY <1>5, <1>6 DEF P
<1> QED
  BY <1>1, <1>7, EncodeIs

\* of a text,
LEMMA UptoText ==
  ASSUME NEW v \in Values, v.k = "text"
  PROVE  Upto(v)[Pieces(v)] = encode[v]
<1>1. PICK s \in Seq(Characters), n \in Nat : s = v.s /\ n = Len(s) /\ Pieces(v) = n + 2
  BY Shape, PiecesOf
<1>2. PICK g : g = Escapes(s)
  OBVIOUS
<1>3. /\ g \in Seq(Seq(Printable)) /\ Len(g) = n
      /\ quoted(s) = <<"\"">> \o FlattenSeq(g) \o <<"\"">>
  BY <1>1, <1>2, QuotedType
<1>4. "\"" \in Printable
  BY DEF Printable
<1>5. <<"\"">> \in Seq(Printable)
  BY <1>4, Letter
<1>6. Upto(v)[1] = <<"\"">>
  BY UptoOne, CharsOf
<1>7. ASSUME NEW j \in 1..n
      PROVE  Upto(v)[j + 1] = Upto(v)[j] \o g[j]
  <2>1. j + 1 \in 1..Pieces(v) /\ (j + 1) - 1 = j /\ j + 1 # 1 /\ j + 1 # Pieces(v)
    BY <1>1
  <2>2. Upto(v)[j + 1] = Upto(v)[j] \o PieceText(v, j + 1)
    BY <2>1, UptoIs, Zenon
  <2>3. PieceText(v, j + 1) = Chars(v, j + 1)
    BY DEF PieceText, IsPart, Composite
  <2>4. Chars(v, j + 1) = escape(v.s[(j + 1) - 1])
    BY <2>1, CharsOf
  <2>5. g[j] = escape(s[j])
    <3>1. j \in DOMAIN s
      BY <1>1
    <3> QED
      BY <1>2, <3>1 DEF Escapes
  <2> QED
    BY <1>1, <2>1, <2>2, <2>3, <2>4, <2>5, Zenon
<1>8. Upto(v)[n + 1] = <<"\"">> \o FlattenSeq(g)
  <2>1. Len(g) = n /\ g \in Seq(Seq(Printable))
    BY <1>3
  <2>2. Upto(v)[Len(g) + 1] = <<"\"">> \o FlattenSeq(g)
    BY <1>5, <1>6, <1>7, <2>1, Followed
  <2> QED
    BY <2>1, <2>2, Zenon
<1>9. Upto(v)[n + 2] = Upto(v)[n + 1] \o <<"\"">>
  <2>1. n + 2 \in 1..Pieces(v) /\ (n + 2) - 1 = n + 1
    BY <1>1
  <2>2. Upto(v)[n + 2] = Upto(v)[n + 1] \o PieceText(v, n + 2)
    BY <2>1, UptoIs, Zenon
  <2>3. PieceText(v, n + 2) = Chars(v, n + 2)
    BY DEF PieceText, IsPart, Composite
  <2>4. Chars(v, n + 2) = <<"\"">>
    BY <1>1, CharsOf
  <2> QED
    BY <2>2, <2>3, <2>4, Zenon
<1>10. Upto(v)[n + 2] = quoted(s)
  BY <1>3, <1>8, <1>9, Zenon
<1> QED
  BY <1>1, <1>10, EncodeIs, Zenon

\* Marks and parts of arrays and objects, as they come.
LEMMA UptoComposite ==
  ASSUME NEW v \in Values, Composite(v), NEW i \in 1..Pieces(v)
  PROVE  /\ ~IsPart(v, i) => Upto(v)[i] = Upto(v)[i - 1] \o <<Mark(v, i)>>
         /\ IsPart(v, i) => Upto(v)[i] = Upto(v)[i - 1] \o encode[Part(v, i \div 2)]
<1>1. Upto(v)[i] = Upto(v)[i - 1] \o PieceText(v, i)
  BY UptoIs
<1>2. Chars(v, i) = <<Mark(v, i)>>
  BY CompositeChars
<1> QED
  BY <1>1, <1>2, Zenon DEF PieceText

\* The bracket or brace at the end.
LEMMA UptoLast ==
  ASSUME NEW v \in Values, Composite(v)
  PROVE  Upto(v)[Pieces(v)] =
           Upto(v)[Pieces(v) - 1] \o <<IF v.k = "array" THEN "]" ELSE "}">>
<1>1. PICK c \in Nat, p \in Nat :
        c = PartCount(v) /\ p = Pieces(v) /\ (c = 0 => p = 2) /\ (c > 0 => p = 2 * c + 1)
  BY CompositePieces
<1>2. p \in 1..Pieces(v) /\ p # 1
  BY <1>1
<1>3. ~IsPart(v, p)
  <2>1. c > 0 => p % 2 = 1
    BY <1>1
  <2> QED
    BY <1>1, <2>1 DEF IsPart
<1>4. Mark(v, p) = IF v.k = "array" THEN "]" ELSE "}"
  BY <1>1, <1>2 DEF Mark
<1> QED
  BY <1>1, <1>2, <1>3, <1>4, UptoComposite, Zenon

\* Texts one behind the other, however they were put together.
Regrouped(a, b, c) == (a \o b) \o c = a \o (b \o c)

LEMMA Associate ==
  ASSUME NEW S, NEW a \in Seq(S), NEW b \in Seq(S), NEW c \in Seq(S)
  PROVE  Regrouped(a, b, c)
  BY ConcatAssociative DEF Regrouped

\* Texts behind another, with commas between them.
Joined(q, texts) ==
  \A j \in 1..Len(texts) :
    /\ q[j] \in Seq(Printable)
    /\ j = 1 => q[j + 1] = q[j] \o texts[j]
    /\ j # 1 => q[j + 1] = (q[j] \o <<",">>) \o texts[j]

LEMMA FollowedBySeparated ==
  ASSUME NEW a \in Seq(Printable), NEW texts \in Seq(Seq(Printable)), NEW q, q[1] = a,
         Joined(q, texts)
  PROVE  q[Len(texts) + 1] = a \o separated(texts)
<1>1. PICK n \in Nat, g \in Seq(Seq(Printable)) :
        /\ n = Len(texts) /\ n = Len(g) /\ g = SeparatedItems(texts)
        /\ separated(texts) = FlattenSeq(g)
  BY SeparatedType
<1>2. "," \in Printable
  BY DEF Printable
<1>3. <<",">> \in Seq(Printable)
  BY <1>2, Letter
<1>4. ASSUME NEW j \in 1..n
      PROVE  q[j + 1] = q[j] \o g[j]
  <2>0. n = Len(texts)
    BY <1>1
  <2>1. j \in DOMAIN texts /\ texts[j] \in Seq(Printable)
    BY <2>0
  <2>2. g[j] = IF j > 1 THEN <<",">> \o texts[j] ELSE texts[j]
    BY <1>1, <2>1, Zenon DEF SeparatedItems
  <2>3. PICK b \in Seq(Printable), c \in Seq(Printable), d \in Seq(Printable) :
          b = q[j] /\ c = <<",">> /\ d = texts[j]
    <3>1. q[j] \in Seq(Printable)
      BY <1>1 DEF Joined
    <3> QED
      BY <1>3, <2>1, <3>1
  <2>4. Regrouped(b, c, d)
    BY Associate
  <2>5. CASE j = 1
    <3>1. g[j] = texts[j]
      BY <2>2, <2>5
    <3> QED
      BY <1>1, <2>5, <3>1, Zenon DEF Joined
  <2>6. CASE j # 1
    <3>1. j > 1
      BY <2>6
    <3>2. g[j] = c \o d
      BY <2>2, <2>3, <3>1, Zenon
    <3>3. q[j + 1] = (b \o c) \o d
      BY <1>1, <2>3, <2>6, Zenon DEF Joined
    <3> QED
      BY <2>3, <2>4, <3>2, <3>3, Zenon DEF Regrouped
  <2> QED
    BY <2>5, <2>6
<1>5. q[Len(g) + 1] = a \o FlattenSeq(g)
  <2>1. \A j \in 1..Len(g) : q[j + 1] = q[j] \o g[j]
    BY <1>1, <1>4, Zenon
  <2> QED
    BY <2>1, Followed
<1> QED
  BY <1>1, <1>5, Zenon

\* All of an array,
LEMMA UptoArray ==
  ASSUME NEW v \in Values, v.k = "array"
  PROVE  Upto(v)[Pieces(v)] = encode[v]
<1>0. Composite(v)
  BY DEF Composite
<1>1. PICK n \in Nat : n = Len(v.items) /\ n = PartCount(v)
  BY Shape DEF PartCount
<1>2. PICK p \in Nat : p = Pieces(v) /\ (n = 0 => p = 2) /\ (n > 0 => p = 2 * n + 1)
  BY <1>0, <1>1, CompositePieces
<1>3. PICK texts : texts = ItemTexts(v)
  OBVIOUS
<1>4. /\ texts \in Seq(Seq(Printable))
      /\ Len(texts) = n
      /\ \A i \in 1..n : texts[i] = encode[v.items[i]]
  BY <1>1, <1>3, EncodeType, ItemTextsType
<1>5. <<"[">> \in Seq(Printable)
  <2>1. "[" \in Printable
    BY DEF Printable
  <2> QED
    BY <2>1, Letter
<1>6. PICK q : q = [j \in Nat |-> IF j = 1 THEN Upto(v)[1] ELSE Upto(v)[2 * (j - 1)]]
  OBVIOUS
<1>7. Upto(v)[1] = <<"[">>
  <2>1. Chars(v, 1) = <<Mark(v, 1)>> /\ Pieces(v) # 1
    BY <1>0, <1>2, CompositeChars
  <2>2. Mark(v, 1) = "["
    BY <2>1, ArrayOpens
  <2> QED
    BY <2>1, <2>2, UptoOne, Zenon
<1>8. q[1] = <<"[">>
  BY <1>6, <1>7
<1>9. ASSUME NEW j \in 1..n
      PROVE  /\ q[j] \in Seq(Printable)
             /\ j = 1 => q[j + 1] = q[j] \o texts[j]
             /\ j # 1 => q[j + 1] = (q[j] \o <<",">>) \o texts[j]
  <2>1. PICK i \in 1..p : i = 2 * j /\ i % 2 = 0 /\ i \div 2 = j
    BY <1>2
  <2>2. IsPart(v, i) /\ Part(v, i \div 2) = v.items[j]
    <3>1. PartCount(v) > 0
      BY <1>1
    <3>2. j \in 1..Len(v.items)
      BY <1>1
    <3>3. Part(v, j) = v.items[j]
      BY <3>2, ItemsOf
    <3> QED
      BY <1>0, <2>1, <3>1, <3>3, Zenon DEF IsPart
  <2>3. Upto(v)[i] = Upto(v)[i - 1] \o texts[j]
    BY <1>0, <1>2, <1>4, <2>2, UptoComposite, Zenon
  <2>4. q[j + 1] = Upto(v)[i]
    <3>1. j + 1 \in Nat /\ j + 1 # 1 /\ 2 * ((j + 1) - 1) = i
      BY <2>1
    <3> QED
      BY <1>6, <3>1, Zenon
  <2>5. CASE j = 1
    <3>1. i - 1 = 1
      BY <2>1, <2>5
    <3>2. q[j] = Upto(v)[i - 1]
      BY <1>6, <2>5, <3>1, Zenon
    <3> QED
      BY <1>5, <1>8, <2>3, <2>4, <2>5, <3>2, Zenon
  <2>6. CASE j # 1
    <3>1. PICK k \in 1..p : k = i - 1 /\ k % 2 = 1 /\ k # 1 /\ k # p /\ k - 1 = 2 * (j - 1)
      BY <1>2, <2>1, <2>6
    <3>2. ~IsPart(v, k) /\ Mark(v, k) = ","
      BY <1>2, <3>1 DEF IsPart, Mark
    <3>3. Upto(v)[k] = Upto(v)[k - 1] \o <<",">>
      BY <1>0, <1>2, <3>2, UptoComposite, Zenon
    <3>4. q[j] = Upto(v)[k - 1]
      BY <1>6, <2>6, <3>1
    <3>5. k - 1 \in 0..Pieces(v)
      BY <1>2, <3>1
    <3>6. q[j] \in Seq(Printable)
      BY <3>4, <3>5, UptoIs
    <3> QED
      BY <2>3, <2>4, <2>6, <3>1, <3>3, <3>4, <3>6, Zenon
  <2> QED
    BY <2>5, <2>6
<1>10. q[n + 1] = <<"[">> \o separated(texts)
  <2>1. Joined(q, texts)
    BY <1>4, <1>9, Zenon DEF Joined
  <2>2. q[Len(texts) + 1] = <<"[">> \o separated(texts)
    BY <1>4, <1>5, <1>8, <2>1, FollowedBySeparated
  <2> QED
    BY <1>4, <2>2, Zenon
<1>11. q[n + 1] = Upto(v)[p - 1]
  <2>1. CASE n = 0
    <3>1. n + 1 = 1 /\ p - 1 = 1
      BY <1>2, <2>1
    <3> QED
      BY <1>7, <1>8, <3>1, Zenon
  <2>2. CASE n # 0
    <3>1. n + 1 \in Nat /\ n + 1 # 1 /\ 2 * ((n + 1) - 1) = p - 1
      BY <1>2, <2>2
    <3> QED
      BY <1>6, <3>1, Zenon
  <2> QED
    BY <2>1, <2>2
<1>12. Upto(v)[p] = <<"[">> \o separated(texts) \o <<"]">>
  BY <1>0, <1>2, <1>10, <1>11, UptoLast, Zenon
<1> QED
  BY <1>2, <1>3, <1>12, EncodeIs, Zenon

\* and of an object.
LEMMA UptoObject ==
  ASSUME NEW v \in Values, v.k = "object"
  PROVE  Upto(v)[Pieces(v)] = encode[v]
<1>0. Composite(v)
  BY DEF Composite
<1>1. PICK keys \in Seq(DOMAIN v.map), n \in Nat :
        keys = KeysOf(v.map) /\ n = Len(keys) /\ 2 * n = PartCount(v)
  BY KeysAssumption DEF PartCount
<1>2. PICK p \in Nat : p = Pieces(v) /\ (n = 0 => p = 2) /\ (n > 0 => p = 4 * n + 1)
  <2>1. PICK c \in Nat, p \in Nat :
          c = PartCount(v) /\ p = Pieces(v) /\ (c = 0 => p = 2) /\ (c > 0 => p = 2 * c + 1)
    BY <1>0, CompositePieces
  <2> QED
    BY <1>1, <2>1
<1>3. PICK texts : texts = EntryTexts(v)
  OBVIOUS
<1>4. /\ texts \in Seq(Seq(Printable))
      /\ Len(texts) = n
      /\ \A i \in 1..n :
           /\ texts[i] = quoted(keys[i]) \o <<":">> \o encode[v.map[keys[i]]]
           /\ quoted(keys[i]) \in Seq(Printable)
           /\ encode[v.map[keys[i]]] \in Seq(Printable)
  BY <1>1, <1>3, EncodeType, EntryTextsType
<1>5. <<"{">> \in Seq(Printable)
  <2>1. "{" \in Printable
    BY DEF Printable
  <2> QED
    BY <2>1, Letter
<1>6. PICK q : q = [j \in Nat |-> IF j = 1 THEN Upto(v)[1] ELSE Upto(v)[4 * (j - 1)]]
  OBVIOUS
<1>7. Upto(v)[1] = <<"{">>
  <2>1. Chars(v, 1) = <<Mark(v, 1)>> /\ Pieces(v) # 1
    BY <1>0, <1>2, CompositeChars
  <2>2. Mark(v, 1) = "{"
    BY <2>1, ObjectOpens
  <2> QED
    BY <2>1, <2>2, UptoOne, Zenon
<1>8. q[1] = <<"{">>
  BY <1>6, <1>7
<1>9. ASSUME NEW j \in 1..n
      PROVE  /\ q[j] \in Seq(Printable)
             /\ j = 1 => q[j + 1] = q[j] \o texts[j]
             /\ j # 1 => q[j + 1] = (q[j] \o <<",">>) \o texts[j]
  <2>1. PICK key \in Seq(Printable), val \in Seq(Printable), colon \in Seq(Printable) :
          /\ key = quoted(keys[j]) /\ val = encode[v.map[keys[j]]] /\ colon = <<":">>
          /\ texts[j] = (key \o colon) \o val
    <3>1. ":" \in Printable
      BY DEF Printable
    <3>2. <<":">> \in Seq(Printable)
      BY <3>1, Letter
    <3>3. texts[j] = (quoted(keys[j]) \o <<":">>) \o encode[v.map[keys[j]]]
          /\ quoted(keys[j]) \in Seq(Printable) /\ encode[v.map[keys[j]]] \in Seq(Printable)
      BY <1>4, Zenon
    <3> QED
      BY <3>2, <3>3, Zenon
  <2>2. PICK i \in 1..p : /\ i = 4 * j - 2
                          /\ i + 1 \in 1..p /\ i + 2 \in 1..p /\ i - 1 \in 1..p
                          /\ (i + 1) - 1 = i /\ (i + 2) - 1 = i + 1
    BY <1>2
  <2>3. /\ i % 2 = 0 /\ i \div 2 = 2 * j - 1
        /\ (i + 1) % 2 = 1 /\ (i + 1) % 4 = 3
        /\ (i + 2) % 2 = 0 /\ (i + 2) \div 2 = 2 * j
    BY <2>2
  <2>4. /\ Part(v, i \div 2) = Text(keys[j]) /\ Text(keys[j]) \in Values
        /\ Part(v, (i + 2) \div 2) = v.map[keys[j]]
    <3>1. j \in 1..Len(KeysOf(v.map))
      BY <1>1
    <3>2. /\ Text(KeysOf(v.map)[j]) \in Values
          /\ Part(v, 2 * j - 1) = Text(KeysOf(v.map)[j])
          /\ Part(v, 2 * j) = v.map[KeysOf(v.map)[j]]
      BY <3>1, EntriesOf
    <3> QED
      BY <1>1, <2>3, <3>2, Zenon
  <2>5. IsPart(v, i) /\ IsPart(v, i + 2) /\ ~IsPart(v, i + 1)
    <3>1. PartCount(v) > 0
      BY <1>1
    <3> QED
      BY <1>0, <2>3, <3>1 DEF IsPart
  <2>6. Upto(v)[i] = Upto(v)[i - 1] \o key
    <3>1. Text(keys[j]).k = "text" /\ Text(keys[j]).s = keys[j]
      BY DEF Text
    <3>2. encode[Text(keys[j])] = key
      BY <2>1, <2>4, <3>1, EncodeIs
    <3> QED
      BY <1>0, <1>2, <2>4, <2>5, <3>2, UptoComposite, Zenon
  <2>7. Upto(v)[i + 1] = Upto(v)[i] \o colon
    <3>1. i + 1 # 1 /\ i + 1 # p
      BY <1>2, <2>2
    <3>2. Mark(v, i + 1) = ":"
      BY <1>2, <2>3, <3>1 DEF Mark
    <3> QED
      BY <1>0, <1>2, <2>1, <2>2, <2>5, <3>2, UptoComposite, Zenon
  <2>8. Upto(v)[i + 2] = Upto(v)[i + 1] \o val
    BY <1>0, <1>2, <2>1, <2>2, <2>4, <2>5, UptoComposite, Zenon
  <2>9. PICK u \in Seq(Printable) : u = Upto(v)[i - 1]
    <3>1. i - 1 \in 0..Pieces(v)
      BY <1>2, <2>2
    <3> QED
      BY <3>1, UptoIs
  <2>10. q[j + 1] = u \o texts[j]
    <3>1. j + 1 \in Nat /\ j + 1 # 1 /\ 4 * ((j + 1) - 1) = i + 2
      BY <2>2
    <3>2. q[j + 1] = Upto(v)[i + 2]
      BY <1>6, <3>1, Zenon
    <3>3. PICK x \in Seq(Printable) : x = key \o colon
      BY Concatenated
    <3>4. Regrouped(u, key, colon) /\ Regrouped(u, x, val)
      BY Associate
    <3>5. Upto(v)[i + 2] = ((u \o key) \o colon) \o val
      BY <2>6, <2>7, <2>8, <2>9, Zenon
    <3>6. texts[j] = (key \o colon) \o val
      BY <2>1
    <3> QED
      BY <3>2, <3>3, <3>4, <3>5, <3>6, Zenon DEF Regrouped
  <2>11. CASE j = 1
    <3>1. i - 1 = 1
      BY <2>2, <2>11
    <3>2. q[j] = u
      BY <1>6, <2>9, <2>11, <3>1, Zenon
    <3> QED
      BY <2>10, <2>11, <3>2, Zenon
  <2>12. CASE j # 1
    <3>1. PICK k \in 1..p : k = i - 1 /\ k # 1 /\ k # p /\ k - 1 = 4 * (j - 1)
      BY <1>2, <2>2, <2>12
    <3>2. k % 2 = 1 /\ k % 4 # 3
      BY <3>1
    <3>3. ~IsPart(v, k) /\ Mark(v, k) = ","
      BY <1>2, <3>1, <3>2 DEF IsPart, Mark
    <3>4. u = Upto(v)[k - 1] \o <<",">>
      BY <1>0, <1>2, <2>9, <3>1, <3>3, UptoComposite, Zenon
    <3>5. q[j] = Upto(v)[k - 1]
      BY <1>6, <2>12, <3>1
    <3>6. k - 1 \in 0..Pieces(v)
      BY <1>2, <3>1
    <3>7. q[j] \in Seq(Printable)
      BY <3>5, <3>6, UptoIs
    <3> QED
      BY <2>10, <2>12, <3>4, <3>5, <3>7, Zenon
  <2> QED
    BY <2>11, <2>12
<1>10. q[n + 1] = <<"{">> \o separated(texts)
  <2>1. Joined(q, texts)
    BY <1>4, <1>9, Zenon DEF Joined
  <2>2. q[Len(texts) + 1] = <<"{">> \o separated(texts)
    BY <1>4, <1>5, <1>8, <2>1, FollowedBySeparated
  <2> QED
    BY <1>4, <2>2, Zenon
<1>11. q[n + 1] = Upto(v)[p - 1]
  <2>1. CASE n = 0
    <3>1. n + 1 = 1 /\ p - 1 = 1
      BY <1>2, <2>1
    <3> QED
      BY <1>7, <1>8, <3>1, Zenon
  <2>2. CASE n # 0
    <3>1. n + 1 \in Nat /\ n + 1 # 1 /\ 4 * ((n + 1) - 1) = p - 1
      BY <1>2, <2>2
    <3> QED
      BY <1>6, <3>1, Zenon
  <2> QED
    BY <2>1, <2>2
<1>12. Upto(v)[p] = <<"{">> \o separated(texts) \o <<"}">>
  <2>1. v.k # "array"
    OBVIOUS
  <2> QED
    BY <1>0, <1>2, <1>10, <1>11, <2>1, UptoLast, Zenon
<1> QED
  BY <1>2, <1>3, <1>12, EncodeIs, Zenon

\* All the pieces make the text.
LEMMA UptoAll ==
  ASSUME NEW v \in Values
  PROVE  Upto(v)[Pieces(v)] = encode[v]
<1>1. v.k \in {"null", "bool", "int", "text", "array", "object"}
  BY Shape DEF Kinds
<1> QED
  BY <1>1, UptoWord, UptoInteger, UptoText, UptoArray, UptoObject

-----------------------------------------------------------------------------
(***************************************************************************)
(* A run that has not ended has written, behind what was there when it was *)
(* called, what each call has behind it: s[d] was there when the d-th was. *)
(* A waiting call has all but the part the next one writes.                *)
(***************************************************************************)
Behind(e, s) ==
  /\ s \in [1..Len(e.calls) -> Seq(Printable)]
  /\ s[1] = <<>>
  /\ \A d \in 1..Len(e.calls) - 1 :
       s[d + 1] = s[d] \o Upto(e.calls[d].v)[e.calls[d].at - 1]
  /\ e.out = s[Len(e.calls)] \o Upto(e.calls[Len(e.calls)].v)[e.calls[Len(e.calls)].at]

Written(e) ==
  /\ Running(e) => \E s : Behind(e, s)
  /\ ~Running(e) => e.out = encode[e.value]

\* The characters of a step end one more piece.
LEMMA WritesOn ==
  ASSUME NEW e, Settled(e), NEW s, Behind(e, s), NEW g, NEW n \in Nat, n > 0,
         NEW v \in Values, NEW i \in Nat, i > 0, Moved(e, g, n, v, i)
  PROVE  /\ g.out = s[n] \o Upto(v)[i]
         /\ s[n] \in Seq(Printable) /\ Upto(v)[i] \in Seq(Printable)
<1>1. /\ n = Len(e.calls) /\ e.calls[n].v = v /\ e.calls[n].at = i - 1
      /\ i <= Pieces(v) /\ ~IsPart(v, i) /\ g.out = e.out \o Chars(v, i)
  <2>1. e.calls[n] \in CallRecords
    BY DEF Moved, Settled
  <2>2. e.calls[n].at \in Nat /\ e.calls[n].at + 1 = i
    BY <2>1 DEF CallRecords, Moved
  <2> QED
    BY <2>2 DEF Moved
<1>2. PICK p \in Nat : p = Pieces(v)
  BY Counted
<1>3. i \in 1..Pieces(v) /\ i - 1 \in 0..Pieces(v) /\ i \in 0..Pieces(v)
  BY <1>1, <1>2
<1>4. PICK a \in Seq(Printable), b \in Seq(Printable), c \in Seq(Printable) :
        a = s[n] /\ b = Upto(v)[i - 1] /\ c = Chars(v, i)
  <2>1. s[n] \in Seq(Printable)
    BY <1>1 DEF Behind
  <2> QED
    BY <1>3, <2>1, UptoIs, CharsWritten
<1>5. e.out = a \o b
  BY <1>1, <1>4, Zenon DEF Behind
<1>6. Upto(v)[i] = b \o c
  <2>1. PieceText(v, i) = c
    BY <1>1, <1>4 DEF PieceText
  <2> QED
    BY <1>3, <1>4, <2>1, UptoIs
<1>7. Regrouped(a, b, c)
  BY Associate
<1>8. g.out = a \o (b \o c)
  BY <1>1, <1>4, <1>5, <1>7, Zenon DEF Regrouped
<1> QED
  BY <1>3, <1>4, <1>6, <1>8, UptoIs, Zenon

\* A step keeps what was written (canonical.rs:9-34).
LEMMA StaysWritten ==
  ASSUME NEW e, Settled(e), Running(e), Written(e), NEW g, Settled(g), NEW n \in Nat, n > 0,
         NEW v \in Values, NEW i \in Nat, i > 0, Moved(e, g, n, v, i)
  PROVE  Written(g)
<1>1. PICK s : Behind(e, s)
  BY DEF Written
<1>2. /\ g.out = s[n] \o Upto(v)[i]
      /\ s[n] \in Seq(Printable) /\ Upto(v)[i] \in Seq(Printable)
  BY <1>1, WritesOn
<1>3. /\ n = Len(e.calls)
      /\ e.calls[n].v = v /\ g.value = e.value
      /\ \A d \in 1..n - 1 : g.calls[d] = e.calls[d]
      /\ Returned(g, n, v, i) \/ Called(g, n, v, i) \/ WentOn(g, n, v, i)
  BY DEF Moved
<1>4. /\ s \in [1..n -> Seq(Printable)] /\ s[1] = <<>>
      /\ \A d \in 1..n - 1 : s[d + 1] = s[d] \o Upto(e.calls[d].v)[e.calls[d].at - 1]
  BY <1>1, <1>3, Zenon DEF Behind
<1>5. \A d \in 1..n - 1 : s[d + 1] = s[d] \o Upto(g.calls[d].v)[g.calls[d].at - 1]
  BY <1>3, <1>4, Zenon
<1>6. g.calls \in Seq(CallRecords)
  BY DEF Settled
<1>7. CASE WentOn(g, n, v, i)
  <2>1. Len(g.calls) = n /\ g.calls[n].v = v /\ g.calls[n].at = i
    BY <1>7 DEF WentOn
  <2>2. Behind(g, s)
    BY <1>2, <1>4, <1>5, <2>1, Zenon DEF Behind
  <2>3. Running(g)
    BY <1>6, <2>1 DEF Running
  <2> QED
    BY <2>2, <2>3 DEF Written
<1>8. CASE Called(g, n, v, i)
  <2>1. /\ Len(g.calls) = n + 1
        /\ g.calls[n].v = v /\ g.calls[n].at = i + 1 /\ g.calls[n + 1].at = 0
        /\ (i + 1) - 1 = i /\ (n + 1) - 1 = n
    BY <1>8 DEF Called
  <2>2. PICK w \in Values : w = g.calls[n + 1].v
    <3>1. g.calls[n + 1] \in CallRecords
      BY <1>6, <2>1
    <3> QED
      BY <3>1 DEF CallRecords
  <2>3. PICK o \in Seq(Printable) : o = g.out
    BY DEF Settled
  <2>4. PICK r : r = [d \in 1..n + 1 |-> IF d = n + 1 THEN o ELSE s[d]]
    OBVIOUS
  <2>5. /\ r \in [1..n + 1 -> Seq(Printable)]
        /\ r[n + 1] = o
        /\ \A d \in 1..n : r[d] = s[d]
    BY <1>4, <2>4
  <2>6. r[1] = <<>>
    BY <1>4, <2>5
  <2>7. ASSUME NEW d \in 1..n
        PROVE  r[d + 1] = r[d] \o Upto(g.calls[d].v)[g.calls[d].at - 1]
    <3>1. CASE d = n
      BY <1>2, <2>1, <2>3, <2>5, <3>1, Zenon
    <3>2. CASE d # n
      <4>1. d \in 1..n - 1 /\ d + 1 \in 1..n
        BY <3>2
      <4> QED
        BY <1>5, <2>5, <4>1, Zenon
    <3> QED
      BY <3>1, <3>2
  <2>8. g.out = r[n + 1] \o Upto(w)[0]
    <3>1. Upto(w)[0] = <<>>
      BY UptoIs
    <3>2. o \o <<>> = o
      OBVIOUS
    <3> QED
      BY <2>3, <2>5, <3>1, <3>2, Zenon
  <2>9. Behind(g, r)
    BY <2>1, <2>2, <2>5, <2>6, <2>7, <2>8, Zenon DEF Behind
  <2>10. Running(g)
    BY <1>6, <2>1 DEF Running
  <2> QED
    BY <2>9, <2>10 DEF Written
<1>9. CASE Returned(g, n, v, i)
  <2>1. i = Pieces(v) /\ Len(g.calls) = n - 1
    BY <1>9 DEF Returned
  <2>2. g.out = s[n] \o encode[v]
    BY <1>2, <2>1, UptoAll, Zenon
  <2>3. CASE n = 1
    <3>1. ~Running(g) /\ Running(e)
      BY <1>6, <2>1, <2>3 DEF Running
    <3>2. g.value = v
      BY <1>3, <2>3 DEF Settled
    <3>3. s[n] = <<>>
      BY <1>4, <2>3
    <3>4. <<>> \o encode[v] = encode[v]
      BY EncodeType
    <3>5. g.out = encode[v]
      BY <2>2, <3>3, <3>4, Zenon
    <3> QED
      BY <3>1, <3>2, <3>5 DEF Written
  <2>4. CASE n # 1
    <3>1. PICK m \in Nat : m > 0 /\ m + 1 = n /\ m = n - 1 /\ m \in 1..n - 1
      BY <2>4
    <3>2. PICK c \in CallRecords : c = e.calls[m] /\ c = g.calls[m]
      <4>1. g.calls[m] \in CallRecords
        BY <1>6, <2>1, <3>1
      <4> QED
        BY <1>3, <3>1, <4>1
    <3>3. PICK w \in Values, at \in Nat : w = c.v /\ at = c.at
      BY DEF CallRecords
    <3>4. at > 0 /\ IsPart(w, at) /\ v = Part(w, at \div 2) /\ at < Pieces(w)
      <4>1. Waits(e.calls[m], e.calls[m + 1])
        BY <1>3, <3>1 DEF Settled
      <4>2. Ready(e.calls[m])
        BY <1>3, <3>1 DEF Settled
      <4> QED
        BY <1>3, <3>1, <3>2, <3>3, <4>1, <4>2 DEF Waits, Ready
    <3>5. at \in 1..Pieces(w) /\ at - 1 \in 0..Pieces(w)
      BY <3>4, Counted
    <3>6. PICK a \in Seq(Printable), b \in Seq(Printable), t \in Seq(Printable) :
            a = s[m] /\ b = Upto(w)[at - 1] /\ t = encode[v]
      <4>1. s[m] \in Seq(Printable)
        BY <1>4, <3>1
      <4> QED
        BY <3>5, <4>1, UptoIs, EncodeType
    <3>7. s[n] = a \o b
      BY <1>4, <3>1, <3>2, <3>3, <3>6, Zenon
    <3>8. Upto(w)[at] = b \o t
      <4>1. PieceText(w, at) = t
        BY <3>4, <3>6 DEF PieceText
      <4> QED
        BY <3>5, <3>6, <4>1, UptoIs
    <3>9. Regrouped(a, b, t)
      BY Associate
    <3>10. g.out = s[m] \o Upto(w)[at]
      BY <2>2, <3>6, <3>7, <3>8, <3>9, Zenon DEF Regrouped
    <3>11. PICK r : r = [d \in 1..m |-> s[d]]
      OBVIOUS
    <3>12. r \in [1..m -> Seq(Printable)] /\ \A d \in 1..m : r[d] = s[d]
      BY <1>4, <3>1, <3>11
    <3>13. r[1] = <<>> /\ r[m] = s[m]
      BY <1>4, <3>1, <3>12
    <3>14. ASSUME NEW d \in 1..m - 1
           PROVE  r[d + 1] = r[d] \o Upto(g.calls[d].v)[g.calls[d].at - 1]
      <4>1. d \in 1..m /\ d + 1 \in 1..m /\ d \in 1..n - 1
        BY <3>1
      <4> QED
        BY <1>5, <3>12, <4>1, Zenon
    <3>15. Behind(g, r)
      BY <2>1, <3>1, <3>2, <3>3, <3>10, <3>12, <3>13, <3>14, Zenon DEF Behind
    <3>16. Running(g)
      BY <1>6, <2>1, <3>1 DEF Running
    <3> QED
      BY <3>15, <3>16 DEF Written
  <2> QED
    BY <2>3, <2>4
<1> QED
  BY <1>3, <1>7, <1>8, <1>9

\* A run leaves, call by call, the text encode gives its value, however its calls are
\* nested (canonical.rs:9-34).
THEOREM RunsEncode == Spec => []EncodesCanonically
<1> DEFINE TextInv == Settled(left) /\ Written(left)
<1>1. Init => TextInv
  <2> SUFFICES ASSUME NEW v \in Values, left = Encoding(v)
               PROVE  TextInv
    BY DEF Init
  <2>1. /\ Settled(left) /\ left.out = <<>>
        /\ Len(left.calls) = 1 /\ left.calls[1].at = 0
    BY Begun
  <2>2. PICK w \in Values : w = left.calls[1].v
    <3>1. left.calls \in Seq(CallRecords)
      BY <2>1 DEF Settled
    <3>2. left.calls[1] \in CallRecords
      BY <2>1, <3>1
    <3> QED
      BY <3>2 DEF CallRecords
  <2>3. PICK s : s = [d \in 1..1 |-> <<>>]
    OBVIOUS
  <2>4. s \in [1..1 -> Seq(Printable)] /\ s[1] = <<>>
    BY <2>3
  <2>5. <<>> = s[1] \o Upto(w)[0]
    <3>1. Upto(w)[0] = <<>>
      BY UptoIs
    <3>2. <<>> = <<>> \o <<>>
      OBVIOUS
    <3> QED
      BY <2>4, <3>1, <3>2, Zenon
  <2>6. \A d : d \notin 1..1 - 1
    OBVIOUS
  <2>7. Behind(left, s)
    BY <2>1, <2>2, <2>4, <2>5, <2>6, Zenon DEF Behind
  <2>8. Running(left)
    BY <2>1 DEF Running
  <2> QED
    BY <2>1, <2>7, <2>8 DEF Written
<1>2. TextInv /\ [Next]_vars => TextInv'
  <2> SUFFICES ASSUME TextInv, [Next]_vars
               PROVE  TextInv'
    OBVIOUS
  <2>1. CASE left' = left
    BY <2>1
  <2>2. CASE Running(left) /\ left' = encode_into(left)
    <3>1. PICK n \in Nat, v \in Values, i \in Nat :
            n > 0 /\ i > 0 /\ Moved(left, left', n, v, i)
      BY <2>2, Moves
    <3>2. Settled(left')
      BY <3>1, StaysSettled
    <3>3. Written(left')
      BY <2>2, <3>1, <3>2, StaysWritten
    <3> QED
      BY <3>2, <3>3
  <2> QED
    BY <2>1, <2>2 DEF Next, vars
<1>3. TextInv => EncodesCanonically
  BY DEF Written, EncodesCanonically
<1> QED
  BY <1>1, <1>2, <1>3, PTL DEF Spec
=============================================================================
