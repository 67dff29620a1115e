---------------------------- MODULE PortEncoding ----------------------------
(***************************************************************************)
(* The Rust port's protocol values, their canonical text and the bytes a   *)
(* tagged digest is taken of.  The other modules take a digest for the     *)
(* pair of its tag and its value; here is what that rests on.  A text is a *)
(* sequence of characters.                                                 *)
(*                                                                         *)
(* encode is deterministic and works on its own; to compare what it makes  *)
(* of two values, two of its runs are made side by side.                   *)
(***************************************************************************)
EXTENDS Integers, SequencesExt

CONSTANTS
  Values,      \* the protocol values, and their parts
  Depth(_),    \* how deep a value is nested
  Tags,        \* the texts a digest may be tagged with
  Characters,  \* what texts are made of
  Controls,    \* those below U+0020, but newline, tab and return
  Hex(_),      \* the digits format!("{:04x}") makes of one of these
  Decimal(_),  \* to_string of an integer
  KeysOf(_)    \* the keys of a map, in the order a BTreeMap goes through it

VARIABLES left, right  \* two runs of encode

vars == <<left, right>>

(***************************************************************************)
(* Values.                                                                 *)
(***************************************************************************)
NullValue == [k |-> "null"]
Bool(b) == [k |-> "bool", b |-> b]
Int_(i) == [k |-> "int", i |-> i]
Text(s) == [k |-> "text", s |-> s]
Array(items) == [k |-> "array", items |-> items]
Object(map) == [k |-> "object", map |-> map]

ASSUME ValuesAssumption ==
  \A v \in Values :
    \/ v = NullValue
    \/ v.k = "bool"   /\ v = Bool(v.b)      /\ v.b \in BOOLEAN
    \/ v.k = "int"    /\ v = Int_(v.i)      /\ v.i \in Int
    \/ v.k = "text"   /\ v = Text(v.s)      /\ v.s \in Seq(Characters)
    \/ v.k = "array"  /\ v = Array(v.items) /\ v.items \in Seq(Values)
    \/ v.k = "object" /\ v = Object(v.map)  /\ v.map \in [DOMAIN v.map -> Values]
                      /\ \A key \in DOMAIN v.map : Text(key) \in Values

(***************************************************************************)
(* What the libraries write.                                               *)
(***************************************************************************)
Digits == {"0", "1", "2", "3", "4", "5", "6", "7", "8", "9"}
HexDigits == Digits \cup {"a", "b", "c", "d", "e", "f"}

ASSUME TagsAssumption == Tags \subseteq Seq(Characters)

\* Integers have digits of their own.
ASSUME DecimalAssumption ==
  \A v \in Values : v.k = "int" =>
    /\ Decimal(v.i) \in Seq(Digits \cup {"-"}) /\ Decimal(v.i) # <<>>
    /\ \A w \in Values : w.k = "int" /\ Decimal(w.i) = Decimal(v.i) => w.i = v.i

\* The two-letter escapes of encode_string_into.
Letters ==
  [ch \in {"\"", "\\", "\n", "\t", "\r"} |->
     CASE ch = "\n" -> "n" [] ch = "\t" -> "t" [] ch = "\r" -> "r" [] OTHER -> ch]

\* So have control characters, four each.
ASSUME HexAssumption ==
  /\ Controls \cap DOMAIN Letters = {}
  /\ \A c \in Controls :
       /\ Hex(c) \in Seq(HexDigits) /\ Len(Hex(c)) = 4
       /\ \A d \in Controls : Hex(c) = Hex(d) => c = d

\* Going through a map meets all its keys, and only these.
ASSUME KeysAssumption ==
  \A v \in Values : v.k = "object" =>
    /\ KeysOf(v.map) \in Seq(DOMAIN v.map)
    /\ \A key \in DOMAIN v.map : \E i \in DOMAIN KeysOf(v.map) : KeysOf(v.map)[i] = key

(***************************************************************************)
(* The pieces encode_into writes of a value, in order: the i-th is a part  *)
(* of an array or an object, written by a call, or some characters.        *)
(***************************************************************************)
\* Mutant: the escape character is not escaped.
escape_quotes(ch) ==
  IF ch \in DOMAIN Letters \ {"\\"} THEN <<"\\", Letters[ch]>> ELSE <<ch>>

escape(ch) ==
  IF ch \in DOMAIN Letters THEN <<"\\", Letters[ch]>>
  ELSE IF ch \in Controls THEN <<"\\", "u">> \o Hex(ch) ELSE <<ch>>

Composite(v) == v.k \in {"array", "object"}

\* An object's parts are its keys and their values, in turn.
PartCount(v) == IF v.k = "array" THEN Len(v.items) ELSE 2 * Len(KeysOf(v.map))

Part(v, j) ==
  IF v.k = "array" THEN v.items[j]
  ELSE LET key == KeysOf(v.map)[(j + 1) \div 2]
       IN  IF j % 2 = 1 THEN Text(key) ELSE v.map[key]

\* Values own their parts: they are finite trees.
ASSUME DepthAssumption ==
  \A v \in Values :
    /\ Depth(v) \in Nat
    /\ Composite(v) => \A j \in 1..PartCount(v) : Depth(Part(v, j)) < Depth(v)

Pieces(v) ==
  CASE v.k = "null"  -> 1
    [] v.k = "bool"  -> 1
    [] v.k = "int"   -> Len(Decimal(v.i))
    [] v.k = "text"  -> Len(v.s) + 2
    [] Composite(v)  -> IF PartCount(v) = 0 THEN 2 ELSE 2 * PartCount(v) + 1

\* Mutant: no colon behind a key.
only_commas(v, i) ==
  CASE i = 1         -> IF v.k = "array" THEN "[" ELSE "{"
    [] i = Pieces(v) -> IF v.k = "array" THEN "]" ELSE "}"
    [] OTHER         -> ","

Mark(v, i) ==
  CASE i = 1         -> IF v.k = "array" THEN "[" ELSE "{"
    [] i = Pieces(v) -> IF v.k = "array" THEN "]" ELSE "}"
    [] OTHER         -> IF v.k = "object" /\ i % 4 = 3 THEN ":" ELSE ","

IsPart(v, i) == Composite(v) /\ i % 2 = 0 /\ PartCount(v) > 0

Chars(v, i) ==
  CASE v.k = "null"  -> <<"n", "u", "l", "l">>
    [] v.k = "bool"  -> IF v.b THEN <<"t", "r", "u", "e">> ELSE <<"f", "a", "l", "s", "e">>
    [] v.k = "int"   -> <<Decimal(v.i)[i]>>
    [] v.k = "text"  -> IF i = 1 \/ i = Pieces(v) THEN <<"\"">> ELSE escape(v.s[i - 1])
    [] Composite(v)  -> <<Mark(v, i)>>

(***************************************************************************)
(* encode as a function of the value.                                      *)
(***************************************************************************)
separated(texts) ==
  FlattenSeq([i \in DOMAIN texts |-> IF i > 1 THEN <<",">> \o texts[i] ELSE texts[i]])

quoted(s) == <<"\"">> \o FlattenSeq([i \in DOMAIN s |-> escape(s[i])]) \o <<"\"">>

encode[v \in Values] ==
  CASE v.k = "array"  ->
         <<"[">> \o separated([i \in DOMAIN v.items |-> encode[v.items[i]]]) \o <<"]">>
    [] v.k = "object" ->
         LET keys == KeysOf(v.map)
         IN  <<"{">> \o separated([i \in DOMAIN keys |->
                          quoted(keys[i]) \o <<":">> \o encode[v.map[keys[i]]]]) \o <<"}">>
    [] v.k = "null"   -> <<"n", "u", "l", "l">>
    [] v.k = "bool"   -> IF v.b THEN <<"t", "r", "u", "e">> ELSE <<"f", "a", "l", "s", "e">>
    [] v.k = "int"    -> Decimal(v.i)
    [] v.k = "text"   -> quoted(v.s)

(***************************************************************************)
(* A run of encode: the text so far and the calls of encode_into, each     *)
(* with the value it encodes and how many pieces of it it has begun.       *)
(***************************************************************************)
Call(v) == [v |-> v, at |-> 0]

Encoding(v) == [value |-> v, out |-> <<>>, calls |-> <<Call(v)>>]

Running(e) == e.calls # <<>>

\* The innermost call writes some characters, and goes on to the next piece:
\* it returns behind the last one, and calls itself for a part.
encode_into(e) ==
  LET n == Len(e.calls)
      v == e.calls[n].v
      i == e.calls[n].at + 1
      callers == SubSeq(e.calls, 1, n - 1)
  IN  [value |-> e.value,
       out   |-> e.out \o Chars(v, i),
       calls |->
         IF i = Pieces(v) THEN callers
         ELSE IF IsPart(v, i + 1)
         THEN callers \o <<[v |-> v, at |-> i + 1], Call(Part(v, (i + 1) \div 2))>>
         ELSE Append(callers, [v |-> v, at |-> i])]

Init == \E v, w \in Values : left = Encoding(v) /\ right = Encoding(w)

Next ==
  /\ Running(left) \/ Running(right)
  /\ left' = IF Running(left) THEN encode_into(left) ELSE left
  /\ right' = IF Running(right) THEN encode_into(right) ELSE right

Spec == Init /\ [][Next]_vars

(***************************************************************************)
(* What is hashed: the tag, a newline and the canonical text.              *)
(***************************************************************************)
\* Mutant: nothing separates tag and text.
unseparated_preimage(tag, text) == tag \o text

preimage(tag, text) == tag \o <<"\n">> \o text

(***************************************************************************)
(* Properties.                                                             *)
(***************************************************************************)
Encoded == ~Running(left) /\ ~Running(right)

\* The text a run leaves, call by call, is the one the function gives its value,
\* however its calls are nested (canonical.rs:9-34).
EncodesCanonically == ~Running(left) => left.out = encode[left.value]

\* Two values with the same canonical text are the same value: no quote,
\* escape, comma or key inside a text can pass for structure (canonical.rs:36-50).
EncodedApart ==
  Encoded /\ left.out = right.out => left.value = right.value

\* What is hashed determines the tag and the value, whatever the tags share with
\* each other and with the texts: hash.rs:12 asks only for non-empty ASCII.
DomainsApart ==
  Encoded => \A t, u \in Tags :
    preimage(t, left.out) = preimage(u, right.out)
      => t = u /\ left.value = right.value
=============================================================================
