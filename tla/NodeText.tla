------------------------------ MODULE NodeText ------------------------------
(***************************************************************************)
(* A node as text: Display writes "0x" and two digits for each byte, and   *)
(* Node::try_from reads a node from any string a caller has.  It measures  *)
(* the string in bytes of UTF-8, takes it apart in pairs of characters and *)
(* leaves the pairs to u8::from_str_radix.                                 *)
(***************************************************************************)
EXTENDS Integers, Sequences, FiniteSets, Functions

CONSTANTS
  LEN,       \* Node::LEN
  Wide,      \* a character of two bytes
  MaxChars   \* bound: the length of a string

VARIABLE text   \* the string so far

-----------------------------------------------------------------------------
(* Characters: of the hexadecimal digits one that has no case and two that do. *)

HexDigits == {"0", "f", "F"}
Value(c) == IF c = "0" THEN 0 ELSE 15
Lower(c) == IF c = "F" THEN "f" ELSE c
Char == HexDigits \cup {"x", "+", Wide}

\* str::len()
Utf8Len(s) == Len(s) + Cardinality({k \in DOMAIN s : s[k] = Wide})

Invalid == -1

\* One or two digits.
Number(s) == IF Len(s) = 1 THEN Value(s[1]) ELSE 16 * Value(s[1]) + Value(s[2])

\* u8::from_str_radix(s, 16) of one or two characters: a sign may precede a digit.
FromRadix(s) ==
  LET digits == IF Len(s) > 1 /\ s[1] = "+" THEN Tail(s) ELSE s IN
  IF \E k \in DOMAIN digits : digits[k] \notin HexDigits THEN Invalid
  ELSE Number(digits)

Prefixed(s) == Len(s) >= 2 /\ s[1] = "0" /\ s[2] = "x"
Hex(s) == IF Prefixed(s) THEN SubSeq(s, 3, Len(s)) ELSE s

\* chars().collect().chunks(2): the last one may be a single character.
Chunk(s, i) == SubSeq(s, 2 * i - 1, IF 2 * i > Len(s) THEN Len(s) ELSE 2 * i)
NumChunks(s) == (Len(s) + 1) \div 2

HexLen(s) == Utf8Len(s)

\* Wrong: a pair that is no number is left as zero.
ZeroIfInvalid(s) == IF FromRadix(s) = Invalid THEN 0 ELSE FromRadix(s)

ByteOf(s) == FromRadix(s)

Bytes(s) == [i \in 1..LEN |-> IF i <= NumChunks(s) THEN ByteOf(Chunk(s, i)) ELSE 0]

TryFrom(s) ==
  IF HexLen(Hex(s)) # 2 * LEN \/ Invalid \in Range(Bytes(Hex(s))) THEN <<>>
  ELSE Bytes(Hex(s))

\* {:02x}
TwoDigits(b) == <<IF b < 16 THEN "0" ELSE "f", IF b % 16 = 0 THEN "0" ELSE "f">>

\* The digits of all bytes, one after the other.
Digits(node) ==
  [k \in 1..(2 * Len(node)) |-> TwoDigits(node[(k + 1) \div 2])[2 - (k % 2)]]

Display(node) == <<"0", "x">> \o Digits(node)

-----------------------------------------------------------------------------
Init == text = <<>>

Push(c) == Len(text) < MaxChars /\ text' = Append(text, c)

Next == \E c \in Char : Push(c)

Spec == Init /\ [][Next]_text

-----------------------------------------------------------------------------
Accepted == TryFrom(text) # <<>>

\* What is read is written back as it was, apart from the prefix, the case of
\* digits and a sign, and reading that again gives the same node.  A string that
\* has the right length in bytes and too few characters is not accepted: no byte
\* keeps the zero the array starts with.
RoundTrip ==
  Accepted =>
    /\ TryFrom(Display(TryFrom(text))) = TryFrom(text)
    /\ "+" \notin Range(text) =>
         Display(TryFrom(text)) =
           <<"0", "x">> \o [k \in DOMAIN Hex(text) |-> Lower(Hex(text)[k])]
=============================================================================
