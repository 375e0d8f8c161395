--------------------------- MODULE PositionNames ---------------------------
(* The names of cells: Position::ToString and Position::FromString          *)
(* (imp_common.cpp).  Columns are counted with letters, from A to Z and on  *)
(* with AA, which is no number system with a zero; rows are counted from 1. *)
(* The two functions go opposite ways and share no code.                    *)
(*                                                                          *)
(* A name is a sequence of character codes, typed one by one; pos walks the *)
(* diagonal of the table, which meets every row and every column.           *)

EXTENDS Integers, Sequences, FiniteSetsExt

CONSTANTS kMaxRows, kMaxCols,
          Width,     \* bits of an int
          Typed,     \* the characters typed
          MaxLength  \* bound on the length of a name

ASSUME NamesAssumption ==
  /\ {kMaxRows, kMaxCols} \subseteq 1 .. 2 ^ (Width - 1)
  /\ Typed \subseteq 1 .. 127 /\ MaxLength \in Nat

VARIABLES name, pos

vars == <<name, pos>>

Upper(ch) == ch \in 65 .. 90     \* 'A' .. 'Z'
Alpha(ch) == Upper(ch) \/ ch \in 97 .. 122
Digit(ch) == ch \in 48 .. 57     \* '0' .. '9'

IsValid(p) == p.row \in 0 .. kMaxRows - 1 /\ p.col \in 0 .. kMaxCols - 1
Nowhere == [row |-> -1, col |-> -1]
-----------------------------------------------------------------------------
(* From a position to its name.                                             *)

\* (Faulty: plain base 26, where A is the digit zero.)
PlainLetters(col) ==
  LET letters[c \in 0 .. kMaxCols] ==
        (IF c < 26 THEN <<>> ELSE letters[c \div 26]) \o <<65 + (c % 26)>>
  IN  letters[col]

\* Each turn of the loop puts a letter in front: "c /= 26; c -= 1".
LettersOf(col) ==
  LET letters[c \in -1 .. kMaxCols] ==
        IF c < 0 THEN <<>> ELSE Append(letters[(c \div 26) - 1], 65 + (c % 26))
  IN  letters[col]

\* std::to_string.
DigitsOf(n) ==
  LET digits[m \in 0 .. kMaxRows] ==
        (IF m < 10 THEN <<>> ELSE digits[m \div 10]) \o <<48 + (m % 10)>>
  IN  digits[n]

ToString(p) == IF IsValid(p) THEN LettersOf(p.col) \o DigitsOf(p.row + 1) ELSE <<>>
-----------------------------------------------------------------------------
(* From a name to a position.                                               *)

\* What ParseNum and ParseLetters add up, from the last character to the first.
PositionalSum(str, base, DigitValue(_)) ==
  LET sum[i \in 0 .. Len(str)] ==
        IF i = 0 THEN 0 ELSE sum[i - 1] + DigitValue(str[Len(str) - i + 1]) * base ^ (i - 1)
  IN  sum[Len(str)]

\* They add it up in an int.  Overflow is undefined; what the compiled code
\* does is to keep the low bits.
AsInt(n) == ((n + 2 ^ (Width - 1)) % (2 ^ Width)) - 2 ^ (Width - 1)
Overflows(n) == n # AsInt(n)

Number(str) == PositionalSum(str, 10, LAMBDA ch : ch - 48)
Letters(str) == PositionalSum(str, 26, LAMBDA ch : ch - 65 + 1)

ParseNum(str) == AsInt(Number(str) - 1)
ParseLetters(str) == AsInt(Letters(str) - 1)

\* The first loop of FromString ends at the first character that is no letter;
\* it takes lower case letters in and refuses them.
LetterCount(str) ==
  Max({i \in 0 .. Len(str) : \A j \in 1 .. i : Alpha(str[j])})
LetterPart(str) == SubSeq(str, 1, LetterCount(str))
DigitPart(str) == SubSeq(str, LetterCount(str) + 1, Len(str))

\* (Faulty: what follows the letters is only checked for its first character.)
LooksLikeName(str) ==
  /\ LetterPart(str) # <<>> /\ DigitPart(str) # <<>>
  /\ \A i \in DOMAIN LetterPart(str) : Upper(str[i])
  /\ Digit(DigitPart(str)[1])

IsName(str) ==
  /\ LetterPart(str) # <<>> /\ DigitPart(str) # <<>>
  /\ \A i \in DOMAIN LetterPart(str) : Upper(str[i])
  /\ \A i \in DOMAIN DigitPart(str) : Digit(DigitPart(str)[i])

FromString(str) ==
  IF IsName(str) THEN [row |-> ParseNum(DigitPart(str)), col |-> ParseLetters(LetterPart(str))]
  ELSE Nowhere
-----------------------------------------------------------------------------
Origin == [row |-> 0, col |-> 0]

Init == name = <<>> /\ pos = Origin

Type(ch) == pos = Origin /\ name' = Append(name, ch) /\ UNCHANGED pos

StepAside == name = <<>> /\ pos' = [row |-> pos.row + 1, col |-> pos.col + 1] /\ UNCHANGED name

Next ==
  \/ Len(name) < MaxLength /\ \E ch \in Typed : Type(ch)
  \/ (pos.row < kMaxRows \/ pos.col < kMaxCols) /\ StepAside

Spec == Init /\ [][Next]_vars
-----------------------------------------------------------------------------
(* Properties.                                                              *)

\* A position's name is read back as that position, over every row and every
\* column, where Z becomes AA and ZZ becomes AAA too; a position outside of the
\* table has no name, and is not read from any.
RoundTrip ==
  IF IsValid(pos) THEN FromString(ToString(pos)) = pos
  ELSE ToString(pos) = <<>> /\ ~ IsValid(FromString(ToString(pos)))

\* The number of a name without zeros in front.
Plain(str) ==
  LET zeros == {i \in DOMAIN str : ~ Alpha(str[i]) /\ \A j \in LetterCount(str) + 1 .. i : str[j] = 48}
  IN  LetterPart(str) \o SubSeq(str, LetterCount(str) + Cardinality(zeros) + 1, Len(str))

\* A name that is read as a position of the table is the name of that position,
\* up to zeros in front of its number: no two cells share one, and nothing that
\* is no name is taken for one, as main.cpp:75-86 tests.  Numbers that overflow
\* an int are left out, and are read as the positions of other names.
NamesExact ==
  LET p == FromString(name)
  IN  IsValid(p) /\ ~ Overflows(Number(DigitPart(name))) /\ ~ Overflows(Letters(LetterPart(name)))
        => Plain(name) = ToString(p)
=============================================================================
