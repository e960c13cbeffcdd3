------------------------------ MODULE Numerals ------------------------------
(***************************************************************************)
(* Numbers as text (misc.cpp): GetFormat(), StringFrom() and Evaluate().   *)
(* An int has IntBits bits and a long, a long long and the image of a      *)
(* double twice as many, so that each takes several digits.  printf() and  *)
(* sscanf() are the conversions d, u and x with a width.                   *)
(***************************************************************************)
EXTENDS Integers, Sequences, SequencesExt, FiniteSetsExt

IntBits == 4

\* The types, with the 'l's of their conversions.
NumberTypes == {"sint", "uint", "sllong", "ullong"}
IsSigned(type) == type \in {"sint", "sllong"}
Letters(type) == IF type \in {"sllong", "ullong"} THEN <<"l", "l">> ELSE <<>>
Size(type) == IF type \in {"sllong", "ullong"} THEN 2 ^ (2 * IntBits) ELSE 2 ^ IntBits
ValuesOf(type) == IF IsSigned(type) THEN -(Size(type) \div 2) .. Size(type) \div 2 - 1 ELSE 0 .. Size(type) - 1

Unsigned(type, n) == n % Size(type)
Signed(type, n) == LET u == Unsigned(type, n) IN IF u < Size(type) \div 2 THEN u ELSE u - Size(type)
OfType(type, n) == IF IsSigned(type) THEN Signed(type, n) ELSE Unsigned(type, n)

DigitChars == <<"0", "1", "2", "3", "4", "5", "6", "7", "8", "9", "a", "b", "c", "d", "e", "f">>
DigitsOf(base) == {DigitChars[i] : i \in 1 .. base}
DigitValue(c) == SelectInSeq(DigitChars, LAMBDA d : d = c) - 1

RECURSIVE Numeral(_, _)
Numeral(n, base) ==
  (IF n < base THEN <<>> ELSE Numeral(n \div base, base)) \o <<DigitChars[(n % base) + 1]>>

NumeralValue(digits, base) == FoldLeft(LAMBDA sum, c : sum * base + DigitValue(c), 0, digits)

-----------------------------------------------------------------------------

\* GetFormat(): the 'l's go before the last letter, given or not.
GetFormat(fmt, insert, defsuffix) ==
  LET given == fmt # <<>> /\ Last(fmt) \in {"d", "u", "x", "f"}
  IN  IF fmt # <<>> /\ fmt[1] = "%" THEN fmt
      ELSE <<"%">> \o (IF given THEN Front(fmt) ELSE fmt) \o insert \o <<IF given THEN Last(fmt) ELSE defsuffix>>

Ls(format) == SelectSeq(format, LAMBDA c : c = "l")

\* printf() of a value with a format: %, width (zeros fill it if it starts
\* with one), 'l's, conversion.  An int is taken for its bits if the format
\* has no 'l's.
Printed(val, format) ==
  LET type == CHOOSE t \in NumberTypes : Letters(t) = Ls(format) /\ IsSigned(t) = (Last(format) = "d")
      width == SelectSeq(Tail(format), LAMBDA c : c \in DigitsOf(10))
      n == OfType(type, val)
      text == Numeral(IF n < 0 THEN -n ELSE n, IF Last(format) = "x" THEN 16 ELSE 10)
      sign == IF n < 0 THEN <<"-">> ELSE <<>>
      missing == NumeralValue(width, 10) - Len(sign) - Len(text)
      Fill(c) == [i \in 1 .. missing |-> c]
  IN  IF width # <<>> /\ width[1] = "0" THEN sign \o Fill("0") \o text ELSE Fill(" ") \o sign \o text

StringFrom(type, val, fmt) ==
  Printed(val, GetFormat(fmt, Letters(type), IF IsSigned(type) THEN "d" ELSE "u"))

\* Exact text of a double: its image in hex behind a '#'.
StringFromDouble(image) == <<"#">> \o StringFrom("ullong", image, <<"0", "4", "x">>)

Unread == [found |-> FALSE, value |-> 0]

\* sscanf() of a number of some type by the conversion for another of its size:
\* blanks, a sign, the digits that follow.  A number that the conversion has no
\* room for becomes any other.
Scanned(type, conversion, s, base) ==
  LET p == CHOOSE i \in 1 .. Len(s) + 1 : (i > Len(s) \/ s[i] # " ") /\ \A j \in 1 .. i - 1 : s[j] = " "
      signed == p <= Len(s) /\ s[p] = "-"
      from == IF signed THEN p + 1 ELSE p
      to == CHOOSE i \in from .. Len(s) + 1 :
              (i > Len(s) \/ s[i] \notin DigitsOf(base)) /\ \A j \in from .. i - 1 : s[j] \in DigitsOf(base)
      n == NumeralValue(SubSeq(s, from, to - 1), base)
      read == IF signed THEN -n ELSE n
      fits == (IF IsSigned(conversion) THEN read ELSE n) \in ValuesOf(conversion)
  IN  IF to = from THEN {Unread}
      ELSE {[found |-> TRUE, value |-> OfType(type, v)] : v \in IF fits THEN {read} ELSE ValuesOf(type)}

\* Evaluate(), by what it may return: hex if asked to, or behind a '$' or '#'.
\* In decimal a uint_t is read with "%d", like an int.
EvaluateAs(type, s, hex) ==
  LET marked == s # <<>> /\ s[1] \in {"$", "#"}
      decimal == IF type = "uint" THEN "sint" ELSE type
      unsigned == IF Letters(type) = <<>> THEN "uint" ELSE "ullong"
  IN  IF marked \/ hex THEN Scanned(type, unsigned, IF marked THEN Tail(s) ELSE s, 16)
                        ELSE Scanned(type, decimal, s, 10)

StringFromBool(b) == StringFrom("uint", IF b THEN 1 ELSE 0, <<>>)

\* Evaluate() for a bool: a number, or one of two words.
EvaluateBool(s) ==
  {CASE n.found -> [found |-> TRUE, value |-> n.value # 0]
     [] ~n.found /\ s = <<"t", "r", "u", "e">> -> [found |-> TRUE, value |-> TRUE]
     [] OTHER -> [found |-> s = <<"f", "a", "l", "s", "e">>, value |-> FALSE] :
   n \in Scanned("uint", "uint", s, 10)}

-----------------------------------------------------------------------------
(* Laws.                                                                   *)

IsHex(fmt) == fmt # <<>> /\ Last(fmt) = "x"
ReadAs(value) == {[found |-> TRUE, value |-> value]}

\* What is written with a format for the type is read back, as it ends.
ReadBack(type, val, fmt, rest) ==
  EvaluateAs(type, StringFrom(type, val, fmt) \o rest, IsHex(fmt)) = ReadAs(val)

\* A number written in any format is read back as the same number of its type,
\* by its base, in hex with or without a mark, and has the width asked for;
\* what follows it is not looked at.  A full format has to be one for the type,
\* and a uint_t in decimal has to be in the range of int: see ReadBack alone.
TextLaw(type, val, fmt, rest) ==
  LET text == StringFrom(type, val, fmt)
      width == NumeralValue(SelectSeq(fmt, LAMBDA c : c \in DigitsOf(10)), 10)
      fits == fmt # <<>> /\ fmt[1] = "%" => Ls(fmt) = Letters(type)
      hex == IsHex(fmt)
  IN  fits =>
      /\ (type = "uint" /\ ~hex => val \in ValuesOf("sint")) => ReadBack(type, val, fmt, rest)
      /\ hex => EvaluateAs(type, <<"$">> \o text, FALSE) = ReadAs(val)
      /\ Len(text) >= width
      /\ EvaluateBool(StringFrom("uint", Unsigned("uint", val), <<>>)) = ReadAs(Unsigned("uint", val) # 0)
      /\ EvaluateBool(StringFromBool(hex)) = ReadAs(hex)
      /\ type = "ullong" => EvaluateAs("ullong", StringFromDouble(val), FALSE) = ReadAs(val)

=============================================================================
