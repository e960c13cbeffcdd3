------------------------------ MODULE Numbers ------------------------------
(***************************************************************************)
(* The arithmetic of misc.cpp, misc.h and ByteSwap.cpp.  A word, uint32_t  *)
(* in the code, has W bits and uint64_t 2 * W, so that carries, wraps and  *)
(* roundings come up with small numbers.                                   *)
(***************************************************************************)
EXTENDS Inputs, Integers, Sequences, SequencesExt

CONSTANTS W,
          Buffers, ItemSizes,   \* what ByteSwap() is called with
          Tick, Second, Base,   \* nanoseconds in the last digit of a time and
                                \* in a second; 60, for minutes and seconds
          MaxTime               \* bound on the times

ASSUME WordAssumption == W \in Nat \ {0}
ASSUME BuffersAssumption == Buffers \subseteq Seq(Int) /\ ItemSizes \subseteq Nat \ {0}
ASSUME TimeAssumption ==
  /\ Tick \in Nat \ {0} /\ Second \in Nat \ {0} /\ Base \in Nat \ {0}
  /\ Second % Tick = 0

\* 2 ^ n, a shift by n.
Power[n \in Nat] == IF n = 0 THEN 1 ELSE 2 * Power[n - 1]

Word == Power[W]
Words == 0 .. Word - 1
Longs == 0 .. Word * Word - 1

-----------------------------------------------------------------------------
(* muldiv(): val * mul / div over three words.                             *)

\* The product, lowest word first; each step hands its carry on.
Product(val, mul) ==
  LET low == mul * (val % Word)
      high == low \div Word + mul * (val \div Word)
  IN  <<low % Word, high % Word, (high \div Word) % Word>>

\* Mutation: the remainder of a word does not go down to the next one.
DivisionByWords(res, div) == [i \in 1 .. 3 |-> res[i] \div div]

\* Long division, highest word first; `carry' is the remainder.
LongDivision(res, div) ==
  LET carry2 == res[3] % div
      carry1 == (carry2 * Word + res[2]) % div
  IN  <<((carry1 * Word + res[1]) \div div) % Word,
        ((carry2 * Word + res[2]) \div div) % Word,
        res[3] \div div>>

MulDiv(val, mul, div) == LongDivision(Product(val, mul), div)[1] + Word * LongDivision(Product(val, mul), div)[2]

-----------------------------------------------------------------------------
(* namespace limited, for a word.                                          *)

AddM(a, b) == LET c == (a + b) % Word IN IF c >= a THEN c ELSE Word - 1
SubZ(a, b) == IF a >= b THEN a - b ELSE 0
Limit(a, b, c) == IF a < b THEN b ELSE IF a > c THEN c ELSE a
Within(a, b, c) == a >= b /\ a <= c

-----------------------------------------------------------------------------
(* IEEE extended numbers: the explicit leading bit of the mantissa, two    *)
(* words, counts 2 ^ expo.  The sign is not looked at.                     *)

\* INT32uToIEEEExtended(): shifted up to the leading bit, which zero never
\* reaches.
ToExtended(val) ==
  LET shift == CHOOSE n \in 0 .. W - 1 : val * Power[n] \in Word \div 2 .. Word - 1
  IN  [expo |-> W - 1 - shift, mant |-> val * Power[shift] * Word]

\* IEEEExtendedToINT32u(): a word before the point and one behind it.  A shift
\* by the width of the mantissa or more is undefined.
FromExtended(num) ==
  LET by == num.expo - (W - 1)
      mant == IF by < 0 THEN num.mant \div Power[-by] ELSE (num.mant * Power[by]) % (Word * Word)
  IN  ((mant + Word \div 2) % (Word * Word)) \div Word

-----------------------------------------------------------------------------
(* ByteSwap() of items of itemsize bytes; nitems > 0, for the loop counts  *)
(* down before it tests.                                                   *)

Types == {"never", "always", "for_le", "for_be"}

Swaps(type, bigendian) ==
  type = "always" \/ (type = "for_le" /\ bigendian) \/ (type = "for_be" /\ ~bigendian)

ByteSwap(data, itemsize, nitems, type, bigendian) ==
  IF itemsize <= 1 \/ ~Swaps(type, bigendian) THEN data
  ELSE [k \in DOMAIN data |->
          LET first == ((k - 1) \div itemsize) * itemsize
          IN  IF k > nitems * itemsize THEN data[k] ELSE data[first + itemsize - (k - 1 - first)]]

-----------------------------------------------------------------------------
(* CreateIndent(): the text copied so far is copied behind itself.         *)

CreateIndent(indent, count) ==
  LET endpos == count * Len(indent)
      copied[pos \in 0 .. endpos, buf \in Seq(STRING)] ==
        IF pos >= endpos THEN buf
        ELSE LET n == IF endpos - pos < pos THEN endpos - pos ELSE pos
             IN  copied[pos + n, buf \o SubSeq(buf, 1, n)]
  IN  IF endpos = 0 THEN <<>> ELSE copied[Len(indent), indent]

-----------------------------------------------------------------------------
(* Times.                                                                  *)

GenerateTime(t) ==
  [ss |-> (t \div Tick) % (Second \div Tick),
   s |-> (t \div Second) % Base,
   mn |-> (t \div (Second * Base)) % Base,
   hr |-> t \div (Second * Base * Base)]

\* The results CalcTime() may have: the seconds are read as a double and
\* multiplied, which may come out just below the integer, then cut.
CalcTime(text) ==
  LET secs == text.s * Second + text.ss * Tick
      rest == (text.hr * Base + text.mn) * Base * Second
  IN  {x + rest : x \in {secs} \union (IF text.ss = 0 THEN {} ELSE {secs - 1})}

-----------------------------------------------------------------------------
(* Laws.                                                                   *)

\* muldiv() is the exact quotient, cut to two words, in spite of a product of
\* three.
MulDivLaw(val, mul, div) == div > 0 => MulDiv(val, mul, div) = ((val * mul) \div div) % (Word * Word)

\* Sums and differences stop at the ends of the range.
LimitedLaw(a, b, c) ==
  /\ AddM(a, b) = IF a + b < Word THEN a + b ELSE Word - 1
  /\ SubZ(AddM(a, b), b) <= a /\ AddM(SubZ(a, b), b) >= a
  /\ b <= c => Within(Limit(a, b, c), b, c) /\ (Within(a, b, c) <=> Limit(a, b, c) = a)

\* Every word but zero survives the conversion, and a number that is not an
\* integer is rounded to the nearest, as long as that is a word.
ExtendedLaw(mant, expo, val) ==
  /\ val > 0 => FromExtended(ToExtended(val)) = val
  /\ LET unit == Power[2 * W - 1 - expo]    \* mant units make 1
         nearest == (2 * mant + unit) \div (2 * unit)
     IN  nearest < Word => FromExtended([expo |-> expo, mant |-> mant]) = nearest

\* Swapping twice changes nothing, what is swapped for one byte order is not
\* for the other, and items swapped at once are swapped one by one.
SwapLaw(data, itemsize, bigendian) ==
  LET n == Len(data) \div itemsize
      Swapped(seq, k, type) == ByteSwap(seq, itemsize, k, type, bigendian)
  IN  n > 0 =>
        /\ \A type \in Types : Swapped(Swapped(data, n, type), n, type) = data
        /\ Swapped(Swapped(data, n, "for_le"), n, "for_be") = Swapped(data, n, "always")
        /\ n > 1 => Swapped(data, n, "always") =
             Swapped(SubSeq(data, 1, itemsize), 1, "always")
               \o Swapped(SubSeq(data, itemsize + 1, Len(data)), n - 1, "always")

IndentLaw(indent, count) == CreateIndent(indent, count) = FlattenSeq([i \in 1 .. count |-> indent])

\* A time read back from its text is the time cut to the last digit, or, by
\* the rounding of the product, 1 ns less.
TimeLaw(t) == \A u \in CalcTime(GenerateTime(t)) : u - (t \div Tick) * Tick \in {-1, 0}

-----------------------------------------------------------------------------
(* The inputs, and the property.                                           *)

NumberInput ==
  \/ \E val \in Longs, mul \in Words, div \in Words :
       input' = [kind |-> "muldiv", val |-> val, mul |-> mul, div |-> div]
  \/ \E a, b, c \in Words : input' = [kind |-> "limited", a |-> a, b |-> b, c |-> c]
  \/ \E mant \in Longs, expo \in 0 .. W - 1, val \in Words :
       input' = [kind |-> "extended", mant |-> mant, expo |-> expo, val |-> val]
  \/ \E data \in Buffers, size \in ItemSizes, bigendian \in BOOLEAN :
       input' = [kind |-> "bytes", data |-> data, size |-> size, bigendian |-> bigendian]
  \/ \E t \in 0 .. MaxTime : input' = [kind |-> "time", t |-> t]

NumbersSpec == NoInput /\ [][NumberInput]_input

\* The arithmetic done in parts gives the result it would give at once, at
\* every carry, rounding and wrap (muldiv(), limited, the IEEE extended
\* conversions, ByteSwap(), GenerateTime(), CalcTime()).
NumbersAreExact ==
  /\ Is("muldiv") => MulDivLaw(input.val, input.mul, input.div)
  /\ Is("limited") => LimitedLaw(input.a, input.b, input.c)
  /\ Is("extended") => ExtendedLaw(input.mant, input.expo, input.val)
  /\ Is("bytes") => SwapLaw(input.data, input.size, input.bigendian)
  /\ Is("time") => TimeLaw(input.t)

=============================================================================
