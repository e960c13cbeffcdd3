------------------------------ MODULE Messages ------------------------------
(***************************************************************************)
(* ParameterSet::GenerateMessage() (ParameterSet.cpp) and the lines of a   *)
(* .conf file (SystemParameters.cpp).  Parameters are a function from      *)
(* names to values, both strings as in module Strings.  A number is one    *)
(* digit; what printf() makes of it is its digits.                         *)
(***************************************************************************)
EXTENDS Strings, TLC

Digits == <<"0", "1", "2", "3", "4", "5", "6", "7", "8", "9">>

NoNumber == [found |-> FALSE, n |-> 0]

\* Evaluate() for a number: what follows it is not looked at.
Evaluate(s) ==
  LET signed == s # <<>> /\ s[1] \in {"+", "-"}
      digit == IF signed THEN From(s, 2) ELSE s
  IN  IF digit = <<>> \/ digit[1] \notin ToSet(Digits) THEN NoNumber
      ELSE LET n == SelectInSeq(Digits, LAMBDA c : c = digit[1]) - 1
           IN  [found |-> TRUE, n |-> IF signed /\ s[1] = "-" THEN -n ELSE n]

Lookup(ps, key) == IF key \in DOMAIN ps THEN ps[key] ELSE <<>>

\* {key?a:b}: a or b for a boolean or a number (0 is false), else the value
\* itself.  true and false stand for these words.
Chosen(ps, key, yes, no) ==
  LET val == Lookup(ps, key)
      n == Evaluate(val)
  IN  CASE (n.found /\ n.n # 0) \/ val = <<"true">> -> yes
        [] (n.found /\ n.n = 0) \/ val = <<"false">> -> no
        [] OTHER -> val

\* {key:offset:fmt}: an integer or real format adds the offset and gives
\* nothing if the value is no number; with no format it is the value.
Formatted(ps, key, spec) ==
  LET offset == IF spec # <<>> /\ spec[1] \in {"+", "-"} THEN Evaluate(spec).n ELSE 0
      fmt == IF spec # <<>> /\ spec[1] \in {"+", "-"} THEN From(spec, Until(spec, 1, {":"}) + 1) ELSE spec
      numeric == ToSet(fmt) \intersect {"u", "x", "d", "f"} # {}
      n == Evaluate(Lookup(ps, key))
  IN  IF ~numeric THEN Lookup(ps, key)
      ELSE IF n.found THEN <<ToString(n.n + offset)>> ELSE <<>>

\* What the text between the braces stands for.
Value(ps, arg) ==
  LET colon == Until(arg, 1, {":"})
      mark == Until(arg, 1, {"?"})
      key == SubSeq(arg, 1, Min({colon, mark}) - 1)
  IN  IF colon > Len(arg) THEN Lookup(ps, key)
      ELSE IF mark < colon THEN Chosen(ps, key, SubSeq(arg, mark + 1, colon - 1), From(arg, colon + 1))
      ELSE Formatted(ps, key, From(arg, colon + 1))

Key(arg) == SubSeq(arg, 1, Until(arg, 1, {":", "?"}) - 1)

\* Mutation: the search goes on at the start of the value.
RECURSIVE MessageRescans(_, _, _, _)
MessageRescans(ps, msg, p, allowempty) ==
  LET open == Until(msg, p, {"{"})
      close == IF open > Len(msg) THEN open ELSE Until(msg, open, {"}"})
      arg == SubSeq(msg, open + 1, close - 1)
      known == allowempty \/ Key(arg) \in DOMAIN ps
  IN  IF close > Len(msg) THEN msg
      ELSE MessageRescans(ps, SubSeq(msg, 1, open - 1) \o (IF known THEN Value(ps, arg) ELSE SubSeq(msg, open, close))
                                \o From(msg, close + 1),
                          IF known THEN open ELSE close + 1, allowempty)

\* GenerateMessage() from position p on: the search goes on behind the value,
\* or behind the braces of an unknown key.
RECURSIVE MessageFrom(_, _, _, _)
MessageFrom(ps, msg, p, allowempty) ==
  LET open == Until(msg, p, {"{"})
      close == IF open > Len(msg) THEN open ELSE Until(msg, open, {"}"})
      arg == SubSeq(msg, open + 1, close - 1)
      val == IF allowempty \/ Key(arg) \in DOMAIN ps THEN Value(ps, arg) ELSE SubSeq(msg, open, close)
  IN  IF close > Len(msg) THEN msg
      ELSE MessageFrom(ps, SubSeq(msg, 1, open - 1) \o val \o From(msg, close + 1),
                       open + Len(val), allowempty)

GenerateMessage(ps, format, allowempty) == MessageFrom(ps, format, 1, allowempty)

-----------------------------------------------------------------------------
(* SystemParameters::ReadFromFile().                                       *)

Trim(s) == TrimLeft(TrimRight(s))

\* A line sets one parameter, or none: a comment is cut, quotes around the
\* value are taken off.
ParseLine(line) ==
  LET code == SubSeq(line, 1, Until(line, 1, {";"}) - 1)
      p == Until(code, 1, {"="})
      val == Trim(From(code, p + 1))
      quoted == Len(val) >= 2 /\ val[1] \in Quotes /\ Last(val) = val[1]
  IN  IF p > Len(code) THEN <<>>
      ELSE Trim(SubSeq(code, 1, p - 1)) :> (IF quoted THEN SubSeq(val, 2, Len(val) - 1) ELSE val)

MaxLine == 1023

\* A later line replaces an earlier one.
ReadFromFile(ps, file) == FoldLeft(LAMBDA acc, line : ParseLine(line) @@ acc, ps, LinesFrom(file, 1, MaxLine))

\* The constructor: /etc, home and current directory in this order, then the
\* environment, then the default.
Construct(files, environment, name, default) ==
  LET read == FoldLeft(ReadFromFile, <<>>, files)
  IN  IF environment # <<>> THEN (name :> environment[1]) @@ read
      ELSE IF name \in DOMAIN read THEN read
      ELSE (name :> default) @@ read

-----------------------------------------------------------------------------
(* Laws.                                                                   *)

\* The pieces of a format: references, from a { to the next }, and the text
\* around them.
References(s) ==
  {<<a, b>> \in (DOMAIN s) \X (DOMAIN s) :
     s[a] = "{" /\ b = Until(s, a, {"}"})
       /\ \A c \in 1 .. a - 1 : s[c] = "{" => Until(s, c, {"}"}) < a}

InReference(s, i) == \E <<a, b>> \in References(s) : a <= i /\ i <= b

\* Each reference of the format becomes its own value, all else stays: what a
\* value holds, braces for example, is never read again.
MessageIsPiecewise(ps, format, allowempty) ==
  GenerateMessage(ps, format, allowempty) =
    FlattenSeq([i \in DOMAIN format |->
      IF ~InReference(format, i) THEN <<format[i]>>
      ELSE LET ref == CHOOSE r \in References(format) : r[1] <= i /\ i <= r[2]
               arg == SubSeq(format, ref[1] + 1, ref[2] - 1)
           IN  IF allowempty \/ Key(arg) \in DOMAIN ps
                 THEN IF i = ref[1] THEN Value(ps, arg) ELSE <<>>
                 ELSE <<format[i]>>])

\* A parameter written to a line is read back, quotes keep its blanks, and of
\* the places it may come from the last in the order of the constructor wins.
\* No value with a ';' can be written.
ConfigurationLaw(name, val, old, environment, default) ==
  LET line(v) == name \o <<"=">> \o v
      quote == CHOOSE c \in Quotes : TRUE
      quoted == <<quote>> \o val \o <<quote>>
      has(v, c) == \E i \in DOMAIN v : v[i] = c
  IN  /\ IF has(val, ";") THEN ~has(ParseLine(line(quoted))[name], ";")
                           ELSE ParseLine(line(quoted)) = (name :> val)
      /\ Construct(<<line(old), line(quoted) \o <<Newline>>, <<>>>>, environment, name, default)[name] =
           IF environment # <<>> THEN environment[1] ELSE ParseLine(line(quoted))[name]
      /\ Construct(<<line(old), <<>>, <<>>>>, <<>>, name, default) = ParseLine(line(old))
      /\ Construct(<<<<>>, <<>>, <<>>>>, <<>>, name, default)[name] = default

=============================================================================
