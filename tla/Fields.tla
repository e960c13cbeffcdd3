------------------------------- MODULE Fields -------------------------------
(***************************************************************************)
(* Strings, and the fields they are split into (misc.cpp).  A string is a  *)
(* sequence of characters (one-character TLA+ strings).  Blanks stands for *)
(* space and tab, Quotes for the two quote characters.                     *)
(***************************************************************************)
EXTENDS Integers, Sequences, SequencesExt, FiniteSetsExt

Blanks == {" "}
Quotes == {"'"}

\* First position from p on where the character is in C; Len(s) + 1 if none.
Until(s, p, C) ==
  CHOOSE i \in p .. Len(s) + 1 :
    (i > Len(s) \/ s[i] \in C) /\ \A j \in p .. i - 1 : s[j] \notin C

\* First position from p on where the character is not in C.
SkipOver(s, p, C) ==
  CHOOSE i \in p .. Len(s) + 1 :
    (i > Len(s) \/ s[i] \notin C) /\ \A j \in p .. i - 1 : s[j] \in C

TrimRight(s) == SubSeq(s, 1, Max({0} \union {i \in DOMAIN s : s[i] \notin Blanks}))
TrimLeft(s) == SubSeq(s, SkipOver(s, 1, Blanks), Len(s))

From(s, p) == SubSeq(s, p, Len(s))

-----------------------------------------------------------------------------
(* SplitString().                                                          *)

\* A field that begins with the quote at q: its text, and its delimiter.
QuotedField(s, q, delim) ==
  LET end == Until(s, q + 1, {s[q]})
  IN  [text |-> SubSeq(s, q + 1, end - 1), end |-> Until(s, end, {delim})]

PlainField(s, q, delim) ==
  LET end == Until(s, q, {delim}) IN [text |-> TrimRight(SubSeq(s, q, end - 1)), end |-> end]

FieldAt(s, q, delim) ==
  IF q <= Len(s) /\ s[q] \in Quotes THEN QuotedField(s, q, delim) ELSE PlainField(s, q, delim)

\* Where the loop goes on behind the delimiter at d.
AfterField(s, d, delim, keepempty) ==
  SkipOver(s, IF keepempty THEN Min({d, Len(s)}) + 1 ELSE SkipOver(s, d, {delim}), Blanks)

\* One round of the loop.
NextField(s, delim, keepempty, old, f) ==
  [list |-> IF keepempty \/ f.text # <<>> THEN Append(old.list, f.text) ELSE old.list,
   next |-> AfterField(s, f.end, delim, keepempty)]

\* The list, and the position where the scan stopped: where as many rounds lead
\* as there are characters, which each round gets on by.
SplitString(s, delim, keepempty, maxstrings) ==
  LET Ends(old) == old.next > Len(s) \/ (maxstrings # 0 /\ Len(old.list) >= maxstrings)
      after[k \in 0 .. Len(s)] ==
        IF k = 0 THEN {[list |-> <<>>, next |-> 1]}
        ELSE {IF Ends(old) THEN old
              ELSE NextField(s, delim, keepempty, old, FieldAt(s, SkipOver(s, old.next, Blanks), delim)) :
                old \in after[k - 1]}
  IN  CHOOSE end \in after[Len(s)] : TRUE

Split(s, delim) == SplitString(s, delim, FALSE, 0).list

Join(list, delim) ==
  IF list = <<>> THEN <<>> ELSE Tail(FlattenSeq([k \in DOMAIN list |-> <<delim>> \o list[k]]))

=============================================================================
