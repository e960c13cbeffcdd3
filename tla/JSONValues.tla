----------------------------- MODULE JSONValues -----------------------------
(***************************************************************************)
(* JSON values and their conversions to basic types (json.cpp), and the    *)
(* lists of named parameters read from and written to JSON objects         *)
(* (NamedParameter.h, NamedParameter.cpp).                                 *)
(*                                                                         *)
(* A JSON number is an integer or a real, given by its halves.  int has    *)
(* Bits bits and int64 two more, so that a value may fit the one only.     *)
(***************************************************************************)
EXTENDS Integers, Sequences, FiniteSetsExt, SequencesExt, TLC

Bits == 2

Null == [kind |-> "null"]
Boolean(b) == [kind |-> "bool", value |-> b]
Integer(n) == [kind |-> "int", halves |-> 2 * n]
Real(h) == [kind |-> "real", halves |-> h]
String(s) == [kind |-> "string", value |-> s]
Array(seq) == [kind |-> "array", elements |-> seq]
Object(f) == [kind |-> "object", members |-> f]

Members(obj) == IF obj.kind = "object" THEN obj.members ELSE <<>>
Keys(obj) == DOMAIN Members(obj)

IsNumeric(obj) == obj.kind \in {"int", "real"}

WidthOf(type) == IF type \in {"sint64", "uint64"} THEN Bits + 2 ELSE Bits
RangeOf(type) ==
  IF type \in {"uint", "uint64"} THEN 0 .. 2 ^ WidthOf(type) - 1
                                 ELSE -(2 ^ (WidthOf(type) - 1)) .. 2 ^ (WidthOf(type) - 1) - 1

\* A real is cut at the point.
Truncated(halves) == IF halves >= 0 THEN halves \div 2 ELSE -((-halves) \div 2)

\* The number a JSON value counts as: null and booleans do, strings do not.
NumberOf(obj) ==
  CASE IsNumeric(obj) -> obj.halves
    [] obj.kind = "bool" -> IF obj.value THEN 2 ELSE 0
    [] OTHER -> 0

InRangeOf(type, obj) ==
  2 * Min(RangeOf(type)) <= NumberOf(obj) /\ NumberOf(obj) <= 2 * Max(RangeOf(type))

IsConvertibleTo(type, obj) ==
  CASE obj.kind \in {"null", "bool"} -> TRUE
    [] IsNumeric(obj) -> type \in {"bool", "double"} \/ InRangeOf(type, obj)
    [] OTHER -> FALSE

NotConverted == [found |-> FALSE, thrown |-> FALSE, value |-> <<>>]
Thrown == [NotConverted EXCEPT !.thrown = TRUE]
ConvertedTo(value) == [found |-> TRUE, thrown |-> FALSE, value |-> value]

\* FromJSON() for a basic type.  Numbers outside int but inside int64 are
\* accepted for the 64 bit types; outside int64 the conversion throws, which
\* is caught for int64, and for uint64 goes on to the caller, unless the number
\* is negative, which is tested.
FromJSONTo(type, obj) ==
  CASE type = "string" -> IF obj.kind = "string" THEN ConvertedTo(obj.value) ELSE NotConverted
    [] type = "uint64" /\ NumberOf(obj) > 2 * Max(RangeOf(type)) -> Thrown
    [] ~IsConvertibleTo(type, obj) -> NotConverted
    [] type = "bool" -> ConvertedTo(NumberOf(obj) # 0)
    [] type = "double" -> ConvertedTo(NumberOf(obj))
    [] OTHER -> ConvertedTo(Truncated(NumberOf(obj)))

\* ToJSON() for a basic type.
ToJSONFrom(type, value) ==
  CASE type = "string" -> String(value)
    [] type = "bool" -> Boolean(value)
    [] type = "double" -> Real(value)
    [] OTHER -> Integer(value)

-----------------------------------------------------------------------------
(* Named parameters: a value of some type, and whether it has been set.    *)

DefaultOf(type) == CASE type = "string" -> <<>> [] type = "bool" -> FALSE [] OTHER -> 0

Unset(name, type) == [name |-> name, type |-> type, value |-> DefaultOf(type), set |-> FALSE]

\* NamedParameter::Reset(), Set(), FromJSON(): a value that does not convert
\* changes nothing.
ResetParameter(p) == Unset(p.name, p.type)
SetTo(p, value) == [p EXCEPT !.value = value, !.set = TRUE]
Read(p, obj) ==
  IF FromJSONTo(p.type, obj).found THEN SetTo(p, FromJSONTo(p.type, obj).value) ELSE p

\* Assignment and comparison of parameters of any two types: another type
\* changes nothing and is not equal; what is set is not compared.
Assigned(p, q) == IF p.type = q.type THEN [p EXCEPT !.value = q.value, !.set = q.set] ELSE p
SameParameter(p, q) == p.type = q.type /\ p.value = q.value

\* Construction from another parameter.
ConstructedFrom(name, type, q) == Assigned(Unset(name, type), q)

\* json::ToJSON(): the parameters that are set, or all of them.
ListToJSON(list, all) ==
  LET kept == {i \in DOMAIN list : all \/ list[i].set}
  IN  IF kept = {} THEN Null
      ELSE Object([k \in {list[i].name : i \in kept} |->
                     LET i == Max({j \in kept : list[j].name = k})
                     IN  ToJSONFrom(list[i].type, list[i].value)])

\* What each parameter is asked to take: the conversion of its member, if any.
Conversion(obj, p) ==
  IF p.name \in Keys(obj) THEN FromJSONTo(p.type, obj.members[p.name]) ELSE NotConverted
ReadOrReset(obj, p, reset) ==
  IF p.name \in Keys(obj) THEN Read(p, obj.members[p.name]) ELSE IF reset THEN ResetParameter(p) ELSE p
AllConvert(obj, list) ==
  \A i \in DOMAIN list : list[i].name \in Keys(obj) => Conversion(obj, list[i]).found

\* The list read up to the first parameter for which the loop is left.
ReadUntil(obj, list, reset, Leaves(_)) ==
  [i \in DOMAIN list |->
     IF \E j \in 1 .. i : Leaves(list[j]) THEN list[i] ELSE ReadOrReset(obj, list[i], reset)]

\* Mutation: the loop ends at the first member that does not convert.
ListFromJSONStops(obj, list, reset) ==
  LET Fails(p) == p.name \in Keys(obj) /\ ~Conversion(obj, p).found
      Throws(p) == Conversion(obj, p).thrown
  IN  [list |-> ReadUntil(obj, list, reset, Fails),
       success |-> AllConvert(obj, list), thrown |-> \E i \in DOMAIN list : Throws(list[i])]

\* json::FromJSON(): a member that does not convert does not stop the others,
\* one for which the conversion throws does.
ListFromJSON(obj, list, reset) ==
  LET Throws(p) == Conversion(obj, p).thrown
  IN  [list |-> ReadUntil(obj, list, reset, Throws),
       success |-> AllConvert(obj, list), thrown |-> \E i \in DOMAIN list : Throws(list[i])]

-----------------------------------------------------------------------------
(* Laws.                                                                   *)

\* A number is converted to the integer at it, towards zero, of any type that
\* has it, and an integer is not changed by way of JSON.  Others are refused:
\* the caller sees an exception in the place of it if the type is uint64 and the
\* number too large, and never else.
NumberLaw(halves) ==
  \A type \in {"sint", "uint", "sint64", "uint64"} :
    LET res == FromJSONTo(type, Real(halves))
        near == {n \in RangeOf(type) : 2 * n - halves \in -1 .. 1 /\ (2 * n - halves) * halves <= 0}
    IN  /\ res.thrown <=> type = "uint64" /\ halves > 2 * Max(RangeOf(type))
        /\ res.found <=> (halves \in 2 * Min(RangeOf(type)) .. 2 * Max(RangeOf(type)))
        /\ res.found => res.value \in near
        /\ res.found /\ halves % 2 = 0 => FromJSONTo(type, ToJSONFrom(type, res.value)).value = res.value

\* Another list with the same names and types takes over what the first one
\* wrote and, with reset, forgets all else.
ListLaw(list, other) ==
  LET res == ListFromJSON(ListToJSON(list, FALSE), other, TRUE)
  IN  /\ res.success
      /\ \A i \in DOMAIN list : IF list[i].set THEN res.list[i] = list[i]
                                               ELSE res.list[i] = Unset(list[i].name, list[i].type)

\* Without reset it keeps what it is not told, and a second reading changes
\* nothing, whether all members converted or not.  A conversion that throws
\* keeps the parameters from it on from being read, and no others.
ReadLaw(obj, list) ==
  LET once == ListFromJSON(obj, list, FALSE)
  IN  /\ ListFromJSON(obj, once.list, FALSE) = once
      /\ \A i \in DOMAIN list :
           IF Conversion(obj, list[i]).found /\ \A j \in 1 .. i - 1 : ~Conversion(obj, list[j]).thrown
             THEN once.list[i].set ELSE once.list[i] = list[i]

\* What is assigned writes the same JSON as its source, or nothing changes; a
\* copy is equal unless it is of another type, where it is not set, and then
\* JSON carries the value over if it converts.
AssignLaw(p, q) ==
  LET r == Assigned(p, q)
      copy == ConstructedFrom(p.name, p.type, q)
      via == Read(p, ToJSONFrom(q.type, q.value))
  IN  /\ IF p.type = q.type
           THEN SameParameter(r, q) /\ ListToJSON(<<r>>, FALSE) = ListToJSON(<<[q EXCEPT !.name = p.name]>>, FALSE)
           ELSE r = p /\ ~SameParameter(r, q) /\ copy = Unset(p.name, p.type)
      /\ p.type = q.type => copy = r /\ via = SetTo(r, q.value)
      /\ via.set /\ ~p.set => FromJSONTo(p.type, ToJSONFrom(q.type, q.value)).found

=============================================================================
