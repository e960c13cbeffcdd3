--------------------------- MODULE ParameterSet ---------------------------
(***************************************************************************)
(* ParameterSet (ParameterSet.cpp): named values.  The dots of a name      *)
(* split it into parts, so a name is a non-empty sequence of parts and a   *)
(* set is a function from names to values.                                 *)
(***************************************************************************)
EXTENDS Inputs, Naturals, Sequences, SequencesExt, Functions, TLC

CONSTANTS Sets, Stems      \* parameter sets, names to store them under

ASSUME SetsAssumption ==
  /\ \A ps \in Sets : DOMAIN ps \subseteq Seq(STRING) \ {<<>>} /\ ps = [n \in DOMAIN ps |-> ps[n]]
  /\ Stems \subseteq Seq(STRING) \ {<<>>}

Empty == <<>>      \* the set without a name

Exists(ps, name) == name \in DOMAIN ps

\* Raw(): the value, or a default.
Raw(ps, name, defval) == IF Exists(ps, name) THEN ps[name] ELSE defval

\* The values of f, put into g: they replace those of the same names.
Over(f, g) == [n \in DOMAIN f \union DOMAIN g |-> IF n \in DOMAIN f THEN f[n] ELSE g[n]]

\* Set(name, value).
SetValue(ps, name, val) == Over(name :> val, ps)

Delete(ps, name) == Restrict(ps, DOMAIN ps \ {name})

\* operator +=, operator -=.
Merged(ps, obj) == Over(obj, ps)
Removed(ps, obj) == Restrict(ps, DOMAIN ps \ DOMAIN obj)

ContainsSet(ps, obj) == \A name \in DOMAIN obj : Exists(ps, name) /\ ps[name] = obj[name]

\* Set(name, set): the values of the set as sub-parameters of `name'.
Prefixed(name, set) ==
  [n \in {name \o m : m \in DOMAIN set} |-> set[SubSeq(n, Len(name) + 1, Len(n))]]

SetSubParameters(ps, name, set) == Over(Prefixed(name, set), ps)

\* Names under `prefix', without it.
SubNames(ps, prefix) ==
  {SubSeq(n, Len(prefix) + 1, Len(n)) :
     n \in {m \in DOMAIN ps : IsStrictPrefix(prefix, m)}}

\* Mutation: what `into' holds already is not replaced.
GetSubParametersInserted(into, ps, prefix) ==
  Over(into, [n \in SubNames(ps, prefix) |-> ps[prefix \o n]])

\* GetSubParameters(): the sub-parameters of `prefix', on top of `into'.
GetSubParameters(into, ps, prefix) ==
  Over([n \in SubNames(ps, prefix) |-> ps[prefix \o n]], into)

HasSubParameters(ps, prefix) == SubNames(ps, prefix) # {}

SubParameters(ps, prefix) == GetSubParameters(Empty, ps, prefix)

-----------------------------------------------------------------------------
(* Laws.                                                                   *)

\* The sub-parameters stored are read back, on top of those that were there;
\* nothing else changes, and they can be merged into any set.
SubParametersLaw(ps, name, set, into) ==
  LET res == SetSubParameters(ps, name, set)
  IN  /\ SubParameters(res, name) = Merged(SubParameters(ps, name), set)
      /\ Removed(res, Prefixed(name, set)) = Removed(ps, Prefixed(name, set))
      /\ GetSubParameters(into, res, name) = Merged(into, SubParameters(res, name))

\* Merging makes a set contain the other one; removing what was merged leaves
\* what was not overwritten.
MergeLaw(ps, obj) ==
  /\ ContainsSet(Merged(ps, obj), obj)
  /\ ContainsSet(Merged(ps, obj), Removed(ps, obj))
  /\ Removed(Merged(ps, obj), obj) = Removed(ps, obj)
  /\ (ContainsSet(ps, obj) /\ ContainsSet(obj, ps)) <=> (ps = obj)
  /\ ContainsSet(ps, obj) <=> Merged(ps, obj) = ps

-----------------------------------------------------------------------------
(* The inputs, and the property.                                           *)

ParameterInput ==
  \E ps \in Sets, obj \in Sets, name \in Stems :
    input' = [kind |-> "sets", ps |-> ps, obj |-> obj, name |-> name]

ParametersSpec == NoInput /\ [][ParameterInput]_input

\* The hierarchy of a parameter set is never mixed up: sub-parameters stored
\* and merged (ParameterSet::Set(), GetSubParameters(), operators += and -=)
\* come back under their own names and disturb no other.
ParametersKeepHierarchy ==
  Is("sets") =>
    /\ SubParametersLaw(input.ps, input.name, input.obj, input.ps)
    /\ MergeLaw(input.ps, input.obj)

=============================================================================
