--------------------------- MODULE ParameterTree ---------------------------
(***************************************************************************)
(* The operations of ParameterSet that go down the hierarchy of names:     *)
(* FindCombination() and the conversions from and to JSON.                 *)
(***************************************************************************)
EXTENDS ParameterSet, JSONValues

NotFound == [found |-> FALSE, value |-> <<>>]
Found(value) == [found |-> TRUE, value |-> value]

Default == <<"default">>
OrDefault(ps) == IF Exists(ps, Default) THEN Found(ps[Default]) ELSE NotFound

\* Mutation: the loop goes on when a string has been found.
RECURSIVE FindCombinationLast(_, _)
FindCombinationLast(ps, strings) ==
  LET Try(i) == IF Exists(ps, strings[i]) THEN Found(ps[strings[i]])
                ELSE IF HasSubParameters(ps, strings[i])
                  THEN FindCombinationLast(SubParameters(ps, strings[i]), strings)
                ELSE NotFound
      hits == {i \in DOMAIN strings : Try(i).found}
  IN  IF hits = {} THEN OrDefault(ps) ELSE Try(Max(hits))

\* The first string, in order, that is a name or leads to one.
RECURSIVE FindCombination(_, _)
FindCombination(ps, strings) ==
  LET Try(i) == IF Exists(ps, strings[i]) THEN Found(ps[strings[i]])
                ELSE IF HasSubParameters(ps, strings[i])
                  THEN FindCombination(SubParameters(ps, strings[i]), strings)
                ELSE NotFound
      hits == {i \in DOMAIN strings : Try(i).found}
  IN  IF hits = {} THEN OrDefault(ps) ELSE Try(Min(hits))

-----------------------------------------------------------------------------
(* JSON.  The keys of a JSON object are names, too: FromJSON() accepts     *)
(* dots in them, ToJSON() makes keys of one part.                          *)

Plain(ps) == {n \in DOMAIN ps : Len(n) = 1}
Stubs(ps) == {<<n[1]>> : n \in DOMAIN ps \ Plain(ps)}

\* ToJSON() into an object: a plain value comes before the sub-parameters of
\* the same name, and a stub that is a member already is skipped.
RECURSIVE ToJSON(_, _)
ToJSON(ps, obj) ==
  IF ps = Empty THEN obj
  ELSE Object([k \in Plain(ps) \union Stubs(ps) \union Keys(obj) |->
                 IF k \in Plain(ps) THEN String(ps[k])
                 ELSE IF k \in Keys(obj) THEN obj.members[k]
                 ELSE ToJSON(SubParameters(ps, k), Null)])

\* The value a member that is no object is stored as: a string as it is, any
\* number as an unsigned or signed 64 bit integer.
Stored(obj) ==
  IF obj.kind = "string" THEN Found(obj.value)
  ELSE IF FromJSONTo("uint64", obj).found THEN Found(<<FromJSONTo("uint64", obj).value>>)
  ELSE IF FromJSONTo("sint64", obj).found THEN Found(<<FromJSONTo("sint64", obj).value>>)
  ELSE IF FromJSONTo("double", obj).found THEN Found(<<"double">>)
  ELSE NotFound

\* FromJSON() into an empty set.  Of two keys that make the same name the
\* longer one comes later.  It throws on numbers that FromJSONTo() throws on for
\* uint64; obj has none of these.
RECURSIVE FromJSON(_)
FromJSON(obj) ==
  LET made == [k \in Keys(obj) |->
                 IF obj.members[k].kind = "object" THEN Prefixed(k, FromJSON(obj.members[k]))
                 ELSE IF Stored(obj.members[k]).found THEN (k :> Stored(obj.members[k]).value)
                 ELSE Empty]
      LastKey(n) == CHOOSE k \in Keys(obj) :
                   n \in DOMAIN made[k] /\ \A j \in Keys(obj) : n \in DOMAIN made[j] => Len(j) <= Len(k)
  IN  [n \in UNION {DOMAIN made[k] : k \in Keys(obj)} |-> made[LastKey(n)][n]]

\* Get(name, JSON): the sub-parameters of `name' as a member of obj.
GetJSON(ps, name, obj) ==
  IF ~HasSubParameters(ps, name) THEN obj
  ELSE Object((name :> ToJSON(SubParameters(ps, name), IF name \in Keys(obj) THEN obj.members[name] ELSE Null))
              @@ Members(obj))

\* Set(name, JSON): the values of an array are numbered.  A member that is
\* neither an object nor an array throws, for it is obj that is read.
SetJSON(ps, name, obj) ==
  IF name \notin Keys(obj) THEN ps
  ELSE LET member == obj.members[name]
       IN  CASE member.kind = "object" -> SetSubParameters(ps, name, FromJSON(member))
             [] member.kind = "array" ->
                  SetSubParameters(ps, name, [n \in {<<i - 1>> : i \in DOMAIN member.elements} |->
                                                member.elements[n[1] + 1].value])
             [] OTHER -> ps

-----------------------------------------------------------------------------
(* Laws.                                                                   *)

\* The paths FindCombination() can take: strings, or the default at the end.
Paths(strings, depth) ==
  {p \in UNION {[1 .. d -> 1 .. Len(strings) + 1] : d \in 1 .. depth} :
     \A i \in DOMAIN p : p[i] = Len(strings) + 1 => i = Len(p)}

NameOf(p, strings) == FlattenSeq([i \in DOMAIN p |-> Append(strings, Default)[p[i]]])

Before(p, q) ==
  \/ IsStrictPrefix(p, q)
  \/ \E i \in (DOMAIN p) \intersect (DOMAIN q) :
       p[i] < q[i] /\ \A j \in 1 .. i - 1 : p[j] = q[j]

\* No name is both a parameter and a stub of others.
NoValueHasParts(ps) == \A n, m \in DOMAIN ps : ~IsStrictPrefix(m, n)

\* The value is that of the first name in the order of the paths.
FindCombinationLaw(ps, strings, depth) ==
  LET hits == {p \in Paths(strings, depth) : Exists(ps, NameOf(p, strings))}
      res == FindCombination(ps, strings)
  IN  NoValueHasParts(ps) =>
      /\ res.found <=> hits # {}
      /\ \A p \in hits : (\A q \in hits \ {p} : Before(p, q)) => res.value = ps[NameOf(p, strings)]

\* The search by the comment on FindCombination() (ParameterSet.cpp:444-448):
\* a key that is "a stub for sub-values" is searched, and its own value is for
\* when they have no result.
RECURSIVE DocumentedCombination(_, _)
DocumentedCombination(ps, strings) ==
  LET Value(name) == IF Exists(ps, name) THEN Found(ps[name]) ELSE NotFound
      Try(name) == LET sub == IF HasSubParameters(ps, name)
                                THEN DocumentedCombination(SubParameters(ps, name), strings) ELSE NotFound
                   IN  IF sub.found THEN sub ELSE Value(name)
      hits == {i \in DOMAIN strings : Try(strings[i]).found}
  IN  IF hits = {} THEN OrDefault(ps) ELSE Try(strings[Min(hits)])

\* A name is lost if one of its stubs has a value of its own.
Visible(ps) == Restrict(ps, {n \in DOMAIN ps : \A m \in DOMAIN ps : ~IsStrictPrefix(m, n)})

\* What JSON keeps of a set, as a whole or under a name.
JSONLaw(ps, name) ==
  /\ FromJSON(ToJSON(ps, Null)) = Visible(ps)
  /\ SetJSON(Empty, name, GetJSON(ps, name, Null)) = Prefixed(name, Visible(SubParameters(ps, name)))
  /\ ToJSON(ps, ToJSON(ps, Null)) = ToJSON(ps, Null)

=============================================================================
