------------------------- MODULE SystemParameters -------------------------
(***************************************************************************)
(* SystemParameters (SystemParameters.cpp): parameters whose values refer  *)
(* to other parameters as {name}.  Substitute() replaces the references in *)
(* a string and SubstitutePathList() those in a ';' separated list of      *)
(* paths, one round of a loop after the other, with the lock held, so a    *)
(* call is modelled alone.                                                 *)
(*                                                                         *)
(* {env:x}, the environment variable x, is the name of a reference like    *)
(* any other, in environment instead of parameters.                        *)
(***************************************************************************)
EXTENDS Fields, FiniteSets

CONSTANTS Names, Values, Environment,
          Texts,      \* the arguments of the calls
          MaxLength,  \* bound on the length of the result
          MaxPaths    \* bound on the number of paths

ASSUME ParametersAssumption ==
  /\ IsFiniteSet(Names) /\ IsFiniteSet(DOMAIN Environment)
  /\ Values \subseteq Seq(STRING) /\ Texts \subseteq Seq(STRING)
  /\ Environment \in [DOMAIN Environment -> Seq(STRING)]

Modes == {"blank", "keep", "paths"}

VARIABLES
  parameters, text,
  mode,      \* Substitute() with replaceunknown or without, or a path list
  res, p1,   \* Substitute(): the string so far and where the search goes on
  paths, i,  \* SubstitutePathList(): the list so far and the path looked at
  pc

locals == <<res, p1, paths, i, pc>>
vars == <<parameters, text, mode, locals>>

TypeOK ==
  /\ DOMAIN parameters \subseteq Names
  /\ \A n \in DOMAIN parameters : parameters[n] \in Values
  /\ text \in Texts /\ mode \in Modes
  /\ p1 \in 1 .. Len(res) + 1 /\ i \in 1 .. Len(paths) + 1
  /\ pc \in {"loop", "done"}

Init ==
  /\ parameters \in UNION {[known -> Values] : known \in SUBSET Names}
  /\ text \in Texts /\ mode \in Modes
  /\ res = (IF mode = "paths" THEN <<>> ELSE text) /\ p1 = 1
  /\ paths = (IF mode = "paths" THEN Split(text, ";") ELSE <<>>) /\ i = 1
  /\ pc = "loop"

-----------------------------------------------------------------------------
\* The first reference at or after p, from its { to the next }; start = 0 if
\* there is none.
Reference(s, p) ==
  LET open == Until(s, p, {"{"})
      close == IF open > Len(s) THEN open ELSE Until(s, open + 1, {"}"})
  IN  IF close > Len(s) THEN [start |-> 0, end |-> 0, name |-> <<>>]
      ELSE [start |-> open, end |-> close, name |-> SubSeq(s, open + 1, close - 1)]

\* A parameter hides the environment variable of the same name.
Known ==
  [n \in DOMAIN parameters \union DOMAIN Environment |->
     IF n \in DOMAIN parameters THEN parameters[n] ELSE Environment[n]]

Replaced(s, ref, value) == SubSeq(s, 1, ref.start - 1) \o value \o From(s, ref.end + 1)

\* Mutation: an unknown reference is searched again.
SubstituteRescans ==
  \E ref \in {Reference(res, p1)} :
      /\ mode # "paths" /\ pc = "loop" /\ Len(res) <= MaxLength
      /\ UNCHANGED <<parameters, text, mode, paths, i>>
      /\ IF ref.start = 0 THEN pc' = "done" /\ UNCHANGED <<res, p1>>
         ELSE /\ pc' = pc
              /\ p1' = ref.start
              /\ IF ref.name \in DOMAIN Known
                   THEN res' = Replaced(res, ref, Known[ref.name])
                   ELSE res' = IF mode = "blank" THEN Replaced(res, ref, <<>>) ELSE res

\* One round of the loop of Substitute().  A value is searched again.
SubstituteStep ==
  \E ref \in {Reference(res, p1)} :
      /\ mode # "paths" /\ pc = "loop" /\ Len(res) <= MaxLength
      /\ UNCHANGED <<parameters, text, mode, paths, i>>
      /\ IF ref.start = 0 THEN pc' = "done" /\ UNCHANGED <<res, p1>>
         ELSE /\ pc' = pc
              /\ IF ref.name \in DOMAIN Known
                   THEN res' = Replaced(res, ref, Known[ref.name]) /\ p1' = ref.start
                 ELSE IF mode = "blank"
                   THEN res' = Replaced(res, ref, <<>>) /\ p1' = ref.start
                   ELSE res' = res /\ p1' = ref.end + 1

\* The list a value is, split once for all.
Subpaths ==
  [v \in Values \union {Environment[n] : n \in DOMAIN Environment} |-> Split(v, ";")]

SubpathsOf(name) == IF name \in DOMAIN parameters THEN Subpaths[parameters[name]] ELSE <<>>

\* Mutation: the value is one path.
ExpandedWhole(path, ref) ==
  <<Replaced(path, ref, IF ref.name \in DOMAIN parameters THEN parameters[ref.name] ELSE <<>>)>>

\* The paths a path with a reference becomes: none if the value is empty or the
\* name unknown, which the environment is not asked for.
Expanded(path, ref) ==
  [j \in DOMAIN SubpathsOf(ref.name) |-> Replaced(path, ref, SubpathsOf(ref.name)[j])]

\* One round of the loop of SubstitutePathList(): the expansions go to the end.
PathListStep ==
  /\ mode = "paths" /\ pc = "loop"
  /\ Len(paths) <= MaxPaths /\ \A j \in DOMAIN paths : Len(paths[j]) <= MaxLength
  /\ UNCHANGED <<parameters, text, mode, p1>>
  /\ IF i > Len(paths)
       THEN pc' = "done" /\ res' = Join(paths, ";") /\ UNCHANGED <<paths, i>>
       ELSE \E ref \in {Reference(paths[i], 1)} :
                /\ UNCHANGED <<res, pc>>
                /\ IF ref.start = 0 THEN i' = i + 1 /\ UNCHANGED paths
                   ELSE /\ paths' = RemoveAt(paths, i) \o Expanded(paths[i], ref)
                        /\ UNCHANGED i

Next == SubstituteStep \/ PathListStep

\* The caller runs on.
Spec == Init /\ [][Next]_vars /\ WF_vars(Next)

-----------------------------------------------------------------------------
(* What a reference stands for, by the comments at the two functions:      *)
(* SubstitutePathList() "is similar to the above *except* that             *)
(* substitutions as assumed to be a list of paths", and unknown entries in *)
(* it "are *always* replaced by blanks".                                   *)

Braces == {"{", "}"}

\* Braces only in pairs with a name between them.
Pair(s, a, b) == s[a] = "{" /\ s[b] = "}" /\ \A k \in a + 1 .. b - 1 : s[k] \notin Braces

WellFormed(s) ==
  \A k \in DOMAIN s :
    /\ s[k] = "{" => \E b \in k + 1 .. Len(s) : Pair(s, k, b)
    /\ s[k] = "}" => \E a \in 1 .. k - 1 : Pair(s, a, k)

\* The name of the reference that begins at k.
NameAt(s, k) == SubSeq(s, k + 1, Until(s, k + 1, {"}"}) - 1)

References(s) == {NameAt(s, k) : k \in {j \in DOMAIN s : s[j] = "{"}}

\* The strings that a name which is known may be replaced by.
Alternatives ==
  [n \in DOMAIN Known |-> IF mode = "paths" THEN ToSet(Subpaths[Known[n]]) ELSE {Known[n]}]

\* They are well formed and refer only to names of a lower rank.
Grounded ==
  /\ \A n \in DOMAIN Alternatives : \A v \in Alternatives[n] : WellFormed(v)
  /\ \E rank \in [DOMAIN Alternatives -> 1 .. Cardinality(DOMAIN Alternatives)] :
       \A n \in DOMAIN Alternatives : \A v \in Alternatives[n] :
         \A m \in References(v) \intersect DOMAIN Alternatives : rank[m] < rank[n]

\* The strings made of one of each of the sets, in turn.
Cat(A, B) == UNION {{a \o b : b \in B} : a \in A}
Product(sets) ==
  LET upto[k \in 0 .. Len(sets)] == IF k = 0 THEN {<<>>} ELSE Cat(upto[k - 1], sets[k])
  IN  upto[Len(sets)]

\* The strings a reference stands for, if the names known stand for those that
\* `expansions' has: an unknown name is a blank or itself.
Meaning(how, expansions, name) ==
  IF name \in DOMAIN expansions THEN expansions[name]
  ELSE IF how = "keep" THEN {<<"{">> \o name \o <<"}">>} ELSE {<<>>}

\* A text with each reference replaced by what it stands for.
InReference(s, k) == \E a \in 1 .. k - 1 : s[a] = "{" /\ \A j \in a + 1 .. k - 1 : s[j] # "}"
Piece(how, expansions, s, k) ==
  IF s[k] = "{" THEN Meaning(how, expansions, NameAt(s, k))
  ELSE IF InReference(s, k) THEN {<<>>} ELSE {<<s[k]>>}
Filled(how, expansions, s) == Product([k \in DOMAIN s |-> Piece(how, expansions, s, k)])

\* What the names stand for, those of rank k right after k rounds.
Deeper(how, alternatives, expansions) ==
  [n \in DOMAIN alternatives |-> UNION {Filled(how, expansions, v) : v \in alternatives[n]}]
Expansions(how, alternatives) ==
  LET round[k \in 0 .. Cardinality(DOMAIN alternatives)] ==
        IF k = 0 THEN [n \in DOMAIN alternatives |-> {}] ELSE Deeper(how, alternatives, round[k - 1])
  IN  round[Cardinality(DOMAIN alternatives)]

Expanding(s) == Filled(mode, Expansions(mode, Alternatives), s)

-----------------------------------------------------------------------------
(* Properties.                                                             *)

TextPaths == ToSet(Split(text, ";"))
ListFormed == \A s \in TextPaths : WellFormed(s)
ListExpanding == UNION {Expanding(s) : s \in TextPaths}

\* Nothing in the list or in a parameter refers to anything but parameters that
\* have a path.
OnlyParameters ==
  \A s \in TextPaths \union UNION {ToSet(SubpathsOf(n)) : n \in DOMAIN parameters} :
    \A name \in References(s) : SubpathsOf(name) # <<>>

(* The result is the expansion of the text: nested references, values that *)
(* are lists, unknown names and names that hide environment variables are  *)
(* all replaced, in whatever order the loops of Substitute() and           *)
(* SubstitutePathList() come to them.  Of path lists this is said only if  *)
(* all names in them are parameters with a path: see PathsAreExpanded.     *)
ResultIsExpansion ==
  (pc = "done" /\ Grounded) =>
    IF mode = "paths" THEN (OnlyParameters /\ ListFormed) => ToSet(paths) = ListExpanding
    ELSE WellFormed(text) => {res} = Expanding(text)

(* What the comments say of any path list (SystemParameters.cpp:286-297):  *)
(* it is expanded like other strings are, paths that become empty aside.   *)
(* The code asks no environment, and drops a whole path with an unknown    *)
(* name in it, where a blank was to replace the name.                      *)
PathsAreExpanded ==
  (pc = "done" /\ mode = "paths" /\ Grounded /\ ListFormed
     /\ \A n \in DOMAIN Known : Known[n] # <<>>) =>
       ToSet(paths) \ {<<>>} = ListExpanding \ {<<>>}

(* The call returns, and gives the lock back, if no parameter refers to    *)
(* itself through others, whatever the text.  Otherwise it need not: the   *)
(* loops replace a reference by itself for ever, or by ever longer text.   *)
SubstitutionEnds == Grounded ~> pc = "done"

=============================================================================
