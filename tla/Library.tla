------------------------------ MODULE Library ------------------------------
(***************************************************************************)
(* The parts of the library that no threads share.  A behaviour takes up   *)
(* one of them: the registries and handles of Ownership, reference counts  *)
(* or a clock, step by step, or a function without a state of its own,     *)
(* with one input.  What each of the modules below says of its operators   *)
(* is an invariant of all inputs.                                          *)
(***************************************************************************)
EXTENDS Inputs, ParameterTree, Measures, StoredGeometry, Ownership, RefCount, UniversalTime,
        Numbers, Numerals, Messages, Debugging

CONSTANTS Lists,                          \* lists of names
          JSONObjects, NamedLists,        \* JSON objects, named parameters
          Texts, Patterns, Files,         \* strings
          PathLists, Names, Existing,     \* paths, file names, those that exist
          NumberFormats,                  \* arguments of StringFrom()
          Formats, MessageParameters,
          Reports, Failures,              \* what debug handlers send
          Depth                           \* parts of the longest name

libraryVars == <<input, ownershipVars, refCountVars, clockVars>>

Init == NoInput /\ OwnershipInit /\ RefCountInit /\ ClockInit

TreeInput ==
  \/ \E ps \in Sets, strings \in Lists :
       input' = [kind |-> "combination", ps |-> ps, strings |-> strings]
  \/ \E list \in NamedLists, other \in NamedLists :
       /\ DOMAIN other = DOMAIN list
       /\ \A i \in DOMAIN list : other[i].name = list[i].name /\ other[i].type = list[i].type
       /\ input' = [kind |-> "named", list |-> list, other |-> other]
  \/ \E json \in JSONObjects, list \in NamedLists :
       input' = [kind |-> "read", obj |-> json, list |-> list]
  \/ \E h \in 5 * Min(RangeOf("sint64")) .. 5 * Max(RangeOf("uint64")) :
       input' = [kind |-> "number", halves |-> h]
  \/ \E ps \in {Empty, <<"p", "angle">> :> <<120>>}, p \in Points, old \in Probes, q \in Rotations, radians, oldradians \in BOOLEAN :
       input' = [kind |-> "stored", ps |-> ps, p |-> p, old |-> old, q |-> q,
                 radians |-> radians, oldradians |-> oldradians]

StringInput ==
  \/ \E s \in Texts, n \in 0 .. 2, keep \in BOOLEAN :
       input' = [kind |-> "split", s |-> s, n |-> n, keep |-> keep]
  \/ \E pat \in Patterns, s \in Texts : input' = [kind |-> "match", pat |-> pat, s |-> s]
  \/ \E s \in Texts, search \in Texts \ {<<>>} :
       Len(search) <= 2 /\ input' = [kind |-> "replace", s |-> s, search |-> search]
  \/ \E file \in Files, n \in 2 .. 4 : input' = [kind |-> "lines", file |-> file, n |-> n]
  \/ \E filename \in Names, lists \in SeqOf(PathLists, 2), existing \in Existing :
       input' = [kind |-> "find", filename |-> filename, lists |-> lists, existing |-> existing]
  \/ \E s \in Texts, count \in 0 .. 5 : input' = [kind |-> "indent", s |-> s, count |-> count]
  \/ \E type \in NumberTypes, fmt \in NumberFormats, rest \in {<<>>, <<" ", "1">>, <<":">>} : \E val \in ValuesOf(type) :
       input' = [kind |-> "text", type |-> type, val |-> val, fmt |-> fmt, rest |-> rest]

MessageInput ==
  \/ \E ps \in MessageParameters, format \in Formats, allowempty \in BOOLEAN :
       input' = [kind |-> "message", ps |-> ps, format |-> format, allowempty |-> allowempty]
  \/ \E val \in Texts, old \in Texts, environment \in {<<>>, <<<<"e">>>>} :
       Len(old) <= 1 /\ input' = [kind |-> "configuration", val |-> val, old |-> old, environment |-> environment]
  \/ \E reports \in Reports, logging \in BOOLEAN, failure \in Failures \union {<<>>}, openable \in BOOLEAN :
       /\ ~logging => openable
       /\ openable => failure = <<>>
       /\ input' = [kind |-> "errors", reports |-> reports, logging |-> logging,
                    openable |-> openable, failure |-> failure]

\* A first input, of any kind.
Function ==
  /\ Is("none")
  /\ \/ ParameterInput
     \/ TreeInput
     \/ StringInput
     \/ MessageInput
     \/ NumberInput
     \/ GeometryInput
  /\ UNCHANGED <<ownershipVars, refCountVars, clockVars>>

Part(name) == input.kind \in {"none", name} /\ input' = [kind |-> name]

Owned ==
  /\ \/ Part("registry") /\ RegistryStep
     \/ Part("versions") /\ VersionsStep
     \/ Part("files") /\ FilesStep
     \/ Part("socket") /\ SocketStep
  /\ UNCHANGED <<refCountVars, clockVars>>

Referred == Part("references") /\ RefCountNext /\ UNCHANGED <<ownershipVars, clockVars>>

\* The time does not depend on the receivers, nor their calls on the time: the
\* clock runs without them, and a clock that shows two times calls them.
Timed ==
  /\ \/ Part("clock") /\ ClockNext /\ updatelist' = <<>>
     \/ Part("receivers") /\ ClockNext /\ time_offset' = 0 /\ time_numerator' <= 1 /\ time_denominator' = 1
  /\ UNCHANGED <<ownershipVars, refCountVars>>

Next ==
  \/ Function
  \/ Owned
  \/ Referred
  \/ Timed

Spec == Init /\ [][Next]_libraryVars

-----------------------------------------------------------------------------
(* Properties.                                                             *)

\* FindCombination() finds the first name in the order of its strings, at any
\* depth.  What goes through JSON comes back (json.cpp, NamedParameter.cpp,
\* ParameterSet::ToJSON(), FromJSON()): numbers of every width, the named
\* parameters that are set, with one that does not convert not stopping the
\* others, and every parameter that is not hidden by a stub of its name.  A
\* position read back is the one that was stored, whatever was stored there
\* before (3DPosition.cpp).
TreesAreFaithful ==
  /\ Is("combination") => FindCombinationLaw(input.ps, input.strings, Depth)
  /\ Is("number") => NumberLaw(input.halves)
  /\ Is("named") => ListLaw(input.list, input.other)
  /\ Is("read") =>
       /\ ReadLaw(input.obj, input.list)
       /\ \A i, j \in DOMAIN input.list : AssignLaw(input.list[i], input.list[j])
  /\ Is("sets") => JSONLaw(input.ps, input.name)
  /\ Is("stored") => StoredLaw(input.ps, input.p, input.old, input.q, <<"p">>, input.radians, input.oldradians)

\* The comment on FindCombination() and its example (ParameterSet.cpp:444-463):
\* where a key has a value and sub-values, it is searched below first.  The code
\* takes the value.  (Of sets without a default, like the values of the example.)
CombinationsAreDocumented ==
  (Is("combination") /\ \A n \in DOMAIN input.ps : Last(n) # "default") =>
    FindCombination(input.ps, input.strings) = DocumentedCombination(input.ps, input.strings)

\* A rotation that SetParameters() stores is the one GetFromParameters() reads,
\* whatever was stored under the name before.  The code leaves an angle that is
\* there where it is, and prefers it to the w it has stored (3DPosition.cpp:485).
StoredRotationsComeBack == Is("stored") => RotationComesBack(input.ps, <<"p">>, input.q)

\* A list is split into its fields, trimmed or between quotes, wherever the
\* scan is stopped and taken up again (SplitString(), which drops what follows
\* a closing quote); matching, replacing and reading by line lose and invent no
\* character (matchstring(), SearchAndReplace(), EnhancedFile::readline());
\* searches in lists of paths find what is there (FindFile(), FindPath(),
\* FindPathForFile()); and a number read from its text is the number that was
\* written (StringFrom(), Evaluate()), as far as the conversion is defined.
StringsAreCutCleanly ==
  /\ Is("split") =>
       /\ (\A i \in DOMAIN input.s : input.s[i] \notin Quotes) => SplitsIntoFields(input.s, ";")
       /\ input.n > 0 => SplitResumes(input.s, ";", input.keep, input.n)
       /\ \A k \in 0 .. Len(input.s) : \A quote \in Quotes \ ToSet(SubSeq(input.s, 1, k)) :
            QuotedIsKept(SubSeq(input.s, 1, k), quote, From(input.s, k + 1), ";")
  /\ Is("match") => MatchIsByLengths(input.pat, input.s)
  /\ Is("replace") => ReplaceUndone(input.s, input.search, "#")
  /\ Is("lines") => LinesAreTheFile(input.file, input.n)
  /\ Is("find") =>
       /\ PathsJoin(input.filename, input.lists, input.existing)
       /\ \A i \in DOMAIN input.lists : DirectoriesExist(input.lists[i], input.existing)
  /\ Is("indent") => IndentLaw(input.s, input.count)
  /\ Is("text") => TextLaw(input.type, input.val, input.fmt, input.rest)

\* A number is read back whatever its value.  Not a uint_t from 2^31 on, which
\* StringFrom() writes with "%u" and Evaluate() reads with "%d" (misc.cpp:787).
NumbersAreReadBack == Is("text") /\ input.fmt = <<>> => ReadBack(input.type, input.val, input.fmt, input.rest)

\* A message is made piece by piece (ParameterSet::GenerateMessage()): a value
\* that itself looks like a reference is never expanded again, and a parameter
\* in a .conf file keeps its blanks between quotes and gives way to the
\* environment only (SystemParameters::ReadFromFile()).  Debug messages reach
\* the handlers one by one, those that handlers send too, and an error in
\* opening the log is not logged into it (debug_msg(), debug_err()), if the
\* handler that is told of it sends no more than one message.
MessagesArePiecewise ==
  /\ Is("message") => MessageIsPiecewise(input.ps, input.format, input.allowempty)
  /\ Is("configuration") => ConfigurationLaw(<<"k">>, input.val, input.old, input.environment, <<"d">>)
  /\ Is("errors") => MessagesArrive(input.reports, input.logging, input.openable, input.failure)

\* "MUST NOT allow this section to be called recursively!" (misc.cpp:184).  It
\* is, by the second message of a handler that is told that the log cannot be
\* opened: the first has cleared the guard.
SectionIsNotReentered ==
  Is("errors") => ~Reported(input.reports, input.logging, input.openable, input.failure).stuck

=============================================================================
