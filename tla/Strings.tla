------------------------------ MODULE Strings ------------------------------
(***************************************************************************)
(* The string and path functions of misc.cpp and EnhancedFile.cpp.         *)
(*                                                                         *)
(* Only evaluated: no theorem is stated about the recursive operators.     *)
(***************************************************************************)
EXTENDS Fields

Slash == "/"
Backslash == "\\"
Newline == "n"         \* '\n'
CarriageReturn == "r"  \* '\r'

-----------------------------------------------------------------------------
(* matchstring() and SearchAndReplace().                                   *)

\* Mutation: an empty string matches a final '*'.
RECURSIVE MatchesEmptyStar(_, _)
MatchesEmptyStar(pat, str) ==
  IF pat = <<>> \/ str = <<>> THEN str = <<>> /\ pat \in {<<>>, <<"*">>}
  ELSE IF Head(pat) = "*"
    THEN MatchesEmptyStar(pat, Tail(str)) \/ MatchesEmptyStar(Tail(pat), Tail(str))
    ELSE Head(pat) \in {"?", Head(str)} /\ MatchesEmptyStar(Tail(pat), Tail(str))

RECURSIVE MatchString(_, _)
MatchString(pat, str) ==
  IF pat = <<>> \/ str = <<>> THEN pat = str
  ELSE IF Head(pat) = "*"
    THEN MatchString(pat, Tail(str)) \/ MatchString(Tail(pat), Tail(str))
    ELSE Head(pat) \in {"?", Head(str)} /\ MatchString(Tail(pat), Tail(str))

\* Positions from p on where `search' occurs in s.
Occurrences(s, search, p) ==
  {i \in p .. Len(s) - Len(search) + 1 : SubSeq(s, i, i + Len(search) - 1) = search}

\* The search goes on behind the replacement.  An empty `search' never ends.
RECURSIVE ReplaceFrom(_, _, _, _)
ReplaceFrom(s, search, replace, p) ==
  LET hits == Occurrences(s, search, p)
      at == Min(hits)
  IN  IF hits = {} THEN s
      ELSE ReplaceFrom(SubSeq(s, 1, at - 1) \o replace \o From(s, at + Len(search)),
                       search, replace, at + Len(replace))

SearchAndReplace(s, search, replace) == ReplaceFrom(s, search, replace, 1)

-----------------------------------------------------------------------------
(* Files.  `files' is the set of file names that exist, `dirs' that of     *)
(* directories.                                                            *)

\* EnhancedFile::catpath().
CatPath(dir1, dir2) ==
  IF dir2 # <<>> /\ Head(dir2) = Slash THEN dir2
  ELSE IF dir1 # <<>> /\ dir2 # <<>> /\ Last(dir1) # Slash THEN dir1 \o <<Slash>> \o dir2
  ELSE dir1 \o dir2

\* The first of the list that is in `good', or nothing.
FirstOf(list, good) ==
  LET hit == SelectInSeq(list, LAMBDA x : x \in good) IN IF hit = 0 THEN <<>> ELSE list[hit]

\* The arguments of the searches are what SubstitutePathList() made of them.

\* FindFile() with a list of paths: the current directory comes first, and
\* each path is tried with every name.
FindFile(filename, pathlist, files) ==
  LET paths == <<<<>>>> \o Split(pathlist, ";")
      names == Split(filename, ";")
      Tried(path) == [j \in DOMAIN names |-> CatPath(path, names[j])]
      all == FlattenSeq([i \in DOMAIN paths |-> Tried(paths[i])])
  IN  IF filename = <<>> THEN <<>> ELSE FirstOf(all, files)

\* FindFile() with an array of such lists: the first that gives a file.
FindFileInLists(filename, pathlists, files) ==
  LET found == [i \in DOMAIN pathlists |-> FindFile(filename, pathlists[i], files)]
  IN  FirstOf(found, ToSet(found) \ {<<>>})

FindPath(pathlist, dirs) == FirstOf(Split(pathlist, ";"), dirs)

\* The position of the last slash of a name, 0 if none.
LastSlash(name) == SelectLastInSeq(name, LAMBDA c : c = Slash)

\* FindPathForFile(): a name whose directory exists, or that has none.  Its
\* slashes are turned one name at a time, which gives the same names.
FindPathForFile(filename, dirs) ==
  LET names == Split(SearchAndReplace(filename, <<Backslash>>, <<Slash>>), ";")
      Fits(name) == LastSlash(name) = 0 \/ SubSeq(name, 1, LastSlash(name) - 1) \in dirs \ {<<>>}
  IN  FirstOf(names, {name \in ToSet(names) : Fits(name)})

\* EnhancedFile::readline() from position p of a file: the line, -1 in
\* `length' at the end of the file, and the position reached.  maxlen - 1
\* wraps when maxlen is 0.
ReadLine(file, p, maxlen) ==
  LET end == Until(file, p, {Newline})
      kept == SelectSeq(SubSeq(file, p, end - 1), LAMBDA c : c # CarriageReturn)
      line == IF maxlen = 0 THEN kept ELSE SubSeq(kept, 1, Min({Len(kept), maxlen - 1}))
      eof == line = <<>> /\ end > Len(file)
  IN  [line |-> line, length |-> IF eof THEN -1 ELSE Len(line), next |-> Min({end, Len(file)}) + 1]

\* The lines a caller reads until readline() returns EOF.
RECURSIVE LinesFrom(_, _, _)
LinesFrom(file, p, maxlen) ==
  LET r == ReadLine(file, p, maxlen)
  IN  IF r.length = -1 THEN <<>> ELSE <<r.line>> \o LinesFrom(file, r.next, maxlen)

-----------------------------------------------------------------------------
(* References.                                                             *)

\* The parts of s between the delimiters.
Fields(s, delim) ==
  LET cuts == {0, Len(s) + 1} \union {i \in DOMAIN s : s[i] = delim}
      seq == SetToSortSeq(cuts, <)
  IN  [i \in 1 .. Len(seq) - 1 |-> SubSeq(s, seq[i] + 1, seq[i + 1] - 1)]

Trimmed(list) == [i \in DOMAIN list |-> TrimLeft(TrimRight(list[i]))]

\* Without quotes the list is the trimmed fields: the ones that are not
\* empty, or, with keepempty, all but an empty one behind a delimiter at the
\* end; blanks alone are one empty field, the empty string is none.
SplitsIntoFields(s, delim) ==
  LET fields == Trimmed(Fields(s, delim))
      allButEnd == IF Last(fields) = <<>> /\ (Len(fields) > 1 \/ s = <<>>) THEN Front(fields) ELSE fields
  IN  /\ Split(s, delim) = SelectSeq(fields, LAMBDA f : f # <<>>)
      /\ SplitString(s, delim, TRUE, 0).list = allButEnd

\* A field in quotes is what is between them, delimiters and blanks included,
\* and what stands between the closing quote and the delimiter is dropped.
QuotedIsKept(text, quote, rest, delim) ==
  Split(<<quote>> \o text \o <<quote>> \o rest, delim) =
    SelectSeq(<<text>>, LAMBDA f : f # <<>>) \o Split(From(rest, Until(rest, 1, {delim})), delim)

\* A scan stopped by maxstrings can be taken up at the position returned.
SplitResumes(s, delim, keepempty, maxstrings) ==
  LET part == SplitString(s, delim, keepempty, maxstrings)
      rest == SplitString(From(s, part.next), delim, keepempty, 0)
  IN  /\ Len(part.list) <= maxstrings
      /\ part.list \o rest.list = SplitString(s, delim, keepempty, 0).list

\* '*' stands for one or more characters, '?' for one, others for themselves.
MatchIsByLengths(pat, str) ==
  MatchString(pat, str) <=>
    \E len \in [DOMAIN pat -> DOMAIN str] :
      LET at == [i \in 0 .. Len(pat) |-> FoldLeftDomain(LAMBDA sum, j : IF j <= i THEN sum + len[j] ELSE sum, 0, pat)]
      IN  /\ at[Len(pat)] = Len(str)
          /\ \A i \in DOMAIN pat : pat[i] # "*" => len[i] = 1 /\ pat[i] \in {"?", str[at[i]]}

\* With a fresh character as the replacement nothing is left to replace, and
\* it can be undone.
ReplaceUndone(s, search, fresh) ==
  LET res == SearchAndReplace(s, search, <<fresh>>)
  IN  /\ Occurrences(res, search, 1) = {}
      /\ SearchAndReplace(res, <<fresh>>, search) = s

\* Reading by line loses the returns and what does not fit, and nothing else:
\* the last line counts unless it is empty.
LinesAreTheFile(file, maxlen) ==
  LET Kept(line) == SelectSeq(line, LAMBDA c : c # CarriageReturn)
      Cut(line) == SubSeq(line, 1, Min({Len(line), maxlen - 1}))
      CutLines(list) == [i \in DOMAIN list |-> Cut(Kept(list[i]))]
      fields == CutLines(Fields(file, Newline))
  IN  LinesFrom(file, 1, maxlen) = IF Last(fields) = <<>> THEN Front(fields) ELSE fields

\* Looking through several lists of paths is looking through one list that
\* holds them all, and what is found exists.
PathsJoin(filename, pathlists, files) ==
  LET hit == FindFileInLists(filename, pathlists, files)
  IN  /\ hit = IF pathlists = <<>> THEN <<>> ELSE FindFile(filename, Join(pathlists, ";"), files)
      /\ hit # <<>> => hit \in files /\ FindFile(hit, <<>>, files) = hit

\* A path found is a directory; a name found is found again, whichever slashes
\* it has.
DirectoriesExist(names, dirs) ==
  LET path == FindPath(names, dirs)
      name == FindPathForFile(names, dirs)
      back == SearchAndReplace(name, <<Slash>>, <<Backslash>>)
  IN  /\ path # <<>> => path \in dirs /\ FindPathForFile(CatPath(path, <<"a">>), dirs) = CatPath(path, <<"a">>)
      /\ FindPathForFile(name, dirs) = name /\ FindPathForFile(back, dirs) = name

=============================================================================
