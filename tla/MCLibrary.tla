----------------------------- MODULE MCLibrary -----------------------------
(* The inputs of Library for TLC.                                          *)
EXTENDS Library

\* Names of up to three parts, some of them stubs of others.
Pool == {<<"a">>, <<"b">>, <<"default">>, <<"a", "b">>, <<"b", "a">>, <<"a", "default">>, <<"a", "b", "a">>}

\* A parameter set with these names: the value tells the name.
SetOf(names) == [n \in names |-> n]
MCSets ==
  {SetOf(names) : names \in UNION {kSubset(k, Pool) : k \in 0 .. 3}}
    \union {<<"a">> :> <<"other">>, <<"a", "b">> :> <<"other">>}
MCStems == {<<"a">>, <<"b">>, <<"a", "b">>}
MCLists == SeqOf(MCStems, 2)
MCDepth == 3

\* One JSON value of each kind, and numbers at the ends of int and int64.
JSONValue == {Null, Boolean(TRUE), Integer(1), Integer(-2), Integer(5), Integer(-8), Real(3), Real(31), String(<<"s">>)}
MCJSONObjects ==
  {Object(f) : f \in UNION {[keys -> JSONValue] : keys \in {{}, {"p"}, {"q"}, {"p", "q"}}}}

SomeValue(type) ==
  CASE type = "string" -> <<"v">> [] type = "bool" -> TRUE [] type = "sint" -> -2 [] OTHER -> 3
NamedOf(name) ==
  UNION {{Unset(name, type), SetTo(Unset(name, type), SomeValue(type))} :
           type \in {"sint", "uint64", "sint64", "string", "bool", "double"}}
MCNamedLists == {<<p, q>> : p \in NamedOf("p"), q \in NamedOf("q")}

\* a and b have two factories of the lower priority and one of the higher, c
\* has none.  What b makes is a singleton.
MCFactories ==
  {[name |-> name, priority |-> p[1], singleton |-> name = "b", type |-> p[2]] :
     name \in {"a", "b"}, p \in {<<0, 1>>, <<0, 2>>, <<1, 1>>}}
RequestOf(name, id, valid, accepted) == [name |-> name, id |-> id, valid |-> valid, accepted |-> accepted]
MCRequests ==
  {RequestOf("a", "", v, c) : v, c \in BOOLEAN} \union {RequestOf("b", id, TRUE, TRUE) : id \in {"", "i", "j"}}
    \union {RequestOf("c", "", TRUE, TRUE)}
MCEntries == [name : {"l", "m"}, version : {"", "1", "2"}]

MCTexts == SeqOf({"a", ";", " ", "'"}, 4)
MCPatterns == SeqOf({"a", ";", "*", "?"}, 3)
MCFiles == SeqOf({"a", Newline, CarriageReturn}, 5)

MCBuffers == BoundedSeq(1 .. 3, 5)

MCPathLists == {<<"p">>, <<"p", ";", "q", Slash>>, <<"q", Slash, ";", " ", "p">>, <<Slash, "q", ";", "p">>}
MCNames == {<<>>, <<"a">>, <<"b", ";", "a">>, <<Slash, "a">>}
MCExisting ==
  SUBSET {<<"a">>, <<"p", Slash, "a">>, <<"q", Slash, "b">>, <<Slash, "a">>, <<"p">>, <<Slash, "q">>}

MCNumberFormats == {<<>>, <<"x">>, <<"0", "4", "x">>, <<"0", "4">>, <<"3">>, <<"%", "5", "x">>, <<"%", "5", "l", "l", "x">>}

\* References to a parameter with a value, without, and pieces of them.
Pieces == {<<"{", "k", "}">>, <<"{", "k", "?", "y", ":", "j", "}">>, <<"{", "k", ":", "+", "1", ":", "%", "u", "}">>,
           <<"{", "z", "}">>, <<"{">>, <<"}">>, <<"j">>}
MCFormats == {FlattenSeq(s) : s \in SeqOf(Pieces, 3)}
MCMessageParameters ==
  {(<<"k">> :> val) @@ (<<"j">> :> <<"1">>) :
     val \in {<<>>, <<"0">>, <<"2">>, <<"true">>, <<"{", "j", "}">>, <<"{">>, <<"}">>}}
  \union {<<>>}

\* Debug messages whose handlers send others, one of them a new handler.
Report(kind, sends) == [kind |-> kind, sends |-> sends]
Leaves == {Report(kind, <<>>) : kind \in {"err", "stream", "handler"}}
MCReports ==
  SeqOf({Report(kind, sends) : kind \in {"err", "stream", "msg"}, sends \in SeqOf(Leaves, 2)}
          \union {Report("handler", <<>>), Report("err", <<Report("err", <<Report("err", <<>>)>>)>>)}, 2)
MCFailures == SeqOf({Report("err", <<>>), Report("err", <<Report("err", <<>>)>>), Report("msg", <<>>)}, 2)

MCPoints ==
  {Cartesian(x, y, z) : x, y, z \in {-1, 0, 2}}
    \union {PolarAt(az, el, d) : az \in {-3, -2, 0, 1, 2}, el \in -2 .. 1, d \in 0 .. 1}
MCProbes == {Cartesian(1, 2, 3), PolarAt(1, 0, 2), PolarAt(2, -1, 1)}
MCRotations ==
  {Identity, Opposite(Identity), Quat(0, 2, 0, 0), Quat(0, 0, 2, 0), Quat(0, 0, 0, -2),
   Quat(1, 1, 1, 1), Quat(1, -1, 1, 1), Quat(-1, 1, 1, -1)}
MCTransforms ==
  {Transform(pre, q, post) : pre \in {Origin, Cartesian(1, -1, 2)}, post \in {Origin, Cartesian(0, 0, 2)},
                             q \in {Identity, Quat(0, 0, 2, 0), Quat(1, 1, 1, 1), Quat(1, -1, 1, 1)}}
MCScreens == [cx : {0, 1}, cy : {0}, sx : {1, -2}, sy : {2}, dist : {0, 1, 2, 4}]

=============================================================================
