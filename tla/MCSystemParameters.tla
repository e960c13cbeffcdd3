------------------------ MODULE MCSystemParameters ------------------------
EXTENDS SystemParameters, TLC

\* One or two references, lists, text around a reference, a lone brace.
A == <<"{", "a", "}">>
B == <<"{", "b", "}">>
MCNames == {<<"a">>, <<"b">>}
MCValues == {<<>>, <<"x">>, A, B, B \o <<"x">>, <<"x", ";">> \o B, <<"{">>}
MCEnvironment == <<"e">> :> B

\* Two tokens, or three of a smaller choice; c is unknown, e in the environment.
MCTexts ==
  {FlattenSeq(t) : t \in
     BoundedSeq({A, B, <<"{", "c", "}">>, <<"{", "e", "}">>, <<"x">>, <<";">>, <<"{">>, <<"}">>}, 2)
     \union [1 .. 3 -> {A, <<"{">>, <<"}">>}]}
=============================================================================
