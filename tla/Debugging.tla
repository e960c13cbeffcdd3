------------------------------ MODULE Debugging ------------------------------
(***************************************************************************)
(* debug_msg() and debug_err() (misc.cpp).  They hold a recursive lock, so *)
(* one thread is in them at a time, but the handler it calls may come back *)
(* to them.  A message is [kind, sends]: `sends' are the calls its handler *)
(* makes before it returns.  Kinds: "msg", "err", "stream" (debug_err() of *)
(* a StringStream) and "handler", SetErrorHandler().                       *)
(***************************************************************************)
EXTENDS Naturals, Sequences, SequencesExt

\* Messages are named by their place: the sequence of positions from the
\* outermost call on.  The report that the log cannot be opened is number 0.
Silent == [logging |-> FALSE, openable |-> TRUE, failure |-> <<>>,
           file |-> "never", stuck |-> FALSE, within |-> FALSE,
           errorhandler |-> <<>>, log |-> <<>>, told |-> <<>>]

\* The handler in place, <<>> for printf(), is called.
Tell(st, handler, place) ==
  IF st.stuck THEN st ELSE [st EXCEPT !.told = Append(@, [to |-> handler, place |-> place])]

Logged(st, place) == IF st.file = "open" THEN [st EXCEPT !.log = Append(@, place)] ELSE st

RECURSIVE Call(_, _, _)

\* What a handler sends, in turn.
Calls(st, sends, place) ==
  FoldLeft(LAMBDA acc, i : Call(acc, sends[i], Append(place, i)), st, [i \in DOMAIN sends |-> i])

\* EnhancedFile::fopen() reports a failure with debug_err().
OpenLog(st, place) ==
  IF st.openable THEN [st EXCEPT !.file = "open"]
  ELSE [Call([st EXCEPT !.file = "opening"], [kind |-> "err", sends |-> st.failure], Append(place, 0))
          EXCEPT !.file = "failed"]

\* The section that must not be entered recursively: the static file is opened
\* once, by the first message, and the message is written to it.  To come back
\* while it is being constructed is undefined: builds wait for the construction
\* to end, and never return, or throw out of all calls; here no more happens.
LogSection(st, place) ==
  IF st.file = "opening" THEN [st EXCEPT !.stuck = TRUE]
  ELSE Logged(IF st.file = "never" THEN OpenLog(st, place) ELSE st, place)

\* Mutation: the guard is not tested.
DebugErrUnguarded(st, sends, place) ==
  LET guarded == [st EXCEPT !.within = TRUE]
      logged == IF st.logging THEN LogSection(guarded, place) ELSE guarded
  IN  [Calls(Tell(logged, logged.errorhandler, place), sends, place) EXCEPT !.within = FALSE]

\* debug_err(): the guard is cleared on the way out, for outer calls too.
DebugErr(st, sends, place) ==
  LET guarded == [st EXCEPT !.within = TRUE]
      logged == IF ~st.within /\ st.logging THEN LogSection(guarded, place) ELSE guarded
  IN  [Calls(Tell(logged, logged.errorhandler, place), sends, place) EXCEPT !.within = FALSE]

Call(st, message, place) ==
  CASE st.stuck -> st
    [] message.kind = "err" -> DebugErr(st, message.sends, place)
    [] message.kind = "stream" -> Calls(Tell(st, st.errorhandler, place), message.sends, place)
    [] message.kind = "msg" -> Calls(Tell(st, <<"debug">>, place), message.sends, place)
    [] message.kind = "handler" -> [st EXCEPT !.errorhandler = place]

\* The calls of the program, with what the handler does when the log cannot be
\* opened.
Reported(messages, logging, openable, failure) ==
  Calls([Silent EXCEPT !.logging = logging, !.openable = openable, !.failure = failure], messages, <<>>)

-----------------------------------------------------------------------------
(* Laws.                                                                   *)

\* The messages below a place, in the order of their calls.
RECURSIVE Below(_, _)
Below(messages, place) ==
  FlattenSeq([i \in DOMAIN messages |->
                <<[kind |-> messages[i].kind, place |-> Append(place, i)]>>
                  \o Below(messages[i].sends, Append(place, i))])

RECURSIVE AtMostOneEach(_)
AtMostOneEach(messages) ==
  \A i \in DOMAIN messages : Len(messages[i].sends) <= 1 /\ AtMostOneEach(messages[i].sends)

\* The messages reach the handlers in the order of the calls, once each and, if
\* the calls return, all; the errors reach the one set last; what is logged was
\* told, errors of the program itself always, streams never.  The calls return
\* unless the handler that is told of the log's failure sends more than one
\* message: the first clears the guard.
MessagesArrive(messages, logging, openable, failure) ==
  LET st == Reported(messages, logging, openable, failure)
      all == Below(messages, <<>>)
      sent == SelectSeq(all, LAMBDA m : m.kind # "handler")
      told == SelectSeq(st.told, LAMBDA t : 0 \notin ToSet(t.place))
      errors == {m.place : m \in {n \in ToSet(all) : n.kind = "err"}}
      Before(place) == SelectSeq(all, LAMBDA m : m.kind = "handler" /\
                         \E i, j \in DOMAIN all : i < j /\ all[i] = m /\ all[j].place = place)
  IN  /\ IsPrefix([i \in DOMAIN told |-> told[i].place], [i \in DOMAIN sent |-> sent[i].place])
      /\ ~st.stuck => Len(told) = Len(sent) /\ ~st.within
      /\ \A i \in DOMAIN told :
           told[i].to = IF sent[i].kind = "msg" THEN <<"debug">>
                        ELSE IF Before(told[i].place) = <<>> THEN <<>>
                        ELSE Last(Before(told[i].place)).place
      /\ ToSet(st.log) \subseteq (IF logging /\ openable THEN errors ELSE {})
      /\ logging /\ openable => ~st.stuck /\ \A place \in errors : Len(place) = 1 => place \in ToSet(st.log)
      /\ \A i, j \in DOMAIN st.log : i < j => st.log[i] # st.log[j]
      /\ AtMostOneEach(<<[kind |-> "err", sends |-> failure]>>) => ~st.stuck

=============================================================================
