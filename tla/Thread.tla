------------------------------- MODULE Thread -------------------------------
(***************************************************************************)
(* Thread (Thread.cpp): the object that starts, stops and aborts one       *)
(* thread, in the build that uses pthreads, where the thread enters        *)
(* through RunEx(), and in the default build, where std::thread calls      *)
(* Run() itself.                                                           *)
(*                                                                         *)
(* One thread, the owner, constructs the object, calls it and destroys it. *)
(* The body is the thread it starts: a derived class's Run(), or the       *)
(* callback that Thread::Run() calls.  Either may return at any time and   *)
(* does so once it is asked to stop.                                       *)
(***************************************************************************)
EXTENDS Integers

CONSTANTS Builds,     \* the builds considered: is USE_PTHREADS defined?
          Callbacks, NoCall,
          MaxStarts   \* bound on the threads started in a behaviour

ASSUME BuildsAssumption == Builds \subseteq BOOLEAN
ASSUME CallbacksAssumption == NoCall \notin Callbacks
ASSUME MaxStartsAssumption == MaxStarts \in Nat

VARIABLES
  UsePthreads,      \* the build
  overrides,        \* the class of the object has a Run() of its own
  running,          \* IsRunning(): the handle can be joined
  call,             \* the callback
  stopthread, abortthread, threadcompleted, threadfinished,
  object,           \* how much of the object exists
  opc, wait,        \* the owner: next step, and the parameter of Stop()
  bpc,              \* the body: next step
  ran,              \* the Run() the body has entered
  starts, bodies,   \* threads started so far, and not joined yet
  aborted,          \* Abort() was called while the body was inside Run()
  asked             \* the callback the body was started for

flags == <<stopthread, abortthread, threadcompleted, threadfinished>>
class == <<UsePthreads, overrides>>
history == <<starts, bodies, aborted, asked>>
vars == <<class, running, call, flags, object, opc, wait, bpc, ran, history>>

TypeOK ==
  /\ class \in BOOLEAN \X BOOLEAN
  /\ running \in BOOLEAN
  /\ call \in Callbacks \union {NoCall}
  /\ flags \in BOOLEAN \X BOOLEAN \X BOOLEAN \X BOOLEAN
  /\ object \in {"base", "complete", "destroyed", "gone"}
  /\ opc \in {"ctor", "derive", "idle", "abort", "stop", "join", "end"}
  /\ wait \in BOOLEAN
  /\ bpc \in {"none", "entry", "run", "decide", "complete", "finish", "exited"}
  /\ ran \in {"none", "Thread", "callback", "derived"}
  /\ starts \in 0 .. MaxStarts
  /\ bodies \in 0 .. MaxStarts
  /\ aborted \in BOOLEAN
  /\ asked \in Callbacks \union {NoCall}

\* The constructor of the base class is running: as Thread(false), or as one
\* that starts the thread.
Init ==
  /\ UsePthreads \in Builds /\ overrides \in BOOLEAN
  /\ call = NoCall
  /\ running = FALSE
  /\ stopthread = FALSE /\ abortthread = FALSE
  /\ threadcompleted = FALSE /\ threadfinished = FALSE
  /\ object = "base"
  /\ opc \in {"ctor", "derive"}
  /\ wait = TRUE
  /\ bpc = "none"
  /\ ran = "none"
  /\ starts = 0 /\ bodies = 0
  /\ aborted = FALSE /\ asked = NoCall

-----------------------------------------------------------------------------
(* Starting.                                                               *)

NewBody(c) ==
  /\ running' = TRUE
  /\ bpc' = "entry"
  /\ ran' = "none"
  /\ starts' = starts + 1
  /\ bodies' = bodies + 1
  /\ aborted' = FALSE
  /\ asked' = c

\* Mutation: leaves the flags of the previous thread alone.
StartThreadStaleFlags(c) ==
  /\ ~running
  /\ starts < MaxStarts
  /\ call' = c
  /\ NewBody(c)
  /\ UNCHANGED flags

\* Start() with the callback c: does nothing while a thread is running;
\* creation may fail.
StartThread(c) ==
  /\ ~running
  /\ starts < MaxStarts
  /\ call' = c
  /\ stopthread' = FALSE /\ abortthread' = FALSE
  /\ threadcompleted' = FALSE /\ threadfinished' = FALSE
  /\ NewBody(c) \/ UNCHANGED <<running, bpc, ran, history>>

\* Thread(true) and Thread(c) start the thread from the base-class constructor.
CtorStart(c) ==
  /\ opc = "ctor"
  /\ StartThread(c)
  /\ opc' = "derive"
  /\ UNCHANGED <<class, object, wait>>

\* The derived class's constructor completes the object.
Derive ==
  /\ opc = "derive"
  /\ object' = "complete"
  /\ opc' = "idle"
  /\ UNCHANGED <<class, running, call, flags, wait, bpc, ran, history>>

\* Mutation: Start(c) stores the callback before it tests IsRunning().
StartAlwaysStores(c) ==
  /\ opc = "idle"
  /\ StartThread(c) \/ (running /\ call' = c /\ UNCHANGED <<running, flags, bpc, ran, history>>)
  /\ UNCHANGED <<class, object, opc, wait>>

\* Start(c), and Start() with the callback there is.
Start(c) ==
  /\ opc = "idle"
  /\ StartThread(c)
  /\ UNCHANGED <<class, object, opc, wait>>

\* Assignment, which the copy constructor ends with, of an object with
\* callback c.  Contract (assert): neither is running.
Assign(c) ==
  /\ opc = "idle"
  /\ ~running
  /\ call' = c
  /\ stopthread' = FALSE /\ abortthread' = FALSE
  /\ threadcompleted' = FALSE /\ threadfinished' = FALSE
  /\ UNCHANGED <<class, running, object, opc, wait, bpc, ran, history>>

-----------------------------------------------------------------------------
(* Stopping.                                                               *)

\* Mutation: waits without asking the thread to stop.
StopWithoutRequest(w) ==
  /\ opc = "idle"
  /\ running
  /\ wait' = w
  /\ opc' = "stop"
  /\ UNCHANGED <<class, running, call, flags, object, bpc, ran, history>>

\* Stop(w) of a running thread asks it to stop ...
Stop(w) ==
  /\ opc = "idle"
  /\ running
  /\ stopthread' = TRUE
  /\ wait' = w
  /\ opc' = "stop"
  /\ UNCHANGED <<class, running, call, abortthread, threadcompleted, threadfinished, object, bpc, ran, history>>

\* Mutation: a caller that does not wait gives up the handle.
StopTestDetaches ==
  /\ opc = "stop"
  /\ wait' = (wait \/ threadfinished)
  /\ running' = wait'
  /\ opc' = IF wait' THEN "join" ELSE "idle"
  /\ UNCHANGED <<class, call, flags, object, bpc, ran, history>>

\* Mutation: the request is withdrawn when the caller does not wait.
StopTestWithdraws ==
  /\ opc = "stop"
  /\ wait' = (wait \/ threadfinished)
  /\ stopthread' = wait'
  /\ opc' = IF wait' THEN "join" ELSE "idle"
  /\ UNCHANGED <<class, running, call, abortthread, threadcompleted, threadfinished, object, bpc, ran, history>>

\* Mutation: a finished thread is not joined unless the caller waits.
StopTestNoForce ==
  /\ opc = "stop"
  /\ opc' = IF wait THEN "join" ELSE "idle"
  /\ UNCHANGED <<class, running, call, flags, object, wait, bpc, ran, history>>

\* ... and waits if told to or if it has finished.
StopTest ==
  /\ opc = "stop"
  /\ wait' = (wait \/ threadfinished)
  /\ opc' = IF wait' THEN "join" ELSE "idle"
  /\ UNCHANGED <<class, running, call, flags, object, bpc, ran, history>>

Join ==
  /\ opc = "join"
  /\ bpc = "exited"
  /\ running' = FALSE
  /\ stopthread' = FALSE /\ abortthread' = FALSE
  /\ bpc' = "none"
  /\ bodies' = bodies - 1
  /\ object' = IF object = "destroyed" THEN "gone" ELSE object
  /\ opc' = IF object = "destroyed" THEN "end" ELSE "idle"
  /\ UNCHANGED <<class, call, threadcompleted, threadfinished, wait, ran, starts, aborted, asked>>

\* Abort(w): abortthread = stopthread = true stores the two in this order ...
Abort(w) ==
  /\ opc = "idle"
  /\ running
  /\ stopthread' = TRUE
  /\ wait' = w
  /\ aborted' = (aborted \/ bpc = "run")
  /\ opc' = "abort"
  /\ UNCHANGED <<class, running, call, abortthread, threadcompleted, threadfinished, object, bpc, ran, starts, bodies, asked>>

\* ... and then calls Stop(w).
AbortStop ==
  /\ opc = "abort"
  /\ abortthread' = TRUE
  /\ opc' = "stop"
  /\ UNCHANGED <<class, running, call, stopthread, threadcompleted, threadfinished, object, wait, bpc, ran, history>>

\* The derived part is destroyed first; then ~Thread() stops the thread.
Destroy ==
  /\ opc = "idle"
  /\ IF running
       THEN /\ object' = "destroyed"
            /\ stopthread' = TRUE
            /\ wait' = TRUE
            /\ opc' = "stop"
       ELSE /\ object' = "gone"
            /\ opc' = "end"
            /\ UNCHANGED <<stopthread, wait>>
  /\ UNCHANGED <<class, running, call, abortthread, threadcompleted, threadfinished, bpc, ran, history>>

-----------------------------------------------------------------------------
(* The body.                                                               *)

\* After Run() comes the rest of RunEx(), in the pthreads build only.
AfterRun == IF UsePthreads THEN "decide" ELSE "exited"

\* Run() is virtual: what it calls depends on how far construction has come.
\* Thread::Run() of an object without a callback returns at once.
Runs ==
  IF overrides /\ object = "complete" THEN "derived"
  ELSE IF call # NoCall THEN "callback" ELSE "Thread"

Enter ==
  /\ bpc = "entry"
  /\ ran' = Runs
  /\ bpc' = IF Runs = "Thread" THEN AfterRun ELSE "run"
  /\ UNCHANGED <<class, running, call, flags, object, opc, wait, history>>

RunReturns ==
  /\ bpc = "run"
  /\ bpc' = AfterRun
  /\ UNCHANGED <<class, running, call, flags, object, opc, wait, ran, history>>

\* if (!AbortRequested()) ...
Decide ==
  /\ bpc = "decide"
  /\ bpc' = IF abortthread THEN "finish" ELSE "complete"
  /\ UNCHANGED <<class, running, call, flags, object, opc, wait, ran, history>>

\* ... Complete();
Complete ==
  /\ bpc = "complete"
  /\ threadcompleted' = TRUE
  /\ bpc' = "finish"
  /\ UNCHANGED <<class, running, call, stopthread, abortthread, threadfinished, object, opc, wait, ran, history>>

Finished ==
  /\ bpc = "finish"
  /\ threadfinished' = TRUE
  /\ bpc' = "exited"
  /\ UNCHANGED <<class, running, call, stopthread, abortthread, threadcompleted, object, opc, wait, ran, history>>

-----------------------------------------------------------------------------
OwnerCalls ==
  \/ \E c \in Callbacks \union {NoCall} : Start(c) \/ Assign(c)
  \/ \E w \in BOOLEAN : Stop(w) \/ Abort(w)
  \/ Destroy
OwnerSteps == (\E c \in Callbacks \union {NoCall} : CtorStart(c)) \/ Derive \/ StopTest \/ Join \/ AbortStop
BodySteps == Enter \/ RunReturns \/ Decide \/ Complete \/ Finished

Next == OwnerCalls \/ OwnerSteps \/ BodySteps

Spec == Init /\ [][Next]_vars

(* Both threads are scheduled, and Run() polls StopRequested(): it returns  *)
(* once it is asked to, and otherwise when it likes.                        *)
FairSpec ==
  /\ Spec
  /\ WF_vars(OwnerSteps)
  /\ WF_vars(Enter \/ Decide \/ Complete \/ Finished)
  /\ WF_vars(RunReturns /\ stopthread)

-----------------------------------------------------------------------------
(* Safety.                                                                 *)

(* The handle stands for exactly the one body that is not joined: Start()  *)
(* never runs a second body beside it, no body is left without handle, and *)
(* the body finds the callback it was started for.                         *)
OneBody ==
  /\ bodies = (IF running THEN 1 ELSE 0)
  /\ running <=> bpc # "none"
  /\ bpc = "entry" => call = asked

(* HasCompleted() and HasFinished() speak of the thread that was started   *)
(* last: neither is set while it is still inside Run().                    *)
FlagsAreOfThisRun == bpc \in {"entry", "run"} => ~threadcompleted /\ ~threadfinished

(* A request to stop is not withdrawn before the body has returned.        *)
StopIsKept == [][stopthread /\ ~stopthread' => bpc = "exited"]_vars

(* A Stop() that finds the body returned joins it, even when told not to   *)
(* wait, in the build where the body ends in RunEx().                      *)
RunExIsJoined == [][UsePthreads /\ opc = "stop" /\ opc' # "stop" /\ bpc = "exited" => opc' = "join"]_vars

(* Stop() and the destructor return: the body they wait for has been asked *)
(* to stop.                                                                *)
JoinReturns == opc = "join" ~> opc \in {"idle", "end"}

-----------------------------------------------------------------------------
(* What the comments say.                                                  *)

(* "if thread has finished, force join" (Thread.cpp:181): a Stop() that     *)
(* finds the body returned joins it, even when told not to wait.            *)
FinishedIsJoined == [][opc = "stop" /\ opc' # "stop" /\ bpc = "exited" => opc' = "join"]_vars

(* "Default constructor - can start derived class thread" (Thread.h:42):    *)
(* the body runs the derived class's Run().                                 *)
DerivedRunIsEntered == overrides => ran # "Thread"

(* "if not aborted, mark as completed" (Thread.cpp:222): a body that was    *)
(* still running when Abort() was called is not marked as completed.        *)
AbortedIsNotCompleted == ~(aborted /\ threadcompleted)
=============================================================================
