--------------------------- MODULE Thread_proofs ---------------------------
(***************************************************************************)
(* Safety of Thread, for both builds and any number of starts, and of      *)
(* ThreadBoolSignalObject, for any set of threads.                         *)
(***************************************************************************)
EXTENDS Thread, ThreadSignal, TLAPS

(***************************************************************************)
(* The inductive invariant: the body says where the flags stand.  Neither  *)
(* is set before its turn; when the body is behind RunEx() it is marked as *)
(* finished; and while there is no body nobody asks one to stop, nor is    *)
(* the owner in the middle of stopping it.                                 *)
(***************************************************************************)
BodyFlags ==
  /\ bpc \in {"entry", "run", "decide", "complete"} => ~threadcompleted
  /\ bpc \in {"entry", "run", "decide", "complete", "finish"} => ~threadfinished
  /\ UsePthreads /\ bpc = "exited" => threadfinished

OwnerInv ==
  /\ ~running => ~stopthread
  /\ opc \in {"abort", "stop", "join"} => running
  /\ running => starts > 0

IInv == TypeOK /\ OneBody /\ BodyFlags /\ OwnerInv

LEMMA InitIInv == Init => IInv
<1> SUFFICES ASSUME Init PROVE IInv
  OBVIOUS
<1>1. 0 \in 0 .. MaxStarts
  BY MaxStartsAssumption
<1>2. TypeOK
  BY <1>1, BuildsAssumption DEF Init, TypeOK, flags, class
<1>3. OneBody /\ BodyFlags /\ OwnerInv
  BY DEF Init, OneBody, BodyFlags, OwnerInv
<1>4. QED
  BY <1>2, <1>3 DEF IInv

\* The calls of StartThread, from the constructors and from Start().
LEMMA StartIInv ==
  ASSUME IInv, NEW c \in Callbacks \union {NoCall}, StartThread(c), UNCHANGED <<class, object, wait>>,
         opc' \in {"derive", "idle"}
  PROVE  IInv'
<1> USE DEF IInv, flags, history, class, OneBody, BodyFlags, OwnerInv
<1>1. ~running /\ bpc = "none" /\ bodies = 0 /\ starts < MaxStarts
  <2>1. ~running /\ starts < MaxStarts
    BY DEF StartThread
  <2>2. QED
    BY <2>1 DEF TypeOK
<1>2. CASE NewBody(c)
  <2> USE DEF NewBody
  <2>1. starts' \in 0 .. MaxStarts /\ bodies' \in 0 .. MaxStarts /\ bodies' = 1 /\ starts' > 0
    BY <1>1, <1>2, MaxStartsAssumption DEF TypeOK
  <2>2. TypeOK'
    BY <1>2, <2>1 DEF TypeOK, StartThread
  <2>3. OneBody' /\ BodyFlags' /\ OwnerInv'
    BY <1>2, <2>1 DEF StartThread
  <2>4. QED
    BY <2>2, <2>3
<1>3. CASE UNCHANGED <<running, bpc, ran, history>>
  <2>1. TypeOK'
    BY <1>3 DEF TypeOK, StartThread
  <2>2. OneBody' /\ BodyFlags' /\ OwnerInv'
    BY <1>1, <1>3 DEF StartThread
  <2>3. QED
    BY <2>1, <2>2
<1>4. QED
  BY <1>2, <1>3 DEF StartThread

\* Joining a body that has returned.
LEMMA JoinIInv == IInv /\ Join => IInv'
<1> SUFFICES ASSUME IInv, Join PROVE IInv'
  OBVIOUS
<1> USE DEF IInv, flags, class
<1>1. running /\ bodies = 1 /\ bodies' = 0
  <2>1. running
    BY DEF Join, OwnerInv
  <2>2. QED
    BY <2>1 DEF OneBody, Join
<1>2. TypeOK'
  <2>1. bodies' \in 0 .. MaxStarts
    BY <1>1, MaxStartsAssumption
  <2>2. QED
    BY <2>1 DEF TypeOK, Join
<1>3. OneBody' /\ BodyFlags' /\ OwnerInv'
  BY <1>1 DEF OneBody, BodyFlags, OwnerInv, Join
<1>4. QED
  BY <1>2, <1>3

LEMMA StepIInv == IInv /\ [Next]_vars => IInv'
<1> SUFFICES ASSUME IInv, [Next]_vars PROVE IInv'
  OBVIOUS
<1>1. ASSUME NEW c \in Callbacks \union {NoCall}, Start(c) PROVE IInv'
  BY <1>1, StartIInv DEF Start, IInv, TypeOK
<1>2. ASSUME NEW c \in Callbacks \union {NoCall}, CtorStart(c) PROVE IInv'
  BY <1>2, StartIInv DEF CtorStart
<1>3. CASE Join
  BY <1>3, JoinIInv
<1> USE DEF IInv, flags, history, class
<1>4. CASE Destroy
  <2>1. TypeOK'
    <3>1. stopthread' \in BOOLEAN /\ wait' \in BOOLEAN
      BY <1>4 DEF Destroy, TypeOK
    <3>2. object' \in {"destroyed", "gone"} /\ opc' \in {"stop", "end"}
      BY <1>4 DEF Destroy
    <3>3. UNCHANGED <<class, running, call, abortthread, threadcompleted, threadfinished, bpc, ran, history>>
      BY <1>4 DEF Destroy
    <3>4. (flags \in BOOLEAN \X BOOLEAN \X BOOLEAN \X BOOLEAN)'
      BY <3>1, <3>3 DEF TypeOK
    <3>5. QED
      BY <3>1, <3>2, <3>3, <3>4 DEF TypeOK
  <2>2. OneBody' /\ BodyFlags' /\ OwnerInv'
    BY <1>4 DEF Destroy, OneBody, BodyFlags, OwnerInv
  <2>3. QED
    BY <2>1, <2>2
<1>5. ASSUME NEW w \in BOOLEAN, Stop(w) \/ Abort(w) PROVE IInv'
  <2>1. TypeOK'
    BY <1>5, ZenonT(30) DEF Stop, Abort, TypeOK
  <2>2. OneBody' /\ BodyFlags' /\ OwnerInv'
    BY <1>5 DEF Stop, Abort, OneBody, BodyFlags, OwnerInv
  <2>3. QED
    BY <2>1, <2>2
<1>6. CASE Derive \/ StopTest \/ AbortStop
  <2>1. TypeOK'
    <3>1. CASE Derive
      BY <3>1 DEF Derive, TypeOK
    <3>2. CASE StopTest
      <4>1. wait' \in BOOLEAN
        BY <3>2 DEF StopTest
      <4>2. opc' \in {"join", "idle"}
        BY <3>2 DEF StopTest
      <4>3. QED
        BY <3>2, <4>1, <4>2 DEF StopTest, TypeOK
    <3>3. CASE AbortStop
      <4>1. (flags \in BOOLEAN \X BOOLEAN \X BOOLEAN \X BOOLEAN)'
        BY <3>3 DEF AbortStop, TypeOK
      <4>2. opc' = "stop"
        BY <3>3 DEF AbortStop
      <4>3. UNCHANGED <<class, running, call, object, wait, bpc, ran, history>>
        BY <3>3 DEF AbortStop
      <4>4. QED
        BY <4>1, <4>2, <4>3 DEF TypeOK
    <3>4. QED
      BY <1>6, <3>1, <3>2, <3>3
  <2>2. OneBody' /\ BodyFlags' /\ OwnerInv'
    BY <1>6 DEF Derive, StopTest, AbortStop, OneBody, BodyFlags, OwnerInv
  <2>3. QED
    BY <2>1, <2>2
<1>7. CASE BodySteps
  <2> USE DEF BodySteps, Enter, RunReturns, Decide, Complete, Finished, AfterRun, Runs
  <2>1. TypeOK'
    <3>1. bpc' \in {"run", "decide", "complete", "finish", "exited"} /\ ran' \in {"none", "Thread", "callback", "derived"}
      BY <1>7 DEF TypeOK
    <3>2. threadcompleted' \in BOOLEAN /\ threadfinished' \in BOOLEAN
      BY <1>7 DEF TypeOK
    <3>3. UNCHANGED <<class, running, call, stopthread, abortthread, object, opc, wait, history>>
      BY <1>7
    <3>4. QED
      BY <3>1, <3>2, <3>3 DEF TypeOK
  <2>2. OneBody'
    BY <1>7 DEF OneBody
  <2>3. BodyFlags' /\ OwnerInv'
    BY <1>7 DEF BodyFlags, OwnerInv
  <2>4. QED
    BY <2>1, <2>2, <2>3
<1>8. ASSUME NEW c \in Callbacks \union {NoCall}, Assign(c) PROVE IInv'
  <2>1. TypeOK'
    BY <1>8, ZenonT(30) DEF Assign, TypeOK
  <2>2. OneBody' /\ BodyFlags' /\ OwnerInv'
    BY <1>8 DEF Assign, OneBody, BodyFlags, OwnerInv
  <2>3. QED
    BY <2>1, <2>2
<1>9. CASE UNCHANGED vars
  BY <1>9 DEF vars, TypeOK, OneBody, BodyFlags, OwnerInv
<1>10. QED
  BY <1>1, <1>2, <1>3, <1>4, <1>5, <1>6, <1>7, <1>8, <1>9 DEF Next, OwnerCalls, OwnerSteps

LEMMA IInvHolds == Spec => []IInv
BY InitIInv, StepIInv, PTL DEF Spec

(* Every variable keeps its type: no step of the owner or the body goes    *)
(* astray, and no more bodies run than were started.                       *)
THEOREM TypeCorrect == Spec => []TypeOK
<1>1. IInv => TypeOK
  BY DEF IInv
<1>2. QED
  BY <1>1, IInvHolds, PTL

(* Start() never runs a second body beside the one the handle stands for,  *)
(* Stop() and the destructor leave none without a handle, and Start() and  *)
(* assignment leave alone the callback a body is about to call.            *)
THEOREM HandleIsBody == Spec => []OneBody
<1>1. IInv => OneBody
  BY DEF IInv
<1>2. QED
  BY <1>1, IInvHolds, PTL

(* The flags of a finished thread are never seen as those of the next one: *)
(* Start() has cleared them before the body runs.                          *)
THEOREM FlagsAreFresh == Spec => []FlagsAreOfThisRun
<1>1. IInv => FlagsAreOfThisRun
  BY DEF IInv, BodyFlags, FlagsAreOfThisRun
<1>2. QED
  BY <1>1, IInvHolds, PTL

(* Nobody withdraws a request to stop that the body may not have seen.     *)
THEOREM RequestsAreKept == Spec => StopIsKept
<1>1. IInv /\ [Next]_vars => [stopthread /\ ~stopthread' => bpc = "exited"]_vars
  <2> SUFFICES ASSUME IInv, Next, stopthread, ~stopthread' PROVE bpc = "exited"
    BY DEF vars, flags, history, class
  <2>1. running
    BY DEF IInv, OwnerInv
  <2>2. \A c : ~StartThread(c)
    BY <2>1 DEF StartThread
  <2>3. QED
    BY <2>1, <2>2 DEF Next, OwnerCalls, OwnerSteps, BodySteps, Start, Destroy, Assign, Stop, Abort, CtorStart,
                Derive, StopTest, Join, AbortStop, Enter, RunReturns, Decide, Complete, Finished, flags
<1>2. QED
  BY <1>1, IInvHolds, PTL DEF Spec, StopIsKept

(* With pthreads, a Stop() that comes when the body has returned joins it, *)
(* since RunEx() marks it as finished before it returns.                   *)
THEOREM FinishedBodyIsJoined == Spec => RunExIsJoined
<1>1. IInv /\ [Next]_vars =>
        [UsePthreads /\ opc = "stop" /\ opc' # "stop" /\ bpc = "exited" => opc' = "join"]_vars
  <2> SUFFICES ASSUME IInv, Next, UsePthreads, opc = "stop", opc' # "stop", bpc = "exited" PROVE opc' = "join"
    BY DEF vars, flags, history, class
  <2>1. threadfinished
    BY DEF IInv, BodyFlags
  <2>2. StopTest
    BY DEF Next, OwnerCalls, OwnerSteps, BodySteps, Start, Destroy, Assign, Stop, Abort, CtorStart,
           Derive, Join, AbortStop, Enter, RunReturns, Decide, Complete, Finished
  <2>3. QED
    BY <2>1, <2>2 DEF StopTest, IInv, TypeOK
<1>2. QED
  BY <1>1, IInvHolds, PTL DEF Spec, RunExIsJoined


-----------------------------------------------------------------------------
(* ThreadBoolSignalObject.                                                 *)


(***************************************************************************)
(* The inductive invariant: the mutex says who is inside, the wait set who *)
(* is blocked, and a set condition always has somebody underway who will   *)
(* either take it or wake a thread that will.                              *)
(***************************************************************************)
MutexInv ==
  /\ \A t \in Threads : HoldsLock(t) <=> mutex = t
  /\ \A t \in Threads : t \in waitset <=> At(t, "blocked")

Underway(t) == pc[t] \in {"wait", "woken", "test", "clear", "notify", "notifyall"}

WakeupInv ==
  /\ WaitTakesSignal
  /\ ready /\ waitset # {} => \E t \in Threads : Underway(t)
  /\ \A t \in Threads : At(t, "giveup") => ~ready

SignalInv == SignalTypeOK /\ MutexInv /\ WakeupInv

LEMMA InitSignal == SignalInit => SignalInv
BY ThreadsAssumption
   DEF SignalInit, SignalInv, SignalTypeOK, Labels, MutexInv, WakeupInv, WaitTakesSignal, HoldsLock, At

LEMMA StepSignal == SignalInv /\ [SignalNext]_signalVars => SignalInv'
<1> SUFFICES ASSUME SignalInv, [SignalNext]_signalVars PROVE SignalInv'
  OBVIOUS
<1> USE ThreadsAssumption DEF SignalInv, SignalTypeOK, Labels, MutexInv, WakeupInv, WaitTakesSignal, HoldsLock, Underway, At, Goto
<1>1. ASSUME NEW t \in Threads, Calls(t) PROVE SignalInv'
  BY <1>1 DEF Calls, Call
<1>2. ASSUME NEW t \in Threads, WaitLock(t) PROVE SignalInv'
  BY <1>2 DEF WaitLock, Lock
<1>3. ASSUME NEW t \in Threads, Relock(t) PROVE SignalInv'
  BY <1>3 DEF Relock, Lock
<1>4. ASSUME NEW t \in Threads, SignalLock(t) PROVE SignalInv'
  BY <1>4 DEF SignalLock, Lock
<1>5. ASSUME NEW t \in Threads, BroadcastLock(t) PROVE SignalInv'
  BY <1>5 DEF BroadcastLock, Lock
<1>6. ASSUME NEW t \in Threads, Test(t) PROVE SignalInv'
  BY <1>6 DEF Test
<1>14. ASSUME NEW t \in Threads, WaitFails(t) PROVE SignalInv'
  BY <1>14 DEF WaitFails
<1>7. ASSUME NEW t \in Threads, Clear(t) PROVE SignalInv'
  BY <1>7 DEF Clear
<1>8. ASSUME NEW t \in Threads, NotifyOne(t) PROVE SignalInv'
  BY <1>8 DEF NotifyOne, Notify
<1>9. ASSUME NEW t \in Threads, NotifyAll(t) PROVE SignalInv'
  BY <1>9 DEF NotifyAll, Notify
<1>10. ASSUME NEW t \in Threads, Unlock(t) PROVE SignalInv'
  BY <1>10 DEF Unlock
<1>11. ASSUME NEW t \in Threads, SpuriousWake(t) PROVE SignalInv'
  BY <1>11 DEF SpuriousWake
<1>12. CASE UNCHANGED signalVars
  BY <1>12 DEF signalVars
<1>13. QED
  BY <1>1, <1>2, <1>3, <1>4, <1>5, <1>6, <1>7, <1>8, <1>9, <1>10, <1>11, <1>12, <1>14
     DEF SignalNext, Acquires, Holds

LEMMA SignalInvHolds == SignalSpec => []SignalInv
BY InitSignal, StepSignal, PTL DEF SignalSpec

-----------------------------------------------------------------------------
(* The state keeps its types.                                              *)
THEOREM SignalTypeCorrect == SignalSpec => []SignalTypeOK
<1>1. SignalInv => SignalTypeOK
  BY DEF SignalInv
<1>2. QED
  BY <1>1, SignalInvHolds, PTL

(* Two threads are never inside Wait(), Signal() or Broadcast() together.  *)
THEOREM OnlyOneInside == SignalSpec => []MutualExclusion
<1>1. SignalInv => MutualExclusion
  BY DEF SignalInv, MutexInv, MutualExclusion
<1>2. QED
  BY <1>1, SignalInvHolds, PTL

(* A wait that returns has taken a signal of its own.                      *)
THEOREM EveryWaitTakesASignal == SignalSpec => []WaitTakesSignal
<1>1. SignalInv => WaitTakesSignal
  BY DEF SignalInv, WakeupInv
<1>2. QED
  BY <1>1, SignalInvHolds, PTL

(* However signals, waits and spurious wake-ups interleave, no thread       *)
(* sleeps on while the condition is set and nobody is coming to take it.   *)
THEOREM WakeupsAreNotLost == SignalSpec => []NoLostWakeup
<1>1. SignalInv => NoLostWakeup
  BY ThreadsAssumption DEF SignalInv, MutexInv, WakeupInv, NoLostWakeup, Underway, HoldsLock
<1>2. QED
  BY <1>1, SignalInvHolds, PTL
=============================================================================
