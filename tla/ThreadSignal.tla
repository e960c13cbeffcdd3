---------------------------- MODULE ThreadSignal ----------------------------
(***************************************************************************)
(* ThreadBoolSignalObject (ThreadLock.cpp): a flag `ready' under a mutex   *)
(* with a condition variable.  Any thread may call Wait(), Signal() or     *)
(* Broadcast().                                                            *)
(*                                                                         *)
(* The mutex and the condition variable are those of the C++ library: a    *)
(* wait releases the mutex and blocks in one step, must take the mutex     *)
(* again before it returns, and may return without a notification.  With   *)
(* pthreads a wait may also fail, and Wait() then returns false; the calls *)
(* that notify fail only for an object that is no condition variable.      *)
(***************************************************************************)
EXTENDS FiniteSets

CONSTANTS Threads, NoThread

ASSUME ThreadsAssumption == NoThread \notin Threads

VARIABLES
  ready,
  mutex,      \* the thread that holds it
  waitset,    \* the threads blocked in condition.wait()
  pc,
  owed        \* threads that were waiting when Broadcast() was called

signalVars == <<ready, mutex, waitset, pc, owed>>

Labels == {"idle", "wait", "test", "blocked", "woken", "clear", "giveup",
           "signal", "notify", "broadcast", "notifyall", "unlock"}

SignalTypeOK ==
  /\ ready \in BOOLEAN
  /\ mutex \in Threads \union {NoThread}
  /\ waitset \subseteq Threads
  /\ pc \in [Threads -> Labels]
  /\ owed \subseteq Threads

\* The initial condition is a parameter of the constructor.
SignalInit ==
  /\ ready \in BOOLEAN
  /\ mutex = NoThread
  /\ waitset = {}
  /\ pc = [t \in Threads |-> "idle"]
  /\ owed = {}

At(t, label) == pc[t] = label
Goto(t, label) == pc' = [pc EXCEPT ![t] = label]

Call(t, label) ==
  /\ At(t, "idle")
  /\ Goto(t, label)
  /\ UNCHANGED <<ready, mutex, waitset, owed>>

\* std::unique_lock<std::mutex> lock(mutex);
Lock(t, from, to) ==
  /\ At(t, from)
  /\ mutex = NoThread
  /\ mutex' = t
  /\ Goto(t, to)
  /\ UNCHANGED <<waitset>>

\* The destructor of `lock', when the call returns.
Unlock(t) ==
  /\ At(t, "unlock")
  /\ mutex' = NoThread
  /\ Goto(t, "idle")
  /\ UNCHANGED <<ready, waitset, owed>>

-----------------------------------------------------------------------------
(* Wait().                                                                 *)

WaitLock(t) == Lock(t, "wait", "test") /\ UNCHANGED <<ready, owed>>

\* Mutation: blocks without testing the condition first.
TestAfterWait(t) ==
  /\ At(t, "test")
  /\ mutex' = NoThread
  /\ waitset' = waitset \union {t}
  /\ Goto(t, "blocked")
  /\ UNCHANGED <<ready, owed>>

\* while (!IsReady()) condition.wait(lock);
Test(t) ==
  /\ At(t, "test")
  /\ IF ready
       THEN /\ Goto(t, "clear")
            /\ UNCHANGED <<mutex, waitset>>
       ELSE /\ mutex' = NoThread
            /\ waitset' = waitset \union {t}
            /\ Goto(t, "blocked")
  /\ UNCHANGED <<ready, owed>>

\* pthread_cond_wait() fails, with the mutex still held, and ends the loop.
WaitFails(t) ==
  /\ At(t, "test")
  /\ ~ready
  /\ Goto(t, "giveup")
  /\ UNCHANGED <<ready, mutex, waitset, owed>>

\* A wait that returns without a notification.
SpuriousWake(t) ==
  /\ t \in waitset
  /\ waitset' = waitset \ {t}
  /\ Goto(t, "woken")
  /\ UNCHANGED <<ready, mutex, owed>>

\* Mutation: if (!IsReady()) in place of the loop.
RelockNoRetest(t) == Lock(t, "woken", "clear") /\ UNCHANGED <<ready, owed>>

Relock(t) == Lock(t, "woken", "test") /\ UNCHANGED <<ready, owed>>

\* ClearReady(), behind the loop however it ended.
Clear(t) ==
  /\ pc[t] \in {"clear", "giveup"}
  /\ ready' = FALSE
  /\ owed' = owed \ {t}
  /\ Goto(t, "unlock")
  /\ UNCHANGED <<mutex, waitset>>

-----------------------------------------------------------------------------
(* Signal() and Broadcast().                                               *)

Notify(t, woken) ==
  /\ waitset' = waitset \ woken
  /\ pc' = [u \in Threads |->
              IF u = t THEN "unlock" ELSE IF u \in woken THEN "woken" ELSE pc[u]]
  /\ UNCHANGED <<ready, mutex, owed>>

\* Mutation: sets the condition without the lock.
SignalNoLock(t) ==
  /\ At(t, "signal")
  /\ ready' = TRUE
  /\ Goto(t, "notify")
  /\ UNCHANGED <<mutex, waitset, owed>>

\* Signal(): takes the lock, SetReady() ...
SignalLock(t) == Lock(t, "signal", "notify") /\ ready' = TRUE /\ UNCHANGED owed

\* Mutation: sets the condition and notifies nobody.
NotifyNobody(t) == At(t, "notify") /\ Notify(t, {})

\* ... condition.notify_one();
NotifyOne(t) ==
  /\ At(t, "notify")
  /\ IF waitset = {} THEN Notify(t, {}) ELSE \E w \in waitset : Notify(t, {w})

\* Broadcast(): takes the lock, SetReady() ...
BroadcastLock(t) ==
  Lock(t, "broadcast", "notifyall") /\ ready' = TRUE /\ owed' = owed \union waitset

\* ... condition.notify_all();
NotifyAll(t) == At(t, "notifyall") /\ Notify(t, waitset)

-----------------------------------------------------------------------------
Calls(t) == Call(t, "wait") \/ Call(t, "signal") \/ Call(t, "broadcast")

Acquires(t) == WaitLock(t) \/ Relock(t) \/ SignalLock(t) \/ BroadcastLock(t)

Holds(t) == Test(t) \/ WaitFails(t) \/ Clear(t) \/ NotifyOne(t) \/ NotifyAll(t) \/ Unlock(t)

SignalNext == \E t \in Threads : Calls(t) \/ Acquires(t) \/ Holds(t) \/ SpuriousWake(t)

SignalSpec == SignalInit /\ [][SignalNext]_signalVars

(* Threads are scheduled and the mutex starves nobody; no thread has to    *)
(* call anything, and no spurious wake-up has to happen.                   *)
FairSignalSpec == SignalSpec /\ \A t \in Threads : WF_signalVars(Holds(t)) /\ SF_signalVars(Acquires(t))

-----------------------------------------------------------------------------
(* Safety.                                                                 *)

HoldsLock(t) == pc[t] \in {"test", "clear", "giveup", "notify", "notifyall", "unlock"}

(* Every access to the condition and to the wait set is under the mutex.   *)
MutualExclusion == \A t \in Threads : HoldsLock(t) => mutex = t

(* Wait() returns true only with the condition set, and takes it: one      *)
(* signal never releases two waits, whatever is woken spuriously.          *)
WaitTakesSignal == \A t \in Threads : At(t, "clear") => ready

(* No wake-up is lost: while the condition is set and the mutex is free,   *)
(* no thread stays blocked unless another is on its way to take it; a wait *)
(* that fails clears no signal that another thread should have had.        *)
NoLostWakeup ==
  ready /\ mutex = NoThread /\ waitset # {} => \E t \in Threads : pc[t] \in {"wait", "woken"}

-----------------------------------------------------------------------------
(* Liveness.                                                               *)

Waiting == {t \in Threads : pc[t] \in {"wait", "test", "blocked", "woken", "clear"}}

(* A condition that is set while somebody waits is taken.                  *)
SignalIsTaken == (ready /\ Waiting # {}) ~> ~ready

(* "Signal all waiting threads" (ThreadLock.h:114): every thread that was   *)
(* waiting when Broadcast() was called returns from Wait().                 *)
BroadcastReleasesAll == \A t \in Threads : t \in owed ~> t \notin owed
=============================================================================
