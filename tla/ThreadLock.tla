----------------------------- MODULE ThreadLock -----------------------------
(***************************************************************************)
(* ThreadLockObject and ThreadLock (ThreadLock.cpp): a recursive mutex     *)
(* that a thread takes with a ThreadLock guard, for a scope, or with       *)
(* explicit calls of Lock() and Unlock().  In the build with pthreads both *)
(* go to the mutex; in the default build the guard does, and the explicit  *)
(* calls go through one std::unique_lock that all threads share.           *)
(*                                                                         *)
(* std::unique_lock keeps a flag, here `owns': lock() throws if it is set, *)
(* locks the mutex and sets it; unlock() throws if it is not set, unlocks  *)
(* the mutex and clears it.                                                *)
(***************************************************************************)
EXTENDS Integers, Sequences, SequencesExt

CONSTANTS Threads, NoThread,
          PthreadsExplicit, DefaultExplicit,
                    \* the threads that call Lock() and Unlock(), in each build
          MaxDepth  \* bound on the locks one thread holds

ASSUME ThreadsAssumption ==
  /\ NoThread \notin Threads
  /\ PthreadsExplicit \subseteq Threads /\ DefaultExplicit \subseteq Threads
ASSUME MaxDepthAssumption == MaxDepth \in Nat

VARIABLES
  UsePthreads,    \* the build
  owner, depth,   \* the recursive mutex
  owns,           \* the flag of `lock'
  pc,             \* each thread's next step
  held,           \* the locks each thread holds, the newest last
  thrown          \* threads whose Lock() or Unlock() threw

vars == <<UsePthreads, owner, depth, owns, pc, held, thrown>>

Kinds == {"guard", "explicit"}

TypeOK ==
  /\ UsePthreads \in BOOLEAN
  /\ owner \in Threads \union {NoThread}
  /\ depth \in Nat
  /\ owns \in BOOLEAN
  /\ pc \in [Threads -> {"idle", "guard", "test", "lock", "own", "disown"}]
  /\ held \in [Threads -> Seq(Kinds)]
  /\ thrown \subseteq Threads

Init ==
  /\ UsePthreads \in BOOLEAN
  /\ owner = NoThread /\ depth = 0
  /\ owns = FALSE
  /\ pc = [t \in Threads |-> "idle"]
  /\ held = [t \in Threads |-> <<>>]
  /\ thrown = {}

At(t, label) == pc[t] = label
Goto(t, label) == pc' = [pc EXCEPT ![t] = label]

\* Mutation: a mutex that is not recursive.
AcquireOnce(t) ==
  /\ owner = NoThread
  /\ owner' = t
  /\ depth' = depth + 1

\* The mutex, PTHREAD_MUTEX_RECURSIVE or std::recursive_mutex.
Acquire(t) ==
  /\ owner \in {NoThread, t}
  /\ owner' = t
  /\ depth' = depth + 1

\* Mutation: the first release frees the mutex.
ReleaseAll(t) ==
  /\ owner' = NoThread
  /\ depth' = 0

Release(t) ==
  /\ owner = t
  /\ depth' = depth - 1
  /\ owner' = IF depth = 1 THEN NoThread ELSE t

Hold(t, kind) == held' = [held EXCEPT ![t] = Append(@, kind)]
Drop(t) == held' = [held EXCEPT ![t] = Front(@)]
Holds(t, kind) == held[t] # <<>> /\ Last(held[t]) = kind

\* The caller handles the exception and goes on.
Throw(t) ==
  /\ thrown' = thrown \union {t}
  /\ Goto(t, "idle")
  /\ UNCHANGED <<UsePthreads, owner, depth, owns, held>>

-----------------------------------------------------------------------------
(* The guard.                                                              *)

Construct(t) ==
  /\ At(t, "idle")
  /\ Len(held[t]) < MaxDepth
  /\ Goto(t, "guard")
  /\ UNCHANGED <<UsePthreads, owner, depth, owns, held, thrown>>

GuardLock(t) ==
  /\ At(t, "guard")
  /\ Acquire(t)
  /\ Hold(t, "guard")
  /\ Goto(t, "idle")
  /\ UNCHANGED <<UsePthreads, owns, thrown>>

\* ~ThreadLock(), at the end of the scope.
GuardUnlock(t) ==
  /\ At(t, "idle")
  /\ Holds(t, "guard")
  /\ Release(t)
  /\ Drop(t)
  /\ UNCHANGED <<UsePthreads, owns, pc, thrown>>

-----------------------------------------------------------------------------
(* The explicit calls.                                                     *)

ExplicitThreads == IF UsePthreads THEN PthreadsExplicit ELSE DefaultExplicit

Lock(t) ==
  /\ At(t, "idle") /\ t \in ExplicitThreads
  /\ Len(held[t]) < MaxDepth
  /\ Goto(t, IF UsePthreads THEN "lock" ELSE "test")
  /\ UNCHANGED <<UsePthreads, owner, depth, owns, held, thrown>>

\* std::unique_lock::lock() tests the flag ...
LockTest(t) ==
  /\ At(t, "test")
  /\ IF owns
       THEN Throw(t)
       ELSE /\ Goto(t, "lock")
            /\ UNCHANGED <<UsePthreads, owner, depth, owns, held, thrown>>

\* ... locks the mutex ...
LockMutex(t) ==
  /\ At(t, "lock")
  /\ Acquire(t)
  /\ IF UsePthreads
       THEN Goto(t, "idle") /\ Hold(t, "explicit")
       ELSE Goto(t, "own") /\ UNCHANGED held
  /\ UNCHANGED <<UsePthreads, owns, thrown>>

\* ... and sets the flag.
LockOwn(t) ==
  /\ At(t, "own")
  /\ owns' = TRUE
  /\ Hold(t, "explicit")
  /\ Goto(t, "idle")
  /\ UNCHANGED <<UsePthreads, owner, depth, thrown>>

\* Unlock(): std::unique_lock::unlock() throws without the flag ...
Unlock(t) ==
  /\ At(t, "idle")
  /\ Holds(t, "explicit")
  /\ IF ~UsePthreads /\ ~owns
       THEN Throw(t)
       ELSE /\ Release(t)
            /\ IF UsePthreads
                 THEN Drop(t) /\ UNCHANGED pc
                 ELSE Goto(t, "disown") /\ UNCHANGED held
            /\ UNCHANGED <<UsePthreads, owns, thrown>>

\* ... and clears it after it has unlocked the mutex.
UnlockDisown(t) ==
  /\ At(t, "disown")
  /\ owns' = FALSE
  /\ Drop(t)
  /\ Goto(t, "idle")
  /\ UNCHANGED <<UsePthreads, owner, depth, thrown>>

-----------------------------------------------------------------------------
Calls(t) == Construct(t) \/ Lock(t)
Acquires(t) == GuardLock(t) \/ LockMutex(t)
Steps(t) == LockTest(t) \/ LockOwn(t) \/ UnlockDisown(t)
Unlocks(t) == GuardUnlock(t) \/ Unlock(t)

Next == \E t \in Threads : Calls(t) \/ Acquires(t) \/ Steps(t) \/ Unlocks(t)

Spec == Init /\ [][Next]_vars

(* Threads are scheduled, whoever holds locks gives them up, the outermost *)
(* one included, and the mutex starves nobody.                             *)
FairSpec ==
  /\ Spec
  /\ \A t \in Threads :
       /\ WF_vars(Steps(t))
       /\ SF_vars(Unlocks(t)) /\ SF_vars(depth = 1 /\ Unlocks(t))
       /\ SF_vars(Acquires(t))

-----------------------------------------------------------------------------
(* A thread that holds a lock, guard or explicit, of any depth, is the one *)
(* that owns the mutex: two threads never hold a lock at the same time.    *)
HolderOwnsMutex ==
  \A t \in Threads :
    held[t] # <<>> /\ ~At(t, "disown") => owner = t /\ depth >= Len(held[t])

\* A request for the mutex.  In the default build Lock() by a thread whose own
\* Lock() is not given back yet throws at the flag, and makes none.
Asks(t) ==
  \/ pc[t] \in {"guard", "lock"}
  \/ At(t, "test") /\ "explicit" \notin ToSet(held[t])

(* Whoever asks for the lock gets it, at whatever depth: a thread that     *)
(* holds n locks, its guards among them, ends up with n + 1 ("MUST be      *)
(* recursive!", ThreadLock.cpp:22), and one that holds none gets the first *)
(* once the other threads have given theirs up.                            *)
LockIsGranted ==
  \A t \in Threads, n \in 0 .. MaxDepth - 1 :
    (Asks(t) /\ Len(held[t]) = n) ~> Len(held[t]) = n + 1

(* "Explicit lock of mutex" (ThreadLock.h:30): Lock() waits for the mutex, *)
(* whoever holds it, the caller included, and Unlock() of a lock that is   *)
(* held gives it up.                                                       *)
ExplicitCallsSucceed == thrown = {}
=============================================================================
