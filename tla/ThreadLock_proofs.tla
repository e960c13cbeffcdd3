------------------------- MODULE ThreadLock_proofs -------------------------
(***************************************************************************)
(* Safety of ThreadLock in both builds, for any set of threads, any subset *)
(* of them making explicit calls, and any depth.                           *)
(***************************************************************************)
EXTENDS ThreadLock, SequenceTheorems, TLAPS

(***************************************************************************)
(* The inductive invariant: the depth of the mutex is the number of locks  *)
(* its owner holds, with the one it has taken but not recorded yet, and    *)
(* without the one it has given up already; no other thread holds any.     *)
(* The shared flag `owns' has no part in it: with it wrong, calls throw    *)
(* and change nothing.                                                     *)
(***************************************************************************)
Pending(t) == IF At(t, "own") THEN 1 ELSE IF At(t, "disown") THEN -1 ELSE 0
Count(t) == Len(held[t]) + Pending(t)

CountInv ==
  /\ owner = NoThread => depth = 0
  /\ \A t \in Threads : IF owner = t THEN depth = Count(t) /\ depth > 0 ELSE Count(t) = 0

IInv == TypeOK /\ CountInv /\ \A t \in Threads : At(t, "disown") => held[t] # <<>>

-----------------------------------------------------------------------------
(* Sequences.                                                              *)

LEMMA FrontProperties ==
  ASSUME NEW S, NEW s \in Seq(S), s # <<>>
  PROVE  Front(s) \in Seq(S) /\ Len(Front(s)) = Len(s) - 1
<1>1. Len(s) \in Nat \ {0}
  BY EmptySeq, LenProperties
<1>2. \A i \in 1 .. Len(s) - 1 : s[i] \in S
  BY <1>1, LenProperties
<1>3. /\ SubSeq(s, 1, Len(s) - 1) \in Seq(S)
      /\ Len(SubSeq(s, 1, Len(s) - 1)) = IF 1 <= Len(s) - 1 THEN Len(s) - 1 - 1 + 1 ELSE 0
  <2>1. Len(s) - 1 \in Int
    BY <1>1
  <2>2. QED
    BY <1>2, <2>1, SubSeqProperties
<1>4. Front(s) = SubSeq(s, 1, Len(s) - 1)
  BY Zenon DEF Front
<1>5. Front(s) \in Seq(S) /\ Len(Front(s)) = IF 1 <= Len(s) - 1 THEN Len(s) - 1 - 1 + 1 ELSE 0
  BY <1>3, <1>4, Zenon
<1>6. \A n \in Nat \ {0} : (IF 1 <= n - 1 THEN n - 1 - 1 + 1 ELSE 0) = n - 1
  OBVIOUS
<1>7. QED
  BY <1>1, <1>5, <1>6, Zenon

LEMMA CountNow ==
  ASSUME TypeOK, NEW t \in Threads
  PROVE  /\ Len(held[t]) \in Nat
         /\ Count(t) \in Int
         /\ Count(t) = IF At(t, "own") THEN Len(held[t]) + 1
                       ELSE IF At(t, "disown") THEN Len(held[t]) - 1 ELSE Len(held[t])
<1>1. Len(held[t]) \in Nat
  BY LenProperties DEF TypeOK
<1>2. Pending(t) = IF At(t, "own") THEN 1 ELSE IF At(t, "disown") THEN -1 ELSE 0
  BY DEF Pending
<1>3. \A n \in Nat, p \in {-1, 0, 1} :
        n + p \in Int /\ n + p = IF p = 1 THEN n + 1 ELSE IF p = -1 THEN n - 1 ELSE n
  OBVIOUS
<1>4. Pending(t) \in {-1, 0, 1}
  BY <1>2, Zenon
<1>5. Count(t) \in Int /\ Count(t) = IF Pending(t) = 1 THEN Len(held[t]) + 1
                                    ELSE IF Pending(t) = -1 THEN Len(held[t]) - 1 ELSE Len(held[t])
  BY <1>1, <1>3, <1>4, Zenon DEF Count
<1>6. QED
  BY <1>1, <1>2, <1>5

-----------------------------------------------------------------------------
(* What a step of one thread does to the counts.                           *)

\* It takes the mutex, and holds one lock more;
LEMMA AcquireCounts ==
  ASSUME TypeOK, CountInv, NEW t \in Threads, Acquire(t), Count(t)' = Count(t) + 1,
         \A u \in Threads \ {t} : Count(u)' = Count(u)
  PROVE  CountInv' /\ owner' \in Threads \union {NoThread} /\ depth' \in Nat
BY ThreadsAssumption, CountNow DEF Acquire, TypeOK, CountInv

\* releases it, and holds one less;
LEMMA ReleaseCounts ==
  ASSUME TypeOK, CountInv, NEW t \in Threads, Release(t), Count(t)' = Count(t) - 1,
         \A u \in Threads \ {t} : Count(u)' = Count(u)
  PROVE  CountInv' /\ owner' \in Threads \union {NoThread} /\ depth' \in Nat
BY ThreadsAssumption, CountNow DEF Release, TypeOK, CountInv

\* or leaves it alone.
LEMMA OtherCounts ==
  ASSUME TypeOK, CountInv, UNCHANGED <<owner, depth>>, \A u \in Threads : Count(u)' = Count(u)
  PROVE  CountInv' /\ owner' \in Threads \union {NoThread} /\ depth' \in Nat
BY DEF TypeOK, CountInv

\* Where t goes, and what it then holds.
LEMMA GotoHeld ==
  ASSUME TypeOK, NEW t \in Threads, NEW label, Goto(t, label), UNCHANGED held
  PROVE  /\ Count(t)' = IF label = "own" THEN Len(held[t]) + 1
                        ELSE IF label = "disown" THEN Len(held[t]) - 1 ELSE Len(held[t])
         /\ \A u \in Threads \ {t} : Count(u)' = Count(u)
<1>1. Len(held[t]) \in Nat
  BY CountNow
<1>2. QED
  BY <1>1 DEF TypeOK, Goto, Count, Pending, At

LEMMA HoldHeld ==
  ASSUME TypeOK, NEW t \in Threads, NEW kind \in Kinds, Hold(t, kind), Goto(t, "idle")
  PROVE  /\ held' \in [Threads -> Seq(Kinds)]
         /\ \A u \in Threads \ {t} : held'[u] = held[u]
         /\ Count(t)' = Len(held[t]) + 1
         /\ \A u \in Threads \ {t} : Count(u)' = Count(u)
<1>1. Append(held[t], kind) \in Seq(Kinds) /\ Len(Append(held[t], kind)) = Len(held[t]) + 1
  BY AppendProperties DEF TypeOK
<1>2. held'[t] = Append(held[t], kind) /\ \A u \in Threads \ {t} : held'[u] = held[u]
  BY DEF TypeOK, Hold
<1>3. pc'[t] = "idle" /\ \A u \in Threads \ {t} : pc'[u] = pc[u]
  BY DEF TypeOK, Goto
<1>4. held' \in [Threads -> Seq(Kinds)]
  BY <1>1 DEF TypeOK, Hold
<1>5. QED
  BY <1>1, <1>2, <1>3, <1>4 DEF Count, Pending, At, TypeOK

LEMMA DropHeld ==
  ASSUME TypeOK, NEW t \in Threads, held[t] # <<>>, Drop(t), Goto(t, "idle") \/ (At(t, "idle") /\ UNCHANGED pc)
  PROVE  /\ held' \in [Threads -> Seq(Kinds)]
         /\ \A u \in Threads \ {t} : held'[u] = held[u]
         /\ Count(t)' = Len(held[t]) - 1
         /\ \A u \in Threads \ {t} : Count(u)' = Count(u)
<1>1. Front(held[t]) \in Seq(Kinds) /\ Len(Front(held[t])) = Len(held[t]) - 1
  BY FrontProperties DEF TypeOK
<1>2. held'[t] = Front(held[t]) /\ \A u \in Threads \ {t} : held'[u] = held[u]
  BY DEF TypeOK, Drop
<1>3. pc'[t] = "idle" /\ \A u \in Threads \ {t} : pc'[u] = pc[u]
  BY DEF TypeOK, Goto, At
<1>4. held' \in [Threads -> Seq(Kinds)]
  BY <1>1 DEF TypeOK, Drop
<1>5. QED
  BY <1>1, <1>2, <1>3, <1>4 DEF Count, Pending, At, TypeOK

-----------------------------------------------------------------------------
(* The invariant.                                                          *)

LEMMA InitIInv == Init => IInv
<1> SUFFICES ASSUME Init PROVE IInv
  OBVIOUS
<1>1. \A t \in Threads : held[t] = <<>> /\ pc[t] = "idle" /\ Len(held[t]) = 0
  BY DEF Init
<1>2. TypeOK
  <2>1. held \in [Threads -> Seq(Kinds)]
    BY EmptySeq DEF Init
  <2>2. QED
    BY <2>1 DEF Init, TypeOK
<1>3. QED
  BY <1>1, <1>2, ThreadsAssumption DEF Init, IInv, CountInv, Count, Pending, At

LEMMA StepIInv == IInv /\ [Next]_vars => IInv'
<1> SUFFICES ASSUME IInv, [Next]_vars PROVE IInv'
  OBVIOUS
<1> DEFINE Disowns == \A t \in Threads : At(t, "disown") => held[t] # <<>>
<1>0. TypeOK /\ CountInv /\ Disowns
  BY DEF IInv
<1>L. \A t \in Threads : Len(held[t]) \in Nat /\ held[t] \in Seq(Kinds)
  BY <1>0, LenProperties DEF TypeOK
<1>1. ASSUME NEW t \in Threads, Construct(t) PROVE IInv'
  <2>1. CountInv' /\ owner' \in Threads \union {NoThread} /\ depth' \in Nat
    <3>1. Count(t)' = Count(t) /\ \A u \in Threads \ {t} : Count(u)' = Count(u)
      BY <1>0, <1>1, <1>L, CountNow, GotoHeld DEF Construct, At
    <3>2. QED
      BY <1>0, <1>1, <3>1, OtherCounts DEF Construct
  <2>2. QED
    BY <1>0, <1>1, <2>1 DEF Construct, IInv, TypeOK, At, Goto
<1>2. ASSUME NEW t \in Threads, Lock(t) PROVE IInv'
  <2>1. CountInv' /\ owner' \in Threads \union {NoThread} /\ depth' \in Nat
    <3>1. Count(t)' = Count(t) /\ \A u \in Threads \ {t} : Count(u)' = Count(u)
      BY <1>0, <1>2, <1>L, CountNow, GotoHeld DEF Lock, At
    <3>2. QED
      BY <1>0, <1>2, <3>1, OtherCounts DEF Lock
  <2>2. QED
    BY <1>0, <1>2, <2>1 DEF Lock, IInv, TypeOK, At, Goto
<1>3. ASSUME NEW t \in Threads, LockTest(t) PROVE IInv'
  <2>1. UNCHANGED <<UsePthreads, owner, depth, owns, held>> /\ thrown' \subseteq Threads
    BY <1>0, <1>3 DEF LockTest, Throw, TypeOK
  <2>2. PICK label \in {"idle", "lock"} : Goto(t, label)
    BY <1>3 DEF LockTest, Throw
  <2>3. CountInv' /\ owner' \in Threads \union {NoThread} /\ depth' \in Nat
    <3>1. Count(t)' = Count(t) /\ \A u \in Threads \ {t} : Count(u)' = Count(u)
      BY <1>0, <1>3, <1>L, <2>1, <2>2, CountNow, GotoHeld DEF LockTest, At
    <3>2. QED
      BY <1>0, <1>3, <2>1, <2>2, <3>1, OtherCounts DEF LockTest
  <2>4. QED
    BY <1>0, <2>1, <2>2, <2>3 DEF IInv, TypeOK, At, Goto
<1>4. ASSUME NEW t \in Threads, LockOwn(t) PROVE IInv'
  <2> "explicit" \in Kinds
    BY DEF Kinds
  <2>1. CountInv' /\ owner' \in Threads \union {NoThread} /\ depth' \in Nat
    <3>1. Count(t)' = Count(t) /\ \A u \in Threads \ {t} : Count(u)' = Count(u)
      BY <1>0, <1>4, <1>L, CountNow, HoldHeld DEF LockOwn, At
    <3>2. QED
      BY <1>0, <1>4, <3>1, OtherCounts DEF LockOwn
  <2>2. held' \in [Threads -> Seq(Kinds)] /\ \A u \in Threads \ {t} : held'[u] = held[u]
    BY <1>0, <1>4, HoldHeld DEF LockOwn
  <2>3. QED
    BY <1>0, <1>4, <2>1, <2>2 DEF LockOwn, IInv, TypeOK, At, Goto
<1>5. ASSUME NEW t \in Threads, UnlockDisown(t) PROVE IInv'
  <2>1. held[t] # <<>>
    BY <1>0, <1>5 DEF UnlockDisown
  <2>2. /\ held' \in [Threads -> Seq(Kinds)]
        /\ Count(t)' = Len(held[t]) - 1
        /\ \A u \in Threads \ {t} : held'[u] = held[u]
        /\ \A u \in Threads \ {t} : Count(u)' = Count(u)
    <3>1. Drop(t) /\ Goto(t, "idle")
      BY <1>5 DEF UnlockDisown
    <3>2. QED
      BY <1>0, <2>1, <3>1, DropHeld
  <2>3. CountInv' /\ owner' \in Threads \union {NoThread} /\ depth' \in Nat
    <3>1. Count(t) = Len(held[t]) - 1
      BY <1>0, <1>5, CountNow DEF UnlockDisown, At
    <3>2. QED
      BY <1>0, <1>5, <2>2, <3>1, OtherCounts DEF UnlockDisown
  <2>4. QED
    BY <1>0, <1>5, <2>2, <2>3 DEF UnlockDisown, IInv, TypeOK, At, Goto
<1>6. ASSUME NEW t \in Threads, GuardLock(t) PROVE IInv'
  <2>1. CountInv' /\ owner' \in Threads \union {NoThread} /\ depth' \in Nat
    <3>1. Count(t)' = Count(t) + 1 /\ \A u \in Threads \ {t} : Count(u)' = Count(u)
      BY <1>0, <1>6, <1>L, CountNow, HoldHeld DEF GuardLock, At, Kinds
    <3>2. QED
      BY <1>0, <1>6, <3>1, AcquireCounts DEF GuardLock
  <2>2. held' \in [Threads -> Seq(Kinds)] /\ \A u \in Threads \ {t} : held'[u] = held[u]
    BY <1>0, <1>6, HoldHeld DEF GuardLock, Kinds
  <2>3. QED
    BY <1>0, <1>6, <2>1, <2>2 DEF GuardLock, IInv, TypeOK, At, Goto
<1>7. ASSUME NEW t \in Threads, LockMutex(t) PROVE IInv'
  <2>1. CASE UsePthreads
    <3>1. CountInv' /\ owner' \in Threads \union {NoThread} /\ depth' \in Nat
      <4>1. Count(t)' = Count(t) + 1 /\ \A u \in Threads \ {t} : Count(u)' = Count(u)
        BY <1>0, <1>7, <1>L, <2>1, CountNow, HoldHeld DEF LockMutex, At, Kinds
      <4>2. QED
        BY <1>0, <1>7, <2>1, <4>1, AcquireCounts DEF LockMutex
    <3>2. held' \in [Threads -> Seq(Kinds)] /\ \A u \in Threads \ {t} : held'[u] = held[u]
      BY <1>0, <1>7, <2>1, HoldHeld DEF LockMutex, Kinds
    <3>3. QED
      BY <1>0, <1>7, <2>1, <3>1, <3>2 DEF LockMutex, IInv, TypeOK, At, Goto
  <2>2. CASE ~UsePthreads
    <3>1. CountInv' /\ owner' \in Threads \union {NoThread} /\ depth' \in Nat
      <4>1. Count(t)' = Count(t) + 1 /\ \A u \in Threads \ {t} : Count(u)' = Count(u)
        BY <1>0, <1>7, <1>L, <2>2, CountNow, GotoHeld DEF LockMutex, At
      <4>2. QED
        BY <1>0, <1>7, <2>2, <4>1, AcquireCounts DEF LockMutex
    <3>2. QED
      BY <1>0, <1>7, <2>2, <3>1 DEF LockMutex, IInv, TypeOK, At, Goto
  <2>3. QED
    BY <2>1, <2>2
<1>8. ASSUME NEW t \in Threads, GuardUnlock(t) PROVE IInv'
  <2>1. held[t] # <<>>
    BY <1>8 DEF GuardUnlock, Holds
  <2>2. CountInv' /\ owner' \in Threads \union {NoThread} /\ depth' \in Nat
    <3>1. Count(t)' = Count(t) - 1 /\ \A u \in Threads \ {t} : Count(u)' = Count(u)
      BY <1>0, <1>8, <1>L, <2>1, CountNow, DropHeld DEF GuardUnlock, At
    <3>2. QED
      BY <1>0, <1>8, <2>1, <3>1, ReleaseCounts DEF GuardUnlock
  <2>3. held' \in [Threads -> Seq(Kinds)] /\ \A u \in Threads \ {t} : held'[u] = held[u]
    BY <1>0, <1>8, <2>1, DropHeld DEF GuardUnlock
  <2>4. QED
    BY <1>0, <1>8, <2>2, <2>3 DEF GuardUnlock, IInv, TypeOK, At
<1>9. ASSUME NEW t \in Threads, Unlock(t) PROVE IInv'
  <2>1. held[t] # <<>> /\ At(t, "idle")
    BY <1>9 DEF Unlock, Holds
  <2>2. CASE ~UsePthreads /\ ~owns
    <3>1. Throw(t)
      BY <1>9, <2>2 DEF Unlock
    <3>2. CountInv' /\ owner' \in Threads \union {NoThread} /\ depth' \in Nat
      <4>1. Count(t)' = Count(t) /\ \A u \in Threads \ {t} : Count(u)' = Count(u)
        BY <1>0, <1>L, <2>1, <3>1, CountNow, GotoHeld DEF Throw, At
      <4>2. QED
        BY <1>0, <2>1, <3>1, <4>1, OtherCounts DEF Throw
    <3>3. QED
      BY <1>0, <3>1, <3>2 DEF Throw, IInv, TypeOK, At, Goto
  <2>3. CASE UsePthreads
    <3>1. Release(t) /\ Drop(t) /\ UNCHANGED <<UsePthreads, pc, owns, thrown>>
      BY <1>9, <2>3 DEF Unlock
    <3>2. CountInv' /\ owner' \in Threads \union {NoThread} /\ depth' \in Nat
      <4>1. Count(t)' = Count(t) - 1 /\ \A u \in Threads \ {t} : Count(u)' = Count(u)
        BY <1>0, <1>L, <2>1, <3>1, CountNow, DropHeld DEF At
      <4>2. QED
        BY <1>0, <2>1, <3>1, <4>1, ReleaseCounts
    <3>3. held' \in [Threads -> Seq(Kinds)] /\ \A u \in Threads \ {t} : held'[u] = held[u]
      BY <1>0, <2>1, <3>1, DropHeld
    <3>4. QED
      BY <1>0, <2>1, <3>1, <3>2, <3>3 DEF IInv, TypeOK, At
  <2>4. CASE ~UsePthreads /\ owns
    <3>1. Release(t) /\ Goto(t, "disown") /\ UNCHANGED <<UsePthreads, held, owns, thrown>>
      BY <1>9, <2>4 DEF Unlock
    <3>2. CountInv' /\ owner' \in Threads \union {NoThread} /\ depth' \in Nat
      <4>1. Count(t)' = Count(t) - 1 /\ \A u \in Threads \ {t} : Count(u)' = Count(u)
        BY <1>0, <1>L, <2>1, <3>1, CountNow, GotoHeld DEF At
      <4>2. QED
        BY <1>0, <2>1, <3>1, <4>1, ReleaseCounts
    <3>3. QED
      BY <1>0, <2>1, <3>1, <3>2 DEF IInv, TypeOK, At, Goto
  <2>5. QED
    BY <1>0, <2>2, <2>3, <2>4 DEF TypeOK
<1>10. CASE UNCHANGED vars
  BY <1>0, <1>10 DEF vars, IInv, TypeOK, CountInv, Count, Pending, At
<1>11. QED
  BY <1>1, <1>2, <1>3, <1>4, <1>5, <1>6, <1>7, <1>8, <1>9, <1>10
     DEF Next, Calls, Acquires, Steps, Unlocks

LEMMA IInvHolds == Spec => []IInv
BY InitIInv, StepIInv, PTL DEF Spec

-----------------------------------------------------------------------------
(* The state keeps its types.                                              *)
THEOREM TypeCorrect == Spec => []TypeOK
<1>1. IInv => TypeOK
  BY DEF IInv
<1>2. QED
  BY <1>1, IInvHolds, PTL

(* In both builds, and whatever the shared std::unique_lock does when      *)
(* several threads call it, who holds a lock owns the mutex, at the depth  *)
(* of all locks it holds: the exceptions never cost mutual exclusion.      *)
THEOREM LocksExclude == Spec => []HolderOwnsMutex
<1>1. IInv => HolderOwnsMutex
  <2> SUFFICES ASSUME IInv, NEW t \in Threads, held[t] # <<>>, ~At(t, "disown")
               PROVE  owner = t /\ depth >= Len(held[t])
    BY DEF HolderOwnsMutex
  <2>1. Len(held[t]) \in Nat \ {0}
    BY LenProperties, EmptySeq DEF IInv, TypeOK
  <2>2. Count(t) >= Len(held[t]) /\ Count(t) # 0
    BY <2>1, CountNow DEF IInv
  <2>3. QED
    BY <2>1, <2>2 DEF IInv, CountInv
<1>2. QED
  BY <1>1, IInvHolds, PTL
=============================================================================
