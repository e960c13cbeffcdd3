------------------------ MODULE BackgroundFile_proofs ------------------------
(***************************************************************************)
(* Safety of BackgroundFile for every bound on the number of operations.   *)
(***************************************************************************)
EXTENDS BackgroundFile, SequenceTheorems, TLAPS

(***************************************************************************)
(* The inductive invariant.  Its heart is Queue: the blocks linked from    *)
(* the head to `last' carry consecutive numbers and each one's next        *)
(* pointer names its successor, whichever thread is in the middle of an    *)
(* update.                                                                 *)
(***************************************************************************)

\* Between Link and SetFirst a block queued on an empty list is not `first' yet.
Front ==
  IF (At("user", "testfirst") /\ first = NULL) \/ At("user", "setfirst") THEN last ELSE first

Linked == {b \in Ids : Front # NULL /\ Front <= b /\ b <= last}

\* The writer runs exactly while the handle is joinable, and is asked to stop
\* only by a user who then waits for it.
ThreadInv ==
  /\ running <=> pc["writer"] # "none"
  /\ stopthread <=> At("user", "join")
  /\ At("user", "join") => running
  /\ At("writer", "done") => At("user", "join")
  /\ pc["user"] \in {"drain", "write", "advance", "free", "perform"} => ~running

Queue ==
  /\ Front # NULL => Front <= last /\ last = IF At("user", "link") THEN issued - 1 ELSE issued
  /\ \A b \in Linked : next[b] = IF b = last THEN NULL ELSE b + 1
  /\ \A b \in Ids : b \in heap <=> \/ b \in Linked
                                   \/ (At("user", "link") /\ b = issued)
                                   \/ \E t \in Threads : At(t, "free") /\ b = blk[t]
  /\ Front = NULL /\ pc["user"] \notin {"drain", "free"} => last = NULL

\* What each thread knows between two of its steps.
LocalInv ==
  /\ pc["user"] \in {"link", "testfirst", "setfirst", "start"} => blk["user"] = issued /\ issued # 0
  /\ pc["user"] \in {"testfirst", "setfirst", "start"} => last = issued
  /\ At("user", "link") => next[issued] = NULL
  /\ At("user", "setfirst") => first = NULL
  /\ \A t \in Threads : pc[t] \in {"write", "advance"} => first # NULL /\ blk[t] = first
  /\ \A t \in Threads :
        At(t, "free") => /\ blk[t] \in 1 .. issued
                         /\ Front = NULL \/ blk[t] < Front
  /\ pc["writer"] \in {"write", "advance"} => first < last
  /\ At("writer", "free") => first # NULL

\* Blocks are queued only in an open file with background writing enabled.
ModeInv ==
  /\ pc["user"] \in {"link", "testfirst", "setfirst", "start"} => fileopen /\ enablebackground
  /\ /\ pc["user"] \in {"idle", "readytoclose", "readnext", "readline"}
     /\ Front # NULL \/ running
     => fileopen /\ enablebackground
  /\ At("user", "perform") => Front = NULL
  /\ pc["user"] \in {"flush", "stop", "join", "drain", "write", "advance", "free", "perform"}
        <=> op # "none"
  /\ op = "sync" => fileopen
  /\ op \in {"sync", "fclose"} => issued < MaxOps

IInv == TypeOK /\ ThreadInv /\ Queue /\ LocalInv /\ ModeInv

-----------------------------------------------------------------------------
LEMMA InitIInv == Init => IInv
<1> USE MaxOpsAssumption DEF Ids, NULL, Threads
<1>1. <<>> \in Seq([op : Ids, outcome : Outcomes])
  OBVIOUS
<1>2. ASSUME Init PROVE TypeOK
  <2>1. disk \in Seq([op : Ids, outcome : Outcomes])
    BY <1>1, <1>2 DEF Init
  <2>2. /\ pc \in [Threads -> UserLabels \union WriterLabels]
        /\ pc["user"] \in UserLabels /\ pc["writer"] \in WriterLabels
    BY <1>2 DEF Init, UserLabels, WriterLabels
  <2>3. blk \in [Threads -> Ids \union {NULL}] /\ next \in [Ids -> Ids \union {NULL}]
    BY <1>2 DEF Init
  <2>4. first \in Ids \union {NULL} /\ last \in Ids \union {NULL} /\ issued \in 0 .. MaxOps
    BY <1>2 DEF Init
  <2>5. QED
    BY <1>2, <2>1, <2>2, <2>3, <2>4 DEF Init, TypeOK, Calls
<1>3. Init => ThreadInv /\ Queue /\ LocalInv /\ ModeInv
  BY DEF Init, ThreadInv, Queue, LocalInv, ModeInv, Front, Linked, At
<1>4. QED
  BY <1>2, <1>3 DEF IInv

\* The log stays a sequence of entries when an operation is added to it.
LEMMA LogGrows ==
  ASSUME disk \in Seq([op : Ids, outcome : Outcomes]), NEW n \in Ids, NEW o \in Outcomes
  PROVE  Append(disk, [op |-> n, outcome |-> o]) \in Seq([op : Ids, outcome : Outcomes])
<1>1. [op |-> n, outcome |-> o] \in [op : Ids, outcome : Outcomes]
  OBVIOUS
<1>2. QED
  BY <1>1, AppendProperties

LEMMA DirectIsLogged ==
  ASSUME TypeOK, PerformNow
  PROVE  disk' \in Seq([op : Ids, outcome : Outcomes])
<1>1. issued + 1 \in Ids
  BY MaxOpsAssumption DEF TypeOK, PerformNow, Ids
<1>2. "returned" \in Outcomes
  BY DEF Outcomes
<1>3. QED
  BY <1>1, <1>2, LogGrows DEF TypeOK, PerformNow

LEMMA StepIInv == IInv /\ [Next]_vars => IInv'
<1> SUFFICES ASSUME IInv, [Next]_vars PROVE IInv'
  OBVIOUS
<1> USE MaxOpsAssumption DEF Ids, NULL, Threads, At, Goto, file, thread, queue
<1>1. CASE Fopen
  <2> USE <1>1 DEF Fopen, IInv
  <2>1. TypeOK'
    <3>1. disk' \in Seq([op : Ids, outcome : Outcomes])
      BY DirectIsLogged
    <3>2. QED
      BY <3>1 DEF PerformNow, TypeOK, UserLabels, WriterLabels
  <2>2. ThreadInv' /\ LocalInv' /\ ModeInv'
    BY DEF PerformNow, TypeOK, UserLabels, WriterLabels, ThreadInv, Queue, LocalInv, ModeInv, Front, Linked
  <2>3. Queue'
    BY DEF PerformNow, TypeOK, UserLabels, WriterLabels, ThreadInv, Queue, LocalInv, ModeInv, Front, Linked
  <2>4. QED
    BY <2>1, <2>2, <2>3
<1>2. CASE EnableBackground
  BY <1>2 DEF EnableBackground, IInv, TypeOK, UserLabels, WriterLabels, Calls, ThreadInv, Queue, LocalInv, ModeInv, Front, Linked
<1>3. CASE FwriteDirect
  <2> USE <1>3 DEF FwriteDirect, IInv
  <2>1. TypeOK'
    <3>1. disk' \in Seq([op : Ids, outcome : Outcomes])
      BY DirectIsLogged
    <3>2. QED
      BY <3>1 DEF PerformNow, TypeOK, UserLabels, WriterLabels
  <2>2. ThreadInv' /\ LocalInv' /\ ModeInv'
    BY DEF PerformNow, TypeOK, UserLabels, WriterLabels, ThreadInv, Queue, LocalInv, ModeInv, Front, Linked
  <2>3. Queue'
    BY DEF PerformNow, TypeOK, UserLabels, WriterLabels, ThreadInv, Queue, LocalInv, ModeInv, Front, Linked
  <2>4. QED
    BY <2>1, <2>2, <2>3
<1>4. CASE FwriteQueue
  BY <1>4 DEF FwriteQueue, IInv, TypeOK, UserLabels, WriterLabels, Calls, ThreadInv, Queue, LocalInv, ModeInv, Front, Linked
<1>5. CASE Link
  <2>1. TypeOK'
    BY <1>5 DEF Link, IInv, TypeOK, UserLabels, WriterLabels, LocalInv
  <2>2. ThreadInv'
    BY <1>5 DEF Link, IInv, TypeOK, ThreadInv
  <2>3. Queue'
    <3>1. /\ first \in Ids \union {NULL} /\ last \in Ids \union {NULL} /\ issued \in Ids
          /\ next \in [Ids -> Ids \union {NULL}]
          /\ blk["user"] = issued /\ last' = issued /\ issued' = issued /\ first' = first
          /\ next' = IF last # NULL THEN [next EXCEPT ![last] = issued] ELSE next
      BY <1>5 DEF Link, IInv, TypeOK, LocalInv
    <3>2. Front = first
      BY <1>5 DEF Link, Front
    <3>3. Front' = IF first = NULL THEN issued ELSE first
      BY <1>5, <3>1 DEF Link, Front, IInv, TypeOK
    <3>4. first = NULL <=> last = NULL
      BY <1>5, <3>1, <3>2 DEF Link, IInv, Queue
    <3>5. first # NULL => first <= last /\ last = issued - 1
      BY <1>5, <3>2 DEF Link, IInv, Queue
    <3>6. next[issued] = NULL
      BY <1>5 DEF Link, IInv, LocalInv
    <3>7. Linked' = Linked \union {issued}
      BY <3>1, <3>2, <3>3, <3>4, <3>5 DEF Linked
    <3>8. \A b \in Linked' : next'[b] = IF b = last' THEN NULL ELSE b + 1
      BY <3>1, <3>2, <3>3, <3>4, <3>5, <3>6, <3>7 DEF Linked, IInv, Queue
    <3>9. \A b \in Ids : b \in heap' <=> \/ b \in Linked'
                                      \/ (At("user", "link")' /\ b = issued')
                                      \/ \E t \in Threads : At(t, "free")' /\ b = blk'[t]
      BY <1>5, <3>1, <3>7 DEF Link, IInv, TypeOK, Queue
    <3>10. QED
      BY <1>5, <3>1, <3>3, <3>4, <3>5, <3>8, <3>9 DEF Link, IInv, TypeOK, Queue
  <2>4. LocalInv'
    BY <1>5 DEF Link, IInv, TypeOK, UserLabels, WriterLabels, Calls, ThreadInv, Queue, LocalInv, ModeInv, Front, Linked
  <2>5. ModeInv'
    BY <1>5 DEF Link, IInv, TypeOK, UserLabels, WriterLabels, Calls, ThreadInv, Queue, LocalInv, ModeInv, Front, Linked
  <2>6. QED
    BY <2>1, <2>2, <2>3, <2>4, <2>5 DEF IInv
<1>6. CASE TestFirst
  BY <1>6 DEF TestFirst, IInv, TypeOK, UserLabels, WriterLabels, Calls, ThreadInv, Queue, LocalInv, ModeInv, Front, Linked
<1>7. CASE SetFirst
  BY <1>7 DEF SetFirst, IInv, TypeOK, UserLabels, WriterLabels, Calls, ThreadInv, Queue, LocalInv, ModeInv, Front, Linked
<1>8. CASE StartNotNeeded
  BY <1>8 DEF StartNotNeeded, IInv, TypeOK, UserLabels, WriterLabels, Calls, ThreadInv, Queue, LocalInv, ModeInv, Front, Linked
<1>9. CASE StartThread
  BY <1>9 DEF StartThread, IInv, TypeOK, UserLabels, WriterLabels, Calls, ThreadInv, Queue, LocalInv, ModeInv, Front, Linked
<1>10. CASE Sync
  BY <1>10 DEF Sync, IInv, TypeOK, UserLabels, WriterLabels, Calls, ThreadInv, Queue, LocalInv, ModeInv, Front, Linked
<1>11. CASE Fclose
  BY <1>11 DEF Fclose, IInv, TypeOK, UserLabels, WriterLabels, Calls, ThreadInv, Queue, LocalInv, ModeInv, Front, Linked
<1>12. CASE DisableBackground
  BY <1>12, ZenonT(30) DEF DisableBackground, IInv, TypeOK, UserLabels, WriterLabels, Calls, ThreadInv, Queue, LocalInv, ModeInv, Front, Linked
<1>13. CASE FlushToDisk
  BY <1>13 DEF FlushToDisk, IInv, TypeOK, UserLabels, WriterLabels, Calls, ThreadInv, Queue, LocalInv, ModeInv, Front, Linked
<1>14. CASE Stop
  <2> USE <1>14 DEF Stop, IInv, TypeOK, UserLabels, WriterLabels, Calls, ThreadInv, Queue, LocalInv, ModeInv, Front, Linked
  <2>2. TypeOK'
    OBVIOUS
  <2>3. ThreadInv'
    OBVIOUS
  <2>4. Queue'
    OBVIOUS
  <2>5. LocalInv'
    OBVIOUS
  <2>6. ModeInv'
    OBVIOUS
  <2>7. QED
    BY <2>2, <2>3, <2>4, <2>5, <2>6
<1>15. CASE Join
  BY <1>15 DEF Join, IInv, TypeOK, UserLabels, WriterLabels, Calls, ThreadInv, Queue, LocalInv, ModeInv, Front, Linked
<1>16. CASE Drain
  BY <1>16 DEF Drain, IInv, TypeOK, UserLabels, WriterLabels, Calls, ThreadInv, Queue, LocalInv, ModeInv, Front, Linked
<1>17. CASE Drained
  BY <1>17 DEF Drained, IInv, TypeOK, UserLabels, WriterLabels, Calls, ThreadInv, Queue, LocalInv, ModeInv, Front, Linked
<1>18. CASE Perform
  <2> USE <1>18 DEF Perform, PerformNow, IInv, TypeOK, UserLabels, WriterLabels, Calls, ThreadInv, Queue, LocalInv, ModeInv, Front, Linked
  <2>1. disk' \in Seq([op : Ids, outcome : Outcomes])
    <3>1. CASE disk' = disk
      BY <3>1
    <3>2. CASE PerformNow
      BY <3>2, DirectIsLogged
    <3>3. QED
      BY <3>1, <3>2
  <2>2. TypeOK'
    BY <2>1
  <2>3. ThreadInv'
    OBVIOUS
  <2>4. Queue'
    OBVIOUS
  <2>5. LocalInv'
    OBVIOUS
  <2>6. ModeInv'
    OBVIOUS
  <2>7. QED
    BY <2>2, <2>3, <2>4, <2>5, <2>6
<1>19. ASSUME NEW t \in Threads, WriteData(t) PROVE IInv'
  <2> USE <1>19 DEF WriteData, IInv, TypeOK, UserLabels, WriterLabels, Calls, ThreadInv, Queue, LocalInv, ModeInv, Front, Linked
  <2>1. disk' \in Seq([op : Ids, outcome : Outcomes])
    <3>1. PICK amount \in Taken : disk' = Append(disk, [op |-> blk[t], outcome |-> amount])
      OBVIOUS
    <3>2. blk[t] \in Ids
      OBVIOUS
    <3>3. QED
      BY <3>1, <3>2, LogGrows DEF Outcomes
  <2>2. TypeOK'
    BY <2>1
  <2>3. ThreadInv'
    OBVIOUS
  <2>4. Queue'
    OBVIOUS
  <2>5. LocalInv'
    OBVIOUS
  <2>6. ModeInv'
    OBVIOUS
  <2>7. QED
    BY <2>2, <2>3, <2>4, <2>5, <2>6
<1>20. ASSUME NEW t \in Threads, Advance(t) PROVE IInv'
  BY <1>20 DEF Advance, IInv, TypeOK, UserLabels, WriterLabels, Calls, ThreadInv, Queue, LocalInv, ModeInv, Front, Linked
<1>21. ASSUME NEW t \in Threads, Free(t) PROVE IInv'
  <2> USE <1>21 DEF Free, IInv, TypeOK, UserLabels, WriterLabels, Calls, ThreadInv, Queue, LocalInv, ModeInv, Front, Linked
  <2>2. TypeOK'
    OBVIOUS
  <2>3. ThreadInv'
    OBVIOUS
  <2>4. Queue'
    OBVIOUS
  <2>5. LocalInv'
    OBVIOUS
  <2>6. ModeInv'
    OBVIOUS
  <2>7. QED
    BY <2>2, <2>3, <2>4, <2>5, <2>6
<1>22. CASE RunLoop
  BY <1>22 DEF RunLoop, IInv, TypeOK, UserLabels, WriterLabels, Calls, ThreadInv, Queue, LocalInv, ModeInv, Front, Linked
<1>23. CASE RunTest
  BY <1>23 DEF RunTest, IInv, TypeOK, UserLabels, WriterLabels, Calls, ThreadInv, Queue, LocalInv, ModeInv, Front, Linked
<1>24. CASE RunSleep
  BY <1>24 DEF RunSleep, IInv, TypeOK, UserLabels, WriterLabels, Calls, ThreadInv, Queue, LocalInv, ModeInv, Front, Linked
<1>25. CASE ReadyToClose
  BY <1>25 DEF ReadyToClose, IInv, TypeOK, UserLabels, WriterLabels, Calls, ThreadInv, Queue, LocalInv, ModeInv, Front, Linked
<1>26. CASE ReloadFirst
  BY <1>26 DEF ReloadFirst, IInv, TypeOK, UserLabels, WriterLabels, Calls, ThreadInv, Queue, LocalInv, ModeInv, Front, Linked
<1>27. CASE ReadNext
  BY <1>27 DEF ReadNext, IInv, TypeOK, UserLabels, WriterLabels, Calls, ThreadInv, Queue, LocalInv, ModeInv, Front, Linked
<1>28. CASE Readline
  BY <1>28 DEF Readline, IInv, TypeOK, UserLabels, WriterLabels, Calls, ThreadInv, Queue, LocalInv, ModeInv, Front, Linked
<1>29. CASE ReadlineReturns
  BY <1>29 DEF ReadlineReturns, IInv, TypeOK, UserLabels, WriterLabels, Calls, ThreadInv, Queue, LocalInv, ModeInv, Front, Linked
<1>30. CASE UNCHANGED vars
  BY <1>30 DEF vars, IInv, TypeOK, UserLabels, WriterLabels, Calls, ThreadInv, Queue, LocalInv, ModeInv, Front, Linked
<1>31. QED
  BY <1>1, <1>2, <1>3, <1>4, <1>5, <1>6, <1>7, <1>8, <1>9, <1>10, <1>11, <1>12, <1>13, <1>14, <1>15, <1>16, <1>17, <1>18, <1>19, <1>20, <1>21, <1>22, <1>23, <1>24, <1>25, <1>26, <1>27, <1>28, <1>29, <1>30 DEF Next, UserCalls, UserSteps, WriterSteps, WriteBlock

LEMMA IInvHolds == Spec => []IInv
BY InitIInv, StepIInv, PTL DEF Spec

-----------------------------------------------------------------------------
(* The state of a BackgroundFile keeps its types: no pointer leaves the     *)
(* blocks ever allocated, and each thread stays inside its own routine.     *)
THEOREM TypeCorrect == Spec => []TypeOK
<1>1. IInv => TypeOK
  BY DEF IInv
<1>2. QED
  BY <1>1, IInvHolds, PTL

(* fwrite(), WriteBlock() and the writer's test never touch a freed block,  *)
(* and no block is freed twice.                                             *)
THEOREM QueueMemorySafe == Spec => []NoUseAfterFree
<1>1. ASSUME IInv PROVE NoUseAfterFree
  <2> USE <1>1, MaxOpsAssumption DEF Ids, NULL, Threads, At, InWriteBlock
  <2>1. At("user", "link") /\ last # NULL => last \in heap
    BY DEF IInv, TypeOK, UserLabels, WriterLabels, Calls, ThreadInv, Queue, LocalInv, ModeInv, Front, Linked
  <2>2. \A t \in Threads : InWriteBlock(t) => blk[t] \in heap
    BY DEF IInv, TypeOK, UserLabels, WriterLabels, Calls, ThreadInv, Queue, LocalInv, ModeInv, Front, Linked
  <2>3. \A t \in Threads : At(t, "advance") => first \in heap
    BY <2>2 DEF IInv, LocalInv
  <2>4. At("writer", "test") /\ first # NULL => first \in heap
    BY DEF IInv, TypeOK, UserLabels, WriterLabels, Calls, ThreadInv, Queue, LocalInv, ModeInv, Front, Linked
  <2>5. QED
    BY <2>1, <2>2, <2>3, <2>4 DEF NoUseAfterFree
<1>2. QED
  BY <1>1, IInvHolds, PTL

(* When the flushed operation runs, and whenever an idle user has no        *)
(* background writing, the queue is empty and the writer thread is joined.  *)
THEOREM FlushComplete == Spec => []FlushLeavesNothing
<1>1. ASSUME IInv PROVE FlushLeavesNothing
  BY <1>1, MaxOpsAssumption DEF FlushLeavesNothing, Ids, NULL, Threads, At, IInv, TypeOK, UserLabels, WriterLabels, Calls, ThreadInv, Queue, LocalInv, ModeInv, Front, Linked
<1>2. QED
  BY <1>1, IInvHolds, PTL

(* The two threads never store into `first' at the same time.               *)
THEOREM FirstExclusive == Spec => []FirstHasOneWriter
<1>1. ASSUME IInv PROVE FirstHasOneWriter
  BY <1>1 DEF FirstHasOneWriter, InWriteBlock, At, Threads, IInv, TypeOK, ThreadInv, LocalInv
<1>2. QED
  BY <1>1, IInvHolds, PTL

-----------------------------------------------------------------------------
(* The refinement: a step of BackgroundFile is a step of OrderedFile or     *)
(* leaves what OrderedFile sees unchanged.                                  *)

LEMMA PendingMembers ==
  \A b : b \in Pending <=> b \in heap /\ \A t \in Threads : pc[t] \in {"advance", "free"} => b # blk[t]
BY DEF Pending

\* Every block WriteBlock() is about to write is the oldest one pending.
LEMMA OldestIsWritten ==
  ASSUME IInv, NEW t \in Threads, At(t, "write")
  PROVE  Ordered!IsOldest(blk[t])
<1> USE MaxOpsAssumption DEF Ids, NULL, Threads, At
<1>1. blk[t] \in Pending
  BY PendingMembers DEF IInv, TypeOK, UserLabels, WriterLabels, Calls, ThreadInv, Queue, LocalInv, ModeInv, Front, Linked
<1>2. first # NULL /\ blk[t] = first /\ Front = first
  BY DEF IInv, LocalInv, Front
<1>3. ASSUME NEW m \in Pending PROVE blk[t] <= m
  <2>1. m \in heap /\ m \in Ids
    BY PendingMembers DEF IInv, TypeOK
  <2>2. \A u \in Threads : At(u, "free") => m # blk[u]
    BY PendingMembers
  <2>3. m \in Linked \/ (At("user", "link") /\ m = issued)
    BY <2>1, <2>2 DEF IInv, Queue
  <2>4. first <= issued
    BY <1>2 DEF IInv, TypeOK, Queue
  <2>5. QED
    BY <1>2, <2>3, <2>4 DEF Linked
<1>4. QED
  BY <1>1, <1>3 DEF Ordered!IsOldest

\* An operation performed at once finds nothing pending.
LEMMA DirectFindsNothing ==
  ASSUME IInv, \/ At("user", "perform")
               \/ At("user", "idle") /\ (~fileopen \/ ~enablebackground)
  PROVE  Pending = {}
<1>1. heap = {}
  BY MaxOpsAssumption DEF Ids, NULL, Threads, At, IInv, TypeOK, UserLabels, WriterLabels, Calls, ThreadInv, Queue, LocalInv, ModeInv, Front, Linked
<1>2. QED
  BY <1>1 DEF Pending

THEOREM ImplementsOrder == Spec => ImplementsOrderedFile
<1> USE MaxOpsAssumption DEF Threads, At, Goto, file, thread, queue
<1>1. Init => Ordered!Init
  BY DEF Init, Ordered!Init, Pending
<1>2. ASSUME IInv, IInv', [Next]_vars
      PROVE  [Ordered!Next]_(Ordered!vars)
  <2> USE <1>2
  <2>1. ASSUME Pending' = Pending, issued' = issued, disk' = disk
        PROVE  [Ordered!Next]_(Ordered!vars)
    BY <2>1 DEF Ordered!vars
  <2>2. CASE Link
    BY <2>1, <2>2 DEF Link, Pending, IInv, TypeOK
  <2>3. CASE TestFirst
    BY <2>1, <2>3 DEF TestFirst, Pending, IInv, TypeOK
  <2>4. CASE SetFirst
    BY <2>1, <2>4 DEF SetFirst, Pending, IInv, TypeOK
  <2>5. CASE StartNotNeeded
    BY <2>1, <2>5 DEF StartNotNeeded, Pending, IInv, TypeOK
  <2>6. CASE StartThread
    <3>1. \A t \in Threads : pc'[t] \in {"advance", "free"} <=> pc[t] \in {"advance", "free"}
      BY <2>6 DEF StartThread, IInv, TypeOK, ThreadInv
    <3>2. QED
      BY <2>1, <2>6, <3>1 DEF StartThread, Pending
  <2>7. CASE EnableBackground
    BY <2>1, <2>7 DEF EnableBackground, Pending, IInv, TypeOK
  <2>8. CASE Sync
    BY <2>1, <2>8 DEF Sync, Pending, IInv, TypeOK
  <2>9. CASE Fclose
    BY <2>1, <2>9 DEF Fclose, Pending, IInv, TypeOK
  <2>10. CASE DisableBackground
    BY <2>1, <2>10 DEF DisableBackground, Pending, IInv, TypeOK
  <2>11. CASE FlushToDisk
    BY <2>1, <2>11 DEF FlushToDisk, Pending, IInv, TypeOK
  <2>12. CASE Stop
    BY <2>1, <2>12 DEF Stop, Pending, IInv, TypeOK
  <2>13. CASE Join
    BY <2>1, <2>13 DEF Join, Pending, IInv, TypeOK
  <2>14. CASE Drain
    BY <2>1, <2>14 DEF Drain, Pending, IInv, TypeOK
  <2>15. CASE Drained
    BY <2>1, <2>15 DEF Drained, Pending, IInv, TypeOK
  <2>16. CASE RunLoop
    BY <2>1, <2>16 DEF RunLoop, Pending, IInv, TypeOK
  <2>17. CASE RunTest
    BY <2>1, <2>17 DEF RunTest, Pending, IInv, TypeOK
  <2>18. CASE RunSleep
    BY <2>1, <2>18 DEF RunSleep, Pending, IInv, TypeOK
  <2>19. CASE ReadyToClose
    BY <2>1, <2>19 DEF ReadyToClose, Pending, IInv, TypeOK
  <2>20. CASE ReloadFirst
    BY <2>1, <2>20 DEF ReloadFirst, Pending, IInv, TypeOK
  <2>21. CASE ReadNext
    BY <2>1, <2>21 DEF ReadNext, Pending, IInv, TypeOK
  <2>22. CASE Readline
    BY <2>1, <2>22 DEF Readline, Pending, IInv, TypeOK
  <2>23. CASE ReadlineReturns
    BY <2>1, <2>23 DEF ReadlineReturns, Pending, IInv, TypeOK
  <2>24. CASE Fopen
    BY <2>1, <2>24, DirectFindsNothing DEF Fopen, PerformNow, Ordered!Next, Ordered!Direct, Pending, IInv, TypeOK
  <2>25. CASE FwriteDirect
    BY <2>1, <2>25, DirectFindsNothing DEF FwriteDirect, PerformNow, Ordered!Next, Ordered!Direct, Pending, IInv, TypeOK
  <2>26. CASE Perform
    BY <2>1, <2>26, DirectFindsNothing DEF Perform, PerformNow, Ordered!Next, Ordered!Direct, Pending, IInv, TypeOK
  <2>27. CASE FwriteQueue
    <3>1. Pending' = Pending \union {issued + 1}
      BY <2>27 DEF FwriteQueue, Pending, Ids, NULL, IInv, TypeOK, UserLabels, WriterLabels, Calls, ThreadInv, Queue, LocalInv, ModeInv, Front, Linked
    <3>2. QED
      BY <2>27, <3>1 DEF FwriteQueue, Ordered!Next, Ordered!Accept
  <2>28. ASSUME NEW t \in Threads, WriteData(t) PROVE [Ordered!Next]_(Ordered!vars)
    <3>1. Ordered!IsOldest(blk[t])
      BY <2>28, OldestIsWritten DEF WriteData
    <3>2. Pending' = Pending \ {blk[t]}
      BY <2>28, PendingMembers DEF WriteData, Pending, IInv, TypeOK
    <3>3. blk[t] \in Pending
      BY <3>1 DEF Ordered!IsOldest
    <3>4. Ordered!Perform(blk[t])
      BY <2>28, <3>1, <3>2 DEF WriteData, Taken, Ordered!Perform
    <3>5. QED
      BY <3>3, <3>4 DEF Ordered!Next
  <2>29. ASSUME NEW t \in Threads, Advance(t) PROVE [Ordered!Next]_(Ordered!vars)
    BY <2>1, <2>29 DEF Advance, Pending, IInv, TypeOK
  <2>30. ASSUME NEW t \in Threads, Free(t) PROVE [Ordered!Next]_(Ordered!vars)
    <3>1. Pending' = Pending
      BY <2>30 DEF Free, Pending, IInv, TypeOK
    <3>2. QED
      BY <2>1, <2>30, <3>1 DEF Free
  <2>31. CASE UNCHANGED vars
    BY <2>1, <2>31 DEF vars, Pending
  <2>32. QED
    BY <2>2, <2>3, <2>4, <2>5, <2>6, <2>7, <2>8, <2>9, <2>10, <2>11, <2>12, <2>13, <2>14, <2>15, <2>16, <2>17, <2>18, <2>19, <2>20, <2>21, <2>22, <2>23, <2>24, <2>25, <2>26, <2>27, <2>28, <2>29, <2>30, <2>31 DEF Next, UserCalls, UserSteps, WriterSteps, WriteBlock
<1>3. QED
  BY <1>1, <1>2, IInvHolds, PTL DEF Spec, ImplementsOrderedFile, Ordered!Spec
====
