--------------------------- MODULE BackgroundFile ---------------------------
(***************************************************************************)
(* BackgroundFile (BackgroundFile.cpp): an EnhancedFile whose fwrite()     *)
(* queues blocks that a writer thread puts on disk.                        *)
(*                                                                         *)
(* Two threads run: the user of the object ("user", the single thread the  *)
(* class comment asks for) and the background writer ("writer").  A step   *)
(* is one access to the state the threads share: `first', a block's        *)
(* `next', the stop flag and the FILE.  `last' and the thread handle       *)
(* belong to the user alone.                                               *)
(*                                                                         *)
(* A block is named by the number of the fwrite() call that allocated it,  *)
(* so calloc() always returns a fresh block, and `heap' is the set of      *)
(* blocks that are allocated now.  `disk' is the sequence of operations    *)
(* handed to the FILE, each with what became of it, and `issued' counts    *)
(* the operations called.                                                  *)
(***************************************************************************)
EXTENDS Integers, Sequences

CONSTANT MaxOps   \* bound on the numbered operations of a behaviour

ASSUME MaxOpsAssumption == MaxOps \in Nat

Ids == 1 .. MaxOps
NULL == 0
Threads == {"user", "writer"}

\* What the FILE takes of a block, and a result the caller is given itself.
Taken == {"all", "some", "none"}
Outcomes == Taken \union {"returned"}

VARIABLES
  fileopen,          \* isopen()
  enablebackground,
  running,           \* thread.IsRunning(): the handle is joinable
  stopthread,
  first, last,       \* ends of the queue of blocks
  next,              \* next[b]: block b's next pointer
  heap,              \* blocks allocated and not freed
  disk, issued,
  pc,                \* what each thread does next
  blk,               \* each thread's local `block'
  op                 \* the call FlushToDisk() is part of

file == <<fileopen, enablebackground>>
thread == <<running, stopthread>>
queue == <<first, last, next, heap>>
vars == <<file, thread, queue, disk, issued, pc, blk, op>>

UserLabels == {"idle", "link", "testfirst", "setfirst", "start",
               "flush", "stop", "join", "drain", "write", "advance", "free", "perform",
               "readytoclose", "readnext", "readline"}
WriterLabels == {"none", "loop", "test", "write", "advance", "free", "sleep", "done"}
Calls == {"none", "sync", "fclose", "disable"}

TypeOK ==
  /\ fileopen \in BOOLEAN
  /\ enablebackground \in BOOLEAN
  /\ running \in BOOLEAN
  /\ stopthread \in BOOLEAN
  /\ first \in Ids \union {NULL}
  /\ last \in Ids \union {NULL}
  /\ next \in [Ids -> Ids \union {NULL}]
  /\ heap \in SUBSET Ids
  /\ disk \in Seq([op : Ids, outcome : Outcomes])
  /\ issued \in 0 .. MaxOps
  /\ pc \in [Threads -> UserLabels \union WriterLabels]
  /\ pc["user"] \in UserLabels
  /\ pc["writer"] \in WriterLabels
  /\ blk \in [Threads -> Ids \union {NULL}]
  /\ op \in Calls

Init ==
  /\ fileopen = FALSE
  /\ enablebackground = FALSE
  /\ running = FALSE
  /\ stopthread = FALSE
  /\ first = NULL
  /\ last = NULL
  /\ next = [b \in Ids |-> NULL]
  /\ heap = {}
  /\ disk = <<>>
  /\ issued = 0
  /\ pc = [t \in Threads |-> IF t = "user" THEN "idle" ELSE "none"]
  /\ blk = [t \in Threads |-> NULL]
  /\ op = "none"

At(t, label) == pc[t] = label
Goto(t, label) == pc' = [pc EXCEPT ![t] = label]

\* The user calls an operation that the FILE performs at once: its result, be
\* it a failure, is returned to the user.
PerformNow ==
  /\ issued < MaxOps
  /\ issued' = issued + 1
  /\ disk' = Append(disk, [op |-> issued + 1, outcome |-> "returned"])

-----------------------------------------------------------------------------
(* The file calls that need no flush.                                      *)

\* fopen() of a closed file; it does nothing to an open one.
Fopen ==
  /\ At("user", "idle")
  /\ ~fileopen
  /\ fileopen' = TRUE
  /\ PerformNow
  /\ UNCHANGED <<enablebackground, thread, queue, pc, blk, op>>

\* EnableBackground(true).
EnableBackground ==
  /\ At("user", "idle")
  /\ enablebackground' = TRUE
  /\ UNCHANGED <<fileopen, thread, queue, disk, issued, pc, blk, op>>

\* Mutation: writes at once whenever no thread runs, queued blocks or not.
FwriteDirectIfNoThread ==
  /\ At("user", "idle")
  /\ fileopen /\ ~running
  /\ PerformNow
  /\ UNCHANGED <<file, thread, queue, pc, blk, op>>

\* fwrite() with background writing disabled.
FwriteDirect ==
  /\ At("user", "idle")
  /\ fileopen /\ ~enablebackground
  /\ PerformNow
  /\ UNCHANGED <<file, thread, queue, pc, blk, op>>

-----------------------------------------------------------------------------
(* fwrite() with background writing enabled.  A calloc() that fails makes  *)
(* it return 0 and change nothing.                                         *)

FwriteQueue ==
  /\ At("user", "idle")
  /\ fileopen /\ enablebackground
  /\ issued < MaxOps
  /\ issued' = issued + 1
  /\ heap' = heap \union {issued + 1}
  /\ next' = [next EXCEPT ![issued + 1] = NULL]
  /\ blk' = [blk EXCEPT !["user"] = issued + 1]
  /\ Goto("user", "link")
  /\ UNCHANGED <<file, thread, first, last, disk, op>>

\* if (last) last->next = block; last = block;
Link ==
  /\ At("user", "link")
  /\ next' = IF last # NULL THEN [next EXCEPT ![last] = blk["user"]] ELSE next
  /\ last' = blk["user"]
  /\ Goto("user", "testfirst")
  /\ UNCHANGED <<file, thread, first, heap, disk, issued, blk, op>>

\* if (!first) ...
TestFirst ==
  /\ At("user", "testfirst")
  /\ Goto("user", IF first = NULL THEN "setfirst" ELSE "start")
  /\ UNCHANGED <<file, thread, queue, disk, issued, blk, op>>

\* ... first = block;
SetFirst ==
  /\ At("user", "setfirst")
  /\ first' = blk["user"]
  /\ Goto("user", "start")
  /\ UNCHANGED <<file, thread, last, next, heap, disk, issued, blk, op>>

\* A thread still runs: fwrite() returns.
StartNotNeeded ==
  /\ At("user", "start")
  /\ running
  /\ Goto("user", "idle")
  /\ UNCHANGED <<file, thread, queue, disk, issued, blk, op>>

\* thread.Start() clears the flags and creates the thread, which may fail.
StartThread ==
  /\ At("user", "start")
  /\ ~running
  /\ stopthread' = FALSE
  /\ \/ /\ running' = TRUE
        /\ pc' = [pc EXCEPT !["user"] = "idle", !["writer"] = "loop"]
     \/ /\ running' = FALSE
        /\ Goto("user", "idle")
  /\ UNCHANGED <<file, queue, disk, issued, blk, op>>

-----------------------------------------------------------------------------
(* The calls that begin with FlushToDisk(): "sync" is any of fread, ftell, *)
(* fseek, fflush, rewind and vfprintf.                                     *)

Sync ==
  /\ At("user", "idle")
  /\ fileopen
  /\ issued < MaxOps
  /\ op' = "sync"
  /\ Goto("user", "flush")
  /\ UNCHANGED <<file, thread, queue, disk, issued, blk>>

Fclose ==
  /\ At("user", "idle")
  /\ issued < MaxOps
  /\ op' = "fclose"
  /\ Goto("user", "flush")
  /\ UNCHANGED <<file, thread, queue, disk, issued, blk>>

\* EnableBackground(false).
DisableBackground ==
  /\ At("user", "idle")
  /\ enablebackground' = FALSE
  /\ op' = "disable"
  /\ Goto("user", "flush")
  /\ UNCHANGED <<fileopen, thread, queue, disk, issued, blk>>

\* if (thread.IsRunning() || first)
FlushToDisk ==
  /\ At("user", "flush")
  /\ Goto("user", IF running \/ first # NULL THEN "stop" ELSE "perform")
  /\ UNCHANGED <<file, thread, queue, disk, issued, blk, op>>

\* Mutation: does not wait for the thread.
StopWithoutWait ==
  /\ At("user", "stop")
  /\ stopthread' = IF running THEN TRUE ELSE stopthread
  /\ Goto("user", "drain")
  /\ UNCHANGED <<file, running, queue, disk, issued, blk, op>>

\* Mutation: waits without asking the thread to stop.
StopWithoutRequest ==
  /\ At("user", "stop")
  /\ Goto("user", IF running THEN "join" ELSE "drain")
  /\ UNCHANGED <<file, thread, queue, disk, issued, blk, op>>

\* thread.Stop(): ask the thread to stop ...
Stop ==
  /\ At("user", "stop")
  /\ stopthread' = IF running THEN TRUE ELSE stopthread
  /\ Goto("user", IF running THEN "join" ELSE "drain")
  /\ UNCHANGED <<file, running, queue, disk, issued, blk, op>>

\* ... and wait until it has returned.
Join ==
  /\ At("user", "join")
  /\ At("writer", "done")
  /\ running' = FALSE
  /\ stopthread' = FALSE
  /\ pc' = [pc EXCEPT !["user"] = "drain", !["writer"] = "none"]
  /\ UNCHANGED <<file, queue, disk, issued, blk, op>>

\* Mutation: frees the blocks that are left without writing them.
DrainDiscards ==
  /\ At("user", "drain")
  /\ first # NULL
  /\ blk' = [blk EXCEPT !["user"] = first]
  /\ Goto("user", "advance")
  /\ UNCHANGED <<file, thread, queue, disk, issued, op>>

\* while (first) WriteBlock();
Drain ==
  /\ At("user", "drain")
  /\ first # NULL
  /\ blk' = [blk EXCEPT !["user"] = first]
  /\ Goto("user", "write")
  /\ UNCHANGED <<file, thread, queue, disk, issued, op>>

\* first = last = NULL;
Drained ==
  /\ At("user", "drain")
  /\ first = NULL
  /\ last' = NULL
  /\ Goto("user", "perform")
  /\ UNCHANGED <<file, thread, first, next, heap, disk, issued, blk, op>>

\* The base-class operation the flush was for.
Perform ==
  /\ At("user", "perform")
  /\ Goto("user", "idle")
  /\ op' = "none"
  /\ fileopen' = (fileopen /\ op # "fclose")
  /\ IF fileopen /\ op # "disable" THEN PerformNow ELSE UNCHANGED <<disk, issued>>
  /\ UNCHANGED <<enablebackground, thread, queue, blk>>

-----------------------------------------------------------------------------
(* WriteBlock(), run by the writer and, once it is joined, by the user.    *)

\* EnhancedFile::fwrite(block->data, ...): a failure is logged, a short write is
\* not even that, and the block counts as written whatever the FILE took of it.
WriteData(t) ==
  /\ At(t, "write")
  /\ \E amount \in Taken : disk' = Append(disk, [op |-> blk[t], outcome |-> amount])
  /\ Goto(t, "advance")
  /\ UNCHANGED <<file, thread, queue, issued, blk, op>>

\* first = first->next;
Advance(t) ==
  /\ At(t, "advance")
  /\ first' = next[first]
  /\ Goto(t, "free")
  /\ UNCHANGED <<file, thread, last, next, heap, disk, issued, blk, op>>

\* free(block);
Free(t) ==
  /\ At(t, "free")
  /\ heap' = heap \ {blk[t]}
  /\ Goto(t, IF t = "writer" THEN "test" ELSE "drain")
  /\ UNCHANGED <<file, thread, first, last, next, disk, issued, blk, op>>

WriteBlock(t) == WriteData(t) \/ Advance(t) \/ Free(t)

-----------------------------------------------------------------------------
(* Run(), the writer thread.                                               *)

\* Mutation: the thread also ends when the queue is empty.
RunLoopUntilEmpty ==
  /\ At("writer", "loop")
  /\ Goto("writer", IF stopthread \/ first = NULL \/ next[first] = NULL THEN "done" ELSE "test")
  /\ UNCHANGED <<file, thread, queue, disk, issued, blk, op>>

\* while (!thread.StopRequested())
RunLoop ==
  /\ At("writer", "loop")
  /\ Goto("writer", IF stopthread THEN "done" ELSE "test")
  /\ UNCHANGED <<file, thread, queue, disk, issued, blk, op>>

\* Mutation: takes the last block as well.
RunTestTakesLast ==
  /\ At("writer", "test")
  /\ IF first # NULL
       THEN /\ blk' = [blk EXCEPT !["writer"] = first]
            /\ Goto("writer", "write")
       ELSE /\ Goto("writer", "sleep")
            /\ UNCHANGED blk
  /\ UNCHANGED <<file, thread, queue, disk, issued, op>>

\* while (first && first->next) WriteBlock();
RunTest ==
  /\ At("writer", "test")
  /\ IF first # NULL /\ next[first] # NULL
       THEN /\ blk' = [blk EXCEPT !["writer"] = first]
            /\ Goto("writer", "write")
       ELSE /\ Goto("writer", "sleep")
            /\ UNCHANGED blk
  /\ UNCHANGED <<file, thread, queue, disk, issued, op>>

\* usleep(10000);
RunSleep ==
  /\ At("writer", "sleep")
  /\ Goto("writer", "loop")
  /\ UNCHANGED <<file, thread, queue, disk, issued, blk, op>>

-----------------------------------------------------------------------------
(* The calls that look at the file or the queue without a flush.           *)

\* ReadyToClose(): isopen() && !(first && ...  An empty queue ends it here.
ReadyToClose ==
  /\ At("user", "idle")
  /\ fileopen
  /\ first # NULL
  /\ blk' = [blk EXCEPT !["user"] = first]
  /\ Goto("user", "readytoclose")
  /\ UNCHANGED <<file, thread, queue, disk, issued, op>>

\* ... first->next): what `first' points to is volatile, the pointer is not, so
\* the compiler may keep the value it has or read the pointer again ...
ReloadFirst ==
  /\ At("user", "readytoclose")
  /\ \E block \in {first, blk["user"]} : blk' = [blk EXCEPT !["user"] = block]
  /\ Goto("user", "readnext")
  /\ UNCHANGED <<file, thread, queue, disk, issued, op>>

\* ... and its `next' is read after that; the answer is returned.
ReadNext ==
  /\ At("user", "readnext")
  /\ Goto("user", "idle")
  /\ UNCHANGED <<file, thread, queue, disk, issued, blk, op>>

\* readline(), inherited from EnhancedFile, reads the FILE.
Readline ==
  /\ At("user", "idle")
  /\ fileopen
  /\ Goto("user", "readline")
  /\ UNCHANGED <<file, thread, queue, disk, issued, blk, op>>

ReadlineReturns ==
  /\ At("user", "readline")
  /\ Goto("user", "idle")
  /\ UNCHANGED <<file, thread, queue, disk, issued, blk, op>>

-----------------------------------------------------------------------------
UserCalls ==
  \/ Fopen \/ EnableBackground \/ FwriteDirect \/ FwriteQueue
  \/ Sync \/ Fclose \/ DisableBackground \/ ReadyToClose \/ Readline

UserSteps ==
  \/ Link \/ TestFirst \/ SetFirst \/ StartNotNeeded \/ StartThread
  \/ FlushToDisk \/ Stop \/ Join \/ Drain \/ Drained \/ Perform
  \/ WriteBlock("user")
  \/ ReloadFirst \/ ReadNext \/ ReadlineReturns

WriterSteps == RunLoop \/ RunTest \/ RunSleep \/ WriteBlock("writer")

Next == UserCalls \/ UserSteps \/ WriterSteps

Spec == Init /\ [][Next]_vars

(* The scheduler runs both threads: a call that has begun goes on, and the *)
(* writer goes on.  Nothing obliges the user to begin a call.              *)
FairSpec == Spec /\ WF_vars(UserSteps) /\ WF_vars(WriterSteps)

-----------------------------------------------------------------------------
(* Safety.                                                                 *)

InWriteBlock(t) == pc[t] \in {"write", "advance", "free"}

\* The operations accepted and not yet handed to the FILE: the blocks allocated,
\* but for the one a thread holds behind the write in WriteBlock().
Pending == heap \ {blk[t] : t \in {u \in Threads : pc[u] \in {"advance", "free"}}}

(* No block is used after free(): not by fwrite() when it links a block to  *)
(* the last one, not by either thread in WriteBlock(), not by the writer's  *)
(* test of first->next, and none is freed twice.                            *)
NoUseAfterFree ==
  /\ At("user", "link") /\ last # NULL => last \in heap
  /\ \A t \in Threads : InWriteBlock(t) => blk[t] \in heap
  /\ \A t \in Threads : At(t, "advance") => first \in heap
  /\ At("writer", "test") /\ first # NULL => first \in heap

(* FlushToDisk() leaves nothing behind: when the base-class operation runs  *)
(* the queue is empty, both its ends say so, every block is freed and the   *)
(* writer thread is gone; a direct fwrite() cannot overtake a queued one.   *)
FlushLeavesNothing ==
  \/ At("user", "perform")
  \/ At("user", "idle") /\ (~enablebackground \/ ~fileopen)
  => first = NULL /\ last = NULL /\ heap = {} /\ ~running

(* `first' has one writer at a time: while the writer thread is inside      *)
(* WriteBlock() the user neither stores into `first' nor drains the queue.  *)
FirstHasOneWriter ==
  InWriteBlock("writer") => pc["user"] \notin {"setfirst", "drain", "write", "advance", "free"}

(* The queue is a FIFO with no gap: the FILE is given the operations in the *)
(* order of the calls, each one once and none left out, a flushing call     *)
(* only after every accepted write.  A block leaves the queue only through  *)
(* a write on the FILE, also when no thread could be created for it; data   *)
(* is lost only where the FILE itself takes less than it was given.         *)
Ordered == INSTANCE OrderedFile WITH pending <- Pending, log <- disk
ImplementsOrderedFile == Ordered!Spec

-----------------------------------------------------------------------------
(* Liveness.                                                               *)

(* Every call returns: thread.Stop() always gets the writer to finish,     *)
(* however many blocks are queued, and the drain ends.                     *)
CallsReturn == []<>At("user", "idle")

(* A block that has a successor leaves the queue without any further call, *)
(* as long as the writer thread could be created.                          *)
BackgroundProgress ==
  \A b \in Ids : (running /\ b \in heap /\ next[b] # NULL) ~> b \notin heap

-----------------------------------------------------------------------------
(* What the comments say of the calls that do not flush.                   *)

(* BackgroundFile.cpp:71-73 says of the reads of `first' in ReadyToClose(): *)
(* "this will never be an issue"; the block it looks into is still there.   *)
ReadyToCloseIsSafe == At("user", "readnext") => blk["user"] \in heap

(* BackgroundFile.cpp:147: "must make sure that all queued blocks are       *)
(* flushed to disk before reading".                                         *)
ReadsSeeQueuedWrites == At("user", "readline") => Pending = {}
=============================================================================
