# A TLA+ development of bbcat-base

bbcat-base is the base library of the BBC's audio toolbox: threads and locks, a
file that writes in the background, a lock-free ring, clocks, reference counts,
configuration, object factories, and helpers. This directory holds models of it,
the TLC configurations that check them, and theorems about them proved with
TLAPS. Source references are to `src/src/` unless they say otherwise.

Contents: 1 inventory, 2 plan, 3 the models, 4 fairness, 5 bounds, 6 proofs,
7 disagreements between code and comments, 8 what is not shown, 9 how to run.

## 1. Inventory

### 1.1 Components

| component | files | state it keeps | operations | hard behaviour |
|---|---|---|---|---|
| `BackgroundFile` | BackgroundFile.* | queue of blocks (`first`, `last`, each block's `next`), the writer thread it inherits | file operations, `EnableBackground`, `ReadyToClose`, `Run` | two threads on an unlocked queue; thread creation and writes that fail |
| `EnhancedFile` | EnhancedFile.* | `FILE *`, name, mode, whether it owns the file | mirrors of stdio, `readline`, paths | inherited by `BackgroundFile`; re-opening copies |
| `LockFreeBuffer` | LockFreeBuffer.h | slots, `rd`, `wr` | get and commit on both sides, `Reset`, `Resize` | one producer and one consumer without a lock |
| `Thread` | Thread.* | handle, stop/abort requests, completed/finished marks | `Start`, `Stop`, `Abort`, `Run`/`RunEx`, copy | the owner and the body share flags; two builds differ |
| `ThreadLockObject`, `ThreadLock` | ThreadLock.* | recursive mutex, shared `unique_lock` | guard, `Lock`, `Unlock` | recursion; two builds differ |
| `ThreadSignalObject`, `ThreadBoolSignalObject` | ThreadLock.* | mutex, condition variable, `ready` | `Wait`, `Signal`, `Broadcast` | lost and spurious wake-ups |
| `RefCount`, `RefCountedObject` | RefCount.h | pointer of each handle, count of each object | attach, release, prevent deletion | cascading deletions while a handle is being changed |
| `UniversalTime` | UniversalTime.h | cached time, offset, numerator, denominator, receivers | set, add, change rate, reset, (un)register | 64-bit overflow; stale cache; list changed during callbacks |
| `PerformanceMonitor` | PerformanceMonitor.* | per-id ring of timings and running sums, log files | `Start`, `Stop`, switches | measuring toggled inside a scope; ids shared by threads |
| `SystemParameters` | SystemParameters.* | a locked `ParameterSet` | set, get, substitute, path lists, read files | recursive substitution under the lock |
| `ParameterSet`, `NamedParameter`, `json` | same | named values, chained sets | set, get, merge, convert | precedence, nested keys, ranges |
| `ObjectRegistry`, `SelfRegisteringParametricObject` | same | factories by name and priority, singletons, containers | register, create | order of static construction |
| `misc` | misc.* | debug handlers and their lock, otherwise none | arithmetic, strings, logging | recursion guard; numeric edges |
| `LoadedVersions` | same | list of names and versions | register, list | registration from static constructors |
| `UDPSocket` | same | descriptor, `fd_set` | bind, connect, send, receive, close | re-use of an open socket |
| `ByteSwap` | same | none | swap | zero items |
| `3DPosition`, `DistanceModel` | same | coordinates, a current model | geometry | floating point |
| `CallbackHook`, `register`, `OSCompiler`, Windows files | same | - | - | generated code or platform shims |

### 1.2 Interaction

`BackgroundFile` is an `EnhancedFile` and a `Thread`: `fwrite()` puts blocks on
the queue and starts the thread, every other file operation stops and joins it
and writes the rest itself. `EnhancedFile` is a `RefCountedObject`.
`PerformanceMonitor` and `SystemParameters` are singletons whose methods hold a
`ThreadLock`, recursively; the debug functions of `misc` hold another one, and
write through an `EnhancedFile`. `UniversalTime` calls its receivers from inside
the operation that changes the time. Factories register with `ObjectRegistry`
from static constructors, and get their arguments as `ParameterSet`s.

### 1.3 What makes each component correct

* `BackgroundFile`: no block is used after it is freed; what the file sees is
  what the calls said, in their order; a flush leaves nothing; no call hangs;
  queued data reaches the disk.
* `LockFreeBuffer`: a slot is never written and readable at once; items come out
  once each, in order, none overwritten.
* `Thread`: one body per handle; flags speak of the body started last; requests
  to stop are not lost; `Stop()` returns.
* `ThreadLock`: one holder at a time, at any depth; who asks gets it.
* `ThreadBoolSignalObject`: no lost wake-up, no wait without signal.
* `RefCount`: no dangling handle, exact counts, nothing but cycles leaks.
* `UniversalTime`: the cached time is the exact time; who is to be told is told.
* `PerformanceMonitor`: running sums are sums over the ring, totals and extremes
  those of the scopes timed.
* `SystemParameters`: what a reference is replaced by does not depend on the
  order of replacement, and the loops end.
* `ParameterSet`, `json`, `NamedParameter`: nothing stored changes another name;
  what is converted comes back.
* The registries: the linker's order of static constructors does not show; every
  object has one owner.
* `misc`, `ByteSwap`, `3DPosition`: arithmetic done in steps gives the exact
  result; strings are cut where they should be; movements can be undone;
  debug messages reach their handlers once each.

`PROJECT.json` lists the hazards of the code line by line, those of components
not modelled yet included.

## 2. Plan

In the order of importance. All steps are done but the one marked as open.

1. `OrderedFile` (abstract), `BackgroundFile`, `BackgroundFile_proofs`.
2. `BoundedFIFO` (abstract), `LockFreeBuffer`, `LockFreeBuffer_proofs`.
3. `Thread`, with callbacks, copy and assignment, `Thread_proofs`.
4. `ThreadSignal`, proved in `Thread_proofs`. 5. `ThreadLock`, `ThreadLock_proofs`.
6. `RefCount`, proved in `Ownership_proofs`. 7. `UniversalTime`, proved in `Arithmetic_proofs`.
8. Open: the copy constructor, as a `BackgroundFile` with two objects; the shared
   queue is the hazard at BackgroundFile.cpp:42.
9. Services that hold a `ThreadLock`: `PerformanceMonitor` (running sums, and what
   a toggled switch does to them), `SystemParameters` (substitution as a rewriting
   system, proved in `Parameters_proofs`), `Debugging` (the recursion guard of
   `debug_err`).
10. `ParameterSet` (the hierarchy of names, proved in `Parameters_proofs`) and
    `ParameterTree` with `JSONValues` (precedence of chained sets, round trips).
11. Pure algorithms against reference definitions over bounded inputs: `Fields`,
    `Strings`, `Numerals`, `Messages`, `StoredGeometry`; and, proved in
    `Arithmetic_proofs`, `Numbers`, `Geometry` and `Measures`.
12. `Registry` (factories, containers, versions) and `Handles` (`EnhancedFile` and
    `UDPSocket` as owners of a stream and a descriptor), composed in `Ownership`
    and proved in `Ownership_proofs`. `Library` composes 6, 7, 10 to 12 and
    `Debugging` into one run.

Theorems: safety of 1 to 7, of `PerformanceMonitor`, `SystemParameters` and
`Ownership`, the laws of `ParameterSet` and `Numbers`, and the refinements of 1
and 2. Open: the refinement of an abstract registry.

There is one run per component that threads share or that needs a run of its own,
one for all others, and violations for the disagreements that matter most.

## 3. The models

Modules 3.1 to 3.10 are state machines with `Init`, one action per step of an
operation and `Next`; those of 3.11 are operators, with the laws they obey. An
operation is split exactly where another thread, or a nested call, can come
between: at each access to shared state. Operators named `...Rescans`,
`...NoRetest` and so on, each under a `\* Mutation:` comment, are wrong variants
of the definition that follows; nothing uses them. They exist to show that the
properties can fail: put in place of the right one, each breaks the property it is
paired with in `PROJECT.json`.

### 3.1 BackgroundFile

Two threads: the user, who makes all calls (the class promises no more than one,
BackgroundFile.h:21), and the writer, which runs `Run()`. Blocks are numbered in
the order of the writes that queued them, and a block is `free`d for good. The
user's program counter follows `fwrite()` through its steps (allocate and copy,
link to the last block, test `first`, set `first`, start the thread) and the
flushing calls through stop, join, drain, perform. The writer's follows
`Run()`: test `first` and its `next`, then write the data, advance `first`, free
the block. Thread creation may fail, and of any block the `FILE` may take all, some
or nothing: `WriteBlock()` goes on as if it had been all. `disk` is what the `FILE`
was given, each operation with its outcome.

* `NoUseAfterFree`: neither thread reads, links to or frees a freed block.
* `FlushLeavesNothing`: when a flushed operation runs, the queue is empty and
  the thread is gone.
* `FirstHasOneWriter`: the two threads are never both about to store `first`.
* `ImplementsOrderedFile`: `OrderedFile` is a file that is given its accepted
  writes oldest first, each once and none left out, and whose other operations find
  nothing pending. What the file makes of a write is an outcome of that step, so an
  accepted write never just goes: not when no thread can be created for it either.
  The refinement maps the queue to the accepted writes.
* `CallsReturn`: every call that joins the writer returns.
* `BackgroundProgress`: a block that has a successor is written without another
  call. The last block of a queue stays until a
  flush, by design: `Run()` needs its successor.

Runs: `bgfile` checks all of them; `bgfile_readytoclose` and `bgfile_readline`
show the disagreements of section 7.

### 3.2 LockFreeBuffer

The producer's and the consumer's operations each read the other's index in one
step and act in the next: `GetWriteBuffer` then the client's `Store`;
`IncrementWrite` then `CommitWrite`; and so on. Write-ahead and read-ahead
offsets, counts that are clamped, `Reset` by the consumer and `Resize` while both
are idle are in the model. The client writes ahead without gaps (`staged`).

* `SlotsDisjoint`: a slot being filled is not readable, and a slot being read
  stays readable, whatever the other side does meanwhile.
* `NoOvertaking`: a count clamped against an old index is still in bounds.
* `ImplementsFIFO`: the ring implements `BoundedFIFO`.

Run `lockfree` checks these for capacities 0, 1 and 3 and all changes between
them: 0 is the ring into which nothing fits, 1 alternates between full and
empty, 3 has room for write-ahead and wrap-around.

### 3.3 Thread

The owner constructs the object (`Thread(false)`, or one that starts the thread,
with or without callback), completes the derived object, calls `Start`, `Stop`,
`Abort`, assigns another object's callback (`operator =`, which the copy
constructor ends with and which asserts that neither is running), and destroys it;
the body is the thread. `object` records how far construction and destruction have
come, since the virtual `Run()` depends on it: a class that `overrides` it runs
its own when the object is complete, and `Thread::Run()` calls the callback. In
the pthreads build the body goes through `RunEx()` and sets the flags; in the
default build it does not. One run covers both: the build is a variable that is
chosen at the start and kept.

* `OneBody`: a joinable handle and exactly one unjoined body go together, and the
  body finds the callback it was started for.
* `FlagsAreOfThisRun`: while the body is in `Run()` neither flag is set.
* `StopIsKept`: `stopthread` is not cleared before the body has returned.
* `RunExIsJoined`: in the pthreads build, a `Stop(false)` that finds the body
  finished joins it.
* `JoinReturns`: `Stop()` and the destructor return.

The behaviour ends when the object is destroyed, so deadlock is not checked.
Run `thread`; what the default build leaves undone is in section 7.

### 3.4 ThreadSignal

Any set of threads calls `Wait`, `Signal` and `Broadcast`. The mutex and the
condition variable of the C++ library are modelled by their contract: waiting
releases the mutex and blocks in one step, waking takes it again, and a thread
may wake for no reason. `WaitFails` is the error of `pthread_cond_wait()`, which
ends the wait with the mutex held, clears the condition and is reported to the
caller.

* `MutualExclusion`, `WaitTakesSignal` (no wait succeeds without the condition,
  spurious wake-ups included), `NoLostWakeup` (while the condition is set and
  the mutex free, a blocked thread is never on its own), `SignalIsTaken` (a
  condition that is set while a thread waits is taken).

Run `threadsignal` has three threads, so that two wait while one signals;
`Broadcast()` is in section 7.

### 3.5 ThreadLock

Three threads take the recursive mutex with guards and with `Lock()`/`Unlock()`,
nested. In the default build the explicit calls test and set the flag of one
`std::unique_lock` that all threads share, outside the mutex; the model has its
steps, and its exceptions, which the caller handles.

* `HolderOwnsMutex`: whoever holds a lock of any kind and depth owns the mutex.
* `LockIsGranted`: whoever asks for the mutex gets it, at every depth: with n locks
  held there will be n + 1. In the default build a `Lock()` inside one's own
  `Lock()` does not ask: it throws at the flag (section 7).

Run `threadlock` has two threads with explicit calls in the pthreads build, and
one in the default build, where more than one fails (section 7).

### 3.6 RefCount

Each object holds one handle, as a list node does, so that all shapes of
references, cycles included, occur. `releasing` is the stack of `Release()` calls
that are active: deleting an object releases the handle inside it first. The
client uses what it can reach from its roots; `PreventDeletion()` objects belong
to it.

* `NoDangling`: no handle of a root or a living object refers to a deleted one.
* `NoResurrection`: nothing is counted or released once its destructor began,
  in particular not the object being attached (`head = head->next`).
* `CountsHandles`: counts are exact, in the middle of a cascade too.
* `OnlyCyclesLeak`: whatever the client can no longer reach is referred to by
  something else it cannot reach; so, with finitely many objects, only cycles
  and what hangs off them leak.

Run `library` has three objects and two roots, enough for a cascade of three and
cycles of one to three.

### 3.7 UniversalTime

All operations, `UpdateTime()` with its loop over the receivers, one step per
receiver, who may add a receiver or remove one while called: any one, itself and
those before it included. Widths are scaled: `Modulus` for 2^64, `NsPerSecond` for
1e9. `exact` is the offset that the operations define, without a bound; a change of
rate adds to it what the count amounts to, and never what the clock has cached.
`stale` is the time between `Reset()` and the next update; `astray` says that a change
of rate has saved a wrong time as the offset, from a stale state or a product
that wraps.

* `CachedTimeIsExact`: the cached time is the exact time, but in these two states
  and while the product wraps.
* `RateChangeKeepsTime`: `SetDenominator()` does not move the clock, in any state.
* `OnlySlidAreMissed`: a receiver that is on the list when an update begins, and
  stays, is called, unless it `slid` into the place of the one being called.

Run `library`; what the comments promise beyond this is in section 7.

### 3.8 PerformanceMonitor

Threads open and close the scopes of `PERFMON` markers. `Start()` and `Stop()` are
split where they leave the lock out: at their test of `measure`, which any thread
may switch in between. `timings` holds, per id, the ring with its sums, totals
and extremes, as `TIMING_DATA` does; `lasted` and `disturbed` are history.

* `SumsMatchRing`: the running sums are the sums over the ring, however scopes
  overlap and whenever measuring is switched: each call takes out what it
  overwrites.
* `UndisturbedIsExact`: while the scopes of an id do not overlap and are not cut
  by a switch, totals and extremes are those of its scopes, past every wrap of
  the ring. Otherwise they are not, for a ring has one index for all scopes.

Run `perfmon`.

### 3.9 SystemParameters

A state is the middle of one call: the string so far and the place where the
search goes on, or the list of paths and the path looked at. Each step is one round
of the loop of `Substitute()` or `SubstitutePathList()`. The lock is held throughout,
so calls do not interleave; `{env:x}` refers to the environment.

* `ResultIsExpansion`: the result is the text with every reference replaced by what
  it stands for: for path lists, every way to choose one path per reference. What an
  unknown name and a name of the environment stand for is defined as the comments
  have it (`Meaning`, `Alternatives`); for path lists, where the code differs, the
  property is for those that name nothing but parameters with a path.
  `Expansions()` is the reference definition, in rounds: what the names of rank k
  stand for is right after k of them.
* `SubstitutionEnds`: if no parameter refers to itself through others, the loop
  ends.

Run `substitution_paths` shows how path lists differ (section 7). Run
`substitution`: all assignments of seven values, references, lists and a
lone brace among them, to two names, and all texts of two tokens.

### 3.10 Ownership

`Registry` has an action for each call of the static constructors
(`RegisterFactory`, `RegisterVersion`) and of a container's `Create()`
(`CreateObject`): `objects` maps names to factories, `container` has the objects
made, those it owns, those deleted and the singletons, `versions` is the list of
`LoadedVersions`. `registered`, `requests` and `entries` are history: the calls,
in order, against which the state is compared. `Handles` has the operations of
`EnhancedFile` on several objects (`OpenFile`, `CloseFile`, `WriteFile`,
`AssignFile`), with the `FILE`s, their positions and the lengths of the files; and
of `UDPSocket` (`Bind`, for `connect()` too, and `CloseSocket`), with the
descriptors of the system. The system may refuse a file or a socket at any call.
The registries and handles share nothing: a step of `OwnershipNext` is one of any.

* `RegistrationIsOrderFree`: a name has the first registered of its factories of
  the highest priority, a library the first version it was given.
* `EverythingHasOneOwner`: an object made is in the container or was deleted, and a
  singleton is neither and has the last id given; a `FILE` that was opened is held
  by one object or was closed once, and standard streams never are; an object and
  its copy have a `FILE` each, at one place; no descriptor is lost but those that
  `bind()` and `connect()` overwrite.

Run `library`.

### 3.11 Functions without a state of their own

| module | of | what it holds |
|---|---|---|
| `ParameterSet` | ParameterSet.cpp | sets of dotted names: get, set, delete, sub-parameters, merging |
| `ParameterTree` | ParameterSet.cpp | down the hierarchy: `FindCombination()`, to and from JSON |
| `JSONValues` | json.cpp, NamedParameter.* | conversions of basic types, with their ranges; lists of named parameters; jsoncpp is external |
| `Fields` | misc.cpp | `SplitString()`, which `SystemParameters` uses too |
| `Strings` | misc.cpp, EnhancedFile.cpp | matching, replacing, reading lines, searching for files |
| `Messages` | ParameterSet.cpp, SystemParameters.cpp | `GenerateMessage()`, lines of a .conf file |
| `Numbers` | misc.cpp, ByteSwap.cpp | `muldiv`, `limited`, IEEE extended, byte order, indents, times |
| `Numerals` | misc.cpp | numbers to text and back, `Evaluate()` |
| `Debugging` | misc.cpp | debug messages, errors and their log, through handlers that send messages |
| `Geometry` | 3DPosition.cpp | co-ordinates, quaternions, transforms |
| `StoredGeometry` | 3DPosition.cpp | positions and quaternions in parameters and JSON |
| `Measures` | 3DPosition.*, DistanceModel.cpp | lengths, angles, interpolation, levels and delays |

Each operator is translated from a function; each `...Law` compares it with a
reference definition (the trimmed fields of a string, integer division) or with
its inverse. `Inputs` has one
variable, the input of a call; `ParameterSet`, `Numbers` and `Measures` have
specifications of their own over it, and `Library` adds it to those of 3.6, 3.7 and 3.10. A behaviour either takes one input of one
function, or the steps of one part: registry, versions, files, socket, references, the
clock, or the receivers of a clock. Interleaving parts that share nothing would
show no more; nor does the time depend on the receivers or they on it. The laws of an area are one invariant:
`ParametersKeepHierarchy` (of `ParameterSet`), `NumbersAreExact` (of `Numbers`),
`GeometryIsReversible` (of `Measures`), `TreesAreFaithful`, `StringsAreCutCleanly`,
`MessagesArePiecewise`. What the laws except, the code does not do: section 7.
Where code has no defined behaviour, the operators say so: `Evaluate()` returns any
of a set of values for a number that its `"%d"` has no room for, and a call of
`debug_err()` that comes back while the static log file is being constructed is
`stuck`.

Scaled-down data: machine words have `W` bits instead of 16 to 64; a string's
characters are the ones the function tells apart; angles are multiples of 90
degrees and quaternions those with components that are multiples of a half, so
that rotations are exact.

Run `library` evaluates all of them, and the properties of 3.6, 3.7 and 3.10.

## 4. Fairness

Liveness is checked under these assumptions and no others:

* a thread that can take a step of an operation it has begun takes it (weak
  fairness; the operating system schedules both threads);
* no thread has to call anything: the user may stop calling at any time;
* a mutex starves nobody (strong fairness on acquiring it);
* whoever holds a `ThreadLock` gives up the outermost one too (`threadlock`);
* a derived `Run()` polls `StopRequested()` and returns once asked (`thread`);
  `BackgroundFile::Run()` is modelled as it is, and does;
* spurious wake-ups never have to happen;
* the thread that calls `Substitute()` or `SubstitutePathList()` runs on
  (`substitution`).

`perfmon` and `library` check safety only.

## 5. Bounds

| run | bound | why it is enough |
|---|---|---|
| `bgfile` | `MaxOps` = 5 operations, each a write, a flush or a background switch | three queued blocks, a restart after a flush and after failures; the writer never holds more than one block |
| `lockfree` | capacities {0, 1, 3}, two values | wrap-around, full, empty, ahead offsets; the indices are periodic, so nothing else bounds the run |
| `thread` | `MaxStarts` = 3, 2 callbacks | one callback replaces another; a restart of a restarted thread; flags and handle return to their initial values each time |
| `threadsignal` | 3 threads | waiter, second waiter, notifier |
| `threadlock` | 3 threads, depth 2 | contention with recursion |
| `perfmon` | 2 threads, 2 ids, rings of 2, 3 scopes, depth 2, 4 ticks | a ring wraps in the second scope and is reused in the third; scopes overlap within and across threads |
| `substitution` | strings to 18 characters, 9 paths | longer than any expansion that ends, with these values and texts: growth beyond it comes from self-reference only |
| `library` | words of 3 bits, names of 3 parts, texts of 4 characters, patterns of 3, 3 factories, requests and versions each, 2 objects for 3 `FILE`s, 3 descriptors, 2 debug messages whose handlers send up to 2; 3 counted objects, 2 roots; a clock with modulus 64, counts to 20, rates 1 and 3, and 3 receivers | every carry and wrap of a word, every pair of quote and delimiter, a stub of a stub, an overwritten singleton, a copy of a copy, an error within an error within the opening of the log; every shape of three nodes with out-degree one; products that wrap while the time does not, and rates to change from and to; a receiver before, at and behind the index |

The exact time stays below the modulus, as 500 years do below 2^64 nanoseconds;
the product 1e9 * count does not: it wraps from a count of 16 on.

## 6. Proofs

TLAPS proves the following for every value of the constants:

* `BackgroundFile_proofs`: `TypeCorrect`, `QueueMemorySafe`, `FlushComplete`,
  `FirstExclusive`, and `ImplementsOrder`: the refinement of `OrderedFile`, any
  number of operations. The inductive invariant says where in the queue each
  thread stands: the blocks from `first` to `last` are exactly the living ones, in
  order; the writer's block is the first; the writer only ever works on a block
  that has a successor, so the user's `last` is out of its reach; blocks are
  queued only while the file is open in background mode; and while the thread is
  stopped nothing of the writer's state is live. `NoUseAfterFree` alone is not
  inductive, for it says nothing of the order of the queue.
* `LockFreeBuffer_proofs`: `TypeCorrect`, `IndicesNeverOvertake`,
  `UnreadItemsAreSafe`, for every set of capacities. The arithmetic is in lemmas
  on adding and subtracting modulo the size. The invariant keeps, for each slot
  handed out, its offset from the own index: the other side moving can only widen
  the range in which that offset is legal. `RingIsQueue` is the refinement of
  `BoundedFIFO`: the queue is what lies in the slots from `rd` up to `wr`, what is
  staged what lies from `wr` on. Sequences are compared as functions, so that
  appending, dropping and moving items between the two become changes of bounds; a
  step of the ring is a step of the queue if it moves an index or stores an item,
  else a stutter.
* `Thread_proofs`: `TypeCorrect`, `HandleIsBody`, `FlagsAreFresh`, `RequestsAreKept`,
  `FinishedBodyIsJoined`, for both builds and any number of starts and callbacks.
  The body's step says where the flags stand: neither is set before its turn, and
  without a body nothing is asked of one.
* `ThreadLock_proofs`: `TypeCorrect`, `LocksExclude`, for both builds, any threads
  and any depth. The depth of the mutex is the number of locks its owner holds,
  with the one taken but not recorded and without the one given up already.
* `Ownership_proofs`, on `RefCount`: `TypeCorrect`, `HandlesReferToLiveObjects`,
  `DyingObjectsStayUncounted`, `CountIsExact`, `NothingElseLeaks`, for any finite
  sets of objects and roots, and cascades of any length. The active releases form
  a stack in which each handle lies in the object the one before deletes; a dying
  object has count 0 and that one reference; all others are counted exactly. What
  is subtle is that the object which holds the client's handle survives its own
  call: it belongs to a set whose members keep one another without that handle.
* `Ownership_proofs`, on `Ownership`: `RegistrationIsExact`, for any factories,
  priorities and versions, and `OwnershipIsExact`, for any number of objects,
  `FILE`s, descriptors and calls. That the best of the factories registered, if
  there is a best, has its name does not say that the name has one of them:
  `FactoriesInv` does. `VersionsInv` compares the two lists at the first entry of
  each name, empty versions included, which let the next one in. `ContainerInv` adds
  that only singletons asked for exist. `FilesInv` says which objects may close what
  they hold (`Opened`): `allowclose` is set exactly for the `FILE`s that one object
  holds and nobody closed. It is kept by each call of which an assignment is
  composed, and `Apart` follows from what each of them leaves alone.
  The theorems are about `OwnershipSpec`; each step of `Library` is a step of
  `OwnershipNext` or leaves its variables alone.
* `Arithmetic_proofs`, on `UniversalTime`: `TimeIsExact` and `ClockDoesNotJump`, for
  every width, every set of rates, and counts of any size, those with which the
  product wraps included. The cached time says nothing of the offset that the next
  update starts from: the invariant (`ClockInv`) adds that it is the exact one unless
  `astray`, in stale states too, from which the next update recovers.
  `TypeCorrect` and `EveryOtherReceiverIsTold` are for all receivers, and calls that
  add or remove any of them. The invariant of the latter (`NoticeInv`) speaks of the
  list by position: nothing is on it twice, and whoever is still due has slid, or
  stands at the index of the loop or behind it. A removal moves what lies behind it
  down by one place, so the only one that it brings before the next index is the one
  that slides; adding one appends.
  The theorems of `RefCountSpec` and `ClockSpec`, too, are about specifications of
  which each step of `Library` takes a step or leaves the variables alone.
* `Arithmetic_proofs`, on `Numbers`: `ArithmeticIsExact`, for words of any width, all
  operands, buffers of any length and items of any size, and every resolution of the
  clock. A law is about one input, so it is its own invariant, and the work is in
  the lemmas: `Power[]` does what it says (by its approximations, since a recursive
  function is a CHOOSE); division is unique, and can be done in turn; the long
  division of `muldiv()` leaves a remainder below the divisor at each word; the
  words of the product carry what they must; swapping reverses each item and leaves
  the others; the shift that brings the leading bit up is one of the exponents.
* `Arithmetic_proofs`, on `Measures`: `PlacesAreReversible`, for all positions with
  integer co-ordinates, or angles in quarter turns and a distance that is not
  negative (`Places`), all screens, and all transforms that move by vectors and
  rotate by a unit quaternion in halves (`Units`; there are 24). The
  halves of a unit quaternion are all even or all odd; such quaternions
  (`Hurwitz`) are closed under products, which are associative on them, so the
  halving in `Times()` is exact. A rotation is conjugation (`Conj`): it is undone by
  the inverse and chained by products, and keeps products of vectors because it
  keeps those of quaternions, whose parts they are. Co-ordinates come in linearly
  (`TurnedIs`), which gives the matrix (`MatrixIs`), and takes axes to axes with the
  distance along them (`RotatedAlong`); angles are what the products and the
  distances make them (`AngleIs`). Two rotations whose product is one are the same
  (`SameUnits`), which is why `Slerp()` goes the shorter way.
* `PerformanceMonitor_proofs`: `TypeCorrect`, `SumsAreOfTheRing` and
  `UndisturbedTotalsAreExact`, for any threads, ids, length of the rings and bounds.
  That each call takes out of a sum what it overwrites is a lemma on sums with one
  element replaced. For the types, `RingInv` adds that no timing begins after the
  present, nor a sum is below zero: the clock only advances, and an open scope's
  slot is of its `Start()`. For the totals, `ExactInv` says of each
  undisturbed id that it has no more than one open scope (`OneScope`), whose calls
  are both measured or neither (`CallsMeasured`), that the slot at the index is the
  one its `Start()` filled (`TimedSince`), that between scopes the slot before the
  index holds the last `Start()` (`Resting`), and what the totals and extremes are
  (`Lasted`). Sums are recursive functions over sequences of any length: the proofs
  are by induction, from the least number outside a set (`NumbersAreInductive`).
* `Thread_proofs`, on `ThreadSignal`: `SignalTypeCorrect`, `OnlyOneInside`, `EveryWaitTakesASignal`,
  `WakeupsAreNotLost`, for any set of threads. The invariant adds to the
  properties that the mutex's owner is at a step inside the lock, that the wait
  set is the set of blocked threads, and that while the condition is set and
  threads are blocked somebody is under way: waiting for the lock, inside it, or
  about to notify.

* `Parameters_proofs`, on `SystemParameters`: `ReferencesAreReplaced`, for any finite
  set of names, any values and texts, of any length, and any depth of references. The
  result is right when the loops end; before that, the invariant says what the string
  or the list is on the way to. `Becomes` is what the string becomes if the references
  from `p1` on are replaced by what they stand for; it is the expansion of the text at
  all times. The paths, filled together, are the expansion of the text, and the
  first i - 1 have no references. One round keeps this because what a name stands for
  is what its values are filled with, which is where `Grounded` comes in: the names
  have ranks, after k rounds of `Expansions()` those of rank k no longer change, and
  after the last one no name does (`ExpansionsAreFixed`). The rest are lemmas on
  filling a text that is joined from others (`FilledOfBoth`), on where a reference cuts
  it (`RestIsCut`), and on products of sets of strings, for which concatenation is
  associative. `TypeCorrect` is for all texts and values, with braces that do not match
  too: the search stays in a string that shrinks under it. On `ParameterSet`:
  `HierarchyIsKept`, for all sets and names of any depth, from the fact that a name
  under a stem is the stem and a rest, in one way.

Assumptions of the proofs are the named ASSUMEs of the modules, which TLC
evaluates: constants are of the right kind, `Blank` is a value, `NoThread` is not
a thread, `NoCall` not a callback, `NULL` neither object nor root, and objects and
roots are finite and distinct; the names of parameters are finitely many, and values
are strings; buffers hold numbers, and the resolution of the clock divides a second.

## 7. Where the code and its comments part

Four runs end in a counterexample that is a behaviour of the code.

* `bgfile_readytoclose`: `ReadyToClose()` reads `first` and then `first->next`;
  the writer can free that block in between. The comment at BackgroundFile.cpp:71
  considers only `first` becoming NULL. (`first` is a plain pointer to a volatile
  block, BackgroundFile.h:105: whether it is loaded once or twice, both happen.)
* `bgfile_readline`: `readline()` is not overridden, so it reads the file while
  accepted writes are still queued, unlike `fread()` (BackgroundFile.cpp:147).
* `substitution_paths`: an unknown reference in a path list removes the whole path
  (SystemParameters.cpp:269); the comment (:296) says it "is *always* replaced by
  blanks". Nor does `SubstitutePathList()` look up `{env:x}`, although it "is similar to
  the above *except*" for lists (:286); `PerformanceMonitor`, which passes such a path
  (PerformanceMonitor.cpp:42), always goes on to the next.
* `time_documented`: after `Reset()`, "Reset time to zero" (UniversalTime.h:100), the
  old time is told until something else calls `UpdateTime()`, and a change of rate
  brings it back for good.

More are stated in the modules, each with a configuration that shows the trace but is
not among the runs:

* `Thread_stl.cfg`: in the default build `Run()` is called without `RunEx()`, so no
  thread is ever finished or completed, and "if thread has finished, force join"
  (Thread.cpp:181) never applies.
* `Thread_ctor.cfg`: a thread started by the base-class constructor can miss the
  derived `Run()` of a class that has one.
* `Thread_abort.cfg`: an aborted body can mark itself as completed.
* `ThreadSignal_broadcast.cfg`: `Broadcast()`, "Signal all waiting threads"
  (ThreadLock.h:114), releases one: the first waiter to wake clears the flag.
* `ThreadLock_explicit.cfg`: `Lock()` in the default build throws instead of
  waiting, in the thread that holds the lock by `Lock()` too, although the mutex "MUST
  be recursive!" (ThreadLock.cpp:22).
* `UniversalTime_comments.cfg` has three properties, each of which fails when it is
  checked alone:
  * `LongTimesAreExact`: the product 1e9 * numerator wraps after 2^64 / 1e9
    counts, 4.5 days at 48 kHz, not the "more that 500 years" of
    UniversalTime.h:34.
  * `NobodyMissed`: a receiver that removes itself, or one before it, while it
    is told, makes the loop (UniversalTime.h:183) skip the next.
  * `ChangesAreTold`: an assignment changes the time and tells no receiver
    (UniversalTime.h:76).
* `Library_comments.cfg` has seven more, likewise:
  * `CombinationsAreDocumented`: where a key has a value and sub-values, `FindCombination()`
    takes the value; its example (ParameterSet.cpp:444-463) looks below first.
  * `StoredRotationsComeBack`: storing a quaternion leaves the "angle" of an earlier rotation in
    the parameters, which then wins when it is read (3DPosition.cpp:509).
  * `NumbersAreReadBack`: `Evaluate()` of a `uint_t` scans with `"%d"` (misc.cpp:787), which is
    undefined from 2^31 on, where `StringFrom()` writes with `"%u"`.
  * `AnglesAreDocumented`: `GetAngle()` is in 0 to 360 degrees, not "0 - 180"
    (3DPosition.h:382).
  * `ShorterPathIsTaken`: `Slerp()` of nearly opposite quaternions, which are nearly the same
    rotation, returns to the one it did not negate (3DPosition.cpp:472) and passes
    through zero, although it "will take the shorter path" (:457).
  * `LevelsAreDocumented`: the level is `pow(decaypower, -d)`; 2 is not the "inverse square
    law", and 0 is no level at all rather than "no decay" (DistanceModel.h:23).
  * `SectionIsNotReentered`: a handler that is told of the error log's failure to open and
    sends two errors enters the section that "MUST NOT" be called recursively
    (misc.cpp:184), while its static file is being constructed, which is undefined: the
    first call has cleared the guard (:203).

The laws of 3.10 and 3.11 are stated so that they hold, with the following kept out or
said explicitly:

* `SystemParameters`: a parameter that refers to itself keeps the loops, and the
  lock, for ever. In a .conf file `;` begins a comment inside quotes too (:118).
* `ParameterSet`: `Set(name, JSON)` asks the wrong object for its string
  (ParameterSet.cpp:607) and so throws for a plain member; a number with a fraction
  is read by the branch for unsigned integers and stored without it; a set that has
  a value and sub-values of one name loses some of them in JSON.
* `LoadedVersions`: an entry with an empty version does not keep the next one out.
* `UDPSocket`: `bind()` and `connect()` on an open socket lose its descriptor
  (UDPSocket.cpp:100, 126).
* `EnhancedFile`: copying a file opened for writing empties it; assigning one to
  itself closes it.
* `json`: a number of 2^64 or more passes the test for `uint64_t`, and `asUInt64()`
  throws out of `FromJSON()` (json.cpp:88), while `int64_t` catches it; a list of
  parameters is left half read.
* `misc`: `SplitString()` drops what stands between a closing quote and the next
  delimiter (misc.cpp:531).
* `3DPosition`: products of rotations apply the second factor first.
  `GetFromParameters()` and `FromJSON()` that fail have changed the object: its kind of
  co-ordinates, and the values before the missing one (:46). Unary minus of a
  quaternion "rotates in the opposite direction" (:329): it negates all parts, which
  is the same rotation. `Log()` leaves w at 1, not at the 0 of its comment
  (:373), so that `Exp()` of it is the identity.
* `debug_err()`: errors sent through a `StringStream` are never logged (:652).
* `NAMEDFORMATTEDPARAMETER`: its `ToString()` calls `FromString()` with two arguments
  (NamedParameter.h:371), which there is not, and so cannot be compiled when used.
* `StringFrom()` with a full `%` format of the wrong length modifier prints the
  wrong width; `CalcTime()` of a generated time may be a nanosecond low.
* Inputs on which the code does not end, left out of the inputs:
  `INT32uToIEEEExtended(0)` (misc.cpp:379), `ByteSwap()` of zero items,
  `SearchAndReplace()` of an empty string.

## 8. What is not shown

* Memory order. Threads share plain and `volatile` variables without barriers.
  The models take accesses in program order and in effect at once, as on x86 with
  each access reaching memory. Elsewhere the queue and the ring need more.
* Liveness, and anything with ENABLED, is model-checked only. So are
  `TreesAreFaithful`, `StringsAreCutCleanly` and `MessagesArePiecewise`, whose modules
  follow the recursion of the code with RECURSIVE operators, over which the provers
  have no induction. Recursive functions they can handle, by the approximations of section 6: `SplitString()`, for which as many rounds as
  there are characters are enough, is written as one.
* `BackgroundFile`'s copy constructor.
* Several users of one `BackgroundFile`, producers of one ring, or threads on one
  `RefCount`: the code excludes them.
* Single calls of the system or the C library: address resolution, sending and
  receiving, directories, clocks, random numbers, formatted output; the reports and
  log files of `PerformanceMonitor`.
* In `3DPosition`, rounding, `Log()`, `Exp()` and text formats, and interpolation
  between the ends of different rotations: real arithmetic.
* `CallbackHook`, `register`, `OSCompiler` and the Windows files have no logic to
  model.

## 9. How to run

    tlc -config BackgroundFile.cfg BackgroundFile
    tlc -config LockFreeBuffer.cfg MCLockFreeBuffer
    tlc -config Thread.cfg Thread
    tlapm BackgroundFile_proofs.tla

and likewise for the other configurations: `PROJECT.json` names the module and
the configuration of each run, and those that are not listed there begin with the
name of their module, but `Library_comments.cfg` is for `MCLibrary`. The longest takes less than
two minutes,
the longest proof (`Parameters_proofs`) about five minutes.
