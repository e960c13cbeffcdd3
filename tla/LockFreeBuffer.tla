--------------------------- MODULE LockFreeBuffer ---------------------------
(***************************************************************************)
(* LockFreeBuffer (LockFreeBuffer.h): a ring of size = l + 1 slots between *)
(* one producer, the only one to move `wr', and one consumer, the only one *)
(* to move `rd'.  Each side reads the other's index in one step and uses   *)
(* the result in a later one.                                              *)
(*                                                                         *)
(* The client writes ahead without gaps, so `staged' counts the slots from *)
(* `wr' on that it has written and not committed.                          *)
(***************************************************************************)
EXTENDS Integers, Sequences

CONSTANTS Values,      \* what a slot may hold
          Blank,       \* a slot that was never written
          Capacities   \* the arguments l of the constructor and of Resize()

ASSUME BlankAssumption == Blank \in Values
ASSUME CapacitiesAssumption == Capacities \subseteq Nat

VARIABLES
  buffer, size, rd, wr,
  staged,
  wpc, wslot, woff, wn,  \* the producer: its next step, slot held, its offset, count
  rpc, rslot, roff, rn,  \* the consumer; rn is also the index Reset() has read
  seen                   \* the item the consumer read last

ring == <<buffer, size, rd, wr, staged>>
producer == <<wpc, wslot, woff, wn>>
consumer == <<rpc, rslot, roff, rn, seen>>
vars == <<ring, producer, consumer>>

Sizes == {l + 1 : l \in Capacities}

TypeOK ==
  /\ size \in Sizes
  /\ buffer \in [0 .. size - 1 -> Values]
  /\ rd \in 0 .. size - 1
  /\ wr \in 0 .. size - 1
  /\ staged \in 0 .. size - 1
  /\ wpc \in {"idle", "store", "commit"}
  /\ wslot \in Nat /\ woff \in Nat /\ wn \in Nat
  /\ rpc \in {"idle", "load", "commit", "reset"}
  /\ rslot \in Nat /\ roff \in Nat /\ rn \in Nat
  /\ seen \in Values

Init ==
  /\ size \in Sizes
  /\ buffer = [i \in 0 .. size - 1 |-> Blank]
  /\ rd = 0 /\ wr = 0 /\ staged = 0
  /\ wpc = "idle" /\ wslot = 0 /\ woff = 0 /\ wn = 0
  /\ rpc = "idle" /\ rslot = 0 /\ roff = 0 /\ rn = 0
  /\ seen = Blank

Least(m, n) == IF m <= n THEN m ELSE n

\* Mutation: every free slot may be written, so a full ring looks empty.
AllFreeSlots == IF rd > wr THEN rd - wr ELSE rd + size - wr

WriteBuffersAvailable == (rd + 2 * size - wr - 1) % size

ReadBuffersAvailable == (wr + size - rd) % size

-----------------------------------------------------------------------------
(* The producer.                                                           *)

\* GetWriteBuffer(offset) returns a slot ...
GetWriteBuffer(offset) ==
  /\ wpc = "idle"
  /\ offset <= staged
  /\ offset < WriteBuffersAvailable
  /\ wslot' = (wr + offset) % size
  /\ woff' = offset
  /\ wpc' = "store"
  /\ UNCHANGED <<ring, wn, consumer>>

\* ... that the client then fills.
Store(v) ==
  /\ wpc = "store"
  /\ buffer' = [buffer EXCEPT ![wslot] = v]
  /\ staged' = IF woff = staged THEN staged + 1 ELSE staged
  /\ wpc' = "idle"
  /\ wslot' = 0 /\ woff' = 0
  /\ UNCHANGED <<size, rd, wr, wn, consumer>>

\* Mutation: commits n items whether or not there is room for them.
IncrementWriteUnclamped(n) ==
  /\ wpc = "idle"
  /\ WriteBuffersAvailable > 0
  /\ wn' = n
  /\ wpc' = "commit"
  /\ UNCHANGED <<ring, wslot, woff, consumer>>

\* IncrementWrite(n) clamps n to the free slots ...
IncrementWrite(n) ==
  /\ wpc = "idle"
  /\ Least(n, WriteBuffersAvailable) > 0
  /\ wn' = Least(n, WriteBuffersAvailable)
  /\ wpc' = "commit"
  /\ UNCHANGED <<ring, wslot, woff, consumer>>

\* ... and then moves wr.
CommitWrite ==
  /\ wpc = "commit"
  /\ wr' = (wr + wn) % size
  /\ staged' = IF staged > wn THEN staged - wn ELSE 0
  /\ wpc' = "idle"
  /\ wn' = 0
  /\ UNCHANGED <<buffer, size, rd, wslot, woff, consumer>>

-----------------------------------------------------------------------------
(* The consumer.                                                           *)

\* GetReadBuffer(offset) returns a slot ...
GetReadBuffer(offset) ==
  /\ rpc = "idle"
  /\ offset < ReadBuffersAvailable
  /\ rslot' = (rd + offset) % size
  /\ roff' = offset
  /\ rpc' = "load"
  /\ UNCHANGED <<ring, producer, rn, seen>>

\* ... that the client then reads.
Load ==
  /\ rpc = "load"
  /\ seen' = buffer[rslot]
  /\ rpc' = "idle"
  /\ rslot' = 0 /\ roff' = 0
  /\ UNCHANGED <<ring, producer, rn>>

\* IncrementRead(n) clamps n to the readable slots ...
IncrementRead(n) ==
  /\ rpc = "idle"
  /\ Least(n, ReadBuffersAvailable) > 0
  /\ rn' = Least(n, ReadBuffersAvailable)
  /\ rpc' = "commit"
  /\ UNCHANGED <<ring, producer, rslot, roff, seen>>

\* ... and then moves rd.
CommitRead ==
  /\ rpc = "commit"
  /\ rd' = (rd + rn) % size
  /\ rpc' = "idle"
  /\ rn' = 0
  /\ UNCHANGED <<buffer, size, wr, staged, producer, rslot, roff, seen>>

\* Reset(), called by the consumer, reads wr ...
Reset ==
  /\ rpc = "idle"
  /\ rn' = wr
  /\ rpc' = "reset"
  /\ UNCHANGED <<ring, producer, rslot, roff, seen>>

\* ... and then stores it into rd.
CommitReset ==
  /\ rpc = "reset"
  /\ rd' = rn
  /\ rpc' = "idle"
  /\ rn' = 0
  /\ UNCHANGED <<buffer, size, wr, staged, producer, rslot, roff, seen>>

-----------------------------------------------------------------------------
\* Mutation: changes the slots and forgets the indices.
ResizeKeepsIndices(l) ==
  /\ wpc = "idle" /\ rpc = "idle"
  /\ size' = l + 1
  /\ buffer' = [i \in 0 .. l |-> IF i < size THEN buffer[i] ELSE Blank]
  /\ staged' = 0
  /\ UNCHANGED <<rd, wr, producer, consumer>>

\* Resize(l), while neither side is inside an operation.
Resize(l) ==
  /\ wpc = "idle" /\ rpc = "idle"
  /\ size' = l + 1
  /\ buffer' = [i \in 0 .. l |-> IF i < size THEN buffer[i] ELSE Blank]
  /\ rd' = 0 /\ wr' = 0 /\ staged' = 0
  /\ UNCHANGED <<producer, consumer>>

ProducerNext ==
  \/ \E offset \in 0 .. size : GetWriteBuffer(offset)
  \/ \E v \in Values : Store(v)
  \/ \E n \in 1 .. size : IncrementWrite(n)
  \/ CommitWrite

ConsumerNext ==
  \/ \E offset \in 0 .. size : GetReadBuffer(offset)
  \/ Load
  \/ \E n \in 1 .. size : IncrementRead(n)
  \/ CommitRead
  \/ Reset
  \/ CommitReset

Next == ProducerNext \/ ConsumerNext \/ \E l \in Capacities : Resize(l)

Spec == Init /\ [][Next]_vars

-----------------------------------------------------------------------------
(* Safety.                                                                 *)

Readable == {(rd + i) % size : i \in 0 .. ReadBuffersAvailable - 1}

(* A slot handed out for writing stays outside what can be read, and a     *)
(* slot handed out for reading stays inside it until the consumer itself   *)
(* moves on, whatever the other side does in between: an unread item is    *)
(* never overwritten.                                                      *)
SlotsDisjoint ==
  /\ wpc = "store" => wslot \notin Readable
  /\ rpc = "load" => rslot \in Readable

(* A count clamped against an index read earlier is still within bounds    *)
(* when the own index moves: the indices never overtake each other.        *)
NoOvertaking ==
  /\ wpc = "commit" => wn <= WriteBuffersAvailable
  /\ rpc = "commit" => rn <= ReadBuffersAvailable

(* The ring is a bounded FIFO: items come out in the order they were       *)
(* committed, none lost, duplicated or torn by write-ahead, read-ahead,    *)
(* wrap-around or a concurrent Reset().                                    *)
Item(i) == buffer[(rd + i - 1) % size]
Ahead(i) == buffer[(wr + i - 1) % size]
FIFO == INSTANCE BoundedFIFO
          WITH queue <- [i \in 1 .. ReadBuffersAvailable |-> Item(i)],
               staged <- [i \in 1 .. staged |-> Ahead(i)],
               limit <- size - 1
ImplementsFIFO == FIFO!Spec
=============================================================================
