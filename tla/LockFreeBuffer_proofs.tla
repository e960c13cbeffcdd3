------------------------ MODULE LockFreeBuffer_proofs ------------------------
(***************************************************************************)
(* Safety of LockFreeBuffer for every capacity and every set of values.    *)
(***************************************************************************)
EXTENDS LockFreeBuffer, SequenceTheorems, TLAPS

(* Indices move around the ring: an addition wraps at most once.           *)
LEMMA Wrap ==
  ASSUME NEW s \in Nat \ {0}, NEW a \in 0 .. s - 1, NEW n \in 0 .. s - 1
  PROVE  (a + n) % s = IF a + n < s THEN a + n ELSE a + n - s
BY SMT

(* The two counts, without the modulus: they always share out size - 1.    *)
LEMMA Readables ==
  ASSUME NEW s \in Nat \ {0}, NEW r \in 0 .. s - 1, NEW w \in 0 .. s - 1
  PROVE  (w + s - r) % s = IF w >= r THEN w - r ELSE w + s - r
BY SMT

LEMMA Writables ==
  ASSUME NEW s \in Nat \ {0}, NEW r \in 0 .. s - 1, NEW w \in 0 .. s - 1
  PROVE  (r + 2 * s - w - 1) % s = IF r > w THEN r - w - 1 ELSE r + s - w - 1
BY SMT

(* Moving rd up to an index between rd and wr only frees slots.            *)
LEMMA SnapshotKeepsRoom ==
  ASSUME NEW s \in Nat \ {0}, NEW r \in 0 .. s - 1, NEW w \in 0 .. s - 1, NEW n \in 0 .. s - 1,
         (IF n >= r THEN n - r ELSE n + s - r) <= (IF w >= r THEN w - r ELSE w + s - r)
  PROVE  (IF n > w THEN n - w - 1 ELSE n + s - w - 1) >= (IF r > w THEN r - w - 1 ELSE r + s - w - 1)
BY SMT

(***************************************************************************)
(* The inductive invariant: what each side found out when it read the      *)
(* other's index still bounds what it may do now.                          *)
(***************************************************************************)
ProducerInv ==
  /\ staged <= WriteBuffersAvailable
  /\ wpc = "store" => woff <= staged /\ woff < WriteBuffersAvailable /\ wslot = (wr + woff) % size
  /\ wpc = "commit" => wn > 0 /\ wn <= WriteBuffersAvailable

\* Reset() holds an index the producer has reached and rd has not passed.
ConsumerInv ==
  /\ rpc = "load" => roff < ReadBuffersAvailable /\ rslot = (rd + roff) % size
  /\ rpc = "commit" => rn > 0 /\ rn <= ReadBuffersAvailable
  /\ rpc = "reset" => rn < size /\ (rn + size - rd) % size <= ReadBuffersAvailable

IInv == TypeOK /\ ProducerInv /\ ConsumerInv

LEMMA SizePositive == TypeOK => size \in Nat \ {0}
BY CapacitiesAssumption DEF TypeOK, Sizes

LEMMA Counts ==
  ASSUME TypeOK
  PROVE  /\ ReadBuffersAvailable = IF wr >= rd THEN wr - rd ELSE wr + size - rd
         /\ WriteBuffersAvailable = IF rd > wr THEN rd - wr - 1 ELSE rd + size - wr - 1
BY SizePositive, Readables, Writables DEF TypeOK, ReadBuffersAvailable, WriteBuffersAvailable

LEMMA InitIInv == Init => IInv
<1> SUFFICES ASSUME Init PROVE IInv
  OBVIOUS
<1>1. TypeOK
  BY CapacitiesAssumption, BlankAssumption DEF Init, TypeOK, Sizes
<1>2. staged <= WriteBuffersAvailable
  BY <1>1, Counts, SizePositive DEF Init
<1>3. QED
  BY <1>1, <1>2 DEF Init, IInv, ProducerInv, ConsumerInv

LEMMA StepIInv == IInv /\ [Next]_vars => IInv'
<1> SUFFICES ASSUME IInv, [Next]_vars PROVE IInv'
  OBVIOUS
<1>1. /\ size \in Nat \ {0} /\ rd \in 0 .. size - 1 /\ wr \in 0 .. size - 1
      /\ ReadBuffersAvailable = IF wr >= rd THEN wr - rd ELSE wr + size - rd
      /\ WriteBuffersAvailable = IF rd > wr THEN rd - wr - 1 ELSE rd + size - wr - 1
  BY SizePositive, Counts DEF IInv, TypeOK
<1>2. ASSUME TypeOK'
      PROVE  /\ ReadBuffersAvailable' = IF wr' >= rd' THEN wr' - rd' ELSE wr' + size' - rd'
             /\ WriteBuffersAvailable' = IF rd' > wr' THEN rd' - wr' - 1 ELSE rd' + size' - wr' - 1
  <2>1. size' \in Nat \ {0} /\ rd' \in 0 .. size' - 1 /\ wr' \in 0 .. size' - 1
    <3>1. size' \in Sizes /\ rd' \in 0 .. size' - 1 /\ wr' \in 0 .. size' - 1
      BY <1>2 DEF TypeOK
    <3>2. \A s \in Sizes : s \in Nat \ {0}
      BY CapacitiesAssumption DEF Sizes
    <3>3. QED
      BY <3>1, <3>2
  <2>2. (wr' + size' - rd') % size' = IF wr' >= rd' THEN wr' - rd' ELSE wr' + size' - rd'
    BY <2>1, Readables
  <2>3. (rd' + 2 * size' - wr' - 1) % size'
          = IF rd' > wr' THEN rd' - wr' - 1 ELSE rd' + size' - wr' - 1
    BY <2>1, Writables
  <2>4. QED
    BY <2>2, <2>3 DEF ReadBuffersAvailable, WriteBuffersAvailable
<1> USE DEF ring, producer, consumer, Least
<1>3. ASSUME NEW offset \in 0 .. size, GetWriteBuffer(offset) PROVE IInv'
  BY <1>1, <1>2, <1>3 DEF GetWriteBuffer, IInv, TypeOK, ProducerInv, ConsumerInv, ReadBuffersAvailable, WriteBuffersAvailable
<1>4. ASSUME NEW v \in Values, Store(v) PROVE IInv'
  BY <1>1, <1>2, <1>4 DEF Store, IInv, TypeOK, ProducerInv, ConsumerInv, ReadBuffersAvailable, WriteBuffersAvailable
<1>5. ASSUME NEW n \in 1 .. size, IncrementWrite(n) PROVE IInv'
  BY <1>1, <1>2, <1>5 DEF IncrementWrite, IInv, TypeOK, ProducerInv, ConsumerInv, ReadBuffersAvailable, WriteBuffersAvailable
<1>6. CASE CommitWrite
  <2>1. wn \in 0 .. size - 1
    BY <1>1, <1>6 DEF CommitWrite, IInv, TypeOK, ProducerInv
  <2>2. wr' = IF wr + wn < size THEN wr + wn ELSE wr + wn - size
    <3>1. (wr + wn) % size = IF wr + wn < size THEN wr + wn ELSE wr + wn - size
      BY <1>1, <2>1, Wrap
    <3>2. QED
      BY <1>6, <3>1 DEF CommitWrite
  <2>3. TypeOK'
    BY <1>1, <1>6, <2>2 DEF CommitWrite, IInv, TypeOK, ProducerInv
  <2>4. WriteBuffersAvailable' = WriteBuffersAvailable - wn /\ ReadBuffersAvailable' = ReadBuffersAvailable + wn
    BY <1>1, <1>2, <1>6, <2>1, <2>2, <2>3 DEF CommitWrite, IInv, ProducerInv
  <2>5. QED
    BY <1>1, <1>6, <2>3, <2>4 DEF CommitWrite, IInv, TypeOK, ProducerInv, ConsumerInv
<1>7. ASSUME NEW offset \in 0 .. size, GetReadBuffer(offset) PROVE IInv'
  BY <1>1, <1>2, <1>7 DEF GetReadBuffer, IInv, TypeOK, ProducerInv, ConsumerInv, ReadBuffersAvailable, WriteBuffersAvailable
<1>8. CASE Load
  BY <1>1, <1>2, <1>8 DEF Load, IInv, TypeOK, ProducerInv, ConsumerInv, ReadBuffersAvailable, WriteBuffersAvailable
<1>9. ASSUME NEW n \in 1 .. size, IncrementRead(n) PROVE IInv'
  BY <1>1, <1>2, <1>9 DEF IncrementRead, IInv, TypeOK, ProducerInv, ConsumerInv, ReadBuffersAvailable, WriteBuffersAvailable
<1>10. CASE CommitRead
  <2>1. rn \in 0 .. size - 1
    BY <1>1, <1>10 DEF CommitRead, IInv, TypeOK, ConsumerInv
  <2>2. rd' = IF rd + rn < size THEN rd + rn ELSE rd + rn - size
    <3>1. (rd + rn) % size = IF rd + rn < size THEN rd + rn ELSE rd + rn - size
      BY <1>1, <2>1, Wrap
    <3>2. QED
      BY <1>10, <3>1 DEF CommitRead
  <2>3. TypeOK'
    BY <1>1, <1>10, <2>2 DEF CommitRead, IInv, TypeOK, ConsumerInv
  <2>4. WriteBuffersAvailable' = WriteBuffersAvailable + rn
    BY <1>1, <1>2, <1>10, <2>1, <2>2, <2>3 DEF CommitRead, IInv, ConsumerInv
  <2>5. QED
    BY <1>1, <1>10, <2>3, <2>4 DEF CommitRead, IInv, TypeOK, ProducerInv, ConsumerInv
<1>11. CASE Reset
  BY <1>1, <1>2, <1>11 DEF Reset, IInv, TypeOK, ProducerInv, ConsumerInv, ReadBuffersAvailable, WriteBuffersAvailable
<1>12. CASE CommitReset
  <2>1. rn \in 0 .. size - 1 /\ rn = rd' /\ wr' = wr /\ size' = size
    BY <1>1, <1>12 DEF CommitReset, IInv, TypeOK, ConsumerInv
  <2>2. (IF rn >= rd THEN rn - rd ELSE rn + size - rd) <= ReadBuffersAvailable
    BY <1>1, <1>12, <2>1, Readables DEF CommitReset, IInv, ConsumerInv
  <2>3. TypeOK'
    BY <1>1, <1>12, <2>1 DEF CommitReset, IInv, TypeOK
  <2>4. WriteBuffersAvailable' >= WriteBuffersAvailable
    <3>1. WriteBuffersAvailable' = IF rn > wr THEN rn - wr - 1 ELSE rn + size - wr - 1
      BY <1>2, <2>1, <2>3
    <3>2. (IF rn >= rd THEN rn - rd ELSE rn + size - rd) <= (IF wr >= rd THEN wr - rd ELSE wr + size - rd)
      BY <1>1, <2>2
    <3>3. rn \in 0 .. size - 1
      BY <2>1
    <3>4. QED
      BY <1>1, <3>1, <3>2, <3>3, SnapshotKeepsRoom
  <2>5. QED
    BY <1>1, <1>2, <1>12, <2>3, <2>4 DEF CommitReset, IInv, TypeOK, ProducerInv, ConsumerInv
<1>13. ASSUME NEW l \in Capacities, Resize(l) PROVE IInv'
  <2>1. TypeOK'
    BY <1>1, <1>13, CapacitiesAssumption, BlankAssumption, SMTT(30) DEF Resize, IInv, TypeOK, Sizes
  <2>2. QED
    BY <1>1, <1>2, <1>13, <2>1 DEF Resize, IInv, TypeOK, ProducerInv, ConsumerInv
<1>14. CASE UNCHANGED vars
  BY <1>14 DEF vars, IInv, TypeOK, ProducerInv, ConsumerInv, ReadBuffersAvailable, WriteBuffersAvailable
<1>15. QED
  BY <1>3, <1>4, <1>5, <1>6, <1>7, <1>8, <1>9, <1>10, <1>11, <1>12, <1>13, <1>14 DEF Next, ProducerNext, ConsumerNext

LEMMA IInvHolds == Spec => []IInv
BY InitIInv, StepIInv, PTL DEF Spec

-----------------------------------------------------------------------------
(* Both indices, and every slot handed out, stay inside the ring.          *)
THEOREM TypeCorrect == Spec => []TypeOK
<1>1. IInv => TypeOK
  BY DEF IInv
<1>2. QED
  BY <1>1, IInvHolds, PTL

(* A count checked against an old index still holds when it is used.       *)
THEOREM IndicesNeverOvertake == Spec => []NoOvertaking
<1>1. IInv => NoOvertaking
  BY DEF IInv, ProducerInv, ConsumerInv, NoOvertaking
<1>2. QED
  BY <1>1, IInvHolds, PTL

(* The producer never holds a slot the consumer can read.                  *)
THEOREM UnreadItemsAreSafe == Spec => []SlotsDisjoint
<1>1. ASSUME IInv PROVE SlotsDisjoint
  <2>1. /\ size \in Nat \ {0} /\ rd \in 0 .. size - 1 /\ wr \in 0 .. size - 1
        /\ ReadBuffersAvailable = IF wr >= rd THEN wr - rd ELSE wr + size - rd
        /\ WriteBuffersAvailable = IF rd > wr THEN rd - wr - 1 ELSE rd + size - wr - 1
    BY <1>1, SizePositive, Counts DEF IInv, TypeOK
  <2>2. ASSUME wpc = "store", NEW i \in 0 .. ReadBuffersAvailable - 1
        PROVE  wslot # (rd + i) % size
    <3>1. woff < WriteBuffersAvailable /\ woff \in Nat /\ wslot = (wr + woff) % size
      BY <1>1, <2>2 DEF IInv, TypeOK, ProducerInv
    <3>2. woff \in 0 .. size - 1 /\ i \in 0 .. size - 1
      BY <2>1, <3>1
    <3>3. (wr + woff) % size = IF wr + woff < size THEN wr + woff ELSE wr + woff - size
      BY <2>1, <3>2, Wrap
    <3>4. (rd + i) % size = IF rd + i < size THEN rd + i ELSE rd + i - size
      BY <2>1, <3>2, Wrap
    <3>5. CASE wr >= rd
      <4>1. rd + i < wr /\ (rd + i) % size = rd + i
        BY <2>1, <3>2, <3>4, <3>5
      <4>2. wslot >= wr \/ wslot < rd
        BY <2>1, <3>1, <3>2, <3>3, <3>5
      <4>3. QED
        BY <2>1, <3>2, <4>1, <4>2
    <3>6. CASE wr < rd
      <4>1. woff < rd - wr - 1
        BY <2>1, <3>1, <3>6
      <4>2. wslot >= wr /\ wslot < rd
        BY <2>1, <3>1, <3>2, <3>3, <4>1
      <4>3. (rd + i) % size >= rd \/ (rd + i) % size < wr
        BY <2>1, <3>2, <3>4, <3>6
      <4>4. QED
        BY <2>1, <4>2, <4>3
    <3>7. QED
      BY <2>1, <3>5, <3>6
  <2>3. ASSUME rpc = "load" PROVE rslot \in Readable
    BY <1>1, <2>1, <2>3, SMTT(30) DEF IInv, TypeOK, ConsumerInv, Readable
  <2>4. QED
    BY <2>2, <2>3 DEF SlotsDisjoint, Readable
<1>2. QED
  BY <1>1, IInvHolds, PTL

-----------------------------------------------------------------------------
(***************************************************************************)
(* The ring implements BoundedFIFO: the queue is what lies between rd and  *)
(* wr, the staged items are those from wr on.                              *)
(***************************************************************************)

(* Sequences as functions.                                                 *)
LEMMA FunctionIsSeq ==
  ASSUME NEW S, NEW n \in Nat, NEW f \in [1 .. n -> S]
  PROVE  f \in Seq(S) /\ Len(f) = n
OBVIOUS

LEMMA ConcatFunction ==
  ASSUME NEW S, NEW s \in Seq(S), NEW t \in Seq(S)
  PROVE  s \o t = [i \in 1 .. Len(s) + Len(t) |-> IF i <= Len(s) THEN s[i] ELSE t[i - Len(s)]]
<1>1. s \o t \in Seq(S) /\ Len(s \o t) = Len(s) + Len(t)
      /\ \A i \in 1 .. Len(s) + Len(t) : (s \o t)[i] = IF i <= Len(s) THEN s[i] ELSE t[i - Len(s)]
  BY ConcatProperties
<1>2. s \o t \in [1 .. Len(s) + Len(t) -> S]
  BY <1>1, LenProperties
<1> DEFINE u == s \o t
           m == Len(s) + Len(t)
<1>3. u \in [1 .. m -> S] /\ \A i \in 1 .. m : u[i] = IF i <= Len(s) THEN s[i] ELSE t[i - Len(s)]
  BY <1>1, <1>2
<1> HIDE DEF u, m
<1>4. u = [i \in 1 .. m |-> IF i <= Len(s) THEN s[i] ELSE t[i - Len(s)]]
  BY <1>3
<1>5. QED
  BY <1>4 DEF u, m

LEMMA SubSeqFunction ==
  ASSUME NEW S, NEW s \in Seq(S), NEW k \in 0 .. Len(s)
  PROVE  SubSeq(s, k + 1, Len(s)) = [i \in 1 .. Len(s) - k |-> s[i + k]]
<1> DEFINE n == Len(s)
           u == SubSeq(s, k + 1, n)
<1>1. n \in Nat /\ \A i \in k + 1 .. n : s[i] \in S
  BY LenProperties
<1>2. u \in Seq(S) /\ Len(u) = (IF k + 1 <= n THEN n - (k + 1) + 1 ELSE 0)
      /\ \A i \in 1 .. n - (k + 1) + 1 : u[i] = s[k + 1 + i - 1]
  BY <1>1, SubSeqProperties
<1>3. u \in [1 .. Len(u) -> S]
  BY <1>2, LenProperties
<1> HIDE DEF n, u
<1>4. (IF k + 1 <= n THEN n - (k + 1) + 1 ELSE 0) = n - k /\ n - (k + 1) + 1 = n - k
      /\ \A i \in 1 .. n - k : k + 1 + i - 1 = i + k
  BY <1>1 DEF n
<1>5. u \in [1 .. n - k -> S] /\ \A i \in 1 .. n - k : u[i] = s[i + k]
  BY <1>2, <1>3, <1>4
<1>6. u = [i \in 1 .. n - k |-> s[i + k]]
  BY <1>5
<1>7. QED
  BY <1>6 DEF n, u

LEMMA AppendFunction ==
  ASSUME NEW S, NEW s \in Seq(S), NEW v \in S
  PROVE  Append(s, v) = [i \in 1 .. Len(s) + 1 |-> IF i = Len(s) + 1 THEN v ELSE s[i]]
<1> DEFINE u == Append(s, v)
           n == Len(s)
<1>1. n \in Nat /\ u \in Seq(S) /\ Len(u) = n + 1 /\ (\A i \in 1 .. n : u[i] = s[i]) /\ u[n + 1] = v
  BY AppendProperties, LenProperties
<1>2. u \in [1 .. n + 1 -> S]
  BY <1>1, LenProperties
<1> HIDE DEF u, n
<1>3. \A i \in 1 .. n + 1 : u[i] = IF i = n + 1 THEN v ELSE s[i]
  BY <1>1
<1>4. u = [i \in 1 .. n + 1 |-> IF i = n + 1 THEN v ELSE s[i]]
  BY <1>2, <1>3
<1>5. QED
  BY <1>4 DEF u, n

\* Counted from 1.
LEMMA Slot ==
  ASSUME NEW s \in Nat \ {0}, NEW a \in 0 .. s - 1, NEW i \in 1 .. s
  PROVE  (a + i - 1) % s = IF a + i - 1 < s THEN a + i - 1 ELSE a + i - 1 - s
BY SMT

\* What can be read lies apart from what can be written.
LEMMA Apart ==
  ASSUME NEW s \in Nat \ {0}, NEW r \in 0 .. s - 1, NEW w \in 0 .. s - 1, NEW k \in Nat, NEW i \in Nat \ {0},
         i <= (IF w >= r THEN w - r ELSE w + s - r),
         k < s - 1 - (IF w >= r THEN w - r ELSE w + s - r)
  PROVE  (IF r + i - 1 < s THEN r + i - 1 ELSE r + i - 1 - s) # (IF w + k < s THEN w + k ELSE w + k - s)
BY SMT

Queue == [i \in 1 .. ReadBuffersAvailable |-> Item(i)]
Staged == [i \in 1 .. staged |-> Ahead(i)]

\* The indices alone.
LEMMA Indices ==
  ASSUME IInv
  PROVE  /\ size \in Nat \ {0} /\ rd \in 0 .. size - 1 /\ wr \in 0 .. size - 1 /\ staged \in Nat
         /\ ReadBuffersAvailable = IF wr >= rd THEN wr - rd ELSE wr + size - rd
         /\ ReadBuffersAvailable \in 0 .. size - 1
         /\ WriteBuffersAvailable = size - 1 - ReadBuffersAvailable
         /\ staged <= WriteBuffersAvailable
<1>1. /\ size \in Nat \ {0} /\ rd \in 0 .. size - 1 /\ wr \in 0 .. size - 1 /\ staged \in Nat
      /\ ReadBuffersAvailable = IF wr >= rd THEN wr - rd ELSE wr + size - rd
      /\ WriteBuffersAvailable = IF rd > wr THEN rd - wr - 1 ELSE rd + size - wr - 1
      /\ staged <= WriteBuffersAvailable
  BY SizePositive, Counts DEF IInv, TypeOK, ProducerInv
<1>2. QED
  BY <1>1

LEMMA Mapped ==
  ASSUME IInv
  PROVE  /\ size \in Nat \ {0} /\ rd \in 0 .. size - 1 /\ wr \in 0 .. size - 1
         /\ ReadBuffersAvailable \in 0 .. size - 1 /\ staged \in Nat /\ staged <= WriteBuffersAvailable
         /\ ReadBuffersAvailable = IF wr >= rd THEN wr - rd ELSE wr + size - rd
         /\ WriteBuffersAvailable = size - 1 - ReadBuffersAvailable
         /\ Queue \in Seq(Values) /\ Len(Queue) = ReadBuffersAvailable
         /\ \A i \in 1 .. ReadBuffersAvailable : Queue[i] = Item(i)
         /\ Staged \in Seq(Values) /\ Len(Staged) = staged
         /\ \A i \in 1 .. staged : Staged[i] = Ahead(i)
<1>1. /\ size \in Nat \ {0} /\ rd \in 0 .. size - 1 /\ wr \in 0 .. size - 1 /\ staged \in Nat
      /\ ReadBuffersAvailable = IF wr >= rd THEN wr - rd ELSE wr + size - rd
      /\ WriteBuffersAvailable = IF rd > wr THEN rd - wr - 1 ELSE rd + size - wr - 1
      /\ staged <= WriteBuffersAvailable
  BY SizePositive, Counts DEF IInv, TypeOK, ProducerInv
<1>2. ReadBuffersAvailable \in 0 .. size - 1 /\ WriteBuffersAvailable = size - 1 - ReadBuffersAvailable
  BY <1>1
<1>3. buffer \in [0 .. size - 1 -> Values]
  BY DEF IInv, TypeOK
<1>4. ASSUME NEW i \in 1 .. size PROVE Item(i) \in Values /\ Ahead(i) \in Values
  <2>1. (rd + i - 1) % size \in 0 .. size - 1 /\ (wr + i - 1) % size \in 0 .. size - 1
    BY <1>1
  <2>2. QED
    BY <1>3, <2>1 DEF Item, Ahead
<1>5. Queue \in [1 .. ReadBuffersAvailable -> Values]
  <2>1. \A i \in 1 .. ReadBuffersAvailable : i \in 1 .. size
    BY <1>1, <1>2
  <2>2. QED
    BY <1>4, <2>1 DEF Queue
<1>6. Staged \in [1 .. staged -> Values]
  <2>1. \A i \in 1 .. staged : i \in 1 .. size
    BY <1>1, <1>2
  <2>2. QED
    BY <1>4, <2>1 DEF Staged
<1>7. Queue \in Seq(Values) /\ Len(Queue) = ReadBuffersAvailable
  BY <1>2, <1>5, FunctionIsSeq
<1>8. Staged \in Seq(Values) /\ Len(Staged) = staged
  BY <1>1, <1>6, FunctionIsSeq
<1>9. QED
  BY <1>1, <1>2, <1>7, <1>8 DEF Queue, Staged

\* Storing an item changes neither the queue nor the other staged items.
LEMMA StoreStages ==
  ASSUME IInv, IInv', NEW v \in Values, Store(v)
  PROVE  FIFO!Stage(woff, v) /\ woff \in 0 .. size - 1
<1>1. /\ woff \in Nat /\ woff <= staged /\ woff < WriteBuffersAvailable /\ wslot = (wr + woff) % size
      /\ buffer \in [0 .. size - 1 -> Values]
  BY DEF IInv, TypeOK, ProducerInv, Store
<1>2. /\ buffer' = [buffer EXCEPT ![wslot] = v] /\ staged' = IF woff = staged THEN staged + 1 ELSE staged
      /\ UNCHANGED <<size, rd, wr, seen>>
  BY DEF Store, consumer
<1>3. woff \in 0 .. size - 1 /\ wslot = IF wr + woff < size THEN wr + woff ELSE wr + woff - size
  <2>1. woff \in 0 .. size - 1
    BY <1>1, Indices
  <2>2. QED
    BY <1>1, <2>1, Indices, Wrap
<1>4. wslot \in 0 .. size - 1
  BY <1>3, Indices
<1>5. ASSUME NEW i \in 1 .. ReadBuffersAvailable PROVE (rd + i - 1) % size # wslot /\ (rd + i - 1) % size \in 0 .. size - 1
  <2>1. (rd + i - 1) % size = IF rd + i - 1 < size THEN rd + i - 1 ELSE rd + i - 1 - size
    <3>1. i \in 1 .. size
      BY Indices
    <3>2. QED
      BY <3>1, Slot, Indices
  <2>2. woff < size - 1 - ReadBuffersAvailable
    BY <1>1, Indices
  <2>3. (rd + i - 1) % size \in 0 .. size - 1
    BY Indices
  <2>4. (IF rd + i - 1 < size THEN rd + i - 1 ELSE rd + i - 1 - size) # (IF wr + woff < size THEN wr + woff ELSE wr + woff - size)
    <3>1. i \in Nat \ {0} /\ i <= ReadBuffersAvailable /\ woff \in Nat
      BY <1>1, Indices
    <3>2. i <= (IF wr >= rd THEN wr - rd ELSE wr + size - rd)
          /\ woff < size - 1 - (IF wr >= rd THEN wr - rd ELSE wr + size - rd)
      BY <2>2, <3>1, Indices
    <3>3. QED
      BY <3>1, <3>2, Indices, Apart
  <2>5. QED
    BY <1>3, <2>1, <2>3, <2>4
<1>6. ASSUME NEW i \in 1 .. staged + 1, i <= WriteBuffersAvailable
      PROVE  ((wr + i - 1) % size = wslot <=> i = woff + 1) /\ (wr + i - 1) % size \in 0 .. size - 1
  <2>1. i \in 1 .. size
    BY <1>6, Indices
  <2>2. (wr + i - 1) % size = IF wr + i - 1 < size THEN wr + i - 1 ELSE wr + i - 1 - size
    BY <2>1, Slot, Indices
  <2>3. QED
    BY <1>3, <2>1, <2>2, Indices
<1>7. ReadBuffersAvailable' = ReadBuffersAvailable
  BY <1>2 DEF ReadBuffersAvailable
<1>8. Queue' = Queue
  <2>1. \A i \in 1 .. ReadBuffersAvailable : Item(i)' = Item(i)
    BY <1>1, <1>2, <1>5 DEF Item
  <2>2. QED
    BY <1>7, <2>1 DEF Queue
<1>9. ASSUME NEW i \in 1 .. staged + 1, i <= WriteBuffersAvailable
      PROVE  Ahead(i)' = IF i = woff + 1 THEN v ELSE Ahead(i)
  BY <1>1, <1>2, <1>4, <1>6, <1>9 DEF Ahead
<1>10. CASE woff = staged
  <2>1. staged' = staged + 1 /\ \A i \in 1 .. staged + 1 : i <= WriteBuffersAvailable
    BY <1>1, <1>2, <1>10, Mapped
  <2>2. \A i \in 1 .. staged + 1 : Ahead(i)' = IF i = staged + 1 THEN v ELSE Staged[i]
    <3>1. \A i \in 1 .. staged + 1 : i # staged + 1 => i \in 1 .. staged
      BY Mapped
    <3>2. QED
      BY <1>9, <1>10, <2>1, <3>1, Mapped
  <2>3. Staged' = [i \in 1 .. staged + 1 |-> IF i = staged + 1 THEN v ELSE Staged[i]]
    BY <2>1, <2>2 DEF Staged
  <2>4. Staged' = Append(Staged, v)
    BY <2>3, Mapped, AppendFunction
  <2>5. woff = Len(Staged) /\ Len(Queue) + woff < size - 1
    BY <1>1, <1>10, Mapped
  <2>6. woff <= Len(Staged)
    BY <2>5, Mapped
  <2>7. Staged' = IF woff = Len(Staged) THEN Append(Staged, v) ELSE [Staged EXCEPT ![woff + 1] = v]
    BY <2>4, <2>5
  <2>8. UNCHANGED <<Queue, size - 1, seen>>
    BY <1>2, <1>8
  <2>9. QED
    BY <1>3, <2>5, <2>6, <2>7, <2>8 DEF FIFO!Stage, Queue, Staged
<1>11. CASE woff # staged
  <2>1. staged' = staged /\ woff + 1 \in 1 .. staged /\ \A i \in 1 .. staged : i \in 1 .. staged + 1 /\ i <= WriteBuffersAvailable
    BY <1>1, <1>2, <1>11, Mapped
  <2>2. \A i \in 1 .. staged : Ahead(i)' = IF i = woff + 1 THEN v ELSE Staged[i]
    BY <1>9, <2>1, Mapped
  <2>3. Staged' = [i \in 1 .. staged |-> IF i = woff + 1 THEN v ELSE Staged[i]]
    BY <2>1, <2>2 DEF Staged
  <2>4. Staged' = [Staged EXCEPT ![woff + 1] = v]
    BY <2>3 DEF Staged
  <2>5. woff <= Len(Staged) /\ woff # Len(Staged) /\ Len(Queue) + woff < size - 1
    BY <1>1, <1>11, Mapped, SMTT(30)
  <2>6. Staged' = IF woff = Len(Staged) THEN Append(Staged, v) ELSE [Staged EXCEPT ![woff + 1] = v]
    BY <2>4, <2>5
  <2>7. UNCHANGED <<Queue, size - 1, seen>>
    BY <1>2, <1>8
  <2>8. QED
    BY <1>3, <2>5, <2>6, <2>7 DEF FIFO!Stage, Queue, Staged
<1>12. QED
  BY <1>10, <1>11

\* Moving wr appends the staged items to the queue.
LEMMA CommitCommits ==
  ASSUME IInv, IInv', CommitWrite
  PROVE  FIFO!Commit(wn) /\ wn \in 1 .. size - 1
<1>1. wn \in Nat /\ wn > 0 /\ wn <= WriteBuffersAvailable /\ buffer \in [0 .. size - 1 -> Values]
  BY DEF IInv, TypeOK, ProducerInv, CommitWrite
<1>2. /\ wr' = (wr + wn) % size /\ staged' = IF staged > wn THEN staged - wn ELSE 0
      /\ UNCHANGED <<buffer, size, rd, seen>>
  BY DEF CommitWrite, consumer
<1>3. wn \in 1 .. size - 1 /\ wr' = IF wr + wn < size THEN wr + wn ELSE wr + wn - size
  <2>1. wn \in 1 .. size - 1 /\ wn \in 0 .. size - 1
    BY <1>1, Indices
  <2>2. (wr + wn) % size = IF wr + wn < size THEN wr + wn ELSE wr + wn - size
    BY <2>1, Indices, Wrap
  <2>3. QED
    BY <1>2, <2>1, <2>2
<1>4. ReadBuffersAvailable' = ReadBuffersAvailable + wn
  <2>1. ReadBuffersAvailable' = (wr' + size - rd) % size
    BY <1>2 DEF ReadBuffersAvailable
  <2>2. wr' \in 0 .. size - 1
    BY <1>3, Indices
  <2>3. (wr' + size - rd) % size = IF wr' >= rd THEN wr' - rd ELSE wr' + size - rd
    BY <2>2, Indices, Readables
  <2>4. ReadBuffersAvailable' = IF wr' >= rd THEN wr' - rd ELSE wr' + size - rd
    BY <2>1, <2>3
  <2>5. wn <= size - 1 - ReadBuffersAvailable
    BY <1>1, Indices
  <2>6. QED
    BY <1>3, <2>4, <2>5, Indices
<1> DEFINE items == [i \in 1 .. wn |-> Ahead(i)]
<1>5. \A i \in 1 .. wn : Ahead(i) \in Values
  <2>1. \A i \in 1 .. wn : (wr + i - 1) % size \in 0 .. size - 1
    BY <1>3, Indices
  <2>2. QED
    BY <1>1, <2>1 DEF Ahead
<1>6. items \in [1 .. wn -> Values] /\ items \in Seq(Values) /\ Len(items) = wn
  BY <1>1, <1>5, FunctionIsSeq
<1>7. ASSUME NEW i \in 1 .. ReadBuffersAvailable + wn
      PROVE  Item(i) = IF i <= ReadBuffersAvailable THEN Queue[i] ELSE items[i - ReadBuffersAvailable]
  <2>1. CASE i <= ReadBuffersAvailable
    BY <2>1, Mapped
  <2>2. CASE i > ReadBuffersAvailable
    <3>1. i \in 1 .. size /\ i - ReadBuffersAvailable \in 1 .. wn /\ i - ReadBuffersAvailable \in 1 .. size
      BY <1>1, <2>2, Indices
    <3>2. (rd + i - 1) % size = IF rd + i - 1 < size THEN rd + i - 1 ELSE rd + i - 1 - size
      BY <3>1, Slot, Indices
    <3>3. (wr + (i - ReadBuffersAvailable) - 1) % size
            = IF wr + (i - ReadBuffersAvailable) - 1 < size THEN wr + (i - ReadBuffersAvailable) - 1
              ELSE wr + (i - ReadBuffersAvailable) - 1 - size
      BY <3>1, Slot, Indices
    <3>4. (rd + i - 1) % size = (wr + (i - ReadBuffersAvailable) - 1) % size
      BY <1>3, <2>2, <3>1, <3>2, <3>3, Indices
    <3>5. items[i - ReadBuffersAvailable] = Ahead(i - ReadBuffersAvailable)
      BY <3>1
    <3>6. Item(i) = Ahead(i - ReadBuffersAvailable)
      BY <3>4 DEF Item, Ahead
    <3>7. QED
      BY <2>2, <3>5, <3>6, Indices
  <2>3. QED
    BY <2>1, <2>2, Mapped
<1>8. Queue' = [i \in 1 .. ReadBuffersAvailable + wn |-> Item(i)]
  BY <1>2, <1>4 DEF Queue, Item
<1>9. Queue' = Queue \o items
  <2>1. Queue \o items = [i \in 1 .. ReadBuffersAvailable + wn |->
                            IF i <= ReadBuffersAvailable THEN Queue[i] ELSE items[i - ReadBuffersAvailable]]
    <3> HIDE DEF items
    <3>1. Queue \in Seq(Values) /\ Len(Queue) = ReadBuffersAvailable
      BY Mapped
    <3>2. Queue \o items = [i \in 1 .. Len(Queue) + Len(items) |->
                              IF i <= Len(Queue) THEN Queue[i] ELSE items[i - Len(Queue)]]
      BY <1>6, <3>1, ConcatFunction
    <3>3. QED
      BY <1>6, <3>1, <3>2
  <2> HIDE DEF items
  <2>2. QED
    BY <1>7, <1>8, <2>1
<1>10. \A i \in 1 .. wn : i <= Len(Staged) => items[i] = Staged[i]
  <2>1. \A i \in 1 .. wn : i <= staged => i \in 1 .. staged
    BY Mapped
  <2>2. QED
    BY <2>1, Mapped
<1>11. ASSUME NEW i \in 1 .. staged - wn PROVE Ahead(i)' = Ahead(i + wn) /\ i + wn \in 1 .. staged
  <2>1. i + wn \in 1 .. staged /\ i + wn \in 1 .. size /\ i \in 1 .. size /\ wr' \in 0 .. size - 1
    BY <1>1, <1>3, Indices, SMTT(30)
  <2>2. (wr' + i - 1) % size = IF wr' + i - 1 < size THEN wr' + i - 1 ELSE wr' + i - 1 - size
    BY <2>1, Slot, Indices
  <2>3. (wr + (i + wn) - 1) % size = IF wr + (i + wn) - 1 < size THEN wr + (i + wn) - 1 ELSE wr + (i + wn) - 1 - size
    BY <2>1, Slot, Indices
  <2>4. (wr' + i - 1) % size = (wr + (i + wn) - 1) % size
    BY <1>3, <2>1, <2>2, <2>3, Indices
  <2>5. QED
    BY <1>2, <2>1, <2>4 DEF Ahead
<1>12. Staged' = SubSeq(Staged, wn + 1, Len(Staged))
  <2>1. CASE staged > wn
    <3>1. staged' = staged - wn /\ wn \in 0 .. Len(Staged)
      BY <1>1, <1>2, <2>1, Mapped
    <3>2. Staged' = [i \in 1 .. staged - wn |-> Staged[i + wn]]
      BY <1>11, <3>1, Mapped DEF Staged
    <3>3. QED
      BY <3>1, <3>2, Mapped, SubSeqFunction, SMTT(30)
  <2>2. CASE ~(staged > wn)
    <3>1. staged' = 0 /\ Len(Staged) < wn + 1 /\ wn + 1 \in Int /\ Len(Staged) \in Int
      BY <1>1, <1>2, <2>2, Mapped
    <3>2. SubSeq(Staged, wn + 1, Len(Staged)) = <<>>
      BY <3>1, SubSeqEmpty
    <3>3. Staged' = <<>>
      BY <3>1 DEF Staged
    <3>4. QED
      BY <3>2, <3>3
  <2>3. QED
    BY <2>1, <2>2
<1>13. wn <= size - 1 - Len(Queue)
  BY <1>1, Mapped
<1> HIDE DEF items
<1>14. \E f \in [1 .. wn -> Values] :
         /\ \A i \in 1 .. wn : i <= Len(Staged) => f[i] = Staged[i]
         /\ Queue' = Queue \o f
  BY <1>6, <1>9, <1>10
<1>15. QED
  BY <1>2, <1>3, <1>12, <1>13, <1>14 DEF FIFO!Commit, Queue, Staged

\* The item at the slot handed out is the queued item with its offset.
LEMMA LoadLooks ==
  ASSUME IInv, Load
  PROVE  FIFO!Look(roff) /\ roff \in 0 .. size - 1
<1>1. roff \in Nat /\ roff < ReadBuffersAvailable /\ rslot = (rd + roff) % size
  BY DEF IInv, TypeOK, ConsumerInv, Load
<1>2. seen' = buffer[rslot] /\ UNCHANGED <<buffer, size, rd, wr, staged>>
  BY DEF Load, ring
<1>3. roff + 1 \in 1 .. ReadBuffersAvailable /\ roff \in 0 .. size - 1 /\ rd + (roff + 1) - 1 = rd + roff
  BY <1>1, Indices
<1>4. Queue[roff + 1] = Item(roff + 1)
  BY <1>3, Mapped
<1>5. seen' = Queue[roff + 1]
  BY <1>1, <1>2, <1>3, <1>4 DEF Item
<1>6. UNCHANGED <<Queue, Staged, size - 1>>
  BY <1>2 DEF Queue, Staged, Item, Ahead, ReadBuffersAvailable
<1>7. roff < Len(Queue)
  BY <1>1, Mapped
<1>8. QED
  BY <1>3, <1>5, <1>6, <1>7 DEF FIFO!Look, Queue, Staged

\* Moving rd up by k slots takes k items off the queue.
LEMMA MovingTakes ==
  ASSUME IInv, NEW k \in 1 .. size - 1, k <= ReadBuffersAvailable,
         rd' = IF rd + k < size THEN rd + k ELSE rd + k - size,
         UNCHANGED <<buffer, size, wr, staged, seen>>
  PROVE  FIFO!Take(k)
<1>1. rd' \in 0 .. size - 1
  BY Indices
<1>2. ReadBuffersAvailable' = ReadBuffersAvailable - k
  <2>1. ReadBuffersAvailable' = (wr + size - rd') % size
    BY DEF ReadBuffersAvailable
  <2>2. (wr + size - rd') % size = IF wr >= rd' THEN wr - rd' ELSE wr + size - rd'
    BY <1>1, Indices, Readables
  <2>3. ReadBuffersAvailable' = IF wr >= rd' THEN wr - rd' ELSE wr + size - rd'
    BY <2>1, <2>2
  <2>4. QED
    BY <2>3, Indices
<1>3. ASSUME NEW i \in 1 .. ReadBuffersAvailable - k PROVE Item(i)' = Queue[i + k]
  <2>1. i + k \in 1 .. ReadBuffersAvailable /\ i + k \in 1 .. size /\ i \in 1 .. size
    BY Indices
  <2>2. (rd' + i - 1) % size = IF rd' + i - 1 < size THEN rd' + i - 1 ELSE rd' + i - 1 - size
    BY <1>1, <2>1, Slot, Indices
  <2>3. (rd + (i + k) - 1) % size = IF rd + (i + k) - 1 < size THEN rd + (i + k) - 1 ELSE rd + (i + k) - 1 - size
    BY <2>1, Slot, Indices
  <2>4. (rd' + i - 1) % size = (rd + (i + k) - 1) % size
    BY <2>1, <2>2, <2>3, Indices
  <2>5. Item(i)' = Item(i + k)
    BY <2>4 DEF Item
  <2>6. QED
    BY <2>1, <2>5, Mapped
<1>4. Queue' = [i \in 1 .. ReadBuffersAvailable - k |-> Queue[i + k]]
  BY <1>2, <1>3 DEF Queue
<1>5. Queue' = SubSeq(Queue, k + 1, Len(Queue))
  <2>1. Queue \in Seq(Values) /\ Len(Queue) = ReadBuffersAvailable
    BY Mapped
  <2>2. k \in 0 .. Len(Queue)
    BY <2>1, Indices
  <2>3. SubSeq(Queue, k + 1, Len(Queue)) = [i \in 1 .. Len(Queue) - k |-> Queue[i + k]]
    BY <2>1, <2>2, SubSeqFunction
  <2>4. QED
    BY <1>4, <2>1, <2>3
<1>6. UNCHANGED <<Staged, size - 1, seen>>
  BY DEF Staged, Ahead
<1>7. k <= Len(Queue)
  BY Mapped
<1>8. QED
  BY <1>5, <1>6, <1>7 DEF FIFO!Take, Queue, Staged

LEMMA NothingRead ==
  ASSUME UNCHANGED <<buffer, size, rd, wr, staged, seen>>
  PROVE  UNCHANGED FIFO!vars
BY DEF FIFO!vars, ReadBuffersAvailable, Item, Ahead

LEMMA InitMaps == Init => FIFO!Init
<1> SUFFICES ASSUME Init PROVE FIFO!Init
  OBVIOUS
<1>1. size \in Nat \ {0} /\ size - 1 \in Capacities /\ rd = 0 /\ wr = 0 /\ staged = 0 /\ seen \in Values
  BY CapacitiesAssumption, BlankAssumption DEF Init, Sizes
<1>2. ReadBuffersAvailable = 0
  BY <1>1 DEF ReadBuffersAvailable
<1>3. Queue = <<>> /\ Staged = <<>>
  BY <1>1, <1>2 DEF Queue, Staged
<1>4. QED
  BY <1>1, <1>3 DEF FIFO!Init, Queue, Staged

LEMMA StepMaps == IInv /\ IInv' /\ [Next]_vars => [FIFO!Next]_FIFO!vars
<1> SUFFICES ASSUME IInv, IInv', [Next]_vars PROVE FIFO!Next \/ UNCHANGED FIFO!vars
  OBVIOUS
<1>1. ASSUME NEW offset \in 0 .. size, GetWriteBuffer(offset) PROVE UNCHANGED FIFO!vars
  BY <1>1, NothingRead DEF GetWriteBuffer, ring, consumer
<1>2. ASSUME NEW v \in Values, Store(v) PROVE FIFO!Next
  BY <1>2, StoreStages DEF FIFO!Next
<1>3. ASSUME NEW n \in 1 .. size, IncrementWrite(n) PROVE UNCHANGED FIFO!vars
  BY <1>3, NothingRead DEF IncrementWrite, ring, consumer
<1>4. CASE CommitWrite
  BY <1>4, CommitCommits DEF FIFO!Next
<1>5. ASSUME NEW offset \in 0 .. size, GetReadBuffer(offset) PROVE UNCHANGED FIFO!vars
  BY <1>5, NothingRead DEF GetReadBuffer, ring
<1>6. CASE Load
  BY <1>6, LoadLooks DEF FIFO!Next
<1>7. ASSUME NEW n \in 1 .. size, IncrementRead(n) PROVE UNCHANGED FIFO!vars
  BY <1>7, NothingRead DEF IncrementRead, ring
<1>8. CASE CommitRead
  <2>1. rn \in Nat /\ rn > 0 /\ rn <= ReadBuffersAvailable
    BY <1>8 DEF IInv, TypeOK, ConsumerInv, CommitRead
  <2>2. rn \in 1 .. size - 1 /\ rn \in 0 .. size - 1
    BY <2>1, Indices
  <2>3. rd' = (rd + rn) % size /\ UNCHANGED <<buffer, size, wr, staged, seen>>
    BY <1>8 DEF CommitRead
  <2>4. rd' = IF rd + rn < size THEN rd + rn ELSE rd + rn - size
    BY <2>2, <2>3, Indices, Wrap
  <2>5. FIFO!Take(rn)
    BY <2>1, <2>2, <2>3, <2>4, MovingTakes
  <2>6. QED
    BY <2>2, <2>5 DEF FIFO!Next
<1>9. CASE Reset
  BY <1>9, NothingRead DEF Reset, ring
<1>10. CASE CommitReset
  <2> DEFINE k == IF rn >= rd THEN rn - rd ELSE rn + size - rd
  <2>1. rn \in 0 .. size - 1 /\ (rn + size - rd) % size <= ReadBuffersAvailable
    <3>1. rn \in Nat /\ rn < size /\ (rn + size - rd) % size <= ReadBuffersAvailable
      BY <1>10 DEF IInv, TypeOK, ConsumerInv, CommitReset
    <3>2. QED
      BY <3>1, Indices
  <2>2. (rn + size - rd) % size = k
    BY <2>1, Indices, Readables
  <2>3. k <= ReadBuffersAvailable
    BY <2>1, <2>2
  <2>4. rd' = rn /\ UNCHANGED <<buffer, size, wr, staged, seen>>
    BY <1>10 DEF CommitReset
  <2>5. CASE rn = rd
    BY <2>4, <2>5, NothingRead
  <2>6. CASE rn # rd
    <3>1. k \in 1 .. size - 1 /\ rn = IF rd + k < size THEN rd + k ELSE rd + k - size
      BY <2>1, <2>6, Indices
    <3> HIDE DEF k
    <3>2. FIFO!Take(k)
      BY <2>3, <2>4, <3>1, MovingTakes
    <3>3. QED
      BY <3>1, <3>2 DEF FIFO!Next
  <2>7. QED
    BY <2>5, <2>6
<1>11. ASSUME NEW l \in Capacities, Resize(l) PROVE FIFO!Next
  <2>1. l \in Nat /\ size' = l + 1 /\ rd' = 0 /\ wr' = 0 /\ staged' = 0 /\ seen' = seen
    BY <1>11, CapacitiesAssumption DEF Resize, consumer
  <2>2. ReadBuffersAvailable' = 0
    BY <2>1 DEF ReadBuffersAvailable
  <2>3. Queue' = <<>> /\ Staged' = <<>>
    BY <2>1, <2>2 DEF Queue, Staged
  <2>4. (size - 1)' = l
    BY <2>1
  <2>5. FIFO!Resize(l)
    BY <2>1, <2>3, <2>4 DEF FIFO!Resize, Queue, Staged
  <2>6. QED
    BY <2>5 DEF FIFO!Next
<1>12. CASE UNCHANGED vars
  BY <1>12, NothingRead DEF vars, ring, consumer
<1>13. QED
  BY <1>1, <1>2, <1>3, <1>4, <1>5, <1>6, <1>7, <1>8, <1>9, <1>10, <1>11, <1>12 DEF Next, ProducerNext, ConsumerNext

(* The ring is a bounded FIFO: for every capacity and every set of values, *)
(* items are read in the order they were committed, each exactly once,     *)
(* whatever the two sides and Reset() interleave.                          *)
THEOREM RingIsQueue == Spec => ImplementsFIFO
BY InitMaps, StepMaps, IInvHolds, PTL DEF Spec, ImplementsFIFO, FIFO!Spec

=============================================================================
