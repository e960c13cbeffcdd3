---------------------- MODULE PerformanceMonitor_proofs ----------------------
(***************************************************************************)
(* The sums, totals and extremes of PerformanceMonitor for any threads,    *)
(* ids, length of the rings and bounds.                                    *)
(***************************************************************************)
EXTENDS PerformanceMonitor, SequenceTheorems, WellFoundedInduction, TLAPS

-----------------------------------------------------------------------------
(* Induction.  The theorems of the library take the predicate as an        *)
(* operator; a set takes its place here.                                   *)

\* A set of numbers that holds 0, and with each number its successor, holds
\* them all: otherwise there were a least number outside it.
LEMMA NumbersAreInductive ==
  ASSUME NEW S, 0 \in S, \A n \in Nat : n \in S => n + 1 \in S
  PROVE  Nat \subseteq S
<1> DEFINE R == {ss \in Nat \X Nat : ss[1] < ss[2]}
           T == Nat \ S
<1> SUFFICES ASSUME T # {} PROVE FALSE
  OBVIOUS
<1>1. PICK x \in T : \A y \in T : ~(<<y, x>> \in R)
  <2>1. IsWellFoundedOn(R, Nat)
    BY NatLessThanWellFounded DEF OpToRel
  <2>2. T \subseteq Nat
    OBVIOUS
  <2> HIDE DEF R, T
  <2>3. QED
    BY <2>1, <2>2, WFMin, Zenon
<1>2. x - 1 \in Nat /\ (x - 1) + 1 = x
  OBVIOUS
<1>3. <<x - 1, x>> \in R
  BY <1>2
<1>4. x - 1 \in S
  BY <1>1, <1>2, <1>3
<1>5. QED
  BY <1>2, <1>4

-----------------------------------------------------------------------------
(* Sums.                                                                   *)

\* `sum' holds the sums of the first 0, 1, ..., m elements.
Sums(sum, seq, m) ==
  /\ sum = [n \in 0 .. m |-> IF n = 0 THEN 0 ELSE sum[n - 1] + seq[n]]
  /\ sum \in [0 .. m -> Int]

LEMMA SumsExist ==
  ASSUME NEW seq \in Seq(Int)
  PROVE  \E sum : Sums(sum, seq, Len(seq))
<1> DEFINE S == {m \in Nat : m <= Len(seq) => \E sum : Sums(sum, seq, m)}
<1>1. 0 \in S
  <2>1. Sums([n \in 0 .. 0 |-> 0], seq, 0)
    BY DEF Sums
  <2>2. QED
    BY <2>1
<1>2. ASSUME NEW m \in Nat, m \in S PROVE m + 1 \in S
  <2> SUFFICES ASSUME m + 1 <= Len(seq) PROVE \E sum : Sums(sum, seq, m + 1)
    OBVIOUS
  <2>1. PICK sum : Sums(sum, seq, m)
    BY <1>2
  <2> DEFINE next == [n \in 0 .. m + 1 |-> IF n = m + 1 THEN sum[m] + seq[m + 1] ELSE sum[n]]
  <2>2. next \in [0 .. m + 1 -> Int]
    BY <2>1 DEF Sums
  <2>3. ASSUME NEW n \in 0 .. m + 1
        PROVE  next[n] = IF n = 0 THEN 0 ELSE next[n - 1] + seq[n]
    <3>1. CASE n = m + 1
      BY <3>1
    <3>2. CASE n # m + 1
      BY <2>1, <3>2 DEF Sums
    <3>3. QED
      BY <3>1, <3>2
  <2> HIDE DEF next
  <2>4. next = [n \in 0 .. m + 1 |-> IF n = 0 THEN 0 ELSE next[n - 1] + seq[n]]
    BY <2>2, <2>3
  <2>5. QED
    BY <2>2, <2>4 DEF Sums
<1>3. Nat \subseteq S
  <2> HIDE DEF S
  <2>1. QED
    BY <1>1, <1>2, NumbersAreInductive
<1>4. QED
  BY <1>3

\* The recursive function of Total() is one of these.
LEMMA TotalIsLastSum ==
  ASSUME NEW seq \in Seq(Int)
  PROVE  \E sum : Sums(sum, seq, Len(seq)) /\ Total(seq) = sum[Len(seq)]
<1> DEFINE Rec(sum) == sum = [n \in 0 .. Len(seq) |-> IF n = 0 THEN 0 ELSE sum[n - 1] + seq[n]]
           f == CHOOSE sum : Rec(sum)
<1>1. PICK sum : Sums(sum, seq, Len(seq))
  BY SumsExist
<1>2. Rec(f)
  <2>1. Rec(sum)
    BY <1>1 DEF Sums
  <2>2. QED
    BY <2>1
<1>3. Total(seq) = f[Len(seq)]
  BY DEF Total
<1> HIDE DEF f
<1>4. \A n \in 0 .. Len(seq) : f[n] \in Int
  <2> DEFINE S == {n \in Nat : n <= Len(seq) => f[n] \in Int}
  <2>1. 0 \in S
    BY <1>2
  <2>2. ASSUME NEW n \in Nat, n \in S PROVE n + 1 \in S
    BY <1>2, <2>2
  <2>3. Nat \subseteq S
    <3> HIDE DEF S
    <3>1. QED
      BY <2>1, <2>2, NumbersAreInductive
  <2>4. QED
    BY <2>3
<1>5. Sums(f, seq, Len(seq))
  BY <1>2, <1>4 DEF Sums
<1>6. QED
  BY <1>3, <1>5

\* The first k elements of s and t are the same, but t has d more at p.
Differ(s, t, k, p, d) == \A i \in 1 .. k : s[i] \in Int /\ t[i] = IF i = p THEN s[i] + d ELSE s[i]

\* Then their sums differ by d from p on.
LEMMA SumsDiffer ==
  ASSUME NEW s, NEW t, NEW k \in Nat, NEW f, NEW g, Sums(f, s, k), Sums(g, t, k),
         NEW p \in Nat, NEW d \in Int, p # 0, Differ(s, t, k, p, d)
  PROVE  \A n \in 0 .. k : g[n] = IF n < p THEN f[n] ELSE f[n] + d
<1> DEFINE S == {n \in Nat : n <= k => g[n] = IF n < p THEN f[n] ELSE f[n] + d}
<1>1. 0 \in S
  BY DEF Sums
<1>2. ASSUME NEW n \in Nat, n \in S PROVE n + 1 \in S
  <2> SUFFICES ASSUME n + 1 <= k PROVE g[n + 1] = IF n + 1 < p THEN f[n + 1] ELSE f[n + 1] + d
    OBVIOUS
  <2>1. g[n + 1] = g[n] + t[n + 1] /\ f[n + 1] = f[n] + s[n + 1] /\ f[n] \in Int /\ g[n] \in Int
    BY DEF Sums
  <2>2. g[n] = IF n < p THEN f[n] ELSE f[n] + d
    BY <1>2
  <2>3. s[n + 1] \in Int /\ t[n + 1] = IF n + 1 = p THEN s[n + 1] + d ELSE s[n + 1]
    BY DEF Differ
  <2>4. QED
    BY <2>1, <2>2, <2>3
<1>3. Nat \subseteq S
  <2> HIDE DEF S
  <2>1. QED
    BY <1>1, <1>2, NumbersAreInductive
<1>4. QED
  BY <1>3

LEMMA TotalEmpty == Total(<<>>) = 0
<1>1. <<>> \in Seq(Int) /\ Len(<<>>) = 0
  OBVIOUS
<1>2. PICK sum : Sums(sum, <<>>, Len(<<>>)) /\ Total(<<>>) = sum[Len(<<>>)]
  BY <1>1, TotalIsLastSum
<1>3. QED
  BY <1>1, <1>2 DEF Sums

LEMMA TotalAppend ==
  ASSUME NEW seq \in Seq(Int), NEW x \in Int
  PROVE  Total(seq) \in Int /\ Total(Append(seq, x)) = Total(seq) + x
<1> DEFINE longer == Append(seq, x)
           n == Len(seq)
<1>1. /\ longer \in Seq(Int) /\ Len(longer) = n + 1 /\ n \in Nat
      /\ \A i \in 1 .. n : longer[i] = seq[i] /\ seq[i] \in Int
      /\ longer[n + 1] = x
  BY AppendProperties
<1>2. PICK f : Sums(f, seq, n) /\ Total(seq) = f[n]
  BY TotalIsLastSum
<1>3. PICK g : Sums(g, longer, n + 1) /\ Total(longer) = g[n + 1]
  BY <1>1, TotalIsLastSum
<1> DEFINE h == [i \in 0 .. n |-> g[i]]
<1> HIDE DEF longer, n
<1>4. Sums(h, longer, n)
  BY <1>1, <1>3 DEF Sums
<1>5. h[n] = f[n]
  <2>1. PICK p \in Nat, d \in Int : p = n + 1 /\ d = 0 /\ p # 0 /\ Differ(seq, longer, n, p, d)
    BY <1>1 DEF Differ
  <2>2. n \in Nat /\ Sums(f, seq, n) /\ p # 0 /\ Differ(seq, longer, n, p, d)
    BY <1>1, <1>2, <2>1
  <2>3. \A i \in 0 .. n : h[i] = IF i < p THEN f[i] ELSE f[i] + d
    <3> HIDE DEF h
    <3>1. QED
      BY <1>4, <2>2, SumsDiffer
  <2>4. QED
    BY <1>1, <2>1, <2>3
<1>6. g[n + 1] = g[n] + x /\ h[n] = g[n]
  BY <1>1, <1>3 DEF Sums
<1>7. f[n] \in Int
  BY <1>1, <1>2 DEF Sums
<1>8. QED
  BY <1>2, <1>3, <1>5, <1>6, <1>7 DEF longer

LEMMA TotalDiffers ==
  ASSUME NEW s \in Seq(Int), NEW t \in Seq(Int), NEW n \in Nat, Len(s) = n, Len(t) = n,
         NEW p \in 1 .. n, NEW d \in Int, Differ(s, t, n, p, d)
  PROVE  Total(s) \in Int /\ Total(t) = Total(s) + d
<1>1. p \in Nat /\ p # 0 /\ ~(n < p)
  OBVIOUS
<1>2. PICK f : Sums(f, s, n) /\ Total(s) = f[n]
  BY TotalIsLastSum
<1>3. PICK g : Sums(g, t, n) /\ Total(t) = g[n]
  BY TotalIsLastSum
<1>4. \A i \in 0 .. n : g[i] = IF i < p THEN f[i] ELSE f[i] + d
  BY <1>1, <1>2, <1>3, SumsDiffer
<1>5. f[n] \in Int
  BY <1>1, <1>2 DEF Sums
<1>6. QED
  BY <1>1, <1>2, <1>3, <1>4, <1>5

LEMMA TotalOfNats ==
  ASSUME NEW s \in Seq(Nat)
  PROVE  Total(s) \in Nat
<1>1. s \in Seq(Int)
  OBVIOUS
<1>2. PICK f : Sums(f, s, Len(s)) /\ Total(s) = f[Len(s)]
  BY <1>1, TotalIsLastSum
<1> DEFINE S == {n \in Nat : n <= Len(s) => f[n] \in Nat}
<1>3. 0 \in S
  BY <1>2 DEF Sums
<1>4. ASSUME NEW n \in Nat, n \in S PROVE n + 1 \in S
  <2> SUFFICES ASSUME n + 1 <= Len(s) PROVE f[n + 1] \in Nat
    OBVIOUS
  <2>1. f[n] \in Nat /\ s[n + 1] \in Nat
    BY <1>4
  <2>2. f[n + 1] = f[n] + s[n + 1]
    BY <1>2 DEF Sums
  <2>3. QED
    BY <2>1, <2>2
<1>5. Nat \subseteq S
  <2> HIDE DEF S
  <2>1. QED
    BY <1>3, <1>4, NumbersAreInductive
<1>6. QED
  BY <1>2, <1>5

LEMMA TotalOfZeros ==
  ASSUME NEW s \in Seq({0})
  PROVE  Total(s) = 0
<1>1. s \in Seq(Int)
  OBVIOUS
<1>2. PICK f : Sums(f, s, Len(s)) /\ Total(s) = f[Len(s)]
  BY <1>1, TotalIsLastSum
<1> DEFINE S == {n \in Nat : n <= Len(s) => f[n] = 0}
<1>3. 0 \in S
  BY <1>2 DEF Sums
<1>4. ASSUME NEW n \in Nat, n \in S PROVE n + 1 \in S
  BY <1>2, <1>4 DEF Sums
<1>5. Nat \subseteq S
  <2> HIDE DEF S
  <2>1. QED
    BY <1>3, <1>4, NumbersAreInductive
<1>6. QED
  BY <1>2, <1>5

-----------------------------------------------------------------------------
(* The ring.                                                               *)

Values(ring, field) == [s \in 1 .. ntimings |-> ring[s - 1][field]]

LEMMA SlotFacts ==
  /\ ntimings \in Nat /\ ntimings > 1 /\ Slots = 0 .. ntimings - 1
  /\ \A s \in Slots : s + 1 \in 1 .. ntimings /\ (s + ntimings - 1) % ntimings \in Slots
  /\ \A s \in Slots : (s + ntimings - 1) % ntimings = IF s = 0 THEN ntimings - 1 ELSE s - 1
<1>1. ntimings \in Nat /\ ntimings > 1 /\ Slots = 0 .. ntimings - 1
  BY RingAssumption DEF Slots
<1>2. ASSUME NEW s \in Slots
      PROVE  (s + ntimings - 1) % ntimings = IF s = 0 THEN ntimings - 1 ELSE s - 1
  <2>1. CASE s = 0
    <3>1. s + ntimings - 1 = ntimings - 1 /\ (ntimings - 1) % ntimings = ntimings - 1
      BY <1>1, <2>1
    <3>2. QED
      BY <2>1, <3>1
  <2>2. CASE s # 0
    <3>1. s - 1 \in 0 .. ntimings - 1 /\ s + ntimings - 1 = (s - 1) + ntimings
      BY <1>1, <2>2
    <3>2. ((s - 1) + ntimings) % ntimings = s - 1
      <4>1. ASSUME NEW x \in 0 .. ntimings - 1 PROVE (x + ntimings) % ntimings = x
        BY <1>1
      <4>2. QED
        BY <3>1, <4>1
    <3>3. QED
      BY <2>2, <3>1, <3>2
  <2>3. QED
    BY <2>1, <2>2
<1>3. QED
  BY <1>1, <1>2

LEMMA ValuesAreSequence ==
  ASSUME NEW ring, NEW field, NEW T, \A s \in Slots : ring[s][field] \in T
  PROVE  /\ Values(ring, field) \in Seq(T) /\ Len(Values(ring, field)) = ntimings
         /\ \A s \in Slots : Values(ring, field)[s + 1] = ring[s][field]
         /\ \A i \in 1 .. ntimings : i - 1 \in Slots
<1>1. \A i \in 1 .. ntimings : i - 1 \in Slots
  BY SlotFacts
<1>2. Values(ring, field) \in [1 .. ntimings -> T]
  BY <1>1 DEF Values
<1>3. QED
  BY <1>1, <1>2, SlotFacts DEF Values

\* Where one slot is overwritten, the sum over the ring changes by as much.
Overwritten(data, new, field, p) ==
  /\ \A s \in Slots : data.ring[s][field] \in Int /\ new.ring[s][field] \in Int
  /\ \A s \in Slots \ {p} : new.ring[s][field] = data.ring[s][field]

LEMMA RingSumDiffers ==
  ASSUME NEW data, NEW new, NEW field, NEW p \in Slots, Overwritten(data, new, field, p)
  PROVE  /\ RingSum(data, field) \in Int
         /\ RingSum(new, field) = RingSum(data, field) - data.ring[p][field] + new.ring[p][field]
<1>0. /\ \A s \in Slots : data.ring[s][field] \in Int /\ new.ring[s][field] \in Int
      /\ \A s \in Slots \ {p} : new.ring[s][field] = data.ring[s][field]
  BY DEF Overwritten
<1> DEFINE u == Values(data.ring, field)
           v == Values(new.ring, field)
           d == new.ring[p][field] - data.ring[p][field]
<1>1. /\ u \in Seq(Int) /\ v \in Seq(Int) /\ Len(u) = ntimings /\ Len(v) = ntimings
      /\ \A s \in Slots : u[s + 1] = data.ring[s][field] /\ v[s + 1] = new.ring[s][field]
  <2>1. u \in Seq(Int) /\ Len(u) = ntimings /\ \A s \in Slots : u[s + 1] = data.ring[s][field]
    <3>1. \A s \in Slots : data.ring[s][field] \in Int
      BY <1>0
    <3>2. QED
      BY <3>1, ValuesAreSequence
  <2>2. v \in Seq(Int) /\ Len(v) = ntimings /\ \A s \in Slots : v[s + 1] = new.ring[s][field]
    <3>1. \A s \in Slots : new.ring[s][field] \in Int
      BY <1>0
    <3>2. QED
      BY <3>1, ValuesAreSequence
  <2> HIDE DEF u, v
  <2>3. QED
    BY <2>1, <2>2
<1>2. p + 1 \in 1 .. ntimings /\ d \in Int
  <2>1. p + 1 \in 1 .. ntimings
    BY SlotFacts
  <2>2. d \in Int
    BY <1>0
  <2>3. QED
    BY <2>1, <2>2
<1>3. ASSUME NEW i \in 1 .. ntimings PROVE v[i] = IF i = p + 1 THEN u[i] + d ELSE u[i]
  <2>1. i - 1 \in Slots /\ (i - 1) + 1 = i /\ (i = p + 1 <=> i - 1 = p)
    BY SlotFacts
  <2>2. u[i] = data.ring[i - 1][field] /\ v[i] = new.ring[i - 1][field]
    BY <1>1, <2>1
  <2>3. CASE i = p + 1
    <3>1. i - 1 = p
      BY <2>1, <2>3
    <3>2. u[i] \in Int /\ u[i] = data.ring[p][field] /\ v[i] = new.ring[p][field]
      BY <1>0, <2>2, <3>1
    <3>3. QED
      BY <1>0, <2>3, <3>2
  <2>4. CASE i # p + 1
    BY <1>0, <2>1, <2>2, <2>4
  <2>5. QED
    BY <2>3, <2>4
<1>4. RingSum(data, field) = Total(u) /\ RingSum(new, field) = Total(v)
  BY DEF RingSum, Values
<1> HIDE DEF u, v
<1>5. Total(u) \in Int /\ Total(v) = Total(u) + d
  <2> HIDE DEF d
  <2>1. PICK q \in 1 .. ntimings, e \in Int : q = p + 1 /\ e = d
    BY <1>2
  <2>2. \A i \in 1 .. ntimings : u[i] \in Int
    BY <1>1
  <2>3. Differ(u, v, ntimings, q, e)
    BY <1>3, <2>1, <2>2 DEF Differ
  <2>4. ntimings \in Nat
    BY SlotFacts
  <2>5. Total(u) \in Int /\ Total(v) = Total(u) + e
    BY <1>1, <2>3, <2>4, TotalDiffers
  <2>6. QED
    BY <2>1, <2>5
<1>6. QED
  BY <1>0, <1>4, <1>5

LEMMA RingSumSame ==
  ASSUME NEW data, NEW new, NEW field, \A s \in Slots : new.ring[s][field] = data.ring[s][field]
  PROVE  RingSum(new, field) = RingSum(data, field)
<1>1. \A i \in 1 .. ntimings : i - 1 \in Slots
  BY SlotFacts
<1>2. Values(new.ring, field) = Values(data.ring, field)
  BY <1>1 DEF Values
<1>3. QED
  BY <1>2 DEF RingSum, Values

LEMMA RingSumOfNats ==
  ASSUME NEW data, NEW field, \A s \in Slots : data.ring[s][field] \in Nat
  PROVE  RingSum(data, field) \in Nat
<1>1. Values(data.ring, field) \in Seq(Nat)
  BY ValuesAreSequence
<1>2. QED
  BY <1>1, TotalOfNats DEF RingSum, Values

-----------------------------------------------------------------------------
(* The data of an id.                                                      *)

LEMMA MaxMin ==
  ASSUME NEW a \in Int, NEW b \in Int
  PROVE  Max({a, b}) = (IF a >= b THEN a ELSE b) /\ Min({a, b}) = (IF a <= b THEN a ELSE b)
<1>1. \E x \in {a, b} : \A y \in {a, b} : x >= y
  OBVIOUS
<1>2. \E x \in {a, b} : \A y \in {a, b} : x <= y
  OBVIOUS
<1>3. Max({a, b}) \in {a, b} /\ Max({a, b}) >= a /\ Max({a, b}) >= b
  BY <1>1 DEF Max
<1>4. Min({a, b}) \in {a, b} /\ Min({a, b}) <= a /\ Min({a, b}) <= b
  BY <1>2 DEF Min
<1>5. QED
  BY <1>3, <1>4

DataInv(data, now) ==
  /\ data \in TimingData
  /\ data.elapsed.sum = RingSum(data, "elapsed") /\ data.taken.sum = RingSum(data, "taken")
  /\ \A s \in Slots : data.ring[s].start <= now

LEMMA DataFields ==
  ASSUME NEW data \in TimingData
  PROVE  /\ data.ring \in [Slots -> Timing] /\ data.index \in Slots /\ data.wrapped \in BOOLEAN
         /\ data.elapsed \in Tally /\ data.taken \in Tally
         /\ Previous(data) \in Timing
         /\ \A s \in Slots : data.ring[s].start \in Nat /\ data.ring[s].elapsed \in Nat /\ data.ring[s].taken \in Nat
         /\ \A s \in Slots : data.ring[s].start \in Time /\ data.ring[s].elapsed \in Time /\ data.ring[s].taken \in Time
<1>1. /\ data.ring \in [Slots -> Timing] /\ data.index \in Slots /\ data.wrapped \in BOOLEAN
      /\ data.elapsed \in Tally /\ data.taken \in Tally
  BY DEF TimingData
<1>2. \A s \in Slots : data.ring[s].start \in Time /\ data.ring[s].elapsed \in Time /\ data.ring[s].taken \in Time
  BY <1>1 DEF Timing
<1>3. Time \subseteq Nat
  BY BoundAssumption DEF Time
<1>4. QED
  BY <1>1, <1>2, <1>3, SlotFacts DEF Previous

LEMMA TalliedFacts ==
  ASSUME NEW data, NEW tally \in Tally, NEW old \in Nat, NEW value \in Time
  PROVE  /\ Tallied(data, tally, old, value).sum = tally.sum - old + value
         /\ Tallied(data, tally, old, value).total = tally.total + value
         /\ Tallied(data, tally, old, value).max = (IF tally.max >= value THEN tally.max ELSE value)
         /\ Tallied(data, tally, old, value).min =
              (IF FirstRound(data) \/ value <= tally.min THEN value ELSE tally.min)
         /\ Tallied(data, tally, old, value).sum \in Nat => Tallied(data, tally, old, value) \in Tally
<1>1. tally.max \in Time /\ tally.min \in Time /\ tally.total \in Nat /\ Time \subseteq Nat
  BY BoundAssumption DEF Tally, Time
<1>2. Max({tally.max, value}) = (IF tally.max >= value THEN tally.max ELSE value)
  <2>1. tally.max \in Int /\ value \in Int
    BY <1>1, BoundAssumption DEF Time
  <2>2. QED
    BY <2>1, MaxMin
<1>3. Min({tally.min, value}) = (IF value <= tally.min THEN value ELSE tally.min)
  <2>1. tally.min \in Int /\ value \in Int
    BY <1>1, BoundAssumption DEF Time
  <2>2. Min({tally.min, value}) = (IF tally.min <= value THEN tally.min ELSE value)
    BY <2>1, MaxMin
  <2>3. QED
    BY <2>1, <2>2
<1>4. Lowest(data, tally.min, value) = (IF FirstRound(data) \/ value <= tally.min THEN value ELSE tally.min)
  BY <1>3 DEF Lowest
<1>5. Lowest(data, tally.min, value) \in Time /\ Max({tally.max, value}) \in Time /\ tally.total + value \in Nat
  BY <1>1, <1>2, <1>4
<1>6. QED
  BY <1>2, <1>4, <1>5 DEF Tallied, Tally

\* A new value in the ring and in its tally keeps the sum that of the ring.
LEMMA SumStaysExact ==
  ASSUME NEW data, NEW new, NEW field, NEW sum, NEW value,
         data.ring \in [Slots -> Timing], new.ring \in [Slots -> Timing], data.index \in Slots,
         field \in {"elapsed", "taken"},
         sum = RingSum(data, field),
         \A s \in Slots \ {data.index} : new.ring[s][field] = data.ring[s][field],
         new.ring[data.index][field] = value
  PROVE  /\ sum - data.ring[data.index][field] + value = RingSum(new, field)
         /\ RingSum(new, field) \in Nat
<1>1. \A s \in Slots : data.ring[s][field] \in Nat /\ new.ring[s][field] \in Nat
  BY BoundAssumption DEF Timing, Time
<1>2. \A s \in Slots : data.ring[s][field] \in Int /\ new.ring[s][field] \in Int
  BY <1>1
<1>3. RingSum(data, field) \in Int
      /\ RingSum(new, field) = RingSum(data, field) - data.ring[data.index][field] + new.ring[data.index][field]
  <2>1. PICK p \in Slots : p = data.index
    OBVIOUS
  <2>2. Overwritten(data, new, field, p)
    BY <1>2, <2>1 DEF Overwritten
  <2>3. RingSum(data, field) \in Int
        /\ RingSum(new, field) = RingSum(data, field) - data.ring[p][field] + new.ring[p][field]
    BY <2>2, RingSumDiffers
  <2>4. QED
    BY <2>1, <2>3
<1>4. RingSum(new, field) \in Nat
  BY <1>1, RingSumOfNats
<1>5. QED
  BY <1>3, <1>4

LEMMA StartedKeepsData ==
  ASSUME NEW data, NEW t \in Time, DataInv(data, t)
  PROVE  LET new == Started(data, t)
             e == t - Previous(data).start
         IN  /\ DataInv(new, t)
             /\ e \in Time
             /\ new.index = data.index /\ new.wrapped = data.wrapped /\ new.taken = data.taken
             /\ new.ring[data.index].start = t
             /\ new.elapsed.total = data.elapsed.total + e
<1> DEFINE new == Started(data, t)
           e == t - Previous(data).start
           slot == data.ring[data.index]
           now == [start |-> t, elapsed |-> e, taken |-> slot.taken]
<1>1. /\ data.ring \in [Slots -> Timing] /\ data.index \in Slots /\ data.wrapped \in BOOLEAN
      /\ data.elapsed \in Tally /\ data.taken \in Tally
      /\ Previous(data) \in Timing
      /\ \A s \in Slots : data.ring[s].start \in Nat /\ data.ring[s].elapsed \in Nat /\ data.ring[s].taken \in Nat
      /\ \A s \in Slots : data.ring[s].start \in Time /\ data.ring[s].elapsed \in Time /\ data.ring[s].taken \in Time
  BY DataFields DEF DataInv
<1>2. (data.index + ntimings - 1) % ntimings \in Slots
  BY <1>1, SlotFacts
<1>3. e \in Time
  <2>1. Previous(data).start <= t /\ Previous(data).start \in Time
    BY <1>1, <1>2 DEF Previous, DataInv
  <2>2. QED
    BY <2>1, BoundAssumption DEF Time
<1>4. /\ new.ring = [data.ring EXCEPT ![data.index] = now]
      /\ new.index = data.index /\ new.wrapped = data.wrapped /\ new.taken = data.taken
      /\ new.elapsed = Tallied(data, data.elapsed, slot.elapsed, e)
  BY DEF Started
<1>5. now \in Timing /\ now.start = t /\ now.elapsed = e /\ now.taken = slot.taken
  BY <1>1, <1>3 DEF Timing
<1>6. new = [ring |-> new.ring, index |-> new.index, wrapped |-> new.wrapped, elapsed |-> new.elapsed, taken |-> new.taken]
  BY DEF Started
<1> HIDE DEF new, now, e
<1>7. /\ new.ring \in [Slots -> Timing] /\ new.ring[data.index] = now
      /\ \A s \in Slots \ {data.index} : new.ring[s] = data.ring[s]
  BY <1>1, <1>4, <1>5
<1>8. data.elapsed.sum - slot.elapsed + e = RingSum(new, "elapsed") /\ RingSum(new, "elapsed") \in Nat
  BY <1>1, <1>5, <1>7, SumStaysExact DEF DataInv
<1>9. new.elapsed \in Tally /\ new.elapsed.sum = RingSum(new, "elapsed") /\ new.elapsed.total = data.elapsed.total + e
  <2>1. PICK old \in Nat, tally \in Tally, value \in Time :
           old = slot.elapsed /\ tally = data.elapsed /\ value = e
    BY <1>1, <1>3
  <2>2. Tallied(data, tally, old, value).sum = tally.sum - old + value
    BY DEF Tallied
  <2>3. Tallied(data, tally, old, value).total = tally.total + value
    BY DEF Tallied
  <2>4. Tallied(data, tally, old, value).sum \in Nat => Tallied(data, tally, old, value) \in Tally
    BY TalliedFacts
  <2>5. QED
    BY <1>4, <1>8, <2>1, <2>2, <2>3, <2>4
<1>10. new.taken.sum = RingSum(new, "taken")
  <2>1. \A s \in Slots : new.ring[s].taken = data.ring[s].taken
    BY <1>5, <1>7
  <2>2. RingSum(new, "taken") = RingSum(data, "taken")
    BY <2>1, RingSumSame
  <2>3. QED
    BY <1>4, <2>2 DEF DataInv
<1>11. new \in TimingData
  BY <1>1, <1>4, <1>6, <1>7, <1>9 DEF TimingData
<1>12. \A s \in Slots : new.ring[s].start <= t
  BY <1>5, <1>7, BoundAssumption DEF DataInv, Time
<1>13. DataInv(new, t)
  BY <1>9, <1>10, <1>11, <1>12 DEF DataInv
<1>14. QED
  BY <1>3, <1>4, <1>5, <1>7, <1>9, <1>13 DEF new, e

LEMMA StoppedKeepsData ==
  ASSUME NEW data, NEW t \in Time, DataInv(data, t)
  PROVE  LET new == Stopped(data, t)
             x == t - data.ring[data.index].start
         IN  /\ DataInv(new, t)
             /\ x \in Time
             /\ new.elapsed = data.elapsed
             /\ Previous(new).start = data.ring[data.index].start
             /\ ~FirstRound(new)
             /\ new.taken.total = data.taken.total + x
             /\ new.taken.max = (IF data.taken.max >= x THEN data.taken.max ELSE x)
             /\ new.taken.min = (IF FirstRound(data) \/ x <= data.taken.min THEN x ELSE data.taken.min)
<1> DEFINE new == Stopped(data, t)
           slot == data.ring[data.index]
           x == t - slot.start
           now == [start |-> slot.start, elapsed |-> slot.elapsed, taken |-> x]
           atEnd == data.index + 1 = ntimings
<1>1. /\ data.ring \in [Slots -> Timing] /\ data.index \in Slots /\ data.wrapped \in BOOLEAN
      /\ data.elapsed \in Tally /\ data.taken \in Tally
      /\ \A s \in Slots : data.ring[s].start \in Nat /\ data.ring[s].elapsed \in Nat /\ data.ring[s].taken \in Nat
      /\ \A s \in Slots : data.ring[s].start \in Time /\ data.ring[s].elapsed \in Time /\ data.ring[s].taken \in Time
  BY DataFields DEF DataInv
<1>2. x \in Time
  <2>1. slot.start <= t /\ slot.start \in Time
    BY <1>1 DEF DataInv
  <2>2. QED
    BY <2>1, BoundAssumption DEF Time
<1>3. /\ new.ring = [data.ring EXCEPT ![data.index] = now]
      /\ new.index = (IF atEnd THEN 0 ELSE data.index + 1)
      /\ new.wrapped = (data.wrapped \/ atEnd)
      /\ new.elapsed = data.elapsed
      /\ new.taken = Tallied(data, data.taken, slot.taken, x)
  BY DEF Stopped
<1>4. now \in Timing /\ now.start = slot.start /\ now.elapsed = slot.elapsed /\ now.taken = x
  BY <1>1, <1>2 DEF Timing
<1>5. new = [ring |-> new.ring, index |-> new.index, wrapped |-> new.wrapped, elapsed |-> new.elapsed, taken |-> new.taken]
  BY DEF Stopped
<1> HIDE DEF new, now, x
<1>6. /\ new.ring \in [Slots -> Timing] /\ new.ring[data.index] = now
      /\ \A s \in Slots \ {data.index} : new.ring[s] = data.ring[s]
  BY <1>1, <1>3, <1>4
<1>7. data.taken.sum - slot.taken + x = RingSum(new, "taken") /\ RingSum(new, "taken") \in Nat
  BY <1>1, <1>4, <1>6, SumStaysExact DEF DataInv
<1>8. /\ new.taken \in Tally /\ new.taken.sum = RingSum(new, "taken") /\ new.taken.total = data.taken.total + x
      /\ new.taken.max = (IF data.taken.max >= x THEN data.taken.max ELSE x)
      /\ new.taken.min = (IF FirstRound(data) \/ x <= data.taken.min THEN x ELSE data.taken.min)
  <2>1. PICK old \in Nat, tally \in Tally, value \in Time :
           old = slot.taken /\ tally = data.taken /\ value = x
    BY <1>1, <1>2
  <2>2. Tallied(data, tally, old, value).sum = tally.sum - old + value
    BY DEF Tallied
  <2>3. Tallied(data, tally, old, value).total = tally.total + value
    BY DEF Tallied
  <2>4. Tallied(data, tally, old, value).sum \in Nat => Tallied(data, tally, old, value) \in Tally
    BY TalliedFacts
  <2>5. Tallied(data, tally, old, value).max = (IF tally.max >= value THEN tally.max ELSE value)
    BY TalliedFacts
  <2>6. Tallied(data, tally, old, value).min =
          (IF FirstRound(data) \/ value <= tally.min THEN value ELSE tally.min)
    <3>1. tally \in Tally /\ old \in Nat /\ value \in Time
      OBVIOUS
    <3> HIDE DEF slot
    <3>2. QED
      BY ONLY <3>1, TalliedFacts
  <2>7. new.taken = Tallied(data, tally, old, value)
    BY <1>3, <2>1
  <2>8. new.taken.sum = RingSum(new, "taken")
    BY <1>7, <2>1, <2>2, <2>7
  <2>9. new.taken \in Tally
    BY <1>7, <2>4, <2>7, <2>8
  <2>10. /\ new.taken.total = data.taken.total + x
         /\ new.taken.max = (IF data.taken.max >= x THEN data.taken.max ELSE x)
         /\ new.taken.min = (IF FirstRound(data) \/ x <= data.taken.min THEN x ELSE data.taken.min)
    BY <2>1, <2>3, <2>5, <2>6, <2>7
  <2>11. QED
    BY <2>8, <2>9, <2>10
<1>9. new.elapsed.sum = RingSum(new, "elapsed")
  <2>1. \A s \in Slots : new.ring[s].elapsed = data.ring[s].elapsed
    BY <1>4, <1>6
  <2>2. RingSum(new, "elapsed") = RingSum(data, "elapsed")
    BY <2>1, RingSumSame
  <2>3. QED
    BY <1>3, <2>2 DEF DataInv
<1>10. new.index \in Slots /\ (new.index + ntimings - 1) % ntimings = data.index
  <2>1. data.index \in 0 .. ntimings - 1 /\ Slots = 0 .. ntimings - 1 /\ ntimings \in Nat /\ ntimings > 1
    BY <1>1, SlotFacts
  <2>2. PICK k \in 0 .. ntimings - 1 : k = data.index
    BY <2>1
  <2>3. CASE atEnd
    <3>1. new.index = 0 /\ k = ntimings - 1
      BY <1>3, <2>1, <2>2, <2>3
    <3>2. 0 \in Slots /\ (0 + ntimings - 1) % ntimings = ntimings - 1
      BY <2>1, SlotFacts
    <3>3. QED
      BY <2>2, <3>1, <3>2
  <2>4. CASE ~atEnd
    <3>1. new.index = k + 1 /\ k + 1 # ntimings
      BY <1>3, <2>2, <2>4
    <3>2. PICK s \in Slots : s = k + 1 /\ s # 0 /\ s - 1 = k
      BY <2>1, <3>1
    <3>3. (s + ntimings - 1) % ntimings = s - 1
      BY <3>2, SlotFacts
    <3>4. QED
      BY <2>2, <3>1, <3>2, <3>3
  <2>5. QED
    BY <2>3, <2>4
<1>11. Previous(new).start = slot.start
  BY <1>4, <1>6, <1>10 DEF Previous
<1>12. ~FirstRound(new) /\ new.wrapped \in BOOLEAN
  <2>1. data.index + 1 # 0
    BY <1>1, SlotFacts
  <2>2. QED
    BY <1>1, <1>3, <2>1 DEF FirstRound
<1>13. new \in TimingData
  BY <1>1, <1>3, <1>5, <1>6, <1>8, <1>10, <1>12 DEF TimingData
<1>14. \A s \in Slots : new.ring[s].start <= t
  BY <1>1, <1>4, <1>6 DEF DataInv
<1>15. DataInv(new, t)
  BY <1>8, <1>9, <1>13, <1>14 DEF DataInv
<1>16. QED
  BY <1>2, <1>3, <1>8, <1>11, <1>12, <1>15 DEF new, x

LEMMA NewDataIsTyped ==
  ASSUME NEW t \in Time
  PROVE  DataInv(NewData, t) /\ Previous(NewData).start = 0 /\ FirstRound(NewData)
<1> DEFINE new == NewData
<1>1. /\ new.ring = [s \in Slots |-> NoTiming] /\ new.index = 0 /\ new.wrapped = FALSE
      /\ new.elapsed = NoTally /\ new.taken = NoTally
      /\ new = [ring |-> new.ring, index |-> new.index, wrapped |-> new.wrapped, elapsed |-> new.elapsed, taken |-> new.taken]
  BY DEF NewData
<1>2. NoTiming \in Timing /\ NoTiming.start = 0 /\ NoTiming.elapsed = 0 /\ NoTiming.taken = 0 /\ NoTally \in Tally /\ NoTally.sum = 0
  BY BoundAssumption DEF NoTiming, NoTally, Timing, Tally, Time
<1>3. 0 \in Slots /\ (0 + ntimings - 1) % ntimings \in Slots
  BY SlotFacts
<1> HIDE DEF new
<1>4. new \in TimingData
  BY <1>1, <1>2, <1>3 DEF TimingData
<1>5. \A field \in {"elapsed", "taken"} : RingSum(new, field) = 0
  <2> SUFFICES ASSUME NEW field \in {"elapsed", "taken"} PROVE RingSum(new, field) = 0
    OBVIOUS
  <2>1. \A s \in Slots : new.ring[s][field] \in {0}
    BY <1>1, <1>2
  <2>2. Values(new.ring, field) \in Seq({0})
    BY <2>1, ValuesAreSequence
  <2>3. QED
    BY <2>2, TotalOfZeros DEF RingSum, Values
<1>6. \A s \in Slots : new.ring[s].start <= t
  BY <1>1, <1>2, BoundAssumption DEF Time
<1>7. DataInv(new, t)
  BY <1>1, <1>2, <1>4, <1>5, <1>6 DEF DataInv
<1>8. Previous(new).start = 0
  BY <1>1, <1>2, <1>3 DEF Previous
<1>9. FirstRound(new)
  BY <1>1 DEF FirstRound
<1>10. QED
  BY <1>7, <1>8, <1>9 DEF new

LEMMA LaterData ==
  ASSUME NEW data, NEW t \in Nat, NEW u \in Nat, t <= u, DataInv(data, t)
  PROVE  DataInv(data, u)
<1>1. \A s \in Slots : data.ring[s].start \in Nat /\ data.ring[s].start <= t
  BY DataFields DEF DataInv
<1>2. \A s \in Slots : data.ring[s].start <= u
  BY <1>1
<1>3. QED
  BY <1>2 DEF DataInv

-----------------------------------------------------------------------------
(* Types and sums.                                                         *)

(***************************************************************************)
(* The inductive invariant: nothing that was noted, in the rings or with a *)
(* scope, is later than the clock (differences of times are times then),   *)
(* and the sums are those of the rings.                                    *)
(***************************************************************************)
Scope == [id : Ids, since : Time]

ClockInv == ticks \in 1 .. MaxTicks /\ t0 \in Time /\ t0 <= ticks
TimingsInv == DOMAIN timings \subseteq Ids /\ \A id \in DOMAIN timings : DataInv(timings[id], Current)
ScopesInv ==
  /\ scopes \in [Threads -> Seq(Scope)]
  /\ \A th \in Threads : \A i \in DOMAIN scopes[th] : scopes[th][i].since <= Current
CallsInv ==
  /\ calling \in [Threads -> {"none", "Start", "Stop"}]
  /\ \A th \in Threads : calling[th] # "none" => scopes[th] # <<>>
HistoryInv ==
  /\ measure \in BOOLEAN /\ opened \in 0 .. MaxScopes
  /\ lasted \in [Ids -> Seq(Time)] /\ disturbed \subseteq Ids

RingInv == ClockInv /\ TimingsInv /\ ScopesInv /\ CallsInv /\ HistoryInv

LEMMA RingInvIsTyped == RingInv => TypeOK
<1>1. \A data, now : DataInv(data, now) => data \in TimingData
  BY DEF DataInv
<1>2. QED
  BY <1>1 DEF RingInv, ClockInv, TimingsInv, ScopesInv, CallsInv, HistoryInv, TypeOK, Scope

LEMMA TimeSinceIsTime ==
  ASSUME NEW a \in 1 .. MaxTicks, NEW b \in Time, b <= a
  PROVE  a - (IF b = 0 THEN a ELSE b) \in Time /\ a - (IF b = 0 THEN a ELSE b) \in Nat
BY BoundAssumption DEF Time

LEMMA CurrentIsTime ==
  ASSUME ticks \in 1 .. MaxTicks, t0 \in Time, t0 <= ticks
  PROVE  /\ Current \in Time /\ Current \in Nat
         /\ Origin \in Time /\ Origin <= ticks /\ Origin # 0
BY BoundAssumption DEF Current, Origin, Time

\* The clock goes on, whether it ticks or is first read.
LEMMA CurrentGrows ==
  ASSUME ClockInv, [Next]_vars
  PROVE  /\ ticks' \in 1 .. MaxTicks /\ t0' \in Time /\ t0' <= ticks'
         /\ Current \in Time /\ Current' \in Time /\ Current \in Nat /\ Current' \in Nat /\ Current <= Current'
<1>1. ticks \in 1 .. MaxTicks /\ t0 \in Time /\ t0 <= ticks
  BY DEF ClockInv
<1>2. /\ t0' = t0 \/ t0' = Origin
      /\ ticks' = ticks \/ (t0' = t0 /\ ticks < MaxTicks /\ ticks' = ticks + 1)
  BY DEF Next, Open, Start, Close, Stop, SwitchMeasuring, Tick, vars, history
<1>3. ticks' \in 1 .. MaxTicks /\ t0' \in Time /\ t0' <= ticks' /\ Current <= Current'
  BY <1>1, <1>2, BoundAssumption DEF Current, Origin, Time
<1>4. Current \in Time /\ Current \in Nat
  BY <1>1, CurrentIsTime
<1>5. Current' \in Time /\ Current' \in Nat
  <2>1. Current' = ticks' - (IF t0' = 0 THEN ticks' ELSE t0')
    BY DEF Current, Origin
  <2>2. QED
    BY <1>3, <2>1, TimeSinceIsTime
<1>6. QED
  BY <1>3, <1>4, <1>5

LEMMA ScopesAreTyped ==
  ASSUME ScopesInv, NEW th \in Threads
  PROVE  /\ scopes \in [Threads -> Seq(Scope)]
         /\ scopes[th] \in Seq(Scope) /\ Len(scopes[th]) \in Nat /\ DOMAIN scopes[th] = 1 .. Len(scopes[th])
         /\ \A i \in DOMAIN scopes[th] : scopes[th][i] \in Scope /\ scopes[th][i].id \in Ids /\ scopes[th][i].since \in Time
<1>1. scopes \in [Threads -> Seq(Scope)]
  BY DEF ScopesInv
<1>2. scopes[th] \in Seq(Scope)
  BY <1>1
<1>3. \A i \in DOMAIN scopes[th] : scopes[th][i] \in Scope
  BY <1>2
<1>4. \A scope \in Scope : scope.id \in Ids /\ scope.since \in Time
  BY DEF Scope
<1>5. Len(scopes[th]) \in Nat /\ DOMAIN scopes[th] = 1 .. Len(scopes[th])
  BY <1>2
<1>6. QED
  BY <1>1, <1>2, <1>3, <1>4, <1>5

\* What Open(), Start(), Close() and Stop() do to the scopes of their thread.
LEMMA ScopeOpened ==
  ASSUME ScopesInv, NEW th \in Threads, NEW id \in Ids, Open(th, id)
  PROVE  /\ scopes' \in [Threads -> Seq(Scope)]
         /\ \A u \in Threads \ {th} : scopes'[u] = scopes[u]
         /\ Len(scopes'[th]) = Len(scopes[th]) + 1
         /\ \A i \in DOMAIN scopes[th] : scopes'[th][i] = scopes[th][i]
         /\ scopes'[th][Len(scopes[th]) + 1] = [id |-> id, since |-> 0]
<1> DEFINE new == [id |-> id, since |-> 0]
<1>1. new \in Scope
  BY BoundAssumption DEF Scope, Time
<1>2. scopes \in [Threads -> Seq(Scope)] /\ scopes[th] \in Seq(Scope)
  BY ScopesAreTyped
<1> HIDE DEF new
<1>3. /\ Append(scopes[th], new) \in Seq(Scope)
      /\ Len(Append(scopes[th], new)) = Len(scopes[th]) + 1
      /\ \A i \in DOMAIN scopes[th] : Append(scopes[th], new)[i] = scopes[th][i]
      /\ Append(scopes[th], new)[Len(scopes[th]) + 1] = new
  BY <1>1, <1>2, AppendProperties
<1>4. scopes' = [scopes EXCEPT ![th] = Append(scopes[th], new)]
  BY DEF Open, new
<1>5. QED
  BY <1>2, <1>3, <1>4 DEF new

LEMMA ScopeStarted ==
  ASSUME ClockInv, ScopesInv, CallsInv, NEW th \in Threads, Start(th)
  PROVE  /\ scopes' \in [Threads -> Seq(Scope)]
         /\ \A u \in Threads \ {th} : scopes'[u] = scopes[u]
         /\ Len(scopes[th]) \in DOMAIN scopes[th]
         /\ Len(scopes'[th]) = Len(scopes[th])
         /\ \A i \in DOMAIN scopes[th] \ {Len(scopes[th])} : scopes'[th][i] = scopes[th][i]
         /\ scopes'[th][Len(scopes[th])] = [id |-> Last(scopes[th]).id, since |-> Current]
<1>1. scopes \in [Threads -> Seq(Scope)] /\ scopes[th] \in Seq(Scope) /\ scopes[th] # <<>>
  BY ScopesAreTyped DEF Start, CallsInv
<1>2. Len(scopes[th]) \in 1 .. Len(scopes[th]) /\ DOMAIN scopes[th] = 1 .. Len(scopes[th])
  BY <1>1, EmptySeq
<1> DEFINE n == Len(scopes[th])
           new == [id |-> Last(scopes[th]).id, since |-> Current]
<1>3. new \in Scope
  <2>1. Last(scopes[th]).id \in Ids
    BY <1>1, <1>2, ScopesAreTyped DEF Last
  <2>2. Current \in Time
    BY CurrentIsTime DEF ClockInv
  <2>3. QED
    BY <2>1, <2>2 DEF Scope
<1>4. scopes' = [scopes EXCEPT ![th] = [scopes[th] EXCEPT ![n] = new]]
  BY DEF Start
<1> HIDE DEF new
<1>5. /\ [scopes[th] EXCEPT ![n] = new] \in Seq(Scope)
      /\ Len([scopes[th] EXCEPT ![n] = new]) = n
      /\ \A i \in DOMAIN scopes[th] \ {n} : [scopes[th] EXCEPT ![n] = new][i] = scopes[th][i]
      /\ [scopes[th] EXCEPT ![n] = new][n] = new
  BY <1>1, <1>2, <1>3, ExceptSeq
<1>6. QED
  BY <1>1, <1>2, <1>4, <1>5 DEF new

\* The innermost scope goes.
Popped(th) ==
  /\ scopes' \in [Threads -> Seq(Scope)]
  /\ \A u \in Threads \ {th} : scopes'[u] = scopes[u]
  /\ Len(scopes[th]) \in DOMAIN scopes[th]
  /\ Len(scopes'[th]) = Len(scopes[th]) - 1
  /\ \A i \in 1 .. Len(scopes[th]) - 1 : scopes'[th][i] = scopes[th][i]

LEMMA ScopePopped ==
  ASSUME ScopesInv, NEW th \in Threads, scopes[th] # <<>>, scopes' = [scopes EXCEPT ![th] = Front(@)]
  PROVE  Popped(th)
<1>1. scopes \in [Threads -> Seq(Scope)] /\ scopes[th] \in Seq(Scope)
  BY ScopesAreTyped
<1>2. Len(scopes[th]) \in 1 .. Len(scopes[th]) /\ DOMAIN scopes[th] = 1 .. Len(scopes[th])
  BY <1>1, EmptySeq
<1>3. /\ Front(scopes[th]) \in Seq(Scope)
      /\ Len(Front(scopes[th])) = Len(scopes[th]) - 1
      /\ \A i \in 1 .. Len(scopes[th]) - 1 : Front(scopes[th])[i] = scopes[th][i]
  <2>1. PICK seq \in Seq(Scope), n \in Nat \ {0} : seq = scopes[th] /\ n = Len(seq)
    BY <1>1, <1>2
  <2>2. /\ SubSeq(seq, 1, n - 1) \in Seq(Scope) /\ Len(SubSeq(seq, 1, n - 1)) = n - 1
        /\ \A i \in 1 .. n - 1 : SubSeq(seq, 1, n - 1)[i] = seq[i]
    BY <2>1
  <2>3. QED
    BY <2>1, <2>2 DEF Front
<1>4. QED
  BY <1>1, <1>2, <1>3, Zenon DEF Popped

\* What is not later than the clock stays so.
LEMMA NothingIsLater ==
  ASSUME RingInv, [Next]_vars
  PROVE  /\ ClockInv' /\ Current' \in Time
         /\ \A id \in DOMAIN timings : DataInv(timings[id], Current')
         /\ \A th \in Threads : \A i \in DOMAIN scopes[th] : scopes[th][i].since <= Current'
<1>1. /\ ClockInv' /\ Current \in Nat /\ Current' \in Nat /\ Current <= Current' /\ Current' \in Time
  BY CurrentGrows DEF RingInv, ClockInv
<1>2. PICK now \in Nat, later \in Nat : now = Current /\ later = Current' /\ now <= later
  BY <1>1
<1>3. ASSUME NEW id \in DOMAIN timings PROVE DataInv(timings[id], later)
  <2>1. DataInv(timings[id], now)
    BY <1>2 DEF RingInv, TimingsInv
  <2>2. QED
    BY <1>2, <2>1, LaterData
<1>4. ASSUME NEW th \in Threads, NEW i \in DOMAIN scopes[th] PROVE scopes[th][i].since <= later
  <2>1. scopes[th][i].since <= now /\ scopes[th][i].since \in Time
    BY <1>2, ScopesAreTyped DEF RingInv, ScopesInv
  <2>2. QED
    BY <1>2, <2>1, BoundAssumption DEF Time
<1>5. QED
  BY <1>1, <1>2, <1>3, <1>4

LEMMA OpenKeepsRing == ASSUME RingInv, NEW th \in Threads, NEW id \in Ids, Open(th, id) PROVE RingInv'
<1>0. ClockInv /\ ScopesInv /\ CallsInv /\ HistoryInv
  BY DEF RingInv
<1>1. [Next]_vars
  BY DEF Next
<1>2. TimingsInv'
  <2>1. UNCHANGED <<timings, ticks, t0>>
    BY DEF Open
  <2>2. QED
    BY <1>1, <2>1, NothingIsLater DEF RingInv, TimingsInv
<1>3. /\ scopes' \in [Threads -> Seq(Scope)]
      /\ \A u \in Threads \ {th} : scopes'[u] = scopes[u]
      /\ Len(scopes'[th]) = Len(scopes[th]) + 1
      /\ \A i \in DOMAIN scopes[th] : scopes'[th][i] = scopes[th][i]
      /\ scopes'[th][Len(scopes[th]) + 1] = [id |-> id, since |-> 0]
  BY <1>0, ScopeOpened
<1>4. scopes[th] \in Seq(Scope) /\ scopes'[th] \in Seq(Scope)
  BY <1>0, <1>3 DEF ScopesInv
<1>5. ScopesInv'
  <2> SUFFICES ASSUME NEW u \in Threads, NEW i \in DOMAIN scopes'[u] PROVE scopes'[u][i].since <= Current'
    BY <1>3 DEF ScopesInv
  <2>1. CASE u # th
    BY <1>1, <1>3, <2>1, NothingIsLater
  <2>2. CASE u = th /\ i \in DOMAIN scopes[th]
    BY <1>1, <1>3, <2>2, NothingIsLater
  <2>3. CASE u = th /\ i \notin DOMAIN scopes[th]
    <3>1. i = Len(scopes[th]) + 1
      BY <1>3, <1>4, <2>3
    <3>2. scopes'[u][i].since = 0 /\ Current' \in Time
      BY <1>1, <1>3, <2>3, <3>1, NothingIsLater
    <3>3. QED
      BY <3>2, BoundAssumption DEF Time
  <2>4. QED
    BY <2>1, <2>2, <2>3
<1>6. CallsInv'
  <2>1. scopes'[th] # <<>>
    BY <1>3, <1>4
  <2>2. calling' = [calling EXCEPT ![th] = IF measure THEN "Start" ELSE "none"]
    BY DEF Open
  <2>3. QED
    BY <1>0, <1>3, <2>1, <2>2 DEF CallsInv
<1>7. HistoryInv'
  <2>1. opened \in Nat /\ opened < MaxScopes /\ opened' = opened + 1 /\ disturbed' \subseteq Ids
    BY <1>0, BoundAssumption DEF Open, HistoryInv
  <2>2. opened' \in 0 .. MaxScopes
    BY <2>1, BoundAssumption
  <2>3. QED
    BY <1>0, <2>1, <2>2 DEF Open, HistoryInv
<1>8. QED
  BY <1>1, <1>2, <1>5, <1>6, <1>7, NothingIsLater DEF RingInv

\* The data of the id of a scope as Start() finds or makes them.
DataOf(id) == IF id \in DOMAIN timings THEN timings[id] ELSE NewData

LEMMA StartFacts ==
  ASSUME RingInv, NEW th \in Threads, Start(th)
  PROVE  LET id == Last(scopes[th]).id
         IN  /\ id \in Ids
             /\ Current' = Current /\ Current \in Time
             /\ DataInv(DataOf(id), Current)
             /\ DOMAIN timings' = DOMAIN timings \union {id}
             /\ timings'[id] = Started(DataOf(id), Current)
             /\ \A i \in DOMAIN timings \ {id} : timings'[i] = timings[i]
<1>0. ClockInv /\ ScopesInv /\ CallsInv /\ HistoryInv /\ TimingsInv
  BY DEF RingInv
<1>1. Last(scopes[th]).id \in Ids
  BY <1>0, ScopeStarted, ScopesAreTyped DEF Last
<1>2. Current \in Time /\ Origin # 0
  BY <1>0, CurrentIsTime DEF ClockInv
<1>3. Current' = Current
  <2>1. t0' = Origin /\ ticks' = ticks
    BY DEF Start
  <2>2. QED
    BY <1>2, <2>1 DEF Current, Origin
<1>4. DataInv(DataOf(Last(scopes[th]).id), Current)
  BY <1>0, <1>2, NewDataIsTyped DEF DataOf, TimingsInv
<1>5. timings' = [i \in DOMAIN timings \union {Last(scopes[th]).id} |->
                    IF i = Last(scopes[th]).id THEN Started(DataOf(Last(scopes[th]).id), Current) ELSE timings[i]]
  BY DEF Start, DataOf
<1>6. QED
  BY <1>1, <1>2, <1>3, <1>4, <1>5

LEMMA StartKeepsRing == ASSUME RingInv, NEW th \in Threads, Start(th) PROVE RingInv'
<1>0. ClockInv /\ ScopesInv /\ CallsInv /\ HistoryInv /\ TimingsInv
  BY DEF RingInv
<1>1. [Next]_vars
  BY DEF Next
<1> DEFINE id == Last(scopes[th]).id
           data == DataOf(id)
<1>2. /\ id \in Ids
      /\ Current' = Current /\ Current \in Time
      /\ DataInv(data, Current)
      /\ DOMAIN timings' = DOMAIN timings \union {id}
      /\ timings'[id] = Started(data, Current)
      /\ \A i \in DOMAIN timings \ {id} : timings'[i] = timings[i]
  BY StartFacts
<1>3. /\ scopes' \in [Threads -> Seq(Scope)]
      /\ \A u \in Threads \ {th} : scopes'[u] = scopes[u]
      /\ Len(scopes[th]) \in DOMAIN scopes[th]
      /\ Len(scopes'[th]) = Len(scopes[th])
      /\ \A i \in DOMAIN scopes[th] \ {Len(scopes[th])} : scopes'[th][i] = scopes[th][i]
      /\ scopes'[th][Len(scopes[th])] = [id |-> id, since |-> Current]
  BY <1>0, ScopeStarted
<1> HIDE DEF id, data
<1>4. DataInv(Started(data, Current), Current)
  BY <1>2, StartedKeepsData
<1>5. TimingsInv'
  <2>1. ASSUME NEW i \in DOMAIN timings' PROVE DataInv(timings'[i], Current')
    <3>1. CASE i = id
      BY <1>2, <1>4, <3>1
    <3>2. CASE i # id
      BY <1>1, <1>2, <3>2, NothingIsLater
    <3>3. QED
      BY <3>1, <3>2
  <2>2. QED
    BY <1>0, <1>2, <2>1 DEF TimingsInv
<1>6. ScopesInv'
  <2> SUFFICES ASSUME NEW u \in Threads, NEW i \in DOMAIN scopes'[u] PROVE scopes'[u][i].since <= Current'
    BY <1>3 DEF ScopesInv
  <2>1. scopes[th] \in Seq(Scope) /\ scopes'[th] \in Seq(Scope) /\ DOMAIN scopes'[th] = DOMAIN scopes[th]
    BY <1>0, <1>3 DEF ScopesInv
  <2>2. CASE u # th
    BY <1>1, <1>3, <2>2, NothingIsLater
  <2>3. CASE u = th /\ i # Len(scopes[th])
    BY <1>1, <1>3, <2>1, <2>3, NothingIsLater
  <2>4. CASE u = th /\ i = Len(scopes[th])
    BY <1>2, <1>3, <2>4, BoundAssumption DEF Time
  <2>5. QED
    BY <2>2, <2>3, <2>4
<1>7. CallsInv'
  <2>1. calling' = [calling EXCEPT ![th] = "none"]
    BY DEF Start
  <2>2. QED
    BY <1>0, <1>3, <2>1 DEF CallsInv
<1>8. HistoryInv'
  BY <1>0 DEF Start, HistoryInv, history
<1>9. QED
  BY <1>1, <1>5, <1>6, <1>7, <1>8, NothingIsLater DEF RingInv

\* A scope less.
LEMMA PopKeepsScopes ==
  ASSUME RingInv, [Next]_vars, NEW th \in Threads, Popped(th)
  PROVE  ScopesInv'
<1> SUFFICES ASSUME NEW u \in Threads, NEW i \in DOMAIN scopes'[u] PROVE scopes'[u][i].since <= Current'
  BY DEF ScopesInv, Popped
<1>1. /\ scopes[th] \in Seq(Scope) /\ scopes'[th] \in Seq(Scope)
      /\ DOMAIN scopes'[th] = 1 .. Len(scopes[th]) - 1 /\ DOMAIN scopes[th] = 1 .. Len(scopes[th])
  BY DEF RingInv, ScopesInv, Popped
<1>2. CASE u # th
  BY <1>2, NothingIsLater DEF Popped
<1>3. CASE u = th
  <2>1. i \in DOMAIN scopes[th] /\ scopes'[th][i] = scopes[th][i]
    BY <1>1, <1>3 DEF Popped
  <2>2. QED
    BY <1>3, <2>1, NothingIsLater
<1>4. QED
  BY <1>2, <1>3

LEMMA CloseKeepsRing == ASSUME RingInv, NEW th \in Threads, Close(th) PROVE RingInv'
<1>0. ClockInv /\ ScopesInv /\ CallsInv /\ HistoryInv /\ TimingsInv
  BY DEF RingInv
<1>1. [Next]_vars
  BY DEF Next
<1>2. TimingsInv' /\ HistoryInv'
  <2>1. UNCHANGED <<measure, timings, opened, lasted, disturbed>>
    BY DEF Close, history
  <2>2. QED
    BY <1>0, <1>1, <2>1, NothingIsLater DEF TimingsInv, HistoryInv
<1>3. CASE measure
  <2>1. scopes' = scopes /\ calling' = [calling EXCEPT ![th] = "Stop"] /\ scopes[th] # <<>>
    BY <1>3 DEF Close
  <2>2. ScopesInv'
    BY <1>0, <1>1, <2>1, NothingIsLater DEF ScopesInv
  <2>3. CallsInv'
    BY <1>0, <2>1 DEF CallsInv
  <2>4. QED
    BY <1>1, <1>2, <2>2, <2>3, NothingIsLater DEF RingInv
<1>4. CASE ~measure
  <2>1. scopes' = [scopes EXCEPT ![th] = Front(@)] /\ calling' = calling /\ calling[th] = "none" /\ scopes[th] # <<>>
    BY <1>4 DEF Close
  <2>2. Popped(th)
    BY <1>0, <2>1, ScopePopped
  <2>3. ScopesInv'
    BY <1>1, <2>2, PopKeepsScopes
  <2>4. CallsInv'
    BY <1>0, <2>1, <2>2 DEF CallsInv, Popped
  <2>5. QED
    BY <1>1, <1>2, <2>3, <2>4, NothingIsLater DEF RingInv
<1>5. QED
  BY <1>3, <1>4

\* What Stop() does to the data of an id that is known.
LEMMA StopFacts ==
  ASSUME RingInv, NEW th \in Threads, Stop(th)
  PROVE  LET scope == Last(scopes[th])
         IN  /\ scope \in Scope /\ scope = scopes[th][Len(scopes[th])] /\ Popped(th)
             /\ Current' = Current /\ Current \in Time /\ Current - scope.since \in Time
             /\ scope.id \in DOMAIN timings =>
                  /\ DataInv(timings[scope.id], Current)
                  /\ DOMAIN timings' = DOMAIN timings
                  /\ timings'[scope.id] = Stopped(timings[scope.id], Current)
                  /\ \A i \in DOMAIN timings \ {scope.id} : timings'[i] = timings[i]
                  /\ lasted' = [lasted EXCEPT ![scope.id] = Append(@, Current - scope.since)]
             /\ scope.id \notin DOMAIN timings => UNCHANGED <<timings, lasted>>
<1>0. ClockInv /\ ScopesInv /\ CallsInv /\ HistoryInv /\ TimingsInv
  BY DEF RingInv
<1> DEFINE scope == Last(scopes[th])
<1>1. Popped(th)
  <2>1. scopes[th] # <<>> /\ scopes' = [scopes EXCEPT ![th] = Front(@)]
    BY <1>0 DEF Stop, CallsInv
  <2>2. QED
    BY <1>0, <2>1, ScopePopped
<1>2. scope = scopes[th][Len(scopes[th])] /\ Len(scopes[th]) \in DOMAIN scopes[th]
  BY <1>1 DEF Last, Popped
<1>3. Current \in Time /\ Origin # 0
  BY <1>0, CurrentIsTime DEF ClockInv
<1>4. Current' = Current
  <2>1. t0' \in {t0, Origin} /\ ticks' = ticks
    BY DEF Stop
  <2>2. QED
    BY <1>3, <2>1 DEF Current, Origin
<1>5. scope \in Scope /\ scope.since \in Time /\ scope.since <= Current
  BY <1>0, <1>2, ScopesAreTyped DEF ScopesInv
<1>6. Current - scope.since \in Time
  BY <1>3, <1>5, BoundAssumption DEF Time
<1>7. ASSUME scope.id \in DOMAIN timings
      PROVE  /\ DataInv(timings[scope.id], Current)
             /\ DOMAIN timings' = DOMAIN timings
             /\ timings'[scope.id] = Stopped(timings[scope.id], Current)
             /\ \A i \in DOMAIN timings \ {scope.id} : timings'[i] = timings[i]
             /\ lasted' = [lasted EXCEPT ![scope.id] = Append(@, Current - scope.since)]
  <2>1. timings' = [timings EXCEPT ![scope.id] = Stopped(@, Current)]
        /\ lasted' = [lasted EXCEPT ![scope.id] = Append(@, Current - scope.since)]
    BY <1>7 DEF Stop
  <2>2. DataInv(timings[scope.id], Current)
    BY <1>0, <1>7 DEF TimingsInv
  <2> HIDE DEF scope
  <2>3. QED
    BY <1>7, <2>1, <2>2
<1>8. scope.id \notin DOMAIN timings => UNCHANGED <<timings, lasted>>
  BY DEF Stop
<1>9. QED
  BY <1>1, <1>2, <1>3, <1>4, <1>5, <1>6, <1>7, <1>8

LEMMA StopKeepsRing == ASSUME RingInv, NEW th \in Threads, Stop(th) PROVE RingInv'
<1>0. ClockInv /\ ScopesInv /\ CallsInv /\ HistoryInv /\ TimingsInv
  BY DEF RingInv
<1>1. [Next]_vars
  BY DEF Next
<1> DEFINE scope == Last(scopes[th])
           id == scope.id
           took == Current - scope.since
<1>2. /\ scope \in Scope /\ Popped(th)
      /\ Current' = Current /\ Current \in Time /\ took \in Time
      /\ id \in DOMAIN timings =>
           /\ DataInv(timings[id], Current)
           /\ DOMAIN timings' = DOMAIN timings
           /\ timings'[id] = Stopped(timings[id], Current)
           /\ \A i \in DOMAIN timings \ {id} : timings'[i] = timings[i]
           /\ lasted' = [lasted EXCEPT ![id] = Append(@, took)]
      /\ id \notin DOMAIN timings => UNCHANGED <<timings, lasted>>
  BY StopFacts
<1>3. id \in Ids
  BY <1>2 DEF Scope
<1> HIDE DEF scope, id, took
<1>4. ScopesInv'
  BY <1>1, <1>2, PopKeepsScopes
<1>5. CallsInv'
  <2>1. calling' = [calling EXCEPT ![th] = "none"]
    BY DEF Stop
  <2>2. QED
    BY <1>0, <1>2, <2>1 DEF CallsInv, Popped
<1>6. UNCHANGED <<measure, opened, disturbed>>
  BY DEF Stop
<1>7. CASE id \in DOMAIN timings
  <2>1. DataInv(Stopped(timings[id], Current), Current)
    BY <1>2, <1>7, StoppedKeepsData
  <2>2. ASSUME NEW i \in DOMAIN timings' PROVE DataInv(timings'[i], Current')
    <3>1. CASE i = id
      BY <1>2, <1>7, <2>1, <3>1
    <3>2. CASE i # id
      BY <1>1, <1>2, <1>7, <3>2, NothingIsLater
    <3>3. QED
      BY <3>1, <3>2
  <2>3. TimingsInv'
    BY <1>0, <1>2, <1>7, <2>2 DEF TimingsInv
  <2>4. lasted' \in [Ids -> Seq(Time)]
    <3>1. lasted \in [Ids -> Seq(Time)] /\ lasted[id] \in Seq(Time)
      BY <1>0, <1>3 DEF HistoryInv
    <3>2. Append(lasted[id], took) \in Seq(Time)
      BY <1>2, <3>1, AppendProperties
    <3>3. lasted' = [lasted EXCEPT ![id] = Append(lasted[id], took)]
      BY <1>2, <1>7
    <3>4. QED
      BY <3>1, <3>2, <3>3
  <2>5. QED
    BY <1>0, <1>1, <1>4, <1>5, <1>6, <2>3, <2>4, NothingIsLater DEF RingInv, HistoryInv
<1>8. CASE id \notin DOMAIN timings
  <2>1. TimingsInv' /\ HistoryInv'
    BY <1>0, <1>1, <1>2, <1>6, <1>8, NothingIsLater DEF TimingsInv, HistoryInv
  <2>2. QED
    BY <1>1, <1>4, <1>5, <2>1, NothingIsLater DEF RingInv
<1>9. QED
  BY <1>7, <1>8

\* The switch, the clock and stuttering steps leave data and scopes alone.
LEMMA OthersKeepRing ==
  ASSUME RingInv, SwitchMeasuring \/ Tick \/ UNCHANGED vars
  PROVE  RingInv'
<1>0. ClockInv /\ ScopesInv /\ CallsInv /\ HistoryInv /\ TimingsInv
  BY DEF RingInv
<1>1. [Next]_vars
  BY DEF Next
<1>2. UNCHANGED <<timings, scopes, calling, opened, lasted>>
  BY DEF SwitchMeasuring, Tick, vars, history
<1>3. measure' \in BOOLEAN /\ disturbed' \subseteq Ids
  <2>1. measure \in BOOLEAN /\ disturbed \subseteq Ids /\ OpenIds \subseteq Ids
    BY <1>0 DEF HistoryInv, OpenIds
  <2>2. QED
    BY <2>1 DEF SwitchMeasuring, Tick, vars, history
<1>4. HistoryInv' /\ CallsInv'
  BY <1>0, <1>2, <1>3 DEF HistoryInv, CallsInv
<1>5. TimingsInv' /\ ScopesInv'
  BY <1>0, <1>1, <1>2, NothingIsLater DEF TimingsInv, ScopesInv
<1>6. QED
  BY <1>1, <1>4, <1>5, NothingIsLater DEF RingInv

LEMMA InitRing == Init => RingInv
<1> SUFFICES ASSUME Init PROVE RingInv
  OBVIOUS
<1>1. ClockInv
  BY BoundAssumption DEF Init, ClockInv, Time
<1>2. TimingsInv
  BY DEF Init, TimingsInv
<1>3. ScopesInv /\ CallsInv
  BY DEF Init, ScopesInv, CallsInv
<1>4. HistoryInv
  <2>1. <<>> \in Seq(Time) /\ 0 \in 0 .. MaxScopes
    BY BoundAssumption
  <2>2. QED
    BY <2>1 DEF Init, HistoryInv
<1>5. QED
  BY <1>1, <1>2, <1>3, <1>4 DEF RingInv

LEMMA StepRing == RingInv /\ [Next]_vars => RingInv'
<1> SUFFICES ASSUME RingInv, [Next]_vars PROVE RingInv'
  OBVIOUS
<1>1. ASSUME NEW th \in Threads, NEW id \in Ids, Open(th, id) PROVE RingInv'
  BY <1>1, OpenKeepsRing
<1>2. ASSUME NEW th \in Threads, Start(th) \/ Close(th) \/ Stop(th) PROVE RingInv'
  BY <1>2, StartKeepsRing, CloseKeepsRing, StopKeepsRing
<1>3. CASE SwitchMeasuring \/ Tick \/ UNCHANGED vars
  BY <1>3, OthersKeepRing
<1>4. QED
  BY <1>1, <1>2, <1>3 DEF Next

LEMMA RingInvHolds == Spec => []RingInv
BY InitRing, StepRing, PTL DEF Spec

(* Timings, sums and extremes are times: no difference of two times is     *)
(* ever negative, no sum goes below zero (Start() and Stop()).             *)
THEOREM TypeCorrect == Spec => []TypeOK
BY RingInvHolds, RingInvIsTyped, PTL

(* The running sums are the sums over the ring, for any number of threads, *)
(* ids and timings, whatever scopes nest, overlap or are cut by the switch.*)
THEOREM SumsAreOfTheRing == Spec => []SumsMatchRing
<1>1. RingInv => SumsMatchRing
  BY DEF RingInv, TimingsInv, DataInv, SumsMatchRing
<1>2. QED
  BY <1>1, RingInvHolds, PTL

-----------------------------------------------------------------------------
(* Totals and extremes.                                                    *)

(***************************************************************************)
(* The inductive invariant, for the ids that were never disturbed: such an *)
(* id has at most one open scope (at place i of thread th).  While it is   *)
(* timed, the ring's current timing began with it; while none is, the last *)
(* timing of the ring is the last scope that was timed.                    *)
(***************************************************************************)
Holds(th, i, id) == i \in DOMAIN scopes[th] /\ scopes[th][i].id = id

\* The scope is open, and measuring began with it and is not over.
Timed(th, i, id) ==
  Holds(th, i, id) /\ measure /\ ~(calling[th] = "Start" /\ i = Len(scopes[th]))

OneScope(id) ==
  \A th \in Threads, u \in Threads : \A i, j : Holds(th, i, id) /\ Holds(u, j, id) => th = u /\ i = j
CallsMeasured(id) ==
  \A th \in Threads : calling[th] # "none" /\ Holds(th, Len(scopes[th]), id) => measure

Since(data, start) == data.ring[data.index].start = start /\ data.elapsed.total = start
TimedSince(id) ==
  \A th \in Threads : \A i :
    Timed(th, i, id) => id \in DOMAIN timings /\ Since(timings[id], scopes[th][i].since)
Rested(data) == data.elapsed.total = Previous(data).start
Resting(id) ==
  id \in DOMAIN timings /\ (\A th \in Threads : \A i : ~Timed(th, i, id)) => Rested(timings[id])

Highest(x, seq) == x \in ToSet(seq) /\ \A y \in ToSet(seq) : y <= x
Least(x, seq) == x \in ToSet(seq) /\ \A y \in ToSet(seq) : x <= y
Measured(data, seq) ==
  /\ data.taken.total = Total(seq)
  /\ FirstRound(data) <=> seq = <<>>
  /\ seq = <<>> => data.taken.max = 0
  /\ seq # <<>> => Highest(data.taken.max, seq) /\ Least(data.taken.min, seq)
Lasted(id) == IF id \in DOMAIN timings THEN Measured(timings[id], lasted[id]) ELSE lasted[id] = <<>>

ExactOf(id) == OneScope(id) /\ CallsMeasured(id) /\ TimedSince(id) /\ Resting(id) /\ Lasted(id)
ExactInv == \A id \in Ids \ disturbed : ExactOf(id)

LEMMA ToSetAppend ==
  ASSUME NEW seq \in Seq(Time), NEW x \in Time
  PROVE  /\ Append(seq, x) \in Seq(Time) /\ Append(seq, x) # <<>>
         /\ ToSet(Append(seq, x)) = ToSet(seq) \union {x} /\ ToSet(seq) \subseteq Time
         /\ seq = <<>> => ToSet(seq) = {}
<1>1. /\ Append(seq, x) \in Seq(Time) /\ Len(Append(seq, x)) = Len(seq) + 1 /\ Len(seq) \in Nat
      /\ \A i \in 1 .. Len(seq) : Append(seq, x)[i] = seq[i]
      /\ Append(seq, x)[Len(seq) + 1] = x
  BY AppendProperties
<1>2. ToSet(Append(seq, x)) = {Append(seq, x)[i] : i \in 1 .. Len(seq) + 1} /\ ToSet(seq) = {seq[i] : i \in 1 .. Len(seq)}
  BY <1>1 DEF ToSet
<1>3. ToSet(Append(seq, x)) = ToSet(seq) \union {x}
  <2>1. 1 .. Len(seq) + 1 = (1 .. Len(seq)) \union {Len(seq) + 1}
    BY <1>1
  <2>2. QED
    BY <1>1, <1>2, <2>1
<1>4. QED
  BY <1>1, <1>2, <1>3, EmptySeq

\* A scope that took x more.
LEMMA MeasuredOnceMore ==
  ASSUME NEW data, NEW t \in Time, DataInv(data, t), NEW seq \in Seq(Time), Measured(data, seq)
  PROVE  Measured(Stopped(data, t), Append(seq, t - data.ring[data.index].start))
<1> DEFINE new == Stopped(data, t)
<1>1. PICK x \in Time : x = t - data.ring[data.index].start
  BY StoppedKeepsData
<1>2. /\ ~FirstRound(new)
      /\ new.taken.total = data.taken.total + x
      /\ new.taken.max = (IF data.taken.max >= x THEN data.taken.max ELSE x)
      /\ new.taken.min = (IF FirstRound(data) \/ x <= data.taken.min THEN x ELSE data.taken.min)
  BY <1>1, StoppedKeepsData
<1> HIDE DEF new
<1>3. /\ Append(seq, x) \in Seq(Time) /\ Append(seq, x) # <<>>
      /\ ToSet(Append(seq, x)) = ToSet(seq) \union {x} /\ ToSet(seq) \subseteq Time
      /\ seq = <<>> => ToSet(seq) = {}
  BY ToSetAppend
<1>4. Time \subseteq Nat /\ x \in Nat
  BY BoundAssumption DEF Time
<1>5. new.taken.total = Total(Append(seq, x))
  <2>1. seq \in Seq(Int)
    <3>1. seq \in [1 .. Len(seq) -> Time] /\ Len(seq) \in Nat
      OBVIOUS
    <3>2. seq \in [1 .. Len(seq) -> Int]
      <4>1. Time \subseteq Int
        BY DEF Time
      <4>2. QED
        BY <3>1, <4>1
    <3>3. QED
      BY <3>1, <3>2, SeqDef
  <2>2. Total(Append(seq, x)) = Total(seq) + x
    BY <1>4, <2>1, TotalAppend
  <2>3. QED
    BY <1>2, <2>2 DEF Measured
<1>6. Highest(new.taken.max, Append(seq, x)) /\ Least(new.taken.min, Append(seq, x))
  <2>1. CASE seq = <<>>
    <3>1. FirstRound(data) /\ data.taken.max = 0
      BY <2>1 DEF Measured
    <3>2. new.taken.max = x /\ new.taken.min = x /\ ToSet(Append(seq, x)) = {x}
      BY <1>2, <1>3, <1>4, <2>1, <3>1
    <3>3. QED
      BY <1>4, <3>2 DEF Highest, Least
  <2>2. CASE seq # <<>>
    <3>1. Highest(data.taken.max, seq) /\ Least(data.taken.min, seq) /\ ~FirstRound(data)
      BY <2>2 DEF Measured
    <3>2. \A y \in ToSet(seq) : y \in Nat /\ y <= data.taken.max /\ data.taken.min <= y
      BY <1>3, <1>4, <3>1 DEF Highest, Least
    <3>3. data.taken.max \in ToSet(seq) /\ data.taken.min \in ToSet(seq)
      BY <3>1 DEF Highest, Least
    <3>4. QED
      BY <1>2, <1>3, <1>4, <3>1, <3>2, <3>3 DEF Highest, Least
  <2>3. QED
    BY <2>1, <2>2
<1>7. QED
  BY <1>1, <1>2, <1>3, <1>5, <1>6 DEF Measured, new

\* A step that neither times a scope of id nor ends one that is timed.
Untouched(id) ==
  /\ \A th \in Threads : \A i :
       /\ Holds(th, i, id)' => Holds(th, i, id) /\ scopes'[th][i] = scopes[th][i]
       /\ Timed(th, i, id)' <=> Timed(th, i, id)
  /\ CallsMeasured(id)'
  /\ id \in DOMAIN timings' <=> id \in DOMAIN timings
  /\ id \in DOMAIN timings => timings'[id] = timings[id]
  /\ lasted'[id] = lasted[id]

LEMMA UntouchedStaysExact ==
  ASSUME NEW id, ExactOf(id), Untouched(id)
  PROVE  ExactOf(id)'
<1>1. OneScope(id)'
  BY DEF ExactOf, OneScope, Untouched
<1>2. TimedSince(id)'
  <2> SUFFICES ASSUME NEW th \in Threads, NEW i, Timed(th, i, id)'
               PROVE  id \in DOMAIN timings' /\ Since(timings'[id], scopes'[th][i].since)
    BY DEF TimedSince, Since
  <2>1. Timed(th, i, id) /\ scopes'[th][i] = scopes[th][i]
    BY DEF Untouched, Timed
  <2>2. id \in DOMAIN timings /\ Since(timings[id], scopes[th][i].since)
    BY <2>1 DEF ExactOf, TimedSince
  <2>3. QED
    BY <2>1, <2>2 DEF Untouched
<1>3. Resting(id)'
  <2> SUFFICES ASSUME id \in DOMAIN timings', \A th \in Threads : \A i : ~Timed(th, i, id)'
               PROVE  Rested(timings'[id])
    BY DEF Resting, Rested, Previous
  <2>1. id \in DOMAIN timings /\ timings'[id] = timings[id] /\ \A th \in Threads : \A i : ~Timed(th, i, id)
    BY DEF Untouched
  <2>2. QED
    BY <2>1 DEF ExactOf, Resting
<1>4. Lasted(id)'
  <2>1. Lasted(id)' = (IF id \in DOMAIN timings' THEN Measured(timings'[id], lasted'[id]) ELSE lasted'[id] = <<>>)
    BY DEF Lasted, Measured, FirstRound, Highest, Least
  <2>2. QED
    BY <2>1 DEF ExactOf, Lasted, Untouched
<1>5. QED
  BY <1>1, <1>2, <1>3, <1>4 DEF ExactOf, Untouched

LEMMA OpenKeepsExact ==
  ASSUME RingInv, ExactInv, NEW th \in Threads, NEW new \in Ids, Open(th, new)
  PROVE  ExactInv'
<1> DEFINE n == Len(scopes[th]) + 1
<1>1. /\ scopes' \in [Threads -> Seq(Scope)]
      /\ \A u \in Threads \ {th} : scopes'[u] = scopes[u]
      /\ Len(scopes'[th]) = n
      /\ \A i \in DOMAIN scopes[th] : scopes'[th][i] = scopes[th][i]
      /\ scopes'[th][n] = [id |-> new, since |-> 0]
  BY ScopeOpened DEF RingInv
<1>2. scopes[th] \in Seq(Scope) /\ scopes'[th] \in Seq(Scope) /\ DOMAIN scopes[th] = 1 .. n - 1 /\ DOMAIN scopes'[th] = 1 .. n /\ n \in Nat \ {0}
  <2>1. scopes[th] \in Seq(Scope) /\ scopes'[th] \in Seq(Scope)
    BY <1>1 DEF RingInv, ScopesInv
  <2>2. QED
    BY <1>1, <2>1
<1>3. /\ UNCHANGED <<measure, timings, lasted>>
      /\ calling[th] = "none" /\ calling'[th] = (IF measure THEN "Start" ELSE "none")
      /\ \A u \in Threads \ {th} : calling'[u] = calling[u]
      /\ disturbed' = IF new \in OpenIds THEN disturbed \union {new} ELSE disturbed
  BY DEF Open, RingInv, CallsInv
<1> HIDE DEF n
<1>4. \A u \in Threads : \A i, id : Holds(u, i, id)' <=> Holds(u, i, id) \/ (u = th /\ i = n /\ id = new)
  <2> SUFFICES ASSUME NEW u \in Threads, NEW i, NEW id
               PROVE  Holds(u, i, id)' <=> Holds(u, i, id) \/ (u = th /\ i = n /\ id = new)
    OBVIOUS
  <2>1. CASE u # th
    BY <1>1, <2>1 DEF Holds
  <2>2. CASE u = th /\ i # n
    <3>1. i \in DOMAIN scopes'[th] <=> i \in DOMAIN scopes[th]
      BY <1>2, <2>2
    <3>2. QED
      BY <1>1, <2>2, <3>1 DEF Holds
  <2>3. CASE u = th /\ i = n
    <3>1. n \in DOMAIN scopes'[th] /\ n \notin DOMAIN scopes[th] /\ scopes'[th][n].id = new
      BY <1>1, <1>2
    <3>2. QED
      BY <2>3, <3>1 DEF Holds
  <2>4. QED
    BY <2>1, <2>2, <2>3
<1>5. \A u \in Threads : \A i, id : Timed(u, i, id)' <=> Timed(u, i, id)
  <2> SUFFICES ASSUME NEW u \in Threads, NEW i, NEW id PROVE Timed(u, i, id)' <=> Timed(u, i, id)
    OBVIOUS
  <2>1. CASE u # th
    BY <1>1, <1>3, <1>4, <2>1 DEF Timed
  <2>2. CASE u = th /\ i # n
    BY <1>1, <1>3, <1>4, <2>2 DEF Timed
  <2>3. CASE u = th /\ i = n
    <3>1. ~Holds(u, i, id)
      BY <1>2, <2>3 DEF Holds
    <3>2. QED
      BY <1>1, <1>3, <2>3, <3>1 DEF Timed
  <2>4. QED
    BY <2>1, <2>2, <2>3
<1>6. ASSUME NEW id \in Ids \ disturbed' PROVE ExactOf(id)'
  <2>1. id \in Ids \ disturbed /\ ExactOf(id)
    BY <1>3, <1>6 DEF ExactInv
  <2>2. CallsMeasured(id)'
    <3> SUFFICES ASSUME NEW u \in Threads, calling'[u] # "none", Holds(u, Len(scopes[u]), id)'
                 PROVE  measure'
      BY DEF CallsMeasured, Holds
    <3>1. CASE u = th
      BY <1>3, <3>1
    <3>2. CASE u # th
      <4>1. calling[u] # "none" /\ Holds(u, Len(scopes[u]), id)
        BY <1>1, <1>3, <3>2 DEF Holds
      <4>2. QED
        BY <1>3, <2>1, <4>1 DEF ExactOf, CallsMeasured
    <3>3. QED
      BY <3>1, <3>2
  <2>3. CASE id # new
    <3>1. \A u \in Threads : \A i : Holds(u, i, id)' => Holds(u, i, id) /\ scopes'[u][i] = scopes[u][i]
      <4> SUFFICES ASSUME NEW u \in Threads, NEW i, Holds(u, i, id)'
                   PROVE  Holds(u, i, id) /\ scopes'[u][i] = scopes[u][i]
        OBVIOUS
      <4>1. Holds(u, i, id)
        BY <1>4, <2>3
      <4>2. QED
        BY <1>1, <4>1 DEF Holds
    <3>2. Untouched(id)
      BY <1>3, <1>5, <2>2, <3>1 DEF Untouched
    <3>3. QED
      BY <2>1, <3>2, UntouchedStaysExact
  <2>4. CASE id = new
    <3>1. id \notin OpenIds
      BY <1>3, <1>6, <2>4
    <3>2. \A u \in Threads : \A i : ~Holds(u, i, id)
      BY <2>1, <3>1 DEF OpenIds, Holds
    <3>3. \A u \in Threads : \A i : ~Timed(u, i, id)'
      BY <1>5, <3>2 DEF Timed
    <3>4. OneScope(id)'
      BY <1>4, <3>2 DEF OneScope
    <3>5. TimedSince(id)'
      BY <3>3 DEF TimedSince
    <3>6. Resting(id)' /\ Lasted(id)'
      <4>1. id \in DOMAIN timings => Rested(timings[id])
        BY <2>1, <3>2 DEF ExactOf, Resting, Timed
      <4>2. Lasted(id)
        BY <2>1 DEF ExactOf
      <4>3. QED
        BY <1>3, <4>1, <4>2 DEF Resting, Rested, Previous, Lasted, Measured, FirstRound, Highest, Least
    <3>7. QED
      BY <2>2, <3>4, <3>5, <3>6 DEF ExactOf
  <2>5. QED
    BY <2>3, <2>4
<1>7. QED
  BY <1>6 DEF ExactInv

\* The scope that begins to be timed.
LEMMA StartKeepsExact ==
  ASSUME RingInv, ExactInv, NEW th \in Threads, Start(th)
  PROVE  ExactInv'
<1>n. PICK n : n = Len(scopes[th])
  OBVIOUS
<1> DEFINE this == Last(scopes[th]).id
           data == DataOf(this)
<1>1. /\ this \in Ids
      /\ Current' = Current /\ Current \in Time
      /\ DataInv(data, Current)
      /\ DOMAIN timings' = DOMAIN timings \union {this}
      /\ timings'[this] = Started(data, Current)
      /\ \A i \in DOMAIN timings \ {this} : timings'[i] = timings[i]
  BY StartFacts
<1>2. /\ scopes' \in [Threads -> Seq(Scope)]
      /\ \A u \in Threads \ {th} : scopes'[u] = scopes[u]
      /\ n \in DOMAIN scopes[th]
      /\ Len(scopes'[th]) = n
      /\ \A i \in DOMAIN scopes[th] \ {n} : scopes'[th][i] = scopes[th][i]
      /\ scopes'[th][n] = [id |-> this, since |-> Current]
  BY <1>n, ScopeStarted DEF RingInv
<1>3. DOMAIN scopes'[th] = DOMAIN scopes[th] /\ this = scopes[th][n].id
  <2>1. scopes[th] \in Seq(Scope) /\ scopes'[th] \in Seq(Scope)
    BY <1>2 DEF RingInv, ScopesInv
  <2>2. QED
    BY <1>n, <1>2, <2>1 DEF Last
<1>4. /\ UNCHANGED <<measure, lasted, disturbed>>
      /\ calling[th] = "Start" /\ calling'[th] = "none"
      /\ \A u \in Threads \ {th} : calling'[u] = calling[u]
  BY DEF Start, RingInv, CallsInv, history
<1>d. data = IF this \in DOMAIN timings THEN timings[this] ELSE NewData
  BY DEF DataOf
<1> HIDE DEF this, data
<1>5. \A u \in Threads : \A i, id : Holds(u, i, id)' <=> Holds(u, i, id)
  BY <1>2, <1>3 DEF Holds
<1>6. \A u \in Threads : \A i, id : u # th \/ i # n => (Timed(u, i, id)' <=> Timed(u, i, id))
  BY <1>n, <1>2, <1>4, <1>5 DEF Timed
<1>7. ASSUME NEW id \in Ids \ disturbed PROVE ExactOf(id)'
  <2>1. ExactOf(id)
    BY <1>7 DEF ExactInv
  <2>2. CallsMeasured(id)'
    <3> SUFFICES ASSUME NEW u \in Threads, calling'[u] # "none", Holds(u, Len(scopes[u]), id)'
                 PROVE  measure'
      BY DEF CallsMeasured, Holds
    <3>1. calling[u] # "none" /\ Holds(u, Len(scopes[u]), id)
      <4>1. Len(scopes'[u]) = Len(scopes[u])
        BY <1>n, <1>2
      <4>2. Holds(u, Len(scopes[u]), id)
        BY <1>5, <4>1
      <4>3. QED
        BY <1>4, <4>2
    <3>2. QED
      BY <1>4, <2>1, <3>1 DEF ExactOf, CallsMeasured
  <2>3. CASE id # this
    <3>1. \A u \in Threads : \A i : Holds(u, i, id)' => Holds(u, i, id) /\ scopes'[u][i] = scopes[u][i]
      <4> SUFFICES ASSUME NEW u \in Threads, NEW i, Holds(u, i, id)'
                   PROVE  Holds(u, i, id) /\ scopes'[u][i] = scopes[u][i]
        OBVIOUS
      <4>1. Holds(u, i, id)
        BY <1>5
      <4>2. u = th => i \in DOMAIN scopes[th] \ {n}
        BY <1>3, <2>3, <4>1 DEF Holds
      <4>3. QED
        BY <1>2, <4>1, <4>2
    <3>2. \A u \in Threads : \A i : Timed(u, i, id)' <=> Timed(u, i, id)
      <4> SUFFICES ASSUME NEW u \in Threads, NEW i PROVE Timed(u, i, id)' <=> Timed(u, i, id)
        OBVIOUS
      <4>1. CASE u = th /\ i = n
        <5>1. ~Holds(u, i, id) /\ ~Holds(u, i, id)'
          BY <1>3, <1>5, <2>3, <4>1 DEF Holds
        <5>2. QED
          BY <5>1 DEF Timed
      <4>2. CASE u # th \/ i # n
        BY <1>6, <4>2
      <4>3. QED
        BY <4>1, <4>2
    <3>3. Untouched(id)
      BY <1>1, <1>4, <2>2, <2>3, <3>1, <3>2 DEF Untouched
    <3>4. QED
      BY <2>1, <3>3, UntouchedStaysExact
  <2>4. CASE id = this
    <3>1. Holds(th, n, id) /\ Holds(th, n, id)'
      <4>1. Holds(th, n, id)
        BY <1>2, <1>3, <2>4 DEF Holds
      <4>2. QED
        BY <1>5, <4>1
    <3>2. \A u \in Threads : \A i : Holds(u, i, id) => u = th /\ i = n
      BY <2>1, <3>1 DEF ExactOf, OneScope
    <3>3. measure /\ Timed(th, n, id)'
      <4>1. measure
        BY <1>n, <1>4, <2>1, <3>1 DEF ExactOf, CallsMeasured
      <4>2. QED
        BY <1>4, <3>1, <4>1 DEF Timed
    <3>4. \A u \in Threads : \A i : ~Timed(u, i, id)
      BY <1>n, <1>4, <3>2 DEF Timed
    <3>5. Rested(data)
      <4>1. CASE id \in DOMAIN timings
        BY <1>d, <2>1, <2>4, <3>4, <4>1 DEF ExactOf, Resting
      <4>2. CASE id \notin DOMAIN timings
        <5>1. data = NewData /\ NewData.elapsed.total = 0
          BY <1>d, <2>4, <4>2 DEF NewData, NoTally
        <5>2. QED
          BY <1>1, <5>1, NewDataIsTyped DEF Rested
      <4>3. QED
        BY <4>1, <4>2
    <3>6. Measured(data, lasted[id])
      <4>1. CASE id \in DOMAIN timings
        BY <1>d, <2>1, <2>4, <4>1 DEF ExactOf, Lasted
      <4>2. CASE id \notin DOMAIN timings
        <5>1. data = NewData /\ NewData.taken.total = 0 /\ NewData.taken.max = 0 /\ FirstRound(NewData)
          BY <1>d, <2>4, <4>2 DEF NewData, NoTally, FirstRound
        <5>2. lasted[id] = <<>>
          BY <2>1, <4>2 DEF ExactOf, Lasted
        <5>3. QED
          BY <5>1, <5>2, TotalEmpty DEF Measured
      <4>3. QED
        BY <4>1, <4>2
    <3>7. PICK new : /\ new = Started(data, Current)
                     /\ new.index = data.index /\ new.wrapped = data.wrapped /\ new.taken = data.taken
                     /\ new.ring[data.index].start = Current
                     /\ new.elapsed.total = data.elapsed.total + (Current - Previous(data).start)
      BY <1>1, StartedKeepsData
    <3>8. timings'[id] = new /\ id \in DOMAIN timings' /\ lasted'[id] = lasted[id]
      BY <1>1, <1>4, <2>4, <3>7
    <3>9. Since(new, Current)
      <4>1. Current \in Nat /\ Previous(data).start \in Nat
        <5>1. Previous(data) \in Timing
          BY <1>1, DataFields DEF DataInv
        <5>2. QED
          BY <1>1, <5>1, BoundAssumption DEF Timing, Time
      <4>2. QED
        BY <3>5, <3>7, <4>1 DEF Since, Rested
    <3>10. TimedSince(id)'
      <4> SUFFICES ASSUME NEW u \in Threads, NEW i, Timed(u, i, id)'
                   PROVE  id \in DOMAIN timings' /\ Since(timings'[id], scopes'[u][i].since)
        BY DEF TimedSince, Since
      <4>1. u = th /\ i = n
        BY <1>5, <3>2 DEF Timed
      <4>2. scopes'[u][i].since = Current
        BY <1>2, <4>1
      <4>3. QED
        BY <3>8, <3>9, <4>2
    <3>11. Resting(id)'
      BY <3>3 DEF Resting
    <3>12. Lasted(id)'
      <4>1. Lasted(id)' = (IF id \in DOMAIN timings' THEN Measured(timings'[id], lasted'[id]) ELSE lasted'[id] = <<>>)
        BY DEF Lasted, Measured, FirstRound, Highest, Least
      <4>2. Measured(new, lasted[id])
        BY <3>6, <3>7 DEF Measured, FirstRound
      <4>3. QED
        BY <3>8, <4>1, <4>2
    <3>13. OneScope(id)'
      BY <1>5, <2>1 DEF ExactOf, OneScope
    <3>14. QED
      BY <2>2, <3>10, <3>11, <3>12, <3>13 DEF ExactOf
  <2>5. QED
    BY <2>3, <2>4
<1>8. QED
  BY <1>4, <1>7 DEF ExactInv

\* Where the innermost scope of th goes, the others stay where they are.
LEMMA HoldsPopped ==
  ASSUME ScopesInv, NEW th \in Threads, Popped(th), NEW n, n = Len(scopes[th])
  PROVE  /\ n \in Nat /\ Len(scopes'[th]) = n - 1
         /\ \A u \in Threads : \A i, id : Holds(u, i, id)' <=> Holds(u, i, id) /\ ~(u = th /\ i = n)
         /\ \A u \in Threads : \A i, id : Holds(u, i, id)' => scopes'[u][i] = scopes[u][i]
<1>1. /\ scopes[th] \in Seq(Scope) /\ scopes'[th] \in Seq(Scope)
      /\ n \in Nat /\ DOMAIN scopes[th] = 1 .. n /\ DOMAIN scopes'[th] = 1 .. n - 1 /\ Len(scopes'[th]) = n - 1
      /\ \A i \in 1 .. n - 1 : scopes'[th][i] = scopes[th][i]
  <2>1. scopes[th] \in Seq(Scope) /\ scopes'[th] \in Seq(Scope)
    BY DEF ScopesInv, Popped
  <2>2. QED
    BY <2>1 DEF Popped
<1>2. ASSUME NEW u \in Threads, NEW i, NEW id
      PROVE  /\ Holds(u, i, id)' <=> Holds(u, i, id) /\ ~(u = th /\ i = n)
             /\ Holds(u, i, id)' => scopes'[u][i] = scopes[u][i]
  <2>1. CASE u # th
    BY <2>1 DEF Popped, Holds
  <2>2. CASE u = th
    <3>1. i \in DOMAIN scopes'[th] <=> i \in DOMAIN scopes[th] /\ i # n
      BY <1>1
    <3>2. i \in DOMAIN scopes'[th] => scopes'[th][i] = scopes[th][i]
      BY <1>1
    <3>3. QED
      BY <2>2, <3>1, <3>2 DEF Holds
  <2>3. QED
    BY <2>1, <2>2
<1>3. QED
  BY <1>1, <1>2

LEMMA CloseKeepsExact ==
  ASSUME RingInv, ExactInv, NEW th \in Threads, Close(th)
  PROVE  ExactInv'
<1>1. UNCHANGED <<measure, timings, lasted, disturbed>> /\ calling[th] = "none" /\ scopes[th] # <<>>
  BY DEF Close, history
<1>2. ScopesInv /\ CallsInv
  BY DEF RingInv
<1>3. ASSUME NEW id \in Ids \ disturbed PROVE ExactOf(id)'
  <2>1. ExactOf(id)
    BY <1>3 DEF ExactInv
  <2>2. CASE measure
    <3>1. scopes' = scopes /\ calling' = [calling EXCEPT ![th] = "Stop"]
      BY <2>2 DEF Close
    <3>2. \A u \in Threads : (calling'[u] = "Start" <=> calling[u] = "Start")
      BY <1>1, <1>2, <3>1 DEF CallsInv
    <3>3. \A u \in Threads : \A i :
            (Holds(u, i, id)' <=> Holds(u, i, id)) /\ (Timed(u, i, id)' <=> Timed(u, i, id))
      BY <1>1, <3>1, <3>2 DEF Holds, Timed
    <3>4. CallsMeasured(id)'
      BY <1>1, <2>2 DEF CallsMeasured
    <3>5. Untouched(id)
      BY <1>1, <3>1, <3>3, <3>4 DEF Untouched
    <3>6. QED
      BY <2>1, <3>5, UntouchedStaysExact
  <2>3. CASE ~measure
    <3>1. scopes' = [scopes EXCEPT ![th] = Front(@)] /\ calling' = calling
      BY <2>3 DEF Close
    <3>2. Popped(th)
      BY <1>1, <1>2, <3>1, ScopePopped
    <3>3. \A u \in Threads : \A i : Holds(u, i, id)' => Holds(u, i, id) /\ scopes'[u][i] = scopes[u][i]
      BY <1>2, <3>2, HoldsPopped
    <3>4. \A u \in Threads : \A i : ~Timed(u, i, id)' /\ ~Timed(u, i, id)
      BY <1>1, <2>3 DEF Timed
    <3>5. CallsMeasured(id)'
      <4> SUFFICES ASSUME NEW u \in Threads, calling'[u] # "none", Holds(u, Len(scopes[u]), id)'
                   PROVE  measure'
        BY DEF CallsMeasured, Holds
      <4>1. u # th /\ scopes'[u] = scopes[u]
        BY <1>1, <3>1, <3>2 DEF Popped
      <4>2. calling[u] # "none" /\ Holds(u, Len(scopes[u]), id)
        BY <3>1, <4>1 DEF Holds
      <4>3. QED
        BY <1>1, <2>1, <4>2 DEF ExactOf, CallsMeasured
    <3>6. Untouched(id)
      BY <1>1, <3>3, <3>4, <3>5 DEF Untouched
    <3>7. QED
      BY <2>1, <3>6, UntouchedStaysExact
  <2>4. QED
    BY <2>2, <2>3
<1>4. QED
  BY <1>1, <1>3 DEF ExactInv

\* The scope that ends.
LEMMA StopKeepsExact ==
  ASSUME RingInv, ExactInv, NEW th \in Threads, Stop(th)
  PROVE  ExactInv'
<1>n. PICK n : n = Len(scopes[th])
  OBVIOUS
<1> DEFINE scope == Last(scopes[th])
           this == scope.id
           took == Current - scope.since
<1>0. ScopesInv /\ CallsInv
  BY DEF RingInv
<1>1. /\ scope \in Scope /\ scope = scopes[th][n] /\ Popped(th) /\ n \in DOMAIN scopes[th]
      /\ Current' = Current /\ Current \in Time /\ took \in Time
      /\ this \in DOMAIN timings =>
           /\ DataInv(timings[this], Current)
           /\ DOMAIN timings' = DOMAIN timings
           /\ timings'[this] = Stopped(timings[this], Current)
           /\ \A i \in DOMAIN timings \ {this} : timings'[i] = timings[i]
           /\ lasted' = [lasted EXCEPT ![this] = Append(@, took)]
      /\ this \notin DOMAIN timings => UNCHANGED <<timings, lasted>>
  BY <1>n, StopFacts DEF Popped
<1>2. this \in Ids
  BY <1>1 DEF Scope
<1>3. /\ UNCHANGED <<measure, disturbed>>
      /\ calling[th] = "Stop" /\ calling'[th] = "none"
      /\ \A u \in Threads \ {th} : calling'[u] = calling[u]
  BY <1>0 DEF Stop, CallsInv
<1>4. /\ n \in Nat
      /\ \A u \in Threads : \A i, id : Holds(u, i, id)' <=> Holds(u, i, id) /\ ~(u = th /\ i = n)
      /\ \A u \in Threads : \A i, id : Holds(u, i, id)' => scopes'[u][i] = scopes[u][i]
  BY <1>0, <1>1, <1>n, HoldsPopped
<1>5. Holds(th, n, this) /\ \A id : Holds(th, n, id) => id = this
  BY <1>1 DEF Holds
<1>t. took = Current - scopes[th][n].since
  BY <1>1
<1> HIDE DEF this, took, scope
<1>6. \A u \in Threads : \A i, id : ~(u = th /\ i = n) => (Timed(u, i, id)' <=> Timed(u, i, id))
  <2> SUFFICES ASSUME NEW u \in Threads, NEW i, NEW id, ~(u = th /\ i = n)
               PROVE  Timed(u, i, id)' <=> Timed(u, i, id)
    OBVIOUS
  <2>1. Holds(u, i, id)' <=> Holds(u, i, id)
    BY <1>4
  <2>2. CASE u = th
    BY <1>3, <2>1, <2>2 DEF Timed
  <2>3. CASE u # th
    BY <1>1, <1>3, <2>1, <2>3 DEF Timed, Popped
  <2>4. QED
    BY <2>2, <2>3
<1>7. ASSUME NEW id \in Ids \ disturbed PROVE ExactOf(id)'
  <2>1. ExactOf(id)
    BY <1>7 DEF ExactInv
  <2>2. CallsMeasured(id)'
    <3> SUFFICES ASSUME NEW u \in Threads, calling'[u] # "none", Holds(u, Len(scopes[u]), id)'
                 PROVE  measure'
      BY DEF CallsMeasured, Holds
    <3>1. u # th /\ scopes'[u] = scopes[u]
      BY <1>1, <1>3 DEF Popped
    <3>2. calling[u] # "none" /\ Holds(u, Len(scopes[u]), id)
      BY <1>3, <3>1 DEF Holds
    <3>3. QED
      BY <1>3, <2>1, <3>2 DEF ExactOf, CallsMeasured
  <2>3. CASE id # this
    <3>1. \A u \in Threads : \A i : Timed(u, i, id)' <=> Timed(u, i, id)
      <4> SUFFICES ASSUME NEW u \in Threads, NEW i PROVE Timed(u, i, id)' <=> Timed(u, i, id)
        OBVIOUS
      <4>1. CASE u = th /\ i = n
        <5>1. ~Holds(u, i, id) /\ ~Holds(u, i, id)'
          BY <1>4, <1>5, <2>3, <4>1
        <5>2. QED
          BY <5>1 DEF Timed
      <4>2. CASE ~(u = th /\ i = n)
        BY <1>6, <4>2
      <4>3. QED
        BY <4>1, <4>2
    <3>2. /\ id \in DOMAIN timings' <=> id \in DOMAIN timings
          /\ id \in DOMAIN timings => timings'[id] = timings[id]
      BY <1>1, <2>3
    <3>3. lasted'[id] = lasted[id]
      <4>1. lasted \in [Ids -> Seq(Time)]
        BY DEF RingInv, HistoryInv
      <4>2. QED
        BY <1>1, <1>7, <2>3, <4>1
    <3>4. Untouched(id)
      BY <1>4, <2>2, <3>1, <3>2, <3>3 DEF Untouched
    <3>5. QED
      BY <2>1, <3>4, UntouchedStaysExact
  <2>4. CASE id = this
    <3>1. \A u \in Threads : \A i : Holds(u, i, id) => u = th /\ i = n
      BY <1>5, <2>1, <2>4 DEF ExactOf, OneScope
    <3>2. \A u \in Threads : \A i : ~Holds(u, i, id)'
      BY <1>4, <3>1
    <3>3. OneScope(id)' /\ TimedSince(id)'
      BY <3>2 DEF OneScope, TimedSince, Timed
    <3>4. Timed(th, n, id)
      <4>1. measure
        BY <1>n, <1>3, <1>5, <2>1, <2>4 DEF ExactOf, CallsMeasured
      <4>2. QED
        BY <1>3, <1>5, <2>4, <4>1 DEF Timed
    <3>5. id \in DOMAIN timings /\ Since(timings[id], scopes[th][n].since)
      BY <2>1, <3>4 DEF ExactOf, TimedSince
    <3>6. PICK data : data = timings[id] /\ DataInv(data, Current) /\ timings'[id] = Stopped(data, Current)
      BY <1>1, <2>4, <3>5
    <3>7. Resting(id)'
      <4>1. Stopped(data, Current).elapsed = data.elapsed
            /\ Previous(Stopped(data, Current)).start = data.ring[data.index].start
        BY <1>1, <3>6, StoppedKeepsData
      <4>2. Rested(Stopped(data, Current))
        BY <3>5, <3>6, <4>1 DEF Rested, Since
      <4>3. QED
        BY <3>6, <4>2 DEF Resting, Rested, Previous
    <3>8. Lasted(id)'
      <4>1. lasted[id] \in Seq(Time) /\ lasted'[id] = Append(lasted[id], took)
        BY <1>1, <2>4, <3>5 DEF RingInv, HistoryInv
      <4>2. took = Current - data.ring[data.index].start
        BY <1>t, <3>5, <3>6 DEF Since
      <4>3. Measured(data, lasted[id])
        BY <2>1, <3>5, <3>6 DEF ExactOf, Lasted
      <4>4. PICK seq \in Seq(Time) : seq = lasted[id]
        BY <4>1
      <4>5. Measured(Stopped(data, Current), Append(seq, Current - data.ring[data.index].start))
        BY <1>1, <3>6, <4>3, <4>4, MeasuredOnceMore
      <4>6. Measured(timings'[id], lasted'[id])
        BY <3>6, <4>1, <4>2, <4>4, <4>5
      <4>7. Lasted(id)' = (IF id \in DOMAIN timings' THEN Measured(timings'[id], lasted'[id]) ELSE lasted'[id] = <<>>)
        BY DEF Lasted, Measured, FirstRound, Highest, Least
      <4>8. id \in DOMAIN timings'
        BY <1>1, <2>4, <3>5
      <4>9. QED
        BY <4>6, <4>7, <4>8
    <3>9. QED
      BY <2>2, <3>3, <3>7, <3>8 DEF ExactOf
  <2>5. QED
    BY <2>3, <2>4
<1>8. QED
  BY <1>3, <1>7 DEF ExactInv

\* No id is timed across a switch: those with an open scope are disturbed.
LEMMA SwitchKeepsExact ==
  ASSUME ExactInv, SwitchMeasuring
  PROVE  ExactInv'
<1>1. UNCHANGED <<timings, scopes, calling, lasted>> /\ disturbed' = disturbed \union OpenIds
  BY DEF SwitchMeasuring
<1>2. ASSUME NEW id \in Ids \ disturbed' PROVE ExactOf(id)'
  <2>1. ExactOf(id) /\ id \notin OpenIds
    BY <1>1, <1>2 DEF ExactInv
  <2>2. \A th \in Threads : \A i : ~Holds(th, i, id)
    BY <1>2, <2>1 DEF OpenIds, Holds
  <2>3. \A th \in Threads : \A i : ~Holds(th, i, id)'
    BY <1>1, <2>2 DEF Holds
  <2>4. \A th \in Threads : \A i : ~Timed(th, i, id)' /\ ~Timed(th, i, id)
    BY <2>2, <2>3 DEF Timed
  <2>5. CallsMeasured(id)'
    BY <2>3 DEF CallsMeasured, Holds
  <2>6. Untouched(id)
    BY <1>1, <2>3, <2>4, <2>5 DEF Untouched
  <2>7. QED
    BY <2>1, <2>6, UntouchedStaysExact
<1>3. QED
  BY <1>2 DEF ExactInv

LEMMA TickKeepsExact ==
  ASSUME ExactInv, Tick \/ UNCHANGED vars
  PROVE  ExactInv'
<1>1. UNCHANGED <<measure, timings, scopes, calling, lasted, disturbed>>
  BY DEF Tick, vars, history
<1>2. ASSUME NEW id \in Ids \ disturbed PROVE ExactOf(id)'
  <2>1. ExactOf(id)
    BY <1>2 DEF ExactInv
  <2>2. CallsMeasured(id)'
    BY <1>1, <2>1 DEF ExactOf, CallsMeasured, Holds
  <2>3. Untouched(id)
    BY <1>1, <2>2 DEF Untouched, Timed, Holds
  <2>4. QED
    BY <2>1, <2>3, UntouchedStaysExact
<1>3. QED
  BY <1>1, <1>2 DEF ExactInv

LEMMA InitExact == Init => ExactInv
<1> SUFFICES ASSUME Init, NEW id \in Ids PROVE ExactOf(id)
  BY DEF ExactInv
<1>1. \A th \in Threads : \A i : ~Holds(th, i, id) /\ ~Timed(th, i, id)
  BY DEF Init, Holds, Timed
<1>2. id \notin DOMAIN timings /\ lasted[id] = <<>>
  BY DEF Init
<1>3. QED
  BY <1>1, <1>2 DEF ExactOf, OneScope, CallsMeasured, TimedSince, Resting, Lasted

LEMMA StepExact == RingInv /\ ExactInv /\ [Next]_vars => ExactInv'
<1> SUFFICES ASSUME RingInv, ExactInv, [Next]_vars PROVE ExactInv'
  OBVIOUS
<1>1. ASSUME NEW th \in Threads, NEW id \in Ids, Open(th, id) PROVE ExactInv'
  BY <1>1, OpenKeepsExact
<1>2. ASSUME NEW th \in Threads, Start(th) \/ Close(th) \/ Stop(th) PROVE ExactInv'
  BY <1>2, StartKeepsExact, CloseKeepsExact, StopKeepsExact
<1>3. CASE SwitchMeasuring
  BY <1>3, SwitchKeepsExact
<1>4. CASE Tick \/ UNCHANGED vars
  BY <1>4, TickKeepsExact
<1>5. QED
  BY <1>1, <1>2, <1>3, <1>4 DEF Next

LEMMA ExtremesAreMaxMin ==
  ASSUME NEW seq \in Seq(Time), NEW x
  PROVE  (Highest(x, seq) => x = Max(ToSet(seq))) /\ (Least(x, seq) => x = Min(ToSet(seq)))
<1>1. ToSet(seq) \subseteq Nat
  <2>1. ToSet(seq) \subseteq Time
    BY ToSetAppend, BoundAssumption DEF ToSet
  <2>2. QED
    BY <2>1, BoundAssumption DEF Time
<1>2. Highest(x, seq) => x = Max(ToSet(seq))
  BY <1>1 DEF Highest, Max
<1>3. Least(x, seq) => x = Min(ToSet(seq))
  BY <1>1 DEF Least, Min
<1>4. QED
  BY <1>2, <1>3

LEMMA ExactInvIsExact == RingInv /\ ExactInv => UndisturbedIsExact
<1> SUFFICES ASSUME RingInv, ExactInv, NEW id \in DOMAIN timings \ disturbed
             PROVE  LET data == timings[id]
                        times == ToSet(lasted[id])
                        latest == IF id \in OpenIds THEN data.ring[data.index] ELSE Previous(data)
                    IN  /\ data.taken.total = Total(lasted[id])
                        /\ times # {} => data.taken.max = Max(times) /\ data.taken.min = Min(times)
                        /\ (\A th \in Threads : calling[th] = "none") /\ measure =>
                              data.elapsed.total = latest.start
  BY DEF UndisturbedIsExact
<1>1. id \in Ids /\ ExactOf(id) /\ lasted[id] \in Seq(Time)
  BY DEF RingInv, TimingsInv, HistoryInv, ExactInv
<1>2. Measured(timings[id], lasted[id])
  BY <1>1 DEF ExactOf, Lasted
<1>3. ToSet(lasted[id]) # {} => lasted[id] # <<>>
  BY DEF ToSet
<1>4. ToSet(lasted[id]) # {} =>
        timings[id].taken.max = Max(ToSet(lasted[id])) /\ timings[id].taken.min = Min(ToSet(lasted[id]))
  BY <1>1, <1>2, <1>3, ExtremesAreMaxMin DEF Measured
<1>5. ASSUME \A th \in Threads : calling[th] = "none", measure, id \in OpenIds
      PROVE  timings[id].elapsed.total = timings[id].ring[timings[id].index].start
  <2>1. PICK th \in Threads : \E i : Holds(th, i, id)
    BY <1>5 DEF OpenIds, Holds
  <2>2. PICK i : Timed(th, i, id)
    BY <1>5, <2>1 DEF Timed
  <2>3. QED
    BY <1>1, <2>2 DEF ExactOf, TimedSince, Since
<1>6. ASSUME id \notin OpenIds
      PROVE  timings[id].elapsed.total = Previous(timings[id]).start
  <2>1. \A th \in Threads : \A i : ~Timed(th, i, id)
    BY <1>1, <1>6 DEF Timed, Holds, OpenIds
  <2>2. QED
    BY <1>1, <2>1 DEF ExactOf, Resting, Rested
<1>7. QED
  BY <1>2, <1>4, <1>5, <1>6 DEF Measured

(* Where the scopes of an id never overlapped and measuring was not        *)
(* switched inside one, totals and extremes are those of the scopes, one   *)
(* by one: for any number of threads, ids and timings in the ring.         *)
THEOREM UndisturbedTotalsAreExact == Spec => []UndisturbedIsExact
<1>1. Spec => []ExactInv
  BY InitExact, StepExact, RingInvHolds, PTL DEF Spec
<1>2. QED
  BY <1>1, RingInvHolds, ExactInvIsExact, PTL

=============================================================================
