------------------------- MODULE Arithmetic_proofs -------------------------
(***************************************************************************)
(* The clock of UniversalTime for every width, every set of rates and      *)
(* every bound on the count; its receivers, for every set of them,         *)
(* whatever the clock does.                                                *)
(*                                                                         *)
(* The arithmetic of module Numbers and the geometry of module Measures,   *)
(* for every value of their constants.  A law is about one input, so it is *)
(* its own invariant; the work is in the lemmas.  Recursive functions are  *)
(* shown to do what they say by way of their approximations.  Steps name   *)
(* their terms with DEFINE and hide them, for the provers do little with   *)
(* products they see through.                                              *)
(***************************************************************************)
EXTENDS UniversalTime, Numbers, Measures, SequenceTheorems, WellFoundedInduction, TLAPS

(***************************************************************************)
(* The inductive invariant: unless a rate change has led the clock astray, *)
(* the offset, which is kept modulo 2^64, is the exact one, since every    *)
(* update leaves the exact time below 2^64.  That the cached time is exact *)
(* says nothing of the offset the next update starts from.                 *)
(***************************************************************************)
ClockType ==
  /\ time_current \in TimeWidth /\ time_offset \in TimeWidth
  /\ time_numerator \in 0 .. MaxNumerator
  /\ time_denominator \in Denominators

ClockInv ==
  /\ ClockType
  /\ exact \in Nat /\ stale \in BOOLEAN /\ astray \in BOOLEAN
  /\ ~astray => time_offset = exact
  /\ CachedTimeIsExact

-----------------------------------------------------------------------------
(* Clocks: arithmetic.                                                     *)

LEMMA QuotientIsNatural == ASSUME NEW p \in Nat, NEW d \in Nat \ {0} PROVE p \div d \in Nat
OBVIOUS

LEMMA SmallRemainder == ASSUME NEW p \in Nat, NEW m \in Nat \ {0}, p < m PROVE p % m = p
OBVIOUS

LEMMA ProductIsNatural == ASSUME NEW num \in Nat PROVE NsPerSecond * num \in Nat
BY WidthAssumption

\* While the product fits it does not wrap.
LEMMA CalcIsExact ==
  ASSUME NEW num \in Nat, ProductFits(num), NEW den \in Denominators
  PROVE  /\ Calc(num, den) \in Nat
         /\ Calc(num, den) = (NsPerSecond * num) \div den
<1>1. NsPerSecond * num \in Nat
  BY ProductIsNatural
<1>2. (NsPerSecond * num) % Modulus = NsPerSecond * num
  BY <1>1, SmallRemainder, WidthAssumption DEF ProductFits
<1>3. QED
  BY <1>1, <1>2, QuotientIsNatural, ArgumentAssumption DEF Calc

LEMMA QuotientIsSmaller == ASSUME NEW p \in Nat, NEW d \in Nat \ {0} PROVE p \div d \in 0 .. p
OBVIOUS

LEMMA RemainderIsInWidth == ASSUME NEW x \in Int PROVE x % Modulus \in TimeWidth
BY WidthAssumption DEF TimeWidth

LEMMA CalcIsInWidth ==
  ASSUME NEW num \in Nat, NEW den \in Denominators
  PROVE  Calc(num, den) \in TimeWidth
<1>1. (NsPerSecond * num) % Modulus \in TimeWidth
  <2>1. NsPerSecond * num \in Int
    BY ProductIsNatural
  <2>2. QED
    BY <2>1, RemainderIsInWidth
<1>2. ((NsPerSecond * num) % Modulus) \div den \in 0 .. (NsPerSecond * num) % Modulus
  BY <1>1, QuotientIsSmaller, WidthAssumption, ArgumentAssumption DEF TimeWidth
<1>3. QED
  BY <1>1, <1>2, WidthAssumption DEF Calc, TimeWidth

\* An exact time in range is made of an exact offset in range.
LEMMA OffsetIsInRange ==
  ASSUME exact' \in Nat, NEW num \in Nat, NEW den \in Denominators, InRange(num, den)
  PROVE  /\ num \in 0 .. MaxNumerator
         /\ (NsPerSecond * num) \div den \in Nat
         /\ exact' + (NsPerSecond * num) \div den < Modulus
         /\ exact' \in TimeWidth /\ exact' % Modulus = exact'
<1>1. (NsPerSecond * num) \div den \in Nat
  BY ProductIsNatural, QuotientIsNatural, ArgumentAssumption
<1>2. num \in 0 .. MaxNumerator /\ exact' + (NsPerSecond * num) \div den < Modulus
  BY ArgumentAssumption DEF InRange, ExactTime
<1>3. exact' < Modulus
  BY <1>1, <1>2, WidthAssumption
<1>4. exact' % Modulus = exact'
  BY <1>3, SmallRemainder, WidthAssumption
<1>5. exact' \in TimeWidth
  BY <1>3, WidthAssumption DEF TimeWidth
<1>6. QED
  BY <1>1, <1>2, <1>4, <1>5

\* An update keeps the types, and from an exact offset it caches the exact time
\* if its product fits.
LEMMA UpdateIsExact ==
  ASSUME exact' \in Nat, astray' \in BOOLEAN, NEW off \in TimeWidth, ~astray' => off = exact' % Modulus,
         NEW num \in Nat, NEW den \in Denominators, UpdateTime(off, num, den)
  PROVE  ClockInv'
<1>1. /\ time_offset' = off /\ time_numerator' = num /\ time_denominator' = den
      /\ time_current' = (off + Calc(num, den)) % Modulus /\ stale' = FALSE /\ InRange(num, den)
  BY DEF UpdateTime
<1>2. /\ num \in 0 .. MaxNumerator
      /\ (NsPerSecond * num) \div den \in Nat
      /\ exact' + (NsPerSecond * num) \div den < Modulus
      /\ exact' \in TimeWidth /\ exact' % Modulus = exact'
  BY <1>1, OffsetIsInRange
<1>3. Calc(num, den) \in TimeWidth /\ off + Calc(num, den) \in Int
  BY CalcIsInWidth, WidthAssumption DEF TimeWidth
<1>4. ClockType'
  BY <1>1, <1>2, <1>3, RemainderIsInWidth DEF ClockType, TimeWidth
<1>5. ASSUME ~astray', ProductFits(num) PROVE time_current' = ExactTime(exact', num, den)
  <2>1. off = exact' /\ Calc(num, den) = (NsPerSecond * num) \div den
    BY <1>2, <1>5, CalcIsExact
  <2>2. exact' + (NsPerSecond * num) \div den \in Nat
    BY <1>2
  <2>3. QED
    BY <1>1, <1>2, <2>1, <2>2, SmallRemainder, WidthAssumption DEF ExactTime
<1>6. CachedTimeIsExact'
  BY <1>1, <1>5 DEF CachedTimeIsExact, Doubtful, ProductFits, ExactTime
<1>7. ~astray' => time_offset' = exact'
  BY <1>1, <1>2
<1>8. QED
  BY <1>1, <1>4, <1>6, <1>7 DEF ClockInv

-----------------------------------------------------------------------------
LEMMA InitClock == ClockInit => ClockInv
<1>1. (NsPerSecond * 0) \div 1 = 0
  BY WidthAssumption
<1>2. ASSUME ClockInit PROVE ClockInv
  <2>1. ExactTime(exact, time_numerator, time_denominator) = 0
    BY <1>1, <1>2 DEF ClockInit, ExactTime
  <2>2. CachedTimeIsExact
    BY <1>2, <2>1 DEF ClockInit, CachedTimeIsExact
  <2>3. ClockType
    BY <1>2, WidthAssumption, ArgumentAssumption DEF ClockInit, ClockType, TimeWidth
  <2>4. QED
    BY <1>2, <2>2, <2>3 DEF ClockInit, ClockInv
<1>3. QED
  BY <1>2

LEMMA StepClock == ClockInv /\ [ClockNext]_clockVars => ClockInv'
<1> SUFFICES ASSUME ClockInv, [ClockNext]_clockVars PROVE ClockInv'
  OBVIOUS
<1>0. /\ exact \in Nat /\ astray \in BOOLEAN /\ stale \in BOOLEAN
      /\ time_offset \in TimeWidth /\ time_offset \in Nat /\ time_offset % Modulus = time_offset
      /\ time_current \in TimeWidth /\ time_current % Modulus = time_current
      /\ time_numerator \in Nat /\ time_denominator \in Denominators
  BY WidthAssumption, ArgumentAssumption, SmallRemainder DEF ClockInv, ClockType, TimeWidth
<1>1. CASE UNCHANGED <<clock, truth>>
  BY <1>1 DEF clock, truth, ClockInv, ClockType, CachedTimeIsExact, Doubtful
<1>2. ASSUME NEW num \in Numerators, Set(num) PROVE ClockInv'
  <2>1. ~astray => time_offset = exact' % Modulus
    BY <1>0, <1>2 DEF Set, ClockInv
  <2>2. QED
    BY <1>0, <1>2, <2>1, UpdateIsExact, ArgumentAssumption DEF Set
<1>3. ASSUME NEW num \in Numerators, Add(num) PROVE ClockInv'
  <2>1. ~astray => time_offset = exact' % Modulus
    BY <1>0, <1>3 DEF Add, ClockInv
  <2>2. time_numerator + num \in Nat
    BY <1>0, ArgumentAssumption
  <2>3. QED
    BY <1>0, <1>3, <2>1, <2>2, UpdateIsExact DEF Add
<1>4. ASSUME NEW ns \in Numerators, AddNanoSeconds(ns) PROVE ClockInv'
  <2>1. ns \in Nat /\ exact' = exact + ns /\ exact' \in Nat
    BY <1>0, <1>4, ArgumentAssumption DEF AddNanoSeconds
  <2>2. (time_offset + ns) % Modulus \in TimeWidth
    BY <1>0, <2>1, RemainderIsInWidth
  <2>3. ~astray => (time_offset + ns) % Modulus = exact' % Modulus
    BY <2>1 DEF ClockInv
  <2>4. astray' = astray /\ UpdateTime((time_offset + ns) % Modulus, time_numerator, time_denominator)
    BY <1>4 DEF AddNanoSeconds
  <2> HIDE DEF ClockInv
  <2>5. QED
    BY <1>0, <2>1, <2>2, <2>3, <2>4, UpdateIsExact
<1>5. ASSUME NEW den \in Denominators, SetDenominator(den) PROVE ClockInv'
  <2>1. exact' = ExactTime(exact, time_numerator, time_denominator) /\ exact' \in Nat
    <3>1. (NsPerSecond * time_numerator) \div time_denominator \in Nat
      BY <1>0, ProductIsNatural, QuotientIsNatural, ArgumentAssumption
    <3>2. QED
      BY <1>0, <1>5, <3>1 DEF SetDenominator, ExactTime
  <2>2. astray' = Doubtful /\ astray' \in BOOLEAN
    BY <1>0, <1>5 DEF SetDenominator, Doubtful, ProductFits
  <2>3. ~astray' => time_current = exact' % Modulus
    BY <1>0, <2>1, <2>2 DEF ClockInv, CachedTimeIsExact
  <2>4. UpdateTime(time_current, 0, den)
    BY <1>5 DEF SetDenominator
  <2>5. QED
    BY <1>0, <2>1, <2>2, <2>3, <2>4, UpdateIsExact
<1>6. CASE Reset
  <2>1. ClockType'
    BY <1>0, <1>6, WidthAssumption, ArgumentAssumption DEF Reset, ClockType, TimeWidth
  <2>2. CachedTimeIsExact'
    BY <1>6 DEF Reset, CachedTimeIsExact, Doubtful
  <2>3. QED
    BY <1>6, <2>1, <2>2 DEF Reset, ClockInv
<1>7. ASSUME NEW num \in Numerators, NEW den \in Denominators, CopyOf(num, den) PROVE ClockInv'
  <2>1. /\ exact' = 0 /\ stale' = FALSE /\ astray' = FALSE /\ InRange(num, den) /\ num \in Nat
        /\ time_offset' = 0 /\ time_numerator' = num /\ time_denominator' = den
        /\ time_current' = Calc(num, den)
    BY <1>7, ArgumentAssumption DEF CopyOf
  <2>2. /\ num \in 0 .. MaxNumerator /\ (NsPerSecond * num) \div den \in Nat
    BY <2>1, OffsetIsInRange
  <2>3. ClockType'
    BY <2>1, <2>2, CalcIsInWidth, WidthAssumption DEF ClockType, TimeWidth
  <2>4. ASSUME ProductFits(num) PROVE Calc(num, den) = ExactTime(0, num, den)
    BY <2>1, <2>2, <2>4, CalcIsExact DEF ExactTime
  <2>5. CachedTimeIsExact'
    BY <2>1, <2>4 DEF CachedTimeIsExact, Doubtful, ProductFits, ExactTime
  <2>6. QED
    BY <2>1, <2>3, <2>5 DEF ClockInv
<1>8. CASE Notify \/ ReceiverCalls \/ UNCHANGED clockVars
  <2>1. UNCHANGED <<clock, truth>>
    BY <1>8 DEF Notify, ReceiverCalls, AddUpdateReceiver, RemoveUpdateReceiver, clockVars
  <2>2. QED
    BY <1>1, <2>1
<1>9. QED
  BY <1>2, <1>3, <1>4, <1>5, <1>6, <1>7, <1>8 DEF ClockNext

LEMMA ClockInvHolds == ClockSpec => []ClockInv
BY InitClock, StepClock, PTL DEF ClockSpec

-----------------------------------------------------------------------------
(* The cached time is the one the operations define, at every width and    *)
(* after any sequence of counts, offsets, rates and assignments, unless    *)
(* Reset() was the last of them, the product wraps, or a change of rate    *)
(* has saved the time of such a state.                                     *)
THEOREM TimeIsExact == ClockSpec => []CachedTimeIsExact
<1>1. ClockInv => CachedTimeIsExact
  BY DEF ClockInv
<1>2. QED
  BY <1>1, ClockInvHolds, PTL

(* A change of rate does not move the clock, even right after Reset(),     *)
(* when the cached time is not the exact one, or with a product that wraps.*)
THEOREM ClockDoesNotJump == ClockSpec => RateChangeKeepsTime
<1>1. ClockInv /\ [ClockNext]_clockVars =>
        [\A den \in Denominators : SetDenominator(den) => time_current' = time_current]_clockVars
  <2> SUFFICES ASSUME ClockInv, NEW den \in Denominators, SetDenominator(den) PROVE time_current' = time_current
    OBVIOUS
  <2>1. time_current \in Nat /\ time_current < Modulus
    BY WidthAssumption DEF ClockInv, ClockType, TimeWidth
  <2>2. Calc(0, den) = 0
    <3>1. NsPerSecond * 0 = 0 /\ 0 % Modulus = 0 /\ 0 \div den = 0
      BY WidthAssumption, ArgumentAssumption
    <3>2. QED
      BY <3>1 DEF Calc
  <2>3. QED
    BY <2>1, <2>2, SmallRemainder, WidthAssumption DEF SetDenominator, UpdateTime
<1>2. QED
  BY <1>1, ClockInvHolds, PTL DEF ClockSpec, RateChangeKeepsTime

-----------------------------------------------------------------------------
(* The list of receivers.                                                  *)

NoDuplicates(list) == \A i, j \in 1 .. Len(list) : list[i] = list[j] => i = j

\* What becomes of the list while the receiver at n is called: whoever stood
\* behind it and stays on the list stands behind it still, or has slid into its
\* place.  Outside the calls n is no place of the list.
Keeps(list, new, n) ==
  /\ new \in Seq(Receivers)
  /\ NoDuplicates(list) => NoDuplicates(new)
  /\ n \in 1 .. Len(list) /\ NoDuplicates(list) =>
       \A i \in n + 1 .. Len(list) : list[i] \in ToSet(new) =>
         \/ \E j \in n + 1 .. Len(new) : new[j] = list[i]
         \/ n <= Len(new) /\ new[n] = list[i] /\ new[n] # list[n]

\* Every set of natural numbers has a least element.
LEMMA LeastElement ==
  ASSUME NEW T \in SUBSET Nat, T # {}
  PROVE  \E n \in T : \A m \in T : n <= m
<1> DEFINE R == {ss \in Nat \X Nat : ss[1] < ss[2]}
<1>1. PICK x \in T : \A y \in T : ~(<<y, x>> \in R)
  <2>1. IsWellFoundedOn(R, Nat)
    BY NatLessThanWellFounded DEF OpToRel
  <2> HIDE DEF R
  <2>2. QED
    BY <2>1, WFMin, Zenon
<1>2. ASSUME NEW y \in T PROVE x <= y
  <2>1. <<y, x>> \notin R
    BY <1>1
  <2>2. QED
    BY <2>1
<1>3. QED
  BY <1>2

\* A receiver is added at the end.
LEMMA AddedKeeps ==
  ASSUME NEW list \in Seq(Receivers), NEW r \in Receivers, NEW n \in Nat
  PROVE  Keeps(list, Added(list, r), n)
<1>1. CASE Contains(list, r)
  BY <1>1 DEF Added, Keeps
<1>2. CASE ~Contains(list, r)
  <2>1. Added(list, r) = Append(list, r)
    BY <1>2 DEF Added
  <2>2. /\ Append(list, r) \in Seq(Receivers)
        /\ Len(Append(list, r)) = Len(list) + 1
        /\ \A i \in 1 .. Len(list) : Append(list, r)[i] = list[i]
        /\ Append(list, r)[Len(list) + 1] = r
    BY AppendProperties
  <2>3. \A i \in 1 .. Len(list) : list[i] # r
    BY <1>2 DEF Contains
  <2>4. NoDuplicates(list) => NoDuplicates(Append(list, r))
    BY <2>2, <2>3 DEF NoDuplicates
  <2>5. ASSUME NEW i \in n + 1 .. Len(list)
        PROVE  i \in n + 1 .. Len(Append(list, r)) /\ Append(list, r)[i] = list[i]
    BY <2>2
  <2>6. QED
    BY <2>1, <2>2, <2>4, <2>5 DEF Keeps
<1>3. QED
  BY <1>1, <1>2

\* What erase() at the place of a receiver leaves.
Erased(list, r, p) ==
  /\ list[p] = r
  /\ WithoutReceiver(list, r) \in Seq(Receivers)
  /\ Len(WithoutReceiver(list, r)) = Len(list) - 1
  /\ \A i \in 1 .. Len(list) - 1 : WithoutReceiver(list, r)[i] = IF i < p THEN list[i] ELSE list[i + 1]

LEMMA RemovedIsErased ==
  ASSUME NEW list \in Seq(Receivers), NEW r, Contains(list, r)
  PROVE  \E p \in 1 .. Len(list) : Erased(list, r, p)
<1> DEFINE at == {i \in 1 .. Len(list) : list[i] = r}
           p == Min(at)
<1>1. p \in at
  <2>1. at \in SUBSET Nat /\ at # {}
    BY DEF Contains
  <2> HIDE DEF at
  <2>2. \E i \in at : \A j \in at : i <= j
    BY <2>1, LeastElement
  <2>3. QED
    BY <2>2 DEF Min
<1>2. WithoutReceiver(list, r) = SubSeq(list, 1, p - 1) \o SubSeq(list, p + 1, Len(list))
  BY <1>1 DEF WithoutReceiver, RemoveFirst, RemoveAt, SelectInSeq
<1>3. p \in 1 .. Len(list) /\ list[p] = r
  BY <1>1
<1> HIDE DEF p
<1> DEFINE front == SubSeq(list, 1, p - 1)
           back == SubSeq(list, p + 1, Len(list))
<1>0. WithoutReceiver(list, r) = front \o back
  BY <1>2
<1>4. front \in Seq(Receivers) /\ Len(front) = p - 1 /\ \A i \in 1 .. p - 1 : front[i] = list[i]
  BY <1>3, SubSeqProperties
<1>5. /\ back \in Seq(Receivers) /\ Len(back) = Len(list) - p
      /\ \A i \in 1 .. Len(list) - p : back[i] = list[p + i]
  BY <1>3, SubSeqProperties
<1> HIDE DEF front, back
<1>6. /\ front \o back \in Seq(Receivers)
      /\ Len(front \o back) = Len(list) - 1
      /\ \A i \in 1 .. Len(list) - 1 : (front \o back)[i] = IF i < p THEN list[i] ELSE list[i + 1]
  <2>1. /\ front \o back \in Seq(Receivers)
        /\ Len(front \o back) = Len(front) + Len(back)
        /\ \A i \in 1 .. Len(front) + Len(back) :
             (front \o back)[i] = IF i <= Len(front) THEN front[i] ELSE back[i - Len(front)]
    BY <1>4, <1>5, ConcatProperties
  <2>2. ASSUME NEW i \in 1 .. Len(list) - 1 PROVE (front \o back)[i] = IF i < p THEN list[i] ELSE list[i + 1]
    <3>1. CASE i < p
      BY <1>3, <1>4, <1>5, <2>1, <3>1
    <3>2. CASE ~(i < p)
      <4>1. (front \o back)[i] = back[i - (p - 1)] /\ i - (p - 1) \in 1 .. Len(list) - p
        BY <1>3, <1>4, <1>5, <2>1, <3>2
      <4>2. back[i - (p - 1)] = list[p + (i - (p - 1))] /\ p + (i - (p - 1)) = i + 1
        BY <1>3, <1>5, <4>1
      <4>3. QED
        BY <3>2, <4>1, <4>2
    <3>3. QED
      BY <3>1, <3>2
  <2>3. QED
    BY <1>3, <1>4, <1>5, <2>1, <2>2
<1>7. Erased(list, r, p)
  BY <1>0, <1>3, <1>6 DEF Erased
<1>8. QED
  BY <1>3, <1>7

\* A receiver is removed anywhere, and those behind it move up by one.
LEMMA RemovedKeeps ==
  ASSUME NEW list \in Seq(Receivers), NEW r, NEW n \in Nat
  PROVE  Keeps(list, WithoutReceiver(list, r), n)
<1>1. CASE ~Contains(list, r)
  BY <1>1 DEF WithoutReceiver, RemoveFirst, Contains, Keeps
<1>2. CASE Contains(list, r)
  <2>0. PICK p \in 1 .. Len(list) : Erased(list, r, p)
    BY <1>2, RemovedIsErased
  <2> DEFINE new == WithoutReceiver(list, r)
  <2>1. /\ list[p] = r
        /\ new \in Seq(Receivers)
        /\ Len(new) = Len(list) - 1
        /\ \A i \in 1 .. Len(list) - 1 : new[i] = IF i < p THEN list[i] ELSE list[i + 1]
    BY <2>0 DEF Erased
  <2> HIDE DEF new
  <2>2. NoDuplicates(list) => NoDuplicates(new)
    <3> SUFFICES ASSUME NoDuplicates(list), NEW i \in 1 .. Len(list) - 1, NEW j \in 1 .. Len(list) - 1,
                        new[i] = new[j]
                 PROVE  i = j
      BY <2>1 DEF NoDuplicates
    <3>0. Len(list) \in Nat /\ p \in Nat
      OBVIOUS
    <3>1. PICK k \in 1 .. Len(list) : k = (IF i < p THEN i ELSE i + 1) /\ new[i] = list[k]
      <4>1. (IF i < p THEN i ELSE i + 1) \in 1 .. Len(list)
        BY <3>0
      <4>2. new[i] = list[IF i < p THEN i ELSE i + 1]
        BY <2>1
      <4>3. QED
        BY <4>1, <4>2
    <3>2. PICK l \in 1 .. Len(list) : l = (IF j < p THEN j ELSE j + 1) /\ new[j] = list[l]
      <4>1. (IF j < p THEN j ELSE j + 1) \in 1 .. Len(list)
        BY <3>0
      <4>2. new[j] = list[IF j < p THEN j ELSE j + 1]
        BY <2>1
      <4>3. QED
        BY <4>1, <4>2
    <3>3. k = l
      BY <3>1, <3>2 DEF NoDuplicates
    <3>4. QED
      BY <3>1, <3>2, <3>3
  <2>3. ASSUME NoDuplicates(list), NEW i \in 1 .. Len(list), list[i] \in ToSet(new)
        PROVE  i # p
    <3>1. PICK j \in 1 .. Len(list) - 1 : new[j] = list[i]
      BY <2>1, <2>3 DEF ToSet
    <3>2. PICK k \in 1 .. Len(list) : k # p /\ new[j] = list[k]
      BY <2>1
    <3>3. QED
      BY <2>3, <3>1, <3>2 DEF NoDuplicates
  <2>4. ASSUME NoDuplicates(list), n \in 1 .. Len(list),
               NEW i \in n + 1 .. Len(list), list[i] \in ToSet(new)
        PROVE  \/ \E j \in n + 1 .. Len(new) : new[j] = list[i]
               \/ n <= Len(new) /\ new[n] = list[i] /\ new[n] # list[n]
    <3>1. i \in 1 .. Len(list) /\ i # p /\ Len(list) \in Nat
      BY <2>3, <2>4
    <3>2. CASE i < p
      <4>1. i \in n + 1 .. Len(new) /\ new[i] = list[i]
        BY <2>1, <3>1, <3>2
      <4>2. QED
        BY <4>1
    <3>3. CASE i > p /\ i - 1 > n
      <4>1. i - 1 \in n + 1 .. Len(new) /\ i - 1 \in 1 .. Len(list) - 1 /\ ~(i - 1 < p) /\ (i - 1) + 1 = i
        BY <2>1, <3>1, <3>3
      <4>2. new[i - 1] = list[i]
        BY <2>1, <4>1
      <4>3. QED
        BY <4>1, <4>2
    <3>4. CASE i > p /\ i = n + 1
      <4>1. n \in 1 .. Len(list) - 1 /\ ~(n < p) /\ n <= Len(new)
        BY <2>1, <3>1, <3>4
      <4>2. new[n] = list[n + 1]
        BY <2>1, <4>1
      <4>3. list[n + 1] # list[n]
        BY <2>4, <4>1 DEF NoDuplicates
      <4>4. QED
        BY <3>4, <4>1, <4>2, <4>3
    <3>5. QED
      BY <3>1, <3>2, <3>3, <3>4
  <2>5. Keeps(list, new, n)
    BY <2>1, <2>2, <2>4 DEF Keeps
  <2>6. QED
    BY <2>5 DEF new
<1>3. QED
  BY <1>1, <1>2

\* Whatever the receiver that is called does to the list.
LEMMA CallbackKeeps ==
  ASSUME updatelist \in Seq(Receivers), next \in 1 .. Len(updatelist), Callback
  PROVE  Keeps(updatelist, updatelist', next)
<1>1. CASE UNCHANGED updatelist
  BY <1>1 DEF Keeps
<1>2. CASE \E r \in Receivers : updatelist' = Added(updatelist, r)
  BY <1>2, AddedKeeps
<1>3. CASE \E r \in Receivers : updatelist' = WithoutReceiver(updatelist, r)
  BY <1>3, RemovedKeeps
<1>4. QED
  BY <1>1, <1>2, <1>3 DEF Callback

(***************************************************************************)
(* The inductive invariant: whoever is due is still to be called, that is, *)
(* stands at `next' or behind, or has slid into a place already called.    *)
(* It needs the list to be free of duplicates (a receiver on it twice      *)
(* would be due and called already), which is what AddUpdateReceiver()     *)
(* looks for.                                                              *)
(***************************************************************************)
ListType == updatelist \in Seq(Receivers) /\ next \in 0 .. Len(updatelist)
            /\ due \subseteq Receivers /\ missed \subseteq Receivers /\ slid \subseteq Receivers

NoticeInv ==
  /\ ListType
  /\ NoDuplicates(updatelist)
  /\ \A r \in due : r \in slid \/ (next # 0 /\ \E i \in next .. Len(updatelist) : updatelist[i] = r)
  /\ OnlySlidAreMissed

\* A call: whoever is due still comes behind, or has slid.
LEMMA NotifyKeeps == ASSUME NoticeInv, Notify PROVE NoticeInv'
<1> DEFINE left == (due \ {updatelist[next]}) \intersect ToSet(updatelist')
<1>1. updatelist \in Seq(Receivers) /\ next \in 1 .. Len(updatelist) /\ NoDuplicates(updatelist)
  BY DEF Notify, NoticeInv, ListType
<1>2. Keeps(updatelist, updatelist', next)
  BY <1>1, CallbackKeeps DEF Notify
<1>3. updatelist' \in Seq(Receivers) /\ NoDuplicates(updatelist') /\ Len(updatelist') \in Nat
  BY <1>1, <1>2 DEF Keeps
<1>4. slid' = slid \union Slides /\ slid' \subseteq Receivers
  BY <1>1, <1>3 DEF Notify, Slides, NoticeInv, ListType
<1>5. ASSUME NEW r \in left, r \notin slid'
      PROVE  \E j \in next + 1 .. Len(updatelist') : updatelist'[j] = r
  <2>1. PICK i \in next .. Len(updatelist) : updatelist[i] = r
    BY <1>4, <1>5 DEF NoticeInv
  <2>2. i \in next + 1 .. Len(updatelist) /\ updatelist[i] \in ToSet(updatelist')
    BY <1>1, <2>1
  <2>3. \/ \E j \in next + 1 .. Len(updatelist') : updatelist'[j] = updatelist[i]
        \/ next <= Len(updatelist') /\ updatelist'[next] = updatelist[i] /\ updatelist'[next] # updatelist[next]
    BY <1>1, <1>2, <2>2 DEF Keeps
  <2>4. QED
    BY <1>4, <1>5, <2>1, <2>3 DEF Slides
<1>6. next \in Nat /\ left \subseteq Receivers /\ missed \subseteq Receivers /\ missed \subseteq slid'
  BY <1>1, <1>4 DEF NoticeInv, ListType, OnlySlidAreMissed
<1>7. CASE next < Len(updatelist')
  <2>1. next' = next + 1 /\ due' = left /\ missed' = missed
    BY <1>7 DEF Notify
  <2> HIDE DEF left
  <2>2. QED
    BY <1>3, <1>4, <1>5, <1>6, <1>7, <2>1 DEF NoticeInv, ListType, OnlySlidAreMissed
<1>8. CASE ~(next < Len(updatelist'))
  <2>1. next' = 0 /\ due' = {} /\ missed' = left
    BY <1>8 DEF Notify
  <2> HIDE DEF left
  <2>2. left \subseteq slid'
    BY <1>3, <1>5, <1>6, <1>8
  <2>3. QED
    BY <1>3, <1>4, <1>6, <2>1, <2>2 DEF NoticeInv, ListType, OnlySlidAreMissed
<1>9. QED
  BY <1>7, <1>8

\* Outside the calls nobody who has not slid is due, and the list may change
\* anywhere.
LEMMA ListChangeKeeps ==
  ASSUME NoticeInv, next = 0, Keeps(updatelist, updatelist', 0), UNCHANGED <<next, due, missed, slid>>
  PROVE  NoticeInv'
BY DEF NoticeInv, ListType, OnlySlidAreMissed, Keeps

\* An update makes everybody on the list due.
LEMMA UpdateStartsNotices ==
  ASSUME NoticeInv, NEW off, NEW num, NEW den, UpdateTime(off, num, den)
  PROVE  NoticeInv'
<1>1. updatelist \in Seq(Receivers) /\ Len(updatelist) \in Nat /\ updatelist' = updatelist
      /\ missed' = {} /\ slid' = {} /\ due' = ToSet(updatelist) /\ next' = IF updatelist = <<>> THEN 0 ELSE 1
  BY DEF NoticeInv, ListType, UpdateTime
<1>2. ToSet(updatelist) = {updatelist[i] : i \in 1 .. Len(updatelist)}
  BY <1>1 DEF ToSet
<1>3. updatelist # <<>> => Len(updatelist) > 0
  BY <1>1, EmptySeq
<1>4. updatelist = <<>> => Len(updatelist) = 0
  BY <1>1
<1>5. QED
  BY <1>1, <1>2, <1>3, <1>4 DEF NoticeInv, ListType, OnlySlidAreMissed

LEMMA InitNotices == ClockInit => NoticeInv
BY DEF ClockInit, NoticeInv, ListType, NoDuplicates, OnlySlidAreMissed

LEMMA StepNotices == NoticeInv /\ [ClockNext]_clockVars => NoticeInv'
<1> SUFFICES ASSUME NoticeInv, [ClockNext]_clockVars PROVE NoticeInv'
  OBVIOUS
<1>1. CASE Notify
  BY <1>1, NotifyKeeps
<1>2. ASSUME NEW r \in Receivers, AddUpdateReceiver(r) PROVE NoticeInv'
  BY <1>2, AddedKeeps, ListChangeKeeps DEF AddUpdateReceiver, NoticeInv, ListType
<1>3. ASSUME NEW r \in Receivers, RemoveUpdateReceiver(r) PROVE NoticeInv'
  BY <1>3, RemovedKeeps, ListChangeKeeps DEF RemoveUpdateReceiver, NoticeInv, ListType
<1>4. ASSUME NEW num \in Numerators, Set(num) \/ Add(num) \/ AddNanoSeconds(num) PROVE NoticeInv'
  BY <1>4, UpdateStartsNotices DEF Set, Add, AddNanoSeconds
<1>5. ASSUME NEW den \in Denominators, SetDenominator(den) PROVE NoticeInv'
  BY <1>5, UpdateStartsNotices DEF SetDenominator
<1>6. CASE Reset \/ UNCHANGED clockVars \/ \E num \in Numerators, den \in Denominators : CopyOf(num, den)
  <2>1. UNCHANGED notices
    BY <1>6 DEF Reset, CopyOf, clockVars
  <2>2. QED
    BY <2>1 DEF notices, NoticeInv, ListType, NoDuplicates, OnlySlidAreMissed
<1>7. QED
  BY <1>1, <1>2, <1>3, <1>4, <1>5, <1>6 DEF ClockNext, ReceiverCalls

LEMMA NoticeInvHolds == ClockSpec => []NoticeInv
BY InitNotices, StepNotices, PTL DEF ClockSpec

(* Every receiver that is on the list when an update begins, and stays on  *)
(* it, is called, whatever receivers the others add or remove meanwhile,   *)
(* themselves included, but for those that slid under the loop's index.    *)
THEOREM EveryOtherReceiverIsTold == ClockSpec => []OnlySlidAreMissed
<1>1. NoticeInv => OnlySlidAreMissed
  BY DEF NoticeInv
<1>2. QED
  BY <1>1, NoticeInvHolds, PTL

(* The types of the clock and of the list, at every width.                 *)
THEOREM TypeCorrect == ClockSpec => []ClockTypeOK
<1>1. ClockInv /\ NoticeInv => ClockTypeOK
  BY DEF ClockInv, ClockType, NoticeInv, ListType, ClockTypeOK
<1>2. QED
  BY <1>1, ClockInvHolds, NoticeInvHolds, PTL

-----------------------------------------------------------------------------
(* Natural numbers and sequences.                                          *)

\* Induction, for a set of numbers.
LEMMA NumbersAreInductive ==
  ASSUME NEW S, 0 \in S, \A n \in Nat : n \in S => n + 1 \in S
  PROVE  Nat \subseteq S
<1> DEFINE R == {ss \in Nat \X Nat : ss[1] < ss[2]}
           T == Nat \ S
<1> SUFFICES ASSUME T # {} PROVE FALSE
  OBVIOUS
<1>1. PICK x \in T : \A y \in T : ~(<<y, x>> \in R)
  <2>1. IsWellFoundedOn(R, Nat)
    BY NatLessThanWellFounded DEF OpToRel
  <2>2. T \subseteq Nat
    OBVIOUS
  <2> HIDE DEF R, T
  <2>3. QED
    BY <2>1, <2>2, WFMin, Zenon
<1>2. x - 1 \in Nat /\ (x - 1) + 1 = x
  OBVIOUS
<1>3. <<x - 1, x>> \in R
  BY <1>2
<1>4. x - 1 \in S
  BY <1>1, <1>2, <1>3
<1>5. QED
  BY <1>2, <1>4

\* A sequence is its two parts.
LEMMA CutInTwo ==
  ASSUME NEW S, NEW s \in Seq(S), NEW z \in 0 .. Len(s)
  PROVE  LET first == SubSeq(s, 1, z)
             rest == SubSeq(s, z + 1, Len(s))
         IN  /\ first \in Seq(S) /\ Len(first) = z /\ \A k \in 1 .. z : first[k] = s[k]
             /\ rest \in Seq(S) /\ Len(rest) = Len(s) - z /\ \A k \in 1 .. Len(s) - z : rest[k] = s[k + z]
             /\ s = first \o rest
<1> DEFINE l == Len(s)
           m == z + 1
           first == SubSeq(s, 1, z)
           rest == SubSeq(s, m, l)
<1>1. l \in Nat /\ z \in Nat /\ z <= l /\ m \in Nat /\ m = z + 1 /\ \A i \in 1 .. l : s[i] \in S
  BY ElementOfSeq
<1> HIDE DEF l, m
<1>2. first \in Seq(S) /\ Len(first) = z /\ \A k \in 1 .. z : first[k] = s[k]
  <2>1. \A i \in 1 .. z : s[i] \in S
    BY <1>1
  <2>2. /\ first \in Seq(S) /\ Len(first) = IF 1 <= z THEN z - 1 + 1 ELSE 0
        /\ \A i \in 1 .. z - 1 + 1 : first[i] = s[1 + i - 1]
    BY <1>1, <2>1, SubSeqProperties
  <2> HIDE DEF first
  <2>3. QED
    BY <1>1, <2>2
<1>3. rest \in Seq(S) /\ Len(rest) = l - z /\ \A k \in 1 .. l - z : rest[k] = s[k + z]
  <2>1. \A i \in m .. l : s[i] \in S
    BY <1>1
  <2>2. /\ rest \in Seq(S) /\ Len(rest) = IF m <= l THEN l - m + 1 ELSE 0
        /\ \A i \in 1 .. l - m + 1 : rest[i] = s[m + i - 1]
    BY <1>1, <2>1, SubSeqProperties
  <2>3. l - m + 1 = l - z /\ \A k \in 1 .. l - z : m + k - 1 = k + z
    BY <1>1
  <2> HIDE DEF rest
  <2>4. QED
    BY <1>1, <2>2, <2>3
<1> HIDE DEF first, rest
<1>4. s = first \o rest
  <2> DEFINE t == first \o rest
  <2>1. /\ t \in Seq(S) /\ Len(t) = Len(first) + Len(rest)
        /\ \A i \in 1 .. Len(first) + Len(rest) : t[i] = IF i <= Len(first) THEN first[i] ELSE rest[i - Len(first)]
    <3>1. first \in Seq(S) /\ rest \in Seq(S)
      BY <1>2, <1>3
    <3>2. QED
      BY <3>1, ConcatProperties
  <2> HIDE DEF t
  <2>2. Len(t) = l /\ \A i \in 1 .. l : t[i] = IF i <= z THEN first[i] ELSE rest[i - z]
    <3>1. Len(first) + Len(rest) = l /\ Len(first) = z
      BY <1>1, <1>2, <1>3
    <3>2. QED
      BY <2>1, <3>1
  <2>3. ASSUME NEW i \in 1 .. l PROVE t[i] = s[i]
    <3>1. CASE i <= z
      BY <1>1, <1>2, <2>2, <3>1
    <3>2. CASE i > z
      <4>1. i - z \in 1 .. l - z /\ (i - z) + z = i
        BY <1>1, <3>2
      <4>2. t[i] = rest[i - z] /\ rest[i - z] = s[(i - z) + z]
        BY <1>1, <1>3, <2>2, <3>2, <4>1
      <4>3. QED
        BY <4>1, <4>2
    <3>3. QED
      BY <1>1, <3>1, <3>2
  <2>4. s = t
    BY <2>1, <2>2, <2>3, SeqEqual DEF l
  <2>5. QED
    BY <2>4 DEF t
<1>5. QED
  BY <1>2, <1>3, <1>4 DEF first, rest, l, m

-----------------------------------------------------------------------------
(* Powers.                                                                 *)

\* A function of the powers of b up to n, and the recursive one.
Powers(b, f, n) == f \in [0 .. n -> Int] /\ f[0] = 1 /\ \A i \in 1 .. n : f[i] = b * f[i - 1]
PowersOf(b, f) == f = [n \in Nat |-> IF n = 0 THEN 1 ELSE b * f[n - 1]]

\* There is one for every n.
LEMMA PowersExist == ASSUME NEW b \in Int PROVE \A n \in Nat : \E f : Powers(b, f, n)
<1> DEFINE S == {n \in Nat : \E f : Powers(b, f, n)}
<1>1. 0 \in S
  <2>1. Powers(b, [i \in 0 .. 0 |-> 1], 0)
    BY DEF Powers
  <2>2. QED
    BY <2>1
<1>2. ASSUME NEW n \in Nat, n \in S PROVE n + 1 \in S
  <2>1. PICK f : Powers(b, f, n)
    BY <1>2
  <2> DEFINE x == b * f[n]
             g == [i \in 0 .. n + 1 |-> IF i = n + 1 THEN x ELSE f[i]]
  <2>2. f[n] \in Int /\ x \in Int
    <3>1. f[n] \in Int
      BY <2>1 DEF Powers
    <3> DEFINE y == f[n]
    <3> HIDE DEF y
    <3>2. b * y \in Int
      BY <3>1 DEF y
    <3>3. QED
      BY <3>1, <3>2 DEF y
  <2> HIDE DEF x
  <2>3. g \in [0 .. n + 1 -> Int] /\ g[0] = 1
    BY <2>1, <2>2 DEF Powers
  <2>4. ASSUME NEW i \in 1 .. n + 1 PROVE g[i] = b * g[i - 1]
    <3>1. CASE i = n + 1
      <4>1. g[i] = x /\ g[i - 1] = f[n]
        BY <3>1
      <4>2. QED
        BY <4>1 DEF x
    <3>2. CASE i # n + 1
      <4>1. i \in 1 .. n /\ g[i] = f[i] /\ g[i - 1] = f[i - 1]
        BY <3>2
      <4>2. QED
        BY <2>1, <4>1 DEF Powers
    <3>3. QED
      BY <3>1, <3>2
  <2> HIDE DEF g
  <2>5. Powers(b, g, n + 1)
    BY <2>3, <2>4 DEF Powers
  <2>6. QED
    BY <2>5
<1>3. Nat \subseteq S
  <2> HIDE DEF S
  <2>1. QED
    BY <1>1, <1>2, NumbersAreInductive
<1>4. QED
  BY <1>3

\* Two of them are the same where both are defined.
LEMMA PowersAgree ==
  ASSUME NEW b \in Int, NEW k \in Nat, NEW m \in Nat, NEW f, NEW g, Powers(b, f, k), Powers(b, g, m)
  PROVE  \A n \in Nat : n <= k /\ n <= m => f[n] = g[n]
<1> DEFINE S == {n \in Nat : n <= k /\ n <= m => f[n] = g[n]}
<1>1. 0 \in S
  BY DEF Powers
<1>2. ASSUME NEW n \in Nat, n \in S PROVE n + 1 \in S
  <2>1. ASSUME n + 1 <= k, n + 1 <= m PROVE f[n + 1] = g[n + 1]
    <3>1. n + 1 \in 1 .. k /\ n + 1 \in 1 .. m /\ (n + 1) - 1 = n /\ f[n] = g[n]
      BY <1>2, <2>1
    <3>2. f[n + 1] = b * f[n] /\ g[n + 1] = b * g[n]
      BY <3>1 DEF Powers
    <3>3. QED
      BY <3>1, <3>2
  <2>2. QED
    BY <2>1
<1>3. Nat \subseteq S
  <2> HIDE DEF S
  <2>1. QED
    BY <1>1, <1>2, NumbersAreInductive
<1>4. QED
  BY <1>3

\* The recursive function does what its definition says.
LEMMA PowersAre ==
  ASSUME NEW b \in Int
  PROVE  /\ PowersOf(b, CHOOSE f : PowersOf(b, f))
         /\ (CHOOSE f : PowersOf(b, f))[0] = 1
         /\ \A n \in Nat : (CHOOSE f : PowersOf(b, f))[n + 1] = b * (CHOOSE f : PowersOf(b, f))[n]
<1> DEFINE h == [n \in Nat |-> CHOOSE f : Powers(b, f, n)]
           p == [n \in Nat |-> h[n][n]]
           c == CHOOSE f : PowersOf(b, f)
<1>1. \A n \in Nat : Powers(b, h[n], n)
  BY PowersExist
<1>2. ASSUME NEW n \in Nat PROVE p[n + 1] = b * p[n]
  <2>1. Powers(b, h[n], n) /\ Powers(b, h[n + 1], n + 1)
    BY <1>1
  <2> HIDE DEF h
  <2>2. h[n + 1][n] = h[n][n]
    BY <2>1, PowersAgree
  <2>3. h[n + 1][n + 1] = b * h[n + 1][n]
    BY <2>1 DEF Powers
  <2>4. QED
    BY <2>2, <2>3
<1>3. p[0] = 1
  BY <1>1 DEF Powers
<1>4. PowersOf(b, p)
  <2>1. ASSUME NEW n \in Nat, n # 0 PROVE p[n] = b * p[n - 1]
    <3>1. n - 1 \in Nat /\ (n - 1) + 1 = n
      BY <2>1
    <3> HIDE DEF p
    <3>2. QED
      BY <1>2, <3>1
  <2>2. \A n \in Nat : p[n] = IF n = 0 THEN 1 ELSE b * p[n - 1]
    <3> HIDE DEF p
    <3>1. QED
      BY <1>3, <2>1
  <2>3. p = [n \in Nat |-> p[n]]
    OBVIOUS
  <2> HIDE DEF p
  <2>4. QED
    BY <2>2, <2>3 DEF PowersOf
<1> HIDE DEF p
<1>5. PowersOf(b, c)
  BY <1>4
<1> HIDE DEF c
<1>6. c[0] = 1 /\ \A n \in Nat : c[n + 1] = b * c[n]
  BY <1>5 DEF PowersOf
<1>7. QED
  BY <1>5, <1>6 DEF c

\* Powers of two.
LEMMA PowerOfTwo ==
  /\ Power[0] = 1
  /\ \A n \in Nat : Power[n] \in Nat \ {0} /\ Power[n + 1] = 2 * Power[n]
<1>1. Power = CHOOSE f : PowersOf(2, f)
  BY DEF Power, PowersOf
<1>2. Power[0] = 1 /\ \A n \in Nat : Power[n + 1] = 2 * Power[n]
  BY <1>1, PowersAre
<1> DEFINE S == {n \in Nat : Power[n] \in Nat \ {0}}
<1>3. Nat \subseteq S
  <2>1. 0 \in S /\ \A n \in Nat : n \in S => n + 1 \in S
    BY <1>2
  <2> HIDE DEF S
  <2>2. QED
    BY <2>1, NumbersAreInductive
<1>4. QED
  BY <1>2, <1>3

\* The powers of a sum.
LEMMA PowerOfSum == \A n \in Nat, m \in Nat : Power[n + m] = Power[n] * Power[m]
<1> SUFFICES ASSUME NEW n \in Nat PROVE \A m \in Nat : Power[n + m] = Power[n] * Power[m]
  OBVIOUS
<1> DEFINE S == {m \in Nat : Power[n + m] = Power[n] * Power[m]}
<1>1. 0 \in S
  BY PowerOfTwo
<1>2. ASSUME NEW m \in Nat, m \in S PROVE m + 1 \in S
  <2>1. Power[n + (m + 1)] = 2 * Power[n + m] /\ Power[m + 1] = 2 * Power[m]
    <3>1. n + m \in Nat /\ n + (m + 1) = (n + m) + 1
      OBVIOUS
    <3>2. QED
      BY <3>1, PowerOfTwo
  <2>2. Power[n] \in Nat /\ Power[m] \in Nat
    BY PowerOfTwo
  <2>3. 2 * (Power[n] * Power[m]) = Power[n] * (2 * Power[m])
    BY <2>2
  <2>4. QED
    BY <1>2, <2>1, <2>3
<1>3. Nat \subseteq S
  <2> HIDE DEF S
  <2>1. QED
    BY <1>1, <1>2, NumbersAreInductive
<1>4. QED
  BY <1>3

-----------------------------------------------------------------------------
(* Division.                                                               *)

\* The quotient and the remainder.
LEMMA Division ==
  ASSUME NEW a \in Nat, NEW b \in Nat \ {0}
  PROVE  a \div b \in Nat /\ a % b \in 0 .. b - 1 /\ a = (a \div b) * b + (a % b)
<1>1. a % b \in 0 .. b - 1
  OBVIOUS
<1>2. a \div b \in Nat
  OBVIOUS
<1>3. a = (a \div b) * b + (a % b)
  OBVIOUS
<1>4. QED
  BY <1>1, <1>2, <1>3

\* No other numbers would do.
LEMMA DivisionIsUnique ==
  ASSUME NEW b \in Nat \ {0}, NEW q \in Nat, NEW r \in 0 .. b - 1
  PROVE  (q * b + r) \div b = q /\ (q * b + r) % b = r
<1>1. (q * b + r) \div b = q
  OBVIOUS
<1>2. (q * b + r) % b = r
  OBVIOUS
<1>3. QED
  BY <1>1, <1>2

\* Products of numbers.
LEMMA Products ==
  ASSUME NEW a \in Nat, NEW b \in Nat PROVE a * b \in Nat /\ (a # 0 /\ b # 0 => a * b # 0)
OBVIOUS

\* Dividing by a product is dividing by its factors in turn.
LEMMA DivisionInTurn ==
  ASSUME NEW a \in Nat, NEW b \in Nat \ {0}, NEW c \in Nat \ {0}
  PROVE  a \div (b * c) = (a \div b) \div c
<1> DEFINE q == a \div b
           r == a % b
           p == q \div c
           s == q % c
<1>1. q \in Nat /\ r \in 0 .. b - 1 /\ a = q * b + r
  BY Division
<1>2. p \in Nat /\ s \in 0 .. c - 1 /\ q = p * c + s
  BY <1>1, Division
<1> HIDE DEF p, q, r, s
<1>3. a = p * (b * c) + (s * b + r)
  BY <1>1, <1>2
<1>4. b * c \in Nat \ {0}
  BY Products
<1>5. s * b + r \in 0 .. b * c - 1
  <2>1. s * b \in Nat /\ s * b <= (c - 1) * b
    BY <1>2
  <2>2. (c - 1) * b = b * c - b
    OBVIOUS
  <2> HIDE DEF s, r
  <2>3. QED
    BY <1>1, <1>4, <2>1, <2>2
<1>6. a \div (b * c) = p
  BY <1>2, <1>3, <1>4, <1>5, DivisionIsUnique
<1>7. QED
  BY <1>6 DEF p, q

\* A word is the power of two it is defined to be.
LEMMA WordIsPositive == Word \in Nat \ {0}
BY PowerOfTwo, WordAssumption DEF Word

\* The sums and differences of a word stop at its ends.
LEMMA LimitedIsExact ==
  ASSUME NEW a \in Words, NEW b \in Words, NEW c \in Words PROVE LimitedLaw(a, b, c)
<1>1. Word \in Nat \ {0} /\ a \in Nat /\ b \in Nat /\ c \in Nat /\ a < Word /\ b < Word /\ c < Word
  BY WordIsPositive DEF Words
<1>2. ASSUME NEW x \in Nat, NEW y \in Nat, x < Word, y < Word
      PROVE  AddM(x, y) = IF x + y < Word THEN x + y ELSE Word - 1
  <2>1. CASE x + y < Word
    <3>1. (x + y) % Word = x + y
      BY <1>1, <2>1
    <3>2. QED
      BY <1>1, <1>2, <2>1, <3>1 DEF AddM
  <2>2. CASE x + y >= Word
    <3> DEFINE r == x + y - Word
    <3>1. x + y = 1 * Word + r /\ r \in 0 .. Word - 1
      BY <1>1, <1>2, <2>2
    <3> HIDE DEF r
    <3>2. (1 * Word + r) % Word = r
      BY <1>1, <3>1, DivisionIsUnique
    <3>3. (x + y) % Word = x + y - Word
      BY <3>1, <3>2 DEF r
    <3>4. QED
      BY <1>1, <1>2, <2>2, <3>3 DEF AddM
  <2>3. QED
    BY <1>1, <2>1, <2>2
<1>3. AddM(a, b) = IF a + b < Word THEN a + b ELSE Word - 1
  BY <1>1, <1>2
<1>4. SubZ(a, b) \in Nat /\ SubZ(a, b) < Word
  BY <1>1 DEF SubZ
<1>5. SubZ(AddM(a, b), b) <= a
  BY <1>1, <1>3 DEF SubZ
<1>6. AddM(SubZ(a, b), b) >= a
  <2>1. AddM(SubZ(a, b), b) = IF SubZ(a, b) + b < Word THEN SubZ(a, b) + b ELSE Word - 1
    BY <1>1, <1>2, <1>4
  <2>2. QED
    BY <1>1, <2>1 DEF SubZ
<1>7. b <= c => Within(Limit(a, b, c), b, c) /\ (Within(a, b, c) <=> Limit(a, b, c) = a)
  BY <1>1 DEF Within, Limit
<1>8. QED
  BY <1>3, <1>5, <1>6, <1>7 DEF LimitedLaw

-----------------------------------------------------------------------------
(* muldiv().                                                               *)

\* The three words of the product are the product.
LEMMA ProductIsWhole ==
  ASSUME NEW val \in Longs, NEW mul \in Words
  PROVE  /\ \A i \in 1 .. 3 : Product(val, mul)[i] \in Words
         /\ val * mul = (Product(val, mul)[3] * Word + Product(val, mul)[2]) * Word + Product(val, mul)[1]
<1> DEFINE B == Word
           v0 == val % Word
           v1 == val \div Word
           low == mul * v0
           high == low \div Word + mul * v1
<1>1. /\ Word \in Nat \ {0} /\ Word * Word \in Nat \ {0}
      /\ val \in Nat /\ mul \in Nat /\ mul <= Word - 1 /\ val < Word * Word
  BY WordIsPositive, Products DEF Longs, Words
<1>2. v1 \in Nat /\ v0 \in 0 .. Word - 1 /\ val = v1 * Word + v0
  BY <1>1, Division
<1>3. v1 <= Word - 1
  <2> HIDE DEF v0, v1
  <2>1. v1 * Word < Word * Word
    BY <1>1, <1>2
  <2>2. QED
    BY <1>1, <1>2, <2>1
<1>4. low \in Nat /\ low <= (Word - 1) * (Word - 1)
  <2> HIDE DEF v0, v1
  <2>1. mul * v0 <= mul * (Word - 1) /\ mul * (Word - 1) <= (Word - 1) * (Word - 1)
    BY <1>1, <1>2
  <2>2. QED
    BY <1>1, <1>2, <2>1
<1>5. low \div Word \in Nat /\ low % Word \in 0 .. Word - 1 /\ low = (low \div Word) * Word + (low % Word)
  BY <1>1, <1>4, Division
<1>6. low \div Word <= Word - 1
  <2> HIDE DEF low
  <2>1. (low \div Word) * Word < Word * Word
    BY <1>1, <1>4, <1>5
  <2>2. QED
    BY <1>1, <1>5, <2>1
<1>7. mul * v1 \in Nat /\ mul * v1 <= (Word - 1) * (Word - 1)
  <2> HIDE DEF v0, v1
  <2>1. mul * v1 <= mul * (Word - 1) /\ mul * (Word - 1) <= (Word - 1) * (Word - 1)
    BY <1>1, <1>2, <1>3
  <2>2. QED
    BY <1>1, <1>2, <2>1
<1>8. high \in Nat /\ high <= (Word - 1) + (Word - 1) * (Word - 1)
  <2> HIDE DEF v0, v1, low
  <2>1. (Word - 1) * (Word - 1) \in Int
    BY <1>1
  <2>2. QED
    BY <1>1, <1>5, <1>6, <1>7, <2>1
<1>9. high \div Word \in Nat /\ high % Word \in 0 .. Word - 1 /\ high = (high \div Word) * Word + (high % Word)
  BY <1>1, <1>8, Division
<1>10. high \div Word \in Nat /\ high \div Word <= Word - 1
  <2> HIDE DEF high
  <2>1. (Word - 1) + (Word - 1) * (Word - 1) < Word * Word
    BY <1>1
  <2>2. (high \div Word) * Word < Word * Word
    BY <1>1, <1>8, <1>9, <2>1
  <2>3. QED
    BY <1>1, <1>9, <2>2
<1>11. (high \div Word) % Word = high \div Word
  <2> HIDE DEF high
  <2>1. QED
    BY <1>1, <1>10
<1>12. Product(val, mul) = <<low % Word, high % Word, high \div Word>>
  BY <1>11 DEF Product
<1>13. val * mul = ((high \div Word) * Word + (high % Word)) * Word + (low % Word)
  <2>1. val * mul = mul * v1 * Word + low
    <3> HIDE DEF v0, v1
    <3>1. QED
      BY <1>1, <1>2
  <2>2. low = (low \div Word) * Word + (low % Word)
    BY <1>5
  <2>3. val * mul = high * Word + (low % Word)
    <3> DEFINE q == low \div Word
               r == low % Word
    <3>1. q \in Nat /\ r \in Nat /\ mul * v1 \in Nat
      BY <1>1, <1>5, <1>7
    <3>2. val * mul = mul * v1 * Word + (q * Word + r) /\ high = q + mul * v1
      BY <2>1, <2>2
    <3> HIDE DEF q, r, high, v1
    <3>3. (q + mul * v1) * Word = q * Word + mul * v1 * Word
      BY <1>1, <3>1
    <3>4. QED
      BY <1>1, <3>1, <3>2, <3>3 DEF r
  <2>4. QED
    BY <1>9, <2>3
<1>14. QED
  <2> HIDE DEF low, high
  <2>1. low % Word \in Words /\ high % Word \in Words /\ high \div Word \in Words
    BY <1>1, <1>5, <1>9, <1>10 DEF Words
  <2> DEFINE p == <<low % Word, high % Word, high \div Word>>
  <2>2. \A i \in 1 .. 3 : p[i] \in Words
    BY <2>1
  <2>3. QED
    BY <1>12, <1>13, <2>2

\* Long division of three words gives the lower two words of the quotient.
LEMMA LongDivisionIsExact ==
  ASSUME NEW a \in Words, NEW b \in Words, NEW c \in Words, NEW div \in Words, div > 0
  PROVE  LET res == LongDivision(<<a, b, c>>, div)
         IN  res[1] + Word * res[2] = (((c * Word + b) * Word + a) \div div) % (Word * Word)
<1> DEFINE q3 == c \div div
           r3 == c % div
           q2 == (r3 * Word + b) \div div
           r2 == (r3 * Word + b) % div
           q1 == (r2 * Word + a) \div div
           r1 == (r2 * Word + a) % div
<1>1. /\ Word \in Nat \ {0} /\ Word * Word \in Nat \ {0} /\ div \in Nat \ {0}
      /\ a \in 0 .. Word - 1 /\ b \in 0 .. Word - 1 /\ c \in Nat
  BY WordIsPositive, Products DEF Words
<1>2. q3 \in Nat /\ r3 \in 0 .. div - 1 /\ c = q3 * div + r3
  BY <1>1, Division
<1>3. ASSUME NEW r \in 0 .. div - 1, NEW d \in 0 .. Word - 1
      PROVE  /\ r * Word + d \in Nat
             /\ (r * Word + d) \div div \in 0 .. Word - 1
             /\ (r * Word + d) % div \in 0 .. div - 1
             /\ r * Word + d = ((r * Word + d) \div div) * div + ((r * Word + d) % div)
  <2> DEFINE n == r * Word + d
             q == n \div div
  <2>1. n \in Nat /\ n < div * Word
    <3>1. r * Word \in Nat /\ r * Word <= (div - 1) * Word
      BY <1>1
    <3>2. (div - 1) * Word = div * Word - Word
      BY <1>1
    <3>3. QED
      BY <1>1, <3>1, <3>2
  <2>2. q \in Nat /\ n % div \in 0 .. div - 1 /\ n = q * div + (n % div)
    BY <1>1, <2>1, Division
  <2> HIDE DEF n, q
  <2>3. q * div < Word * div
    BY <1>1, <2>1, <2>2
  <2>4. q <= Word - 1
    BY <1>1, <2>2, <2>3
  <2>5. QED
    BY <1>1, <2>1, <2>2, <2>4 DEF n, q
<1>4. q2 \in 0 .. Word - 1 /\ r2 \in 0 .. div - 1 /\ r3 * Word + b = q2 * div + r2
  BY <1>1, <1>2, <1>3
<1>5. q1 \in 0 .. Word - 1 /\ r1 \in 0 .. div - 1 /\ r2 * Word + a = q1 * div + r1
  BY <1>1, <1>3, <1>4
<1>6. LongDivision(<<a, b, c>>, div)[1] = q1 /\ LongDivision(<<a, b, c>>, div)[2] = q2
  <2>1. LongDivision(<<a, b, c>>, div) = <<q1 % Word, q2 % Word, q3>>
    BY DEF LongDivision
  <2>2. q1 % Word = q1 /\ q2 % Word = q2
    <3> HIDE DEF q1, q2
    <3>1. QED
      BY <1>1, <1>4, <1>5
  <2>3. QED
    BY <2>1, <2>2
<1> HIDE DEF q1, q2, q3, r1, r2, r3
<1>7. (c * Word + b) * Word + a = ((q3 * Word + q2) * Word + q1) * div + r1
  <2>1. c * Word + b = (q3 * Word + q2) * div + r2
    <3>1. c * Word = (q3 * div) * Word + r3 * Word
      BY <1>1, <1>2
    <3>2. (q3 * Word + q2) * div = (q3 * div) * Word + q2 * div
      BY <1>1, <1>2, <1>4
    <3>3. QED
      BY <1>1, <1>2, <1>4, <3>1, <3>2
  <2>2. (c * Word + b) * Word = ((q3 * Word + q2) * div) * Word + r2 * Word
    BY <1>1, <1>2, <1>4, <2>1
  <2>3. ((q3 * Word + q2) * Word + q1) * div = ((q3 * Word + q2) * div) * Word + q1 * div
    BY <1>1, <1>2, <1>4, <1>5
  <2>4. QED
    BY <1>1, <1>2, <1>4, <1>5, <2>2, <2>3
<1>8. (q3 * Word + q2) * Word + q1 \in Nat
  BY <1>1, <1>2, <1>4, <1>5
<1>9. ((c * Word + b) * Word + a) \div div = (q3 * Word + q2) * Word + q1
  <2> DEFINE q == (q3 * Word + q2) * Word + q1
  <2>1. q \in Nat /\ (c * Word + b) * Word + a = q * div + r1
    BY <1>7, <1>8
  <2> HIDE DEF q
  <2>2. (q * div + r1) \div div = q
    BY <1>1, <1>5, <2>1, DivisionIsUnique
  <2>3. QED
    BY <2>1, <2>2 DEF q
<1>10. (q3 * Word + q2) * Word + q1 = q3 * (Word * Word) + (q2 * Word + q1)
  BY <1>1, <1>2, <1>4, <1>5
<1>11. q2 * Word + q1 \in 0 .. Word * Word - 1
  <2>1. q2 * Word \in Nat /\ q2 * Word <= (Word - 1) * Word
    BY <1>1, <1>4
  <2>2. (Word - 1) * Word = Word * Word - Word
    BY <1>1
  <2>3. QED
    BY <1>1, <1>4, <1>5, <2>1, <2>2
<1>12. ((q3 * Word + q2) * Word + q1) % (Word * Word) = q2 * Word + q1
  <2> DEFINE r == q2 * Word + q1
             m == Word * Word
  <2>1. m \in Nat \ {0} /\ r \in 0 .. m - 1
    BY <1>1, <1>11
  <2> HIDE DEF r, m
  <2>2. (q3 * m + r) % m = r
    BY <1>2, <2>1, DivisionIsUnique
  <2>3. QED
    BY <1>10, <2>2 DEF r, m
<1>13. q1 + Word * q2 = q2 * Word + q1
  BY <1>1, <1>4, <1>5
<1>14. QED
  BY <1>6, <1>9, <1>12, <1>13

\* muldiv(): the three words of the product, then the long division.
LEMMA MulDivIsExact ==
  ASSUME NEW val \in Longs, NEW mul \in Words, NEW div \in Words PROVE MulDivLaw(val, mul, div)
<1> SUFFICES ASSUME div > 0 PROVE MulDiv(val, mul, div) = ((val * mul) \div div) % (Word * Word)
  BY DEF MulDivLaw
<1> DEFINE p == Product(val, mul)
<1>1. p[1] \in Words /\ p[2] \in Words /\ p[3] \in Words /\ val * mul = (p[3] * Word + p[2]) * Word + p[1]
  BY ProductIsWhole
<1>2. p = <<p[1], p[2], p[3]>>
  BY DEF Product
<1> HIDE DEF p
<1>3. LongDivision(p, div)[1] + Word * LongDivision(p, div)[2] =
        (((p[3] * Word + p[2]) * Word + p[1]) \div div) % (Word * Word)
  BY <1>1, <1>2, LongDivisionIsExact
<1>4. QED
  BY <1>1, <1>3 DEF MulDiv, p

-----------------------------------------------------------------------------
(* Times.                                                                  *)

\* The digits of a time make it up again.
LEMMA TimesAreExact == ASSUME NEW t \in Nat PROVE TimeLaw(t)
<1> DEFINE k == Second \div Tick
           a == t \div Tick
           b == a \div k
           c == b \div Base
           hr == c \div Base
           ss == a % k
           s == b % Base
           mn == c % Base
<1>1. Tick \in Nat \ {0} /\ Second \in Nat \ {0} /\ Base \in Nat \ {0}
  BY TimeAssumption
<1>2. Second = Tick * k /\ k \in Nat \ {0}
  <2>1. k \in Nat /\ Second = k * Tick + (Second % Tick)
    BY <1>1, Division
  <2>2. Second = k * Tick
    <3> HIDE DEF k
    <3>1. QED
      BY <1>1, <2>1, TimeAssumption
  <2> HIDE DEF k
  <2>3. QED
    BY <1>1, <2>1, <2>2
<1>3. a \in Nat /\ b \in Nat /\ c \in Nat /\ hr \in Nat
  <2>1. a \in Nat
    BY <1>1, Division
  <2>2. b \in Nat
    BY <1>2, <2>1, Division
  <2>3. c \in Nat
    BY <1>1, <2>2, Division
  <2>4. QED
    BY <1>1, <2>1, <2>2, <2>3, Division
<1>4. t \div Second = b
  BY <1>1, <1>2, DivisionInTurn
<1>5. t \div (Second * Base) = c
  <2>1. t \div (Second * Base) = (t \div Second) \div Base
    BY <1>1, DivisionInTurn
  <2> HIDE DEF b
  <2>2. QED
    BY <1>4, <2>1
<1>6. t \div (Second * Base * Base) = hr
  <2>1. Second * Base \in Nat \ {0}
    BY <1>1, Products
  <2>2. t \div (Second * Base * Base) = (t \div (Second * Base)) \div Base
    <3> DEFINE d == Second * Base
    <3> HIDE DEF d
    <3>1. t \div (d * Base) = (t \div d) \div Base
      BY <1>1, <2>1, DivisionInTurn DEF d
    <3>2. QED
      BY <3>1 DEF d
  <2> HIDE DEF c
  <2>3. QED
    BY <1>5, <2>2
<1>7. GenerateTime(t) = [ss |-> ss, s |-> s, mn |-> mn, hr |-> hr]
  BY <1>4, <1>5, <1>6 DEF GenerateTime
<1>8. a = b * k + ss /\ b = c * Base + s /\ c = hr * Base + mn 
      /\ ss \in Nat /\ s \in Nat /\ mn \in Nat
  <2>1. c = hr * Base + mn /\ mn \in Nat
    <3> HIDE DEF c
    <3>1. QED
      BY <1>1, <1>3, Division
  <2>2. b = c * Base + s /\ s \in Nat
    <3> HIDE DEF b
    <3>1. QED
      BY <1>1, <1>3, Division
  <2>3. a = b * k + ss /\ ss \in Nat
    <3> HIDE DEF a, k
    <3>1. QED
      BY <1>2, <1>3, Division
  <2>4. QED
    BY <2>1, <2>2, <2>3, Zenon
<1> HIDE DEF k, a, b, c, hr, ss, s, mn
<1> DEFINE secs == s * Second + ss * Tick
           rest == (hr * Base + mn) * Base * Second
<1>9. secs \in Int /\ rest \in Int
  BY <1>1, <1>3, <1>8
<1>10. secs + rest = a * Tick
  <2>1. rest = c * Base * Second
    BY <1>8
  <2>2. s * Second + c * Base * Second = b * Second
    BY <1>1, <1>3, <1>8
  <2>3. b * Second + ss * Tick = (b * k + ss) * Tick
    BY <1>1, <1>2, <1>3, <1>8
  <2>4. QED
    BY <1>1, <1>3, <1>8, <2>1, <2>2, <2>3
<1>11. ASSUME NEW u \in CalcTime(GenerateTime(t)) PROVE u - a * Tick \in {-1, 0}
  <2>1. u \in {x + rest : x \in {secs} \union (IF ss = 0 THEN {} ELSE {secs - 1})}
    BY <1>7 DEF CalcTime
  <2> HIDE DEF secs, rest
  <2>2. u = secs + rest \/ u = (secs - 1) + rest
    BY <2>1
  <2>3. a * Tick \in Int
    BY <1>1, <1>3
  <2>4. QED
    BY <1>9, <1>10, <2>2, <2>3
<1>12. QED
  BY <1>11 DEF TimeLaw, a

-----------------------------------------------------------------------------
(* ByteSwap().                                                             *)

\* The place of a byte in its item, from 0, and the place it goes to.
Reversed(k, z) == ((k - 1) \div z) * z + z - (k - 1 - ((k - 1) \div z) * z)

LEMMA ReversedStaysInItem ==
  ASSUME NEW z \in Nat \ {0}, NEW k \in Nat \ {0}
  PROVE  /\ Reversed(k, z) \in Nat \ {0}
         /\ (Reversed(k, z) - 1) \div z = (k - 1) \div z
         /\ Reversed(Reversed(k, z), z) = k
         /\ Reversed(k + z, z) = Reversed(k, z) + z
<1> DEFINE q == (k - 1) \div z
           r == (k - 1) % z
<1>1. k - 1 \in Nat
  OBVIOUS
<1>2. q \in Nat /\ r \in 0 .. z - 1 /\ k - 1 = q * z + r
  BY <1>1, Division
<1>3. q * z \in Nat
  BY <1>2, Products
<1>4. Reversed(k, z) = q * z + (z - 1 - r) + 1
  <2> HIDE DEF r
  <2>1. Reversed(k, z) = q * z + z - (k - 1 - q * z)
    BY DEF Reversed
  <2> HIDE DEF q
  <2>2. QED
    BY <1>2, <1>3, <2>1
<1> HIDE DEF q, r
<1>5. z - 1 - r \in 0 .. z - 1
  BY <1>2
<1>6. Reversed(k, z) \in Nat \ {0}
  BY <1>3, <1>4, <1>5
<1>7. (Reversed(k, z) - 1) \div z = q
  <2>1. Reversed(k, z) - 1 = q * z + (z - 1 - r)
    BY <1>3, <1>4, <1>5
  <2>2. QED
    BY <1>2, <1>5, <2>1, DivisionIsUnique
<1>8. Reversed(Reversed(k, z), z) = k
  <2> DEFINE m == Reversed(k, z)
  <2>1. Reversed(m, z) = q * z + z - (m - 1 - q * z)
    BY <1>7 DEF Reversed
  <2>2. m = q * z + (z - 1 - r) + 1 /\ m \in Nat
    BY <1>4, <1>6
  <2> HIDE DEF m
  <2>3. Reversed(m, z) = k
    BY <1>2, <1>3, <2>1, <2>2
  <2>4. QED
    BY <2>3 DEF m
<1>9. Reversed(k + z, z) = Reversed(k, z) + z
  <2>1. (q + 1) * z = q * z + z
    BY <1>2
  <2> DEFINE p == k + z
  <2>2. p \in Nat \ {0} /\ p = k + z /\ p - 1 = (q + 1) * z + r
    BY <1>2, <1>3, <2>1
  <2> HIDE DEF p
  <2>3. (p - 1) \div z = q + 1
    BY <1>2, <2>2, DivisionIsUnique
  <2>4. Reversed(p, z) = (q + 1) * z + z - (p - 1 - (q + 1) * z)
    BY <2>3 DEF Reversed
  <2>5. Reversed(p, z) = Reversed(k, z) + z
    BY <1>2, <1>3, <1>4, <2>1, <2>2, <2>4
  <2>6. QED
    BY <2>5 DEF p
<1>10. QED
  BY <1>6, <1>7, <1>8, <1>9 DEF q

\* The bytes of whole items stay among them.
LEMMA ReversedStaysInItems ==
  ASSUME NEW z \in Nat \ {0}, NEW n \in Nat, NEW k \in 1 .. n * z
  PROVE  Reversed(k, z) \in 1 .. n * z
<1> DEFINE q == (k - 1) \div z
           m == Reversed(k, z)
<1>1. n * z \in Nat
  BY Products
<1>2. k \in Nat \ {0} /\ k - 1 \in Nat /\ k <= n * z
  BY <1>1
<1>3. q \in Nat /\ (k - 1) % z \in 0 .. z - 1 /\ k - 1 = q * z + ((k - 1) % z)
  BY <1>2, Division
<1>4. m \in Nat \ {0} /\ (m - 1) \div z = q
  BY <1>2, ReversedStaysInItem
<1>5. m - 1 \in Nat
  BY <1>4
<1>6. (m - 1) % z \in 0 .. z - 1 /\ m - 1 = q * z + ((m - 1) % z)
  <2> HIDE DEF m
  <2>1. (m - 1) % z \in 0 .. z - 1 /\ m - 1 = ((m - 1) \div z) * z + ((m - 1) % z)
    BY <1>5, Division
  <2>2. QED
    BY <1>4, <2>1
<1> HIDE DEF q, m
<1>7. q < n
  <2>1. q * z < n * z
    BY <1>1, <1>2, <1>3
  <2>2. QED
    BY <1>3, <2>1
<1>8. q * z <= n * z - z
  <2>1. q * z <= (n - 1) * z
    BY <1>3, <1>7
  <2>2. (n - 1) * z = n * z - z
    OBVIOUS
  <2>3. QED
    BY <2>1, <2>2
<1>9. m <= n * z
  BY <1>1, <1>3, <1>4, <1>6, <1>8
<1>10. QED
  BY <1>1, <1>4, <1>9 DEF m

\* What ByteSwap() does when it swaps.
Exchanged(data, z, n) == [k \in DOMAIN data |-> IF k > n * z THEN data[k] ELSE data[Reversed(k, z)]]

\* ByteSwap() swaps all of the items or nothing.
LEMMA ByteSwapReverses ==
  ASSUME NEW z \in Nat \ {0}, NEW n \in Nat, NEW bigendian \in BOOLEAN, NEW type \in Types,
         NEW S, NEW data \in Seq(S)
  PROVE  ByteSwap(data, z, n, type, bigendian) =
           IF z = 1 \/ ~Swaps(type, bigendian) THEN data ELSE Exchanged(data, z, n)
BY DEF ByteSwap, Exchanged, Reversed

\* Swapping twice changes nothing.
LEMMA ExchangedTwice ==
  ASSUME NEW z \in Nat \ {0}, NEW n \in Nat, NEW S, NEW data \in Seq(S), n * z <= Len(data)
  PROVE  Exchanged(data, z, n) \in Seq(S) /\ Exchanged(Exchanged(data, z, n), z, n) = data
<1> DEFINE new == Exchanged(data, z, n)
<1>1. n * z \in Nat /\ Len(data) \in Nat /\ DOMAIN data = 1 .. Len(data)
  BY Products
<1>2. ASSUME NEW k \in 1 .. Len(data), k <= n * z
      PROVE  Reversed(k, z) \in 1 .. Len(data) /\ Reversed(k, z) <= n * z /\ Reversed(Reversed(k, z), z) = k
  <2>1. k \in 1 .. n * z /\ k \in Nat \ {0}
    BY <1>1, <1>2
  <2>2. Reversed(k, z) \in 1 .. n * z /\ Reversed(Reversed(k, z), z) = k
    BY <2>1, ReversedStaysInItem, ReversedStaysInItems
  <2>3. QED
    BY <1>1, <2>2
<1>3. DOMAIN new = 1 .. Len(data)
  BY <1>1 DEF Exchanged
<1>4. ASSUME NEW k \in 1 .. Len(data) PROVE new[k] = IF k > n * z THEN data[k] ELSE data[Reversed(k, z)]
  BY <1>1 DEF Exchanged
<1>5. new = [k \in 1 .. Len(data) |-> new[k]]
  BY <1>1 DEF Exchanged
<1> HIDE DEF new
<1>6. ASSUME NEW k \in 1 .. Len(data) PROVE new[k] \in S
  <2>1. \A j \in 1 .. Len(data) : data[j] \in S
    BY <1>1
  <2>2. QED
    BY <1>1, <1>2, <1>4, <2>1
<1>7. new \in Seq(S)
  BY <1>1, <1>5, <1>6
<1>8. ASSUME NEW k \in 1 .. Len(data) PROVE (IF k > n * z THEN new[k] ELSE new[Reversed(k, z)]) = data[k]
  <2>1. CASE k > n * z
    BY <1>4, <2>1
  <2>2. CASE k <= n * z
    BY <1>1, <1>2, <1>4, <2>2
  <2>3. QED
    BY <1>1, <2>1, <2>2
<1>9. Exchanged(new, z, n) = [k \in 1 .. Len(data) |-> data[k]]
  BY <1>3, <1>8 DEF Exchanged
<1>10. data = [k \in 1 .. Len(data) |-> data[k]]
  BY <1>1
<1>11. QED
  BY <1>7, <1>9, <1>10 DEF new

\* Items swapped at once are swapped one by one.
LEMMA ExchangedInTurn ==
  ASSUME NEW z \in Nat \ {0}, NEW n \in Nat, n > 1, NEW S, NEW data \in Seq(S), n * z <= Len(data)
  PROVE  Exchanged(data, z, n) =
           Exchanged(SubSeq(data, 1, z), z, 1) \o Exchanged(SubSeq(data, z + 1, Len(data)), z, n - 1)
<1> DEFINE first == SubSeq(data, 1, z)
           rest == SubSeq(data, z + 1, Len(data))
           a == Exchanged(first, z, 1)
           b == Exchanged(rest, z, n - 1)
<1>1. /\ n * z \in Nat /\ Len(data) \in Nat /\ DOMAIN data = 1 .. Len(data)
      /\ (n - 1) * z = n * z - z /\ (n - 1) * z \in Nat /\ 1 * z = z
  BY Products
<1>2. z < Len(data)
  <2>1. z <= (n - 1) * z
    OBVIOUS
  <2>2. QED
    BY <1>1, <2>1
<1>3. first \in Seq(S) /\ Len(first) = z /\ \A k \in 1 .. z : first[k] = data[k]
  BY <1>1, <1>2, CutInTwo
<1>4. rest \in Seq(S) /\ Len(rest) = Len(data) - z /\ \A k \in 1 .. Len(data) - z : rest[k] = data[k + z]
  <2>1. z \in 0 .. Len(data)
    BY <1>1, <1>2
  <2>2. QED
    BY ONLY <2>1, data \in Seq(S), CutInTwo
<1> HIDE DEF first, rest
<1>5. a \in Seq(S) /\ Len(a) = z
  <2>1. a \in Seq(S)
    BY <1>1, <1>3, ExchangedTwice
  <2>2. DOMAIN a = 1 .. z
    BY <1>3 DEF Exchanged
  <2> HIDE DEF a
  <2>3. QED
    BY <2>1, <2>2
<1>6. b \in Seq(S) /\ Len(b) = Len(data) - z
  <2>1. b \in Seq(S)
    <3>1. n - 1 \in Nat /\ (n - 1) * z <= Len(rest)
      BY <1>1, <1>4
    <3>2. QED
      BY <1>4, <3>1, ExchangedTwice
  <2>2. DOMAIN b = 1 .. Len(data) - z
    BY <1>4 DEF Exchanged
  <2> HIDE DEF b
  <2>3. Len(data) - z \in Nat
    BY <1>1, <1>2
  <2>4. QED
    BY <2>1, <2>2, <2>3, LenProperties
<1>7. ASSUME NEW k \in 1 .. z PROVE a[k] = (IF k > n * z THEN data[k] ELSE data[Reversed(k, z)])
  <2>1. k <= 1 * z /\ k <= n * z
    BY <1>1, <1>2, <1>7
  <2>2. Reversed(k, z) \in 1 .. z
    BY <1>1, <2>1, ReversedStaysInItems
  <2>3. a[k] = first[Reversed(k, z)]
    BY <1>1, <1>3, <2>1 DEF Exchanged
  <2>4. QED
    BY <1>1, <1>3, <2>1, <2>2, <2>3
<1>8. ASSUME NEW k \in z + 1 .. Len(data)
      PROVE  b[k - z] = (IF k > n * z THEN data[k] ELSE data[Reversed(k, z)])
  <2> DEFINE j == k - z
  <2>1. j \in 1 .. Len(data) - z /\ j \in Nat \ {0} /\ k = j + z
    BY <1>1, <1>2, <1>8
  <2> HIDE DEF j
  <2>2. b[j] = (IF j > (n - 1) * z THEN rest[j] ELSE rest[Reversed(j, z)])
    BY <1>4, <2>1 DEF Exchanged
  <2>3. CASE k > n * z
    <3>1. j > (n - 1) * z
      BY <1>1, <2>1, <2>3
    <3>2. QED
      BY <1>4, <2>1, <2>2, <2>3, <3>1 DEF j
  <2>4. CASE k <= n * z
    <3>1. j <= (n - 1) * z
      BY <1>1, <2>1, <2>4
    <3>2. Reversed(j, z) \in 1 .. (n - 1) * z
      <4>1. n - 1 \in Nat /\ j \in 1 .. (n - 1) * z
        BY <1>1, <2>1, <3>1
      <4>2. QED
        BY <4>1, ReversedStaysInItems
    <3>3. Reversed(j, z) \in 1 .. Len(data) - z
      BY <1>1, <3>2
    <3>4. Reversed(k, z) = Reversed(j, z) + z
      BY <2>1, ReversedStaysInItem
    <3>5. b[j] = rest[Reversed(j, z)]
      BY <1>1, <2>1, <2>2, <3>1
    <3>6. QED
      BY <1>1, <1>4, <2>4, <3>3, <3>4, <3>5 DEF j
  <2>5. QED
    BY <1>1, <2>3, <2>4
<1> HIDE DEF a, b
<1>9. Len(a \o b) = Len(data) /\ a \o b \in Seq(S)
  <2>1. Len(a \o b) = Len(a) + Len(b) /\ a \o b \in Seq(S)
    BY <1>5, <1>6, ConcatProperties
  <2>2. QED
    BY <1>1, <1>2, <1>5, <1>6, <2>1
<1>10. ASSUME NEW k \in 1 .. Len(data)
       PROVE  (a \o b)[k] = (IF k > n * z THEN data[k] ELSE data[Reversed(k, z)])
  <2>1. (a \o b)[k] = IF k <= z THEN a[k] ELSE b[k - z]
    BY <1>1, <1>2, <1>5, <1>6, ConcatProperties
  <2>2. CASE k <= z
    BY <1>7, <2>1, <2>2
  <2>3. CASE k > z
    <3>1. k \in z + 1 .. Len(data)
      BY <1>1, <2>3
    <3>2. b[k - z] = (IF k > n * z THEN data[k] ELSE data[Reversed(k, z)])
      BY <1>8, <3>1
    <3>3. (a \o b)[k] = b[k - z]
      BY <1>1, <2>1, <2>3
    <3>4. QED
      BY <3>2, <3>3
  <2>4. k <= z \/ k > z
    BY <1>1
  <2>5. QED
    BY <2>2, <2>3, <2>4
<1>11. a \o b = Exchanged(data, z, n)
  <2> DEFINE t == a \o b
             u == Exchanged(data, z, n)
  <2>1. t \in Seq(S) /\ Len(t) = Len(data) /\ u \in Seq(S)
    BY <1>9, ExchangedTwice
  <2>2. /\ DOMAIN u = 1 .. Len(data)
        /\ \A k \in 1 .. Len(data) : u[k] = (IF k > n * z THEN data[k] ELSE data[Reversed(k, z)])
    BY <1>1 DEF Exchanged
  <2>3. \A k \in 1 .. Len(data) : t[k] = u[k]
    BY <1>10, <2>2
  <2> HIDE DEF t, u
  <2>4. Len(u) = Len(data)
    BY <1>1, <2>1, <2>2
  <2>5. t = u
    BY <2>1, <2>3, <2>4, SeqEqual
  <2>6. QED
    BY <2>5 DEF t, u
<1>12. QED
  BY <1>11 DEF a, b, first, rest

\* ByteSwap().
LEMMA SwapsAreExact ==
  ASSUME NEW S, NEW data \in Seq(S), NEW z \in Nat \ {0}, NEW bigendian \in BOOLEAN
  PROVE  SwapLaw(data, z, bigendian)
<1> DEFINE n == Len(data) \div z
           first == SubSeq(data, 1, z)
           rest == SubSeq(data, z + 1, Len(data))
           Swap2(seq, k, type) == ByteSwap(seq, z, k, type, bigendian)
<1>1. Len(data) \in Nat
  OBVIOUS
<1>2. n \in Nat /\ Len(data) % z \in 0 .. z - 1 /\ Len(data) = n * z + (Len(data) % z)
  BY <1>1, Division
<1>3. n * z \in Nat /\ n * z <= Len(data)
  BY <1>1, <1>2, Products
<1> HIDE DEF n
<1>4. Exchanged(data, z, n) \in Seq(S) /\ Exchanged(Exchanged(data, z, n), z, n) = data
  BY <1>2, <1>3, ExchangedTwice
<1>5. ASSUME NEW type \in Types PROVE Swap2(Swap2(data, n, type), n, type) = data
  BY <1>2, <1>4, ByteSwapReverses
<1>6. Swap2(Swap2(data, n, "for_le"), n, "for_be") = Swap2(data, n, "always")
  <2>1. "for_le" \in Types /\ "for_be" \in Types /\ "always" \in Types
    BY DEF Types
  <2>2. Swaps("always", bigendian) /\ (Swaps("for_le", bigendian) <=> ~Swaps("for_be", bigendian))
    BY DEF Swaps
  <2>3. QED
    BY <1>2, <1>4, <2>1, <2>2, ByteSwapReverses
<1>7. ASSUME n > 1
      PROVE  Swap2(data, n, "always") = Swap2(first, 1, "always") \o Swap2(rest, n - 1, "always")
  <2>1. "always" \in Types /\ Swaps("always", bigendian)
    BY DEF Types, Swaps
  <2>2. z \in 0 .. Len(data)
    <3>1. z <= n * z
      BY <1>2, <1>7
    <3>2. QED
      BY <1>1, <1>3, <3>1
  <2>3. first \in Seq(S) /\ rest \in Seq(S) /\ data = first \o rest
    BY <2>2, CutInTwo
  <2>4. CASE z = 1
    <3> HIDE DEF first, rest
    <3>1. /\ Swap2(data, n, "always") = data
          /\ Swap2(first, 1, "always") = first /\ Swap2(rest, n - 1, "always") = rest
      BY <2>4 DEF ByteSwap
    <3>2. QED
      BY <2>3, <3>1
  <2>5. CASE z # 1
    <3>1. Exchanged(data, z, n) = Exchanged(first, z, 1) \o Exchanged(rest, z, n - 1)
      BY <1>2, <1>3, <1>7, ExchangedInTurn
    <3>2. n - 1 \in Nat
      BY <1>2, <1>7
    <3> HIDE DEF first, rest
    <3>3. ASSUME NEW seq \in Seq(S), NEW k \in Nat PROVE Swap2(seq, k, "always") = Exchanged(seq, z, k)
      BY <2>1, <2>5, ByteSwapReverses
    <3>4. QED
      BY <1>2, <2>3, <3>1, <3>2, <3>3
  <2>6. QED
    BY <2>4, <2>5
<1>8. QED
  BY <1>5, <1>6, <1>7 DEF SwapLaw, n

-----------------------------------------------------------------------------
(* IEEE extended numbers.                                                  *)

\* A word that is not zero can be shifted up to its leading bit.
LEMMA LeadingBit ==
  ASSUME NEW val \in Words, val > 0
  PROVE  \E n \in 0 .. W - 1 : val * Power[n] \in Word \div 2 .. Word - 1
<1> DEFINE S == {n \in Nat : val * Power[n] < Word}
<1>1. W \in Nat \ {0} /\ val \in Nat /\ val < Word
  BY WordAssumption, WordIsPositive DEF Words
<1>2. W - 1 \in Nat /\ Power[W - 1] \in Nat \ {0} /\ Word = 2 * Power[W - 1]
  <2>1. W - 1 \in Nat /\ (W - 1) + 1 = W
    BY <1>1
  <2>2. QED
    BY <2>1, PowerOfTwo DEF Word
<1>3. Word \div 2 = Power[W - 1]
  BY <1>2
<1>4. PICK n \in Nat : n \in S /\ n + 1 \notin S
  <2>1. 0 \in S
    BY <1>1, PowerOfTwo
  <2>2. W \notin S
    <3>1. Power[W] = Word /\ Word \in Nat /\ val * Word >= Word
      BY <1>1, WordIsPositive DEF Word
    <3>2. QED
      BY <1>1, <3>1, WordIsPositive
  <2>3. ~ (Nat \subseteq S)
    BY <1>1, <2>2
  <2> HIDE DEF S
  <2>4. QED
    BY <2>1, <2>3, NumbersAreInductive
<1>5. val * Power[n] < Word /\ ~ (val * Power[n + 1] < Word)
  BY <1>4
<1>6. Power[n] \in Nat \ {0} /\ Power[n + 1] = 2 * Power[n]
  BY PowerOfTwo
<1>7. val * Power[n] \in Nat /\ val * Power[n + 1] = 2 * (val * Power[n]) /\ Power[n] <= val * Power[n]
  BY <1>1, <1>6
<1>8. val * Power[n] \in Word \div 2 .. Word - 1
  BY <1>2, <1>3, <1>5, <1>7, WordIsPositive
<1>9. n \in 0 .. W - 1
  <2>1. SUFFICES ASSUME n >= W PROVE FALSE
    BY <1>1
  <2>2. n - W \in Nat /\ n = W + (n - W)
    BY <1>1, <2>1
  <2> DEFINE d == n - W
  <2> HIDE DEF d
  <2>3. Power[W + d] = Word * Power[d] /\ Power[d] \in Nat \ {0}
    <3>1. d \in Nat
      BY <2>2 DEF d
    <3>2. Power[W + d] = Power[W] * Power[d]
      BY <1>1, <3>1, PowerOfSum
    <3>3. QED
      BY <3>1, <3>2, PowerOfTwo DEF Word
  <2>4. Power[n] >= Word
    <3>1. Power[n] = Power[W + d]
      BY <2>2 DEF d
    <3>2. QED
      BY <2>3, <3>1, WordIsPositive
  <2>5. QED
    BY <1>5, <1>6, <1>7, <2>4, WordIsPositive
<1>10. QED
  BY <1>8, <1>9

\* A half added before the word behind the point is cut.
LEMMA RoundedUp ==
  ASSUME NEW m \in Nat, m + Word \div 2 < Word * Word
  PROVE  ((m + Word \div 2) % (Word * Word)) \div Word = (m + Word \div 2) \div Word
<1> DEFINE n == m + Word \div 2
           l == Word * Word
<1>1. n \in Nat /\ l \in Nat /\ n < l
  BY WordIsPositive, Products
<1> HIDE DEF n, l
<1>2. n % l = n
  BY <1>1
<1>3. QED
  BY <1>2 DEF n, l

\* Both directions of the conversion.
LEMMA ExtendedIsExact ==
  ASSUME NEW mant \in Longs, NEW expo \in 0 .. W - 1, NEW val \in Words
  PROVE  ExtendedLaw(mant, expo, val)
<1> DEFINE H == Word \div 2
<1>1. W \in Nat \ {0} /\ Word \in Nat \ {0} /\ Word * Word \in Nat \ {0} /\ H \in Nat /\ Word = 2 * H
  <2>1. W - 1 \in Nat /\ (W - 1) + 1 = W /\ W \in Nat \ {0}
    BY WordAssumption
  <2>2. Power[W - 1] \in Nat \ {0} /\ Word = 2 * Power[W - 1]
    BY <2>1, PowerOfTwo DEF Word
  <2>3. H = Power[W - 1]
    BY <2>2
  <2>4. QED
    BY <2>1, <2>2, <2>3, WordIsPositive, Products
<1>2. mant \in Nat /\ mant < Word * Word /\ val \in Nat /\ val <= Word - 1
  BY <1>1 DEF Longs, Words
<1> HIDE DEF H
<1>3. ASSUME val > 0 PROVE FromExtended(ToExtended(val)) = val
  <2> DEFINE shift == CHOOSE n \in 0 .. W - 1 : val * Power[n] \in Word \div 2 .. Word - 1
             p == Power[shift]
             q == Power[-(-shift)]
  <2>1. shift \in 0 .. W - 1
    BY <1>3, LeadingBit
  <2>2. ToExtended(val) = [expo |-> W - 1 - shift, mant |-> val * p * Word]
    BY DEF ToExtended
  <2> HIDE DEF shift
  <2>3. p \in Nat \ {0}
    BY <2>1, PowerOfTwo
  <2>4. W - 1 - shift - (W - 1) = -shift /\ - (-shift) = shift
    BY <1>1, <2>1
  <2> DEFINE m == IF -shift < 0 THEN (val * p * Word) \div Power[-(-shift)]
                  ELSE ((val * p * Word) * Power[-shift]) % (Word * Word)
  <2>5. FromExtended(ToExtended(val)) = ((m + Word \div 2) % (Word * Word)) \div Word
    BY <2>2, <2>4 DEF FromExtended
  <2>6. val * Word \in Nat /\ val * Word + H < Word * Word
    <3>1. val * Word <= (Word - 1) * Word
      BY <1>1, <1>2
    <3>2. (Word - 1) * Word = Word * Word - Word
      BY <1>1
    <3>3. H < Word
      BY <1>1
    <3>4. QED
      BY <1>1, <1>2, <3>1, <3>2, <3>3
  <2>7. m = val * Word
    <3>1. CASE shift # 0
      <4>1. m = (val * p * Word) \div p
        BY <2>1, <2>4, <3>1
      <4> HIDE DEF p
      <4>2. val * p * Word = (val * Word) * p + 0
        BY <1>1, <1>2, <2>3
      <4>3. QED
        BY <2>3, <2>6, <4>1, <4>2, DivisionIsUnique
    <3>2. CASE shift = 0
      <4>1. p = 1 /\ Power[-shift] = 1
        BY <3>2, PowerOfTwo
      <4>2. m = (val * Word) % (Word * Word)
        BY <1>1, <1>2, <3>2, <4>1
      <4> DEFINE n == val * Word
                 l == Word * Word
      <4>3. n \in Nat /\ l \in Nat /\ n < l
        BY <1>1, <2>6
      <4>4. n % l = n
        <5> HIDE DEF n, l
        <5>1. QED
          BY <4>3
      <4>5. QED
        BY <4>2, <4>4
    <3>3. QED
      BY <3>1, <3>2
  <2> HIDE DEF m
  <2>8. FromExtended(ToExtended(val)) = (val * Word + H) \div Word
    BY <2>5, <2>6, <2>7, RoundedUp DEF H
  <2>9. QED
    <3>1. H \in 0 .. Word - 1
      BY <1>1
    <3>2. QED
      BY <1>1, <1>2, <2>8, <3>1, DivisionIsUnique
<1> DEFINE k == W - 1 - expo
           p == Power[k]
           unit == Power[2 * W - 1 - expo]
           nearest == (2 * mant + unit) \div (2 * unit)
<1>4. k \in Nat /\ p \in Nat \ {0} /\ unit = Word * p
  <2>1. k \in Nat /\ 2 * W - 1 - expo = W + k
    BY <1>1
  <2> HIDE DEF k
  <2>2. unit = Word * p
    BY <1>1, <2>1, PowerOfSum DEF Word
  <2>3. QED
    BY <2>1, <2>2, PowerOfTwo
<1>5. ASSUME nearest < Word PROVE FromExtended([expo |-> expo, mant |-> mant]) = nearest
  <2> DEFINE m == mant \div p
             r == mant % p
  <2>1. m \in Nat /\ r \in 0 .. p - 1 /\ mant = m * p + r
    BY <1>2, <1>4, Division
  <2>2. FromExtended([expo |-> expo, mant |-> mant]) = ((m + H) % (Word * Word)) \div Word
    <3>1. expo - (W - 1) = -k /\ -(-k) = k
      BY <1>1
    <3>2. CASE k # 0
      <4>1. expo - (W - 1) < 0 /\ -(expo - (W - 1)) = k
        BY <1>1, <1>4, <3>2
      <4>2. QED
        BY <4>1 DEF FromExtended, H
    <3>3. CASE k = 0
      <4>1. ~(expo - (W - 1) < 0) /\ expo - (W - 1) = 0
        BY <1>1, <3>3
      <4>2. p = 1 /\ Power[0] = 1
        BY <3>3, PowerOfTwo
      <4>3. FromExtended([expo |-> expo, mant |-> mant]) =
              ((((mant * Power[0]) % (Word * Word)) + (Word \div 2)) % (Word * Word)) \div Word
        BY <4>1 DEF FromExtended
      <4> DEFINE l == Word * Word
      <4>4. mant * Power[0] = mant /\ m = mant /\ l \in Nat \ {0} /\ mant < l
        BY <1>1, <1>2, <4>2
      <4>5. (mant * Power[0]) % l = mant
        <5> HIDE DEF l
        <5>1. QED
          BY <1>2, <4>4
      <4>6. QED
        BY <4>3, <4>4, <4>5 DEF H
    <3>4. QED
      BY <3>2, <3>3
  <2> HIDE DEF k, p, m, r
  <2>3. nearest = (m + H) \div Word
    <3> DEFINE q == (m + H) \div Word
               s == (m + H) % Word
    <3>1. q \in Nat /\ s \in 0 .. Word - 1 /\ m + H = q * Word + s
      <4> DEFINE n == m + H
      <4>1. n \in Nat
        BY <1>1, <2>1
      <4> HIDE DEF n
      <4>2. n \div Word \in Nat /\ n % Word \in 0 .. Word - 1 /\ n = (n \div Word) * Word + (n % Word)
        BY <1>1, <4>1, Division
      <4>3. QED
        BY <4>2 DEF n
    <3> HIDE DEF q, s
    <3>2. 2 * mant + unit = q * (2 * unit) + 2 * (s * p + r)
      <4>1. unit = 2 * (H * p)
        BY <1>1, <1>4
      <4>2. mant + H * p = (m + H) * p + r
        BY <1>1, <1>4, <2>1
      <4>3. (m + H) * p = q * unit + s * p
        BY <1>1, <1>4, <3>1
      <4>4. unit \in Nat /\ H * p \in Nat /\ q * unit \in Nat /\ s * p \in Nat
        BY <1>1, <1>4, <3>1, Products
      <4>5. q * (2 * unit) = 2 * (q * unit)
        BY <3>1, <4>4
      <4> HIDE DEF unit
      <4>6. QED
        BY <1>2, <2>1, <4>1, <4>2, <4>3, <4>4, <4>5
    <3>3. 2 * (s * p + r) \in 0 .. 2 * unit - 1 /\ 2 * unit \in Nat \ {0}
      <4>1. s * p \in Nat /\ s * p <= (Word - 1) * p /\ (Word - 1) * p = unit - p
        BY <1>1, <1>4, <3>1
      <4>2. unit \in Nat \ {0}
        BY <1>1, <1>4, Products
      <4> HIDE DEF unit
      <4>3. QED
        BY <1>4, <2>1, <4>1, <4>2
    <3> DEFINE u == 2 * unit
               t == 2 * (s * p + r)
    <3>4. (q * u + t) \div u = q
      <4>1. u \in Nat \ {0} /\ t \in 0 .. u - 1
        BY <3>3
      <4> HIDE DEF u, t
      <4>2. QED
        BY <3>1, <4>1, DivisionIsUnique
    <3>5. nearest = q
      BY <3>2, <3>4
    <3>6. QED
      BY <3>5 DEF q
  <2>4. m + H < Word * Word
    <3>1. (m + H) \div Word < Word /\ m + H \in Nat
      BY <1>1, <1>5, <2>1, <2>3
    <3> DEFINE q == (m + H) \div Word
    <3>2. q \in Nat /\ (m + H) % Word \in 0 .. Word - 1 /\ m + H = q * Word + ((m + H) % Word)
      BY <1>1, <3>1, Division
    <3>3. q <= Word - 1
      BY <1>1, <3>1, <3>2
    <3> HIDE DEF q
    <3>4. q * Word <= (Word - 1) * Word /\ (Word - 1) * Word = Word * Word - Word
      BY <1>1, <3>2, <3>3
    <3>5. QED
      BY <1>1, <3>1, <3>2, <3>4
  <2>5. ((m + H) % (Word * Word)) \div Word = (m + H) \div Word
    BY <2>1, <2>4, RoundedUp DEF H
  <2>6. QED
    BY <2>2, <2>3, <2>5
<1>6. QED
  BY <1>3, <1>5 DEF ExtendedLaw

-----------------------------------------------------------------------------
(* For every width of a word, every operand, every buffer and size of its  *)
(* items and every resolution of the clock, what the arithmetic of misc.cpp *)
(* and ByteSwap.cpp does in parts is what it would do at once: the carries, *)
(* remainders, roundings and wraps of muldiv(), limited, the IEEE extended  *)
(* conversions, ByteSwap(), GenerateTime() and CalcTime().                 *)
THEOREM ArithmeticIsExact == NumbersSpec => []NumbersAreExact
<1>1. NoInput => NumbersAreExact
  BY DEF NoInput, NumbersAreExact, Is
<1>2. NumbersAreExact /\ [NumberInput]_input => NumbersAreExact'
  <2> SUFFICES ASSUME NumbersAreExact, [NumberInput]_input PROVE NumbersAreExact'
    OBVIOUS
  <2>1. ASSUME NEW val \in Longs, NEW mul \in Words, NEW div \in Words,
               input' = [kind |-> "muldiv", val |-> val, mul |-> mul, div |-> div]
        PROVE  NumbersAreExact'
    BY <2>1, MulDivIsExact DEF NumbersAreExact, Is
  <2>2. ASSUME NEW a \in Words, NEW b \in Words, NEW c \in Words,
               input' = [kind |-> "limited", a |-> a, b |-> b, c |-> c]
        PROVE  NumbersAreExact'
    BY <2>2, LimitedIsExact DEF NumbersAreExact, Is
  <2>3. ASSUME NEW mant \in Longs, NEW expo \in 0 .. W - 1, NEW val \in Words,
               input' = [kind |-> "extended", mant |-> mant, expo |-> expo, val |-> val]
        PROVE  NumbersAreExact'
    BY <2>3, ExtendedIsExact DEF NumbersAreExact, Is
  <2>4. ASSUME NEW data \in Buffers, NEW size \in ItemSizes, NEW bigendian \in BOOLEAN,
               input' = [kind |-> "bytes", data |-> data, size |-> size, bigendian |-> bigendian]
        PROVE  NumbersAreExact'
    <3>1. SwapLaw(data, size, bigendian)
      BY BuffersAssumption, SwapsAreExact
    <3>2. QED
      BY <2>4, <3>1 DEF NumbersAreExact, Is
  <2>5. ASSUME NEW t \in 0 .. MaxTime, input' = [kind |-> "time", t |-> t] PROVE NumbersAreExact'
    BY <2>5, TimesAreExact DEF NumbersAreExact, Is
  <2>6. CASE UNCHANGED input
    BY <2>6 DEF NumbersAreExact, Is
  <2>7. QED
    BY <2>1, <2>2, <2>3, <2>4, <2>5, <2>6 DEF NumberInput
<1>3. QED
  BY <1>1, <1>2, PTL DEF NumbersSpec

-----------------------------------------------------------------------------
(* Quaternions, in halves: the Hurwitz quaternions.                       *)

Halves == [w : Int, x : Int, y : Int, z : Int]

\* Quaternions whose halves are all even or all odd.
Hurwitz ==
  {q \in Halves : \E u \in Halves, e \in {0, 1} :
     q.w = 2 * u.w + e /\ q.x = 2 * u.x + e /\ q.y = 2 * u.y + e /\ q.z = 2 * u.z + e}

LEMMA QuatIs ==
  ASSUME NEW w \in Int, NEW x \in Int, NEW y \in Int, NEW z \in Int
  PROVE  /\ Quat(w, x, y, z) \in Halves
         /\ Quat(w, x, y, z).w = w /\ Quat(w, x, y, z).x = x /\ Quat(w, x, y, z).y = y /\ Quat(w, x, y, z).z = z
BY DEF Quat, Halves

LEMMA SameQuat ==
  ASSUME NEW a \in Halves, NEW b \in Halves, a.w = b.w, a.x = b.x, a.y = b.y, a.z = b.z
  PROVE  a = b
BY DEF Halves

LEMMA HalvesAreIntegers == ASSUME NEW q \in Halves PROVE q.w \in Int /\ q.x \in Int /\ q.y \in Int /\ q.z \in Int
BY DEF Halves

LEMMA HurwitzIsHalves == ASSUME NEW q \in Hurwitz PROVE q \in Halves
BY DEF Hurwitz

LEMMA HurwitzIs ==
  ASSUME NEW w \in Int, NEW x \in Int, NEW y \in Int, NEW z \in Int, NEW e \in {0, 1}
  PROVE  Quat(2 * w + e, 2 * x + e, 2 * y + e, 2 * z + e) \in Hurwitz
<1> DEFINE u == Quat(w, x, y, z)
           q == Quat(2 * w + e, 2 * x + e, 2 * y + e, 2 * z + e)
<1>1. u \in Halves /\ u.w = w /\ u.x = x /\ u.y = y /\ u.z = z
  BY QuatIs
<1>2. q \in Halves /\ q.w = 2 * w + e /\ q.x = 2 * x + e /\ q.y = 2 * y + e /\ q.z = 2 * z + e
  BY QuatIs
<1> HIDE DEF u, q
<1>3. QED
  BY <1>1, <1>2 DEF Hurwitz, q

LEMMA HurwitzHas ==
  ASSUME NEW q \in Hurwitz
  PROVE  \E w \in Int, x \in Int, y \in Int, z \in Int, e \in {0, 1} :
           q.w = 2 * w + e /\ q.x = 2 * x + e /\ q.y = 2 * y + e /\ q.z = 2 * z + e
BY HalvesAreIntegers DEF Hurwitz

\* A sum and a difference of two numbers have the same parity.
LEMMA Parity == ASSUME NEW n \in Int PROVE n % 2 \in {0, 1} /\ \E m \in Int : n = 2 * m + (n % 2)
<1>1. n % 2 \in {0, 1} /\ n \div 2 \in Int /\ n = 2 * (n \div 2) + (n % 2)
  OBVIOUS
<1>2. QED
  BY <1>1

\* The product, twice, has no division.
LEMMA TimesIs ==
  ASSUME NEW a \in Hurwitz, NEW b \in Hurwitz
  PROVE  /\ Times(a, b) \in Hurwitz
         /\ 2 * Times(a, b).w = a.w * b.w - a.x * b.x - a.y * b.y - a.z * b.z
         /\ 2 * Times(a, b).x = a.w * b.x + a.x * b.w + a.y * b.z - a.z * b.y
         /\ 2 * Times(a, b).y = a.w * b.y - a.x * b.z + a.y * b.w + a.z * b.x
         /\ 2 * Times(a, b).z = a.w * b.z + a.x * b.y - a.y * b.x + a.z * b.w
<1>1. PICK u1 \in Int, u2 \in Int, u3 \in Int, u4 \in Int, e \in {0, 1} :
        a.w = 2 * u1 + e /\ a.x = 2 * u2 + e /\ a.y = 2 * u3 + e /\ a.z = 2 * u4 + e
  BY HurwitzHas
<1>2. PICK v1 \in Int, v2 \in Int, v3 \in Int, v4 \in Int, f \in {0, 1} :
        b.w = 2 * v1 + f /\ b.x = 2 * v2 + f /\ b.y = 2 * v3 + f /\ b.z = 2 * v4 + f
  BY HurwitzHas
<1> DEFINE n == f * (u1 + u2 + u3 + u4) + e * (v1 + v2 + v3 + v4) + e * f
           mw == u1 * v1 - u2 * v2 - u3 * v3 - u4 * v4 - f * (u2 + u3 + u4) - e * (v2 + v3 + v4) - e * f
           mx == u1 * v2 + u2 * v1 + u3 * v4 - u4 * v3 - f * u4 - e * v3
           my == u1 * v3 - u2 * v4 + u3 * v1 + u4 * v2 - f * u2 - e * v4
           mz == u1 * v4 + u2 * v3 - u3 * v2 + u4 * v1 - f * u3 - e * v2
           g == n % 2
<1>3. mw \in Int /\ mx \in Int /\ my \in Int /\ mz \in Int /\ n \in Int
  OBVIOUS
<1>4. a.w * b.w - a.x * b.x - a.y * b.y - a.z * b.z = 2 * (2 * mw + n)
  BY <1>1, <1>2
<1>5. a.w * b.x + a.x * b.w + a.y * b.z - a.z * b.y = 2 * (2 * mx + n)
  BY <1>1, <1>2
<1>6. a.w * b.y - a.x * b.z + a.y * b.w + a.z * b.x = 2 * (2 * my + n)
  BY <1>1, <1>2
<1>7. a.w * b.z + a.x * b.y - a.y * b.x + a.z * b.w = 2 * (2 * mz + n)
  BY <1>1, <1>2
<1> DEFINE cw == 2 * mw + n
           cx == 2 * mx + n
           cy == 2 * my + n
           cz == 2 * mz + n
           pw == a.w * b.w - a.x * b.x - a.y * b.y - a.z * b.z
           px == a.w * b.x + a.x * b.w + a.y * b.z - a.z * b.y
           py == a.w * b.y - a.x * b.z + a.y * b.w + a.z * b.x
           pz == a.w * b.z + a.x * b.y - a.y * b.x + a.z * b.w
<1> HIDE DEF mw, mx, my, mz, n
<1>8. Times(a, b) = Quat(cw, cx, cy, cz) /\ cw \in Int /\ cx \in Int /\ cy \in Int /\ cz \in Int
  <2>1. cw \in Int /\ cx \in Int /\ cy \in Int /\ cz \in Int
    BY <1>3
  <2>2. pw = 2 * cw /\ px = 2 * cx /\ py = 2 * cy /\ pz = 2 * cz
    BY <1>4, <1>5, <1>6, <1>7
  <2>3. Times(a, b) = Quat(pw \div 2, px \div 2, py \div 2, pz \div 2)
    BY DEF Times
  <2> HIDE DEF cw, cx, cy, cz, pw, px, py, pz
  <2>4. pw \div 2 = cw /\ px \div 2 = cx /\ py \div 2 = cy /\ pz \div 2 = cz
    BY <2>1, <2>2
  <2>5. QED
    BY <2>1, <2>3, <2>4
<1>9. PICK k \in Int : n = 2 * k + g
  BY <1>3, Parity
<1>10. g \in {0, 1}
  BY <1>3, Parity
<1>11. Times(a, b) \in Hurwitz
  <2>1. /\ 2 * mw + n = 2 * (mw + k) + g /\ 2 * mx + n = 2 * (mx + k) + g
        /\ 2 * my + n = 2 * (my + k) + g /\ 2 * mz + n = 2 * (mz + k) + g
        /\ mw + k \in Int /\ mx + k \in Int /\ my + k \in Int /\ mz + k \in Int
    BY <1>3, <1>9, <1>10
  <2> HIDE DEF g
  <2>2. Quat(2 * (mw + k) + g, 2 * (mx + k) + g, 2 * (my + k) + g, 2 * (mz + k) + g) \in Hurwitz
    BY <1>10, <2>1, HurwitzIs
  <2>3. QED
    BY <1>8, <2>1, <2>2
<1>12. Times(a, b).w = cw /\ Times(a, b).x = cx /\ Times(a, b).y = cy /\ Times(a, b).z = cz
  <2> HIDE DEF cw, cx, cy, cz
  <2>1. QED
    BY <1>8, QuatIs
<1>13. QED
  BY <1>4, <1>5, <1>6, <1>7, <1>11, <1>12

\* The product is associative.
LEMMA TimesIsAssociative ==
  ASSUME NEW a \in Hurwitz, NEW b \in Hurwitz, NEW c \in Hurwitz
  PROVE  Times(Times(a, b), c) = Times(a, Times(b, c))
<1> DEFINE t == Times(a, b)
           s == Times(b, c)
           l == Times(t, c)
           r == Times(a, s)
           a1 == a.w
           a2 == a.x
           a3 == a.y
           a4 == a.z
           b1 == b.w
           b2 == b.x
           b3 == b.y
           b4 == b.z
           c1 == c.w
           c2 == c.x
           c3 == c.y
           c4 == c.z
           t1 == t.w
           t2 == t.x
           t3 == t.y
           t4 == t.z
           s1 == s.w
           s2 == s.x
           s3 == s.y
           s4 == s.z
           l1 == l.w
           l2 == l.x
           l3 == l.y
           l4 == l.z
           r1 == r.w
           r2 == r.x
           r3 == r.y
           r4 == r.z
<1>1. t \in Hurwitz /\ s \in Hurwitz /\ l \in Hurwitz /\ r \in Hurwitz
  BY TimesIs
<1>2. /\ 2 * t1 = a1 * b1 - a2 * b2 - a3 * b3 - a4 * b4
      /\ 2 * t2 = a1 * b2 + a2 * b1 + a3 * b4 - a4 * b3
      /\ 2 * t3 = a1 * b3 - a2 * b4 + a3 * b1 + a4 * b2
      /\ 2 * t4 = a1 * b4 + a2 * b3 - a3 * b2 + a4 * b1
  BY TimesIs
<1>3. /\ 2 * s1 = b1 * c1 - b2 * c2 - b3 * c3 - b4 * c4
      /\ 2 * s2 = b1 * c2 + b2 * c1 + b3 * c4 - b4 * c3
      /\ 2 * s3 = b1 * c3 - b2 * c4 + b3 * c1 + b4 * c2
      /\ 2 * s4 = b1 * c4 + b2 * c3 - b3 * c2 + b4 * c1
  BY TimesIs
<1> HIDE DEF t, s
<1>4. /\ 2 * l1 = t1 * c1 - t2 * c2 - t3 * c3 - t4 * c4
      /\ 2 * l2 = t1 * c2 + t2 * c1 + t3 * c4 - t4 * c3
      /\ 2 * l3 = t1 * c3 - t2 * c4 + t3 * c1 + t4 * c2
      /\ 2 * l4 = t1 * c4 + t2 * c3 - t3 * c2 + t4 * c1
  BY <1>1, TimesIs
<1>5. /\ 2 * r1 = a1 * s1 - a2 * s2 - a3 * s3 - a4 * s4
      /\ 2 * r2 = a1 * s2 + a2 * s1 + a3 * s4 - a4 * s3
      /\ 2 * r3 = a1 * s3 - a2 * s4 + a3 * s1 + a4 * s2
      /\ 2 * r4 = a1 * s4 + a2 * s3 - a3 * s2 + a4 * s1
  BY <1>1, TimesIs
<1> HIDE DEF l, r
<1>6. /\ a1 \in Int /\ a2 \in Int /\ a3 \in Int /\ a4 \in Int
      /\ b1 \in Int /\ b2 \in Int /\ b3 \in Int /\ b4 \in Int
      /\ c1 \in Int /\ c2 \in Int /\ c3 \in Int /\ c4 \in Int
      /\ t1 \in Int /\ t2 \in Int /\ t3 \in Int /\ t4 \in Int
      /\ s1 \in Int /\ s2 \in Int /\ s3 \in Int /\ s4 \in Int
      /\ l1 \in Int /\ l2 \in Int /\ l3 \in Int /\ l4 \in Int
      /\ r1 \in Int /\ r2 \in Int /\ r3 \in Int /\ r4 \in Int
  BY <1>1, HurwitzIsHalves, HalvesAreIntegers
<1> HIDE DEF a1, a2, a3, a4, b1, b2, b3, b4, c1, c2, c3, c4, t1, t2, t3, t4,
            s1, s2, s3, s4, l1, l2, l3, l4, r1, r2, r3, r4
<1> DEFINE d1 == 2 * t1
           d2 == 2 * t2
           d3 == 2 * t3
           d4 == 2 * t4
           e1 == 2 * s1
           e2 == 2 * s2
           e3 == 2 * s3
           e4 == 2 * s4
<1>7. d1 \in Int /\ d2 \in Int /\ d3 \in Int /\ d4 \in Int /\ e1 \in Int /\ e2 \in Int /\ e3 \in Int /\ e4 \in Int
  BY <1>6
<1>8. /\ d1 = a1 * b1 - a2 * b2 - a3 * b3 - a4 * b4
      /\ d2 = a1 * b2 + a2 * b1 + a3 * b4 - a4 * b3
      /\ d3 = a1 * b3 - a2 * b4 + a3 * b1 + a4 * b2
      /\ d4 = a1 * b4 + a2 * b3 - a3 * b2 + a4 * b1
      /\ e1 = b1 * c1 - b2 * c2 - b3 * c3 - b4 * c4
      /\ e2 = b1 * c2 + b2 * c1 + b3 * c4 - b4 * c3
      /\ e3 = b1 * c3 - b2 * c4 + b3 * c1 + b4 * c2
      /\ e4 = b1 * c4 + b2 * c3 - b3 * c2 + b4 * c1
  BY <1>2, <1>3
<1> HIDE DEF d1, d2, d3, d4, e1, e2, e3, e4
<1>9. l1 = r1
  <2>1. d1 * c1 - d2 * c2 - d3 * c3 - d4 * c4 = a1 * e1 - a2 * e2 - a3 * e3 - a4 * e4
    BY <1>6, <1>8
  <2>2. t1 * c1 - t2 * c2 - t3 * c3 - t4 * c4 = a1 * s1 - a2 * s2 - a3 * s3 - a4 * s4
    BY <1>6, <2>1 DEF d1, d2, d3, d4, e1, e2, e3, e4
  <2>3. QED
    BY <1>4, <1>5, <1>6, <2>2
<1>10. l2 = r2
  <2>1. d1 * c2 + d2 * c1 + d3 * c4 - d4 * c3 = a1 * e2 + a2 * e1 + a3 * e4 - a4 * e3
    BY <1>6, <1>8
  <2>2. t1 * c2 + t2 * c1 + t3 * c4 - t4 * c3 = a1 * s2 + a2 * s1 + a3 * s4 - a4 * s3
    BY <1>6, <2>1 DEF d1, d2, d3, d4, e1, e2, e3, e4
  <2>3. QED
    BY <1>4, <1>5, <1>6, <2>2
<1>11. l3 = r3
  <2>1. d1 * c3 - d2 * c4 + d3 * c1 + d4 * c2 = a1 * e3 - a2 * e4 + a3 * e1 + a4 * e2
    BY <1>6, <1>8
  <2>2. t1 * c3 - t2 * c4 + t3 * c1 + t4 * c2 = a1 * s3 - a2 * s4 + a3 * s1 + a4 * s2
    BY <1>6, <2>1 DEF d1, d2, d3, d4, e1, e2, e3, e4
  <2>3. QED
    BY <1>4, <1>5, <1>6, <2>2
<1>12. l4 = r4
  <2>1. d1 * c4 + d2 * c3 - d3 * c2 + d4 * c1 = a1 * e4 + a2 * e3 - a3 * e2 + a4 * e1
    BY <1>6, <1>8
  <2>2. t1 * c4 + t2 * c3 - t3 * c2 + t4 * c1 = a1 * s4 + a2 * s3 - a3 * s2 + a4 * s1
    BY <1>6, <2>1 DEF d1, d2, d3, d4, e1, e2, e3, e4
  <2>3. QED
    BY <1>4, <1>5, <1>6, <2>2
<1>13. l = r
  BY <1>1, <1>9, <1>10, <1>11, <1>12, HurwitzIsHalves, SameQuat DEF l1, l2, l3, l4, r1, r2, r3, r4
<1>14. QED
  BY <1>13 DEF l, r, t, s

LEMMA HurwitzFields ==
  ASSUME NEW q \in Hurwitz PROVE q \in Halves /\ q.w \in Int /\ q.x \in Int /\ q.y \in Int /\ q.z \in Int
BY HurwitzIsHalves, HalvesAreIntegers

\* What is twice the same is the same.
LEMMA SameDouble ==
  ASSUME NEW a \in Hurwitz, NEW b \in Hurwitz,
         2 * a.w = 2 * b.w, 2 * a.x = 2 * b.x, 2 * a.y = 2 * b.y, 2 * a.z = 2 * b.z
  PROVE  a = b
<1>1. a.w = b.w /\ a.x = b.x /\ a.y = b.y /\ a.z = b.z
  BY HurwitzFields
<1>2. QED
  BY <1>1, HurwitzFields, SameQuat

\* The halves of a unit quaternion are all even or all odd.
LEMMA UnitsAreHurwitz == ASSUME NEW q \in Units PROVE q \in Hurwitz /\ ScalarProduct(q, q) = 4
<1> DEFINE w == q.w
           x == q.x
           y == q.y
           z == q.z
<1>1. q \in Halves /\ w \in Int /\ x \in Int /\ y \in Int /\ z \in Int /\ w * w + x * x + y * y + z * z = 4
  BY DEF Units, Halves, ScalarProduct
<1>2. q = Quat(w, x, y, z)
  BY <1>1 DEF Halves, Quat
<1> HIDE DEF w, x, y, z
<1> DEFINE e1 == w % 2
           e2 == x % 2
           e3 == y % 2
           e4 == z % 2
<1>3. /\ e1 \in {0, 1} /\ e2 \in {0, 1} /\ e3 \in {0, 1} /\ e4 \in {0, 1}
      /\ \E u1 \in Int : w = 2 * u1 + e1
      /\ \E u2 \in Int : x = 2 * u2 + e2
      /\ \E u3 \in Int : y = 2 * u3 + e3
      /\ \E u4 \in Int : z = 2 * u4 + e4
  BY <1>1, Parity
<1> HIDE DEF e1, e2, e3, e4
<1>4. PICK u1 \in Int : w = 2 * u1 + e1
  BY <1>3
<1>5. PICK u2 \in Int : x = 2 * u2 + e2
  BY <1>3
<1>6. PICK u3 \in Int : y = 2 * u3 + e3
  BY <1>3
<1>7. PICK u4 \in Int : z = 2 * u4 + e4
  BY <1>3
<1>8. \A u \in Int, e \in {0, 1} : (2 * u + e) * (2 * u + e) = 4 * (u * u + u * e) + e
  OBVIOUS
<1>9. 4 * ((u1 * u1 + u1 * e1) + (u2 * u2 + u2 * e2) + (u3 * u3 + u3 * e3) + (u4 * u4 + u4 * e4)) + (e1 + e2 + e3 + e4) = 4
  BY <1>1, <1>3, <1>4, <1>5, <1>6, <1>7, <1>8
<1>10. e1 = e2 /\ e1 = e3 /\ e1 = e4
  <2> DEFINE k == (u1 * u1 + u1 * e1) + (u2 * u2 + u2 * e2) + (u3 * u3 + u3 * e3) + (u4 * u4 + u4 * e4)
  <2>1. k \in Int /\ 4 * k + (e1 + e2 + e3 + e4) = 4
    BY <1>3, <1>9
  <2> HIDE DEF k
  <2>2. QED
    BY <1>3, <2>1
<1>11. q \in Hurwitz
  BY <1>2, <1>3, <1>4, <1>5, <1>6, <1>7, <1>10, HurwitzIs
<1>12. QED
  BY <1>11 DEF Units

LEMMA UnitsAre == ASSUME NEW q \in Hurwitz, ScalarProduct(q, q) = 4 PROVE q \in Units
BY HurwitzIsHalves DEF Units, Halves

LEMMA IdentityIs ==
  /\ Identity \in Hurwitz /\ Identity \in Units
  /\ Identity.w = 2 /\ Identity.x = 0 /\ Identity.y = 0 /\ Identity.z = 0
<1>1. ASSUME NEW w \in Int, NEW x \in Int, NEW e \in {0, 1}, w = 1, x = 0, e = 0
      PROVE  Identity \in Hurwitz
  <2>1. Quat(2 * w + e, 2 * x + e, 2 * x + e, 2 * x + e) \in Hurwitz
    BY HurwitzIs
  <2>2. 2 * w + e = 2 /\ 2 * x + e = 0
    BY <1>1
  <2>3. QED
    BY <2>1, <2>2 DEF Identity
<1>2. Identity \in Hurwitz
  BY <1>1
<1>3. Identity.w = 2 /\ Identity.x = 0 /\ Identity.y = 0 /\ Identity.z = 0
  BY DEF Identity, Quat
<1>4. ScalarProduct(Identity, Identity) = 4
  BY <1>3 DEF ScalarProduct
<1>5. QED
  BY <1>2, <1>3, <1>4, UnitsAre

\* Signs.
LEMMA SignsIn ==
  ASSUME NEW q \in Hurwitz, NEW s \in {-1, 1}, NEW t \in {-1, 1}
  PROVE  Quat(s * q.w, t * q.x, t * q.y, t * q.z) \in Hurwitz
<1>1. PICK w \in Int, x \in Int, y \in Int, z \in Int, e \in {0, 1} :
        q.w = 2 * w + e /\ q.x = 2 * x + e /\ q.y = 2 * y + e /\ q.z = 2 * z + e
  BY HurwitzHas
<1>2. \A n \in Int, u \in {-1, 1} : \E m \in Int : u * (2 * n + e) = 2 * m + e
  <2>1. ASSUME NEW n \in Int PROVE 1 * (2 * n + e) = 2 * n + e
    OBVIOUS
  <2>2. ASSUME NEW n \in Int PROVE -n - e \in Int /\ (-1) * (2 * n + e) = 2 * (-n - e) + e
    OBVIOUS
  <2>3. SUFFICES ASSUME NEW n \in Int, NEW u \in {-1, 1} PROVE \E m \in Int : u * (2 * n + e) = 2 * m + e
    OBVIOUS
  <2>4. CASE u = 1
    <3>1. u * (2 * n + e) = 2 * n + e
      BY <2>1, <2>4
    <3>2. QED
      BY <3>1
  <2>5. CASE u = -1
    <3>1. -n - e \in Int /\ u * (2 * n + e) = 2 * (-n - e) + e
      BY <2>2, <2>5
    <3>2. WITNESS -n - e \in Int
    <3>3. QED
      BY <3>1
  <2>6. QED
    BY <2>4, <2>5
<1>3. PICK w1 \in Int : s * (2 * w + e) = 2 * w1 + e
  BY <1>2
<1>4. PICK x1 \in Int : t * (2 * x + e) = 2 * x1 + e
  BY <1>2
<1>5. PICK y1 \in Int : t * (2 * y + e) = 2 * y1 + e
  BY <1>2
<1>6. PICK z1 \in Int : t * (2 * z + e) = 2 * z1 + e
  BY <1>2
<1>7. QED
  BY <1>1, <1>3, <1>4, <1>5, <1>6, HurwitzIs

LEMMA InvertIs ==
  ASSUME NEW q \in Hurwitz
  PROVE  /\ Invert(q) \in Hurwitz /\ Invert(Invert(q)) = q
         /\ Invert(q).w = q.w /\ Invert(q).x = -q.x /\ Invert(q).y = -q.y /\ Invert(q).z = -q.z
         /\ ScalarProduct(Invert(q), Invert(q)) = ScalarProduct(q, q)
<1>1. q \in Halves /\ q.w \in Int /\ q.x \in Int /\ q.y \in Int /\ q.z \in Int
  BY HurwitzFields
<1>2. Invert(q) \in Hurwitz
  <2>1. Quat(1 * q.w, (-1) * q.x, (-1) * q.y, (-1) * q.z) \in Hurwitz
    BY SignsIn
  <2>2. 1 * q.w = q.w /\ (-1) * q.x = -q.x /\ (-1) * q.y = -q.y /\ (-1) * q.z = -q.z
    BY <1>1
  <2>3. QED
    BY <2>1, <2>2 DEF Invert
<1>3. Invert(q).w = q.w /\ Invert(q).x = -q.x /\ Invert(q).y = -q.y /\ Invert(q).z = -q.z
  BY DEF Invert, Quat
<1>4. Invert(Invert(q)) = q
  <2>1. Invert(Invert(q)) = Quat(q.w, -(-q.x), -(-q.y), -(-q.z))
    BY <1>3 DEF Invert
  <2>2. -(-q.x) = q.x /\ -(-q.y) = q.y /\ -(-q.z) = q.z
    BY <1>1
  <2>3. q = Quat(q.w, q.x, q.y, q.z)
    BY <1>1 DEF Quat, Halves
  <2>4. QED
    BY <2>1, <2>2, <2>3
<1>5. ScalarProduct(Invert(q), Invert(q)) = ScalarProduct(q, q)
  <2>1. \A n \in Int : (-n) * (-n) = n * n
    OBVIOUS
  <2>2. QED
    BY <1>1, <1>3, <2>1 DEF ScalarProduct
<1>6. QED
  BY <1>2, <1>3, <1>4, <1>5

LEMMA OppositeIs ==
  ASSUME NEW q \in Hurwitz
  PROVE  /\ Opposite(q) \in Hurwitz
         /\ Opposite(q).w = -q.w /\ Opposite(q).x = -q.x /\ Opposite(q).y = -q.y /\ Opposite(q).z = -q.z
<1>1. q.w \in Int /\ q.x \in Int /\ q.y \in Int /\ q.z \in Int
  BY HurwitzFields
<1>2. Quat((-1) * q.w, (-1) * q.x, (-1) * q.y, (-1) * q.z) \in Hurwitz
  BY SignsIn
<1>3. (-1) * q.w = -q.w /\ (-1) * q.x = -q.x /\ (-1) * q.y = -q.y /\ (-1) * q.z = -q.z
  BY <1>1
<1>4. QED
  BY <1>2, <1>3 DEF Opposite, Quat

LEMMA TimesIdentity ==
  ASSUME NEW q \in Hurwitz PROVE Times(Identity, q) = q /\ Times(q, Identity) = q
<1>1. q.w \in Int /\ q.x \in Int /\ q.y \in Int /\ q.z \in Int
  BY HurwitzFields
<1> DEFINE a == Times(Identity, q)
           b == Times(q, Identity)
<1>2. a \in Hurwitz /\ 2 * a.w = 2 * q.w /\ 2 * a.x = 2 * q.x /\ 2 * a.y = 2 * q.y /\ 2 * a.z = 2 * q.z
  BY <1>1, IdentityIs, TimesIs
<1>3. b \in Hurwitz /\ 2 * b.w = 2 * q.w /\ 2 * b.x = 2 * q.x /\ 2 * b.y = 2 * q.y /\ 2 * b.z = 2 * q.z
  BY <1>1, IdentityIs, TimesIs
<1> HIDE DEF a, b
<1>4. a = q /\ b = q
  BY <1>2, <1>3, SameDouble
<1>5. QED
  BY <1>4 DEF a, b

\* A quaternion times its inverse.
LEMMA TimesInverse ==
  ASSUME NEW q \in Hurwitz
  PROVE  /\ 2 * Times(q, Invert(q)).w = ScalarProduct(q, q)
         /\ Times(q, Invert(q)).x = 0 /\ Times(q, Invert(q)).y = 0 /\ Times(q, Invert(q)).z = 0
<1> DEFINE i == Invert(q)
           p == Times(q, i)
           q1 == q.w
           q2 == q.x
           q3 == q.y
           q4 == q.z
           i1 == i.w
           i2 == i.x
           i3 == i.y
           i4 == i.z
           p1 == p.w
           p2 == p.x
           p3 == p.y
           p4 == p.z
<1>1. i \in Hurwitz /\ i1 = q1 /\ i2 = -q2 /\ i3 = -q3 /\ i4 = -q4
  BY InvertIs
<1> HIDE DEF i
<1>2. p \in Hurwitz
      /\ 2 * p1 = q1 * i1 - q2 * i2 - q3 * i3 - q4 * i4
      /\ 2 * p2 = q1 * i2 + q2 * i1 + q3 * i4 - q4 * i3
      /\ 2 * p3 = q1 * i3 - q2 * i4 + q3 * i1 + q4 * i2
      /\ 2 * p4 = q1 * i4 + q2 * i3 - q3 * i2 + q4 * i1
  BY <1>1, TimesIs
<1> HIDE DEF p
<1>3. /\ q1 \in Int /\ q2 \in Int /\ q3 \in Int /\ q4 \in Int
      /\ i1 \in Int /\ i2 \in Int /\ i3 \in Int /\ i4 \in Int
      /\ p1 \in Int /\ p2 \in Int /\ p3 \in Int /\ p4 \in Int
  BY <1>1, <1>2, HurwitzFields
<1>4. ScalarProduct(q, q) = q1 * q1 + q2 * q2 + q3 * q3 + q4 * q4
  BY DEF ScalarProduct
<1> HIDE DEF q1, q2, q3, q4, i1, i2, i3, i4, p1, p2, p3, p4
<1>5. 2 * p1 = q1 * q1 + q2 * q2 + q3 * q3 + q4 * q4
  BY <1>1, <1>2, <1>3
<1>6. p2 = 0
  BY <1>1, <1>2, <1>3
<1>7. p3 = 0
  BY <1>1, <1>2, <1>3
<1>8. p4 = 0
  BY <1>1, <1>2, <1>3
<1>9. QED
  BY <1>4, <1>5, <1>6, <1>7, <1>8 DEF p, p1, p2, p3, p4, i

LEMMA UnitTimesInverse ==
  ASSUME NEW q \in Units PROVE Times(q, Invert(q)) = Identity /\ Times(Invert(q), q) = Identity
<1>1. ASSUME NEW a \in Hurwitz, ScalarProduct(a, a) = 4 PROVE Times(a, Invert(a)) = Identity
  <2> DEFINE p == Times(a, Invert(a))
  <2>1. p \in Hurwitz
    BY InvertIs, TimesIs
  <2>2. 2 * p.w = 4 /\ p.x = 0 /\ p.y = 0 /\ p.z = 0
    BY <1>1, TimesInverse
  <2> HIDE DEF p
  <2>3. p.w = 2 /\ p \in Halves
    BY <2>1, <2>2, HurwitzFields
  <2>4. p = Identity
    BY <2>2, <2>3, IdentityIs, HurwitzFields, SameQuat
  <2>5. QED
    BY <2>4 DEF p
<1>2. q \in Hurwitz /\ ScalarProduct(q, q) = 4 /\ Invert(q) \in Hurwitz
  BY UnitsAreHurwitz, InvertIs
<1>3. Invert(Invert(q)) = q /\ ScalarProduct(Invert(q), Invert(q)) = 4
  BY <1>2, InvertIs
<1>4. QED
  BY <1>1, <1>2, <1>3

\* The inverse of a product.
LEMMA InvertTimes ==
  ASSUME NEW a \in Hurwitz, NEW b \in Hurwitz PROVE Invert(Times(a, b)) = Times(Invert(b), Invert(a))
<1> DEFINE c == Invert(a)
           d == Invert(b)
           t == Times(a, b)
           l == Invert(t)
           r == Times(d, c)
           a1 == a.w
           a2 == a.x
           a3 == a.y
           a4 == a.z
           b1 == b.w
           b2 == b.x
           b3 == b.y
           b4 == b.z
           c1 == c.w
           c2 == c.x
           c3 == c.y
           c4 == c.z
           d1 == d.w
           d2 == d.x
           d3 == d.y
           d4 == d.z
           t1 == t.w
           t2 == t.x
           t3 == t.y
           t4 == t.z
           l1 == l.w
           l2 == l.x
           l3 == l.y
           l4 == l.z
           r1 == r.w
           r2 == r.x
           r3 == r.y
           r4 == r.z
<1>1. c \in Hurwitz /\ c1 = a1 /\ c2 = -a2 /\ c3 = -a3 /\ c4 = -a4
  BY InvertIs
<1>2. d \in Hurwitz /\ d1 = b1 /\ d2 = -b2 /\ d3 = -b3 /\ d4 = -b4
  BY InvertIs
<1> HIDE DEF c, d
<1>3. t \in Hurwitz
      /\ 2 * t1 = a1 * b1 - a2 * b2 - a3 * b3 - a4 * b4
      /\ 2 * t2 = a1 * b2 + a2 * b1 + a3 * b4 - a4 * b3
      /\ 2 * t3 = a1 * b3 - a2 * b4 + a3 * b1 + a4 * b2
      /\ 2 * t4 = a1 * b4 + a2 * b3 - a3 * b2 + a4 * b1
  BY TimesIs
<1> HIDE DEF t
<1>4. l \in Hurwitz /\ l1 = t1 /\ l2 = -t2 /\ l3 = -t3 /\ l4 = -t4
  BY <1>3, InvertIs
<1>5. r \in Hurwitz
      /\ 2 * r1 = d1 * c1 - d2 * c2 - d3 * c3 - d4 * c4
      /\ 2 * r2 = d1 * c2 + d2 * c1 + d3 * c4 - d4 * c3
      /\ 2 * r3 = d1 * c3 - d2 * c4 + d3 * c1 + d4 * c2
      /\ 2 * r4 = d1 * c4 + d2 * c3 - d3 * c2 + d4 * c1
  BY <1>1, <1>2, TimesIs
<1> HIDE DEF l, r
<1>6. /\ a1 \in Int /\ a2 \in Int /\ a3 \in Int /\ a4 \in Int
      /\ b1 \in Int /\ b2 \in Int /\ b3 \in Int /\ b4 \in Int
      /\ c1 \in Int /\ c2 \in Int /\ c3 \in Int /\ c4 \in Int
      /\ d1 \in Int /\ d2 \in Int /\ d3 \in Int /\ d4 \in Int
      /\ t1 \in Int /\ t2 \in Int /\ t3 \in Int /\ t4 \in Int
      /\ l1 \in Int /\ l2 \in Int /\ l3 \in Int /\ l4 \in Int
      /\ r1 \in Int /\ r2 \in Int /\ r3 \in Int /\ r4 \in Int
  BY <1>1, <1>2, <1>3, <1>4, <1>5, HurwitzFields
<1> HIDE DEF a1, a2, a3, a4, b1, b2, b3, b4, c1, c2, c3, c4, d1, d2, d3, d4,
            t1, t2, t3, t4, l1, l2, l3, l4, r1, r2, r3, r4
<1>7. 2 * l1 = 2 * r1
  BY <1>1, <1>2, <1>3, <1>4, <1>5, <1>6
<1>8. 2 * l2 = 2 * r2
  BY <1>1, <1>2, <1>3, <1>4, <1>5, <1>6
<1>9. 2 * l3 = 2 * r3
  BY <1>1, <1>2, <1>3, <1>4, <1>5, <1>6
<1>10. 2 * l4 = 2 * r4
  BY <1>1, <1>2, <1>3, <1>4, <1>5, <1>6
<1>11. l = r
  BY <1>4, <1>5, <1>7, <1>8, <1>9, <1>10, SameDouble DEF l1, l2, l3, l4, r1, r2, r3, r4
<1>12. QED
  BY <1>11 DEF l, r, c, d, t

LEMMA UnitTimes == ASSUME NEW a \in Units, NEW b \in Units PROVE Times(a, b) \in Units
<1> DEFINE i == Invert(a)
           j == Invert(b)
           t == Times(a, b)
<1>1. a \in Hurwitz /\ b \in Hurwitz /\ i \in Hurwitz /\ j \in Hurwitz /\ t \in Hurwitz
  BY UnitsAreHurwitz, InvertIs, TimesIs
<1>2. Times(t, Invert(t)) = Times(t, Times(j, i))
  BY <1>1, InvertTimes
<1>3. Times(t, Times(j, i)) = Times(a, Times(b, Times(j, i)))
  BY <1>1, TimesIs, TimesIsAssociative
<1>4. Times(b, Times(j, i)) = Times(Times(b, j), i)
  BY <1>1, TimesIsAssociative
<1>5. Times(Times(b, j), i) = i
  BY <1>1, UnitTimesInverse, TimesIdentity
<1>6. Times(a, i) = Identity
  BY UnitTimesInverse
<1>7. Times(t, Invert(t)) = Identity
  BY <1>2, <1>3, <1>4, <1>5, <1>6
<1>8. ScalarProduct(t, t) = 4
  BY <1>1, <1>7, TimesInverse, IdentityIs
<1>9. QED
  BY <1>1, <1>8, UnitsAre

-----------------------------------------------------------------------------
(* Conjugation.                                                            *)

Conj(q, v) == Times(Times(q, v), Invert(q))

\* What it does to the parts of a quaternion: the matrix of the rotation.
LEMMA ConjIs ==
  ASSUME NEW q \in Units, NEW v \in Hurwitz
  PROVE  /\ Conj(q, v) \in Hurwitz
         /\ Conj(q, v).w = v.w
         /\ 4 * Conj(q, v).x = (q.w * q.w + q.x * q.x - q.y * q.y - q.z * q.z) * v.x
                                 + 2 * (q.x * q.y - q.w * q.z) * v.y + 2 * (q.x * q.z + q.w * q.y) * v.z
         /\ 4 * Conj(q, v).y = 2 * (q.x * q.y + q.w * q.z) * v.x
                                 + (q.w * q.w - q.x * q.x + q.y * q.y - q.z * q.z) * v.y
                                 + 2 * (q.y * q.z - q.w * q.x) * v.z
         /\ 4 * Conj(q, v).z = 2 * (q.x * q.z - q.w * q.y) * v.x + 2 * (q.y * q.z + q.w * q.x) * v.y
                                 + (q.w * q.w - q.x * q.x - q.y * q.y + q.z * q.z) * v.z
<1> DEFINE i == Invert(q)
           t == Times(q, v)
           c == Times(t, i)
           q1 == q.w
           q2 == q.x
           q3 == q.y
           q4 == q.z
           i1 == i.w
           i2 == i.x
           i3 == i.y
           i4 == i.z
           t1 == t.w
           t2 == t.x
           t3 == t.y
           t4 == t.z
           v1 == v.w
           v2 == v.x
           v3 == v.y
           v4 == v.z
           c1 == c.w
           c2 == c.x
           c3 == c.y
           c4 == c.z
           d1 == 2 * t1
           d2 == 2 * t2
           d3 == 2 * t3
           d4 == 2 * t4
<1>1. q \in Hurwitz /\ ScalarProduct(q, q) = 4
  BY UnitsAreHurwitz
<1>2. i \in Hurwitz /\ i1 = q1 /\ i2 = -q2 /\ i3 = -q3 /\ i4 = -q4
  BY <1>1, InvertIs
<1> HIDE DEF i
<1>3. t \in Hurwitz
      /\ 2 * t1 = q1 * v1 - q2 * v2 - q3 * v3 - q4 * v4
      /\ 2 * t2 = q1 * v2 + q2 * v1 + q3 * v4 - q4 * v3
      /\ 2 * t3 = q1 * v3 - q2 * v4 + q3 * v1 + q4 * v2
      /\ 2 * t4 = q1 * v4 + q2 * v3 - q3 * v2 + q4 * v1
  BY <1>1, TimesIs
<1> HIDE DEF t
<1>4. c \in Hurwitz
      /\ 2 * c1 = t1 * i1 - t2 * i2 - t3 * i3 - t4 * i4
      /\ 2 * c2 = t1 * i2 + t2 * i1 + t3 * i4 - t4 * i3
      /\ 2 * c3 = t1 * i3 - t2 * i4 + t3 * i1 + t4 * i2
      /\ 2 * c4 = t1 * i4 + t2 * i3 - t3 * i2 + t4 * i1
  BY <1>2, <1>3, TimesIs
<1> HIDE DEF c
<1>5. /\ q1 \in Int /\ q2 \in Int /\ q3 \in Int /\ q4 \in Int
      /\ i1 \in Int /\ i2 \in Int /\ i3 \in Int /\ i4 \in Int
      /\ t1 \in Int /\ t2 \in Int /\ t3 \in Int /\ t4 \in Int
      /\ v1 \in Int /\ v2 \in Int /\ v3 \in Int /\ v4 \in Int
      /\ c1 \in Int /\ c2 \in Int /\ c3 \in Int /\ c4 \in Int
  BY <1>1, <1>2, <1>3, <1>4, HurwitzFields
<1>6. q1 * q1 + q2 * q2 + q3 * q3 + q4 * q4 = 4
  BY <1>1 DEF ScalarProduct
<1> HIDE DEF q1, q2, q3, q4, i1, i2, i3, i4, t1, t2, t3, t4, v1, v2, v3, v4, c1, c2, c3, c4
<1>7. /\ d1 \in Int /\ d2 \in Int /\ d3 \in Int /\ d4 \in Int
      /\ d1 = q1 * v1 - q2 * v2 - q3 * v3 - q4 * v4
      /\ d2 = q1 * v2 + q2 * v1 + q3 * v4 - q4 * v3
      /\ d3 = q1 * v3 - q2 * v4 + q3 * v1 + q4 * v2
      /\ d4 = q1 * v4 + q2 * v3 - q3 * v2 + q4 * v1
  BY <1>3, <1>5
<1>8. /\ 4 * c1 = d1 * q1 + d2 * q2 + d3 * q3 + d4 * q4
      /\ 4 * c2 = -d1 * q2 + d2 * q1 - d3 * q4 + d4 * q3
      /\ 4 * c3 = -d1 * q3 + d2 * q4 + d3 * q1 - d4 * q2
      /\ 4 * c4 = -d1 * q4 - d2 * q3 + d3 * q2 + d4 * q1
  <2>1. /\ 2 * c1 = t1 * q1 + t2 * q2 + t3 * q3 + t4 * q4
        /\ 2 * c2 = -t1 * q2 + t2 * q1 - t3 * q4 + t4 * q3
        /\ 2 * c3 = -t1 * q3 + t2 * q4 + t3 * q1 - t4 * q2
        /\ 2 * c4 = -t1 * q4 - t2 * q3 + t3 * q2 + t4 * q1
    BY <1>2, <1>4, <1>5
  <2>2. QED
    BY <1>5, <2>1
<1> HIDE DEF d1, d2, d3, d4
<1>9. c1 = v1
  <2>1. 4 * c1 = (q1 * q1 + q2 * q2 + q3 * q3 + q4 * q4) * v1
    BY <1>5, <1>7, <1>8
  <2>2. 4 * c1 = 4 * v1
    BY <1>6, <2>1
  <2>3. QED
    BY <1>5, <2>2
<1>10. 4 * c2 = (q1 * q1 + q2 * q2 - q3 * q3 - q4 * q4) * v2 + 2 * (q2 * q3 - q1 * q4) * v3 + 2 * (q2 * q4 + q1 * q3) * v4
  BY <1>5, <1>7, <1>8
<1>11. 4 * c3 = 2 * (q2 * q3 + q1 * q4) * v2 + (q1 * q1 - q2 * q2 + q3 * q3 - q4 * q4) * v3 + 2 * (q3 * q4 - q1 * q2) * v4
  BY <1>5, <1>7, <1>8
<1>12. 4 * c4 = 2 * (q2 * q4 - q1 * q3) * v2 + 2 * (q3 * q4 + q1 * q2) * v3 + (q1 * q1 - q2 * q2 - q3 * q3 + q4 * q4) * v4
  BY <1>5, <1>7, <1>8
<1>13. QED
  BY <1>4, <1>9, <1>10, <1>11, <1>12 DEF Conj, c, t, i, q1, q2, q3, q4, v1, v2, v3, v4, c1, c2, c3, c4

-----------------------------------------------------------------------------
(* Positions.                                                              *)

LEMMA VectorIs ==
  ASSUME NEW x \in Int, NEW y \in Int, NEW z \in Int
  PROVE  LET v == Cartesian(x, y, z)
         IN  v \in Vectors /\ v \in Places /\ ~v.polar /\ v.pos[1] = x /\ v.pos[2] = y /\ v.pos[3] = z
BY DEF Cartesian, Vectors, Places, Positions

LEMMA VectorHas ==
  ASSUME NEW v \in Vectors
  PROVE  /\ v \in Places /\ ~v.polar /\ v.pos[1] \in Int /\ v.pos[2] \in Int /\ v.pos[3] \in Int
         /\ v = Cartesian(v.pos[1], v.pos[2], v.pos[3])
         /\ Cart(v) = v
BY DEF Cartesian, Vectors, Places, Positions, Cart

LEMMA SameVector ==
  ASSUME NEW u \in Vectors, NEW v \in Vectors, u.pos[1] = v.pos[1], u.pos[2] = v.pos[2], u.pos[3] = v.pos[3]
  PROVE  u = v
BY VectorHas, Zenon

LEMMA PositionHas ==
  ASSUME NEW p \in Positions
  PROVE  /\ p.polar \in BOOLEAN /\ p.pos[1] \in Int /\ p.pos[2] \in Int /\ p.pos[3] \in Int
         /\ ~p.polar => p \in Vectors
         /\ p.polar => p = PolarAt(p.pos[1], p.pos[2], p.pos[3])
BY DEF PolarAt, Vectors, Places, Positions

LEMMA PlaceHas ==
  ASSUME NEW p \in Places
  PROVE  /\ p \in Positions /\ p.polar \in BOOLEAN /\ p.pos[1] \in Int /\ p.pos[2] \in Int /\ p.pos[3] \in Int
         /\ ~p.polar => p \in Vectors
         /\ p.polar => p = PolarAt(p.pos[1], p.pos[2], p.pos[3]) /\ p.pos[3] >= 0
BY PositionHas DEF Places

LEMMA PolarIs ==
  ASSUME NEW az \in Int, NEW el \in Int, NEW d \in Int
  PROVE  LET p == PolarAt(az, el, d)
         IN  p \in Positions /\ p.polar /\ p.pos[1] = az /\ p.pos[2] = el /\ p.pos[3] = d /\ (d >= 0 => p \in Places)
BY DEF PolarAt, Places, Positions

\* The sine and the cosine of a multiple of a quarter turn.
LEMMA SineIs ==
  ASSUME NEW a \in Int
  PROVE  /\ Sin(a) \in -1 .. 1 /\ Cos(a) \in -1 .. 1 /\ Sin(a) * Sin(a) + Cos(a) * Cos(a) = 1
         /\ Sin(a) = 0 \/ Cos(a) = 0
         /\ Sin(-a) = -Sin(a) /\ Cos(-a) = Cos(a)
         /\ Sin(a + 2) = -Sin(a) /\ Cos(a + 2) = -Cos(a)
         /\ Sin(a - 2) = -Sin(a) /\ Cos(a - 2) = -Cos(a)
         /\ Sin(a % 4) = Sin(a) /\ Cos(a % 4) = Cos(a)
<1>1. \A n \in Int : Sin(n) = IF n % 4 = 1 THEN 1 ELSE IF n % 4 = 3 THEN -1 ELSE 0
  BY DEF Sin
<1>2. \A n \in Int : Cos(n) = IF n % 4 = 0 THEN 1 ELSE IF n % 4 = 2 THEN -1 ELSE 0
  <2>1. \A n \in Int : n + 1 \in Int /\ ((n + 1) % 4 = 1 <=> n % 4 = 0) /\ ((n + 1) % 4 = 3 <=> n % 4 = 2)
    OBVIOUS
  <2>2. QED
    BY <1>1, <2>1 DEF Cos
<1> DEFINE r == a % 4
<1>3. /\ r \in 0 .. 3
      /\ -a \in Int /\ a + 2 \in Int /\ a - 2 \in Int /\ r \in Int
      /\ r % 4 = r
  OBVIOUS
<1>4. (-a) % 4 = IF r = 0 THEN 0 ELSE 4 - r
  OBVIOUS
<1>5. (a + 2) % 4 = (IF r < 2 THEN r + 2 ELSE r - 2) /\ (a - 2) % 4 = (IF r < 2 THEN r + 2 ELSE r - 2)
  OBVIOUS
<1>6. /\ Sin(a) = (IF r = 1 THEN 1 ELSE IF r = 3 THEN -1 ELSE 0)
      /\ Cos(a) = (IF r = 0 THEN 1 ELSE IF r = 2 THEN -1 ELSE 0)
  BY <1>1, <1>2
<1> HIDE DEF r
<1>7. /\ Sin(-a) = -Sin(a) /\ Cos(-a) = Cos(a)
  BY <1>1, <1>2, <1>3, <1>4, <1>6
<1>8. /\ Sin(a + 2) = -Sin(a) /\ Cos(a + 2) = -Cos(a)
      /\ Sin(a - 2) = -Sin(a) /\ Cos(a - 2) = -Cos(a)
  BY <1>1, <1>2, <1>3, <1>5, <1>6
<1>9. Sin(r) = Sin(a) /\ Cos(r) = Cos(a)
  BY <1>1, <1>2, <1>3, <1>6
<1>10. Sin(a) \in -1 .. 1 /\ Cos(a) \in -1 .. 1 /\ Sin(a) * Sin(a) + Cos(a) * Cos(a) = 1 /\ (Sin(a) = 0 \/ Cos(a) = 0)
  BY <1>3, <1>6
<1>11. QED
  BY <1>7, <1>8, <1>9, <1>10 DEF r

LEMMA CartOf ==
  ASSUME NEW p \in Positions
  PROVE  /\ Cart(p) \in Vectors /\ Cart(Cart(p)) = Cart(p)
         /\ p.polar => /\ Cart(p).pos[1] = -p.pos[3] * Sin(p.pos[1]) * Cos(p.pos[2])
                       /\ Cart(p).pos[2] = p.pos[3] * Cos(p.pos[1]) * Cos(p.pos[2])
                       /\ Cart(p).pos[3] = p.pos[3] * Sin(p.pos[2])
<1>1. CASE ~p.polar
  BY <1>1, PositionHas, VectorHas
<1>2. CASE p.polar
  <2> DEFINE d == p.pos[3]
             x == -d * Sin(p.pos[1]) * Cos(p.pos[2])
             y == d * Cos(p.pos[1]) * Cos(p.pos[2])
             z == d * Sin(p.pos[2])
  <2>1. x \in Int /\ y \in Int /\ z \in Int
    <3>1. /\ d \in Int /\ Sin(p.pos[1]) \in Int /\ Cos(p.pos[1]) \in Int
          /\ Sin(p.pos[2]) \in Int /\ Cos(p.pos[2]) \in Int
      BY PositionHas, SineIs
    <3> HIDE DEF d
    <3>2. QED
      BY <3>1
  <2>2. Cart(p) = Cartesian(x, y, z)
    BY <1>2 DEF Cart
  <2> HIDE DEF x, y, z
  <2>3. Cart(p) \in Vectors /\ Cart(p).pos[1] = x /\ Cart(p).pos[2] = y /\ Cart(p).pos[3] = z
    BY <2>1, <2>2, VectorIs
  <2>4. QED
    BY <2>3, VectorHas DEF x, y, z
<1>3. QED
  BY <1>1, <1>2, PositionHas

LEMMA CartIs ==
  ASSUME NEW p \in Places
  PROVE  /\ Cart(p) \in Vectors /\ Cart(Cart(p)) = Cart(p)
         /\ p.polar => /\ Cart(p).pos[1] = -p.pos[3] * Sin(p.pos[1]) * Cos(p.pos[2])
                       /\ Cart(p).pos[2] = p.pos[3] * Cos(p.pos[1]) * Cos(p.pos[2])
                       /\ Cart(p).pos[3] = p.pos[3] * Sin(p.pos[2])
BY PlaceHas, CartOf

LEMMA QuotientIs == ASSUME NEW k \in Int, NEW b \in Int, b # 0 PROVE Quotient(k * b, b) = k /\ Quotient(k, b) \in Int
<1>1. ASSUME NEW n \in Int PROVE Abs(n) \in Nat /\ Sign(n) \in {-1, 0, 1} /\ Sign(n) * Abs(n) = n
  BY DEF Abs, Sign
<1>2. Abs(b) \in Nat \ {0} /\ Sign(b) * Sign(b) = 1
  BY DEF Abs, Sign
<1>3. Abs(k * b) = Abs(k) * Abs(b) /\ Sign(k * b) = Sign(k) * Sign(b)
  <2>1. CASE k = 0
    BY <2>1 DEF Abs, Sign
  <2>2. CASE k > 0 /\ b > 0
    <3>1. k * b > 0
      BY <2>2
    <3>2. QED
      BY <2>2, <3>1 DEF Abs, Sign
  <2>3. CASE k > 0 /\ b < 0
    <3>1. k * b < 0
      BY <2>3
    <3>2. QED
      BY <2>3, <3>1 DEF Abs, Sign
  <2>4. CASE k < 0 /\ b > 0
    <3>1. k * b < 0
      BY <2>4
    <3>2. QED
      BY <2>4, <3>1 DEF Abs, Sign
  <2>5. CASE k < 0 /\ b < 0
    <3>1. k * b > 0
      BY <2>5
    <3>2. QED
      BY <2>5, <3>1 DEF Abs, Sign
  <2>6. QED
    BY <2>1, <2>2, <2>3, <2>4, <2>5
<1>4. \A m \in Nat, n \in Nat \ {0} : (m * n) \div n = m /\ m \div n \in Nat
  OBVIOUS
<1> DEFINE s == Sign(k)
           t == Sign(b)
           m == Abs(k)
<1>5. Quotient(k * b, b) = (s * t) * t * m
  BY <1>1, <1>2, <1>3, <1>4 DEF Quotient
<1>6. s \in Int /\ t \in Int /\ m \in Int /\ s * m = k /\ t * t = 1
  BY <1>1, <1>2
<1>7. Quotient(k, b) \in Int
  <2>1. m \div Abs(b) \in Int
    BY <1>1, <1>2, <1>4
  <2> DEFINE r == m \div Abs(b)
  <2> HIDE DEF r
  <2>2. Quotient(k, b) = s * t * r
    BY DEF Quotient, r
  <2> HIDE DEF s, t, m
  <2>3. QED
    BY <1>6, <2>1, <2>2 DEF r
<1> HIDE DEF s, t, m
<1>8. (s * t) * t * m = (s * m) * (t * t)
  BY <1>6
<1>9. QED
  BY <1>5, <1>6, <1>7, <1>8

LEMMA OfPositionIs ==
  ASSUME NEW p \in Places
  PROVE  /\ OfPosition(p) \in Hurwitz /\ OfPosition(p) = OfPosition(Cart(p))
         /\ OfPosition(p).w = 0 /\ OfPosition(p).x = 2 * Cart(p).pos[1]
         /\ OfPosition(p).y = 2 * Cart(p).pos[2] /\ OfPosition(p).z = 2 * Cart(p).pos[3]
<1>1. Cart(p).pos[1] \in Int /\ Cart(p).pos[2] \in Int /\ Cart(p).pos[3] \in Int /\ Cart(Cart(p)) = Cart(p)
  BY CartIs, VectorHas
<1>2. ASSUME NEW x \in Int, NEW y \in Int, NEW z \in Int, NEW w \in Int, NEW e \in {0, 1}, w = 0, e = 0
      PROVE  Quat(0, 2 * x, 2 * y, 2 * z) \in Hurwitz
  <2>1. Quat(2 * w + e, 2 * x + e, 2 * y + e, 2 * z + e) \in Hurwitz
    BY HurwitzIs
  <2>2. 2 * w + e = 0 /\ 2 * x + e = 2 * x /\ 2 * y + e = 2 * y /\ 2 * z + e = 2 * z
    BY <1>2
  <2>3. QED
    BY <2>1, <2>2
<1>3. OfPosition(p) \in Hurwitz
  BY <1>1, <1>2 DEF OfPosition
<1>4. QED
  BY <1>1, <1>3 DEF OfPosition, Quat

\* Two vectors with the same quaternion are the same.
LEMMA SameOfPosition ==
  ASSUME NEW u \in Vectors, NEW v \in Vectors, OfPosition(u) = OfPosition(v) PROVE u = v
<1>1. /\ Cart(u) = u /\ u.pos[1] \in Int /\ u.pos[2] \in Int /\ u.pos[3] \in Int /\ u \in Places
      /\ Cart(v) = v /\ v.pos[1] \in Int /\ v.pos[2] \in Int /\ v.pos[3] \in Int /\ v \in Places
  BY VectorHas
<1>2. 2 * u.pos[1] = 2 * v.pos[1] /\ 2 * u.pos[2] = 2 * v.pos[2] /\ 2 * u.pos[3] = 2 * v.pos[3]
  BY <1>1, OfPositionIs
<1>3. u.pos[1] = v.pos[1] /\ u.pos[2] = v.pos[2] /\ u.pos[3] = v.pos[3]
  BY <1>1, <1>2
<1>4. QED
  BY <1>3, SameVector

\* A rotated position is a vector: conjugation keeps quaternions without a
\* real part, whose halves are even then.
LEMMA RotatedIs ==
  ASSUME NEW p \in Places, NEW q \in Units
  PROVE  /\ Rotated(p, q) \in Vectors /\ Rotated(p, q) = Rotated(Cart(p), q)
         /\ OfPosition(Rotated(p, q)) = Conj(q, OfPosition(p))
<1> DEFINE v == OfPosition(p)
           c == Conj(q, v)
<1>1. v \in Hurwitz /\ v.w = 0 /\ OfPosition(Cart(p)) = v
  BY OfPositionIs
<1> HIDE DEF v
<1>2. c \in Hurwitz /\ c.w = 0
  BY <1>1, ConjIs
<1>3. Rotated(p, q) = Axis(c) /\ Rotated(Cart(p), q) = Axis(c)
  BY <1>1 DEF Rotated, Conj, v
<1> HIDE DEF c
<1>4. PICK w \in Int, x \in Int, y \in Int, z \in Int, e \in {0, 1} :
        c.w = 2 * w + e /\ c.x = 2 * x + e /\ c.y = 2 * y + e /\ c.z = 2 * z + e
  BY <1>2, HurwitzHas
<1>5. c.x = x * 2 /\ c.y = y * 2 /\ c.z = z * 2
  BY <1>2, <1>4
<1>6. Axis(c) = Cartesian(x, y, z)
  <2>1. Quotient(x * 2, 2) = x /\ Quotient(y * 2, 2) = y /\ Quotient(z * 2, 2) = z
    BY QuotientIs
  <2>2. QED
    BY <1>5, <2>1 DEF Axis
<1> DEFINE r == Cartesian(x, y, z)
<1>7. r \in Vectors /\ r.pos[1] = x /\ r.pos[2] = y /\ r.pos[3] = z
  BY VectorIs
<1> HIDE DEF r
<1>8. OfPosition(r) = c
  <2>1. OfPosition(r) = Quat(0, 2 * x, 2 * y, 2 * z)
    BY <1>7, VectorHas DEF OfPosition
  <2>2. 2 * x = c.x /\ 2 * y = c.y /\ 2 * z = c.z
    BY <1>5
  <2>3. c = Quat(c.w, c.x, c.y, c.z)
    BY <1>2, HurwitzFields DEF Halves, Quat
  <2>4. QED
    BY <1>2, <2>1, <2>2, <2>3
<1>9. QED
  BY <1>3, <1>6, <1>7, <1>8 DEF r, c, v

\* Conjugating twice is conjugating by the product.
LEMMA ConjOfConj ==
  ASSUME NEW a \in Units, NEW b \in Units, NEW v \in Hurwitz
  PROVE  Conj(a, Conj(b, v)) = Conj(Times(a, b), v)
<1> DEFINE i == Invert(a)
           j == Invert(b)
           t == Times(b, v)
<1>1. a \in Hurwitz /\ b \in Hurwitz /\ i \in Hurwitz /\ j \in Hurwitz /\ t \in Hurwitz
  BY UnitsAreHurwitz, InvertIs, TimesIs
<1>2. Times(a, t) \in Hurwitz /\ Times(j, i) = Invert(Times(a, b)) /\ Times(t, j) = Conj(b, v)
  BY <1>1, TimesIs, InvertTimes DEF Conj
<1>3. Times(a, t) = Times(Times(a, b), v)
  BY <1>1, TimesIsAssociative
<1> HIDE DEF i, j, t
<1>4. Times(a, Times(t, j)) = Times(Times(a, t), j)
  BY <1>1, TimesIsAssociative
<1>5. Times(Times(Times(a, t), j), i) = Times(Times(a, t), Times(j, i))
  BY <1>1, <1>2, TimesIsAssociative
<1>6. Conj(a, Conj(b, v)) = Times(Times(a, Times(t, j)), i)
  BY <1>2 DEF Conj, i
<1>7. Conj(Times(a, b), v) = Times(Times(a, t), Times(j, i))
  BY <1>2, <1>3 DEF Conj
<1>8. QED
  BY <1>4, <1>5, <1>6, <1>7

LEMMA ConjIdentity == ASSUME NEW v \in Hurwitz PROVE Conj(Identity, v) = v
<1>1. Invert(Identity) = Identity
  BY DEF Invert, Identity, Quat
<1>2. QED
  BY <1>1, TimesIdentity, IdentityIs DEF Conj

\* The second factor of a product rotates first.
LEMMA RotatedTwice ==
  ASSUME NEW p \in Places, NEW a \in Units, NEW b \in Units
  PROVE  Rotated(p, Times(a, b)) = Rotated(Rotated(p, b), a)
<1>1. Times(a, b) \in Units
  BY UnitTimes
<1>2. Rotated(p, b) \in Vectors /\ Rotated(p, b) \in Places
  BY RotatedIs, VectorHas
<1>3. Rotated(p, Times(a, b)) \in Vectors /\ Rotated(Rotated(p, b), a) \in Vectors
  BY <1>1, <1>2, RotatedIs
<1>4. OfPosition(Rotated(Rotated(p, b), a)) = Conj(a, Conj(b, OfPosition(p)))
  BY <1>2, RotatedIs
<1>5. OfPosition(Rotated(p, Times(a, b))) = Conj(Times(a, b), OfPosition(p))
  BY <1>1, RotatedIs
<1>6. QED
  BY <1>3, <1>4, <1>5, ConjOfConj, OfPositionIs, SameOfPosition

LEMMA RotatedByIdentity == ASSUME NEW p \in Places PROVE Rotated(p, Identity) = Cart(p)
<1>1. Identity \in Units /\ OfPosition(p) \in Hurwitz /\ OfPosition(p) = OfPosition(Cart(p)) /\ Cart(p) \in Vectors
  BY IdentityIs, OfPositionIs, CartIs
<1>2. Rotated(p, Identity) \in Vectors /\ OfPosition(Rotated(p, Identity)) = OfPosition(Cart(p))
  BY <1>1, RotatedIs, ConjIdentity
<1>3. QED
  BY <1>1, <1>2, SameOfPosition

LEMMA UnitInvert == ASSUME NEW q \in Units PROVE Invert(q) \in Units
BY UnitsAreHurwitz, InvertIs, UnitsAre

\* A rotation can be undone.
LEMMA RotationIsUndone ==
  ASSUME NEW p \in Places, NEW q \in Units
  PROVE  /\ Unrotated(p, q) = Rotated(p, Invert(q))
         /\ Unrotated(Rotated(p, q), q) = Cart(p) /\ Rotated(Unrotated(p, q), q) = Cart(p)
<1>1. Invert(q) \in Units /\ Invert(Invert(q)) = q
  BY UnitInvert, UnitsAreHurwitz, InvertIs
<1>2. \A r : Unrotated(r, q) = Rotated(r, Invert(q))
  BY <1>1 DEF Unrotated, Rotated
<1>3. Times(Invert(q), q) = Identity /\ Times(q, Invert(q)) = Identity
  BY UnitTimesInverse
<1>4. Rotated(Rotated(p, q), Invert(q)) = Rotated(p, Identity) /\ Rotated(Rotated(p, Invert(q)), q) = Rotated(p, Identity)
  BY <1>1, <1>3, RotatedTwice
<1>5. QED
  BY <1>2, <1>4, RotatedByIdentity

\* Conjugation goes into products and inverses.
LEMMA ConjTimes ==
  ASSUME NEW a \in Units, NEW u \in Hurwitz, NEW v \in Hurwitz
  PROVE  Conj(a, Times(u, v)) = Times(Conj(a, u), Conj(a, v))
<1> DEFINE i == Invert(a)
           au == Times(a, u)
           av == Times(a, v)
           vi == Times(v, i)
<1>1. a \in Hurwitz /\ i \in Hurwitz /\ au \in Hurwitz /\ av \in Hurwitz /\ vi \in Hurwitz /\ Times(i, a) = Identity
  BY UnitsAreHurwitz, InvertIs, TimesIs, UnitTimesInverse
<1>2. Times(av, i) = Times(a, vi) /\ Times(Times(au, v), i) = Times(au, vi) /\ Times(a, Times(u, v)) = Times(au, v)
  BY <1>1, TimesIsAssociative
<1>3. Conj(a, Times(u, v)) = Times(au, vi)
  BY <1>2 DEF Conj
<1>4. Conj(a, u) = Times(au, i) /\ Conj(a, v) = Times(a, vi)
  BY <1>2 DEF Conj
<1> HIDE DEF i, au, av, vi
<1>5. Times(a, vi) \in Hurwitz
  BY <1>1, TimesIs
<1>6. Times(Times(au, i), Times(a, vi)) = Times(au, Times(i, Times(a, vi)))
  BY <1>1, <1>5, TimesIsAssociative
<1>7. Times(i, Times(a, vi)) = Times(Times(i, a), vi)
  BY <1>1, TimesIsAssociative
<1>8. Times(Times(i, a), vi) = vi
  BY <1>1, TimesIdentity
<1>9. QED
  BY <1>3, <1>4, <1>6, <1>7, <1>8

LEMMA ConjInvert ==
  ASSUME NEW a \in Units, NEW v \in Hurwitz PROVE Invert(Conj(a, v)) = Conj(a, Invert(v))
<1> DEFINE i == Invert(a)
           j == Invert(v)
<1>1. a \in Hurwitz /\ i \in Hurwitz /\ j \in Hurwitz /\ Times(a, v) \in Hurwitz /\ Invert(i) = a
  BY UnitsAreHurwitz, InvertIs, TimesIs
<1>2. Invert(Conj(a, v)) = Times(a, Invert(Times(a, v)))
  BY <1>1, InvertTimes DEF Conj
<1>3. Invert(Times(a, v)) = Times(j, i)
  BY <1>1, InvertTimes
<1>4. Times(a, Times(j, i)) = Times(Times(a, j), i)
  BY <1>1, TimesIsAssociative
<1>5. QED
  BY <1>2, <1>3, <1>4 DEF Conj

\* The products of vectors in the product of their quaternions.
LEMMA DotIs ==
  ASSUME NEW p \in Places, NEW r \in Places
  PROVE  /\ DotProduct(p, r) \in Int /\ DotProduct(p, r) = DotProduct(Cart(p), Cart(r))
         /\ Times(OfPosition(p), Invert(OfPosition(r))).w = 2 * DotProduct(p, r)
<1> DEFINE p1 == Cart(p).pos[1]
           p2 == Cart(p).pos[2]
           p3 == Cart(p).pos[3]
           r1 == Cart(r).pos[1]
           r2 == Cart(r).pos[2]
           r3 == Cart(r).pos[3]
           u == OfPosition(p)
           v == OfPosition(r)
           i == Invert(v)
           t == Times(u, i)
<1>1. /\ p1 \in Int /\ p2 \in Int /\ p3 \in Int /\ r1 \in Int /\ r2 \in Int /\ r3 \in Int
      /\ Cart(Cart(p)) = Cart(p) /\ Cart(Cart(r)) = Cart(r)
  BY CartIs, VectorHas
<1>2. u \in Hurwitz /\ u.w = 0 /\ u.x = 2 * p1 /\ u.y = 2 * p2 /\ u.z = 2 * p3
  BY OfPositionIs
<1>3. v \in Hurwitz /\ v.w = 0 /\ v.x = 2 * r1 /\ v.y = 2 * r2 /\ v.z = 2 * r3
  BY OfPositionIs
<1> HIDE DEF u, v
<1>4. i \in Hurwitz /\ i.w = v.w /\ i.x = -v.x /\ i.y = -v.y /\ i.z = -v.z
  BY <1>3, InvertIs
<1> HIDE DEF i
<1>5. t \in Hurwitz /\ 2 * t.w = u.w * i.w - u.x * i.x - u.y * i.y - u.z * i.z
  BY <1>2, <1>4, TimesIs
<1> DEFINE tw == t.w
<1>6. tw \in Int
  BY <1>5, HurwitzFields
<1>7. DotProduct(p, r) = p1 * r1 + p2 * r2 + p3 * r3 /\ DotProduct(Cart(p), Cart(r)) = p1 * r1 + p2 * r2 + p3 * r3
  BY <1>1 DEF DotProduct
<1>8. 2 * tw = 0 * 0 - (2 * p1) * (-(2 * r1)) - (2 * p2) * (-(2 * r2)) - (2 * p3) * (-(2 * r3))
  BY <1>2, <1>3, <1>4, <1>5
<1> HIDE DEF p1, p2, p3, r1, r2, r3, tw
<1>9. tw = 2 * (p1 * r1 + p2 * r2 + p3 * r3) /\ p1 * r1 + p2 * r2 + p3 * r3 \in Int
  BY <1>1, <1>6, <1>8
<1>10. QED
  BY <1>7, <1>9 DEF tw, t, u, i, v

LEMMA CrossIs ==
  ASSUME NEW p \in Vectors, NEW r \in Vectors
  PROVE  /\ CrossProduct(p, r) \in Vectors
         /\ LET t == Times(OfPosition(p), OfPosition(r))
                v == OfPosition(CrossProduct(p, r))
            IN  t \in Hurwitz /\ t.x = v.x /\ t.y = v.y /\ t.z = v.z
<1> DEFINE p1 == p.pos[1]
           p2 == p.pos[2]
           p3 == p.pos[3]
           r1 == r.pos[1]
           r2 == r.pos[2]
           r3 == r.pos[3]
           u == OfPosition(p)
           v == OfPosition(r)
           t == Times(u, v)
           c1 == p2 * r3 - r2 * p3
           c2 == -(p1 * r3 - r1 * p3)
           c3 == p1 * r2 - r1 * p2
           c == Cartesian(c1, c2, c3)
           w == OfPosition(c)
<1>1. /\ p1 \in Int /\ p2 \in Int /\ p3 \in Int /\ r1 \in Int /\ r2 \in Int /\ r3 \in Int
      /\ Cart(p) = p /\ Cart(r) = r /\ p \in Places /\ r \in Places
  BY VectorHas
<1>2. u \in Hurwitz /\ u.w = 0 /\ u.x = 2 * p1 /\ u.y = 2 * p2 /\ u.z = 2 * p3
  BY <1>1, OfPositionIs
<1>3. v \in Hurwitz /\ v.w = 0 /\ v.x = 2 * r1 /\ v.y = 2 * r2 /\ v.z = 2 * r3
  BY <1>1, OfPositionIs
<1>4. CrossProduct(p, r) = c
  BY DEF CrossProduct
<1> HIDE DEF u, v
<1>5. /\ t \in Hurwitz
      /\ 2 * t.x = u.w * v.x + u.x * v.w + u.y * v.z - u.z * v.y
      /\ 2 * t.y = u.w * v.y - u.x * v.z + u.y * v.w + u.z * v.x
      /\ 2 * t.z = u.w * v.z + u.x * v.y - u.y * v.x + u.z * v.w
  BY <1>2, <1>3, TimesIs
<1> DEFINE tx == t.x
           ty == t.y
           tz == t.z
<1>6. tx \in Int /\ ty \in Int /\ tz \in Int
  BY <1>5, HurwitzFields
<1>7. /\ 2 * tx = 0 * (2 * r1) + (2 * p1) * 0 + (2 * p2) * (2 * r3) - (2 * p3) * (2 * r2)
      /\ 2 * ty = 0 * (2 * r2) - (2 * p1) * (2 * r3) + (2 * p2) * 0 + (2 * p3) * (2 * r1)
      /\ 2 * tz = 0 * (2 * r3) + (2 * p1) * (2 * r2) - (2 * p2) * (2 * r1) + (2 * p3) * 0
  BY <1>2, <1>3, <1>5
<1> HIDE DEF tx, ty, tz, p1, p2, p3, r1, r2, r3
<1>8. tx = 2 * c1 /\ ty = 2 * c2 /\ tz = 2 * c3 /\ c1 \in Int /\ c2 \in Int /\ c3 \in Int
  BY <1>1, <1>6, <1>7
<1> HIDE DEF c1, c2, c3
<1>9. c \in Vectors /\ c.pos[1] = c1 /\ c.pos[2] = c2 /\ c.pos[3] = c3
  <2>1. c1 \in Int /\ c2 \in Int /\ c3 \in Int
    BY <1>8
  <2>2. QED
    BY <2>1, VectorIs
<1> HIDE DEF c
<1>10. c \in Places /\ Cart(c) = c
  BY <1>9, VectorHas
<1>11. w.x = 2 * c1 /\ w.y = 2 * c2 /\ w.z = 2 * c3
  BY <1>9, <1>10, OfPositionIs
<1> HIDE DEF t, w
<1>12. QED
  BY <1>4, <1>5, <1>8, <1>9, <1>11 DEF tx, ty, tz, t, w, u, v

LEMMA RotationKeepsProducts ==
  ASSUME NEW p \in Places, NEW r \in Places, NEW a \in Units
  PROVE  /\ DotProduct(Rotated(p, a), Rotated(r, a)) = DotProduct(p, r)
         /\ CrossProduct(Rotated(p, a), Rotated(r, a)) = Rotated(CrossProduct(Cart(p), Cart(r)), a)
<1> DEFINE u == OfPosition(p)
           v == OfPosition(r)
           cp == Cart(p)
           cr == Cart(r)
           rp == Rotated(p, a)
           rr == Rotated(r, a)
<1>1. u \in Hurwitz /\ v \in Hurwitz /\ u = OfPosition(cp) /\ v = OfPosition(cr) /\ cp \in Vectors /\ cr \in Vectors
  BY OfPositionIs, CartIs
<1>2. rp \in Vectors /\ rr \in Vectors /\ OfPosition(rp) = Conj(a, u) /\ OfPosition(rr) = Conj(a, v)
  BY RotatedIs
<1>3. Invert(v) \in Hurwitz /\ rp \in Places /\ rr \in Places
  BY <1>1, <1>2, InvertIs, VectorHas
<1> HIDE DEF u, v, rp, rr, cp, cr
<1>4. DotProduct(rp, rr) = DotProduct(p, r)
  <2>1. Times(u, Invert(v)).w = 2 * DotProduct(p, r) /\ DotProduct(p, r) \in Int
    BY DotIs DEF u, v
  <2>2. Times(Conj(a, u), Invert(Conj(a, v))).w = 2 * DotProduct(rp, rr) /\ DotProduct(rp, rr) \in Int
    BY <1>2, <1>3, DotIs
  <2>3. Times(Conj(a, u), Invert(Conj(a, v))) = Conj(a, Times(u, Invert(v)))
    BY <1>1, <1>3, ConjTimes, ConjInvert
  <2>4. Conj(a, Times(u, Invert(v))).w = Times(u, Invert(v)).w
    BY <1>1, <1>3, TimesIs, ConjIs
  <2>5. 2 * DotProduct(p, r) = 2 * DotProduct(rp, rr)
    BY <2>1, <2>2, <2>3, <2>4
  <2> DEFINE d == DotProduct(p, r)
             e == DotProduct(rp, rr)
  <2>6. d \in Int /\ e \in Int /\ 2 * d = 2 * e
    BY <2>1, <2>2, <2>5
  <2> HIDE DEF d, e
  <2>7. d = e
    BY <2>6
  <2>8. QED
    BY <2>7 DEF d, e
<1>5. CrossProduct(rp, rr) = Rotated(CrossProduct(cp, cr), a)
  <2> DEFINE x == CrossProduct(cp, cr)
             y == CrossProduct(rp, rr)
             z == Rotated(x, a)
             t == Times(u, v)
             w == OfPosition(x)
  <2>1. x \in Vectors /\ t \in Hurwitz /\ t.x = w.x /\ t.y = w.y /\ t.z = w.z
    BY <1>1, CrossIs
  <2>2. /\ y \in Vectors
        /\ LET s == Times(Conj(a, u), Conj(a, v)) IN s.x = OfPosition(y).x /\ s.y = OfPosition(y).y /\ s.z = OfPosition(y).z
    BY <1>2, CrossIs
  <2>3. Times(Conj(a, u), Conj(a, v)) = Conj(a, t)
    BY <1>1, ConjTimes
  <2> HIDE DEF x, t
  <2>4. x \in Places /\ w \in Hurwitz
    BY <2>1, VectorHas, OfPositionIs
  <2>5. z \in Vectors /\ OfPosition(z) = Conj(a, w)
    BY <2>4, RotatedIs
  <2> HIDE DEF w, y, z
  <2> DEFINE ct == Conj(a, t)
             cw == Conj(a, w)
  <2>6. ct \in Hurwitz /\ cw \in Hurwitz /\ 4 * ct.x = 4 * cw.x /\ 4 * ct.y = 4 * cw.y /\ 4 * ct.z = 4 * cw.z
    BY <2>1, <2>4, ConjIs
  <2>7. ct.x = OfPosition(y).x /\ ct.y = OfPosition(y).y /\ ct.z = OfPosition(y).z /\ OfPosition(z) = cw
    BY <2>2, <2>3, <2>5
  <2> HIDE DEF ct, cw
  <2>8. ct.x = cw.x /\ ct.y = cw.y /\ ct.z = cw.z
    <3>1. /\ ct.x \in Int /\ ct.y \in Int /\ ct.z \in Int /\ cw.x \in Int /\ cw.y \in Int /\ cw.z \in Int
      BY <2>6, HurwitzFields
    <3>2. QED
      BY <2>6, <3>1
  <2>9. y \in Places /\ z \in Places
    BY <2>2, <2>5, VectorHas
  <2>10. OfPosition(y) = OfPosition(z)
    <3>1. OfPosition(y) \in Hurwitz /\ OfPosition(z) \in Hurwitz /\ OfPosition(y).w = 0 /\ OfPosition(z).w = 0
      BY <2>9, OfPositionIs
    <3>2. QED
      BY <2>7, <2>8, <3>1, HurwitzFields, SameQuat
  <2>11. y = z
    BY <2>2, <2>5, <2>10, SameOfPosition
  <2>12. QED
    BY <2>11 DEF x, y, z
<1>6. QED
  BY <1>4, <1>5 DEF rp, rr, cp, cr

LEMMA RotationsAreReversible ==
  ASSUME NEW p \in Places, NEW r \in Places, NEW a \in Units, NEW b \in Units PROVE RotationLaw(p, r, a, b)
<1>1. Divided(Times(a, b), b) = a
  <2>1. a \in Hurwitz /\ b \in Hurwitz /\ Invert(b) \in Hurwitz /\ Times(b, Invert(b)) = Identity
    BY UnitsAreHurwitz, InvertIs, UnitTimesInverse
  <2>2. Times(Times(a, b), Invert(b)) = Times(a, Identity)
    BY <2>1, TimesIsAssociative
  <2>3. QED
    BY <2>1, <2>2, TimesIdentity DEF Divided
<1>2. ScalarProduct(Times(a, b), Times(a, b)) = 4
  BY UnitTimes, UnitsAreHurwitz
<1>3. QED
  BY <1>1, <1>2, RotationIsUndone, RotatedTwice, RotationKeepsProducts DEF RotationLaw

-----------------------------------------------------------------------------
(* Axes.                                                                   *)

LEMMA AxisIs ==
  ASSUME NEW v \in Vectors
  PROVE  OnAxis(v) <=> \/ v.pos[2] = 0 /\ v.pos[3] = 0
                       \/ v.pos[1] = 0 /\ v.pos[3] = 0
                       \/ v.pos[1] = 0 /\ v.pos[2] = 0
<1>1. ~v.polar
  BY VectorHas
<1>2. 1 .. 3 = {1, 2, 3} /\ (1 .. 3) \ {1} = {2, 3} /\ (1 .. 3) \ {2} = {1, 3} /\ (1 .. 3) \ {3} = {1, 2}
  OBVIOUS
<1>3. OnAxis(v) <=> \E i \in {1, 2, 3} : \A j \in (1 .. 3) \ {i} : v.pos[j] = 0
  BY <1>1, <1>2 DEF OnAxis
<1>4. QED
  BY <1>2, <1>3

\* The distance along the axes.
Along(v) == Abs(v.pos[1]) + Abs(v.pos[2]) + Abs(v.pos[3])

LEMMA AbsIs == ASSUME NEW n \in Int PROVE Abs(n) \in Nat /\ (Abs(n) = n \/ Abs(n) = -n) /\ (n = 0 <=> Abs(n) = 0)
BY DEF Abs

\* A polar position is on an axis, its distance away.
LEMMA PolarIsOnAxis ==
  ASSUME NEW p \in Places, p.polar PROVE OnAxis(Cart(p)) /\ Along(Cart(p)) = p.pos[3]
<1> DEFINE d == p.pos[3]
           sa == Sin(p.pos[1])
           ca == Cos(p.pos[1])
           se == Sin(p.pos[2])
           ce == Cos(p.pos[2])
           v == Cart(p)
<1>1. v \in Vectors /\ v.pos[1] = -d * sa * ce /\ v.pos[2] = d * ca * ce /\ v.pos[3] = d * se
  BY CartIs
<1>2. d \in Nat
  BY PlaceHas
<1>3. /\ (sa = 0 /\ ca \in {-1, 1}) \/ (ca = 0 /\ sa \in {-1, 1})
      /\ (se = 0 /\ ce \in {-1, 1}) \/ (ce = 0 /\ se \in {-1, 1})
  <2>1. ASSUME NEW s \in -1 .. 1, NEW c \in -1 .. 1, s * s + c * c = 1, s = 0 \/ c = 0
        PROVE  (s = 0 /\ c \in {-1, 1}) \/ (c = 0 /\ s \in {-1, 1})
    BY <2>1
  <2>2. p.pos[1] \in Int /\ p.pos[2] \in Int
    BY PlaceHas
  <2>3. QED
    BY <2>1, <2>2, SineIs
<1> HIDE DEF d, sa, ca, se, ce, v
<1>4. \/ v.pos[2] = 0 /\ v.pos[3] = 0 /\ v.pos[1] \in {d, -d}
      \/ v.pos[1] = 0 /\ v.pos[3] = 0 /\ v.pos[2] \in {d, -d}
      \/ v.pos[1] = 0 /\ v.pos[2] = 0 /\ v.pos[3] \in {d, -d}
  <2>1. CASE ce = 0
    BY <1>1, <1>2, <1>3, <2>1
  <2>2. CASE se = 0 /\ sa = 0
    BY <1>1, <1>2, <1>3, <2>2
  <2>3. CASE se = 0 /\ ca = 0
    BY <1>1, <1>2, <1>3, <2>3
  <2>4. QED
    BY <1>3, <2>1, <2>2, <2>3
<1>5. OnAxis(v)
  BY <1>1, <1>4, AxisIs
<1>6. Abs(d) = d /\ Abs(-d) = d /\ Abs(0) = 0
  BY <1>2 DEF Abs
<1>7. Along(v) = d
  BY <1>2, <1>4, <1>6 DEF Along
<1>8. QED
  BY <1>5, <1>7 DEF v, d

\* The polar co-ordinates of a vector on an axis are those of the vector.
LEMMA PolarOfVector ==
  ASSUME NEW v \in Vectors, OnAxis(v)
  PROVE  Polar(v) \in Places /\ Polar(v).polar /\ Polar(v).pos[3] = Along(v) /\ Cart(Polar(v)) = v
<1> DEFINE x == v.pos[1]
           y == v.pos[2]
           z == v.pos[3]
           az == IF x < 0 THEN 1 ELSE IF x > 0 THEN -1 ELSE IF y < 0 THEN 2 ELSE 0
           el == Sign(z)
           d == Along(v)
           p == PolarAt(az, el, d)
<1>1. ~v.polar /\ x \in Int /\ y \in Int /\ z \in Int
  BY VectorHas
<1>2. Polar(v) = p
  BY <1>1 DEF Polar, Along
<1>3. (y = 0 /\ z = 0) \/ (x = 0 /\ z = 0) \/ (x = 0 /\ y = 0)
  BY AxisIs
<1>4. d = Abs(x) + Abs(y) + Abs(z)
  BY DEF Along
<1> HIDE DEF x, y, z, d
<1>5. d \in Nat /\ az \in Int /\ el \in Int
  BY <1>1, <1>4, AbsIs DEF Sign
<1>6. p \in Places /\ p.polar /\ p.pos[1] = az /\ p.pos[2] = el /\ p.pos[3] = d
  <2>1. d \in Int /\ d >= 0
    BY <1>5
  <2> HIDE DEF az, el
  <2>2. QED
    BY <1>5, <2>1, PolarIs
<1>7. /\ Sin(1) = 1 /\ Cos(1) = 0 /\ Sin(-1) = -1 /\ Cos(-1) = 0
      /\ Sin(2) = 0 /\ Cos(2) = -1 /\ Sin(0) = 0 /\ Cos(0) = 1
  <2>1. \A n \in Int : Sin(n) = IF n % 4 = 1 THEN 1 ELSE IF n % 4 = 3 THEN -1 ELSE 0
    BY DEF Sin
  <2>2. \A n \in Int : /\ n = 0 => n % 4 = 0
                       /\ n = 1 => n % 4 = 1
                       /\ n = 2 => n % 4 = 2
                       /\ n = 3 \/ n = -1 => n % 4 = 3
    OBVIOUS
  <2>3. Sin(1) = 1 /\ Sin(-1) = -1 /\ Sin(2) = 0 /\ Sin(0) = 0 /\ Sin(3) = -1
    BY <2>1, <2>2
  <2>4. Cos(1) = Sin(2) /\ Cos(-1) = Sin(0) /\ Cos(2) = Sin(3) /\ Cos(0) = Sin(1)
    <3>1. 1 + 1 = 2 /\ -1 + 1 = 0 /\ 2 + 1 = 3 /\ 0 + 1 = 1
      OBVIOUS
    <3>2. QED
      BY <3>1 DEF Cos
  <2>5. QED
    BY <2>3, <2>4
<1> DEFINE c == Cart(p)
<1>8. c \in Vectors /\ c.pos[1] = -d * Sin(az) * Cos(el) /\ c.pos[2] = d * Cos(az) * Cos(el) /\ c.pos[3] = d * Sin(el)
  <2> HIDE DEF p
  <2>1. QED
    BY <1>6, CartIs
<1> HIDE DEF c, p
<1>9. c.pos[1] = x /\ c.pos[2] = y /\ c.pos[3] = z
  <2>1. CASE x < 0
    <3>1. y = 0 /\ z = 0 /\ az = 1 /\ el = 0 /\ d = -x
      BY <1>1, <1>3, <1>4, <2>1 DEF Abs, Sign
    <3> HIDE DEF az, el
    <3>2. QED
      BY <1>1, <1>7, <1>8, <3>1
  <2>2. CASE x > 0
    <3>1. y = 0 /\ z = 0 /\ az = -1 /\ el = 0 /\ d = x
      BY <1>1, <1>3, <1>4, <2>2 DEF Abs, Sign
    <3> HIDE DEF az, el
    <3>2. QED
      BY <1>1, <1>7, <1>8, <3>1
  <2>3. CASE x = 0 /\ y < 0
    <3>1. z = 0 /\ az = 2 /\ el = 0 /\ d = -y
      BY <1>1, <1>3, <1>4, <2>3 DEF Abs, Sign
    <3> HIDE DEF az, el
    <3>2. QED
      BY <1>1, <1>7, <1>8, <2>3, <3>1
  <2>4. CASE x = 0 /\ y > 0
    <3>1. z = 0 /\ az = 0 /\ el = 0 /\ d = y
      BY <1>1, <1>3, <1>4, <2>4 DEF Abs, Sign
    <3> HIDE DEF az, el
    <3>2. QED
      BY <1>1, <1>7, <1>8, <2>4, <3>1
  <2>5. CASE x = 0 /\ y = 0 /\ z < 0
    <3>1. az = 0 /\ el = -1 /\ d = -z
      BY <1>1, <1>4, <2>5 DEF Abs, Sign
    <3> HIDE DEF az, el
    <3>2. QED
      BY <1>1, <1>7, <1>8, <2>5, <3>1
  <2>6. CASE x = 0 /\ y = 0 /\ z >= 0
    <3>1. az = 0 /\ el \in {0, 1} /\ d = z /\ (el = 0 => z = 0)
      BY <1>1, <1>4, <2>6 DEF Abs, Sign
    <3> HIDE DEF az, el
    <3>2. QED
      BY <1>1, <1>7, <1>8, <2>6, <3>1
  <2>7. QED
    BY <1>1, <2>1, <2>2, <2>3, <2>4, <2>5, <2>6
<1>10. c = v
  BY <1>8, <1>9, SameVector DEF x, y, z
<1>11. QED
  BY <1>2, <1>6, <1>10 DEF c, d

\* The distance of a position on an axis, in either co-ordinates.
LEMMA ModIs ==
  ASSUME NEW p \in Places
  PROVE  /\ Mod(p) = Along(Cart(p)) /\ Mod(p) \in Nat
         /\ OnAxis(p) <=> OnAxis(Cart(p))
         /\ OnAxis(p) => /\ Polar(p) \in Places /\ Polar(p).polar /\ Cart(Polar(p)) = Cart(p)
                         /\ Mod(p) * Mod(p) = DotProduct(p, p)
<1> DEFINE v == Cart(p)
           x == v.pos[1]
           y == v.pos[2]
           z == v.pos[3]
<1>1. v \in Vectors /\ x \in Int /\ y \in Int /\ z \in Int /\ ~v.polar
  BY CartIs, VectorHas
<1>2. Mod(p) = Along(v) /\ (OnAxis(p) <=> OnAxis(v)) /\ (OnAxis(p) => Polar(p) \in Places /\ Polar(p).polar /\ Cart(Polar(p)) = v)
  <2>1. CASE p.polar
    <3>1. Polar(p) = p /\ OnAxis(p)
      BY <2>1 DEF Polar, OnAxis
    <3>2. QED
      BY <2>1, <3>1, PolarIsOnAxis DEF Mod
  <2>2. CASE ~p.polar
    <3>1. v = p
      BY <2>2 DEF Cart
    <3>2. Polar(p).pos[3] = Along(p)
      BY <2>2 DEF Polar, PolarAt, Along
    <3>3. QED
      BY <1>1, <3>1, <3>2, PolarOfVector DEF Mod
  <2>3. QED
    BY <2>1, <2>2, PlaceHas
<1>3. Along(v) = Abs(x) + Abs(y) + Abs(z) /\ DotProduct(p, p) = x * x + y * y + z * z
  BY DEF Along, DotProduct
<1>4. OnAxis(v) => (y = 0 /\ z = 0) \/ (x = 0 /\ z = 0) \/ (x = 0 /\ y = 0)
  BY <1>1, AxisIs
<1> HIDE DEF v, x, y, z
<1>5. Along(v) \in Nat
  BY <1>1, <1>3, AbsIs
<1>6. OnAxis(v) => Along(v) * Along(v) = DotProduct(p, p)
  <2> SUFFICES ASSUME OnAxis(v) PROVE Along(v) * Along(v) = DotProduct(p, p)
    OBVIOUS
  <2>1. \A n \in Int : Abs(n) * Abs(n) = n * n
    BY DEF Abs
  <2>2. Abs(0) = 0
    BY DEF Abs
  <2>3. Abs(x) \in Int /\ Abs(y) \in Int /\ Abs(z) \in Int
    BY <1>1, AbsIs
  <2>4. CASE y = 0 /\ z = 0
    <3>1. Along(v) = Abs(x) /\ DotProduct(p, p) = x * x
      BY <1>1, <1>3, <2>2, <2>3, <2>4
    <3>2. QED
      BY <1>1, <2>1, <3>1
  <2>5. CASE x = 0 /\ z = 0
    <3>1. Along(v) = Abs(y) /\ DotProduct(p, p) = y * y
      BY <1>1, <1>3, <2>2, <2>3, <2>5
    <3>2. QED
      BY <1>1, <2>1, <3>1
  <2>6. CASE x = 0 /\ y = 0
    <3>1. Along(v) = Abs(z) /\ DotProduct(p, p) = z * z
      BY <1>1, <1>3, <2>2, <2>3, <2>6
    <3>2. QED
      BY <1>1, <2>1, <3>1
  <2>7. QED
    BY <1>4, <2>4, <2>5, <2>6
<1>7. QED
  BY <1>2, <1>5, <1>6 DEF v

\* What a rotation makes of co-ordinates, four times.
TurnedX(q, x, y, z) ==
  (q.w * q.w + q.x * q.x - q.y * q.y - q.z * q.z) * x + 2 * (q.x * q.y - q.w * q.z) * y + 2 * (q.x * q.z + q.w * q.y) * z
TurnedY(q, x, y, z) ==
  2 * (q.x * q.y + q.w * q.z) * x + (q.w * q.w - q.x * q.x + q.y * q.y - q.z * q.z) * y + 2 * (q.y * q.z - q.w * q.x) * z
TurnedZ(q, x, y, z) ==
  2 * (q.x * q.z - q.w * q.y) * x + 2 * (q.y * q.z + q.w * q.x) * y + (q.w * q.w - q.x * q.x - q.y * q.y + q.z * q.z) * z

\* The co-ordinates come in linearly.
LEMMA TurnedIs ==
  ASSUME NEW q \in Units, NEW x \in Int, NEW y \in Int, NEW z \in Int
  PROVE  /\ TurnedX(q, x, y, z) \in Int /\ TurnedY(q, x, y, z) \in Int /\ TurnedZ(q, x, y, z) \in Int
         /\ \A k \in Int : /\ TurnedX(q, k * x, k * y, k * z) = k * TurnedX(q, x, y, z)
                           /\ TurnedY(q, k * x, k * y, k * z) = k * TurnedY(q, x, y, z)
                           /\ TurnedZ(q, k * x, k * y, k * z) = k * TurnedZ(q, x, y, z)
         /\ TurnedX(q, x, y, z) = x * TurnedX(q, 1, 0, 0) + y * TurnedX(q, 0, 1, 0) + z * TurnedX(q, 0, 0, 1)
         /\ TurnedY(q, x, y, z) = x * TurnedY(q, 1, 0, 0) + y * TurnedY(q, 0, 1, 0) + z * TurnedY(q, 0, 0, 1)
         /\ TurnedZ(q, x, y, z) = x * TurnedZ(q, 1, 0, 0) + y * TurnedZ(q, 0, 1, 0) + z * TurnedZ(q, 0, 0, 1)
<1> DEFINE xx == q.w * q.w + q.x * q.x - q.y * q.y - q.z * q.z
           xy == 2 * (q.x * q.y - q.w * q.z)
           xz == 2 * (q.x * q.z + q.w * q.y)
           yx == 2 * (q.x * q.y + q.w * q.z)
           yy == q.w * q.w - q.x * q.x + q.y * q.y - q.z * q.z
           yz == 2 * (q.y * q.z - q.w * q.x)
           zx == 2 * (q.x * q.z - q.w * q.y)
           zy == 2 * (q.y * q.z + q.w * q.x)
           zz == q.w * q.w - q.x * q.x - q.y * q.y + q.z * q.z
<1>1. /\ xx \in Int /\ xy \in Int /\ xz \in Int
      /\ yx \in Int /\ yy \in Int /\ yz \in Int
      /\ zx \in Int /\ zy \in Int /\ zz \in Int
  <2>1. q.w \in Int /\ q.x \in Int /\ q.y \in Int /\ q.z \in Int
    BY UnitsAreHurwitz, HurwitzFields
  <2>2. QED
    BY <2>1
<1>2. \A a, b, c : /\ TurnedX(q, a, b, c) = xx * a + xy * b + xz * c
                   /\ TurnedY(q, a, b, c) = yx * a + yy * b + yz * c
                   /\ TurnedZ(q, a, b, c) = zx * a + zy * b + zz * c
  BY DEF TurnedX, TurnedY, TurnedZ
<1> HIDE DEF xx, xy, xz, yx, yy, yz, zx, zy, zz
<1>3. ASSUME NEW a \in Int, NEW b \in Int, NEW c \in Int
      PROVE  /\ a * x + b * y + c * z \in Int
             /\ \A k \in Int : a * (k * x) + b * (k * y) + c * (k * z) = k * (a * x + b * y + c * z)
             /\ a * x + b * y + c * z = x * (a * 1 + b * 0 + c * 0) + y * (a * 0 + b * 1 + c * 0) + z * (a * 0 + b * 0 + c * 1)
  OBVIOUS
<1>4. QED
  BY <1>1, <1>2, <1>3

LEMMA RotatedHas ==
  ASSUME NEW p \in Places, NEW q \in Units
  PROVE  LET r == Rotated(p, q)
             c == Cart(p)
         IN  /\ r.pos[1] \in Int /\ 4 * r.pos[1] = TurnedX(q, c.pos[1], c.pos[2], c.pos[3])
             /\ r.pos[2] \in Int /\ 4 * r.pos[2] = TurnedY(q, c.pos[1], c.pos[2], c.pos[3])
             /\ r.pos[3] \in Int /\ 4 * r.pos[3] = TurnedZ(q, c.pos[1], c.pos[2], c.pos[3])
<1> DEFINE r == Rotated(p, q)
           x == Cart(p).pos[1]
           y == Cart(p).pos[2]
           z == Cart(p).pos[3]
           v == OfPosition(p)
           c == Conj(q, v)
           r1 == r.pos[1]
           r2 == r.pos[2]
           r3 == r.pos[3]
<1>1. x \in Int /\ y \in Int /\ z \in Int
  BY CartIs, VectorHas
<1>2. v \in Hurwitz /\ v.x = 2 * x /\ v.y = 2 * y /\ v.z = 2 * z
  BY OfPositionIs
<1>3. r \in Vectors /\ OfPosition(r) = c
  BY RotatedIs
<1> HIDE DEF v, r
<1>4. r1 \in Int /\ r2 \in Int /\ r3 \in Int /\ c.x = 2 * r1 /\ c.y = 2 * r2 /\ c.z = 2 * r3
  BY <1>3, VectorHas, OfPositionIs
<1>5. 4 * c.x = TurnedX(q, v.x, v.y, v.z) /\ 4 * c.y = TurnedY(q, v.x, v.y, v.z) /\ 4 * c.z = TurnedZ(q, v.x, v.y, v.z)
  BY <1>2, ConjIs DEF TurnedX, TurnedY, TurnedZ
<1> HIDE DEF c, r1, r2, r3, x, y, z
<1>6. /\ TurnedX(q, 2 * x, 2 * y, 2 * z) = 2 * TurnedX(q, x, y, z) /\ TurnedX(q, x, y, z) \in Int
      /\ TurnedY(q, 2 * x, 2 * y, 2 * z) = 2 * TurnedY(q, x, y, z) /\ TurnedY(q, x, y, z) \in Int
      /\ TurnedZ(q, 2 * x, 2 * y, 2 * z) = 2 * TurnedZ(q, x, y, z) /\ TurnedZ(q, x, y, z) \in Int
  BY <1>1, TurnedIs
<1>7. 4 * r1 = TurnedX(q, x, y, z) /\ 4 * r2 = TurnedY(q, x, y, z) /\ 4 * r3 = TurnedZ(q, x, y, z)
  <2> DEFINE tx == TurnedX(q, x, y, z)
             ty == TurnedY(q, x, y, z)
             tz == TurnedZ(q, x, y, z)
  <2>1. 4 * (2 * r1) = 2 * tx /\ 4 * (2 * r2) = 2 * ty /\ 4 * (2 * r3) = 2 * tz
    BY <1>2, <1>4, <1>5, <1>6
  <2>2. tx \in Int /\ ty \in Int /\ tz \in Int
    BY <1>6
  <2> HIDE DEF tx, ty, tz
  <2>3. 4 * r1 = tx /\ 4 * r2 = ty /\ 4 * r3 = tz
    BY <1>4, <2>1, <2>2
  <2>4. QED
    BY <2>3 DEF tx, ty, tz
<1>8. QED
  BY <1>4, <1>7 DEF r1, r2, r3, r, x, y, z

\* The unit vector of a position on an axis.
LEMMA UnitIs ==
  ASSUME NEW p \in Places, OnAxis(p), Mod(p) # 0
  PROVE  LET u == Unit(p)
         IN  /\ u \in Places /\ OnAxis(u) /\ Mod(u) = 1 /\ DotProduct(u, u) = 1
             /\ Cart(p).pos[1] = Mod(p) * Cart(u).pos[1]
             /\ Cart(p).pos[2] = Mod(p) * Cart(u).pos[2]
             /\ Cart(p).pos[3] = Mod(p) * Cart(u).pos[3]
<1> DEFINE u == Unit(p)
           m == Mod(p)
<1>1. m \in Nat \ {0} /\ m = Along(Cart(p))
  BY ModIs
<1>2. u \in Places /\ OnAxis(u) /\ Mod(u) = 1
      /\ Cart(p).pos[1] = m * Cart(u).pos[1] /\ Cart(p).pos[2] = m * Cart(u).pos[2] /\ Cart(p).pos[3] = m * Cart(u).pos[3]
  <2>1. CASE p.polar
    <3> DEFINE az == p.pos[1]
               el == p.pos[2]
    <3>1. az \in Int /\ el \in Int /\ 1 \in Int /\ p.pos[3] = m
      <4>1. Polar(p) = p
        BY <2>1 DEF Polar
      <4>2. QED
        BY <4>1, PlaceHas DEF Mod
    <3>2. u = PolarAt(az, el, 1)
      BY <2>1, <1>1 DEF Unit
    <3>3. u \in Places /\ u.polar /\ u.pos[1] = az /\ u.pos[2] = el /\ u.pos[3] = 1
      <4>1. 1 >= 0
        OBVIOUS
      <4> HIDE DEF az, el, u
      <4>2. QED
        BY <3>1, <3>2, <4>1, PolarIs
    <3> HIDE DEF u
    <3>4. OnAxis(u) /\ Mod(u) = 1
      BY <3>3 DEF OnAxis, Mod, Polar
    <3> DEFINE sa == Sin(az)
               ca == Cos(az)
               se == Sin(el)
               ce == Cos(el)
    <3>5. sa \in Int /\ ca \in Int /\ se \in Int /\ ce \in Int
      <4>1. ASSUME NEW n \in Int PROVE Sin(n) \in Int /\ Cos(n) \in Int
        BY SineIs
      <4>2. QED
        BY <3>1, <4>1
    <3>6. Cart(p).pos[1] = -m * sa * ce /\ Cart(p).pos[2] = m * ca * ce /\ Cart(p).pos[3] = m * se
      BY <2>1, <3>1, CartIs
    <3>7. Cart(u).pos[1] = -1 * sa * ce /\ Cart(u).pos[2] = 1 * ca * ce /\ Cart(u).pos[3] = 1 * se
      BY <3>3, CartIs
    <3> HIDE DEF sa, ca, se, ce, m
    <3>8. -m * sa * ce = m * (-1 * sa * ce) /\ m * ca * ce = m * (1 * ca * ce) /\ m * se = m * (1 * se)
      BY <1>1, <3>5
    <3>9. QED
      BY <3>3, <3>4, <3>6, <3>7, <3>8
  <2>2. CASE ~p.polar
    <3> DEFINE x == p.pos[1]
               y == p.pos[2]
               z == p.pos[3]
               a == Quotient(x, m)
               b == Quotient(y, m)
               c == Quotient(z, m)
    <3>1. p \in Vectors /\ Cart(p) = p /\ x \in Int /\ y \in Int /\ z \in Int
      BY <2>2, PlaceHas, VectorHas
    <3>2. (y = 0 /\ z = 0) \/ (x = 0 /\ z = 0) \/ (x = 0 /\ y = 0)
      BY <3>1, AxisIs
    <3>3. m = Abs(x) + Abs(y) + Abs(z) /\ Abs(0) = 0
      BY <1>1, <3>1 DEF Along, Abs
    <3>4. u = Cartesian(a, b, c)
      BY <2>2, <1>1 DEF Unit
    <3> HIDE DEF x, y, z, m
    <3>5. ASSUME NEW n \in Int, m = Abs(n) PROVE Quotient(n, m) \in {-1, 1} /\ n = m * Quotient(n, m)
      <4>1. CASE n = m
        <5>1. Quotient(1 * m, m) = 1 /\ 1 * m = m
          BY <1>1, QuotientIs
        <5>2. QED
          BY <1>1, <4>1, <5>1
      <4>2. CASE n = -m
        <5>1. ASSUME NEW k \in Int, k = -1 PROVE Quotient(n, m) = k /\ n = m * k
          <6>1. n = k * m /\ n = m * k
            BY <1>1, <4>2, <5>1
          <6>2. m \in Int /\ m # 0
            BY <1>1
          <6>3. Quotient(k * m, m) = k
            BY <6>2, QuotientIs
          <6>4. QED
            BY <6>1, <6>3
        <5>2. QED
          BY <5>1
      <4>3. QED
        BY <1>1, <3>5, <4>1, <4>2, AbsIs
    <3>6. Quotient(0, m) = 0
      <4>1. Quotient(0 * m, m) = 0 /\ 0 * m = 0
        BY <1>1, QuotientIs
      <4>2. QED
        BY <4>1
    <3>7. m * 0 = 0
      BY <1>1
    <3>8. /\ \/ b = 0 /\ c = 0 /\ a \in {-1, 1}
             \/ a = 0 /\ c = 0 /\ b \in {-1, 1}
             \/ a = 0 /\ b = 0 /\ c \in {-1, 1}
          /\ x = m * a /\ y = m * b /\ z = m * c
      <4>1. CASE y = 0 /\ z = 0
        <5>1. m = Abs(x)
          BY <3>1, <3>3, <4>1, AbsIs
        <5>2. QED
          BY <3>1, <3>5, <3>6, <3>7, <4>1, <5>1
      <4>2. CASE x = 0 /\ z = 0
        <5>1. m = Abs(y)
          BY <3>1, <3>3, <4>2, AbsIs
        <5>2. QED
          BY <3>1, <3>5, <3>6, <3>7, <4>2, <5>1
      <4>3. CASE x = 0 /\ y = 0
        <5>1. m = Abs(z)
          BY <3>1, <3>3, <4>3, AbsIs
        <5>2. QED
          BY <3>1, <3>5, <3>6, <3>7, <4>3, <5>1
      <4>4. QED
        BY <3>2, <4>1, <4>2, <4>3
    <3> HIDE DEF a, b, c, u, x, y, z, m
    <3>9. u \in Vectors /\ u.pos[1] = a /\ u.pos[2] = b /\ u.pos[3] = c
      <4>1. a \in Int /\ b \in Int /\ c \in Int
        BY <3>8
      <4> DEFINE w == Cartesian(a, b, c)
      <4>2. w \in Vectors
        BY <4>1, VectorIs
      <4>3. w.pos[1] = a /\ w.pos[2] = b /\ w.pos[3] = c
        BY DEF Cartesian
      <4> HIDE DEF w
      <4>4. QED
        BY <3>4, <4>2, <4>3 DEF w
    <3>10. u \in Places /\ Cart(u) = u
      BY <3>9, VectorHas
    <3>11. OnAxis(u)
      BY <3>8, <3>9, AxisIs
    <3>12. Mod(u) = 1
      <4>1. Mod(u) = Abs(a) + Abs(b) + Abs(c)
        BY <3>9, <3>10, ModIs DEF Along
      <4>2. \A n \in {-1, 0, 1} : Abs(n) = IF n = 0 THEN 0 ELSE 1
        BY DEF Abs
      <4>3. QED
        BY <3>8, <4>1, <4>2
    <3>13. QED
      BY <3>1, <3>8, <3>9, <3>10, <3>11, <3>12 DEF x, y, z
  <2>3. QED
    BY <2>1, <2>2, PlaceHas
<1>3. DotProduct(u, u) = 1
  <2> HIDE DEF u
  <2>1. DotProduct(u, u) = 1 * 1
    BY <1>2, ModIs
  <2>2. QED
    BY <2>1
<1>4. QED
  BY <1>2, <1>3 DEF u, m

\* Opposite positions.
LEMMA NegatedIs ==
  ASSUME NEW p \in Places
  PROVE  /\ Negated(p) \in Places /\ Negated(p).polar = p.polar
         /\ Cart(Negated(p)) = Negated(Cart(p))
         /\ Cart(Negated(p)).pos[1] = -Cart(p).pos[1]
         /\ Cart(Negated(p)).pos[2] = -Cart(p).pos[2]
         /\ Cart(Negated(p)).pos[3] = -Cart(p).pos[3]
<1> DEFINE n == Negated(p)
           v == Cart(p)
           c == Cart(n)
           x == v.pos[1]
           y == v.pos[2]
           z == v.pos[3]
<1>1. v \in Vectors /\ x \in Int /\ y \in Int /\ z \in Int /\ ~v.polar
  BY CartIs, VectorHas
<1> DEFINE w == Cartesian(-x, -y, -z)
<1>2. w \in Vectors /\ w.pos[1] = -x /\ w.pos[2] = -y /\ w.pos[3] = -z /\ Negated(v) = w
  <2>1. Negated(v) = w
    BY <1>1 DEF Negated
  <2>2. -x \in Int /\ -y \in Int /\ -z \in Int
    BY <1>1
  <2> HIDE DEF x, y, z, v
  <2>3. QED
    BY <2>1, <2>2, VectorIs DEF v
<1>3. CASE ~p.polar
  <2>1. v = p /\ n = w
    BY <1>2, <1>3 DEF Cart, Negated
  <2>2. n \in Vectors /\ n \in Places /\ c = n /\ ~n.polar
    BY <1>2, <2>1, VectorHas
  <2>3. QED
    BY <1>2, <1>3, <2>1, <2>2, PlaceHas
<1>4. CASE p.polar
  <2> DEFINE az == p.pos[1]
             el == p.pos[2]
             d == p.pos[3]
             az2 == IF az + 2 >= 2 THEN az - 2 ELSE az + 2
             el2 == -el
  <2>1. az \in Int /\ el \in Int /\ d \in Int /\ d >= 0 /\ az2 \in Int /\ el2 \in Int
    BY <1>4, PlaceHas
  <2>2. n = PolarAt(az2, el2, d)
    BY <1>4 DEF Negated
  <2>3. Sin(az2) = -Sin(az) /\ Cos(az2) = -Cos(az) /\ Sin(el2) = -Sin(el) /\ Cos(el2) = Cos(el)
    BY <2>1, SineIs
  <2> HIDE DEF n, az2, el2, az, el, d
  <2>4. n \in Places /\ n.polar /\ n.pos[1] = az2 /\ n.pos[2] = el2 /\ n.pos[3] = d
    <3> DEFINE o == PolarAt(az2, el2, d)
    <3>1. o \in Places /\ o.polar /\ o.pos[1] = az2 /\ o.pos[2] = el2 /\ o.pos[3] = d
      BY <2>1, PolarIs
    <3> HIDE DEF o
    <3>2. QED
      BY <2>2, <3>1 DEF o
  <2>5. c \in Vectors /\ c.pos[1] = -d * Sin(az2) * Cos(el2) /\ c.pos[2] = d * Cos(az2) * Cos(el2) /\ c.pos[3] = d * Sin(el2)
    BY <2>4, CartIs
  <2>6. x = -d * Sin(az) * Cos(el) /\ y = d * Cos(az) * Cos(el) /\ z = d * Sin(el)
    BY <1>4, CartIs DEF az, el, d
  <2> DEFINE sa == Sin(az)
             ca == Cos(az)
             se == Sin(el)
             ce == Cos(el)
  <2>7. sa \in Int /\ ca \in Int /\ se \in Int /\ ce \in Int
    BY <2>1, SineIs
  <2> HIDE DEF c, v, w
  <2>8. c.pos[1] = -d * (-sa) * ce /\ c.pos[2] = d * (-ca) * ce /\ c.pos[3] = d * (-se)
    BY <2>3, <2>5
  <2>9. -d * (-sa) * ce = -(-d * sa * ce) /\ d * (-ca) * ce = -(d * ca * ce) /\ d * (-se) = -(d * se)
    <3> HIDE DEF sa, ca, se, ce
    <3>1. QED
      BY <2>1, <2>7
  <2>10. c.pos[1] = -x /\ c.pos[2] = -y /\ c.pos[3] = -z
    BY <2>6, <2>8, <2>9
  <2>11. c = w
    BY <1>2, <2>5, <2>10, SameVector
  <2>12. QED
    BY <1>2, <1>4, <2>4, <2>10, <2>11 DEF n, c, v
<1>5. QED
  BY <1>3, <1>4, PlaceHas

\* Multiples of positions.
LEMMA ScaledIs ==
  ASSUME NEW p \in Places, NEW val \in Int
  PROVE  /\ Scaled(p, val) \in Positions /\ (val >= 0 \/ ~p.polar => Scaled(p, val) \in Places)
         /\ Cart(Scaled(p, val)) = Scaled(Cart(p), val)
         /\ Cart(Scaled(p, val)).pos[1] = Cart(p).pos[1] * val
         /\ Cart(Scaled(p, val)).pos[2] = Cart(p).pos[2] * val
         /\ Cart(Scaled(p, val)).pos[3] = Cart(p).pos[3] * val
<1> DEFINE n == Scaled(p, val)
           v == Cart(p)
           c == Cart(n)
           x == v.pos[1]
           y == v.pos[2]
           z == v.pos[3]
<1>1. v \in Vectors /\ x \in Int /\ y \in Int /\ z \in Int /\ ~v.polar
  BY CartIs, VectorHas
<1> DEFINE w == Cartesian(x * val, y * val, z * val)
<1>2. w \in Vectors /\ w.pos[1] = x * val /\ w.pos[2] = y * val /\ w.pos[3] = z * val /\ Scaled(v, val) = w
  <2>1. Scaled(v, val) = w
    BY <1>1 DEF Scaled
  <2> DEFINE a == x * val
             b == y * val
             c0 == z * val
             o == Cartesian(a, b, c0)
  <2>2. a \in Int /\ b \in Int /\ c0 \in Int
    <3> HIDE DEF x, y, z
    <3>1. QED
      BY <1>1
  <2> HIDE DEF a, b, c0
  <2>3. o \in Vectors /\ o.pos[1] = a /\ o.pos[2] = b /\ o.pos[3] = c0
    BY <2>2, VectorIs
  <2>4. QED
    BY <2>1, <2>3 DEF a, b, c0
<1>3. CASE ~p.polar
  <2>1. v = p /\ n = w
    BY <1>2, <1>3 DEF Cart, Scaled
  <2>2. n \in Vectors /\ n \in Places /\ c = n
    BY <1>2, <2>1, VectorHas
  <2>3. QED
    BY <1>2, <2>1, <2>2, PlaceHas
<1>4. CASE p.polar
  <2> DEFINE az == p.pos[1]
             el == p.pos[2]
             d == p.pos[3]
             e == d * val
  <2>1. az \in Int /\ el \in Int /\ d \in Int /\ d >= 0
    BY <1>4, PlaceHas
  <2>2. n = PolarAt(az, el, e)
    BY <1>4 DEF Scaled
  <2> HIDE DEF n, az, el, d
  <2>3. e \in Int /\ (val >= 0 => e >= 0)
    BY <2>1
  <2> HIDE DEF e
  <2>4. n \in Positions /\ (val >= 0 => n \in Places) /\ n.polar /\ n.pos[1] = az /\ n.pos[2] = el /\ n.pos[3] = e
    BY <2>1, <2>2, <2>3, PolarIs
  <2>5. c \in Vectors /\ c.pos[1] = -e * Sin(az) * Cos(el) /\ c.pos[2] = e * Cos(az) * Cos(el) /\ c.pos[3] = e * Sin(el)
    BY <2>4, CartOf
  <2>6. x = -d * Sin(az) * Cos(el) /\ y = d * Cos(az) * Cos(el) /\ z = d * Sin(el)
    BY <1>4, CartIs DEF az, el, d
  <2> DEFINE sa == Sin(az)
             ca == Cos(az)
             se == Sin(el)
             ce == Cos(el)
  <2>7. sa \in Int /\ ca \in Int /\ se \in Int /\ ce \in Int
    BY <2>1, SineIs
  <2> HIDE DEF c, v, w
  <2>8. -e * sa * ce = (-d * sa * ce) * val /\ e * ca * ce = (d * ca * ce) * val /\ e * se = (d * se) * val
    <3> HIDE DEF sa, ca, se, ce
    <3>1. QED
      BY <2>1, <2>7 DEF e
  <2>9. c.pos[1] = x * val /\ c.pos[2] = y * val /\ c.pos[3] = z * val
    BY <2>5, <2>6, <2>8
  <2>10. c = w
    BY <1>2, <2>5, <2>9, SameVector
  <2>11. QED
    BY <1>2, <1>4, <2>4, <2>9, <2>10 DEF n, c, v
<1>5. QED
  BY <1>3, <1>4, PlaceHas

\* A position on an axis without distance is the origin.
LEMMA NoDistance ==
  ASSUME NEW p \in Places, Mod(p) = 0 PROVE Cart(p).pos[1] = 0 /\ Cart(p).pos[2] = 0 /\ Cart(p).pos[3] = 0
<1> DEFINE x == Cart(p).pos[1]
           y == Cart(p).pos[2]
           z == Cart(p).pos[3]
<1>1. x \in Int /\ y \in Int /\ z \in Int /\ Abs(x) + Abs(y) + Abs(z) = 0
  BY CartIs, VectorHas, ModIs DEF Along
<1> HIDE DEF x, y, z
<1>2. Abs(x) \in Nat /\ Abs(y) \in Nat /\ Abs(z) \in Nat
  BY <1>1, AbsIs
<1>3. Abs(x) = 0 /\ Abs(y) = 0 /\ Abs(z) = 0
  BY <1>1, <1>2
<1>4. QED
  BY <1>1, <1>3, AbsIs DEF x, y, z

LEMMA DotOf ==
  ASSUME NEW p \in Places, NEW r \in Places
  PROVE  /\ DotProduct(p, r) \in Int
         /\ DotProduct(p, r) = Cart(p).pos[1] * Cart(r).pos[1] + Cart(p).pos[2] * Cart(r).pos[2] + Cart(p).pos[3] * Cart(r).pos[3]
BY DotIs DEF DotProduct

\* The cosine, of angles between axes.
LEMMA AngleIs ==
  ASSUME NEW p \in Places, NEW r \in Places, OnAxis(p), OnAxis(r)
  PROVE  /\ Angle(p, r) \in Int
         /\ Mod(p) # 0 /\ Mod(r) # 0 => Mod(p) * Mod(r) * (1 - Angle(p, r)) = DotProduct(p, r)
         /\ Mod(p) = 0 \/ Mod(r) = 0 => Angle(p, r) = 1
<1> DEFINE m == Mod(p)
           n == Mod(r)
           u == Unit(p)
           v == Unit(r)
<1>1. m \in Nat /\ n \in Nat
  BY ModIs
<1>2. u \in Places /\ v \in Places
  <2>1. ASSUME NEW s \in Places, OnAxis(s) PROVE Unit(s) \in Places
    <3>1. CASE Mod(s) = 0
      BY <3>1 DEF Unit
    <3>2. CASE Mod(s) # 0
      BY <2>1, <3>2, UnitIs
    <3>3. QED
      BY <3>1, <3>2
  <2>2. QED
    BY <2>1
<1>3. Angle(p, r) = 1 - DotProduct(u, v) /\ DotProduct(u, v) \in Int
  BY <1>2, DotOf DEF Angle
<1>4. ASSUME m = 0 \/ n = 0 PROVE DotProduct(u, v) = 0
  <2> DEFINE a == Cart(u).pos[1]
             b == Cart(u).pos[2]
             c == Cart(u).pos[3]
             d == Cart(v).pos[1]
             e == Cart(v).pos[2]
             f == Cart(v).pos[3]
  <2>1. a \in Int /\ b \in Int /\ c \in Int /\ d \in Int /\ e \in Int /\ f \in Int
    BY <1>2, CartIs, VectorHas
  <2>2. DotProduct(u, v) = a * d + b * e + c * f
    BY <1>2, DotOf
  <2>3. (m = 0 => u = p) /\ (n = 0 => v = r)
    BY DEF Unit
  <2>4. (a = 0 /\ b = 0 /\ c = 0) \/ (d = 0 /\ e = 0 /\ f = 0)
    BY <1>4, <2>3, NoDistance
  <2> HIDE DEF a, b, c, d, e, f
  <2>5. QED
    BY <2>1, <2>2, <2>4
<1>5. ASSUME m # 0, n # 0 PROVE m * n * DotProduct(u, v) = DotProduct(p, r)
  <2> DEFINE a == Cart(u).pos[1]
             b == Cart(u).pos[2]
             c == Cart(u).pos[3]
             d == Cart(v).pos[1]
             e == Cart(v).pos[2]
             f == Cart(v).pos[3]
  <2>1. a \in Int /\ b \in Int /\ c \in Int /\ d \in Int /\ e \in Int /\ f \in Int
    BY <1>2, CartIs, VectorHas
  <2>2. DotProduct(u, v) = a * d + b * e + c * f
    BY <1>2, DotOf
  <2>3. Cart(p).pos[1] = m * a /\ Cart(p).pos[2] = m * b /\ Cart(p).pos[3] = m * c
    BY <1>5, UnitIs
  <2>4. Cart(r).pos[1] = n * d /\ Cart(r).pos[2] = n * e /\ Cart(r).pos[3] = n * f
    BY <1>5, UnitIs
  <2>5. DotProduct(p, r) = (m * a) * (n * d) + (m * b) * (n * e) + (m * c) * (n * f)
    BY <2>3, <2>4, DotOf
  <2> HIDE DEF a, b, c, d, e, f, m, n
  <2>6. m * n * (a * d + b * e + c * f) = (m * a) * (n * d) + (m * b) * (n * e) + (m * c) * (n * f)
    BY <1>1, <2>1
  <2>7. QED
    BY <2>2, <2>5, <2>6
<1> DEFINE k == DotProduct(u, v)
<1> HIDE DEF k, m, n
<1>6. 1 - (1 - k) = k /\ 1 - k \in Int /\ (k = 0 => 1 - k = 1)
  BY <1>3 DEF k
<1>7. QED
  BY <1>3, <1>4, <1>5, <1>6 DEF k, m, n

LEMMA SquaresAre ==
  ASSUME NEW n \in Int PROVE n * n \in Nat /\ (n * n = 0 => n = 0) /\ (n * n = 1 => n \in {-1, 1})
<1>1. CASE n >= 2
  <2>1. n * n >= 2 * n
    BY <1>1
  <2>2. QED
    BY <1>1, <2>1
<1>2. CASE n <= -2
  <2>1. n * n >= (-2) * n
    BY <1>2
  <2>2. QED
    BY <1>2, <2>1
<1>3. CASE n \in {-1, 0, 1}
  BY <1>3
<1>4. QED
  BY <1>1, <1>2, <1>3

\* Rotations, those of integer vectors to integer vectors, take axes to axes
\* and keep distances along them.
LEMMA RotatedAlong ==
  ASSUME NEW p \in Places, NEW a \in Units, OnAxis(p)
  PROVE  OnAxis(Rotated(p, a)) /\ Mod(Rotated(p, a)) = Mod(p)
<1> DEFINE R == Rotated(p, a)
           m == Mod(p)
<1>1. R \in Vectors /\ R \in Places /\ Cart(R) = R
  BY RotatedIs, VectorHas
<1>2. m \in Nat
  BY ModIs
<1>3. CASE m = 0
  <2> DEFINE x == R.pos[1]
             y == R.pos[2]
             z == R.pos[3]
             t == TurnedX(a, 0, 0, 0)
             u == TurnedY(a, 0, 0, 0)
             v == TurnedZ(a, 0, 0, 0)
  <2>1. Cart(p).pos[1] = 0 /\ Cart(p).pos[2] = 0 /\ Cart(p).pos[3] = 0
    BY <1>3, NoDistance
  <2>2. x \in Int /\ y \in Int /\ z \in Int /\ 4 * x = t /\ 4 * y = u /\ 4 * z = v
    BY <2>1, RotatedHas
  <2>3. t = 0 /\ u = 0 /\ v = 0
    <3>1. /\ TurnedX(a, 0 * 0, 0 * 0, 0 * 0) = 0 * t /\ t \in Int
          /\ TurnedY(a, 0 * 0, 0 * 0, 0 * 0) = 0 * u /\ u \in Int
          /\ TurnedZ(a, 0 * 0, 0 * 0, 0 * 0) = 0 * v /\ v \in Int
      BY TurnedIs
    <3>2. 0 * 0 = 0 /\ \A n \in Int : 0 * n = 0
      OBVIOUS
    <3>3. QED
      BY <3>1, <3>2
  <2> HIDE DEF x, y, z, t, u, v
  <2>4. x = 0 /\ y = 0 /\ z = 0
    BY <2>2, <2>3
  <2>5. OnAxis(R)
    BY <1>1, <2>4, AxisIs DEF x, y, z
  <2>6. Mod(R) = 0
    <3>1. Mod(R) = Abs(x) + Abs(y) + Abs(z)
      BY <1>1, ModIs DEF Along, x, y, z
    <3>2. Abs(0) = 0
      BY DEF Abs
    <3>3. QED
      BY <2>4, <3>1, <3>2
  <2>7. QED
    BY <1>3, <2>5, <2>6
<1>4. CASE m # 0
  <2> DEFINE u == Unit(p)
             U == Rotated(u, a)
             x == U.pos[1]
             y == U.pos[2]
             z == U.pos[3]
             c == Cart(u).pos[1]
             d == Cart(u).pos[2]
             e == Cart(u).pos[3]
             f == R.pos[1]
             g == R.pos[2]
             h == R.pos[3]
  <2>1. /\ u \in Places /\ DotProduct(u, u) = 1
        /\ Cart(p).pos[1] = m * c /\ Cart(p).pos[2] = m * d /\ Cart(p).pos[3] = m * e
    BY <1>4, UnitIs
  <2> HIDE DEF u
  <2>2. U \in Vectors /\ U \in Places /\ Cart(U) = U /\ DotProduct(U, U) = 1
    BY <2>1, RotatedIs, VectorHas, RotationKeepsProducts
  <2>3. c \in Int /\ d \in Int /\ e \in Int
    BY <2>1, CartIs, VectorHas
  <2>4. /\ x \in Int /\ 4 * x = TurnedX(a, c, d, e)
        /\ y \in Int /\ 4 * y = TurnedY(a, c, d, e)
        /\ z \in Int /\ 4 * z = TurnedZ(a, c, d, e)
    BY <2>1, RotatedHas
  <2>5. /\ f \in Int /\ 4 * f = TurnedX(a, m * c, m * d, m * e)
        /\ g \in Int /\ 4 * g = TurnedY(a, m * c, m * d, m * e)
        /\ h \in Int /\ 4 * h = TurnedZ(a, m * c, m * d, m * e)
    BY <2>1, RotatedHas
  <2>6. x * x + y * y + z * z = 1
    BY <2>2 DEF DotProduct
  <2> HIDE DEF c, d, e, x, y, z, f, g, h, m
  <2>7. f = m * x /\ g = m * y /\ h = m * z
    <3> DEFINE tx == TurnedX(a, c, d, e)
               ty == TurnedY(a, c, d, e)
               tz == TurnedZ(a, c, d, e)
    <3>1. m \in Int
      BY <1>2 DEF m
    <3>2. /\ TurnedX(a, m * c, m * d, m * e) = m * tx
          /\ TurnedY(a, m * c, m * d, m * e) = m * ty
          /\ TurnedZ(a, m * c, m * d, m * e) = m * tz
      BY <2>3, <3>1, TurnedIs
    <3> HIDE DEF tx, ty, tz
    <3>3. 4 * f = m * tx /\ 4 * g = m * ty /\ 4 * h = m * tz
      BY <2>5, <3>2
    <3>4. tx = 4 * x /\ ty = 4 * y /\ tz = 4 * z
      BY <2>4 DEF tx, ty, tz
    <3>5. 4 * f = m * (4 * x) /\ 4 * g = m * (4 * y) /\ 4 * h = m * (4 * z)
      BY <3>3, <3>4
    <3>6. QED
      BY <3>1, <2>4, <2>5, <3>5
  <2>8. \/ y = 0 /\ z = 0 /\ x \in {-1, 1}
        \/ x = 0 /\ z = 0 /\ y \in {-1, 1}
        \/ x = 0 /\ y = 0 /\ z \in {-1, 1}
    <3>1. \A n \in Int : n * n >= 0 /\ (n * n = 0 => n = 0) /\ (n * n = 1 => n \in {-1, 1})
      BY SquaresAre
    <3> DEFINE xx == x * x
               yy == y * y
               zz == z * z
    <3>2. xx \in Nat /\ yy \in Nat /\ zz \in Nat /\ xx + yy + zz = 1
      BY <2>4, <2>6, <3>1
    <3> HIDE DEF xx, yy, zz
    <3>3. (xx = 1 /\ yy = 0 /\ zz = 0) \/ (xx = 0 /\ yy = 1 /\ zz = 0) \/ (xx = 0 /\ yy = 0 /\ zz = 1)
      BY <3>2
    <3>4. QED
      BY <2>4, <3>1, <3>3 DEF xx, yy, zz
  <2>9. \/ g = 0 /\ h = 0 /\ f \in {-m, m}
        \/ f = 0 /\ h = 0 /\ g \in {-m, m}
        \/ f = 0 /\ g = 0 /\ h \in {-m, m}
    BY <1>2, <2>7, <2>8
  <2>10. OnAxis(R)
    BY <1>1, <2>9, AxisIs DEF f, g, h
  <2>11. Mod(R) = m
    <3>1. Mod(R) = Abs(f) + Abs(g) + Abs(h)
      BY <1>1, ModIs DEF Along, f, g, h
    <3>2. Abs(0) = 0 /\ Abs(m) = m /\ Abs(-m) = m
      BY <1>2 DEF Abs
    <3>3. QED
      BY <1>2, <2>9, <3>1, <3>2
  <2>12. QED
    BY <2>10, <2>11 DEF m
<1>5. QED
  BY <1>3, <1>4

\* The matrix of a rotation does what its quaternion does.
LEMMA MatrixIs ==
  ASSUME NEW p \in Places, NEW a \in Units
  PROVE  MappedBy(Cart(p), Matrix(a)) = Rotated(p, a)
<1> DEFINE v == Cart(p)
           x == v.pos[1]
           y == v.pos[2]
           z == v.pos[3]
           R == Rotated(p, a)
           r1 == R.pos[1]
           r2 == R.pos[2]
           r3 == R.pos[3]
           M == Matrix(a)
<1>1. v \in Vectors /\ ~v.polar /\ Cart(v) = v /\ x \in Int /\ y \in Int /\ z \in Int
  BY CartIs, VectorHas
<1>2. R \in Vectors /\ R = Cartesian(r1, r2, r3)
  BY RotatedIs, VectorHas
<1>3. /\ r1 \in Int /\ 4 * r1 = TurnedX(a, x, y, z)
      /\ r2 \in Int /\ 4 * r2 = TurnedY(a, x, y, z)
      /\ r3 \in Int /\ 4 * r3 = TurnedZ(a, x, y, z)
  BY RotatedHas
<1> DEFINE e1 == Cartesian(1, 0, 0)
           e2 == Cartesian(0, 1, 0)
           e3 == Cartesian(0, 0, 1)
<1>4. /\ e1 \in Vectors /\ e1.pos[1] = 1 /\ e1.pos[2] = 0 /\ e1.pos[3] = 0
      /\ e2 \in Vectors /\ e2.pos[1] = 0 /\ e2.pos[2] = 1 /\ e2.pos[3] = 0
      /\ e3 \in Vectors /\ e3.pos[1] = 0 /\ e3.pos[2] = 0 /\ e3.pos[3] = 1
  BY VectorIs
<1>5. M = [i \in 1 .. 3 |-> [j \in 1 .. 3 |-> Rotated(<<e1, e2, e3>>[j], a).pos[i]]]
  BY DEF Matrix, Axes
<1> HIDE DEF e1, e2, e3
<1> DEFINE R1 == Rotated(e1, a)
           R2 == Rotated(e2, a)
           R3 == Rotated(e3, a)
<1>6. \A i \in 1 .. 3 : M[i][1] = R1.pos[i] /\ M[i][2] = R2.pos[i] /\ M[i][3] = R3.pos[i]
  <2>1. 1 \in 1 .. 3 /\ 2 \in 1 .. 3 /\ 3 \in 1 .. 3
    OBVIOUS
  <2>2. <<e1, e2, e3>>[1] = e1 /\ <<e1, e2, e3>>[2] = e2 /\ <<e1, e2, e3>>[3] = e3
    OBVIOUS
  <2> DEFINE E == <<e1, e2, e3>>
  <2> HIDE DEF E, M
  <2>3. \A i \in 1 .. 3, j \in 1 .. 3 : M[i][j] = Rotated(E[j], a).pos[i]
    BY <1>5 DEF E
  <2>4. QED
    BY <2>1, <2>2, <2>3 DEF E
<1>7. /\ e1 \in Places /\ Cart(e1) = e1
      /\ e2 \in Places /\ Cart(e2) = e2
      /\ e3 \in Places /\ Cart(e3) = e3
  BY <1>4, VectorHas
<1>8. /\ M[1][1] \in Int /\ 4 * M[1][1] = TurnedX(a, 1, 0, 0)
      /\ M[2][1] \in Int /\ 4 * M[2][1] = TurnedY(a, 1, 0, 0)
      /\ M[3][1] \in Int /\ 4 * M[3][1] = TurnedZ(a, 1, 0, 0)
  <2>1. M[1][1] = R1.pos[1] /\ M[2][1] = R1.pos[2] /\ M[3][1] = R1.pos[3]
    BY <1>6
  <2> HIDE DEF M
  <2>2. QED
    BY <1>4, <1>7, <2>1, RotatedHas
<1>9. /\ M[1][2] \in Int /\ 4 * M[1][2] = TurnedX(a, 0, 1, 0)
      /\ M[2][2] \in Int /\ 4 * M[2][2] = TurnedY(a, 0, 1, 0)
      /\ M[3][2] \in Int /\ 4 * M[3][2] = TurnedZ(a, 0, 1, 0)
  <2>1. M[1][2] = R2.pos[1] /\ M[2][2] = R2.pos[2] /\ M[3][2] = R2.pos[3]
    BY <1>6
  <2> HIDE DEF M
  <2>2. QED
    BY <1>4, <1>7, <2>1, RotatedHas
<1>10. /\ M[1][3] \in Int /\ 4 * M[1][3] = TurnedX(a, 0, 0, 1)
       /\ M[2][3] \in Int /\ 4 * M[2][3] = TurnedY(a, 0, 0, 1)
       /\ M[3][3] \in Int /\ 4 * M[3][3] = TurnedZ(a, 0, 0, 1)
  <2>1. M[1][3] = R3.pos[1] /\ M[2][3] = R3.pos[2] /\ M[3][3] = R3.pos[3]
    BY <1>6
  <2> HIDE DEF M
  <2>2. QED
    BY <1>4, <1>7, <2>1, RotatedHas
<1> HIDE DEF x, y, z, r1, r2, r3, M, v, R
<1>11. MappedBy(v, M) = Cartesian(x * M[1][1] + y * M[1][2] + z * M[1][3],
                                  x * M[2][1] + y * M[2][2] + z * M[2][3],
                                  x * M[3][1] + y * M[3][2] + z * M[3][3])
  BY <1>1 DEF MappedBy, InCoordinatesOf, x, y, z
<1>12. ASSUME NEW i \in Int, NEW j \in Int, NEW k \in Int, NEW s \in Int, 4 * s = x * (4 * i) + y * (4 * j) + z * (4 * k)
       PROVE  s = x * i + y * j + z * k
  BY <1>1, <1>12
<1>13. r1 = x * M[1][1] + y * M[1][2] + z * M[1][3]
  <2> DEFINE t == TurnedX(a, x, y, z)
             u == TurnedX(a, 1, 0, 0)
             v0 == TurnedX(a, 0, 1, 0)
             w == TurnedX(a, 0, 0, 1)
  <2>3. t = x * u + y * v0 + z * w
    BY <1>1, TurnedIs
  <2>4. 4 * r1 = t /\ 4 * M[1][1] = u /\ 4 * M[1][2] = v0 /\ 4 * M[1][3] = w
    BY <1>3, <1>8, <1>9, <1>10
  <2> HIDE DEF t, u, v0, w
  <2>1. 4 * r1 = x * (4 * M[1][1]) + y * (4 * M[1][2]) + z * (4 * M[1][3])
    BY <2>3, <2>4
  <2>2. QED
    BY <1>3, <1>8, <1>9, <1>10, <1>12, <2>1
<1>14. r2 = x * M[2][1] + y * M[2][2] + z * M[2][3]
  <2> DEFINE t == TurnedY(a, x, y, z)
             u == TurnedY(a, 1, 0, 0)
             v0 == TurnedY(a, 0, 1, 0)
             w == TurnedY(a, 0, 0, 1)
  <2>3. t = x * u + y * v0 + z * w
    BY <1>1, TurnedIs
  <2>4. 4 * r2 = t /\ 4 * M[2][1] = u /\ 4 * M[2][2] = v0 /\ 4 * M[2][3] = w
    BY <1>3, <1>8, <1>9, <1>10
  <2> HIDE DEF t, u, v0, w
  <2>1. 4 * r2 = x * (4 * M[2][1]) + y * (4 * M[2][2]) + z * (4 * M[2][3])
    BY <2>3, <2>4
  <2>2. QED
    BY <1>3, <1>8, <1>9, <1>10, <1>12, <2>1
<1>15. r3 = x * M[3][1] + y * M[3][2] + z * M[3][3]
  <2> DEFINE t == TurnedZ(a, x, y, z)
             u == TurnedZ(a, 1, 0, 0)
             v0 == TurnedZ(a, 0, 1, 0)
             w == TurnedZ(a, 0, 0, 1)
  <2>3. t = x * u + y * v0 + z * w
    BY <1>1, TurnedIs
  <2>4. 4 * r3 = t /\ 4 * M[3][1] = u /\ 4 * M[3][2] = v0 /\ 4 * M[3][3] = w
    BY <1>3, <1>8, <1>9, <1>10
  <2> HIDE DEF t, u, v0, w
  <2>1. 4 * r3 = x * (4 * M[3][1]) + y * (4 * M[3][2]) + z * (4 * M[3][3])
    BY <2>3, <2>4
  <2>2. QED
    BY <1>3, <1>8, <1>9, <1>10, <1>12, <2>1
<1>16. QED
  BY <1>2, <1>11, <1>13, <1>14, <1>15 DEF v, R, M

LEMMA Cancelled == ASSUME NEW n \in Int, n # 0, NEW k \in Int, NEW l \in Int, n * k = n * l PROVE k = l
<1>1. ASSUME NEW d \in Int, n * d = 0 PROVE d = 0
  BY <1>1
<1>2. n * (k - l) = 0
  <2>1. n * (k - l) = n * k - n * l
    OBVIOUS
  <2> DEFINE s == n * k
             t == n * l
  <2>2. s \in Int /\ t \in Int /\ s = t /\ n * (k - l) = s - t
    BY <2>1
  <2> HIDE DEF s, t
  <2>3. QED
    BY <2>2
<1>3. k - l = 0
  BY <1>1, <1>2
<1>4. QED
  BY <1>3

\* Opposites are as long, and their products are opposite.
LEMMA NegatedMeasures ==
  ASSUME NEW p \in Places, NEW r \in Places
  PROVE  /\ Mod(Negated(p)) = Mod(p) /\ (OnAxis(p) => OnAxis(Negated(p)))
         /\ DotProduct(Negated(p), r) = -DotProduct(p, r) /\ DotProduct(r, Negated(p)) = -DotProduct(p, r)
<1> DEFINE n == Negated(p)
           x == Cart(p).pos[1]
           y == Cart(p).pos[2]
           z == Cart(p).pos[3]
           a == Cart(r).pos[1]
           b == Cart(r).pos[2]
           c == Cart(r).pos[3]
<1>1. x \in Int /\ y \in Int /\ z \in Int /\ a \in Int /\ b \in Int /\ c \in Int
  BY CartIs, VectorHas
<1>2. n \in Places /\ Cart(n).pos[1] = -x /\ Cart(n).pos[2] = -y /\ Cart(n).pos[3] = -z
  BY NegatedIs
<1>3. Mod(n) = Mod(p)
  <2>1. Mod(n) = Abs(-x) + Abs(-y) + Abs(-z) /\ Mod(p) = Abs(x) + Abs(y) + Abs(z)
    BY <1>2, ModIs DEF Along
  <2>2. \A k \in Int : Abs(-k) = Abs(k)
    BY DEF Abs
  <2>3. QED
    BY <1>1, <2>1, <2>2
<1>4. OnAxis(p) => OnAxis(n)
  <2> DEFINE u == Cart(p)
             v == Cart(n)
  <2>1. u \in Vectors /\ v \in Vectors
    BY <1>2, CartIs
  <2> HIDE DEF u, v
  <2>2. OnAxis(u) => OnAxis(v)
    <3>1. v.pos[1] = -u.pos[1] /\ v.pos[2] = -u.pos[2] /\ v.pos[3] = -u.pos[3]
      BY <1>2 DEF u, v
    <3>2. u.pos[1] \in Int /\ u.pos[2] \in Int /\ u.pos[3] \in Int
      BY <2>1, VectorHas
    <3>3. QED
      BY <2>1, <3>1, <3>2, AxisIs
  <2>3. QED
    BY <1>2, <2>2, ModIs DEF u, v
<1>5. DotProduct(n, r) = (-x) * a + (-y) * b + (-z) * c /\ DotProduct(r, n) = a * (-x) + b * (-y) + c * (-z)
  BY <1>2, DotOf
<1>6. DotProduct(p, r) = x * a + y * b + z * c
  BY DotOf
<1> HIDE DEF x, y, z, a, b, c
<1>7. /\ (-x) * a + (-y) * b + (-z) * c = -(x * a + y * b + z * c)
      /\ a * (-x) + b * (-y) + c * (-z) = -(x * a + y * b + z * c)
  BY <1>1
<1>8. QED
  BY <1>3, <1>4, <1>5, <1>6, <1>7

LEMMA SameCart == ASSUME NEW p, NEW q, Cart(p) = Cart(q) PROVE SamePlace(p, q)
BY DEF SamePlace

LEMMA ScaledUnit ==
  ASSUME NEW p \in Places, OnAxis(p) PROVE Cart(Scaled(Unit(p), Mod(p))) = Cart(p)
<1> DEFINE m == Mod(p)
           u == Unit(p)
           s == Scaled(u, m)
<1>1. m \in Nat
  BY ModIs
<1>2. u \in Places /\ Cart(p).pos[1] = Cart(u).pos[1] * m /\ Cart(p).pos[2] = Cart(u).pos[2] * m /\ Cart(p).pos[3] = Cart(u).pos[3] * m
  <2>1. CASE m = 0
    <3>1. u = p
      BY <2>1 DEF Unit
    <3> DEFINE x == Cart(p).pos[1]
               y == Cart(p).pos[2]
               z == Cart(p).pos[3]
    <3>2. x = 0 /\ y = 0 /\ z = 0
      BY <2>1, NoDistance
    <3> HIDE DEF x, y, z, m
    <3>3. x = x * m /\ y = y * m /\ z = z * m
      BY <2>1, <3>2
    <3>4. QED
      BY <3>1, <3>3 DEF x, y, z
  <2>2. CASE m # 0
    <3> DEFINE x == Cart(u).pos[1]
               y == Cart(u).pos[2]
               z == Cart(u).pos[3]
    <3>1. u \in Places /\ Cart(p).pos[1] = m * x /\ Cart(p).pos[2] = m * y /\ Cart(p).pos[3] = m * z
      BY <2>2, UnitIs
    <3>2. x \in Int /\ y \in Int /\ z \in Int
      BY <3>1, CartIs, VectorHas
    <3> HIDE DEF x, y, z, m, u
    <3>3. m * x = x * m /\ m * y = y * m /\ m * z = z * m
      BY <1>1, <3>2
    <3>4. QED
      BY <3>1, <3>3 DEF x, y, z
  <2>3. QED
    BY <2>1, <2>2
<1> HIDE DEF m, u
<1>3. s \in Places /\ Cart(s).pos[1] = Cart(p).pos[1] /\ Cart(s).pos[2] = Cart(p).pos[2] /\ Cart(s).pos[3] = Cart(p).pos[3]
  <2>1. m \in Int /\ m >= 0
    BY <1>1
  <2>2. QED
    BY <1>2, <2>1, ScaledIs
<1>4. Cart(s) \in Vectors /\ Cart(p) \in Vectors
  BY <1>3, CartIs
<1>5. QED
  BY <1>3, <1>4, SameVector DEF m, u

\* Angles are symmetric, between opposites they are straight, and rotations
\* keep them.
LEMMA AnglesAre ==
  ASSUME NEW p \in Places, NEW r \in Places, OnAxis(p), OnAxis(r), NEW a \in Units
  PROVE  /\ Angle(p, r) = Angle(r, p)
         /\ Angle(Rotated(p, a), Rotated(r, a)) = Angle(p, r)
         /\ Mod(p) # 0 => Angle(p, p) = 0 /\ Angle(p, Negated(p)) = 2
         /\ Mod(p) # 0 /\ Mod(r) # 0 => Angle(Negated(p), r) = 2 - Angle(p, r)
<1> DEFINE m == Mod(p)
           n == Mod(r)
           dot == DotProduct(p, r)
<1>1. m \in Nat /\ n \in Nat /\ dot \in Int /\ DotProduct(r, p) = dot /\ DotProduct(p, p) = m * m
  <2> DEFINE x == Cart(p).pos[1]
             y == Cart(p).pos[2]
             z == Cart(p).pos[3]
             b == Cart(r).pos[1]
             c == Cart(r).pos[2]
             d == Cart(r).pos[3]
  <2>1. x \in Int /\ y \in Int /\ z \in Int /\ b \in Int /\ c \in Int /\ d \in Int
    BY CartIs, VectorHas
  <2>2. dot = x * b + y * c + z * d /\ DotProduct(r, p) = b * x + c * y + d * z
    BY DotOf
  <2> HIDE DEF x, y, z, b, c, d
  <2>3. b * x + c * y + d * z = x * b + y * c + z * d
    BY <2>1
  <2>4. QED
    BY <2>2, <2>3, ModIs, DotOf
<1>2. ASSUME NEW k \in Int, NEW l \in Int, m # 0, n # 0, m * n * (1 - k) = m * n * (1 - l) PROVE k = l
  <2> DEFINE mn == m * n
  <2>1. mn \in Int /\ mn # 0
    <3> HIDE DEF m, n
    <3>1. QED
      BY <1>1, <1>2
  <2> HIDE DEF mn
  <2>2. 1 - k = 1 - l
    <3> DEFINE k1 == 1 - k
               l1 == 1 - l
    <3>1. k1 \in Int /\ l1 \in Int /\ mn * k1 = mn * l1
      BY <1>2 DEF mn
    <3> HIDE DEF k1, l1
    <3>2. k1 = l1
      BY <2>1, <3>1, Cancelled
    <3>3. QED
      BY <3>2 DEF k1, l1
  <2>3. QED
    BY <2>2
<1>3. Angle(p, r) = Angle(r, p)
  <2> DEFINE k == Angle(p, r)
             l == Angle(r, p)
  <2>1. /\ k \in Int /\ (m # 0 /\ n # 0 => m * n * (1 - k) = dot) /\ (m = 0 \/ n = 0 => k = 1)
        /\ l \in Int /\ (m # 0 /\ n # 0 => n * m * (1 - l) = dot) /\ (m = 0 \/ n = 0 => l = 1)
    BY <1>1, AngleIs
  <2> HIDE DEF k, l, m, n, dot
  <2>2. n * m = m * n
    BY <1>1
  <2>3. QED
    BY <1>2, <2>1, <2>2 DEF k, l
<1>4. Angle(Rotated(p, a), Rotated(r, a)) = Angle(p, r)
  <2> DEFINE k == Angle(p, r)
             l == Angle(Rotated(p, a), Rotated(r, a))
  <2>1. k \in Int /\ (m # 0 /\ n # 0 => m * n * (1 - k) = dot) /\ (m = 0 \/ n = 0 => k = 1)
    BY AngleIs
  <2>2. l \in Int /\ (m # 0 /\ n # 0 => m * n * (1 - l) = dot) /\ (m = 0 \/ n = 0 => l = 1)
    <3> DEFINE P == Rotated(p, a)
               R == Rotated(r, a)
    <3>1. P \in Places /\ R \in Places /\ OnAxis(P) /\ OnAxis(R) /\ Mod(P) = m /\ Mod(R) = n /\ DotProduct(P, R) = dot
      BY RotatedAlong, RotatedIs, VectorHas, RotationKeepsProducts
    <3> HIDE DEF P, R
    <3>2. QED
      BY <3>1, AngleIs DEF P, R
  <2> HIDE DEF k, l, m, n, dot
  <2>3. QED
    BY <1>2, <2>1, <2>2 DEF k, l
<1>5. ASSUME m # 0 PROVE Angle(p, p) = 0 /\ Angle(p, Negated(p)) = 2
  <2> DEFINE k == Angle(p, p)
             l == Angle(p, Negated(p))
             mm == m * m
  <2>1. k \in Int /\ mm * (1 - k) = mm
    BY <1>1, <1>5, AngleIs
  <2>2. l \in Int /\ mm * (1 - l) = -mm
    <3>1. Negated(p) \in Places /\ OnAxis(Negated(p)) /\ Mod(Negated(p)) = m /\ DotProduct(p, Negated(p)) = -mm
      BY <1>1, NegatedIs, NegatedMeasures
    <3>2. QED
      BY <1>5, <3>1, AngleIs
  <2>3. mm \in Int /\ mm # 0
    <3> HIDE DEF m
    <3>1. QED
      BY <1>1, <1>5
  <2> HIDE DEF k, l, mm
  <2> DEFINE l2 == l - 2
  <2>4. k \in Int /\ l2 \in Int /\ mm * k = 0 /\ mm * l2 = 0
    BY <2>1, <2>2, <2>3
  <2> HIDE DEF l2
  <2>5. \A d \in Int : mm * d = 0 => d = 0
    BY <2>3
  <2>6. k = 0 /\ l2 = 0
    BY <2>4, <2>5
  <2>7. k = 0 /\ l = 2
    BY <2>2, <2>6 DEF l2
  <2>8. QED
    BY <2>7 DEF k, l
<1>6. ASSUME m # 0, n # 0 PROVE Angle(Negated(p), r) = 2 - Angle(p, r)
  <2> DEFINE k == Angle(p, r)
             l == Angle(Negated(p), r)
  <2>1. k \in Int /\ m * n * (1 - k) = dot
    BY <1>6, AngleIs
  <2>2. l \in Int /\ m * n * (1 - l) = -dot
    <3>1. Negated(p) \in Places /\ OnAxis(Negated(p)) /\ Mod(Negated(p)) = m /\ DotProduct(Negated(p), r) = -dot
      BY NegatedIs, NegatedMeasures
    <3>2. QED
      BY <1>6, <3>1, AngleIs
  <2> HIDE DEF k, l, m, n, dot
  <2>3. m * n * (1 - (2 - k)) = -(m * n * (1 - k))
    BY <1>1, <2>1
  <2>4. 2 - k \in Int /\ m * n * (1 - (2 - k)) = m * n * (1 - l)
    BY <2>1, <2>2, <2>3
  <2>5. 2 - k = l
    BY <1>2, <1>6, <2>2, <2>4
  <2>6. QED
    BY <2>5 DEF k, l
<1>7. QED
  BY <1>3, <1>4, <1>5, <1>6

LEMMA ScalingIs ==
  ASSUME NEW v \in Vectors
  PROVE  ScaledBy(ScaledBy(v, <<1, -1, 2>>), <<2, 2, 1>>) = MappedBy(v, <<<<2, 0, 0>>, <<0, -2, 0>>, <<0, 0, 2>>>>)
<1> DEFINE x == v.pos[1]
           y == v.pos[2]
           z == v.pos[3]
           u == ScaledBy(v, <<1, -1, 2>>)
           w == ScaledBy(u, <<2, 2, 1>>)
           m == MappedBy(v, <<<<2, 0, 0>>, <<0, -2, 0>>, <<0, 0, 2>>>>)
<1>1. x \in Int /\ y \in Int /\ z \in Int /\ ~v.polar /\ Cart(v) = v
  BY VectorHas
<1>2. u \in Vectors /\ u.pos[1] = x /\ u.pos[2] = -y /\ u.pos[3] = 2 * z
  <2>1. u = Cartesian(x * 1, y * (-1), z * 2)
    BY <1>1 DEF ScaledBy, InCoordinatesOf
  <2> HIDE DEF x, y, z, u
  <2>2. x * 1 = x /\ y * (-1) = -y /\ z * 2 = 2 * z /\ -y \in Int /\ 2 * z \in Int
    BY <1>1
  <2> DEFINE b == -y
             c == 2 * z
             o == Cartesian(x, b, c)
  <2>3. b \in Int /\ c \in Int /\ u = o
    BY <2>1, <2>2
  <2> HIDE DEF b, c
  <2>4. o \in Vectors /\ o.pos[1] = x /\ o.pos[2] = b /\ o.pos[3] = c
    BY <1>1, <2>3, VectorIs
  <2>5. QED
    BY <2>3, <2>4 DEF b, c
<1> HIDE DEF u
<1>3. w \in Vectors /\ w.pos[1] = 2 * x /\ w.pos[2] = -(2 * y) /\ w.pos[3] = 2 * z
  <2> DEFINE a == u.pos[1]
             b == u.pos[2]
             c == u.pos[3]
  <2>1. a \in Int /\ b \in Int /\ c \in Int /\ ~u.polar /\ Cart(u) = u
    BY <1>2, VectorHas
  <2>2. w = Cartesian(a * 2, b * 2, c * 1)
    BY <2>1 DEF ScaledBy, InCoordinatesOf
  <2> HIDE DEF a, b, c, w, x, y, z
  <2>3. a = x /\ b = -y /\ c = 2 * z
    BY <1>2 DEF a, b, c
  <2> DEFINE d == a * 2
             e == b * 2
             f == c * 1
             o == Cartesian(d, e, f)
  <2>4. d \in Int /\ e \in Int /\ f \in Int /\ d = 2 * x /\ e = -(2 * y) /\ f = 2 * z /\ w = o
    BY <1>1, <2>1, <2>2, <2>3
  <2> HIDE DEF d, e, f
  <2>5. o \in Vectors /\ o.pos[1] = d /\ o.pos[2] = e /\ o.pos[3] = f
    BY <2>4, VectorIs
  <2>6. QED
    BY <2>4, <2>5
<1>4. m \in Vectors /\ m.pos[1] = 2 * x /\ m.pos[2] = -(2 * y) /\ m.pos[3] = 2 * z
  <2>1. m = Cartesian(x * 2 + y * 0 + z * 0, x * 0 + y * (-2) + z * 0, x * 0 + y * 0 + z * 2)
    BY <1>1 DEF MappedBy, InCoordinatesOf
  <2> HIDE DEF m, x, y, z
  <2> DEFINE d == x * 2 + y * 0 + z * 0
             e == x * 0 + y * (-2) + z * 0
             f == x * 0 + y * 0 + z * 2
             o == Cartesian(d, e, f)
  <2>2. d \in Int /\ e \in Int /\ f \in Int /\ d = 2 * x /\ e = -(2 * y) /\ f = 2 * z /\ m = o
    BY <1>1, <2>1
  <2> HIDE DEF d, e, f
  <2>3. o \in Vectors /\ o.pos[1] = d /\ o.pos[2] = e /\ o.pos[3] = f
    BY <2>2, VectorIs
  <2>4. QED
    BY <2>2, <2>3
<1> HIDE DEF w, m
<1>5. w = m
  BY <1>3, <1>4, SameVector
<1>6. QED
  BY <1>5 DEF u, w, m

LEMMA MeasuresAreKept ==
  ASSUME NEW p \in Places, NEW r \in Places, NEW a \in Units, NEW b \in Units PROVE MeasureLaw(p, r, a, b)
<1>1. ASSUME OnAxis(p)
      PROVE  /\ Mod(p) = Mod(Cart(p)) /\ Mod(p) * Mod(p) = DotProduct(p, p)
             /\ SamePlace(Scaled(Unit(p), Mod(p)), p)
             /\ Mod(p) # 0 => Angle(p, p) = 0 /\ Angle(p, Negated(p)) = 2
             /\ Mod(Rotated(p, a)) = Mod(p)
  <2>1. Mod(p) = Mod(Cart(p))
    <3>1. Cart(p) \in Places /\ Cart(Cart(p)) = Cart(p)
      BY CartIs, VectorHas
    <3>2. QED
      BY <3>1, ModIs
  <2>2. SamePlace(Scaled(Unit(p), Mod(p)), p)
    BY <1>1, ScaledUnit, SameCart
  <2>3. QED
    BY <1>1, <2>1, <2>2, ModIs, AnglesAre, RotatedAlong
<1>2. ASSUME OnAxis(Cart(p)) /\ OnAxis(Cart(r))
      PROVE  /\ Angle(p, r) = Angle(r, p)
             /\ Angle(Rotated(p, a), Rotated(r, a)) = Angle(p, r)
             /\ Mod(p) * Mod(r) # 0 => Angle(Negated(p), r) = 2 - Angle(p, r)
  <2>1. OnAxis(p) /\ OnAxis(r)
    BY <1>2, ModIs
  <2>2. Mod(p) * Mod(r) # 0 => Mod(p) # 0 /\ Mod(r) # 0
    <3>1. \A m \in Nat, n \in Nat : m * n # 0 => m # 0 /\ n # 0
      OBVIOUS
    <3>2. QED
      BY <3>1, ModIs
  <2>3. QED
    BY <2>1, <2>2, AnglesAre
<1>3. Cart(MappedBy(Cart(p), Matrix(a))) = Rotated(p, a)
  BY MatrixIs, RotatedIs, VectorHas
<1>4. MappedBy(MappedBy(Cart(p), Matrix(b)), Matrix(a)) = MappedBy(Cart(p), Matrix(Times(a, b)))
  <2> DEFINE R == Rotated(p, b)
             ab == Times(a, b)
  <2>1. R \in Places /\ Cart(R) = R /\ MappedBy(Cart(p), Matrix(b)) = R
    BY MatrixIs, RotatedIs, VectorHas
  <2>2. MappedBy(Cart(R), Matrix(a)) = Rotated(R, a)
    BY <2>1, MatrixIs
  <2>3. ab \in Units /\ MappedBy(Cart(p), Matrix(ab)) = Rotated(p, ab)
    <3>1. ab \in Units
      BY UnitTimes
    <3> HIDE DEF ab
    <3>2. QED
      BY <3>1, MatrixIs
  <2>4. QED
    BY <2>1, <2>2, <2>3, RotatedTwice
<1>5. ScaledBy(ScaledBy(Cart(p), <<1, -1, 2>>), <<2, 2, 1>>) = MappedBy(Cart(p), <<<<2, 0, 0>>, <<0, -2, 0>>, <<0, 0, 2>>>>)
  BY CartIs, ScalingIs
<1>6. QED
  BY <1>1, <1>2, <1>3, <1>4, <1>5 DEF MeasureLaw

LEMMA UnitFields ==
  ASSUME NEW q \in Units
  PROVE  /\ q \in Halves /\ q.w \in Int /\ q.x \in Int /\ q.y \in Int /\ q.z \in Int
         /\ q.w * q.w + q.x * q.x + q.y * q.y + q.z * q.z = 4
BY UnitsAreHurwitz, HurwitzFields DEF ScalarProduct

LEMMA CopyIs == ASSUME NEW a \in Halves PROVE Quat(a.w, a.x, a.y, a.z) = a
<1> DEFINE w == a.w
           x == a.x
           y == a.y
           z == a.z
           o == Quat(w, x, y, z)
<1>1. w \in Int /\ x \in Int /\ y \in Int /\ z \in Int
  BY HalvesAreIntegers
<1> HIDE DEF w, x, y, z
<1>2. o \in Halves /\ o.w = w /\ o.x = x /\ o.y = y /\ o.z = z
  BY <1>1, QuatIs
<1> HIDE DEF o
<1>3. o = a
  BY <1>2, SameQuat DEF w, x, y, z
<1>4. QED
  BY <1>3 DEF o, w, x, y, z

\* Division undoes multiplication.
LEMMA QuatOverIs ==
  ASSUME NEW a \in Halves, NEW b \in Halves, NEW k \in Int, k # 0,
         b.w = a.w * k, b.x = a.x * k, b.y = a.y * k, b.z = a.z * k
  PROVE  QuatOver(b, k) = a
<1> DEFINE o == QuatOver(b, k)
<1>1. a.w \in Int /\ a.x \in Int /\ a.y \in Int /\ a.z \in Int
  BY HalvesAreIntegers
<1>2. Quotient(b.w, k) = a.w /\ Quotient(b.x, k) = a.x /\ Quotient(b.y, k) = a.y /\ Quotient(b.z, k) = a.z
  <2>1. \A n \in Int : Quotient(n * k, k) = n
    BY QuotientIs
  <2>2. QED
    BY <1>1, <2>1
<1>3. o = Quat(a.w, a.x, a.y, a.z)
  BY <1>2 DEF QuatOver
<1>4. o \in Halves /\ o.w = a.w /\ o.x = a.x /\ o.y = a.y /\ o.z = a.z
  BY <1>1, <1>3, CopyIs
<1>5. QED
  BY <1>4, SameQuat DEF o

LEMMA QuatTimesIs ==
  ASSUME NEW a \in Halves, NEW k \in Int
  PROVE  LET b == QuatTimes(a, k) IN b \in Halves /\ b.w = a.w * k /\ b.x = a.x * k /\ b.y = a.y * k /\ b.z = a.z * k
<1> DEFINE w == a.w * k
           x == a.x * k
           y == a.y * k
           z == a.z * k
<1>1. w \in Int /\ x \in Int /\ y \in Int /\ z \in Int
  <2> DEFINE aw == a.w
             ax == a.x
             ay == a.y
             az == a.z
  <2>1. aw \in Int /\ ax \in Int /\ ay \in Int /\ az \in Int
    BY HalvesAreIntegers
  <2> HIDE DEF aw, ax, ay, az
  <2>2. aw * k \in Int /\ ax * k \in Int /\ ay * k \in Int /\ az * k \in Int
    BY <2>1
  <2>3. QED
    BY <2>2 DEF aw, ax, ay, az
<1>2. QuatTimes(a, k) = Quat(w, x, y, z)
  BY DEF QuatTimes
<1> HIDE DEF w, x, y, z
<1> DEFINE o == Quat(w, x, y, z)
<1>3. o \in Halves /\ o.w = w /\ o.x = x /\ o.y = y /\ o.z = z
  BY <1>1, QuatIs
<1> HIDE DEF o
<1>4. QuatTimes(a, k) = o
  BY <1>2 DEF o
<1>5. QED
  BY <1>3, <1>4 DEF w, x, y, z

LEMMA QuatSumIs ==
  ASSUME NEW a \in Halves, NEW b \in Halves
  PROVE  /\ LET s == QuatSum(a, b) IN s \in Halves /\ s.w = a.w + b.w /\ s.x = a.x + b.x /\ s.y = a.y + b.y /\ s.z = a.z + b.z
         /\ QuatDifference(QuatSum(a, b), b) = a
<1> DEFINE w == a.w + b.w
           x == a.x + b.x
           y == a.y + b.y
           z == a.z + b.z
           s == QuatSum(a, b)
           d == QuatDifference(s, b)
<1>1. /\ a.w \in Int /\ a.x \in Int /\ a.y \in Int /\ a.z \in Int
      /\ b.w \in Int /\ b.x \in Int /\ b.y \in Int /\ b.z \in Int
  BY HalvesAreIntegers
<1>2. w \in Int /\ x \in Int /\ y \in Int /\ z \in Int /\ s = Quat(w, x, y, z)
  BY <1>1 DEF QuatSum
<1> HIDE DEF w, x, y, z, s
<1>3. s \in Halves /\ s.w = w /\ s.x = x /\ s.y = y /\ s.z = z
  <2> DEFINE o == Quat(w, x, y, z)
  <2>1. o \in Halves /\ o.w = w /\ o.x = x /\ o.y = y /\ o.z = z
    BY <1>2, QuatIs
  <2> HIDE DEF o
  <2>2. s = o
    BY <1>2 DEF o
  <2>3. QED
    BY <2>1, <2>2
<1>4. d = Quat(s.w - b.w, s.x - b.x, s.y - b.y, s.z - b.z)
  BY DEF QuatDifference
<1> HIDE DEF d
<1>5. s.w - b.w = a.w /\ s.x - b.x = a.x /\ s.y - b.y = a.y /\ s.z - b.z = a.z
  BY <1>1, <1>3 DEF w, x, y, z
<1>6. d = Quat(a.w, a.x, a.y, a.z)
  BY <1>4, <1>5
<1>8. d = a
  BY <1>6, CopyIs
<1>9. QED
  BY <1>3, <1>8 DEF d, s, w, x, y, z

\* A rotation is its angle and axis.
LEMMA AngleAxisIs ==
  ASSUME NEW a \in Units, a.w # -2 PROVE AngleAxis(AngleOf(a), Direction(a)) = a
<1> DEFINE w == a.w
           x == a.x
           y == a.y
           z == a.z
           v == Direction(a)
           t == AngleOf(a)
           o == AngleAxis(t, v)
<1>1. w \in Int /\ x \in Int /\ y \in Int /\ z \in Int /\ w * w + x * x + y * y + z * z = 4 /\ a \in Halves
  BY UnitFields
<1>2. v \in Vectors /\ v \in Places /\ v.pos[1] = x /\ v.pos[2] = y /\ v.pos[3] = z /\ Cart(v) = v
  <2>1. v = Cartesian(x, y, z)
    BY DEF Direction
  <2> HIDE DEF v, x, y, z
  <2>2. v \in Vectors /\ v.pos[1] = x /\ v.pos[2] = y /\ v.pos[3] = z
    <3> DEFINE u == Cartesian(x, y, z)
    <3>1. u \in Vectors /\ u.pos[1] = x /\ u.pos[2] = y /\ u.pos[3] = z
      <4>1. x \in Int /\ y \in Int /\ z \in Int
        BY <1>1
      <4>2. QED
        BY <4>1, VectorIs
    <3> HIDE DEF u
    <3>2. QED
      BY <2>1, <3>1 DEF u
  <2>3. QED
    BY <2>2, VectorHas
<1> HIDE DEF v
<1>3. DotProduct(v, v) = x * x + y * y + z * z
  BY <1>2 DEF DotProduct
<1>4. t = CASE w = 2 -> 0 [] w = 1 -> 120 [] w = 0 -> 180 [] w = -1 -> 240 [] OTHER -> 360
  BY DEF AngleOf
<1> HIDE DEF t
<1> DEFINE norm == DotProduct(v, v)
           c == CASE t = 0 -> 2 [] t = 120 -> 1 [] t = 180 -> 0 [] OTHER -> -1
           s == CASE norm = 0 \/ t = 0 -> 0 [] norm = 1 -> 2 [] OTHER -> 1
<1>5. o = Quat(c, s * x, s * y, s * z)
  BY <1>2 DEF AngleAxis
<1> HIDE DEF w, x, y, z, o, norm
<1> DEFINE xx == x * x
           yy == y * y
           zz == z * z
           ww == w * w
<1>6. xx \in Nat /\ yy \in Nat /\ zz \in Nat /\ ww \in Nat /\ (xx = 0 => x = 0) /\ (yy = 0 => y = 0) /\ (zz = 0 => z = 0)
  BY <1>1, SquaresAre
<1>7. w \in {-1, 0, 1, 2}
  <2>1. ww <= 4
    <3>1. ww + xx + yy + zz = 4
      BY <1>1
    <3> HIDE DEF ww, xx, yy, zz
    <3>2. QED
      BY <1>6, <3>1
  <2>2. w <= 2
    <3>1. w >= 3 => w * w >= 3 * w
      BY <1>1
    <3>2. QED
      BY <1>1, <2>1, <3>1
  <2>3. w >= -2
    <3>1. w <= -3 => w * w >= (-3) * w
      BY <1>1
    <3>2. QED
      BY <1>1, <2>1, <3>1
  <2>4. w # -2
    BY DEF w
  <2>5. QED
    BY <1>1, <2>2, <2>3, <2>4
<1>8. ww + norm = 4 /\ norm = xx + yy + zz
  BY <1>1, <1>3 DEF norm
<1>9. c = w /\ s * x = x /\ s * y = y /\ s * z = z
  <2>1. CASE w = 2
    <3>1. t = 0
      BY <1>4, <2>1
    <3>2. ww = 4
      BY <2>1
    <3>3. x = 0 /\ y = 0 /\ z = 0 /\ norm = 0
      <4> HIDE DEF xx, yy, zz, ww
      <4>1. QED
        BY <1>6, <1>8, <3>2
    <3>4. c = 2
      BY <3>1
    <3>5. s = 0
      BY <3>1, <3>3
    <3> HIDE DEF c, s
    <3>6. QED
      BY <2>1, <3>3, <3>4, <3>5
  <2>2. CASE w \in {-1, 0, 1}
    <3>1. t # 0 /\ c = w
      BY <1>4, <2>2
    <3>2. ww \in {0, 1}
      BY <2>2
    <3>3. norm \in {3, 4}
      <4> HIDE DEF xx, yy, zz, ww
      <4>1. norm \in Int
        BY <1>6, <1>8
      <4>2. QED
        BY <1>8, <3>2, <4>1
    <3>4. s = 1
      BY <3>1, <3>3
    <3> HIDE DEF c, s
    <3>5. QED
      BY <1>1, <3>1, <3>4
  <2>3. QED
    BY <1>7, <2>1, <2>2
<1>10. o = Quat(w, x, y, z)
  BY <1>5, <1>9
<1>11. QED
  BY <1>1, <1>10, CopyIs DEF o, w, x, y, z, t, v

\* The norm of multiples of a rotation is a whole number.
LEMMA NormIs ==
  ASSUME NEW q, NEW s \in Nat, NEW r \in 1 .. s, ScalarProduct(q, q) = s, r * r = s PROVE Norm(q) = r
<1>1. ASSUME NEW n \in 0 .. s, n * n = s PROVE n = r
  <2>1. n \in Nat /\ r \in Nat /\ n * n = r * r
    BY <1>1
  <2>2. n < r => n * n < r * r
    <3>1. ASSUME n < r PROVE n * n < r * r
      <4>1. n * n <= n * r /\ n * r < r * r
        BY <2>1, <3>1
      <4>2. QED
        BY <2>1, <4>1
    <3>2. QED
      BY <3>1
  <2>3. n > r => n * n > r * r
    <3>1. ASSUME n > r PROVE n * n > r * r
      <4>1. n * n > n * r /\ n * r >= r * r
        BY <2>1, <3>1
      <4>2. QED
        BY <2>1, <4>1
    <3>2. QED
      BY <3>1
  <2>4. QED
    BY <2>1, <2>2, <2>3
<1>2. r \in 0 .. s /\ r * r = s
  OBVIOUS
<1>3. Norm(q) = CHOOSE n \in 0 .. s : n * n = s
  BY DEF Norm
<1>4. (CHOOSE n \in 0 .. s : n * n = s) = r
  BY <1>1, <1>2
<1>5. QED
  BY <1>3, <1>4

LEMMA ProductIs ==
  ASSUME NEW a \in Halves, NEW b \in Halves
  PROVE  /\ ScalarProduct(a, b) = a.w * b.w + a.x * b.x + a.y * b.y + a.z * b.z
         /\ ScalarProduct(a, b) \in Int /\ ScalarProduct(a, b) = ScalarProduct(b, a)
<1> DEFINE aw == a.w
           ax == a.x
           ay == a.y
           az == a.z
           bw == b.w
           bx == b.x
           by == b.y
           bz == b.z
<1>1. aw \in Int /\ ax \in Int /\ ay \in Int /\ az \in Int /\ bw \in Int /\ bx \in Int /\ by \in Int /\ bz \in Int
  BY HalvesAreIntegers
<1>2. ScalarProduct(a, b) = aw * bw + ax * bx + ay * by + az * bz /\ ScalarProduct(b, a) = bw * aw + bx * ax + by * ay + bz * az
  BY DEF ScalarProduct
<1> HIDE DEF aw, ax, ay, az, bw, bx, by, bz
<1>3. /\ aw * bw + ax * bx + ay * by + az * bz \in Int
      /\ bw * aw + bx * ax + by * ay + bz * az = aw * bw + ax * bx + ay * by + az * bz
  BY <1>1
<1>4. QED
  BY <1>2, <1>3 DEF aw, ax, ay, az, bw, bx, by, bz

LEMMA MultipleHas ==
  ASSUME NEW a \in Units, NEW k \in Int
  PROVE  LET b == QuatTimes(a, k) IN b \in Halves /\ ScalarProduct(b, b) = 4 * (k * k)
<1> DEFINE b == QuatTimes(a, k)
           aw == a.w
           ax == a.x
           ay == a.y
           az == a.z
<1>1. aw \in Int /\ ax \in Int /\ ay \in Int /\ az \in Int /\ a \in Halves /\ aw * aw + ax * ax + ay * ay + az * az = 4
  BY UnitFields
<1>2. b \in Halves /\ b.w = aw * k /\ b.x = ax * k /\ b.y = ay * k /\ b.z = az * k
  BY <1>1, QuatTimesIs
<1> HIDE DEF aw, ax, ay, az, b
<1>3. ScalarProduct(b, b) = (aw * k) * (aw * k) + (ax * k) * (ax * k) + (ay * k) * (ay * k) + (az * k) * (az * k)
  BY <1>2, ProductIs
<1>4. (aw * k) * (aw * k) + (ax * k) * (ax * k) + (ay * k) * (ay * k) + (az * k) * (az * k)
        = (aw * aw + ax * ax + ay * ay + az * az) * (k * k)
  BY <1>1
<1>5. QED
  BY <1>1, <1>2, <1>3, <1>4 DEF b

\* A multiple of a rotation, normalised, is the rotation, or its opposite.
LEMMA NormalisedIs ==
  ASSUME NEW a \in Units
  PROVE  /\ QuatOver(QuatTimes(a, 3), 3) = a
         /\ Normalised(QuatTimes(a, 3)) = a
         /\ Normalised(QuatTimes(a, -2)) = Opposite(a)
<1>1. a \in Halves /\ a \in Hurwitz
  BY UnitFields, UnitsAreHurwitz
<1>2. QuatOver(QuatTimes(a, 3), 3) = a
  <2> DEFINE b == QuatTimes(a, 3)
  <2>1. b \in Halves /\ b.w = a.w * 3 /\ b.x = a.x * 3 /\ b.y = a.y * 3 /\ b.z = a.z * 3
    BY <1>1, QuatTimesIs
  <2> HIDE DEF b
  <2>2. QuatOver(b, 3) = a
    BY <1>1, <2>1, QuatOverIs
  <2>3. QED
    BY <2>2 DEF b
<1>3. ASSUME NEW k \in Int, NEW n \in Nat, NEW c \in Halves, n # 0, n * n = 4 * (k * k), n <= 4 * (k * k),
             c.w * n = (a.w * k) * 2, c.x * n = (a.x * k) * 2, c.y * n = (a.y * k) * 2, c.z * n = (a.z * k) * 2
      PROVE  Normalised(QuatTimes(a, k)) = c
  <2> DEFINE b == QuatTimes(a, k)
             d == QuatTimes(b, 2)
             s == 4 * (k * k)
  <2>1. b \in Halves /\ b.w = a.w * k /\ b.x = a.x * k /\ b.y = a.y * k /\ b.z = a.z * k
    BY <1>1, QuatTimesIs
  <2>2. ScalarProduct(b, b) = s
    BY MultipleHas
  <2> HIDE DEF b
  <2>3. d \in Halves /\ d.w = b.w * 2 /\ d.x = b.x * 2 /\ d.y = b.y * 2 /\ d.z = b.z * 2
    BY <2>1, QuatTimesIs
  <2> HIDE DEF d
  <2>4. Norm(b) = n
    <3>1. s \in Nat /\ n \in 1 .. s /\ n * n = s
      BY <1>3
    <3> HIDE DEF s
    <3>2. QED
      BY <2>2, <3>1, NormIs
  <2>5. d.w = c.w * n /\ d.x = c.x * n /\ d.y = c.y * n /\ d.z = c.z * n
    BY <1>3, <2>1, <2>3
  <2>6. QuatOver(d, n) = c
    BY <1>3, <2>3, <2>5, QuatOverIs
  <2>7. QED
    BY <2>4, <2>6 DEF Normalised, b, d
<1> DEFINE w == a.w
           x == a.x
           y == a.y
           z == a.z
<1>4. w \in Int /\ x \in Int /\ y \in Int /\ z \in Int
  BY UnitFields
<1>5. Normalised(QuatTimes(a, 3)) = a
  <2> HIDE DEF w, x, y, z
  <2>1. w * 6 = (w * 3) * 2 /\ x * 6 = (x * 3) * 2 /\ y * 6 = (y * 3) * 2 /\ z * 6 = (z * 3) * 2
    BY <1>4
  <2>2. a.w * 6 = (a.w * 3) * 2 /\ a.x * 6 = (a.x * 3) * 2 /\ a.y * 6 = (a.y * 3) * 2 /\ a.z * 6 = (a.z * 3) * 2
    BY <2>1 DEF w, x, y, z
  <2>3. QED
    BY <1>1, <1>3, <2>2
<1>6. Normalised(QuatTimes(a, -2)) = Opposite(a)
  <2> DEFINE c == Opposite(a)
  <2>1. c \in Halves /\ c.w = -a.w /\ c.x = -a.x /\ c.y = -a.y /\ c.z = -a.z
    BY <1>1, OppositeIs, HurwitzIsHalves
  <2> HIDE DEF c, w, x, y, z
  <2>2. (-w) * 4 = (w * (-2)) * 2 /\ (-x) * 4 = (x * (-2)) * 2 /\ (-y) * 4 = (y * (-2)) * 2 /\ (-z) * 4 = (z * (-2)) * 2
    BY <1>4
  <2>3. c.w * 4 = (a.w * (-2)) * 2 /\ c.x * 4 = (a.x * (-2)) * 2 /\ c.y * 4 = (a.y * (-2)) * 2 /\ c.z * 4 = (a.z * (-2)) * 2
    BY <2>1, <2>2 DEF w, x, y, z
  <2>4. QED
    BY <1>3, <2>1, <2>3 DEF c
<1>7. QED
  BY <1>2, <1>5, <1>6

LEMMA MinusFour == ASSUME NEW n \in Int, n = -4 PROVE -n = 4 /\ Abs(n) = 4
<1>1. n + 4 = 0
  OBVIOUS
<1>2. \A m \in Int : m + 4 = 0 => -m = 4 /\ m < 0
  <2>1. ASSUME NEW m \in Int, m + 4 = 0 PROVE -m = 4 /\ m < 0
    BY <2>1
  <2>2. QED
    BY <2>1
<1>3. -n = 4 /\ n < 0
  BY <1>1, <1>2
<1>4. QED
  BY <1>3 DEF Abs

LEMMA FourSquaresAre ==
  ASSUME NEW a \in Halves, ScalarProduct(a, a) = 0 PROVE a.w = 0 /\ a.x = 0 /\ a.y = 0 /\ a.z = 0
<1> DEFINE w == a.w
           x == a.x
           y == a.y
           z == a.z
           ww == w * w
           xx == x * x
           yy == y * y
           zz == z * z
<1>1. w \in Int /\ x \in Int /\ y \in Int /\ z \in Int
  BY HalvesAreIntegers
<1>2. ww + xx + yy + zz = 0
  BY ProductIs
<1> HIDE DEF w, x, y, z
<1>3. ww \in Nat /\ xx \in Nat /\ yy \in Nat /\ zz \in Nat /\ (ww = 0 => w = 0) /\ (xx = 0 => x = 0) /\ (yy = 0 => y = 0) /\ (zz = 0 => z = 0)
  BY <1>1, SquaresAre
<1> HIDE DEF ww, xx, yy, zz
<1>4. w = 0 /\ x = 0 /\ y = 0 /\ z = 0
  BY <1>2, <1>3
<1>5. QED
  BY <1>4 DEF w, x, y, z

LEMMA UnitOpposite ==
  ASSUME NEW a \in Units
  PROVE  Opposite(a) \in Units /\ \A b \in Halves : ScalarProduct(b, Opposite(a)) = -ScalarProduct(b, a)
<1> DEFINE o == Opposite(a)
<1>1. a \in Halves /\ a \in Hurwitz /\ ScalarProduct(a, a) = 4
  BY UnitFields, UnitsAreHurwitz
<1>2. o \in Hurwitz /\ o \in Halves /\ o.w = -a.w /\ o.x = -a.x /\ o.y = -a.y /\ o.z = -a.z
  BY <1>1, OppositeIs, HurwitzIsHalves
<1> HIDE DEF o
<1>3. ASSUME NEW b \in Halves PROVE ScalarProduct(b, o) = -ScalarProduct(b, a)
  <2> DEFINE aw == a.w
             ax == a.x
             ay == a.y
             az == a.z
             bw == b.w
             bx == b.x
             by == b.y
             bz == b.z
  <2>1. aw \in Int /\ ax \in Int /\ ay \in Int /\ az \in Int /\ bw \in Int /\ bx \in Int /\ by \in Int /\ bz \in Int
    BY <1>1, HalvesAreIntegers
  <2>2. ScalarProduct(b, a) = bw * aw + bx * ax + by * ay + bz * az
    BY <1>1, ProductIs
  <2>3. ScalarProduct(b, o) = bw * (-aw) + bx * (-ax) + by * (-ay) + bz * (-az)
    BY <1>2, ProductIs
  <2> HIDE DEF aw, ax, ay, az, bw, bx, by, bz
  <2>4. bw * (-aw) + bx * (-ax) + by * (-ay) + bz * (-az) = -(bw * aw + bx * ax + by * ay + bz * az)
    BY <2>1
  <2>5. QED
    BY <2>2, <2>3, <2>4
<1>4. ScalarProduct(o, o) = 4
  <2>1. ScalarProduct(o, o) = -ScalarProduct(o, a) /\ ScalarProduct(o, a) = ScalarProduct(a, o) /\ ScalarProduct(a, o) = -ScalarProduct(a, a)
    BY <1>1, <1>2, <1>3, ProductIs
  <2> DEFINE k == ScalarProduct(o, o)
             l == ScalarProduct(o, a)
             m == ScalarProduct(a, o)
             n == ScalarProduct(a, a)
  <2>2. k = -l /\ l = m /\ m = -n /\ n = 4 /\ l \in Int
    BY <1>1, <1>2, <2>1, ProductIs
  <2> HIDE DEF k, l, m, n
  <2>3. k = 4
    BY <2>2, MinusFour
  <2>4. QED
    BY <2>3 DEF k
<1>5. o \in Units
  BY <1>2, <1>4, UnitsAre
<1>6. QED
  BY <1>3, <1>5 DEF o

\* Two rotations whose product is one are the same.
LEMMA SameUnits == ASSUME NEW a \in Units, NEW b \in Units, ScalarProduct(a, b) = 4 PROVE a = b
<1> DEFINE d == QuatDifference(a, b)
           aw == a.w
           ax == a.x
           ay == a.y
           az == a.z
           bw == b.w
           bx == b.x
           by == b.y
           bz == b.z
<1>1. /\ a \in Halves /\ aw \in Int /\ ax \in Int /\ ay \in Int /\ az \in Int
      /\ b \in Halves /\ bw \in Int /\ bx \in Int /\ by \in Int /\ bz \in Int
      /\ aw * aw + ax * ax + ay * ay + az * az = 4
      /\ bw * bw + bx * bx + by * by + bz * bz = 4
      /\ aw * bw + ax * bx + ay * by + az * bz = 4
  BY UnitFields, ProductIs
<1> DEFINE w == aw - bw
           x == ax - bx
           y == ay - by
           z == az - bz
           o == Quat(w, x, y, z)
<1>2. w \in Int /\ x \in Int /\ y \in Int /\ z \in Int
  BY <1>1
<1>3. w * w + x * x + y * y + z * z = 0
  <2> HIDE DEF aw, ax, ay, az, bw, bx, by, bz
  <2>1. w * w + x * x + y * y + z * z
          = (aw * aw + ax * ax + ay * ay + az * az) + (bw * bw + bx * bx + by * by + bz * bz) - 2 * (aw * bw + ax * bx + ay * by + az * bz)
    BY <1>1
  <2>2. QED
    BY <1>1, <2>1
<1> HIDE DEF w, x, y, z
<1>4. o \in Halves /\ o.w = w /\ o.x = x /\ o.y = y /\ o.z = z
  BY <1>2, QuatIs
<1> HIDE DEF o
<1>5. ScalarProduct(o, o) = 0
  BY <1>3, <1>4, ProductIs
<1>6. w = 0 /\ x = 0 /\ y = 0 /\ z = 0
  BY <1>4, <1>5, FourSquaresAre
<1>7. aw = bw /\ ax = bx /\ ay = by /\ az = bz
  <2>1. /\ aw \in Int /\ ax \in Int /\ ay \in Int /\ az \in Int
        /\ bw \in Int /\ bx \in Int /\ by \in Int /\ bz \in Int
    BY <1>1
  <2>2. aw - bw = 0 /\ ax - bx = 0 /\ ay - by = 0 /\ az - bz = 0
    BY <1>6 DEF w, x, y, z
  <2> HIDE DEF aw, ax, ay, az, bw, bx, by, bz
  <2>3. QED
    BY <2>1, <2>2
<1>8. QED
  BY <1>1, <1>7, SameQuat

\* Lerp() at its ends, and halfway between what is the same or opposite.
LEMMA LerpIs ==
  ASSUME NEW a \in Units, NEW b \in Units
  PROVE  /\ Lerp(a, b, 0) = a /\ Lerp(a, b, 2) = b
         /\ Lerp(a, a, 1) = a /\ Lerp(a, Opposite(a), 1) = Quat(0, 0, 0, 0)
<1>1. a \in Halves /\ b \in Halves
  BY UnitFields
<1>2. ASSUME NEW c \in Halves, NEW e \in Halves, NEW t \in {0, 1, 2},
             e.w * 2 = a.w * (2 - t) + c.w * t, e.x * 2 = a.x * (2 - t) + c.x * t,
             e.y * 2 = a.y * (2 - t) + c.y * t, e.z * 2 = a.z * (2 - t) + c.z * t
      PROVE  Lerp(a, c, t) = e
  <2> DEFINE k == 2 - t
             u == QuatTimes(a, k)
             v == QuatTimes(c, t)
             s == QuatSum(u, v)
  <2>1. k \in Int /\ t \in Int
    BY <1>2
  <2>2. Lerp(a, c, t) = QuatOver(s, 2)
    BY DEF Lerp
  <2>3. e.w * 2 = a.w * k + c.w * t /\ e.x * 2 = a.x * k + c.x * t /\ e.y * 2 = a.y * k + c.y * t /\ e.z * 2 = a.z * k + c.z * t
    BY <1>2
  <2> HIDE DEF k
  <2>4. u \in Halves /\ u.w = a.w * k /\ u.x = a.x * k /\ u.y = a.y * k /\ u.z = a.z * k
    BY <1>1, <2>1, QuatTimesIs
  <2>5. v \in Halves /\ v.w = c.w * t /\ v.x = c.x * t /\ v.y = c.y * t /\ v.z = c.z * t
    BY <1>2, <2>1, QuatTimesIs
  <2> HIDE DEF u, v
  <2>6. s \in Halves /\ s.w = u.w + v.w /\ s.x = u.x + v.x /\ s.y = u.y + v.y /\ s.z = u.z + v.z
    BY <2>4, <2>5, QuatSumIs
  <2> HIDE DEF s
  <2>7. s.w = e.w * 2 /\ s.x = e.x * 2 /\ s.y = e.y * 2 /\ s.z = e.z * 2
    BY <2>3, <2>4, <2>5, <2>6
  <2>8. QuatOver(s, 2) = e
    BY <1>2, <2>6, <2>7, QuatOverIs
  <2>9. QED
    BY <2>2, <2>8
<1>3. ASSUME NEW m \in Int, NEW n \in Int
      PROVE  m * 2 = m * (2 - 0) + n * 0 /\ n * 2 = m * (2 - 2) + n * 2 /\ m * 2 = m * (2 - 1) + m * 1 /\ 0 * 2 = m * (2 - 1) + (-m) * 1
  OBVIOUS
<1>4. /\ a.w \in Int /\ a.x \in Int /\ a.y \in Int /\ a.z \in Int
      /\ b.w \in Int /\ b.x \in Int /\ b.y \in Int /\ b.z \in Int
  BY <1>1, HalvesAreIntegers
<1>5. Lerp(a, b, 0) = a
  BY <1>1, <1>2, <1>3, <1>4
<1>6. Lerp(a, b, 2) = b
  BY <1>1, <1>2, <1>3, <1>4
<1>7. Lerp(a, a, 1) = a
  BY <1>1, <1>2, <1>3, <1>4
<1>8. Lerp(a, Opposite(a), 1) = Quat(0, 0, 0, 0)
  <2> DEFINE c == Opposite(a)
             e == Quat(0, 0, 0, 0)
  <2>1. c \in Halves /\ c.w = -a.w /\ c.x = -a.x /\ c.y = -a.y /\ c.z = -a.z
    BY UnitsAreHurwitz, OppositeIs, HurwitzIsHalves
  <2>2. e \in Halves /\ e.w = 0 /\ e.x = 0 /\ e.y = 0 /\ e.z = 0
    BY QuatIs
  <2> HIDE DEF c, e
  <2>3. \A m \in Int : 0 * 2 = m * (2 - 1) + (-m) * 1
    BY <1>3
  <2>4. /\ e.w * 2 = a.w * (2 - 1) + c.w * 1 /\ e.x * 2 = a.x * (2 - 1) + c.x * 1
        /\ e.y * 2 = a.y * (2 - 1) + c.y * 1 /\ e.z * 2 = a.z * (2 - 1) + c.z * 1
    BY <1>4, <2>1, <2>2, <2>3
  <2>5. Lerp(a, c, 1) = e
    BY <1>2, <2>1, <2>2, <2>4
  <2>6. QED
    BY <2>5 DEF c, e
<1>9. QED
  BY <1>5, <1>6, <1>7, <1>8

LEMMA RotationsAreInterpolated == ASSUME NEW a \in Units, NEW b \in Units PROVE QuaternionLaw(a, b)
<1> DEFINE dot == ScalarProduct(a, b)
           o == Opposite(b)
<1>1. a \in Halves /\ b \in Halves /\ a \in Hurwitz /\ b \in Hurwitz
  BY UnitFields, UnitsAreHurwitz
<1>2. dot \in Int /\ o \in Units /\ ScalarProduct(a, o) = -dot
  BY <1>1, ProductIs, UnitOpposite
<1>3. a.w >= 0 => AngleAxis(AngleOf(a), Direction(a)) = a
  BY AngleAxisIs
<1>4. QuatDifference(QuatSum(a, b), b) = a
  BY <1>1, QuatSumIs
<1>5. \A t \in {0, 2} : Slerp(a, b, t) \in (IF t = 0 THEN {a} ELSE {b, Opposite(b)})
  BY LerpIs DEF Slerp
<1>6. ASSUME b # a, b # o, b # Opposite(a) PROVE ScalarProduct(a, Slerp(a, b, 2)) >= 0
  <2>1. dot # 4
    BY <1>6, SameUnits
  <2>2. dot # -4
    <3>1. ASSUME dot = -4 PROVE b = Opposite(a)
      <4> HIDE DEF o, dot
      <4>1. ScalarProduct(a, o) = 4
        BY <1>2, <3>1, MinusFour
      <4>2. a = o
        BY <1>2, <4>1, SameUnits
      <4>3. Opposite(o) = b
        <5> DEFINE c == Opposite(o)
        <5>1. o \in Hurwitz
          BY <1>2, UnitsAreHurwitz
        <5>2. c \in Hurwitz /\ c.w = -o.w /\ c.x = -o.x /\ c.y = -o.y /\ c.z = -o.z
          BY <5>1, OppositeIs
        <5>3. o.w = -b.w /\ o.x = -b.x /\ o.y = -b.y /\ o.z = -b.z
          BY <1>1, OppositeIs DEF o
        <5> HIDE DEF c
        <5>4. b.w \in Int /\ b.x \in Int /\ b.y \in Int /\ b.z \in Int
          BY <1>1, HalvesAreIntegers
        <5>5. c.w = b.w /\ c.x = b.x /\ c.y = b.y /\ c.z = b.z
          BY <5>2, <5>3, <5>4
        <5>6. c = b
          BY <1>1, <5>2, <5>5, HurwitzIsHalves, SameQuat
        <5>7. QED
          BY <5>6 DEF c
      <4>4. QED
        BY <4>2, <4>3
    <3>2. QED
      BY <1>6, <3>1
  <2>3. Abs(dot) # 4
    <3>1. Abs(dot) = dot \/ Abs(dot) = -dot
      BY <1>2, AbsIs
    <3> HIDE DEF dot
    <3>2. QED
      BY <1>2, <2>1, <2>2, <3>1
  <2>4. Slerp(a, b, 2) = IF dot < 0 THEN o ELSE b
    BY <2>3 DEF Slerp
  <2> HIDE DEF dot, o
  <2>5. CASE dot < 0
    BY <1>2, <2>4, <2>5
  <2>6. CASE dot >= 0
    <3>1. Slerp(a, b, 2) = b
      BY <1>2, <2>4, <2>6
    <3>2. QED
      BY <2>6, <3>1 DEF dot
  <2>7. QED
    BY <1>2, <2>5, <2>6
<1>7. b # o
  <2>1. o.w = -b.w /\ o.x = -b.x /\ o.y = -b.y /\ o.z = -b.z
    BY <1>1, OppositeIs
  <2>2. /\ b.w \in Int /\ b.x \in Int /\ b.y \in Int /\ b.z \in Int
        /\ b.w * b.w + b.x * b.x + b.y * b.y + b.z * b.z = 4
    BY UnitFields
  <2> HIDE DEF o
  <2>3. ASSUME b = o PROVE FALSE
    <3>1. b.w = 0 /\ b.x = 0 /\ b.y = 0 /\ b.z = 0
      <4>1. b.w = -b.w /\ b.x = -b.x /\ b.y = -b.y /\ b.z = -b.z
        BY <2>1, <2>3
      <4>2. \A n \in Int : n = -n => n = 0
        OBVIOUS
      <4>3. QED
        BY <2>2, <4>1, <4>2
    <3>2. b.w * b.w + b.x * b.x + b.y * b.y + b.z * b.z = 0 * 0 + 0 * 0 + 0 * 0 + 0 * 0
      BY <3>1
    <3>3. QED
      BY <2>2, <3>2
  <2>4. QED
    BY <2>3
<1>8. Slerp(a, a, 1) = a
  <2>1. ScalarProduct(a, a) = 4 /\ Abs(4) = 4
    BY UnitsAreHurwitz DEF Abs
  <2>2. QED
    BY <2>1, LerpIs DEF Slerp
<1>9. ScalarProduct(a, Slerp(a, a, 2)) >= 0
  <2>1. ScalarProduct(a, a) = 4 /\ Abs(4) = 4
    BY UnitsAreHurwitz DEF Abs
  <2>2. Slerp(a, a, 2) = a
    BY <2>1, LerpIs DEF Slerp
  <2>3. QED
    BY <2>1, <2>2
<1>10. QED
  BY <1>3, <1>4, <1>5, <1>6, <1>7, <1>8, <1>9, NormalisedIs DEF QuaternionLaw

\* Sums and differences of vectors.
LEMMA PlusIs ==
  ASSUME NEW u \in Vectors, NEW v \in Vectors
  PROVE  /\ LET s == Plus(u, v)
            IN  s \in Vectors /\ s.pos[1] = u.pos[1] + v.pos[1] /\ s.pos[2] = u.pos[2] + v.pos[2] /\ s.pos[3] = u.pos[3] + v.pos[3]
         /\ LET s == Minus(u, v)
            IN  s \in Vectors /\ s.pos[1] = u.pos[1] - v.pos[1] /\ s.pos[2] = u.pos[2] - v.pos[2] /\ s.pos[3] = u.pos[3] - v.pos[3]
<1> DEFINE x == u.pos[1] + v.pos[1]
           y == u.pos[2] + v.pos[2]
           z == u.pos[3] + v.pos[3]
           s == Cartesian(x, y, z)
           f == u.pos[1] - v.pos[1]
           g == u.pos[2] - v.pos[2]
           h == u.pos[3] - v.pos[3]
           d == Cartesian(f, g, h)
<1>1. /\ ~u.polar /\ u.pos[1] \in Int /\ u.pos[2] \in Int /\ u.pos[3] \in Int /\ Cart(u) = u
      /\ v.pos[1] \in Int /\ v.pos[2] \in Int /\ v.pos[3] \in Int /\ Cart(v) = v
  BY VectorHas
<1>2. Plus(u, v) = s /\ Minus(u, v) = d
  BY <1>1 DEF Plus, Minus, InCoordinatesOf
<1>3. x \in Int /\ y \in Int /\ z \in Int /\ f \in Int /\ g \in Int /\ h \in Int
  BY <1>1
<1> HIDE DEF x, y, z, f, g, h
<1>4. s \in Vectors /\ s.pos[1] = x /\ s.pos[2] = y /\ s.pos[3] = z
  BY <1>3, VectorIs
<1>5. d \in Vectors /\ d.pos[1] = f /\ d.pos[2] = g /\ d.pos[3] = h
  BY <1>3, VectorIs
<1> HIDE DEF s, d
<1>6. QED
  BY <1>2, <1>4, <1>5 DEF x, y, z, f, g, h

LEMMA PlusIsUndone ==
  ASSUME NEW u \in Vectors, NEW v \in Vectors PROVE Minus(Plus(u, v), v) = u /\ Plus(Minus(u, v), v) = u
<1> DEFINE s == Plus(u, v)
           d == Minus(u, v)
           a == Minus(s, v)
           b == Plus(d, v)
<1>1. /\ s \in Vectors /\ s.pos[1] = u.pos[1] + v.pos[1] /\ s.pos[2] = u.pos[2] + v.pos[2] /\ s.pos[3] = u.pos[3] + v.pos[3]
      /\ d \in Vectors /\ d.pos[1] = u.pos[1] - v.pos[1] /\ d.pos[2] = u.pos[2] - v.pos[2] /\ d.pos[3] = u.pos[3] - v.pos[3]
  BY PlusIs
<1> HIDE DEF s, d
<1>2. /\ a \in Vectors /\ a.pos[1] = s.pos[1] - v.pos[1] /\ a.pos[2] = s.pos[2] - v.pos[2] /\ a.pos[3] = s.pos[3] - v.pos[3]
      /\ b \in Vectors /\ b.pos[1] = d.pos[1] + v.pos[1] /\ b.pos[2] = d.pos[2] + v.pos[2] /\ b.pos[3] = d.pos[3] + v.pos[3]
  BY <1>1, PlusIs
<1> HIDE DEF a, b
<1>3. /\ u.pos[1] \in Int /\ u.pos[2] \in Int /\ u.pos[3] \in Int
      /\ v.pos[1] \in Int /\ v.pos[2] \in Int /\ v.pos[3] \in Int
  BY VectorHas
<1>4. /\ a.pos[1] = u.pos[1] /\ a.pos[2] = u.pos[2] /\ a.pos[3] = u.pos[3]
      /\ b.pos[1] = u.pos[1] /\ b.pos[2] = u.pos[2] /\ b.pos[3] = u.pos[3]
  BY <1>1, <1>2, <1>3
<1>5. a = u /\ b = u
  BY <1>2, <1>4, SameVector
<1>6. QED
  BY <1>5 DEF a, b, s, d

LEMMA NegatedTwice ==
  ASSUME NEW p \in Places PROVE Cart(Negated(Negated(p))) = Cart(p) /\ (~p.polar => Negated(Negated(p)) = p)
<1> DEFINE n == Negated(p)
           m == Negated(n)
           u == Cart(p)
           w == Cart(m)
<1>1. n \in Places /\ n.polar = p.polar /\ Cart(n).pos[1] = -u.pos[1] /\ Cart(n).pos[2] = -u.pos[2] /\ Cart(n).pos[3] = -u.pos[3]
  BY NegatedIs
<1>2. u \in Vectors /\ u.pos[1] \in Int /\ u.pos[2] \in Int /\ u.pos[3] \in Int
  BY CartIs, VectorHas
<1> HIDE DEF n, u
<1>3. /\ m \in Places /\ m.polar = n.polar
      /\ w.pos[1] = -Cart(n).pos[1] /\ w.pos[2] = -Cart(n).pos[2] /\ w.pos[3] = -Cart(n).pos[3]
  BY <1>1, NegatedIs
<1>4. w \in Vectors
  BY <1>3, CartIs
<1> HIDE DEF w, m
<1>5. w.pos[1] = u.pos[1] /\ w.pos[2] = u.pos[2] /\ w.pos[3] = u.pos[3]
  <2>1. \A k \in Int : -(-k) = k
    OBVIOUS
  <2>2. QED
    BY <1>1, <1>2, <1>3, <2>1
<1>6. w = u
  BY <1>2, <1>4, <1>5, SameVector
<1>7. ASSUME ~p.polar PROVE m = p
  <2>1. m \in Vectors /\ p \in Vectors
    BY <1>1, <1>3, <1>7, PlaceHas
  <2>2. w = m /\ u = p
    BY <2>1, VectorHas DEF w, u
  <2>3. QED
    BY <1>6, <2>2
<1>8. QED
  BY <1>6, <1>7 DEF w, m, n, u

LEMMA TransformIsUndone ==
  ASSUME NEW v \in Vectors, NEW a \in Moves
  PROVE  LET moved == ApplyTransform(v, a)
         IN  moved \in Vectors /\ moved = Plus(Rotated(Plus(v, a.pre), a.rotation), a.post)
             /\ RemoveTransform(moved, a) = v /\ Minus(Unrotated(Minus(moved, a.post), a.rotation), a.pre) = v
<1> DEFINE moved == ApplyTransform(v, a)
           s == Plus(v, a.pre)
           R == Rotated(s, a.rotation)
           m == Plus(R, a.post)
<1>1. a.pre \in Vectors /\ a.post \in Vectors /\ a.rotation \in Units
  BY DEF Moves
<1>2. ~v.polar /\ Cart(v) = v
  BY VectorHas
<1>3. s \in Vectors
  BY <1>1, PlusIs
<1>4. s \in Places /\ Cart(s) = s
  BY <1>3, VectorHas
<1>5. R \in Vectors /\ Unrotated(R, a.rotation) = s
  BY <1>1, <1>4, RotatedIs, RotationIsUndone
<1>6. m \in Vectors
  BY <1>1, <1>5, PlusIs
<1>7. ~m.polar /\ Cart(m) = m
  BY <1>6, VectorHas
<1>8. moved = m
  BY <1>2 DEF ApplyTransform, InCoordinatesOf
<1>9. Minus(m, a.post) = R /\ Minus(s, a.pre) = v
  BY <1>1, <1>3, <1>5, PlusIsUndone
<1>10. Minus(Unrotated(Minus(m, a.post), a.rotation), a.pre) = v
  BY <1>5, <1>9
<1>11. RemoveTransform(m, a) = v
  BY <1>7, <1>10 DEF RemoveTransform, InCoordinatesOf
<1>12. QED
  BY <1>6, <1>8, <1>10, <1>11

LEMMA TransformsAreReversible ==
  ASSUME NEW p \in Places, NEW a \in Moves, NEW b \in Moves PROVE TransformLaw(p, a, b)
<1> DEFINE v == Cart(p)
           moved == ApplyTransform(v, a)
           q == ApplyTransform(p, a)
<1>1. /\ a.pre \in Vectors /\ a.post \in Vectors /\ a.rotation \in Units
      /\ b.pre \in Vectors /\ b.post \in Vectors /\ b.rotation \in Units
      /\ a = [pre |-> a.pre, rotation |-> a.rotation, post |-> a.post]
  BY DEF Moves
<1>2. v \in Vectors /\ Cart(v) = v
  BY CartIs
<1>3. /\ moved \in Vectors /\ moved = Plus(Rotated(Plus(v, a.pre), a.rotation), a.post)
      /\ RemoveTransform(moved, a) = v /\ Minus(Unrotated(Minus(moved, a.post), a.rotation), a.pre) = v
  <2> HIDE DEF v
  <2>1. QED
    BY <1>2, TransformIsUndone
<1>4. ASSUME p.polar, OnAxis(moved)
      PROVE  q.polar /\ SamePlace(q, moved) /\ SamePlace(RemoveTransform(q, a), p)
  <2>1. q = Polar(moved)
    BY <1>3, <1>4 DEF ApplyTransform, InCoordinatesOf
  <2> HIDE DEF moved, q
  <2>2. q \in Places /\ q.polar /\ Cart(q) = moved
    BY <1>3, <1>4, <2>1, PolarOfVector
  <2>3. Cart(moved) = moved
    BY <1>3, VectorHas
  <2>4. RemoveTransform(q, a) = Polar(v)
    BY <1>3, <2>2 DEF RemoveTransform, InCoordinatesOf
  <2>5. OnAxis(v)
    BY <1>4, PolarIsOnAxis
  <2>6. Cart(Polar(v)) = v
    <3> HIDE DEF v
    <3>1. QED
      BY <1>2, <2>5, PolarOfVector
  <2>7. QED
    BY <2>2, <2>3, <2>4, <2>6, SameCart
<1>5. SubTransform(AddTransform(a, b), b) = a
  <2> DEFINE t == AddTransform(a, b)
  <2>1. t.pre = Plus(a.pre, b.pre) /\ t.rotation = Times(a.rotation, b.rotation) /\ t.post = Plus(a.post, b.post)
    BY DEF AddTransform, Transform
  <2>2. Minus(Plus(a.pre, b.pre), b.pre) = a.pre /\ Minus(Plus(a.post, b.post), b.post) = a.post
    BY <1>1, PlusIsUndone
  <2>3. Divided(Times(a.rotation, b.rotation), b.rotation) = a.rotation
    <3>1. RotationLaw(p, p, a.rotation, b.rotation)
      BY <1>1, RotationsAreReversible
    <3>2. QED
      BY <3>1 DEF RotationLaw
  <2>4. SubTransform(t, b) = Transform(a.pre, a.rotation, a.post)
    BY <2>1, <2>2, <2>3 DEF SubTransform
  <2>5. QED
    BY <1>1, <2>4 DEF Transform
<1>6. AddTransform(SubTransform(a, b), b) = a
  <2> DEFINE t == SubTransform(a, b)
             r == a.rotation
             s == b.rotation
             i == Invert(s)
  <2>1. t.pre = Minus(a.pre, b.pre) /\ t.rotation = Divided(r, s) /\ t.post = Minus(a.post, b.post)
    BY DEF SubTransform, Transform
  <2>2. Plus(Minus(a.pre, b.pre), b.pre) = a.pre /\ Plus(Minus(a.post, b.post), b.post) = a.post
    BY <1>1, PlusIsUndone
  <2>3. Times(Divided(r, s), s) = r
    <3>1. r \in Hurwitz /\ s \in Hurwitz /\ i \in Hurwitz /\ Times(i, s) = Identity
      BY <1>1, UnitsAreHurwitz, InvertIs, UnitTimesInverse
    <3>2. Times(Times(r, i), s) = Times(r, Times(i, s))
      <4> HIDE DEF r, s, i
      <4>1. QED
        BY <3>1, TimesIsAssociative
    <3>3. Times(r, Identity) = r
      BY <3>1, TimesIdentity
    <3>4. QED
      BY <3>1, <3>2, <3>3 DEF Divided
  <2>4. AddTransform(t, b) = Transform(a.pre, a.rotation, a.post)
    BY <2>1, <2>2, <2>3 DEF AddTransform
  <2>5. QED
    BY <1>1, <2>4 DEF Transform
<1>7. NegateTransform(NegateTransform(a)) = a
  <2> DEFINE t == NegateTransform(a)
  <2>1. t.pre = Negated(a.pre) /\ t.rotation = Invert(a.rotation) /\ t.post = Negated(a.post)
    BY DEF NegateTransform, Transform
  <2>2. Negated(Negated(a.pre)) = a.pre /\ Negated(Negated(a.post)) = a.post
    BY <1>1, VectorHas, NegatedTwice
  <2>3. Invert(Invert(a.rotation)) = a.rotation
    BY <1>1, UnitsAreHurwitz, InvertIs
  <2>4. NegateTransform(t) = Transform(a.pre, a.rotation, a.post)
    BY <2>1, <2>2, <2>3 DEF NegateTransform
  <2>5. QED
    BY <1>1, <2>4 DEF Transform
<1>8. QED
  BY <1>3, <1>4, <1>5, <1>6, <1>7 DEF TransformLaw

\* The two kinds of co-ordinates.
LEMMA CoordinatesAgree == ASSUME NEW p \in Places, NEW val \in Int PROVE CoordinatesLaw(p, val)
<1>1. OnAxis(p) => Cart(Polar(p)) = Cart(p) /\ SamePlace(Polar(p), p)
  BY ModIs, SameCart
<1>2. Cart(Negated(p)) = Negated(Cart(p)) /\ SamePlace(Negated(Negated(p)), p)
  BY NegatedIs, NegatedTwice, SameCart
<1>3. Cart(Scaled(p, val)) = Scaled(Cart(p), val)
  BY ScaledIs
<1>4. ASSUME p.polar
      PROVE  /\ LimitAngles(p).pos[1] \in 0 .. 3 /\ LimitAngles(p).pos[2] \in -1 .. 0
             /\ p.pos[2] \in -1 .. 0 => SamePlace(LimitAngles(p), p)
  <2> DEFINE az == p.pos[1]
             el == p.pos[2]
             d == p.pos[3]
             f == Sign(el) * (Abs(el) % 2)
             az2 == az % 4
             el2 == IF f >= 1 THEN f - 2 ELSE f
             n == PolarAt(az2, el2, d)
             l == LimitAngles(p)
  <2>1. az \in Int /\ el \in Int /\ d \in Int /\ d >= 0
    BY <1>4, PlaceHas
  <2>2. l = n
    BY DEF LimitAngles
  <2> HIDE DEF az, el, d, l
  <2>3. f \in {-1, 0, 1}
    <3> DEFINE k == Abs(el) % 2
    <3>1. k \in {0, 1}
      BY <2>1, AbsIs
    <3>2. Sign(el) \in {-1, 0, 1}
      BY <2>1 DEF Sign
    <3> HIDE DEF k
    <3>3. \A s \in {-1, 0, 1}, j \in {0, 1} : s * j \in {-1, 0, 1}
      OBVIOUS
    <3>4. QED
      BY <3>1, <3>2, <3>3 DEF k
  <2>4. el \in -1 .. 0 => f = el
    <3>1. CASE el = 0
      <4>1. Sign(el) = 0 /\ Abs(el) = 0
        BY <3>1 DEF Sign, Abs
      <4>2. QED
        BY <3>1, <4>1
    <3>2. CASE el = -1
      <4>1. Sign(el) = -1 /\ Abs(el) = 1
        <5>1. \A k \in Int : k + 1 = 0 => k < 0 /\ -k = 1
          <6>1. ASSUME NEW k \in Int, k + 1 = 0 PROVE k < 0 /\ -k = 1
            BY <6>1
          <6>2. QED
            BY <6>1
        <5>2. el + 1 = 0
          BY <3>2
        <5>3. el < 0 /\ -el = 1
          BY <2>1, <5>1, <5>2
        <5>4. QED
          BY <5>3 DEF Sign, Abs
      <4>2. Sign(el) * (Abs(el) % 2) = el
        BY <3>2, <4>1
      <4>3. QED
        BY <4>2
    <3>3. el \in -1 .. 0 => el = 0 \/ el = -1
      BY <2>1
    <3>4. QED
      BY <3>1, <3>2, <3>3
  <2> HIDE DEF f
  <2>5. el2 \in -1 .. 0 /\ el2 \in Int /\ (el \in -1 .. 0 => el2 = el)
    <3>1. CASE f = 1
      BY <2>4, <3>1
    <3>2. CASE f = 0
      BY <2>4, <3>2
    <3>3. CASE f = -1
      BY <2>4, <3>3
    <3>4. QED
      BY <2>3, <3>1, <3>2, <3>3
  <2>6. az2 \in 0 .. 3 /\ az2 \in Int /\ Sin(az2) = Sin(az) /\ Cos(az2) = Cos(az)
    BY <2>1, SineIs
  <2> HIDE DEF az2, el2
  <2>7. n \in Places /\ n.polar /\ n.pos[1] = az2 /\ n.pos[2] = el2 /\ n.pos[3] = d
    <3>1. az2 \in Int /\ el2 \in Int /\ d \in Int /\ d >= 0
      BY <2>1, <2>5, <2>6
    <3>2. QED
      BY <3>1, PolarIs
  <2> HIDE DEF n
  <2>8. ASSUME el \in -1 .. 0 PROVE SamePlace(n, p)
    <3> DEFINE c == Cart(n)
               v == Cart(p)
    <3>1. c \in Vectors /\ c.pos[1] = -d * Sin(az2) * Cos(el2) /\ c.pos[2] = d * Cos(az2) * Cos(el2) /\ c.pos[3] = d * Sin(el2)
      BY <2>7, CartIs
    <3>2. v \in Vectors /\ v.pos[1] = -d * Sin(az) * Cos(el) /\ v.pos[2] = d * Cos(az) * Cos(el) /\ v.pos[3] = d * Sin(el)
      BY <1>4, CartIs DEF az, el, d
    <3> HIDE DEF c, v
    <3>3. c.pos[1] = v.pos[1] /\ c.pos[2] = v.pos[2] /\ c.pos[3] = v.pos[3]
      BY <2>5, <2>6, <2>8, <3>1, <3>2
    <3>4. c = v
      BY <3>1, <3>2, <3>3, SameVector
    <3>5. QED
      BY <3>4, SameCart DEF c, v
  <2>9. QED
    BY <2>2, <2>5, <2>6, <2>7, <2>8 DEF l, el
<1>5. QED
  BY <1>1, <1>2, <1>3, <1>4 DEF CoordinatesLaw

\* What divides exactly.
LEMMA DividedExactly ==
  ASSUME NEW n \in Int, NEW b \in Int, b # 0, n % Abs(b) = 0 PROVE \E k \in Int : n = k * b
<1> DEFINE c == Abs(b)
           q == n \div c
<1>1. c \in Nat \ {0} /\ (c = b \/ c = -b)
  BY AbsIs
<1> HIDE DEF c
<1>2. q \in Int /\ n = q * c + (n % c)
  BY <1>1
<1> HIDE DEF q
<1>3. n % c = 0
  BY DEF c
<1>4. n = q * c
  <2> DEFINE t == q * c
  <2>1. t \in Int /\ n = t + 0
    BY <1>1, <1>2, <1>3
  <2> HIDE DEF t
  <2>2. n = t
    BY <2>1
  <2>3. QED
    BY <2>2 DEF t
<1>5. CASE c = b
  BY <1>2, <1>4, <1>5
<1>6. CASE c = -b
  <2>1. n = (-q) * b /\ -q \in Int
    BY <1>2, <1>4, <1>6
  <2>2. QED
    BY <2>1
<1>7. QED
  BY <1>1, <1>5, <1>6

ScreenTypes == [cx : Int, cy : Int, sx : Int, sy : Int, dist : Int]

\* One co-ordinate on the screen and back.
OnScreen(e) == e.c + Quotient(e.s * e.n * e.x, e.d)
OffScreen(e, y) == Quotient((y - e.c) * e.d, e.s * e.n)

LEMMA OnScreenAndBack ==
  ASSUME NEW e \in [c : Int, s : Int, n : Int, d : Int, x : Int],
         e.s # 0, e.n # 0, e.d # 0, (e.n * e.x) % Abs(e.d) = 0
  PROVE  OnScreen(e) \in Int /\ OffScreen(e, OnScreen(e)) = e.x
<1> DEFINE c == e.c
           s == e.s
           n == e.n
           d == e.d
           x == e.x
           nx == n * x
           sn == s * n
           y == OnScreen(e)
<1>1. c \in Int /\ s \in Int /\ n \in Int /\ d \in Int /\ x \in Int /\ s # 0 /\ n # 0 /\ d # 0
  OBVIOUS
<1>2. nx % Abs(d) = 0
  OBVIOUS
<1>3. y = c + Quotient(s * n * x, d) /\ OffScreen(e, y) = Quotient((y - c) * d, sn)
  BY DEF OnScreen, OffScreen
<1> HIDE DEF c, s, n, d, x, y
<1>4. nx \in Int /\ sn \in Int /\ sn # 0
  BY <1>1
<1>5. PICK k \in Int : nx = k * d
  <2> HIDE DEF nx
  <2>1. QED
    BY <1>1, <1>2, <1>4, DividedExactly
<1> DEFINE sk == s * k
<1>6. sk \in Int
  BY <1>1
<1>7. s * n * x = sk * d
  <2>1. s * n * x = s * nx
    BY <1>1
  <2> HIDE DEF nx
  <2>2. s * nx = sk * d
    BY <1>1, <1>5
  <2>3. QED
    BY <2>1, <2>2
<1> HIDE DEF sk, nx
<1>8. Quotient(sk * d, d) = sk
  BY <1>1, <1>6, QuotientIs
<1>9. y = c + sk
  BY <1>3, <1>7, <1>8
<1>10. y \in Int /\ y - c = sk
  BY <1>1, <1>6, <1>9
<1>11. (y - c) * d = x * sn
  <2>1. s * n * x = x * sn
    BY <1>1
  <2>2. QED
    BY <1>7, <1>10, <2>1
<1> HIDE DEF sn
<1>12. Quotient(x * sn, sn) = x
  BY <1>1, <1>4, QuotientIs
<1>13. QED
  BY <1>3, <1>10, <1>11, <1>12 DEF y, x

LEMMA ScreensAreReversible ==
  ASSUME NEW p \in Vectors, NEW screen \in ScreenTypes PROVE ScreenLaw(p, screen)
<1> DEFINE x == p.pos[1]
           y == p.pos[2]
           z == p.pos[3]
           cx == screen.cx
           cy == screen.cy
           sx == screen.sx
           sy == screen.sy
           m == Scale(screen, z)
           n == m.num
           d == m.den
<1>1. x \in Int /\ y \in Int /\ z \in Int /\ p = Cartesian(x, y, z)
  BY VectorHas
<1>2. cx \in Int /\ cy \in Int /\ sx \in Int /\ sy \in Int /\ screen.dist \in Int
  BY DEF ScreenTypes
<1>3. n \in Int /\ d \in Int /\ d # 0
  <2> DEFINE e == screen.dist
  <2>1. CASE z = e
    BY <2>1 DEF Scale
  <2>2. CASE z # e
    <3>1. n = e /\ d = e - z
      BY <2>2 DEF Scale
    <3> HIDE DEF e, n, d, z
    <3>2. QED
      BY <1>1, <1>2, <2>2, <3>1 DEF e
  <2>3. QED
    BY <2>1, <2>2
<1> SUFFICES ASSUME \A i \in {1, 2} : (n * p.pos[i]) % Abs(d) = 0, n * sx * sy # 0
             PROVE  RemoveScreen(ApplyScreen(p, screen), screen) = p
  BY DEF ScreenLaw
<1> HIDE DEF m
<1>4. (n * x) % Abs(d) = 0 /\ (n * y) % Abs(d) = 0
  OBVIOUS
<1> DEFINE u == cx + Quotient(sx * n * x, d)
           v == cy + Quotient(sy * n * y, d)
           A == ApplyScreen(p, screen)
           w == Cartesian(u, v, z)
<1>5. n # 0 /\ sx # 0 /\ sy # 0
  <2> HIDE DEF n, sx, sy
  <2>1. n * sx * sy # 0
    BY DEF n, sx, sy
  <2>2. QED
    BY <1>2, <1>3, <2>1
<1>6. A = w
  BY DEF ApplyScreen, m
<1>7. u \in Int /\ Quotient((u - cx) * d, sx * n) = x
  <2>1. cx \in Int /\ sx \in Int /\ n \in Int /\ d \in Int /\ x \in Int
    BY <1>1, <1>2, <1>3
  <2>2. sx # 0 /\ n # 0 /\ d # 0 /\ (n * x) % Abs(d) = 0
    BY <1>3, <1>4, <1>5
  <2> DEFINE e == [c |-> cx, s |-> sx, n |-> n, d |-> d, x |-> x]
  <2>3. u = OnScreen(e) /\ \A t : OffScreen(e, t) = Quotient((t - cx) * d, sx * n)
    BY DEF OnScreen, OffScreen
  <2> HIDE DEF x, n, d, cx, sx, u
  <2>4. /\ e \in [c : Int, s : Int, n : Int, d : Int, x : Int] /\ e.x = x
        /\ e.s # 0 /\ e.n # 0 /\ e.d # 0 /\ (e.n * e.x) % Abs(e.d) = 0
    BY <2>1, <2>2
  <2> HIDE DEF e
  <2>5. OnScreen(e) \in Int /\ OffScreen(e, OnScreen(e)) = x
    BY <2>4, OnScreenAndBack
  <2>6. QED
    BY <2>3, <2>5
<1>8. v \in Int /\ Quotient((v - cy) * d, sy * n) = y
  <2>1. cy \in Int /\ sy \in Int /\ n \in Int /\ d \in Int /\ y \in Int
    BY <1>1, <1>2, <1>3
  <2>2. sy # 0 /\ n # 0 /\ d # 0 /\ (n * y) % Abs(d) = 0
    BY <1>3, <1>4, <1>5
  <2> DEFINE e == [c |-> cy, s |-> sy, n |-> n, d |-> d, x |-> y]
  <2>3. v = OnScreen(e) /\ \A t : OffScreen(e, t) = Quotient((t - cy) * d, sy * n)
    BY DEF OnScreen, OffScreen
  <2> HIDE DEF y, n, d, cy, sy, v
  <2>4. /\ e \in [c : Int, s : Int, n : Int, d : Int, x : Int] /\ e.x = y
        /\ e.s # 0 /\ e.n # 0 /\ e.d # 0 /\ (e.n * e.x) % Abs(e.d) = 0
    BY <2>1, <2>2
  <2> HIDE DEF e
  <2>5. OnScreen(e) \in Int /\ OffScreen(e, OnScreen(e)) = y
    BY <2>4, OnScreenAndBack
  <2>6. QED
    BY <2>3, <2>5
<1>9. w.pos[1] = u /\ w.pos[2] = v /\ w.pos[3] = z
  <2>1. u \in Int /\ v \in Int /\ z \in Int
    BY <1>1, <1>7, <1>8
  <2> HIDE DEF u, v, z
  <2>2. QED
    BY <2>1, VectorIs
<1> HIDE DEF w, u, v
<1>10. RemoveScreen(w, screen) = Cartesian(Quotient((u - cx) * d, sx * n), Quotient((v - cy) * d, sy * n), z)
  BY <1>9 DEF RemoveScreen, m
<1>11. QED
  BY <1>1, <1>6, <1>7, <1>8, <1>10

LEMMA DistancesAgree == ASSUME NEW p \in Places, NEW val \in Int PROVE DistanceLaw(p, val)
<1> DEFINE m == Mod(p)
           P == CHOOSE f : PowersOf(val, f)
<1> SUFFICES ASSUME OnAxis(p)
             PROVE  /\ LevelOver(val, Cart(p)) = LevelOver(val, p)
                    /\ Delay(val, p, 2 * val) = IF val > 0 THEN 2 * Mod(p) ELSE 0
  BY DEF DistanceLaw
<1>1. m \in Nat
  BY ModIs
<1>2. \A q : LevelOver(val, q) = P[Mod(q)]
  BY DEF LevelOver, Mod, PowersOf
<1> HIDE DEF P
<1>3. LevelOver(val, Cart(p)) = LevelOver(val, p)
  <2>1. Cart(p) \in Places /\ Cart(Cart(p)) = Cart(p)
    BY CartIs, VectorHas
  <2>2. Mod(Cart(p)) = m
    BY <2>1, ModIs
  <2>3. QED
    BY <1>2, <2>2
<1>4. Delay(val, p, 2 * val) = IF val > 0 THEN 2 * m ELSE 0
  <2>1. ASSUME val > 0 PROVE Quotient(2 * val * m, val) = 2 * m
    <3> DEFINE k == 2 * m
    <3>1. k \in Int /\ 2 * val * m = k * val
      <4> HIDE DEF m
      <4>1. QED
        BY <1>1
    <3> HIDE DEF k, m
    <3>2. Quotient(k * val, val) = k
      BY <2>1, <3>1, QuotientIs
    <3>3. QED
      BY <3>1, <3>2 DEF k
  <2>2. QED
    BY <2>1 DEF Delay, Mod
<1>5. QED
  BY <1>3, <1>4

-----------------------------------------------------------------------------
(* For every place, in either co-ordinates, every unit quaternion in halves, *)
(* every transform that moves by vectors and every screen: what 3DPosition.cpp *)
(* does to a position can be undone and chained and keeps lengths, angles  *)
(* and orientation, and the distance model follows the distance.           *)
THEOREM PlacesAreReversible == GeometrySpec => []GeometryIsReversible
<1>1. NoInput => GeometryIsReversible
  BY DEF NoInput, GeometryIsReversible, Is
<1>2. GeometryIsReversible /\ [GeometryInput]_input => GeometryIsReversible'
  <2> SUFFICES ASSUME GeometryIsReversible, [GeometryInput]_input PROVE GeometryIsReversible'
    OBVIOUS
  <2>1. ASSUME NEW p \in Points, NEW r \in Probes, NEW a \in Rotations, NEW b \in Rotations,
               input' = [kind |-> "rotation", p |-> p, r |-> r, a |-> a, b |-> b]
        PROVE  GeometryIsReversible'
    <3>1. p \in Places /\ r \in Places /\ a \in Units /\ b \in Units
      BY PointsAssumption, RotationsAssumption
    <3>2. RotationLaw(p, r, a, b) /\ MeasureLaw(p, r, a, b) /\ QuaternionLaw(a, b)
      BY <3>1, RotationsAreReversible, MeasuresAreKept, RotationsAreInterpolated
    <3>3. QED
      BY <2>1, <3>2 DEF GeometryIsReversible, Is
  <2>2. ASSUME NEW p \in Points, NEW a \in Transforms, NEW b \in Transforms,
               input' = [kind |-> "transform", p |-> p, a |-> a, b |-> b]
        PROVE  GeometryIsReversible'
    <3>1. p \in Places /\ a \in Moves /\ b \in Moves
      BY PointsAssumption, RotationsAssumption DEF Moves
    <3>2. TransformLaw(p, a, b)
      BY <3>1, TransformsAreReversible
    <3>3. QED
      BY <2>2, <3>2 DEF GeometryIsReversible, Is
  <2>3. ASSUME NEW p \in Points, NEW screen \in Screens, ~p.polar,
               input' = [kind |-> "screen", p |-> p, screen |-> screen]
        PROVE  GeometryIsReversible'
    <3>1. p \in Vectors /\ screen \in ScreenTypes
      BY <2>3, PointsAssumption, ScreensAssumption, PlaceHas DEF ScreenTypes
    <3>2. ScreenLaw(p, screen)
      BY <3>1, ScreensAreReversible
    <3>3. QED
      BY <2>3, <3>2 DEF GeometryIsReversible, Is
  <2>4. ASSUME NEW p \in Points, NEW val \in -1 .. 2, input' = [kind |-> "point", p |-> p, val |-> val]
        PROVE  GeometryIsReversible'
    <3>1. p \in Places /\ val \in Int
      BY PointsAssumption
    <3>2. CoordinatesLaw(p, val) /\ DistanceLaw(p, val)
      BY <3>1, CoordinatesAgree, DistancesAgree
    <3>3. QED
      BY <2>4, <3>2 DEF GeometryIsReversible, Is
  <2>5. CASE UNCHANGED input
    BY <2>5 DEF GeometryIsReversible, Is
  <2>6. QED
    BY <2>1, <2>2, <2>3, <2>4, <2>5 DEF GeometryInput
<1>3. QED
  BY <1>1, <1>2, PTL DEF GeometrySpec
=============================================================================
