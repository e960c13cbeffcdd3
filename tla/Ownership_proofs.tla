-------------------------- MODULE Ownership_proofs --------------------------
(***************************************************************************)
(* Safety of the parts that own what others made, for every value of the   *)
(* constants: RefCount, with any number of objects and roots and cascades  *)
(* of deletions of any length; then Ownership, with any factories,         *)
(* requests, versions, files and descriptors, and any number of calls.     *)
(* The two share nothing.                                                  *)
(***************************************************************************)
EXTENDS RefCount, Ownership, SequenceTheorems, FiniteSetTheorems,
        WellFoundedInduction, TLAPS

Depth == Len(releasing) - (IF deleting THEN 0 ELSE 1)

\* The handles that refer to o, dead ones included: they refer to nothing.
Refs(o) == {h \in Handles : obj[h] = o}

(***************************************************************************)
(* The inductive invariant.  The stack: each handle that is released but   *)
(* the first lies in the object the one before it is deleting.  The dying: *)
(* their count is 0, and the handle that deletes them is the only one that *)
(* still refers to them.  All others are counted exactly.                  *)
(***************************************************************************)
StackInv ==
  /\ Idle => ~deleting /\ new = NULL
  /\ \A i, j \in 1 .. Len(releasing) : releasing[i] = releasing[j] => i = j
  /\ \A i \in 1 .. Len(releasing) - 1 : releasing[i + 1] = obj[releasing[i]]
  /\ ~Idle => obj[releasing[1]] # new
  /\ \A i \in 1 .. Len(releasing) : releasing[i] \in Roots \union alive
  /\ deleting => obj[Target] = NULL

DyingObject(o, h) ==
  /\ o \in alive /\ ~preventdeletion[o]
  /\ refcount[o] = 0 /\ Refs(o) = {h} /\ new # o

DyingInv == \A i \in 1 .. Depth : DyingObject(obj[releasing[i]], releasing[i])

CountInv ==
  /\ \A o \in Objects \ Dying : refcount[o] = Cardinality(Refs(o)) + (IF new = o THEN 1 ELSE 0)
  /\ \A o \in Objects \ alive : obj[o] = NULL /\ Refs(o) = {} /\ new # o

(***************************************************************************)
(* The object the client's handle lies in stays, for it belongs to a set S *)
(* whose members keep one another without that handle.  (It was reachable, *)
(* by a path that does not pass through it before it ends there.)          *)
(***************************************************************************)
Kept(S) ==
  /\ S \subseteq alive \ Dying
  /\ \A o \in S : preventdeletion[o] \/ \E h \in (Roots \union S) \ {releasing[1]} : obj[h] = o

HolderInv ==
  ~Idle /\ releasing[1] \in Objects => \E S \in SUBSET Objects : Kept(S) /\ releasing[1] \in S

IInv == RefCountTypeOK /\ StackInv /\ DyingInv /\ CountInv /\ HolderInv

-----------------------------------------------------------------------------
(* References and counts.                                                  *)

LEMMA HandlesFinite == IsFiniteSet(Handles) /\ \A o : IsFiniteSet(Refs(o)) /\ Cardinality(Refs(o)) \in Nat
<1>1. IsFiniteSet(Handles)
  BY FS_Union, HandlesAssumption DEF Handles
<1>2. \A o : Refs(o) \subseteq Handles
  BY DEF Refs
<1>3. QED
  BY <1>1, <1>2, FS_Subset, FS_CardinalityType

\* An object without references has count 0, and otherwise at least 1.
LEMMA OneReference ==
  ASSUME NEW o, NEW h \in Refs(o)
  PROVE  /\ Cardinality(Refs(o)) >= 1
         /\ Cardinality(Refs(o)) = 1 => Refs(o) = {h}
<1>1. Cardinality(Refs(o) \ {h}) = Cardinality(Refs(o)) - 1 /\ IsFiniteSet(Refs(o) \ {h})
  BY HandlesFinite, FS_RemoveElement
<1>2. Cardinality(Refs(o) \ {h}) \in Nat
  BY <1>1, FS_CardinalityType
<1>3. Cardinality(Refs(o)) = 1 => Refs(o) \ {h} = {}
  BY <1>1, FS_EmptySet
<1>4. QED
  BY <1>1, <1>2, <1>3, HandlesFinite

\* A handle that is changed moves its reference from one object to another.
LEMMA MoveReference ==
  ASSUME RefCountTypeOK, NEW h \in Handles, NEW x \in Objects \union {NULL}, x # obj[h],
         obj' = [obj EXCEPT ![h] = x]
  PROVE  \A o \in Objects :
           /\ o \notin {x, obj[h]} => Refs(o)' = Refs(o)
           /\ o = obj[h] => Refs(o)' = Refs(o) \ {h} /\ Cardinality(Refs(o)') = Cardinality(Refs(o)) - 1
           /\ o = x => Refs(o)' = Refs(o) \union {h} /\ Cardinality(Refs(o)') = Cardinality(Refs(o)) + 1
<1>1. obj'[h] = x /\ \A g \in Handles \ {h} : obj'[g] = obj[g]
  BY DEF RefCountTypeOK
<1>2. ASSUME NEW o \in Objects, o = obj[h]
      PROVE  Refs(o)' = Refs(o) \ {h} /\ Cardinality(Refs(o)') = Cardinality(Refs(o)) - 1
  <2>1. Refs(o)' = Refs(o) \ {h} /\ h \in Refs(o)
    BY <1>1, <1>2 DEF Refs
  <2>2. QED
    BY <2>1, HandlesFinite, FS_RemoveElement
<1>3. ASSUME NEW o \in Objects, o = x
      PROVE  Refs(o)' = Refs(o) \union {h} /\ Cardinality(Refs(o)') = Cardinality(Refs(o)) + 1
  <2>1. Refs(o)' = Refs(o) \union {h} /\ h \notin Refs(o)
    BY <1>1, <1>3 DEF Refs
  <2>2. QED
    BY <2>1, HandlesFinite, FS_AddElement
<1>4. ASSUME NEW o \in Objects, o \notin {x, obj[h]} PROVE Refs(o)' = Refs(o)
  BY <1>1, <1>4 DEF Refs
<1>5. QED
  BY <1>2, <1>3, <1>4

-----------------------------------------------------------------------------
(* The stack.                                                              *)

\* The innermost handle, when there is one.
LEMMA Innermost ==
  ASSUME RefCountTypeOK, ~Idle
  PROVE  /\ Len(releasing) \in Nat \ {0} /\ Handle = releasing[Len(releasing)] /\ Handle \in Handles
         /\ \A i \in 1 .. Len(releasing) : releasing[i] \in Handles
         /\ Target \in Objects \union {NULL}
<1>1. Len(releasing) \in Nat \ {0} /\ \A i \in 1 .. Len(releasing) : releasing[i] \in Handles
  BY EmptySeq, LenProperties DEF RefCountTypeOK, Idle
<1>2. Handle = releasing[Len(releasing)]
  BY DEF Handle, Last
<1>3. Handle \in Handles
  BY <1>1, <1>2
<1>4. QED
  BY <1>1, <1>2, <1>3 DEF Target, RefCountTypeOK

LEMMA Dyings == Dying = {obj[releasing[i]] : i \in 1 .. Depth}
BY DEF Dying, Depth

\* A handle below the innermost is not it; it deletes the object the next
\* one lies in.
LEMMA Below ==
  ASSUME RefCountTypeOK, StackInv, DyingInv, ~Idle, NEW i \in 1 .. Len(releasing) - 1
  PROVE  /\ i \in 1 .. Depth
         /\ releasing[i] # Handle
         /\ releasing[i + 1] = obj[releasing[i]]
         /\ releasing[i + 1] \in Dying /\ releasing[i + 1] \in Objects
<1>1. Len(releasing) \in Nat \ {0} /\ Handle = releasing[Len(releasing)] /\ releasing[i] \in Handles
  BY Innermost
<1>2. i \in 1 .. Depth
  BY <1>1 DEF Depth
<1>3. releasing[i] # Handle /\ releasing[i + 1] = obj[releasing[i]]
  BY <1>1 DEF StackInv
<1>4. obj[releasing[i]] \in Dying
  BY <1>2, Dyings
<1>5. obj[releasing[i]] \in Objects
  BY <1>2 DEF DyingInv, DyingObject, RefCountTypeOK
<1>6. QED
  BY <1>2, <1>3, <1>4, <1>5

\* What is being released is not dying yet, unless its destructor has run.
LEMMA TargetIsFresh ==
  ASSUME RefCountTypeOK, StackInv, DyingInv, ~Idle
  PROVE  \A i \in 1 .. Len(releasing) - 1 : obj[releasing[i]] # Target
<1> SUFFICES ASSUME NEW i \in 1 .. Len(releasing) - 1, obj[releasing[i]] = Target PROVE FALSE
  OBVIOUS
<1>1. i \in 1 .. Depth /\ releasing[i] # Handle
  BY Below
<1>2. Refs(Target) = {releasing[i]}
  BY <1>1 DEF DyingInv, DyingObject
<1>3. Handle \in Refs(Target)
  BY Innermost DEF Refs, Target
<1>4. QED
  BY <1>1, <1>2, <1>3

LEMMA TargetIsNotDying ==
  ASSUME RefCountTypeOK, StackInv, DyingInv, ~Idle, ~deleting
  PROVE  Target \notin Dying
<1>1. Depth = Len(releasing) - 1
  BY DEF Depth
<1>2. QED
  BY <1>1, TargetIsFresh, Dyings

LEMMA TargetIsDying ==
  ASSUME RefCountTypeOK, StackInv, DyingInv, ~Idle, deleting
  PROVE  DyingObject(Target, Handle) /\ Target \in Dying
<1>1. Depth = Len(releasing) /\ Len(releasing) \in 1 .. Depth /\ Handle = releasing[Len(releasing)]
  BY Innermost DEF Depth
<1>2. QED
  BY <1>1, Dyings DEF DyingInv, Target

\* Only the handles on the stack below the innermost are in dying objects.
LEMMA HandleIsNotKept ==
  ASSUME RefCountTypeOK, StackInv, DyingInv, ~Idle, NEW S, Kept(S), NEW h \in (Roots \union S) \ {releasing[1]}
  PROVE  h # Handle
<1> SUFFICES ASSUME h = Handle PROVE FALSE
  OBVIOUS
<1>1. Len(releasing) \in Nat \ {0} /\ Handle = releasing[Len(releasing)]
  BY Innermost
<1>2. Len(releasing) # 1
  BY <1>1
<1>3. Len(releasing) - 1 \in 1 .. Len(releasing) - 1 /\ (Len(releasing) - 1) + 1 = Len(releasing)
  BY <1>1, <1>2
<1>4. Handle \in Dying /\ Handle \in Objects
  BY <1>1, <1>3, Below
<1>5. QED
  BY <1>4, HandlesAssumption DEF Kept

LEMMA FrontProperties ==
  ASSUME NEW S, NEW s \in Seq(S), s # <<>>
  PROVE  /\ Front(s) \in Seq(S) /\ Len(Front(s)) = Len(s) - 1
         /\ \A i \in 1 .. Len(s) - 1 : Front(s)[i] = s[i]
<1>1. Len(s) \in Nat \ {0} /\ \A i \in 1 .. Len(s) - 1 : s[i] \in S
  BY EmptySeq, LenProperties
<1>2. DEFINE n == Len(s) - 1
<1>3. n \in Nat
  BY <1>1
<1>4. /\ SubSeq(s, 1, n) \in Seq(S)
      /\ Len(SubSeq(s, 1, n)) = IF 1 <= n THEN n - 1 + 1 ELSE 0
      /\ \A i \in 1 .. n - 1 + 1 : SubSeq(s, 1, n)[i] = s[1 + i - 1]
  BY <1>1, <1>3, SubSeqProperties
<1>5. Front(s) = SubSeq(s, 1, n)
  BY Zenon DEF Front
<1> HIDE DEF n
<1>6. (IF 1 <= n THEN n - 1 + 1 ELSE 0) = n /\ n - 1 + 1 = n /\ \A i \in 1 .. n : 1 + i - 1 = i
  BY <1>3
<1>7. Front(s) \in Seq(S) /\ Len(Front(s)) = n
  BY <1>4, <1>5, <1>6, Zenon
<1>8. \A i \in 1 .. n : Front(s)[i] = s[i]
  BY <1>4, <1>5, <1>6
<1>9. QED
  BY <1>7, <1>8, Zenon DEF n

\* What returning from the innermost Release() leaves.
LEMMA Popped ==
  ASSUME RefCountTypeOK, StackInv, DyingInv, ~Idle, Return(Argument)
  PROVE  /\ releasing' \in Seq(Handles) /\ Len(releasing') = Len(releasing) - 1
         /\ \A i \in 1 .. Len(releasing) - 1 : releasing'[i] = releasing[i]
         /\ obj' \in [Handles -> Objects \union {NULL}] /\ obj'[Handle] = Argument
         /\ \A h \in Handles \ {Handle} : obj'[h] = obj[h]
         /\ deleting' \in BOOLEAN /\ new' \in Objects \union {NULL}
         /\ 1 .. Depth' = 1 .. Len(releasing) - 1
         /\ Dying' = {obj[releasing[i]] : i \in 1 .. Len(releasing) - 1}
<1> DEFINE n == Len(releasing)
<1>1. n \in Nat \ {0} /\ Handle \in Handles
  BY Innermost
<1>2. releasing' \in Seq(Handles) /\ Len(releasing') = n - 1 /\ \A i \in 1 .. n - 1 : releasing'[i] = releasing[i]
  BY FrontProperties DEF Return, Idle, RefCountTypeOK
<1>3. obj' \in [Handles -> Objects \union {NULL}] /\ obj'[Handle] = Argument
      /\ \A h \in Handles \ {Handle} : obj'[h] = obj[h]
  BY <1>1 DEF Return, Argument, RefCountTypeOK
<1>4. deleting' = (n > 1) /\ deleting' \in BOOLEAN /\ new' \in Objects \union {NULL}
  BY <1>1 DEF Return, RefCountTypeOK
<1>5. Depth' = Len(releasing') - (IF deleting' THEN 0 ELSE 1)
  BY DEF Depth
<1> HIDE DEF n
<1>6. 1 .. Depth' = 1 .. n - 1
  <2>1. CASE deleting'
    BY <1>1, <1>2, <1>5, <2>1
  <2>2. CASE ~deleting'
    <3>0. ~(n > 1)
      BY <1>4, <2>2, Zenon
    <3>1. n = 1
      BY <1>1, <3>0
    <3>2. Depth' = -1
      BY <1>2, <1>5, <2>2, <3>1
    <3>3. 1 .. Depth' = {} /\ 1 .. n - 1 = {}
      BY <3>1, <3>2
    <3>4. QED
      BY <3>3
  <2>3. QED
    BY <2>1, <2>2
<1>7. Dying' = {obj'[releasing'[i]] : i \in 1 .. Depth'}
  BY DEF Dying, Depth
<1>8. \A i \in 1 .. n - 1 : obj'[releasing'[i]] = obj[releasing[i]]
  BY <1>2, <1>3, Below, Innermost DEF n
<1>9. Dying' = {obj[releasing[i]] : i \in 1 .. n - 1}
  BY <1>6, <1>7, <1>8, ZenonT(30)
<1>10. QED
  BY <1>2, <1>3, <1>4, <1>6, <1>9, Zenon DEF n

\* The stack that is left is in order.
LEMMA PoppedStack ==
  ASSUME RefCountTypeOK, StackInv, DyingInv, ~Idle, Return(Argument),
         \A i \in 1 .. Len(releasing) - 1 : releasing[i] \in Roots \union alive'
  PROVE  StackInv'
<1> DEFINE n == Len(releasing)
<1>1. n \in Nat \ {0} /\ Handle \in Handles /\ Handle = releasing[n] /\ \A i \in 1 .. n : releasing[i] \in Handles
  BY Innermost
<1>2. /\ Len(releasing') = n - 1 /\ \A i \in 1 .. n - 1 : releasing'[i] = releasing[i]
      /\ obj'[Handle] = Argument /\ \A h \in Handles \ {Handle} : obj'[h] = obj[h]
      /\ releasing' \in Seq(Handles)
  BY Popped
<1>3. deleting' = (n > 1) /\ new' = IF n > 1 THEN new ELSE NULL
  BY DEF Return
<1>4. Idle' <=> n = 1
  BY <1>1, <1>2, EmptySeq, LenProperties DEF Idle
<1> HIDE DEF n
<1>5. Idle' => ~deleting' /\ new' = NULL
  <2>1. n = 1 => ~(n > 1)
    OBVIOUS
  <2>2. QED
    BY <1>3, <1>4, <2>1, Zenon
<1>6. \A i, j \in 1 .. n - 1 : releasing'[i] = releasing'[j] => i = j
  BY <1>1, <1>2 DEF StackInv, n
<1>7. ASSUME NEW i \in 1 .. n - 2 PROVE releasing'[i + 1] = obj'[releasing'[i]]
  <2>1. i \in 1 .. n - 1 /\ i + 1 \in 1 .. n - 1 /\ i \in 1 .. n
    BY <1>1
  <2>2. releasing[i + 1] = obj[releasing[i]] /\ releasing[i] # Handle /\ releasing[i] \in Handles
    BY <1>1, <2>1, Below DEF n
  <2>3. QED
    BY <1>2, <2>1, <2>2
<1>8. ~Idle' => obj'[releasing'[1]] # new'
  <2> SUFFICES ASSUME n > 1 PROVE obj'[releasing'[1]] # new'
    <3>1. n # 1 => n > 1
      BY <1>1
    <3>2. QED
      BY <1>4, <3>1, Zenon
  <2>1. 1 \in 1 .. n - 1 /\ 1 \in 1 .. n
    BY <1>1
  <2>2. releasing[1] # Handle /\ obj[releasing[1]] # new
    BY <2>1, Below DEF StackInv, n
  <2>3. QED
    BY <1>1, <1>2, <1>3, <2>1, <2>2
<1>9. deleting' => obj'[Target'] = NULL
  <2> SUFFICES ASSUME n > 1 PROVE obj'[Target'] = NULL
    BY <1>3
  <2>1. n - 1 \in 1 .. n - 1 /\ n - 1 + 1 = n
    BY <1>1
  <2>2. Handle' = releasing'[n - 1]
    BY <1>2 DEF Handle, Last, n
  <2>3. obj[releasing[n - 1]] = Handle /\ releasing[n - 1] # Handle /\ releasing[n - 1] \in Handles
    BY <1>1, <2>1, Below DEF n
  <2>4. Target' = Handle
    BY <1>2, <2>1, <2>2, <2>3 DEF Target
  <2>5. Argument = NULL
    BY <1>1 DEF Argument, n
  <2>6. QED
    BY <1>2, <2>4, <2>5
<1>10. \A i \in 1 .. n - 1 : releasing'[i] \in Roots \union alive'
  BY <1>2 DEF n
<1>11. QED
  BY <1>1, <1>2, <1>5, <1>6, <1>7, <1>8, <1>9, <1>10 DEF StackInv

\* How returning changes the references.
LEMMA PoppedReferences ==
  ASSUME RefCountTypeOK, StackInv, DyingInv, ~Idle, Return(Argument)
  PROVE  /\ Argument # NULL => Len(releasing) = 1 /\ Argument = new /\ Argument # Target
         /\ \A o \in Objects :
              /\ o \notin {Argument, Target} => Refs(o)' = Refs(o)
              /\ o = Target => /\ o # Argument /\ Refs(o)' = Refs(o) \ {Handle}
                               /\ Cardinality(Refs(o)') = Cardinality(Refs(o)) - 1
              /\ o = Argument => Cardinality(Refs(o)') = Cardinality(Refs(o)) + 1
<1>1. Argument # NULL => Len(releasing) = 1 /\ Argument = new
  BY DEF Argument
<1>2. Len(releasing) = 1 => Handle = releasing[1]
  BY Innermost
<1>3. Argument # NULL => Argument # Target
  BY <1>1, <1>2 DEF StackInv, Target
<1>4. Handle \in Handles /\ Argument \in Objects \union {NULL} /\ Target = obj[Handle] /\ obj' = [obj EXCEPT ![Handle] = Argument]
  BY Innermost DEF Argument, RefCountTypeOK, Target, Return
<1>5. CASE Argument = Target
  <2>1. Target = NULL /\ NULL \notin Objects
    BY <1>3, <1>5, HandlesAssumption
  <2>2. \A h \in Handles : obj'[h] = obj[h]
    BY <1>4, <1>5 DEF RefCountTypeOK
  <2>3. \A o : Refs(o)' = Refs(o)
    BY <2>2 DEF Refs
  <2>4. QED
    BY <1>1, <1>3, <1>5, <2>1, <2>3
<1>6. CASE Argument # Target
  <2>1. \A o \in Objects :
           /\ o \notin {Argument, obj[Handle]} => Refs(o)' = Refs(o)
           /\ o = obj[Handle] => Refs(o)' = Refs(o) \ {Handle} /\ Cardinality(Refs(o)') = Cardinality(Refs(o)) - 1
           /\ o = Argument => Refs(o)' = Refs(o) \union {Handle} /\ Cardinality(Refs(o)') = Cardinality(Refs(o)) + 1
    BY <1>4, <1>6, MoveReference
  <2>2. QED
    BY <1>1, <1>3, <1>4, <1>6, <2>1
<1>7. QED
  BY <1>5, <1>6

\* Release() returns: the handle's object has one reference less, or its
\* destructor is done.
Returns ==
  /\ Return(Argument)
  /\ refcount' \in [Objects -> Nat]
  /\ \A o \in Objects : refcount'[o] = refcount[o] - (IF o = Target /\ ~deleting THEN 1 ELSE 0)
  /\ alive' = alive \ (IF deleting THEN {Target} ELSE {})
  /\ preventdeletion' = preventdeletion

LEMMA ReturnsStack ==
  ASSUME IInv, ~Idle, Returns
  PROVE  RefCountTypeOK' /\ StackInv'
<1>1. RefCountTypeOK /\ StackInv /\ DyingInv /\ Return(Argument)
  BY DEF IInv, Returns
<1>2. RefCountTypeOK'
  <2>1. preventdeletion' \in [Objects -> BOOLEAN] /\ alive' \subseteq Objects /\ refcount' \in [Objects -> Nat]
    BY <1>1 DEF Returns, RefCountTypeOK
  <2>2. releasing' \in Seq(Handles) /\ obj' \in [Handles -> Objects \union {NULL}]
        /\ deleting' \in BOOLEAN /\ new' \in Objects \union {NULL}
    BY <1>1, Popped
  <2>3. QED
    BY <2>1, <2>2 DEF RefCountTypeOK
<1>3. ASSUME NEW i \in 1 .. Len(releasing) - 1 PROVE releasing[i] \in Roots \union alive'
  <2>1. i \in 1 .. Len(releasing)
    BY <1>1, Innermost
  <2>2. releasing[i] \in Roots \union alive
    BY <1>1, <2>1 DEF StackInv
  <2>3. obj[releasing[i]] \in Objects
    BY <1>1, Below
  <2>4. deleting => releasing[i] # Target
    BY <1>1, <2>3, HandlesAssumption DEF StackInv
  <2>5. QED
    BY <2>2, <2>4 DEF Returns
<1>4. QED
  BY <1>1, <1>2, <1>3, PoppedStack

LEMMA ReturnsDyingObject ==
  ASSUME IInv, ~Idle, Returns, NEW o \in Objects, NEW h, DyingObject(o, h), h # Handle, o # Target
  PROVE  DyingObject(o, h)'
<1>1. RefCountTypeOK /\ StackInv /\ DyingInv /\ Return(Argument)
  BY DEF IInv, Returns
<1>2. o \in alive /\ ~preventdeletion[o] /\ refcount[o] = 0 /\ Refs(o) = {h} /\ new # o
  BY DEF DyingObject
<1>3. Argument # o /\ new' # o
  BY <1>1, <1>2, HandlesAssumption DEF Argument, Return
<1>4. Refs(o)' = {h}
  BY <1>1, <1>2, <1>3, PoppedReferences
<1>5. o \in alive' /\ ~preventdeletion'[o] /\ refcount'[o] = 0
  BY <1>2 DEF Returns
<1>6. QED
  BY <1>3, <1>4, <1>5 DEF DyingObject

\* What keeps DyingInv: each handle on the stack deletes an object that dies.
LEMMA DyingStack ==
  ASSUME \A i \in 1 .. Depth' : \E o, h : h = releasing'[i] /\ o = obj'[h] /\ DyingObject(o, h)'
  PROVE  DyingInv'
<1> SUFFICES ASSUME NEW i \in 1 .. Depth' 
             PROVE  /\ obj'[releasing'[i]] \in alive' /\ ~preventdeletion'[obj'[releasing'[i]]]
                    /\ refcount'[obj'[releasing'[i]]] = 0 
                    /\ {h \in Handles : obj'[h] = obj'[releasing'[i]]} = {releasing'[i]}
                    /\ new' # obj'[releasing'[i]]
  BY DEF DyingInv, DyingObject, Refs
<1>1. PICK o, h : h = releasing'[i] /\ o = obj'[h] /\ DyingObject(o, h)'
  OBVIOUS
<1>2. o \in alive' /\ ~preventdeletion'[o] /\ refcount'[o] = 0 /\ {g \in Handles : obj'[g] = o} = {h} /\ new' # o
  BY <1>1 DEF DyingObject, Refs
<1>3. QED
  BY <1>1, <1>2

LEMMA ReturnsDying ==
  ASSUME IInv, ~Idle, Returns
  PROVE  DyingInv'
<1>1. RefCountTypeOK /\ StackInv /\ DyingInv /\ Return(Argument)
  BY DEF IInv, Returns
<1>2. /\ 1 .. Depth' = 1 .. Len(releasing) - 1
      /\ \A i \in 1 .. Len(releasing) - 1 : releasing'[i] = releasing[i]
      /\ \A h \in Handles \ {Handle} : obj'[h] = obj[h]
  BY <1>1, Popped
<1>3. ASSUME NEW i \in 1 .. Len(releasing) - 1 
      PROVE  \E o, h : h = releasing'[i] /\ o = obj'[h] /\ DyingObject(o, h)'
  <2>1. PICK h, o : h = releasing[i] /\ o = obj[h]
    OBVIOUS
  <2>2. i \in 1 .. Depth /\ h # Handle /\ h \in Handles /\ o \in Objects /\ o # Target
    <3>1. i \in 1 .. Len(releasing) /\ h \in Handles
      BY <1>1, <2>1, Innermost
    <3>2. QED
      BY <1>1, <2>1, <3>1, Below, TargetIsFresh
  <2>3. DyingObject(o, h)
    BY <1>1, <2>1, <2>2 DEF DyingInv
  <2>4. DyingObject(o, h)'
    BY <2>2, <2>3, ReturnsDyingObject
  <2>5. h = releasing'[i] /\ o = obj'[h]
    BY <1>2, <2>1, <2>2
  <2>6. QED
    BY <2>4, <2>5
<1>4. QED
  BY <1>2, <1>3, DyingStack

LEMMA ReturnsCount ==
  ASSUME IInv, ~Idle, Returns
  PROVE  CountInv'
<1>1. RefCountTypeOK /\ StackInv /\ DyingInv /\ CountInv /\ Return(Argument)
  BY DEF IInv, Returns
<1>2. Handle \in Handles /\ Target = obj[Handle] /\ Handle \in Roots \union alive /\ new' \in {new, NULL}
      /\ (Len(releasing) # 1 => new' = new) /\ (Len(releasing) = 1 => new' = NULL /\ Target # new)
  <2>1. Len(releasing) \in Nat \ {0} /\ Len(releasing) \in 1 .. Len(releasing) /\ Handle = releasing[Len(releasing)] /\ Handle \in Handles
    BY <1>1, Innermost
  <2>2. Handle \in Roots \union alive /\ Target = obj[Handle]
    BY <1>1, <2>1 DEF StackInv, Target
  <2>3. Len(releasing) # 1 => Len(releasing) > 1
    <3>1. \A n \in Nat \ {0} : n # 1 => n > 1
      OBVIOUS
    <3>2. QED
      BY <2>1, <3>1, Zenon
  <2>4. new' = IF Len(releasing) > 1 THEN new ELSE NULL
    BY <1>1 DEF Return
  <2>5. Len(releasing) = 1 => ~(Len(releasing) > 1) /\ Target # new
    BY <1>1, <2>1, <2>2 DEF StackInv
  <2>6. QED
    BY <2>1, <2>2, <2>3, <2>4, <2>5
<1>3. /\ \A h \in Handles \ {Handle} : obj'[h] = obj[h]
      /\ Dying' = {obj[releasing[i]] : i \in 1 .. Len(releasing) - 1}
  BY <1>1, Popped
<1>4. ASSUME NEW o \in Objects \ Dying'
      PROVE  refcount'[o] = Cardinality(Refs(o)') + (IF new' = o THEN 1 ELSE 0)
  <2>1. CASE o \in Dying
    <3>1. PICK i \in 1 .. Depth : o = obj[releasing[i]]
      BY <2>1, Dyings
    <3>2. Len(releasing) \in Nat /\ i \in Int /\ 1 <= i /\ i <= Len(releasing) /\ (~deleting => i <= Len(releasing) - 1)
      BY <1>1, <3>1, Innermost DEF Depth
    <3>3. ~(i \in 1 .. Len(releasing) - 1)
      BY <1>3, <1>4, <3>1
    <3>4. deleting /\ i = Len(releasing)
      BY <3>2, <3>3
    <3>5. o = Target /\ DyingObject(o, Handle)
      BY <1>1, <3>1, <3>4, Innermost, TargetIsDying DEF Target
    <3>6. refcount[o] = 0 /\ Refs(o) = {Handle} /\ new # o
      BY <3>5 DEF DyingObject
    <3>7. Refs(o)' = {}
      BY <1>1, <3>5, <3>6, PoppedReferences
    <3>8. refcount'[o] = 0 /\ new' # o
      BY <1>2, <3>4, <3>6, HandlesAssumption DEF Returns
    <3>9. QED
      BY <3>7, <3>8, FS_EmptySet
  <2>2. CASE o \notin Dying
    <3>1. refcount[o] = Cardinality(Refs(o)) + (IF new = o THEN 1 ELSE 0) /\ refcount[o] \in Nat /\ Cardinality(Refs(o)) \in Nat
      BY <1>1, <2>2, HandlesFinite DEF CountInv, RefCountTypeOK
    <3>2. o = Target => ~deleting
      BY <1>1, <2>2, TargetIsDying
    <3>3. refcount'[o] = refcount[o] - (IF o = Target THEN 1 ELSE 0)
      BY <3>2 DEF Returns
    <3>4. CASE o = Target
      <4>1. Cardinality(Refs(o)') = Cardinality(Refs(o)) - 1 /\ (new' = o <=> new = o)
        BY <1>1, <1>2, <3>4, PoppedReferences, HandlesAssumption
      <4>2. QED
        BY <3>1, <3>3, <3>4, <4>1
    <3>5. CASE o = Argument
      <4>1. o # Target /\ Cardinality(Refs(o)') = Cardinality(Refs(o)) + 1 /\ new = o /\ new' = NULL
        BY <1>1, <1>2, <3>5, PoppedReferences, HandlesAssumption
      <4>2. new' # o
        BY <4>1, HandlesAssumption
      <4>3. QED
        BY <3>1, <3>3, <4>1, <4>2
    <3>6. CASE o \notin {Target, Argument}
      <4>1. Refs(o)' = Refs(o)
        BY <1>1, <3>6, PoppedReferences
      <4>2. new' = o <=> new = o
        BY <1>2, <3>6, HandlesAssumption DEF Argument
      <4>3. QED
        BY <3>1, <3>3, <3>6, <4>1, <4>2
    <3>7. QED
      BY <3>4, <3>5, <3>6
  <2>3. QED
    BY <2>1, <2>2
<1>5. ASSUME NEW o \in Objects \ alive'
      PROVE  obj'[o] = NULL /\ Refs(o)' = {} /\ new' # o
  <2>1. CASE o \in alive
    <3>1. deleting /\ o = Target
      BY <1>5, <2>1 DEF Returns
    <3>2. DyingObject(o, Handle) /\ obj[o] = NULL
      BY <1>1, <3>1, TargetIsDying DEF StackInv
    <3>3. o # Handle /\ Refs(o) = {Handle} /\ new # o
      BY <1>2, <3>1, <3>2, HandlesAssumption DEF DyingObject
    <3>4. Refs(o)' = {}
      BY <1>1, <3>1, <3>3, PoppedReferences
    <3>5. QED
      BY <1>2, <1>3, <3>2, <3>3, <3>4, HandlesAssumption DEF Handles
  <2>2. CASE o \notin alive
    <3>1. obj[o] = NULL /\ Refs(o) = {} /\ new # o
      BY <1>1, <2>2 DEF CountInv
    <3>2. o # Handle /\ o # Target /\ o # Argument
      BY <1>2, <2>2, <3>1, HandlesAssumption DEF Refs, Argument
    <3>3. Refs(o)' = {}
      BY <1>1, <3>1, <3>2, PoppedReferences
    <3>4. QED
      BY <1>2, <1>3, <3>1, <3>2, <3>3, HandlesAssumption DEF Handles
  <2>3. QED
    BY <2>1, <2>2
<1>6. QED
  BY <1>4, <1>5 DEF CountInv

LEMMA ReturnsHolder ==
  ASSUME IInv, ~Idle, Returns
  PROVE  HolderInv'
<1>1. RefCountTypeOK /\ StackInv /\ DyingInv /\ HolderInv /\ Return(Argument)
  BY DEF IInv, Returns
<1>2. /\ Len(releasing') = Len(releasing) - 1 /\ releasing' \in Seq(Handles)
      /\ \A i \in 1 .. Len(releasing) - 1 : releasing'[i] = releasing[i]
      /\ \A h \in Handles \ {Handle} : obj'[h] = obj[h]
      /\ Dying' = {obj[releasing[i]] : i \in 1 .. Len(releasing) - 1}
  BY <1>1, Popped
<1> SUFFICES ASSUME ~Idle', releasing'[1] \in Objects
             PROVE  \E S \in SUBSET Objects : Kept(S)' /\ releasing'[1] \in S
  BY DEF HolderInv
<1>3. Len(releasing) \in Nat /\ Len(releasing) - 1 # 0
  BY <1>1, <1>2, Innermost, EmptySeq DEF Idle
<1>4. 1 \in 1 .. Len(releasing) - 1
  BY <1>2, <1>3, LenProperties
<1>5. releasing'[1] = releasing[1]
  BY <1>2, <1>4
<1>6. PICK S \in SUBSET Objects : Kept(S) /\ releasing[1] \in S
  BY <1>1, <1>5 DEF HolderInv
<1>7. S \subseteq alive' \ Dying'
  <2>1. Dying' \subseteq Dying
    BY <1>1, <1>2, Below, Dyings
  <2>2. deleting => Target \notin S
    BY <1>1, <1>6, TargetIsDying DEF Kept
  <2>3. QED
    BY <1>6, <2>1, <2>2 DEF Kept, Returns
<1>8. ASSUME NEW o \in S, ~preventdeletion'[o]
      PROVE  \E h \in (Roots \union S) \ {releasing'[1]} : obj'[h] = o
  <2>1. PICK h \in (Roots \union S) \ {releasing[1]} : obj[h] = o
    BY <1>6, <1>8 DEF Kept, Returns
  <2>2. h # Handle /\ h \in Handles
    BY <1>1, <1>6, <2>1, HandleIsNotKept DEF Handles
  <2>3. QED
    BY <1>2, <1>5, <2>1, <2>2
<1>9. QED
  BY <1>5, <1>6, <1>7, <1>8 DEF Kept

LEMMA ReturnsIInv ==
  ASSUME IInv, ~Idle, Returns
  PROVE  IInv'
BY ReturnsStack, ReturnsDying, ReturnsCount, ReturnsHolder DEF IInv

-----------------------------------------------------------------------------
(* Release() deletes the object.                                           *)

ReleaseDeletes ==
  /\ ~Idle /\ ~deleting /\ Target # NULL /\ ~preventdeletion[Target]
  /\ refcount' = [refcount EXCEPT ![Target] = @ - 1] /\ refcount'[Target] = 0
  /\ releasing' = Append(releasing, Target)
  /\ UNCHANGED <<obj, deleting, new, preventdeletion, alive>>

LEMMA LastReference ==
  ASSUME IInv, ReleaseDeletes
  PROVE  /\ Target \in alive /\ Target \in Objects \ Dying
         /\ Refs(Target) = {Handle} /\ new # Target /\ refcount[Target] = 1
         /\ \A S : Kept(S) => Target \notin S
         /\ \A i \in 1 .. Len(releasing) : releasing[i] # Target
<1>1. RefCountTypeOK /\ StackInv /\ DyingInv /\ CountInv /\ HolderInv /\ ~Idle /\ ~deleting
  BY DEF IInv, ReleaseDeletes
<1>2. Target \in Objects \ Dying
  BY <1>1, Innermost, TargetIsNotDying DEF ReleaseDeletes
<1>3. Handle \in Refs(Target)
  BY <1>1, Innermost DEF Refs, Target
<1>4. Target \in alive
  BY <1>1, <1>2, <1>3 DEF CountInv
<1>5. refcount[Target] \in Nat /\ refcount[Target] = 1
  BY <1>1, <1>2 DEF ReleaseDeletes, RefCountTypeOK
<1>6. refcount[Target] = Cardinality(Refs(Target)) + (IF new = Target THEN 1 ELSE 0)
  BY <1>1, <1>2 DEF CountInv
<1>7. Cardinality(Refs(Target)) \in Nat /\ Cardinality(Refs(Target)) >= 1
      /\ (Cardinality(Refs(Target)) = 1 => Refs(Target) = {Handle})
  BY <1>3, HandlesFinite, OneReference
<1>8. Refs(Target) = {Handle} /\ new # Target
  BY <1>5, <1>6, <1>7
<1>9. ASSUME NEW S, Kept(S), Target \in S PROVE FALSE
  <2>1. PICK h \in (Roots \union S) \ {releasing[1]} : obj[h] = Target
    BY <1>9 DEF Kept, ReleaseDeletes
  <2>2. h \in Handles
    BY <1>1, <1>9, <2>1 DEF Handles, Kept, RefCountTypeOK
  <2>3. h = Handle
    BY <1>8, <2>1, <2>2 DEF Refs
  <2>4. QED
    BY <1>1, <1>9, <2>1, <2>3, HandleIsNotKept
<1>10. ASSUME NEW i \in 1 .. Len(releasing), releasing[i] = Target PROVE FALSE
  <2>1. CASE i = 1
    BY <1>1, <1>2, <1>9, <1>10, <2>1 DEF HolderInv
  <2>2. CASE i # 1
    <3>1. i - 1 \in 1 .. Len(releasing) - 1 /\ (i - 1) + 1 = i
      BY <1>1, <2>2, Innermost
    <3>2. releasing[i] \in Dying
      BY <1>1, <3>1, Below
    <3>3. QED
      BY <1>2, <1>10, <3>2
  <2>3. QED
    BY <2>1, <2>2
<1>11. QED
  BY <1>2, <1>4, <1>5, <1>8, <1>9, <1>10

LEMMA Pushed ==
  ASSUME IInv, ReleaseDeletes
  PROVE  /\ Len(releasing) \in Nat \ {0} /\ releasing' \in Seq(Handles) /\ Len(releasing') = Len(releasing) + 1
         /\ \A i \in 1 .. Len(releasing) : releasing'[i] = releasing[i]
         /\ releasing'[Len(releasing) + 1] = Target
         /\ 1 .. Depth' = 1 .. Len(releasing) /\ Depth = Len(releasing) - 1
         /\ Dying' = Dying \union {Target}
<1>1. RefCountTypeOK /\ ~Idle /\ Target \in Handles /\ releasing \in Seq(Handles)
  BY LastReference DEF IInv, ReleaseDeletes, Handles, RefCountTypeOK
<1>2. Len(releasing) \in Nat \ {0} /\ Handle = releasing[Len(releasing)]
  BY <1>1, Innermost
<1>3. releasing' \in Seq(Handles) /\ Len(releasing') = Len(releasing) + 1
      /\ (\A i \in 1 .. Len(releasing) : releasing'[i] = releasing[i])
      /\ releasing'[Len(releasing) + 1] = Target
  BY <1>1, AppendProperties DEF ReleaseDeletes
<1>4. Depth' = Len(releasing') - 1 /\ Depth = Len(releasing) - 1
  BY DEF Depth, ReleaseDeletes
<1>5. 1 .. Depth' = 1 .. Len(releasing)
  BY <1>2, <1>3, <1>4
<1>6. Dying' = {obj'[releasing'[i]] : i \in 1 .. Depth'}
  BY DEF Dying, Depth
<1>7. Dying' = {obj[releasing[i]] : i \in 1 .. Len(releasing)}
  BY <1>3, <1>5, <1>6 DEF ReleaseDeletes
<1>8. \A i \in 1 .. Len(releasing) : i \in 1 .. Depth \/ i = Len(releasing)
  BY <1>2, <1>4
<1>9. \A i \in 1 .. Depth : i \in 1 .. Len(releasing)
  BY <1>2, <1>4
<1>10. Dying' = Dying \union {Target}
  BY <1>2, <1>7, <1>8, <1>9, Dyings DEF Target
<1>11. QED
  BY <1>2, <1>3, <1>4, <1>5, <1>10

LEMMA ReleaseDeletesIInv ==
  ASSUME IInv, ReleaseDeletes
  PROVE  IInv'
<1>1. RefCountTypeOK /\ StackInv /\ DyingInv /\ CountInv /\ HolderInv /\ ~Idle /\ ~deleting
  BY DEF IInv, ReleaseDeletes
<1>2. refcount' \in [Objects -> Nat] /\ \A o \in Objects \ {Target} : refcount'[o] = refcount[o]
  BY <1>1, LastReference DEF RefCountTypeOK, ReleaseDeletes
<1>3. RefCountTypeOK'
  BY <1>1, <1>2, Pushed DEF RefCountTypeOK, ReleaseDeletes
<1>4. StackInv'
  <2>1. ~Idle'
    BY Pushed DEF Idle
  <2>2. ASSUME NEW i \in 1 .. Len(releasing'), NEW j \in 1 .. Len(releasing'), releasing'[i] = releasing'[j] PROVE i = j
    <3>1. (i \in 1 .. Len(releasing) \/ i = Len(releasing) + 1) /\ (j \in 1 .. Len(releasing) \/ j = Len(releasing) + 1)
      BY Pushed
    <3>2. QED
      BY <1>1, <2>2, <3>1, Pushed, LastReference DEF StackInv
  <2>3. ASSUME NEW i \in 1 .. Len(releasing') - 1 PROVE releasing'[i + 1] = obj'[releasing'[i]]
    <3>1. i \in 1 .. Len(releasing)
      BY Pushed
    <3>2. CASE i = Len(releasing)
      BY <1>1, <3>1, <3>2, Pushed, Innermost DEF Target, ReleaseDeletes
    <3>3. CASE i # Len(releasing)
      <4>1. i \in 1 .. Len(releasing) - 1 /\ i + 1 \in 1 .. Len(releasing)
        BY <3>1, <3>3, Pushed
      <4>2. QED
        BY <1>1, <3>1, <4>1, Pushed DEF StackInv, ReleaseDeletes
    <3>4. QED
      BY <3>2, <3>3
  <2>4. obj'[releasing'[1]] # new'
    <3>1. 1 \in 1 .. Len(releasing)
      BY Pushed
    <3>2. QED
      BY <1>1, <3>1, Pushed DEF StackInv, ReleaseDeletes
  <2>5. ASSUME NEW i \in 1 .. Len(releasing') PROVE releasing'[i] \in Roots \union alive'
    <3>1. i \in 1 .. Len(releasing) \/ i = Len(releasing) + 1
      BY Pushed
    <3>2. QED
      BY <1>1, <3>1, Pushed, LastReference DEF StackInv, ReleaseDeletes
  <2>6. ~deleting'
    BY <1>1 DEF ReleaseDeletes
  <2>7. QED
    BY <2>1, <2>2, <2>3, <2>4, <2>5, <2>6 DEF StackInv
<1>5. DyingInv'
  <2>1. ASSUME NEW i \in 1 .. Len(releasing)
        PROVE  \E o, h : h = releasing'[i] /\ o = obj'[h] /\ DyingObject(o, h)'
    <3>1. PICK h, o : h = releasing[i] /\ o = obj[h]
      OBVIOUS
    <3>2. releasing'[i] = h /\ obj'[h] = o
      BY <3>1, Pushed DEF ReleaseDeletes
    <3>3. Refs(o)' = Refs(o)
      BY DEF Refs, ReleaseDeletes
    <3>4. CASE i = Len(releasing)
      <4>1. h = Handle /\ o = Target
        BY <1>1, <3>1, <3>4, Innermost DEF Target
      <4>2. DyingObject(o, h)'
        BY <3>3, <4>1, LastReference DEF DyingObject, ReleaseDeletes
      <4>3. QED
        BY <3>2, <4>2
    <3>5. CASE i # Len(releasing)
      <4>1. i \in 1 .. Depth
        BY <3>5, Pushed
      <4>2. DyingObject(o, h) /\ o \in Dying
        BY <1>1, <3>1, <4>1, Dyings DEF DyingInv
      <4>3. o # Target /\ o \in Objects
        BY <1>1, <4>2, LastReference DEF DyingObject, RefCountTypeOK
      <4>4. DyingObject(o, h)'
        BY <1>2, <3>3, <4>2, <4>3 DEF DyingObject, ReleaseDeletes
      <4>5. QED
        BY <3>2, <4>4
    <3>6. QED
      BY <3>4, <3>5
  <2>2. QED
    BY <2>1, Pushed, DyingStack
<1>6. CountInv'
  <2>1. \A o : Refs(o)' = Refs(o)
    BY DEF Refs, ReleaseDeletes
  <2>2. \A o \in Objects \ Dying' : o \in Objects \ Dying /\ o # Target
    BY Pushed
  <2>3. \A o \in Objects \ Dying' : refcount'[o] = Cardinality(Refs(o)') + (IF new' = o THEN 1 ELSE 0)
    BY <1>1, <1>2, <2>1, <2>2 DEF CountInv, ReleaseDeletes
  <2>4. \A o \in Objects \ alive' : obj'[o] = NULL /\ Refs(o)' = {} /\ new' # o
    BY <1>1, <2>1 DEF CountInv, ReleaseDeletes
  <2>5. QED
    BY <2>3, <2>4 DEF CountInv
<1>7. HolderInv'
  <2> SUFFICES ASSUME releasing'[1] \in Objects
               PROVE  \E S \in SUBSET Objects : Kept(S)' /\ releasing'[1] \in S
    BY DEF HolderInv
  <2>1. 1 \in 1 .. Len(releasing)
    BY Pushed
  <2>2. releasing'[1] = releasing[1]
    BY <2>1, Pushed
  <2>3. PICK S \in SUBSET Objects : Kept(S) /\ releasing[1] \in S
    BY <1>1, <2>2 DEF HolderInv
  <2>4. S \subseteq alive' \ Dying'
    BY <2>3, Pushed, LastReference DEF Kept, ReleaseDeletes
  <2>5. QED
    BY <2>2, <2>3, <2>4 DEF Kept, ReleaseDeletes
<1>8. QED
  BY <1>3, <1>4, <1>5, <1>6, <1>7 DEF IInv

-----------------------------------------------------------------------------
(* The client's operations.                                                *)

LEMMA IdleState ==
  ASSUME Idle, StackInv
  PROVE  releasing = <<>> /\ ~deleting /\ new = NULL /\ 1 .. Depth = {} /\ Dying = {}
<1>1. releasing = <<>> /\ ~deleting /\ new = NULL
  BY DEF Idle, StackInv
<1>2. Depth = -1
  BY <1>1 DEF Depth
<1>3. 1 .. Depth = {}
  BY <1>2
<1>4. QED
  BY <1>1, <1>3, Dyings

Starts == ({obj[r] : r \in Roots} \ {NULL}) \union {o \in alive : preventdeletion[o]}

LEMMA ReachableIsLeast ==
  Reachable = {o \in Objects : \A S \in SUBSET Objects : Starts \subseteq S /\ Closed(S) => o \in S}
BY DEF Reachable, Starts

LEMMA StartsAreAlive ==
  ASSUME RefCountTypeOK, CountInv
  PROVE  Starts \subseteq alive /\ \A h \in Handles : obj[h] # NULL => obj[h] \in alive
<1>1. ASSUME NEW h \in Handles, obj[h] # NULL PROVE obj[h] \in alive
  <2>1. obj[h] \in Objects /\ h \in Refs(obj[h])
    BY <1>1 DEF RefCountTypeOK, Refs
  <2>2. QED
    BY <2>1 DEF CountInv
<1>2. QED
  BY <1>1 DEF Starts, Handles

LEMMA ReachableIsAlive ==
  ASSUME RefCountTypeOK, CountInv
  PROVE  Reachable \subseteq alive
<1>1. alive \in SUBSET Objects /\ Starts \subseteq alive /\ Closed(alive)
  BY StartsAreAlive DEF RefCountTypeOK, Closed, Handles
<1>2. QED
  BY <1>1, ReachableIsLeast

\* The least set that holds what the client starts from and, for each member
\* but the one handle h lies in, the object its handle refers to.
LEMMA HolderIsKept ==
  ASSUME RefCountTypeOK, CountInv, NEW h \in Reachable
  PROVE  \E S \in SUBSET Objects :
           /\ S \subseteq alive /\ h \in S
           /\ \A o \in S : preventdeletion[o] \/ \E g \in (Roots \union S) \ {h} : obj[g] = o
<1> DEFINE Closed2(T) == \A o \in T \ {h} : obj[o] # NULL => obj[o] \in T
           S == {o \in Objects : \A T \in SUBSET Objects : Starts \subseteq T /\ Closed2(T) => o \in T}
<1>1. alive \subseteq Objects /\ Starts \subseteq alive /\ Closed2(alive)
  BY StartsAreAlive DEF RefCountTypeOK, Handles
<1>2. S \subseteq alive
  BY <1>1
<1>3. Starts \subseteq S
  BY <1>1
<1>4. Closed2(S)
  BY StartsAreAlive, <1>1, <1>2 DEF Handles
<1>5. h \in S
  <2> SUFFICES ASSUME h \notin S PROVE FALSE
    OBVIOUS
  <2>1. Closed(S)
    BY <1>4 DEF Closed
  <2>2. QED
    BY <1>3, <2>1, ReachableIsLeast
<1>6. ASSUME NEW o \in S, ~preventdeletion[o], \A g \in (Roots \union S) \ {h} : obj[g] # o
      PROVE  FALSE
  <2> DEFINE T == S \ {o}
  <2>1. \A r \in Roots : r # h
    BY HandlesAssumption DEF Reachable
  <2>2. o \notin Starts
    BY <1>6, <2>1 DEF Starts
  <2>3. Starts \subseteq T
    BY <1>3, <2>2
  <2>4. Closed2(T)
    BY <1>4, <1>6
  <2>5. QED
    BY <2>3, <2>4
<1> HIDE DEF S
<1>7. S \in SUBSET Objects
  BY DEF S
<1>8. QED
  BY <1>2, <1>5, <1>6, <1>7

\* Attach() begins: o is alive, or is constructed by the same call.
Starting(h, o) ==
  /\ Idle /\ Attach(h, o) /\ h \in Roots \union Reachable
  /\ o \in alive' \union {NULL}
  /\ alive \subseteq alive' /\ alive' \subseteq Objects
  /\ preventdeletion' \in [Objects -> BOOLEAN]
  /\ \A p \in alive : preventdeletion'[p] = preventdeletion[p]
  /\ obj' = obj

LEMMA StartingIInv ==
  ASSUME IInv, NEW h \in Handles, NEW o \in Objects \union {NULL}, Starting(h, o)
  PROVE  IInv'
<1>1. RefCountTypeOK /\ StackInv /\ CountInv /\ Idle
  BY DEF IInv, Starting
<1>2. releasing' = <<h>> /\ deleting' = FALSE /\ new' = o /\ obj' = obj
      /\ refcount' = [p \in Objects |-> IF p = o THEN refcount[p] + 1 ELSE refcount[p]]
  BY DEF Starting, Attach
<1>3. releasing' \in Seq(Handles) /\ Len(releasing') = 1 /\ releasing'[1] = h /\ ~Idle'
  BY <1>2 DEF Idle
<1>4. h \in Roots \union alive
  BY <1>1, ReachableIsAlive DEF Starting
<1>5. RefCountTypeOK'
  <2>1. refcount' \in [Objects -> Nat]
    BY <1>1, <1>2 DEF RefCountTypeOK
  <2>2. obj' \in [Handles -> Objects \union {NULL}] /\ deleting' \in BOOLEAN /\ new' \in Objects \union {NULL}
    BY <1>1, <1>2 DEF RefCountTypeOK
  <2>3. preventdeletion' \in [Objects -> BOOLEAN] /\ alive' \subseteq Objects
    BY DEF Starting
  <2>4. QED
    BY <1>3, <2>1, <2>2, <2>3 DEF RefCountTypeOK
<1>6. Depth' = 0
  <2>1. Depth' = Len(releasing') - (IF deleting' THEN 0 ELSE 1)
    BY DEF Depth
  <2>2. QED
    BY <1>2, <1>3, <2>1
<1>7. 1 .. Depth' = {} /\ Dying' = {}
  <2>1. 1 .. Depth' = {}
    BY <1>6
  <2>2. Dying' = {obj'[releasing'[i]] : i \in 1 .. Depth'}
    BY DEF Dying, Depth
  <2>3. QED
    BY <2>1, <2>2
<1>8. StackInv'
  <2>1. obj'[releasing'[1]] # new'
    BY <1>2, <1>3 DEF Starting, Attach
  <2>2. \A i \in 1 .. Len(releasing') : i = 1 /\ releasing'[i] \in Roots \union alive'
    BY <1>3, <1>4 DEF Starting
  <2>3. 1 .. Len(releasing') - 1 = {}
    BY <1>3
  <2>4. QED
    BY <1>2, <1>3, <2>1, <2>2, <2>3 DEF StackInv
<1>9. DyingInv'
  BY <1>7 DEF DyingInv
<1>10. CountInv'
  <2>1. new = NULL /\ Dying = {}
    BY <1>1, IdleState
  <2>2. \A p : Refs(p)' = Refs(p)
    BY <1>2 DEF Refs
  <2>3. \A p \in Objects : refcount[p] = Cardinality(Refs(p)) /\ Cardinality(Refs(p)) \in Nat
    BY <1>1, <2>1, HandlesFinite, HandlesAssumption DEF CountInv
  <2>4. \A p \in Objects : refcount'[p] = Cardinality(Refs(p)') + (IF new' = p THEN 1 ELSE 0)
    BY <1>2, <2>2, <2>3
  <2>5. ASSUME NEW p \in Objects \ alive' PROVE obj'[p] = NULL /\ Refs(p)' = {} /\ new' # p
    <3>1. p \in Objects \ alive /\ o # p
      BY <2>5, HandlesAssumption DEF Starting
    <3>2. QED
      BY <1>1, <1>2, <2>2, <3>1 DEF CountInv
  <2>6. QED
    BY <2>4, <2>5 DEF CountInv
<1>11. HolderInv'
  <2> SUFFICES ASSUME h \in Objects PROVE \E S \in SUBSET Objects : Kept(S)' /\ h \in S
    BY <1>3 DEF HolderInv
  <2>1. h \in Reachable
    BY HandlesAssumption DEF Starting
  <2>2. PICK S \in SUBSET Objects :
           /\ S \subseteq alive /\ h \in S
           /\ \A p \in S : preventdeletion[p] \/ \E g \in (Roots \union S) \ {h} : obj[g] = p
    BY <1>1, <2>1, HolderIsKept
  <2>3. S \subseteq alive' \ Dying'
    BY <1>7, <2>2 DEF Starting
  <2>4. \A p \in S : preventdeletion'[p] \/ \E g \in (Roots \union S) \ {h} : obj'[g] = p
    BY <1>2, <2>2 DEF Starting
  <2>5. QED
    BY <1>3, <2>2, <2>3, <2>4 DEF Kept
<1>12. QED
  BY <1>5, <1>8, <1>9, <1>10, <1>11 DEF IInv

-----------------------------------------------------------------------------
LEMMA InitIInv == RefCountInit => IInv
<1> SUFFICES ASSUME RefCountInit PROVE IInv
  OBVIOUS
<1>1. RefCountTypeOK
  <2>1. releasing \in Seq(Handles)
    BY EmptySeq DEF RefCountInit
  <2>2. QED
    BY <2>1 DEF RefCountInit, RefCountTypeOK
<1>2. Idle /\ StackInv
  BY DEF RefCountInit, Idle, StackInv
<1>3. DyingInv /\ new = NULL /\ HolderInv
  BY <1>2, IdleState DEF DyingInv, HolderInv
<1>4. \A o \in Objects : Refs(o) = {} /\ obj[o] = NULL /\ refcount[o] = 0
  BY HandlesAssumption DEF RefCountInit, Refs, Handles
<1>5. CountInv
  BY <1>3, <1>4, FS_EmptySet, HandlesAssumption DEF CountInv
<1>6. QED
  BY <1>1, <1>2, <1>3, <1>5 DEF IInv

LEMMA PreventIInv ==
  ASSUME IInv, NEW o \in Objects, NEW prevent \in BOOLEAN, PreventDeletion(o, prevent)
  PROVE  IInv'
<1>1. RefCountTypeOK /\ StackInv /\ CountInv /\ Idle
  BY DEF IInv, PreventDeletion
<1>2. UNCHANGED <<obj, refcount, alive, releasing, deleting, new>>
      /\ preventdeletion' \in [Objects -> BOOLEAN]
  BY <1>1 DEF PreventDeletion, RefCountTypeOK
<1>3. RefCountTypeOK' /\ StackInv' /\ Idle'
  BY <1>1, <1>2 DEF RefCountTypeOK, StackInv, Idle, Target, Handle, Last
<1>4. CountInv'
  BY <1>1, <1>2 DEF CountInv, Dying, Refs
<1>5. 1 .. Depth' = {}
  BY <1>1, <1>2, IdleState DEF Depth
<1>6. DyingInv' /\ HolderInv'
  BY <1>3, <1>5 DEF DyingInv, HolderInv
<1>7. QED
  BY <1>3, <1>4, <1>6 DEF IInv

LEMMA ReleaseIInv ==
  ASSUME IInv, Release
  PROVE  IInv'
<1>1. RefCountTypeOK /\ StackInv /\ DyingInv /\ CountInv /\ ~Idle /\ ~deleting /\ UNCHANGED <<preventdeletion, alive>>
  BY DEF IInv, Release
<1>2. CASE Target = NULL
  <2>1. Return(Argument) /\ refcount' = refcount
    BY <1>2 DEF Release
  <2>2. Returns
    BY <1>1, <1>2, <2>1, HandlesAssumption DEF Returns, RefCountTypeOK
  <2>3. QED
    BY <1>1, <2>2, ReturnsIInv
<1>3. CASE Target # NULL
  <2>1. Target \in Objects \ Dying
    BY <1>1, <1>3, Innermost, TargetIsNotDying
  <2>2. refcount' = [refcount EXCEPT ![Target] = @ - 1]
    BY <1>3 DEF Release, DecRef
  <2>3. CASE Deletes(Target)
    <3>1. ReleaseDeletes
      BY <1>1, <1>3, <2>2, <2>3 DEF Release, ReleaseDeletes, Deletes
    <3>2. QED
      BY <3>1, ReleaseDeletesIInv
  <2>4. CASE ~Deletes(Target)
    <3>1. Return(Argument)
      BY <1>3, <2>4 DEF Release
    <3>2. Handle \in Refs(Target)
      BY <1>1, Innermost DEF Refs, Target
    <3>3. Cardinality(Refs(Target)) \in Nat /\ Cardinality(Refs(Target)) >= 1
      BY <3>2, HandlesFinite, OneReference
    <3>4. refcount[Target] \in Nat /\ refcount[Target] >= 1
      BY <1>1, <2>1, <3>3 DEF CountInv, RefCountTypeOK
    <3>5. refcount' \in [Objects -> Nat]
          /\ \A o \in Objects : refcount'[o] = refcount[o] - (IF o = Target /\ ~deleting THEN 1 ELSE 0)
      BY <1>1, <2>1, <2>2, <3>4 DEF RefCountTypeOK
    <3>6. Returns
      BY <1>1, <3>1, <3>5 DEF Returns
    <3>7. QED
      BY <1>1, <3>6, ReturnsIInv
  <2>5. QED
    BY <2>3, <2>4
<1>4. QED
  BY <1>2, <1>3

LEMMA NextIInv == IInv /\ [RefCountNext]_refCountVars => IInv'
<1> SUFFICES ASSUME IInv, [RefCountNext]_refCountVars PROVE IInv'
  OBVIOUS
<1>1. ASSUME UNCHANGED refCountVars PROVE IInv'
  <2>1. UNCHANGED <<obj, refcount, preventdeletion, alive, releasing, deleting, new>> /\ IInv
    BY <1>1 DEF refCountVars
  <2>2. RefCountTypeOK' /\ StackInv' /\ (Idle' <=> Idle)
    BY <2>1 DEF IInv, RefCountTypeOK, StackInv, Idle, Target, Handle, Last
  <2>3. Dying' = Dying /\ \A o : Refs(o)' = Refs(o)
    BY <2>1 DEF Dying, Refs
  <2>4. DyingInv'
    BY <2>1 DEF IInv, DyingInv, DyingObject, Depth, Refs
  <2>5. CountInv'
    BY <2>1, <2>3 DEF IInv, CountInv
  <2>6. \A S : Kept(S) => Kept(S)'
    BY <2>1, <2>3 DEF Kept
  <2>7. HolderInv'
    BY <2>1, <2>2, <2>6 DEF IInv, HolderInv
  <2>8. QED
    BY <2>2, <2>4, <2>5, <2>7 DEF IInv
<1>2. ASSUME NEW h \in Handles, AssignSame(h) PROVE IInv'
  BY <1>1, <1>2 DEF AssignSame
<1>3. ASSUME NEW h \in Handles, NEW o \in Objects \union {NULL}, Assign(h, o) PROVE IInv'
  <2>1. Reachable \subseteq alive /\ RefCountTypeOK
    BY ReachableIsAlive DEF IInv
  <2>2. Starting(h, o)
    BY <1>3, <2>1 DEF Assign, Starting, RefCountTypeOK
  <2>3. QED
    BY <2>2, StartingIInv
<1>4. ASSUME NEW h \in Handles, NEW o \in Objects, NEW prevent \in BOOLEAN, Create(h, o, prevent) PROVE IInv'
  <2>1. RefCountTypeOK
    BY DEF IInv
  <2>2. Starting(h, o)
    BY <1>4, <2>1 DEF Create, Starting, RefCountTypeOK
  <2>3. QED
    BY <2>2, StartingIInv
<1>5. ASSUME NEW o \in Objects, NEW prevent \in BOOLEAN, PreventDeletion(o, prevent) PROVE IInv'
  BY <1>5, PreventIInv
<1>6. CASE Release
  BY <1>6, ReleaseIInv
<1>7. CASE Deleted
  <2>1. RefCountTypeOK /\ ~Idle /\ deleting
    BY <1>7 DEF Deleted, IInv
  <2>2. Returns
    BY <1>7, <2>1 DEF Deleted, Returns, RefCountTypeOK
  <2>3. QED
    BY <2>1, <2>2, ReturnsIInv
<1>8. QED
  BY <1>1, <1>2, <1>3, <1>4, <1>5, <1>6, <1>7 DEF RefCountNext

LEMMA InvariantHolds == RefCountSpec => []IInv
BY InitIInv, NextIInv, PTL DEF RefCountSpec

-----------------------------------------------------------------------------
(* The state keeps its types: in particular no count becomes negative.     *)
THEOREM TypeCorrect == RefCountSpec => []RefCountTypeOK
<1>1. IInv => RefCountTypeOK
  BY DEF IInv
<1>2. QED
  BY <1>1, InvariantHolds, PTL

(* Release() never leaves a handle that refers to a deleted object,        *)
(* whatever chain of deletions it starts.                                  *)
THEOREM HandlesReferToLiveObjects == RefCountSpec => []NoDangling
<1>1. IInv => NoDangling
  BY StartsAreAlive DEF IInv, NoDangling, RefCountTypeOK, Handles
<1>2. QED
  BY <1>1, InvariantHolds, PTL

(* Attach() and Release() leave an object alone once its destructor runs.  *)
THEOREM DyingObjectsStayUncounted == RefCountSpec => []NoResurrection
<1>1. ASSUME IInv PROVE NoResurrection
  <2>1. new # NULL => new \in alive
    BY <1>1 DEF IInv, CountInv, RefCountTypeOK
  <2>2. new \notin Dying
    BY <1>1, Dyings DEF IInv, DyingInv, DyingObject
  <2>3. ~Idle /\ ~deleting => Target \notin Dying
    BY <1>1, TargetIsNotDying DEF IInv
  <2>4. QED
    BY <2>1, <2>2, <2>3 DEF NoResurrection
<1>2. QED
  BY <1>1, InvariantHolds, PTL

(* IncRef() and DecRef() keep the count equal to the number of handles     *)
(* that refer to the object.                                               *)
THEOREM CountIsExact == RefCountSpec => []CountsHandles
<1>1. ASSUME IInv, NEW o \in alive \ Dying
      PROVE  refcount[o] = Cardinality({h \in Counted : obj[h] = o}) + (IF ~Idle /\ new = o THEN 1 ELSE 0)
  <2>1. RefCountTypeOK /\ StackInv /\ CountInv
    BY <1>1 DEF IInv
  <2>2. o \in Objects /\ o # NULL
    BY <2>1, HandlesAssumption DEF RefCountTypeOK
  <2>3. {h \in Counted : obj[h] = o} = Refs(o)
    BY <1>1, <2>1, <2>2 DEF CountInv, Counted, Refs, Handles, RefCountTypeOK
  <2>4. new = o => ~Idle
    BY <2>1, <2>2 DEF StackInv
  <2>5. refcount[o] = Cardinality(Refs(o)) + (IF new = o THEN 1 ELSE 0)
    BY <1>1, <2>1, <2>2 DEF CountInv
  <2>6. QED
    BY <2>3, <2>4, <2>5
<1>2. IInv => CountsHandles
  BY <1>1 DEF CountsHandles
<1>3. QED
  BY <1>2, InvariantHolds, PTL

-----------------------------------------------------------------------------
(* Nothing that is counted 0 and is the handles' to delete is left behind. *)

StaysInv == \A o \in alive \ Dying : refcount[o] > 0 \/ preventdeletion[o]

\* What returning from Release() leaves is not dying, or was not before.
LEMMA ReturnsLeaves ==
  ASSUME IInv, ~Idle, Return(Argument), NEW o \in Objects \ Dying', o \in Dying
  PROVE  deleting /\ o = Target
<1>1. RefCountTypeOK /\ StackInv /\ DyingInv
  BY DEF IInv
<1>2. Dying' = {obj[releasing[i]] : i \in 1 .. Len(releasing) - 1}
  BY <1>1, Popped
<1>3. PICK i \in 1 .. Depth : o = obj[releasing[i]]
  BY Dyings
<1>4. Len(releasing) \in Nat /\ i \in Int /\ 1 <= i /\ i <= Len(releasing) /\ (~deleting => i <= Len(releasing) - 1)
  BY <1>1, <1>3, Innermost DEF Depth
<1>5. ~(i \in 1 .. Len(releasing) - 1)
  BY <1>2, <1>3
<1>6. deleting /\ i = Len(releasing)
  BY <1>4, <1>5
<1>7. QED
  BY <1>1, <1>3, <1>6, Innermost DEF Target

LEMMA NextStaysInv ==
  ASSUME IInv, IInv', StaysInv, [RefCountNext]_refCountVars
  PROVE  StaysInv'
<1> USE DEF IInv
<1>1. ASSUME UNCHANGED refCountVars PROVE StaysInv'
  BY <1>1 DEF refCountVars, StaysInv, Dying
<1>2. ASSUME NEW h \in Handles, AssignSame(h) PROVE StaysInv'
  BY <1>1, <1>2 DEF AssignSame
<1>3. ASSUME NEW h \in Handles, NEW o \in Objects \union {NULL}, Idle, Attach(h, o),
             \A p \in alive' : p = o \/ (p \in alive /\ preventdeletion'[p] = preventdeletion[p])
      PROVE  StaysInv'
  <2>1. Dying = {} /\ refcount \in [Objects -> Nat] /\ alive' \subseteq Objects
    BY <1>3, IdleState DEF RefCountTypeOK
  <2>2. refcount' = [p \in Objects |-> IF p = o THEN refcount[p] + 1 ELSE refcount[p]]
    BY <1>3 DEF Attach
  <2>3. ASSUME NEW p \in alive' PROVE refcount'[p] > 0 \/ preventdeletion'[p]
    BY <1>3, <2>1, <2>2, <2>3 DEF StaysInv
  <2>4. QED
    BY <2>3 DEF StaysInv
<1>4. ASSUME NEW h \in Handles, NEW o \in Objects \union {NULL}, Assign(h, o) PROVE StaysInv'
  BY <1>3, <1>4 DEF Assign
<1>5. ASSUME NEW h \in Handles, NEW o \in Objects, NEW prevent \in BOOLEAN, Create(h, o, prevent) PROVE StaysInv'
  <2>1. \A p \in alive' : p = o \/ (p \in alive /\ preventdeletion'[p] = preventdeletion[p])
    BY <1>5 DEF Create, RefCountTypeOK
  <2>2. QED
    BY <1>3, <1>5, <2>1 DEF Create
<1>6. ASSUME NEW o \in Objects, NEW prevent \in BOOLEAN, PreventDeletion(o, prevent) PROVE StaysInv'
  <2>1. Dying' = Dying /\ alive' = alive /\ refcount' = refcount /\ refcount[o] > 0
    BY <1>6 DEF PreventDeletion, Dying
  <2>2. \A p \in alive \ {o} : preventdeletion'[p] = preventdeletion[p]
    BY <1>6 DEF PreventDeletion, RefCountTypeOK
  <2>3. QED
    BY <2>1, <2>2 DEF StaysInv
<1>7. CASE Release
  <2>1. ~Idle /\ ~deleting /\ UNCHANGED <<preventdeletion, alive>> /\ alive \subseteq Objects
    BY <1>7 DEF Release, RefCountTypeOK
  <2>2. CASE Target = NULL
    <3>1. Return(Argument) /\ refcount' = refcount
      BY <1>7, <2>2 DEF Release
    <3>2. \A o \in alive \ Dying' : o \in alive \ Dying
      BY <2>1, <3>1, ReturnsLeaves
    <3>3. QED
      BY <2>1, <3>1, <3>2 DEF StaysInv
  <2>3. CASE Target # NULL
    <3>1. Target \in Objects /\ refcount' = [refcount EXCEPT ![Target] = @ - 1]
      BY <1>7, <2>1, <2>3, Innermost DEF Release, DecRef
    <3>2. \A o \in alive : o # Target => refcount'[o] = refcount[o]
      BY <2>1, <3>1 DEF RefCountTypeOK
    <3>3. refcount'[Target] \in Nat
      BY <3>1 DEF RefCountTypeOK
    <3>4. CASE Deletes(Target)
      <4>1. ReleaseDeletes
        BY <1>7, <2>1, <2>3, <3>1, <3>4 DEF Release, ReleaseDeletes, Deletes
      <4>2. Dying' = Dying \union {Target}
        BY <4>1, Pushed
      <4>3. QED
        BY <2>1, <3>2, <4>2 DEF StaysInv
    <3>5. CASE ~Deletes(Target)
      <4>1. Return(Argument)
        BY <1>7, <2>3, <3>5 DEF Release
      <4>2. \A o \in alive \ Dying' : o \in alive \ Dying
        BY <2>1, <4>1, ReturnsLeaves
      <4>3. refcount'[Target] > 0 \/ preventdeletion[Target]
        BY <3>3, <3>5 DEF Deletes
      <4>4. QED
        BY <2>1, <3>2, <4>2, <4>3 DEF StaysInv
    <3>6. QED
      BY <3>4, <3>5
  <2>4. QED
    BY <2>2, <2>3
<1>8. CASE Deleted
  <2>1. ~Idle /\ Return(Argument) /\ alive' = alive \ {Target} /\ UNCHANGED <<refcount, preventdeletion>>
    BY <1>8 DEF Deleted
  <2>2. \A o \in alive' \ Dying' : o \in alive \ Dying
    BY <2>1, ReturnsLeaves DEF RefCountTypeOK
  <2>3. QED
    BY <2>1, <2>2 DEF StaysInv
<1>9. QED
  BY <1>1, <1>2, <1>4, <1>5, <1>6, <1>7, <1>8 DEF RefCountNext

(* When no call runs, an object the client cannot reach is kept by the     *)
(* handle of another such object: with Attach() and Release(), only cycles *)
(* of handles leak.                                                        *)
THEOREM NothingElseLeaks == RefCountSpec => []OnlyCyclesLeak
<1>1. RefCountInit => StaysInv
  BY DEF RefCountInit, StaysInv
<1>2. RefCountSpec => []StaysInv
  BY <1>1, InvariantHolds, NextStaysInv, PTL DEF RefCountSpec
<1>3. ASSUME IInv, StaysInv, Idle, NEW o \in alive \ Reachable
      PROVE  \E p \in alive \ Reachable : obj[p] = o
  <2>1. RefCountTypeOK /\ StackInv /\ CountInv /\ Dying = {} /\ new = NULL
    BY <1>3, IdleState DEF IInv
  <2>2. o \in Objects /\ o \notin Starts
    BY <1>3, <2>1, ReachableIsLeast DEF RefCountTypeOK
  <2>3. refcount[o] > 0
    BY <1>3, <2>1, <2>2 DEF StaysInv, Starts
  <2>4. refcount[o] = Cardinality(Refs(o)) + 0
    BY <2>1, <2>2, HandlesAssumption DEF CountInv
  <2>5. Refs(o) # {}
    BY <2>3, <2>4, FS_EmptySet
  <2>6. PICK p \in Handles : obj[p] = o
    BY <2>5 DEF Refs
  <2>7. p \notin Roots
    BY <2>2, <2>6, HandlesAssumption DEF Starts
  <2>8. p \in alive
    BY <2>1, <2>2, <2>6, <2>7, HandlesAssumption DEF CountInv, Handles
  <2>9. p \notin Reachable
    BY <1>3, <2>2, <2>6, HandlesAssumption, ReachableIsLeast DEF Closed
  <2>10. QED
    BY <2>6, <2>8, <2>9
<1>4. IInv /\ StaysInv => OnlyCyclesLeak
  BY <1>3 DEF OnlyCyclesLeak
<1>5. QED
  BY <1>2, <1>4, InvariantHolds, PTL

-----------------------------------------------------------------------------
(* ObjectRegistry.                                                         *)

(***************************************************************************)
(* The inductive invariant: the factory of each name is the best of those  *)
(* registered.  That the best of them all, if there is one, is registered  *)
(* under the name does not say that what is registered is one of them.     *)
(***************************************************************************)
HasBest(name) ==
  \E i \in 1 .. Len(registered) :
    registered[i] = objects[name] /\ registered[i].name = name /\ IsBest(registered, i)

FactoriesInv ==
  /\ registered \in Seq(Factories)
  /\ DOMAIN objects = {registered[i].name : i \in 1 .. Len(registered)}
  /\ \A name \in DOMAIN objects : HasBest(name)

LEMMA OneBest ==
  ASSUME NEW list \in Seq(Factories), NEW i \in 1 .. Len(list), NEW j \in 1 .. Len(list),
         IsBest(list, i), IsBest(list, j), list[i].name = list[j].name
  PROVE  i = j
<1>1. list[i] \in Factories /\ list[j] \in Factories
  OBVIOUS
<1>2. list[i].priority \in Int /\ list[j].priority \in Int
  BY <1>1, FactoryAssumption
<1>3. /\ list[j].priority < list[i].priority \/ (list[j].priority = list[i].priority /\ i <= j)
      /\ list[i].priority < list[j].priority \/ (list[i].priority = list[j].priority /\ j <= i)
  BY DEF IsBest
<1>4. QED
  BY <1>2, <1>3

LEMMA BestIsRegistered == FactoriesInv => HighestPriorityWins
<1> SUFFICES ASSUME FactoriesInv PROVE HighestPriorityWins
  OBVIOUS
<1>1. DOMAIN objects = {f.name : f \in ToSet(registered)}
  BY DEF FactoriesInv, ToSet
<1>2. ASSUME NEW i \in DOMAIN registered, IsBest(registered, i)
      PROVE  objects[registered[i].name] = registered[i]
  <2>1. i \in 1 .. Len(registered) /\ registered[i].name \in DOMAIN objects
    BY DEF FactoriesInv
  <2>2. PICK j \in 1 .. Len(registered) :
          /\ registered[j] = objects[registered[i].name]
          /\ registered[j].name = registered[i].name /\ IsBest(registered, j)
    BY <2>1 DEF FactoriesInv, HasBest
  <2>3. i = j
    BY <1>2, <2>1, <2>2, OneBest DEF FactoriesInv
  <2>4. QED
    BY <2>2, <2>3
<1>3. QED
  BY <1>1, <1>2 DEF HighestPriorityWins

\* A factory that is registered after others.
LEMMA BestAppended ==
  ASSUME NEW list \in Seq(Factories), NEW f \in Factories, NEW later, later = Append(list, f)
  PROVE  /\ \A i \in 1 .. Len(list) : IsBest(list, i) /\ (list[i].name = f.name => f.priority <= list[i].priority)
                                        => IsBest(later, i)
         /\ (\A i \in 1 .. Len(list) : list[i].name = f.name => list[i].priority < f.priority)
              => IsBest(later, Len(list) + 1)
<1>1. /\ later \in Seq(Factories) /\ Len(later) = Len(list) + 1 /\ DOMAIN later = 1 .. Len(list) + 1
      /\ \A i \in 1 .. Len(list) : later[i] = list[i]
      /\ later[Len(list) + 1] = f
  BY AppendProperties
<1>2. f.priority \in Int /\ \A i \in 1 .. Len(list) : list[i] \in Factories /\ list[i].priority \in Int
  BY FactoryAssumption
<1>3. ASSUME NEW i \in 1 .. Len(list), IsBest(list, i), list[i].name = f.name => f.priority <= list[i].priority
      PROVE  IsBest(later, i)
  <2> SUFFICES ASSUME NEW j \in 1 .. Len(list) + 1, later[j].name = later[i].name
               PROVE  \/ later[j].priority < later[i].priority
                      \/ later[j].priority = later[i].priority /\ i <= j
    BY <1>1 DEF IsBest
  <2>1. CASE j \in 1 .. Len(list)
    BY <1>1, <1>3, <2>1 DEF IsBest
  <2>2. CASE j = Len(list) + 1
    BY <1>1, <1>2, <1>3, <2>2
  <2>3. QED
    BY <2>1, <2>2
<1>4. ASSUME \A i \in 1 .. Len(list) : list[i].name = f.name => list[i].priority < f.priority
      PROVE  IsBest(later, Len(list) + 1)
  BY <1>1, <1>4 DEF IsBest
<1>5. QED
  BY <1>3, <1>4

LEMMA RegisterKeepsBest ==
  ASSUME FactoriesInv, NEW f \in Factories, RegisterFactory(f)
  PROVE  FactoriesInv'
<1> DEFINE n == Len(registered)
<1>1. registered \in Seq(Factories) /\ registered' = Append(registered, f) /\ n \in Nat
  BY DEF FactoriesInv, RegisterFactory
<1>2. /\ registered' \in Seq(Factories) /\ Len(registered') = n + 1
      /\ \A i \in 1 .. n : registered'[i] = registered[i]
      /\ registered'[n + 1] = f
  BY <1>1, AppendProperties
<1>3. /\ f.priority \in Int
      /\ \A i \in 1 .. n : registered[i] \in Factories /\ registered[i].priority \in Int
  BY <1>1, FactoryAssumption
<1>4. DOMAIN objects' = DOMAIN objects \union {f.name}
  BY DEF RegisterFactory, Register, With
<1>5. {registered'[i].name : i \in 1 .. n + 1} = {registered[i].name : i \in 1 .. n} \union {f.name}
  BY <1>1, <1>2
<1>6. ASSUME NEW name \in DOMAIN objects' PROVE HasBest(name)'
  <2>1. CASE name \in DOMAIN objects /\ objects'[name] = objects[name]
    <3>1. PICK i \in 1 .. n : registered[i] = objects[name] /\ registered[i].name = name /\ IsBest(registered, i)
      BY <2>1 DEF FactoriesInv, HasBest
    <3>2. name = f.name => f.priority <= registered[i].priority
      <4>1. CASE name = f.name
        <5>1. f.priority > objects[name].priority => objects' = With(objects, f.name, f)
          BY <2>1, <4>1 DEF RegisterFactory, Register
        <5>2. With(objects, f.name, f)[name] = f
          BY <4>1 DEF With
        <5>3. f.priority > objects[name].priority => FALSE
          BY <5>1, <5>2, <2>1, <3>1, <1>3
        <5>4. QED
          BY <5>3, <3>1, <1>3
      <4>2. QED
        BY <4>1
    <3>3. IsBest(registered', i)
      BY <1>1, <3>1, <3>2, BestAppended
    <3>4. QED
      BY <1>1, <1>2, <2>1, <3>1, <3>3 DEF HasBest
  <2>2. CASE ~(name \in DOMAIN objects /\ objects'[name] = objects[name])
    <3>1. /\ name = f.name /\ objects'[name] = f
          /\ name \in DOMAIN objects => f.priority > objects[name].priority
      BY <1>4, <2>2 DEF RegisterFactory, Register, With
    <3>2. ASSUME NEW i \in 1 .. n, registered[i].name = f.name
          PROVE  registered[i].priority < f.priority
      <4>1. name \in DOMAIN objects
        BY <3>1, <3>2 DEF FactoriesInv
      <4>2. PICK j \in 1 .. n : registered[j] = objects[name] /\ registered[j].name = name /\ IsBest(registered, j)
        BY <4>1 DEF FactoriesInv, HasBest
      <4>3. registered[i].priority < registered[j].priority \/ registered[i].priority = registered[j].priority
        BY <3>1, <3>2, <4>2, <1>1 DEF IsBest
      <4>4. QED
        BY <1>3, <3>1, <4>1, <4>2, <4>3
    <3>3. IsBest(registered', n + 1)
      BY <1>1, <3>2, BestAppended
    <3>4. n + 1 \in 1 .. Len(registered')
      BY <1>1, <1>2
    <3>5. QED
      BY <1>2, <3>1, <3>3, <3>4 DEF HasBest
  <2>3. QED
    BY <2>1, <2>2
<1>7. DOMAIN objects' = {registered'[i].name : i \in 1 .. Len(registered')}
  BY <1>2, <1>4, <1>5 DEF FactoriesInv
<1>8. QED
  BY <1>2, <1>6, <1>7 DEF FactoriesInv

-----------------------------------------------------------------------------
(* The objects made.                                                       *)

Given == [factory : Factories, id : {c.id : c \in Requests}]

\* The id of a singleton is the last one given.
HasLastId(f) ==
  /\ f.singleton
  /\ \A i \in 1 .. Len(requests) : LastGiven(requests, f, i) => container.singletons[f] = requests[i].id
  /\ (\A i \in 1 .. Len(requests) : ~LastGiven(requests, f, i)) => container.singletons[f] = ""

\* What was made up to the n-th is owned or deleted.
Accounted(n, owned, deleted) ==
  /\ n \in Nat /\ owned \in Seq(1 .. n)
  /\ {owned[i] : i \in 1 .. Len(owned)} \union deleted = 1 .. n
  /\ \A i \in 1 .. Len(owned) : owned[i] \notin deleted
  /\ \A i, j \in 1 .. Len(owned) : i < j => owned[i] < owned[j]

OwnedInv == Accounted(container.made, container.owned, container.deleted)

\* A factory without singleton has not been asked for one.
SingletonsInv ==
  /\ requests \in Seq(Given)
  /\ \A i \in 1 .. Len(requests) :
       requests[i].factory.singleton => requests[i].factory \in DOMAIN container.singletons
  /\ \A f \in DOMAIN container.singletons : HasLastId(f)

ContainerInv == OwnedInv /\ SingletonsInv

LEMMA ContainerInvIsOwnership == ContainerInv => ObjectsHaveOneOwner
<1> SUFFICES ASSUME ContainerInv PROVE ObjectsHaveOneOwner
  OBVIOUS
<1> DEFINE owned == container.owned
<1>1. ToSet(owned) = {owned[i] : i \in 1 .. Len(owned)} /\ DOMAIN owned = 1 .. Len(owned)
  BY DEF ContainerInv, OwnedInv, Accounted, ToSet
<1>2. DOMAIN requests = 1 .. Len(requests)
  BY DEF ContainerInv, SingletonsInv
<1>3. /\ ToSet(owned) \union container.deleted = 1 .. container.made
      /\ ToSet(owned) \intersect container.deleted = {}
      /\ \A i, j \in DOMAIN owned : i < j => owned[i] < owned[j]
  BY <1>1 DEF ContainerInv, OwnedInv, Accounted
<1>4. ASSUME NEW f \in DOMAIN container.singletons
      PROVE  /\ f.singleton
             /\ \A i \in DOMAIN requests : LastGiven(requests, f, i) => container.singletons[f] = requests[i].id
             /\ (\A i \in DOMAIN requests : ~LastGiven(requests, f, i)) => container.singletons[f] = ""
  BY <1>2 DEF ContainerInv, SingletonsInv, HasLastId
<1>5. QED
  BY <1>3, <1>4 DEF ObjectsHaveOneOwner

LEMMA OwnedOrDeleted ==
  ASSUME NEW n, NEW owned, NEW deleted, Accounted(n, owned, deleted)
  PROVE  /\ Accounted(n + 1, Append(owned, n + 1), deleted)
         /\ Accounted(n + 1, owned, deleted \union {n + 1})
<1>1. n \in Nat /\ owned \in Seq(1 .. n) /\ Len(owned) \in Nat /\ deleted \subseteq 1 .. n
  BY DEF Accounted
<1>2. 1 .. n + 1 = (1 .. n) \union {n + 1}
  BY <1>1
<1>3. \A i \in 1 .. Len(owned) : owned[i] \in 1 .. n /\ owned[i] < n + 1
  BY <1>1
<1>4. owned \in Seq(1 .. n + 1)
  BY <1>1
<1>5. Accounted(n + 1, Append(owned, n + 1), deleted)
  <2>1. PICK later : later = Append(owned, n + 1)
    OBVIOUS
  <2>2. n + 1 \in 1 .. n + 1
    BY <1>1
  <2>3. /\ later \in Seq(1 .. n + 1) /\ Len(later) = Len(owned) + 1
        /\ \A i \in 1 .. Len(owned) : later[i] = owned[i]
        /\ later[Len(owned) + 1] = n + 1
    BY <1>4, <2>1, <2>2, AppendProperties
  <2>4. 1 .. Len(later) = (1 .. Len(owned)) \union {Len(owned) + 1}
    BY <1>1, <2>3
  <2>5. {later[i] : i \in 1 .. Len(later)} = {owned[i] : i \in 1 .. Len(owned)} \union {n + 1}
    BY <2>3, <2>4
  <2>6. {later[i] : i \in 1 .. Len(later)} \union deleted = 1 .. n + 1
    BY <2>5, <1>2 DEF Accounted
  <2>7. ASSUME NEW i \in 1 .. Len(later) PROVE later[i] \notin deleted
    <3>1. n + 1 \notin deleted
      BY <1>1
    <3>2. \A j \in 1 .. Len(owned) : owned[j] \notin deleted
      BY DEF Accounted
    <3>3. QED
      BY <2>3, <2>4, <3>1, <3>2
  <2>8. ASSUME NEW i \in 1 .. Len(later), NEW j \in 1 .. Len(later), i < j PROVE later[i] < later[j]
    <3>1. i \in 1 .. Len(owned)
      BY <1>1, <2>3, <2>8
    <3>2. CASE j \in 1 .. Len(owned)
      BY <2>3, <2>8, <3>1, <3>2 DEF Accounted
    <3>3. CASE j = Len(owned) + 1
      BY <1>3, <2>3, <3>1, <3>3
    <3>4. QED
      BY <2>4, <3>2, <3>3
  <2>9. QED
    BY <1>1, <2>1, <2>3, <2>6, <2>7, <2>8 DEF Accounted
<1>6. Accounted(n + 1, owned, deleted \union {n + 1})
  <2>1. {owned[i] : i \in 1 .. Len(owned)} \union (deleted \union {n + 1}) = 1 .. n + 1
    BY <1>2 DEF Accounted
  <2>2. \A i \in 1 .. Len(owned) : owned[i] \notin deleted \union {n + 1}
    BY <1>1, <1>3 DEF Accounted
  <2>3. \A i, j \in 1 .. Len(owned) : i < j => owned[i] < owned[j]
    BY DEF Accounted
  <2>4. QED
    BY <1>1, <1>4, <2>1, <2>2, <2>3 DEF Accounted
<1>7. QED
  BY <1>5, <1>6

\* A request after n others: it is the last one of its factory if it gives an
\* id.
Gives(r, f) == r.factory = f /\ r.id # ""
LastStays(list, later, f, n) ==
  ~LastGiven(later, f, n + 1) /\ \A i \in 1 .. n : LastGiven(later, f, i) <=> LastGiven(list, f, i)
LastIsNew(later, f, n) == LastGiven(later, f, n + 1) /\ \A i \in 1 .. n : ~LastGiven(later, f, i)

LEMMA LastOfAppended ==
  ASSUME NEW list \in Seq(Given), NEW f, NEW r \in Given
  PROVE  IF Gives(r, f) THEN LastIsNew(Append(list, r), f, Len(list))
                        ELSE LastStays(list, Append(list, r), f, Len(list))
<1>1. PICK later : later = Append(list, r)
  OBVIOUS
<1>2. PICK n \in Nat : n = Len(list)
  OBVIOUS
<1>3. DOMAIN list = 1 .. n /\ DOMAIN later = 1 .. n + 1
  BY <1>1, <1>2, AppendProperties
<1>4. (\A i \in 1 .. n : later[i] = list[i]) /\ later[n + 1] = r
  BY <1>1, <1>2, AppendProperties
<1>5. 1 .. n + 1 = (1 .. n) \union {n + 1} /\ n + 1 \notin 1 .. n
  OBVIOUS
<1>6. \A i : LastGiven(list, f, i) <=> Gives(list[i], f) /\ \A j \in 1 .. n : Gives(list[j], f) => j <= i
  BY <1>3, Zenon DEF LastGiven, Gives
<1>7. \A i : LastGiven(later, f, i) <=> Gives(later[i], f) /\ \A j \in 1 .. n + 1 : Gives(later[j], f) => j <= i
  BY <1>3, Zenon DEF LastGiven, Gives
<1>8. ASSUME ~Gives(r, f) PROVE LastStays(list, later, f, n)
  BY <1>4, <1>5, <1>6, <1>7, <1>8 DEF LastStays
<1>9. ASSUME Gives(r, f) PROVE LastIsNew(later, f, n)
  <2>1. LastGiven(later, f, n + 1)
    <3>1. \A j \in 1 .. n + 1 : j <= n + 1
      OBVIOUS
    <3>2. QED
      BY <1>4, <1>7, <1>9, <3>1
  <2>2. ASSUME NEW i \in 1 .. n PROVE ~LastGiven(later, f, i)
    <3>1. ~(n + 1 <= i)
      OBVIOUS
    <3>2. QED
      BY <1>4, <1>5, <1>7, <1>9, <3>1
  <2>3. QED
    BY <2>1, <2>2 DEF LastIsNew
<1>10. QED
  BY <1>1, <1>2, <1>8, <1>9

\* Create(): the next object, or the singleton.
LEMMA CreateKeepsContainer ==
  ASSUME FactoriesInv, ContainerInv, NEW c \in Requests, CreateObject(c)
  PROVE  ContainerInv'
<1>1. PICK f : f = objects[c.name]
  OBVIOUS
<1>2. f \in Factories
  BY <1>1 DEF CreateObject, FactoriesInv, HasBest
<1>3. PICK r : r = [factory |-> f, id |-> c.id]
  OBVIOUS
<1>4. r \in Given /\ r.factory = f /\ r.id = c.id
  BY <1>2, <1>3 DEF Given
<1>5. requests' = Append(requests, r)
  BY <1>1, <1>3 DEF CreateObject
<1>6. SingletonsInv /\ requests \in Seq(Given) /\ Len(requests) \in Nat
  BY DEF ContainerInv, SingletonsInv
<1>7. /\ requests' \in Seq(Given) /\ Len(requests') = Len(requests) + 1
      /\ \A i \in 1 .. Len(requests) : requests'[i] = requests[i]
      /\ requests'[Len(requests) + 1] = r
  BY <1>4, <1>5, <1>6, AppendProperties
<1>8. 1 .. Len(requests') = (1 .. Len(requests)) \union {Len(requests) + 1}
  BY <1>6, <1>7
<1>9. CASE f.singleton
  <2>1. container' = SingletonSet(f, c.id)
    BY <1>1, <1>9 DEF CreateObject
  <2>2. /\ container'.made = container.made /\ container'.owned = container.owned
        /\ container'.deleted = container.deleted
        /\ container'.singletons =
             With(container.singletons, f,
                  IdAfter(IF f \in DOMAIN container.singletons THEN container.singletons[f] ELSE "", c.id))
    BY <2>1 DEF SingletonSet
  <2>3. OwnedInv'
    BY <2>2 DEF ContainerInv, OwnedInv
  <2>4. DOMAIN container'.singletons = DOMAIN container.singletons \union {f}
    BY <2>2 DEF With
  <2>5. ASSUME NEW g \in DOMAIN container'.singletons PROVE HasLastId(g)'
    <3>1. CASE g # f
      <4>1. g \in DOMAIN container.singletons /\ container'.singletons[g] = container.singletons[g]
        BY <2>2, <2>4, <3>1 DEF With
      <4>2. HasLastId(g)
        BY <4>1, <1>6 DEF SingletonsInv
      <4>3. LastStays(requests, requests', g, Len(requests))
        BY <1>4, <1>5, <1>6, <3>1, LastOfAppended DEF Gives
      <4>4. QED
        BY <1>7, <1>8, <4>1, <4>2, <4>3 DEF HasLastId, LastStays, LastIsNew
    <3>2. CASE g = f /\ c.id = ""
      <4>1. LastStays(requests, requests', f, Len(requests))
        BY <1>4, <1>5, <1>6, <3>2, LastOfAppended DEF Gives
      <4>2. CASE f \in DOMAIN container.singletons
        <5>1. container'.singletons[f] = container.singletons[f] /\ HasLastId(f)
          BY <2>2, <3>2, <4>2, <1>6 DEF With, IdAfter, SingletonsInv
        <5>2. QED
          BY <1>7, <1>8, <3>2, <4>1, <5>1 DEF HasLastId, LastStays, LastIsNew
      <4>3. CASE f \notin DOMAIN container.singletons
        <5>1. container'.singletons[f] = ""
          BY <2>2, <3>2, <4>3 DEF With, IdAfter
        <5>2. \A i \in 1 .. Len(requests) : ~LastGiven(requests, f, i)
          BY <1>6, <1>9, <4>3 DEF LastGiven, SingletonsInv
        <5>3. QED
          BY <1>8, <1>9, <3>2, <4>1, <5>1, <5>2 DEF HasLastId, LastStays, LastIsNew
      <4>4. QED
        BY <4>2, <4>3
    <3>3. CASE g = f /\ c.id # ""
      <4>1. LastIsNew(requests', f, Len(requests))
        BY <1>4, <1>5, <1>6, <3>3, LastOfAppended DEF Gives
      <4>2. container'.singletons[f] = c.id
        BY <2>2, <3>3 DEF With, IdAfter
      <4>3. QED
        BY <1>4, <1>6, <1>7, <1>8, <1>9, <3>3, <4>1, <4>2 DEF HasLastId, LastStays, LastIsNew
    <3>4. QED
      BY <3>1, <3>2, <3>3
  <2>6. \A i \in 1 .. Len(requests') :
          requests'[i].factory.singleton => requests'[i].factory \in DOMAIN container'.singletons
    BY <1>4, <1>6, <1>7, <1>8, <2>4 DEF SingletonsInv
  <2>7. QED
    BY <1>7, <2>3, <2>5, <2>6 DEF ContainerInv, SingletonsInv
<1>10. CASE ~f.singleton
  <2>1. PICK kept : container' = ObjectMade(kept)
    BY <1>1, <1>10 DEF CreateObject
  <2>2. /\ container'.made = container.made + 1
        /\ container'.owned = IF kept THEN Append(container.owned, container.made + 1) ELSE container.owned
        /\ container'.deleted = IF kept THEN container.deleted ELSE container.deleted \union {container.made + 1}
        /\ container'.singletons = container.singletons
    BY <2>1 DEF ObjectMade
  <2>3. OwnedInv'
    BY <2>2, OwnedOrDeleted DEF ContainerInv, OwnedInv
  <2>4. ASSUME NEW g \in DOMAIN container'.singletons PROVE HasLastId(g)'
    <3>1. g \in DOMAIN container.singletons /\ container'.singletons[g] = container.singletons[g] /\ HasLastId(g)
      BY <1>6, <2>2 DEF SingletonsInv
    <3>2. g # f
      BY <1>10, <3>1 DEF HasLastId, LastStays, LastIsNew
    <3>3. LastStays(requests, requests', g, Len(requests))
      BY <1>4, <1>5, <1>6, <3>2, LastOfAppended DEF Gives
    <3>4. QED
      BY <1>7, <1>8, <3>1, <3>3 DEF HasLastId, LastStays, LastIsNew
  <2>5. \A i \in 1 .. Len(requests') :
          requests'[i].factory.singleton => requests'[i].factory \in DOMAIN container'.singletons
    BY <1>4, <1>6, <1>7, <1>8, <1>10, <2>2 DEF SingletonsInv
  <2>6. QED
    BY <1>7, <2>3, <2>4, <2>5 DEF ContainerInv, SingletonsInv
<1>11. QED
  BY <1>9, <1>10

LEMMA LeastElement ==
  ASSUME NEW T \in SUBSET Nat, T # {}
  PROVE  \E n \in T : \A m \in T : n <= m
<1> DEFINE R == {ss \in Nat \X Nat : ss[1] < ss[2]}
<1>1. PICK x \in T : \A y \in T : ~(<<y, x>> \in R)
  <2>1. IsWellFoundedOn(R, Nat)
    BY NatLessThanWellFounded DEF OpToRel
  <2> HIDE DEF R
  <2>2. QED
    BY <2>1, WFMin, Zenon
<1>2. ASSUME NEW y \in T PROVE x <= y
  <2>1. <<y, x>> \notin R
    BY <1>1
  <2>2. QED
    BY <2>1
<1>3. QED
  BY <1>2

-----------------------------------------------------------------------------
(* LoadedVersions.                                                         *)

\* What Entry() returns: the first place of a name, 0 if there is none.
IsEntry(list, name, i) ==
  \/ i = 0 /\ \A j \in 1 .. Len(list) : list[j].name # name
  \/ i \in 1 .. Len(list) /\ list[i].name = name /\ \A j \in 1 .. Len(list) : list[j].name = name => i <= j

LEMMA EntryIsFirst ==
  ASSUME NEW list \in Seq(Entries), NEW name
  PROVE  IsEntry(list, name, Entry(list, name))
<1> DEFINE at == {i \in 1 .. Len(list) : list[i].name = name}
<1>1. Entry(list, name) = IF at # {} THEN Min(at) ELSE 0
  BY DEF Entry, SelectInSeq
<1>2. CASE at = {}
  BY <1>1, <1>2 DEF IsEntry
<1>3. CASE at # {}
  <2>1. at \in SUBSET Nat
    OBVIOUS
  <2>2. \A i \in at : i \in 1 .. Len(list) /\ list[i].name = name
    OBVIOUS
  <2>3. \A i \in 1 .. Len(list) : list[i].name = name => i \in at
    OBVIOUS
  <2> HIDE DEF at
  <2>4. \E i \in at : \A j \in at : i <= j
    BY <1>3, <2>1, LeastElement
  <2>5. Min(at) \in at /\ \A j \in at : Min(at) <= j
    BY <2>4 DEF Min
  <2>6. QED
    BY <1>1, <1>3, <2>2, <2>3, <2>5 DEF IsEntry
<1>4. QED
  BY <1>2, <1>3

\* Only one place is the first.
LEMMA OneEntry ==
  ASSUME NEW list \in Seq(Entries), NEW name, NEW i, IsEntry(list, name, i)
  PROVE  Entry(list, name) = i
<1>1. IsEntry(list, name, Entry(list, name))
  BY EntryIsFirst
<1>2. QED
  BY <1>1 DEF IsEntry

\* The first entry of a name after e was appended to a list.
FirstAfter(list, later, e, name) ==
  LET i == Entry(list, name)
  IN  /\ i # 0 => Entry(later, name) = i /\ later[i] = list[i]
      /\ i = 0 /\ e.name = name => Entry(later, name) = Len(list) + 1 /\ later[Len(list) + 1] = e
      /\ i = 0 /\ e.name # name => Entry(later, name) = 0

LEMMA EntryAppended ==
  ASSUME NEW list \in Seq(Entries), NEW e \in Entries, NEW name
  PROVE  FirstAfter(list, Append(list, e), e, name)
<1>1. PICK later : later = Append(list, e)
  OBVIOUS
<1>2. /\ later \in Seq(Entries) /\ Len(later) = Len(list) + 1 /\ Len(list) \in Nat
      /\ \A i \in 1 .. Len(list) : later[i] = list[i]
      /\ later[Len(list) + 1] = e
  BY <1>1, AppendProperties
<1>3. 1 .. Len(later) = (1 .. Len(list)) \union {Len(list) + 1}
  BY <1>2
<1>4. PICK i : i = Entry(list, name) /\ IsEntry(list, name, i)
  BY EntryIsFirst
<1>5. ASSUME i # 0 PROVE Entry(later, name) = i /\ later[i] = list[i]
  <2>1. i \in 1 .. Len(list) /\ later[i] = list[i]
    BY <1>2, <1>4, <1>5 DEF IsEntry
  <2>2. IsEntry(later, name, i)
    BY <1>2, <1>3, <1>4, <2>1 DEF IsEntry
  <2>3. QED
    BY <1>2, <2>1, <2>2, OneEntry
<1>6. ASSUME i = 0, e.name = name PROVE Entry(later, name) = Len(list) + 1
  <2>1. IsEntry(later, name, Len(list) + 1)
    BY <1>2, <1>3, <1>4, <1>6 DEF IsEntry
  <2>2. QED
    BY <1>2, <2>1, OneEntry
<1>7. ASSUME i = 0, e.name # name PROVE Entry(later, name) = 0
  <2>1. IsEntry(later, name, 0)
    BY <1>2, <1>3, <1>4, <1>7 DEF IsEntry
  <2>2. QED
    BY <1>2, <2>1, OneEntry
<1>8. QED
  BY <1>1, <1>2, <1>4, <1>5, <1>6, <1>7 DEF FirstAfter

(***************************************************************************)
(* The inductive invariant: of every name, the first entry of the list is  *)
(* that of the first call, and it is the only one if it has a version.     *)
(***************************************************************************)
SameFirst(list, calls, name) ==
  /\ Entry(list, name) = 0 <=> Entry(calls, name) = 0
  /\ Entry(list, name) # 0 => list[Entry(list, name)].version = calls[Entry(calls, name)].version
OnlyOne(list, name) ==
  Entry(list, name) # 0 /\ list[Entry(list, name)].version # "" =>
    \A i, j \in 1 .. Len(list) : list[i].name = name /\ list[j].name = name => i = j

VersionsInv ==
  /\ versions \in Seq(Entries) /\ entries \in Seq(Entries)
  /\ \A name : SameFirst(versions, entries, name) /\ OnlyOne(versions, name)

LEMMA FirstCallFirstEntry ==
  ASSUME NEW list \in Seq(Entries), NEW calls \in Seq(Entries), NEW e \in Entries, NEW name,
         SameFirst(list, calls, name), OnlyOne(list, name)
  PROVE  /\ (Entry(list, name) = 0 \/ list[Entry(list, name)].version = "" \/ e.name # name) =>
              SameFirst(Append(list, e), Append(calls, e), name) /\ OnlyOne(Append(list, e), name)
         /\ (Entry(list, name) # 0 \/ e.name # name) => SameFirst(list, Append(calls, e), name)
<1>1. PICK later : later = Append(list, e)
  OBVIOUS
<1>2. PICK after : after = Append(calls, e)
  OBVIOUS
<1>3. /\ later \in Seq(Entries) /\ Len(later) = Len(list) + 1 /\ Len(list) \in Nat
      /\ \A i \in 1 .. Len(list) : later[i] = list[i]
      /\ later[Len(list) + 1] = e
  BY <1>1, AppendProperties
<1>4. 1 .. Len(later) = (1 .. Len(list)) \union {Len(list) + 1}
  BY <1>3
<1>5. IsEntry(list, name, Entry(list, name)) /\ Len(calls) + 1 # 0 /\ Len(list) + 1 # 0
  BY EntryIsFirst
<1>6. PICK i : i = Entry(list, name)
  OBVIOUS
<1>7. PICK k : k = Entry(calls, name)
  OBVIOUS
<1>8. /\ i # 0 => Entry(later, name) = i /\ later[i] = list[i]
      /\ i = 0 /\ e.name = name => Entry(later, name) = Len(list) + 1 /\ later[Len(list) + 1] = e
      /\ i = 0 /\ e.name # name => Entry(later, name) = 0
  <2>1. FirstAfter(list, later, e, name)
    BY <1>1, EntryAppended
  <2>2. QED
    BY <1>6, <2>1 DEF FirstAfter
<1>9. /\ k # 0 => Entry(after, name) = k /\ after[k] = calls[k]
      /\ k = 0 /\ e.name = name => Entry(after, name) = Len(calls) + 1 /\ after[Len(calls) + 1] = e
      /\ k = 0 /\ e.name # name => Entry(after, name) = 0
  <2>1. FirstAfter(calls, after, e, name)
    BY <1>2, EntryAppended
  <2>2. QED
    BY <1>7, <2>1 DEF FirstAfter
<1>10. (i = 0 <=> k = 0) /\ (i # 0 => list[i].version = calls[k].version)
  BY <1>6, <1>7 DEF SameFirst
<1>11. SameFirst(later, after, name)
  BY <1>5, <1>8, <1>9, <1>10 DEF SameFirst
<1>12. ASSUME i = 0 \/ list[i].version = "" \/ e.name # name PROVE OnlyOne(later, name)
  <2>1. CASE i = 0
    <3>1. \A j \in 1 .. Len(list) : list[j].name # name
      BY <1>5, <1>6, <2>1 DEF IsEntry
    <3>2. QED
      BY <1>3, <1>4, <3>1 DEF OnlyOne
  <2>2. CASE i # 0 /\ list[i].version = ""
    BY <1>8, <2>2 DEF OnlyOne
  <2>3. CASE i # 0 /\ e.name # name
    BY <1>3, <1>4, <1>6, <1>8, <2>3 DEF OnlyOne
  <2>4. QED
    BY <1>12, <2>1, <2>2, <2>3
<1>13. ASSUME i # 0 \/ e.name # name PROVE SameFirst(list, after, name)
  BY <1>6, <1>9, <1>10, <1>13 DEF SameFirst
<1>14. QED
  BY <1>1, <1>2, <1>6, <1>11, <1>12, <1>13

LEMMA RegisterKeepsVersions ==
  ASSUME VersionsInv, NEW e \in Entries, RegisterVersion(e)
  PROVE  VersionsInv'
<1>1. versions \in Seq(Entries) /\ entries \in Seq(Entries)
  BY DEF VersionsInv
<1>2. entries' = Append(entries, e)
  BY DEF RegisterVersion
<1>3. CASE GetVersion(e.name) = ""
  <2>1. versions' = Append(versions, e)
    BY <1>3 DEF RegisterVersion
  <2>2. ASSUME NEW name PROVE SameFirst(versions', entries', name) /\ OnlyOne(versions', name)
    <3>1. SameFirst(versions, entries, name) /\ OnlyOne(versions, name)
      BY DEF VersionsInv
    <3>2. Entry(versions, name) = 0 \/ versions[Entry(versions, name)].version = "" \/ e.name # name
      BY <1>3 DEF GetVersion
    <3>3. QED
      BY <1>1, <1>2, <2>1, <3>1, <3>2, FirstCallFirstEntry
  <2>3. QED
    BY <1>1, <1>2, <2>1, <2>2, AppendProperties DEF VersionsInv
<1>4. CASE GetVersion(e.name) # ""
  <2>1. versions' = versions
    BY <1>4 DEF RegisterVersion
  <2>2. ASSUME NEW name PROVE SameFirst(versions', entries', name) /\ OnlyOne(versions', name)
    <3>1. SameFirst(versions, entries, name) /\ OnlyOne(versions, name)
      BY DEF VersionsInv
    <3>2. Entry(versions, name) # 0 \/ e.name # name
      BY <1>4 DEF GetVersion
    <3>3. QED
      BY <1>1, <1>2, <2>1, <3>1, <3>2, FirstCallFirstEntry
  <2>3. QED
    BY <1>1, <1>2, <2>1, <2>2, AppendProperties DEF VersionsInv
<1>5. QED
  BY <1>3, <1>4

LEMMA VersionsAreFirst == VersionsInv => FirstVersionStays
<1> SUFFICES ASSUME VersionsInv, NEW e \in ToSet(entries)
             PROVE  /\ GetVersion(e.name) = entries[Entry(entries, e.name)].version
                    /\ GetVersion(e.name) # "" =>
                         \A i, j \in DOMAIN versions : versions[i].name = e.name /\ versions[j].name = e.name => i = j
  BY DEF FirstVersionStays
<1>1. versions \in Seq(Entries) /\ entries \in Seq(Entries) /\ DOMAIN versions = 1 .. Len(versions)
  BY DEF VersionsInv
<1>2. PICK i \in 1 .. Len(entries) : entries[i] = e
  BY <1>1 DEF ToSet
<1>3. IsEntry(entries, e.name, Entry(entries, e.name))
  BY <1>1, EntryIsFirst
<1>4. Entry(entries, e.name) # 0
  BY <1>2, <1>3 DEF IsEntry
<1>5. SameFirst(versions, entries, e.name) /\ OnlyOne(versions, e.name)
  BY DEF VersionsInv
<1>6. QED
  BY <1>1, <1>4, <1>5 DEF SameFirst, OnlyOne, GetVersion

-----------------------------------------------------------------------------
(* UDPSocket.                                                              *)

SocketInv ==
  /\ made \in Nat /\ socket \in Int
  /\ \A fd \in descriptors : fd \in Nat /\ fd < made
  /\ socket # -1 => socket \in descriptors
  /\ descriptors \ {socket} = lost

LEMMA SocketKeeps == ASSUME SocketInv, SocketNext PROVE SocketInv'
<1>1. CASE CloseSocket
  BY <1>1 DEF CloseSocket, SocketInv
<1>2. ASSUME NEW outcome \in {"unresolved", "nosocket", "refused", "bound"}, Bind(outcome)
      PROVE  SocketInv'
  <2>1. made \in Nat /\ socket \in Int /\ -1 \notin descriptors
        /\ made \notin descriptors
    BY DEF SocketInv
  <2>2. CASE outcome = "unresolved"
    BY <1>2, <2>2 DEF Bind, SocketInv, socketVars
  <2>3. CASE outcome # "unresolved"
    <3>1. lost' = descriptors
      BY <1>2, <2>1, <2>3 DEF Bind, SocketInv
    <3>2. CASE outcome \in {"nosocket", "refused"}
      <4>1. socket' = -1 /\ descriptors' = descriptors /\ made' \in {made, made + 1}
        BY <1>2, <3>2 DEF Bind
      <4>2. descriptors \ {-1} = descriptors
        BY <2>1
      <4>3. made' \in Nat /\ made <= made'
        BY <2>1, <4>1
      <4>4. \A fd \in descriptors : fd \in Nat /\ fd < made'
        BY <2>1, <4>3 DEF SocketInv
      <4>5. QED
        BY <3>1, <4>1, <4>2, <4>3, <4>4 DEF SocketInv
    <3>3. CASE outcome = "bound"
      <4>1. socket' = made /\ descriptors' = descriptors \union {made} /\ made' = made + 1
        BY <1>2, <3>3 DEF Bind
      <4>2. descriptors' \ {made} = descriptors /\ \A fd \in descriptors' : fd \in Nat /\ fd < made'
        BY <2>1, <4>1 DEF SocketInv
      <4>3. QED
        BY <2>1, <3>1, <4>1, <4>2 DEF SocketInv
    <3>4. QED
      BY <2>3, <3>2, <3>3
  <2>4. QED
    BY <2>2, <2>3
<1>3. QED
  BY <1>1, <1>2 DEF SocketNext

-----------------------------------------------------------------------------
(* EnhancedFile.                                                           *)

Standard == [name |-> "stdout", mode |-> "w", fp |-> 0, allowclose |-> FALSE]

\* An object that may close the FILE it holds, one of the first n.
Opened(f, n) ==
  /\ f.name \in FileNames /\ f.name # "stdout" /\ f.mode \in {"rb", "wb"}
  /\ f.fp \in 1 .. n /\ f.allowclose = TRUE

\* Each of the first n FILEs is held by one object or was closed once.
Owned(held, n, closed) ==
  /\ n \in Nat /\ closed \in Seq(1 .. n) /\ DOMAIN held = FileObjects
  /\ \A o \in FileObjects : held[o] \in {NoFile, Standard} \/ Opened(held[o], n)
  /\ \A o, p \in FileObjects : held[o].fp = held[p].fp => o = p \/ held[o] \in {NoFile, Standard}
  /\ \A i, j \in 1 .. Len(closed) : closed[i] = closed[j] => i = j
  /\ \A i \in 1 .. Len(closed), o \in FileObjects : held[o].fp # closed[i]
  /\ \A fp \in 1 .. n : (\E o \in FileObjects : held[o].fp = fp) \/ \E i \in 1 .. Len(closed) : closed[i] = fp

FilesInv(st) ==
  /\ Owned(st.obj, st.made, st.closed) /\ st.made <= MaxHandles
  /\ st.pos \in [0 .. MaxHandles -> Int] /\ st.length \in [FileNames -> Int]

LEMMA Fields ==
  /\ NoFile.fp = -1 /\ NoFile.allowclose = FALSE
  /\ Standard.name = "stdout" /\ Standard.mode = "w" /\ Standard.fp = 0 /\ Standard.allowclose = FALSE
  BY DEF NoFile, Standard

LEMMA Kinds ==
  ASSUME NEW f, NEW n \in Nat, f \in {NoFile, Standard} \/ Opened(f, n)
  PROVE  /\ f = NoFile \/ f = Standard \/ Opened(f, n)
         /\ f = NoFile <=> f.fp = -1
         /\ f = Standard <=> f.fp = 0
         /\ Opened(f, n) <=> f.fp > 0
         /\ f.allowclose <=> Opened(f, n)
         /\ f.fp \in Int /\ -1 <= f.fp /\ f.fp <= n
<1>1. CASE f = NoFile
  <2>1. f.fp = -1 /\ f.allowclose = FALSE
    BY <1>1, Fields
  <2>2. ~Opened(f, n) /\ f # Standard
    BY <2>1, Fields DEF Opened
  <2>3. QED
    BY <1>1, <2>1, <2>2
<1>2. CASE f = Standard
  <2>1. f.fp = 0 /\ f.allowclose = FALSE
    BY <1>2, Fields
  <2>2. ~Opened(f, n) /\ f # NoFile
    BY <2>1, Fields DEF Opened
  <2>3. QED
    BY <1>2, <2>1, <2>2
<1>3. CASE Opened(f, n)
  <2>1. f.fp \in 1 .. n /\ f.allowclose = TRUE
    BY <1>3 DEF Opened
  <2>2. f # NoFile /\ f # Standard
    BY <2>1, Fields
  <2>3. QED
    BY <1>3, <2>1, <2>2
<1>4. QED
  BY <1>1, <1>2, <1>3

LEMMA OwnedOpens ==
  ASSUME NEW held, NEW n, NEW closed, Owned(held, n, closed),
         NEW o \in FileObjects, held[o] = NoFile, NEW f, Opened(f, n + 1), f.fp = n + 1
  PROVE  Owned([held EXCEPT ![o] = f], n + 1, closed)
<1>1. n \in Nat /\ closed \in Seq(1 .. n) /\ Len(closed) \in Nat
  BY DEF Owned
<1>2. PICK later : later = [held EXCEPT ![o] = f]
  OBVIOUS
<1>3. DOMAIN later = FileObjects /\ later[o] = f /\ \A p \in FileObjects \ {o} : later[p] = held[p]
  BY <1>2 DEF Owned
<1>4. /\ \A p \in FileObjects : held[p] \in {NoFile, Standard} \/ Opened(held[p], n)
      /\ \A p \in FileObjects : held[p].fp \in Int /\ held[p].fp <= n
  BY <1>1, Kinds DEF Owned
<1>5. closed \in Seq(1 .. n + 1)
  BY <1>1
<1>6. \A p \in FileObjects : later[p] \in {NoFile, Standard} \/ Opened(later[p], n + 1)
  BY <1>1, <1>3, <1>4 DEF Opened
<1>7. \A p, q \in FileObjects : later[p].fp = later[q].fp => p = q \/ later[p] \in {NoFile, Standard}
  <2>1. \A p \in FileObjects : held[p].fp # n + 1
    BY <1>1, <1>4
  <2>2. \A p, q \in FileObjects : held[p].fp = held[q].fp => p = q \/ held[p] \in {NoFile, Standard}
    BY DEF Owned
  <2>3. QED
    BY <1>3, <2>1, <2>2
<1>8. \A i \in 1 .. Len(closed), p \in FileObjects : later[p].fp # closed[i]
  <2>1. \A i \in 1 .. Len(closed) : closed[i] # n + 1
    BY <1>1
  <2>2. QED
    BY <1>3, <2>1 DEF Owned
<1>9. ASSUME NEW fp \in 1 .. n + 1
      PROVE  (\E p \in FileObjects : later[p].fp = fp) \/ \E i \in 1 .. Len(closed) : closed[i] = fp
  <2>1. CASE fp = n + 1
    BY <1>3, <2>1
  <2>2. CASE fp \in 1 .. n
    <3>1. held[o].fp = -1
      BY Fields
    <3>2. (\E p \in FileObjects : held[p].fp = fp) \/ \E i \in 1 .. Len(closed) : closed[i] = fp
      BY <2>2 DEF Owned
    <3>3. QED
      BY <1>1, <1>3, <2>2, <3>1, <3>2
  <2>3. QED
    BY <1>1, <2>1, <2>2
<1>10. QED
  BY <1>1, <1>2, <1>3, <1>5, <1>6, <1>7, <1>8, <1>9 DEF Owned

LEMMA OwnedWithout ==
  ASSUME NEW held, NEW n, NEW closed, Owned(held, n, closed),
         NEW o \in FileObjects, held[o] \in {NoFile, Standard}, NEW f \in {NoFile, Standard}
  PROVE  Owned([held EXCEPT ![o] = f], n, closed)
<1>1. n \in Nat /\ closed \in Seq(1 .. n) /\ Len(closed) \in Nat
  BY DEF Owned
<1>2. PICK later : later = [held EXCEPT ![o] = f]
  OBVIOUS
<1>3. DOMAIN later = FileObjects /\ later[o] = f /\ \A p \in FileObjects \ {o} : later[p] = held[p]
  BY <1>2 DEF Owned
<1>4. f.fp \in {-1, 0} /\ held[o].fp \in {-1, 0}
  BY Kinds, <1>1
<1>5. \A p \in FileObjects : later[p] \in {NoFile, Standard} \/ Opened(later[p], n)
  BY <1>3 DEF Owned
<1>6. ASSUME NEW p \in FileObjects, NEW q \in FileObjects, later[p].fp = later[q].fp, p # q
      PROVE  later[p] \in {NoFile, Standard}
  <2>1. CASE p = o
    BY <1>3, <2>1
  <2>2. CASE q = o
    <3>1. ~Opened(held[p], n)
      BY <1>3, <1>4, <1>6, <2>2 DEF Opened
    <3>2. QED
      BY <1>3, <1>6, <2>2, <3>1 DEF Owned
  <2>3. CASE p # o /\ q # o
    BY <1>3, <1>6, <2>3 DEF Owned
  <2>4. QED
    BY <2>1, <2>2, <2>3
<1>7. \A i \in 1 .. Len(closed), p \in FileObjects : later[p].fp # closed[i]
  <2>1. \A i \in 1 .. Len(closed) : closed[i] > 0
    BY <1>1
  <2>2. \A i \in 1 .. Len(closed) : closed[i] # f.fp
    BY <1>4, <2>1
  <2>3. QED
    BY <1>3, <2>2 DEF Owned
<1>8. ASSUME NEW fp \in 1 .. n
      PROVE  (\E p \in FileObjects : later[p].fp = fp) \/ \E i \in 1 .. Len(closed) : closed[i] = fp
  <2>1. held[o].fp # fp
    BY <1>4
  <2>2. (\E p \in FileObjects : held[p].fp = fp) \/ \E i \in 1 .. Len(closed) : closed[i] = fp
    BY DEF Owned
  <2>3. QED
    BY <1>3, <2>1, <2>2
<1>9. \A i, j \in 1 .. Len(closed) : closed[i] = closed[j] => i = j
  BY DEF Owned
<1>10. QED
  BY <1>1, <1>2, <1>3, <1>5, <1>6, <1>7, <1>8, <1>9 DEF Owned

LEMMA OwnedCloses ==
  ASSUME NEW held, NEW n, NEW closed, Owned(held, n, closed),
         NEW o \in FileObjects, Opened(held[o], n)
  PROVE  Owned([held EXCEPT ![o] = NoFile], n, Append(closed, held[o].fp))
<1>1. n \in Nat /\ closed \in Seq(1 .. n) /\ Len(closed) \in Nat
  BY DEF Owned
<1>2. PICK later : later = [held EXCEPT ![o] = NoFile]
  OBVIOUS
<1>3. DOMAIN later = FileObjects /\ later[o] = NoFile /\ \A p \in FileObjects \ {o} : later[p] = held[p]
  BY <1>2 DEF Owned
<1>4. PICK fp : fp = held[o].fp
  OBVIOUS
<1>5. fp \in 1 .. n /\ held[o] \notin {NoFile, Standard}
  BY <1>4, Fields DEF Opened
<1>6. PICK after : after = Append(closed, fp)
  OBVIOUS
<1>7. /\ after \in Seq(1 .. n) /\ Len(after) = Len(closed) + 1
      /\ \A i \in 1 .. Len(closed) : after[i] = closed[i]
      /\ after[Len(closed) + 1] = fp
  BY <1>1, <1>5, <1>6, AppendProperties
<1>8. 1 .. Len(after) = (1 .. Len(closed)) \union {Len(closed) + 1}
  BY <1>1, <1>7
<1>9. \A p \in FileObjects : later[p] \in {NoFile, Standard} \/ Opened(later[p], n)
  BY <1>3 DEF Owned
<1>10. \A p, q \in FileObjects : later[p].fp = later[q].fp => p = q \/ later[p] \in {NoFile, Standard}
  <2> SUFFICES ASSUME NEW p \in FileObjects, NEW q \in FileObjects, later[p].fp = later[q].fp, p # q
               PROVE  later[p] \in {NoFile, Standard}
    OBVIOUS
  <2>1. CASE p = o
    BY <1>3, <2>1
  <2>2. CASE q = o
    <3>1. later[q].fp = -1 /\ p # o
      BY <1>3, <2>2, Fields
    <3>2. ~Opened(held[p], n)
      BY <1>3, <3>1 DEF Opened
    <3>3. QED
      BY <1>3, <3>1, <3>2 DEF Owned
  <2>3. CASE p # o /\ q # o
    BY <1>3, <2>3 DEF Owned
  <2>4. QED
    BY <2>1, <2>2, <2>3
<1>11. \A i, j \in 1 .. Len(after) : after[i] = after[j] => i = j
  <2>1. \A i \in 1 .. Len(closed) : closed[i] # fp
    BY <1>4 DEF Owned
  <2>2. \A i, j \in 1 .. Len(closed) : closed[i] = closed[j] => i = j
    BY DEF Owned
  <2>3. QED
    BY <1>7, <1>8, <2>1, <2>2
<1>12. \A i \in 1 .. Len(after), p \in FileObjects : later[p].fp # after[i]
  <2>1. \A i \in 1 .. Len(after) : after[i] \in 1 .. n
    BY <1>7, ElementOfSeq
  <2>2. \A i \in 1 .. Len(after) : after[i] # NoFile.fp
    BY <2>1, Fields
  <2>3. \A p \in FileObjects \ {o} : held[p].fp # fp
    BY <1>4, <1>5 DEF Owned
  <2>4. \A i \in 1 .. Len(closed), p \in FileObjects : held[p].fp # closed[i]
    BY DEF Owned
  <2>5. QED
    BY <1>3, <1>7, <1>8, <2>2, <2>3, <2>4
<1>13. ASSUME NEW g \in 1 .. n
       PROVE  (\E p \in FileObjects : later[p].fp = g) \/ \E i \in 1 .. Len(after) : after[i] = g
  <2>1. (\E p \in FileObjects : held[p].fp = g) \/ \E i \in 1 .. Len(closed) : closed[i] = g
    BY DEF Owned
  <2>2. CASE g = fp
    BY <1>7, <1>8, <2>2
  <2>3. CASE g # fp
    BY <1>3, <1>4, <1>7, <1>8, <2>1, <2>3
  <2>4. QED
    BY <2>2, <2>3
<1>14. Owned(later, n, after)
  BY <1>1, <1>3, <1>7, <1>9, <1>10, <1>11, <1>12, <1>13 DEF Owned
<1>15. QED
  BY <1>2, <1>4, <1>6, <1>14

LEMMA FieldsHold ==
  ASSUME NEW st, FilesInv(st), NEW o \in FileObjects
  PROVE  /\ st.made \in Nat /\ st.made <= MaxHandles
         /\ st.obj[o] = NoFile \/ st.obj[o] = Standard \/ Opened(st.obj[o], st.made)
         /\ st.obj[o].fp \in Int /\ -1 <= st.obj[o].fp /\ st.obj[o].fp <= st.made
         /\ ~IsOpen(st.obj[o]) <=> st.obj[o] = NoFile
         /\ st.obj[o].allowclose <=> Opened(st.obj[o], st.made)
  BY Kinds DEF FilesInv, Owned, IsOpen

LEMMA CloseKeepsFiles ==
  ASSUME NEW st, FilesInv(st), NEW o \in FileObjects
  PROVE  /\ FilesInv(fclose(st, o)) /\ fclose(st, o).obj[o] = NoFile
         /\ fclose(st, o).made = st.made
         /\ \A p \in FileObjects \ {o} : fclose(st, o).obj[p] = st.obj[p]
<1>1. DOMAIN st.obj = FileObjects
  BY DEF FilesInv, Owned
<1>2. CASE ~IsOpen(st.obj[o])
  BY <1>2, FieldsHold DEF fclose
<1>3. CASE IsOpen(st.obj[o]) /\ st.obj[o].allowclose
  <2>1. fclose(st, o) = Holding(st, o, NoFile, Append(st.closed, st.obj[o].fp))
    BY <1>3 DEF fclose
  <2>2. Owned([st.obj EXCEPT ![o] = NoFile], st.made, Append(st.closed, st.obj[o].fp))
    BY <1>3, FieldsHold, OwnedCloses DEF FilesInv
  <2>3. QED
    BY <1>1, <2>1, <2>2 DEF Holding, FilesInv
<1>4. CASE IsOpen(st.obj[o]) /\ ~st.obj[o].allowclose
  <2>1. fclose(st, o) = Holding(st, o, NoFile, st.closed)
    BY <1>4 DEF fclose
  <2>2. st.obj[o] = Standard
    BY <1>4, FieldsHold
  <2>3. Owned([st.obj EXCEPT ![o] = NoFile], st.made, st.closed)
    BY <2>2, OwnedWithout DEF FilesInv
  <2>4. QED
    BY <1>1, <2>1, <2>3 DEF Holding, FilesInv
<1>5. QED
  BY <1>2, <1>3, <1>4

\* fopen() opened a file of its own for o, and touched no other.
Opens(st, later, o, name, mode) ==
  /\ later.obj[o].name = name /\ later.obj[o].mode = mode /\ later.obj[o].fp = st.made + 1
  /\ later.pos[st.made + 1] = 0
  /\ \A fp \in 0 .. MaxHandles : fp # st.made + 1 => later.pos[fp] = st.pos[fp]
  /\ mode = "wb" => later.length[name] = 0

LEMMA OpenKeepsFiles ==
  ASSUME NEW st, FilesInv(st), st.made < MaxHandles, NEW o \in FileObjects, st.obj[o] = NoFile,
         NEW name \in FileNames, NEW mode, mode \in {"rb", "wb"} \/ name = "stdout", NEW granted
  PROVE  LET later == fopen(st, o, name, mode, granted)
         IN  /\ FilesInv(later)
             /\ \A p \in FileObjects \ {o} : later.obj[p] = st.obj[p]
             /\ later = st \/ (name = "stdout" /\ later.obj[o] = Standard /\ later.pos = st.pos)
                \/ (name # "stdout" /\ Opens(st, later, o, name, mode))
<1>1. DOMAIN st.obj = FileObjects /\ ~IsOpen(st.obj[o])
  BY Fields DEF FilesInv, Owned, IsOpen
<1>2. PICK later : later = fopen(st, o, name, mode, granted)
  OBVIOUS
<1>3. CASE name = "stdout"
  <2>1. later = Holding(st, o, Standard, st.closed)
    BY <1>1, <1>2, <1>3 DEF fopen, Standard
  <2>2. Owned([st.obj EXCEPT ![o] = Standard], st.made, st.closed)
    BY OwnedWithout DEF FilesInv
  <2>3. QED
    BY <1>1, <1>2, <1>3, <2>1, <2>2 DEF Holding, FilesInv
<1>4. CASE name # "stdout" /\ later # st
  <2>1. PICK fp : fp = st.made + 1
    OBVIOUS
  <2>2. PICK f : f = [name |-> name, mode |-> mode, fp |-> fp, allowclose |-> TRUE]
    OBVIOUS
  <2>3. later = [obj |-> [st.obj EXCEPT ![o] = f], pos |-> [st.pos EXCEPT ![fp] = 0],
               length |-> IF mode = "wb" THEN [st.length EXCEPT ![name] = 0] ELSE st.length,
               made |-> fp, closed |-> st.closed]
    BY <1>1, <1>2, <1>4, <2>1, <2>2 DEF fopen
  <2>4. /\ later.obj = [st.obj EXCEPT ![o] = f] /\ later.pos = [st.pos EXCEPT ![fp] = 0]
        /\ later.length = IF mode = "wb" THEN [st.length EXCEPT ![name] = 0] ELSE st.length
        /\ later.made = fp /\ later.closed = st.closed
    BY <2>3
  <2>5. st.made \in Nat /\ MaxHandles \in Nat /\ fp \in 0 .. MaxHandles
    BY <2>1, HandleAssumption DEF FilesInv, Owned
  <2>6. f.name = name /\ f.mode = mode /\ f.fp = fp /\ f.allowclose = TRUE
    BY <2>2
  <2>7. Opened(f, fp)
    BY <1>4, <2>1, <2>5, <2>6 DEF Opened
  <2>8. Owned(later.obj, later.made, later.closed)
    BY <2>1, <2>4, <2>6, <2>7, OwnedOpens DEF FilesInv
  <2>9. st.pos \in [0 .. MaxHandles -> Int] /\ st.length \in [FileNames -> Int]
    BY DEF FilesInv
  <2>10. later.pos \in [0 .. MaxHandles -> Int] /\ later.length \in [FileNames -> Int]
    BY <2>4, <2>5, <2>9
  <2>11. FilesInv(later)
    BY <2>4, <2>5, <2>8, <2>10 DEF FilesInv
  <2>12. Opens(st, later, o, name, mode)
    BY <1>1, <2>1, <2>4, <2>5, <2>6, <2>9 DEF Opens
  <2>13. \A p \in FileObjects \ {o} : later.obj[p] = st.obj[p]
    BY <1>1, <2>4
  <2>14. QED
    BY <1>2, <1>4, <2>11, <2>12, <2>13
<1>5. QED
  BY <1>2, <1>3, <1>4

\* fseek() and fwrite() move in the file, and leave the objects.
LEMMA MovingKeepsFiles ==
  ASSUME NEW st, FilesInv(st), NEW o \in FileObjects, IsOpen(st.obj[o]), NEW place \in Int,
         NEW length \in [FileNames -> Int]
  PROVE  LET later == At(st, st.obj[o].fp, place, length)
         IN  FilesInv(later) /\ later.obj = st.obj /\ later.length = length
             /\ later.pos[st.obj[o].fp] = place
             /\ \A fp \in 0 .. MaxHandles : fp # st.obj[o].fp => later.pos[fp] = st.pos[fp]
<1>1. PICK fp : fp = st.obj[o].fp
  OBVIOUS
<1>2. fp \in 0 .. MaxHandles
  <2>1. fp \in Int /\ -1 <= fp /\ fp <= st.made /\ st.made <= MaxHandles /\ st.made \in Nat
    BY <1>1, FieldsHold
  <2>2. fp # -1
    BY <1>1 DEF IsOpen
  <2>3. QED
    BY <2>1, <2>2, HandleAssumption
<1>3. PICK later : later = At(st, fp, place, length)
  OBVIOUS
<1>4. /\ later.obj = st.obj /\ later.pos = [st.pos EXCEPT ![fp] = place] /\ later.length = length
      /\ later.made = st.made /\ later.closed = st.closed
  BY <1>3 DEF At
<1>5. st.pos \in [0 .. MaxHandles -> Int]
  BY DEF FilesInv
<1>6. later.pos \in [0 .. MaxHandles -> Int]
  BY <1>4, <1>5
<1>7. FilesInv(later)
  BY <1>4, <1>6 DEF FilesInv
<1>8. QED
  BY <1>1, <1>2, <1>3, <1>4, <1>5, <1>7

LEMMA Larger == ASSUME NEW a \in Int, NEW b \in Int PROVE Max({a, b}) \in {a, b}
<1>1. \E x \in {a, b} : \A y \in {a, b} : x >= y
  OBVIOUS
<1>2. QED
  BY <1>1 DEF Max

LEMMA WriteKeepsFiles ==
  ASSUME NEW st, FilesInv(st), NEW o \in FileObjects
  PROVE  FilesInv(fwrite(st, o))
<1>1. PICK f : f = st.obj[o]
  OBVIOUS
<1>2. CASE ~IsOpen(f) \/ f.mode = "rb"
  BY <1>1, <1>2 DEF fwrite
<1>3. CASE IsOpen(f) /\ f.mode # "rb"
  <2>1. PICK place : place = st.pos[f.fp] + 1
    OBVIOUS
  <2>2. PICK longer : longer = [st.length EXCEPT ![f.name] = Max({st.length[f.name], place})]
    OBVIOUS
  <2>3. fwrite(st, o) = At(st, f.fp, place, IF f.fp = 0 THEN st.length ELSE longer)
    BY <1>1, <1>3, <2>1, <2>2 DEF fwrite
  <2>4. f.fp \in 0 .. MaxHandles
    <3>1. f.fp \in Int /\ -1 <= f.fp /\ f.fp <= st.made /\ st.made <= MaxHandles /\ st.made \in Nat
      BY <1>1, FieldsHold
    <3>2. f.fp # -1
      BY <1>3 DEF IsOpen
    <3>3. QED
      BY <3>1, <3>2, HandleAssumption
  <2>5. st.pos \in [0 .. MaxHandles -> Int] /\ st.length \in [FileNames -> Int]
    BY DEF FilesInv
  <2>6. place \in Int
    BY <2>1, <2>4, <2>5
  <2>7. CASE f.fp = 0
    BY <1>1, <1>3, <2>3, <2>5, <2>6, <2>7, MovingKeepsFiles
  <2>8. CASE f.fp # 0
    <3>1. f.name \in FileNames
      BY <1>1, <1>3, <2>8, FieldsHold, Fields DEF Opened, IsOpen
    <3>2. Max({st.length[f.name], place}) \in Int
      BY <2>5, <2>6, <3>1, Larger
    <3>3. longer \in [FileNames -> Int]
      BY <2>2, <2>5, <3>1, <3>2
    <3>4. QED
      BY <1>1, <1>3, <2>3, <2>6, <2>8, <3>3, MovingKeepsFiles
  <2>9. QED
    BY <2>7, <2>8
<1>4. QED
  BY <1>2, <1>3

\* What CopiesAreApart says of an object and the one it was copied from.
Apart(st, o, from) ==
  LET to == st.obj[o]  f == st.obj[from]
  IN  IsOpen(to) =>
        /\ to.name = f.name /\ to.mode = f.mode
        /\ st.pos[to.fp] = st.pos[f.fp]
        /\ to.fp = f.fp => to.fp = 0
        /\ to.mode = "wb" => st.length[to.name] = 0

LEMMA CopyKeepsFiles ==
  ASSUME NEW st, FilesInv(st), st.made < MaxHandles,
         NEW o \in FileObjects, NEW from \in FileObjects, NEW granted
  PROVE  FilesInv(Copied(st, o, from, granted)) /\ Apart(Copied(st, o, from, granted), o, from)
<1>1. PICK empty : empty = fclose(st, o)
  OBVIOUS
<1>2. FilesInv(empty) /\ empty.obj[o] = NoFile /\ empty.made < MaxHandles
  BY <1>1, CloseKeepsFiles
<1>3. PICK f : f = empty.obj[from]
  OBVIOUS
<1>4. PICK opened : opened = fopen(empty, o, f.name, f.mode, granted)
  OBVIOUS
<1>5. PICK later : later = Copied(st, o, from, granted)
  OBVIOUS
<1>6. later = IF ~IsOpen(f) THEN empty
            ELSE IF IsOpen(opened.obj[o]) THEN fseek(opened, o, opened.pos[f.fp])
            ELSE opened
  BY <1>1, <1>3, <1>4, <1>5 DEF Copied
<1>7. CASE ~IsOpen(f)
  BY <1>2, <1>5, <1>6, <1>7, Fields DEF Apart, IsOpen
<1>8. CASE IsOpen(f)
  <2>1. from # o
    BY <1>2, <1>3, <1>8, Fields DEF IsOpen
  <2>2. f = Standard \/ Opened(f, empty.made)
    BY <1>2, <1>3, <1>8, FieldsHold
  <2>3. ASSUME f = Standard
        PROVE  FilesInv(opened) /\ opened.obj[o] = Standard /\ opened.obj[from] = Standard
    <3>1. opened = Holding(empty, o, Standard, empty.closed)
      BY <1>2, <1>4, <2>3, Fields DEF fopen, IsOpen, Standard
    <3>2. Owned([empty.obj EXCEPT ![o] = Standard], empty.made, empty.closed)
      BY <1>2, OwnedWithout DEF FilesInv
    <3>3. DOMAIN empty.obj = FileObjects
      BY <1>2 DEF FilesInv, Owned
    <3>4. QED
      BY <1>2, <1>3, <2>1, <2>3, <3>1, <3>2, <3>3 DEF Holding, FilesInv
  <2>4. CASE ~IsOpen(opened.obj[o])
    <3>1. FilesInv(opened)
      <4>1. CASE Opened(f, empty.made)
        BY <1>2, <1>4, <4>1, OpenKeepsFiles DEF Opened
      <4>2. QED
        BY <2>2, <2>3, <4>1
    <3>2. QED
      BY <1>5, <1>6, <1>8, <2>4, <3>1 DEF Apart
  <2>5. CASE IsOpen(opened.obj[o])
    <3>1. later = fseek(opened, o, opened.pos[f.fp])
      BY <1>6, <1>8, <2>5
    <3>2. PICK place : place = opened.pos[f.fp]
      OBVIOUS
    <3>3. later = At(opened, opened.obj[o].fp, place, opened.length)
      BY <2>5, <3>1, <3>2 DEF fseek
    <3>4. CASE f = Standard
      <4>1. FilesInv(opened)
        BY <2>3, <3>4
      <4>2. place \in Int /\ opened.length \in [FileNames -> Int]
        <5>1. opened.pos \in [0 .. MaxHandles -> Int] /\ f.fp \in 0 .. MaxHandles
          BY <3>4, <4>1, Fields, HandleAssumption DEF FilesInv
        <5>2. QED
          BY <3>2, <4>1, <5>1 DEF FilesInv
      <4>3. FilesInv(later) /\ later.obj = opened.obj
        BY <2>5, <3>3, <4>1, <4>2, MovingKeepsFiles
      <4>4. Apart(later, o, from)
        BY <2>3, <3>4, <4>3, Fields DEF Apart
      <4>5. QED
        BY <1>5, <4>3, <4>4
    <3>5. CASE Opened(f, empty.made)
      <4>1. f.name \in FileNames /\ f.name # "stdout" /\ f.mode \in {"rb", "wb"} /\ f.fp \in 1 .. empty.made
        BY <3>5 DEF Opened
      <4>2. /\ FilesInv(opened)
            /\ \A p \in FileObjects \ {o} : opened.obj[p] = empty.obj[p]
            /\ opened = empty \/ Opens(empty, opened, o, f.name, f.mode)
        BY <1>2, <1>4, <4>1, OpenKeepsFiles
      <4>3. Opens(empty, opened, o, f.name, f.mode)
        BY <1>2, <2>5, <4>2, Fields DEF IsOpen
      <4>4. opened.obj[from] = f
        BY <1>3, <2>1, <4>2
      <4>5. f.fp \in 0 .. MaxHandles /\ f.fp # empty.made + 1 /\ empty.made \in Nat
        BY <1>2, <4>1, FieldsHold, HandleAssumption
      <4>6. place \in Int /\ opened.length \in [FileNames -> Int]
        BY <3>2, <4>2, <4>5 DEF FilesInv
      <4>7. /\ FilesInv(later) /\ later.obj = opened.obj /\ later.length = opened.length
            /\ later.pos[opened.obj[o].fp] = place
            /\ \A fp \in 0 .. MaxHandles : fp # opened.obj[o].fp => later.pos[fp] = opened.pos[fp]
        BY <2>5, <3>3, <4>2, <4>6, MovingKeepsFiles
      <4>8. later.pos[f.fp] = place
        BY <3>2, <4>3, <4>5, <4>7 DEF Opens
      <4>9. Apart(later, o, from)
        BY <4>3, <4>4, <4>5, <4>7, <4>8 DEF Apart, Opens
      <4>10. QED
        BY <1>5, <4>7, <4>9
    <3>6. QED
      BY <2>2, <3>4, <3>5
  <2>6. QED
    BY <2>4, <2>5
<1>9. QED
  BY <1>7, <1>8

LEMMA FilesStart == FilesInit => FilesInv(files) /\ CopiesAreApart
<1> SUFFICES ASSUME FilesInit PROVE FilesInv(files) /\ CopiesAreApart
  OBVIOUS
<1>1. PICK held : held = [o \in FileObjects |-> NoFile]
  OBVIOUS
<1>2. files = [obj |-> held, pos |-> [fp \in 0 .. MaxHandles |-> 0],
               length |-> [name \in FileNames |-> -1], made |-> 0, closed |-> <<>>]
  BY <1>1 DEF FilesInit
<1>3. /\ files.obj = held /\ files.made = 0 /\ files.closed = <<>>
      /\ files.pos = [fp \in 0 .. MaxHandles |-> 0] /\ files.length = [name \in FileNames |-> -1]
  BY <1>2
<1>4. <<>> \in Seq(1 .. 0) /\ Len(<<>>) = 0 /\ 1 .. 0 = {}
  OBVIOUS
<1>5. Owned(held, 0, <<>>)
  BY <1>1, <1>4 DEF Owned
<1>6. files.pos \in [0 .. MaxHandles -> Int] /\ files.length \in [FileNames -> Int]
  BY <1>3
<1>7. FilesInv(files)
  BY <1>3, <1>5, <1>6, HandleAssumption DEF FilesInv
<1>8. call.op # "assign"
  BY DEF FilesInit
<1>9. QED
  BY <1>7, <1>8 DEF CopiesAreApart

LEMMA FilesKeep ==
  ASSUME FilesInv(files), FilesNext PROVE (FilesInv(files) /\ CopiesAreApart)'
<1>1. PICK o \in FileObjects :
        \/ \E name \in FileNames, mode \in {"rb", "wb"}, granted \in BOOLEAN : OpenFile(o, name, mode, granted)
        \/ CloseFile(o)
        \/ WriteFile(o)
        \/ \E from \in FileObjects, granted \in BOOLEAN : AssignFile(o, from, granted)
  BY DEF FilesNext
<1>2. ASSUME NEW name \in FileNames, NEW mode \in {"rb", "wb"}, NEW granted, OpenFile(o, name, mode, granted)
      PROVE  (FilesInv(files) /\ CopiesAreApart)'
  <2>1. files.made < MaxHandles /\ files' = fopen(files, o, name, mode, granted) /\ call'.op = "open"
    BY <1>2 DEF OpenFile
  <2>2. FilesInv(files')
    <3>1. CASE IsOpen(files.obj[o])
      BY <2>1, <3>1 DEF fopen
    <3>2. CASE ~IsOpen(files.obj[o])
      BY <2>1, <3>2, FieldsHold, OpenKeepsFiles
    <3>3. QED
      BY <3>1, <3>2
  <2>3. QED
    BY <2>1, <2>2 DEF CopiesAreApart
<1>3. CASE CloseFile(o)
  <2>1. files' = fclose(files, o) /\ call'.op = "close"
    BY <1>3 DEF CloseFile
  <2>2. QED
    BY <2>1, CloseKeepsFiles DEF CopiesAreApart
<1>4. CASE WriteFile(o)
  <2>1. files' = fwrite(files, o) /\ call'.op = "write"
    BY <1>4 DEF WriteFile
  <2>2. QED
    BY <2>1, WriteKeepsFiles DEF CopiesAreApart
<1>5. ASSUME NEW from \in FileObjects, NEW granted, AssignFile(o, from, granted)
      PROVE  (FilesInv(files) /\ CopiesAreApart)'
  <2>1. /\ files.made < MaxHandles /\ files' = Copied(files, o, from, granted)
        /\ call'.obj = o /\ call'.from = from
    BY <1>5 DEF AssignFile
  <2>2. FilesInv(files') /\ Apart(files', o, from)
    BY <2>1, CopyKeepsFiles
  <2>3. QED
    BY <2>1, <2>2 DEF CopiesAreApart, Apart
<1>6. QED
  BY <1>1, <1>2, <1>3, <1>4, <1>5

LEMMA FilesInvIsOwnership == FilesInv(files) => FilesHaveOneOwner
<1> SUFFICES ASSUME FilesInv(files) PROVE FilesHaveOneOwner
  OBVIOUS
<1> DEFINE holders(fp) == {o \in FileObjects : files.obj[o].fp = fp}
           closings(fp) == {i \in DOMAIN files.closed : files.closed[i] = fp}
<1>1. PICK n : n = files.made
  OBVIOUS
<1>2. PICK closed : closed = files.closed
  OBVIOUS
<1>3. Owned(files.obj, n, closed) /\ n \in Nat /\ closed \in Seq(1 .. n) /\ DOMAIN closed = 1 .. Len(closed)
  BY <1>1, <1>2 DEF FilesInv, Owned
<1>4. ASSUME NEW fp \in 1 .. n
      PROVE  \/ closings(fp) = {} /\ \E o \in FileObjects : holders(fp) = {o}
             \/ holders(fp) = {} /\ \E i \in DOMAIN files.closed : closings(fp) = {i}
  <2>1. CASE \E o \in FileObjects : files.obj[o].fp = fp
    <3>1. PICK o \in FileObjects : files.obj[o].fp = fp
      BY <2>1
    <3>2. files.obj[o] \notin {NoFile, Standard}
      BY <3>1, Fields
    <3>3. \A p \in FileObjects : files.obj[p].fp = fp => p = o
      BY <1>3, <3>1, <3>2 DEF Owned
    <3>4. closings(fp) = {}
      BY <1>2, <1>3, <3>1 DEF Owned
    <3>5. QED
      BY <3>1, <3>3, <3>4
  <2>2. CASE \A o \in FileObjects : files.obj[o].fp # fp
    <3>1. PICK i \in 1 .. Len(closed) : closed[i] = fp
      BY <1>3, <2>2 DEF Owned
    <3>2. \A j \in 1 .. Len(closed) : closed[j] = fp => j = i
      BY <1>3, <3>1 DEF Owned
    <3>3. closings(fp) = {i}
      BY <1>2, <1>3, <3>1, <3>2
    <3>4. holders(fp) = {}
      BY <2>2
    <3>5. QED
      BY <1>2, <1>3, <3>1, <3>3, <3>4
  <2>3. QED
    BY <2>1, <2>2
<1>5. closings(0) = {}
  <2>1. \A i \in 1 .. Len(closed) : closed[i] \in 1 .. n
    BY <1>3, ElementOfSeq
  <2>2. QED
    BY <1>2, <1>3, <2>1
<1>6. QED
  BY <1>1, <1>4, <1>5 DEF FilesHaveOneOwner

-----------------------------------------------------------------------------
(* The specification.                                                      *)

RegistryInv == FactoriesInv /\ ContainerInv

HandlesInv == FilesInv(files) /\ CopiesAreApart /\ SocketInv

OwnershipInv == RegistryInv /\ VersionsInv /\ HandlesInv

LEMMA OwnershipStarts == OwnershipInit => OwnershipInv
<1> SUFFICES ASSUME OwnershipInit PROVE OwnershipInv
  OBVIOUS
<1>1. \A S : <<>> \in Seq(S)
  OBVIOUS
<1>2. Len(<<>>) = 0 /\ 1 .. 0 = {}
  OBVIOUS
<1>3. FactoriesInv
  BY <1>1, <1>2 DEF OwnershipInit, RegistryInit, FactoriesInv
<1>4. ContainerInv
  <2>1. /\ container.made = 0 /\ container.owned = <<>> /\ container.deleted = {}
        /\ container.singletons = <<>> /\ requests = <<>>
    BY DEF OwnershipInit, RegistryInit, NoObjects
  <2>2. Accounted(0, <<>>, {})
    BY <1>1, <1>2 DEF Accounted
  <2>3. DOMAIN <<>> = {}
    BY <1>2
  <2>4. QED
    BY <1>1, <1>2, <2>1, <2>2, <2>3 DEF ContainerInv, OwnedInv, SingletonsInv
<1>5. VersionsInv
  <2>1. versions = <<>> /\ entries = <<>>
    BY DEF OwnershipInit, VersionsInit
  <2>2. OnlyOne(<<>>, "") /\ \A name : OnlyOne(<<>>, name)
    BY <1>2 DEF OnlyOne
  <2>3. ASSUME NEW name PROVE SameFirst(<<>>, <<>>, name)
    BY DEF SameFirst
  <2>4. QED
    BY <1>1, <2>1, <2>2, <2>3 DEF VersionsInv
<1>6. FilesInv(files) /\ CopiesAreApart
  BY FilesStart DEF OwnershipInit
<1>7. SocketInv
  BY DEF OwnershipInit, SocketInit, SocketInv
<1>8. QED
  BY <1>3, <1>4, <1>5, <1>6, <1>7 DEF OwnershipInv, RegistryInv, HandlesInv

\* No part reads what another one keeps.
LEMMA RegistryStays == RegistryInv /\ UNCHANGED registryVars => RegistryInv'
<1> SUFFICES ASSUME RegistryInv, UNCHANGED registryVars PROVE RegistryInv'
  OBVIOUS
<1>1. objects' = objects /\ container' = container /\ registered' = registered /\ requests' = requests
  BY DEF registryVars
<1>2. FactoriesInv'
  BY <1>1 DEF RegistryInv, FactoriesInv, HasBest
<1>3. ContainerInv'
  BY <1>1 DEF RegistryInv, ContainerInv, OwnedInv, SingletonsInv, HasLastId
<1>4. QED
  BY <1>2, <1>3 DEF RegistryInv

LEMMA VersionsStay == VersionsInv /\ UNCHANGED versionVars => VersionsInv'
  BY DEF versionVars, VersionsInv

LEMMA HandlesStay ==
  HandlesInv => /\ UNCHANGED fileVars => (FilesInv(files) /\ CopiesAreApart)'
                /\ UNCHANGED socketVars => SocketInv'
<1>1. FilesInv(files) /\ CopiesAreApart /\ UNCHANGED fileVars => (FilesInv(files) /\ CopiesAreApart)'
  <2> SUFFICES ASSUME FilesInv(files), CopiesAreApart, files' = files, call' = call
               PROVE  (FilesInv(files) /\ CopiesAreApart)'
    BY DEF fileVars
  <2>1. FilesInv(files')
    OBVIOUS
  <2>2. CopiesAreApart'
    BY DEF CopiesAreApart
  <2>3. QED
    BY <2>1, <2>2
<1>2. SocketInv /\ UNCHANGED socketVars => SocketInv'
  BY DEF socketVars, SocketInv
<1>3. QED
  BY <1>1, <1>2 DEF HandlesInv

LEMMA OwnershipKeeps == OwnershipInv /\ [OwnershipNext]_ownershipVars => OwnershipInv'
<1> SUFFICES ASSUME OwnershipInv, [OwnershipNext]_ownershipVars PROVE OwnershipInv'
  OBVIOUS
<1>1. RegistryInv /\ VersionsInv /\ HandlesInv
  BY DEF OwnershipInv
<1>2. ASSUME RegistryNext PROVE RegistryInv'
  <2>1. ASSUME NEW f \in Factories, RegisterFactory(f) PROVE RegistryInv'
    <3>1. FactoriesInv'
      BY <1>1, <2>1, RegisterKeepsBest DEF RegistryInv
    <3>2. container' = container /\ requests' = requests
      BY <2>1 DEF RegisterFactory
    <3>3. ContainerInv'
      BY <1>1, <3>2 DEF RegistryInv, ContainerInv, OwnedInv, SingletonsInv, HasLastId
    <3>4. QED
      BY <3>1, <3>3 DEF RegistryInv
  <2>2. ASSUME NEW c \in Requests, CreateObject(c) PROVE RegistryInv'
    <3>1. ContainerInv'
      BY <1>1, <2>2, CreateKeepsContainer DEF RegistryInv
    <3>2. objects' = objects /\ registered' = registered
      BY <2>2 DEF CreateObject
    <3>3. FactoriesInv'
      BY <1>1, <3>2 DEF RegistryInv, FactoriesInv, HasBest
    <3>4. QED
      BY <3>1, <3>3 DEF RegistryInv
  <2>3. QED
    BY <1>2, <2>1, <2>2 DEF RegistryNext
<1>3. ASSUME VersionsNext PROVE VersionsInv'
  BY <1>1, <1>3, RegisterKeepsVersions DEF VersionsNext
<1>4. CASE RegistryStep
  BY <1>1, <1>2, <1>4, VersionsStay, HandlesStay DEF RegistryStep, OwnershipInv, HandlesInv
<1>5. CASE VersionsStep
  BY <1>1, <1>3, <1>5, RegistryStays, HandlesStay DEF VersionsStep, OwnershipInv, HandlesInv
<1>6. CASE FilesStep
  BY <1>1, <1>6, FilesKeep, RegistryStays, VersionsStay, HandlesStay DEF FilesStep, OwnershipInv, HandlesInv
<1>7. CASE SocketStep
  BY <1>1, <1>7, SocketKeeps, RegistryStays, VersionsStay, HandlesStay DEF SocketStep, OwnershipInv, HandlesInv
<1>8. CASE UNCHANGED ownershipVars
  BY <1>1, <1>8, RegistryStays, VersionsStay, HandlesStay DEF ownershipVars, OwnershipInv, HandlesInv
<1>9. QED
  BY <1>4, <1>5, <1>6, <1>7, <1>8 DEF OwnershipNext

\* In whatever order the linker lets the factories and the versions register,
\* the best factory of a name and the first version of a library are kept.
THEOREM RegistrationIsExact == OwnershipSpec => []RegistrationIsOrderFree
<1>1. OwnershipInv => RegistrationIsOrderFree
  BY BestIsRegistered, VersionsAreFirst DEF OwnershipInv, RegistryInv, RegistrationIsOrderFree
<1>2. QED
  BY <1>1, OwnershipStarts, OwnershipKeeps, PTL DEF OwnershipSpec

\* Objects, FILEs and descriptors have one owner or were given back once, but
\* for the descriptors that bind() and connect() overwrite.
THEOREM OwnershipIsExact == OwnershipSpec => []EverythingHasOneOwner
<1>1. OwnershipInv => EverythingHasOneOwner
  <2> SUFFICES ASSUME OwnershipInv PROVE EverythingHasOneOwner
    OBVIOUS
  <2>1. ContainerInv /\ FilesInv(files) /\ CopiesAreApart /\ SocketInv
    BY DEF OwnershipInv, RegistryInv, HandlesInv
  <2>2. ObjectsHaveOneOwner
    BY <2>1, ContainerInvIsOwnership
  <2>3. FilesHaveOneOwner
    BY <2>1, FilesInvIsOwnership
  <2>4. SocketHasOneOwner
    BY <2>1 DEF SocketInv, SocketHasOneOwner
  <2>5. QED
    BY <2>1, <2>2, <2>3, <2>4 DEF EverythingHasOneOwner
<1>2. QED
  BY <1>1, OwnershipStarts, OwnershipKeeps, PTL DEF OwnershipSpec

=============================================================================
