-------------------------- MODULE Parameters_proofs -------------------------
(***************************************************************************)
(* SystemParameters and ParameterSet, for every set of names, values and   *)
(* texts.                                                                  *)
(*                                                                         *)
(* For Substitute() the invariant is that the string becomes the expansion *)
(* of the text if the references from p1 on are replaced by what they      *)
(* stand for; for SubstitutePathList() it is that the paths become that    *)
(* together, the first i - 1 of them being without references.  A round    *)
(* keeps what the string or the list becomes because what a name stands    *)
(* for is what its values are filled with: Expansions() are a fixed point  *)
(* when the names have the ranks of Grounded.  Most lemmas are about       *)
(* filling a text that is put together of others.                          *)
(*                                                                         *)
(* Steps name their terms with DEFINE and hide them, and equations that    *)
(* lemmas assume are operators, for the provers do little with terms they  *)
(* see through.                                                            *)
(***************************************************************************)
EXTENDS SystemParameters, ParameterSet, SequenceTheorems, FiniteSetTheorems, WellFoundedInduction, TLAPS

-----------------------------------------------------------------------------
(* Numbers.                                                                *)

\* Induction, for a set of numbers.
LEMMA NumbersAreInductive ==
  ASSUME NEW S, 0 \in S, \A n \in Nat : n \in S => n + 1 \in S
  PROVE  Nat \subseteq S
<1> DEFINE R == {ss \in Nat \X Nat : ss[1] < ss[2]}
           T == Nat \ S
<1> SUFFICES ASSUME T # {} PROVE FALSE
  OBVIOUS
<1>1. PICK x \in T : \A y \in T : ~(<<y, x>> \in R)
  <2>1. IsWellFoundedOn(R, Nat)
    BY NatLessThanWellFounded DEF OpToRel
  <2>2. T \subseteq Nat
    OBVIOUS
  <2> HIDE DEF R, T
  <2>3. QED
    BY <2>1, <2>2, WFMin, Zenon
<1>2. x - 1 \in Nat /\ (x - 1) + 1 = x
  OBVIOUS
<1>3. <<x - 1, x>> \in R
  BY <1>2
<1>4. x - 1 \in S
  BY <1>1, <1>2, <1>3
<1>5. QED
  BY <1>2, <1>4

\* A set of numbers has a least one.
LEMMA LeastNumber ==
  ASSUME NEW S, S \subseteq Nat, S # {}
  PROVE  \E x \in S : \A y \in S : x <= y
<1> DEFINE R == {ss \in Nat \X Nat : ss[1] < ss[2]}
<1>1. PICK x \in S : \A y \in S : ~(<<y, x>> \in R)
  <2>1. IsWellFoundedOn(R, Nat)
    BY NatLessThanWellFounded DEF OpToRel
  <2> HIDE DEF R
  <2>2. QED
    BY <2>1, WFMin, Zenon
<1>2. ASSUME NEW y \in S PROVE x <= y
  <2>1. x \in Nat /\ y \in Nat /\ ~(y < x)
    BY <1>1
  <2>2. QED
    BY <2>1
<1>3. QED
  BY <1>2

\* And a greatest one, if it is bounded.
LEMMA GreatestNumber ==
  ASSUME NEW n \in Nat, NEW S, S \subseteq 0 .. n, S # {}
  PROVE  \E x \in S : \A y \in S : x >= y
<1> DEFINE T == {n - x : x \in S}
<1>1. T \subseteq Nat /\ T # {}
  <2>1. ASSUME NEW x \in S PROVE n - x \in Nat
    OBVIOUS
  <2>2. QED
    BY <2>1
<1>2. PICK t \in T : \A y \in T : t <= y
  <2> HIDE DEF T
  <2>1. QED
    BY <1>1, LeastNumber
<1>3. PICK x \in S : t = n - x
  BY <1>2
<1>4. ASSUME NEW y \in S PROVE x >= y
  <2>1. t <= n - y
    BY <1>2
  <2>2. QED
    BY <1>3, <2>1
<1>5. QED
  BY <1>3, <1>4

-----------------------------------------------------------------------------
(* Functions that are defined step by step.                                *)

\* A function that begins with v and goes on by F[1], F[2], ...
GoesOn(f, m, V, v, F) ==
  f \in [0 .. m -> V] /\ f[0] = v /\ \A k \in 1 .. m : f[k] = F[k][f[k - 1]]

\* Such a function exists.
LEMMA RecursionExists ==
  ASSUME NEW n \in Nat, NEW V, NEW v \in V, NEW F \in [1 .. n -> [V -> V]]
  PROVE  \E f : GoesOn(f, n, V, v, F)
<1> USE DEF GoesOn
<1> DEFINE Upto(m, f) == GoesOn(f, m, V, v, F)
           S == {m \in Nat : m <= n => \E f : Upto(m, f)}
<1>1. 0 \in S
  <2>1. Upto(0, [k \in 0 .. 0 |-> v])
    OBVIOUS
  <2>2. QED
    BY <2>1
<1>2. ASSUME NEW m \in Nat, m \in S, m + 1 <= n PROVE \E f : Upto(m + 1, f)
  <2>1. PICK f : Upto(m, f)
    BY <1>2
  <2> DEFINE l == m + 1
             g == [k \in 0 .. l |-> IF k = l THEN F[l][f[m]] ELSE f[k]]
  <2>2. l \in 1 .. n /\ l \in Nat /\ l = m + 1 /\ m \in 0 .. m
    BY <1>2
  <2>3. F[l] \in [V -> V] /\ f[m] \in V /\ F[l][f[m]] \in V
    <3> HIDE DEF l
    <3>1. F[l] \in [V -> V] /\ f[m] \in V
      BY <2>1, <2>2
    <3>2. QED
      BY <3>1
  <2> HIDE DEF l
  <2>4. g \in [0 .. l -> V]
    BY <2>1, <2>2, <2>3
  <2>5. g[0] = v
    BY <2>1, <2>2
  <2>6. ASSUME NEW k \in 1 .. l PROVE g[k] = F[k][g[k - 1]]
    <3>1. CASE k = l
      <4>1. k - 1 = m /\ g[k - 1] = f[m] /\ g[k] = F[l][f[m]]
        BY <2>2, <3>1
      <4>2. QED
        BY <3>1, <4>1
    <3>2. CASE k # l
      <4>1. k \in 1 .. m /\ k - 1 \in 0 .. m /\ g[k - 1] = f[k - 1] /\ g[k] = f[k]
        BY <2>2, <3>2
      <4> HIDE DEF g
      <4>2. QED
        BY <2>1, <4>1
    <3>3. QED
      BY <3>1, <3>2
  <2>7. Upto(l, g)
    BY <2>4, <2>5, <2>6
  <2>8. QED
    BY <2>7 DEF l
<1>3. \A m \in Nat : m \in S => m + 1 \in S
  <2> SUFFICES ASSUME NEW m \in Nat, m \in S PROVE m + 1 \in S
    OBVIOUS
  <2> HIDE DEF Upto
  <2>1. QED
    BY <1>2
<1>4. n \in S
  <2> HIDE DEF S
  <2>1. QED
    BY <1>1, <1>3, NumbersAreInductive
<1>5. PICK f : Upto(n, f)
  BY <1>4
<1>6. QED
  BY <1>5

-----------------------------------------------------------------------------
(* Strings.                                                                *)

\* The provers do not know that a brace is a string.
Chars == STRING \union Braces \union {";"}
Str == Seq(Chars)

\* Strings under concatenation.
LEMMA Concatenation ==
  /\ <<>> \in Str
  /\ \A a \in Str : a \o <<>> = a /\ <<>> \o a = a
  /\ \A a \in Str, b \in Str : a \o b \in Str
  /\ \A a \in Str, b \in Str, c \in Str : (a \o b) \o c = a \o (b \o c)
<1>1. <<>> \in Str
  BY DEF Str
<1>2. ASSUME NEW a \in Str PROVE a \o <<>> = a /\ <<>> \o a = a
  BY ConcatEmptySeq DEF Str
<1>3. ASSUME NEW a \in Str, NEW b \in Str PROVE a \o b \in Str
  BY ConcatProperties DEF Str
<1>4. ASSUME NEW a \in Str, NEW b \in Str, NEW c \in Str PROVE (a \o b) \o c = a \o (b \o c)
  BY ConcatAssociative DEF Str
<1>5. QED
  BY <1>1, <1>2, <1>3, <1>4

\* What is in Cat(A, B).
LEMMA IntoCat ==
  ASSUME NEW A, NEW B, NEW a \in A, NEW b \in B
  PROVE  a \o b \in Cat(A, B)
<1> DEFINE T == {{x \o y : y \in B} : x \in A}
<1>1. a \o b \in {a \o y : y \in B}
  OBVIOUS
<1>2. {a \o y : y \in B} \in T
  OBVIOUS
<1>3. QED
  BY <1>1, <1>2 DEF Cat

LEMMA OutOfCat ==
  ASSUME NEW A, NEW B, NEW x \in Cat(A, B)
  PROVE  \E a \in A, b \in B : x = a \o b
  BY DEF Cat

\* Sets of strings under Cat().
LEMMA CatProperties ==
  /\ \A A \in SUBSET Str, B \in SUBSET Str : Cat(A, B) \in SUBSET Str
  /\ \A A \in SUBSET Str : Cat({<<>>}, A) = A /\ Cat(A, {<<>>}) = A
  /\ \A A \in SUBSET Str, B \in SUBSET Str, C \in SUBSET Str : Cat(Cat(A, B), C) = Cat(A, Cat(B, C))
<1>1. ASSUME NEW A \in SUBSET Str, NEW B \in SUBSET Str, NEW x \in Cat(A, B) PROVE x \in Str
  <2>1. PICK a \in A, b \in B : x = a \o b
    BY OutOfCat
  <2>2. a \in Str /\ b \in Str
    OBVIOUS
  <2>3. QED
    BY <2>1, <2>2, Concatenation
<1>2. ASSUME NEW A \in SUBSET Str, NEW x PROVE (x \in Cat({<<>>}, A)) <=> (x \in A)
  <2>1. ASSUME x \in A PROVE x \in Cat({<<>>}, A)
    <3>1. <<>> \o x = x
      BY <2>1, Concatenation
    <3>2. <<>> \o x \in Cat({<<>>}, A)
      BY <2>1, IntoCat
    <3>3. QED
      BY <3>1, <3>2
  <2>2. ASSUME x \in Cat({<<>>}, A) PROVE x \in A
    <3>1. PICK a \in {<<>>}, b \in A : x = a \o b
      BY <2>2 DEF Cat
    <3>2. <<>> \o b = b
      BY Concatenation
    <3>3. QED
      BY <3>1, <3>2
  <2>3. QED
    BY <2>1, <2>2
<1>3. ASSUME NEW A \in SUBSET Str, NEW x PROVE (x \in Cat(A, {<<>>})) <=> (x \in A)
  <2>1. ASSUME x \in A PROVE x \in Cat(A, {<<>>})
    <3>1. x \o <<>> = x
      BY <2>1, Concatenation
    <3>2. x \o <<>> \in Cat(A, {<<>>})
      BY <2>1, IntoCat
    <3>3. QED
      BY <3>1, <3>2
  <2>2. ASSUME x \in Cat(A, {<<>>}) PROVE x \in A
    <3>1. PICK a \in A, b \in {<<>>} : x = a \o b
      BY <2>2 DEF Cat
    <3>2. a \o <<>> = a
      BY Concatenation
    <3>3. QED
      BY <3>1, <3>2
  <2>3. QED
    BY <2>1, <2>2
<1>4. ASSUME NEW A \in SUBSET Str, NEW B \in SUBSET Str, NEW C \in SUBSET Str, NEW x
      PROVE  (x \in Cat(Cat(A, B), C)) <=> (x \in Cat(A, Cat(B, C)))
  <2>1. ASSUME x \in Cat(Cat(A, B), C) PROVE x \in Cat(A, Cat(B, C))
    <3>1. PICK y \in Cat(A, B), c \in C : x = y \o c
      BY <2>1, OutOfCat
    <3>2. PICK a \in A, b \in B : y = a \o b
      BY OutOfCat
    <3>3. a \in Str /\ b \in Str /\ c \in Str
      OBVIOUS
    <3>4. x = a \o (b \o c)
      BY <3>1, <3>2, <3>3, Concatenation
    <3>5. b \o c \in Cat(B, C)
      BY IntoCat
    <3>6. a \o (b \o c) \in Cat(A, Cat(B, C))
      BY <3>5, IntoCat
    <3>7. QED
      BY <3>4, <3>6
  <2>2. ASSUME x \in Cat(A, Cat(B, C)) PROVE x \in Cat(Cat(A, B), C)
    <3>1. PICK a \in A, y \in Cat(B, C) : x = a \o y
      BY <2>2, OutOfCat
    <3>2. PICK b \in B, c \in C : y = b \o c
      BY OutOfCat
    <3>3. a \in Str /\ b \in Str /\ c \in Str
      OBVIOUS
    <3>4. x = (a \o b) \o c
      BY <3>1, <3>2, <3>3, Concatenation
    <3>5. a \o b \in Cat(A, B)
      BY IntoCat
    <3>6. (a \o b) \o c \in Cat(Cat(A, B), C)
      BY <3>5, IntoCat
    <3>7. QED
      BY <3>4, <3>6
  <2>3. QED
    BY <2>1, <2>2
<1>5. \A A \in SUBSET Str, B \in SUBSET Str : Cat(A, B) \in SUBSET Str
  BY <1>1
<1>6. ASSUME NEW A \in SUBSET Str PROVE Cat({<<>>}, A) = A /\ Cat(A, {<<>>}) = A
  <2>1. Cat({<<>>}, A) = A
    BY <1>2
  <2>2. Cat(A, {<<>>}) = A
    BY <1>3
  <2>3. QED
    BY <2>1, <2>2
<1>7. ASSUME NEW A \in SUBSET Str, NEW B \in SUBSET Str, NEW C \in SUBSET Str
      PROVE  Cat(Cat(A, B), C) = Cat(A, Cat(B, C))
  BY <1>4
<1>8. QED
  BY <1>5, <1>6, <1>7

-----------------------------------------------------------------------------
(* Products of sets of strings.                                            *)

Collections == Seq(SUBSET Str)

\* The approximations that Product() is made of.
Products(f, sets) ==
  /\ f \in [0 .. Len(sets) -> SUBSET Str] /\ f[0] = {<<>>}
  /\ \A k \in 1 .. Len(sets) : f[k] = Cat(f[k - 1], sets[k])

\* The recursive function of Product() is defined by its own equations.
LEMMA ProductSteps ==
  ASSUME NEW sets \in Collections
  PROVE  \E f : Products(f, sets) /\ Product(sets) = f[Len(sets)]
<1> DEFINE n == Len(sets)
           F == [k \in 1 .. n |-> [A \in SUBSET Str |-> Cat(A, sets[k])]]
           Rec(f) == f = [k \in 0 .. n |-> IF k = 0 THEN {<<>>} ELSE Cat(f[k - 1], sets[k])]
<1>1. n \in Nat /\ \A k \in 1 .. n : sets[k] \in SUBSET Str
  BY DEF Collections
<1> HIDE DEF n
<1>2. F \in [1 .. n -> [SUBSET Str -> SUBSET Str]]
  <2>1. ASSUME NEW k \in 1 .. n, NEW A \in SUBSET Str PROVE Cat(A, sets[k]) \in SUBSET Str
    BY <1>1, CatProperties
  <2>2. QED
    BY <2>1
<1>3. {<<>>} \in SUBSET Str
  BY Concatenation
<1>4. PICK f \in [0 .. n -> SUBSET Str] : f[0] = {<<>>} /\ \A k \in 1 .. n : f[k] = F[k][f[k - 1]]
  <2> DEFINE V == SUBSET Str
             v == {<<>>}
  <2>1. v \in V /\ F \in [1 .. n -> [V -> V]]
    BY <1>2, <1>3
  <2> HIDE DEF F, V, v
  <2>2. \E f : GoesOn(f, n, V, v, F)
    <3>1. n \in Nat
      BY <1>1
    <3>2. v \in V
      BY <2>1
    <3>3. F \in [1 .. n -> [V -> V]]
      BY <2>1
    <3>4. QED
      BY <3>1, <3>2, <3>3, RecursionExists
  <2>3. QED
    BY <2>2 DEF V, v, GoesOn
<1>5. ASSUME NEW k \in 1 .. n PROVE f[k] = Cat(f[k - 1], sets[k])
  <2>1. k - 1 \in 0 .. n /\ f[k - 1] \in SUBSET Str
    BY <1>1
  <2>2. QED
    BY <1>4, <2>1
<1>6. Rec(f)
  <2>1. \A k \in 0 .. n : f[k] = IF k = 0 THEN {<<>>} ELSE Cat(f[k - 1], sets[k])
    <3> HIDE DEF F
    <3>1. QED
      BY <1>1, <1>4, <1>5
  <2>2. QED
    BY <2>1
<1> DEFINE u == CHOOSE g : Rec(g)
<1>7. Product(sets) = u[n]
  BY DEF Product, n
<1>8. Rec(u)
  <2> HIDE DEF Rec
  <2>1. QED
    BY <1>6
<1> HIDE DEF u
<1> DEFINE T == {k \in Nat : k <= n => u[k] = f[k]}
<1>9. \A k \in Nat : k <= n => u[k] = f[k]
  <2>1. 0 \in T
    BY <1>1, <1>4, <1>8
  <2>2. ASSUME NEW k \in Nat, k \in T PROVE k + 1 \in T
    <3>1. CASE k + 1 <= n
      <4> DEFINE l == k + 1
      <4>1. l \in 1 .. n /\ l - 1 = k /\ l # 0 /\ l \in 0 .. n /\ u[k] = f[k]
        BY <1>1, <2>2, <3>1
      <4> HIDE DEF l
      <4>2. u[l] = Cat(u[l - 1], sets[l])
        BY <1>8, <4>1
      <4>3. f[l] = Cat(f[l - 1], sets[l])
        BY <1>5, <4>1
      <4>4. u[l] = f[l]
        BY <4>1, <4>2, <4>3
      <4>5. QED
        BY <4>4 DEF l
    <3>2. CASE ~(k + 1 <= n)
      BY <3>2
    <3>3. QED
      BY <3>1, <3>2
  <2>3. Nat \subseteq T
    <3> HIDE DEF T
    <3>1. QED
      BY <2>1, <2>2, NumbersAreInductive
  <2>4. QED
    BY <2>3
<1>10. Products(f, sets)
  BY <1>4, <1>5 DEF Products, n
<1>11. Product(sets) = f[Len(sets)]
  BY <1>1, <1>7, <1>9 DEF n
<1>12. QED
  BY <1>10, <1>11

\* Whatever begins and goes on like them ends in the product.
LEMMA ProductIs ==
  ASSUME NEW sets \in Collections, NEW g, g[0] = {<<>>},
         \A k \in 1 .. Len(sets) : g[k] = Cat(g[k - 1], sets[k])
  PROVE  Product(sets) = g[Len(sets)]
<1> DEFINE n == Len(sets)
<1>1. PICK f : Products(f, sets) /\ Product(sets) = f[n]
  BY ProductSteps
<1>2. n \in Nat
  BY DEF Collections
<1>3. f[0] = {<<>>} /\ \A k \in 1 .. n : f[k] = Cat(f[k - 1], sets[k])
  BY <1>1 DEF Products
<1>4. \A k \in 1 .. n : g[k] = Cat(g[k - 1], sets[k])
  OBVIOUS
<1> HIDE DEF n
<1> DEFINE T == {k \in Nat : k <= n => g[k] = f[k]}
<1>5. 0 \in T
  BY <1>3
<1>6. ASSUME NEW k \in Nat, k \in T PROVE k + 1 \in T
  <2>1. CASE k + 1 <= n
    <3> DEFINE l == k + 1
    <3>1. l \in 1 .. n /\ l - 1 = k /\ g[k] = f[k]
      BY <1>2, <1>6, <2>1
    <3> HIDE DEF l
    <3>2. g[l] = Cat(g[l - 1], sets[l]) /\ f[l] = Cat(f[l - 1], sets[l])
      BY <1>3, <1>4, <3>1
    <3>3. g[l] = f[l]
      BY <3>1, <3>2
    <3>4. QED
      BY <3>3 DEF l
  <2>2. CASE ~(k + 1 <= n)
    BY <2>2
  <2>3. QED
    BY <2>1, <2>2
<1>7. Nat \subseteq T
  <2> HIDE DEF T
  <2>1. QED
    BY <1>5, <1>6, NumbersAreInductive
<1>8. g[n] = f[n]
  BY <1>2, <1>7
<1>9. QED
  BY <1>1, <1>8 DEF n

\* A product is a set of strings.
LEMMA ProductIsSet == ASSUME NEW sets \in Collections PROVE Product(sets) \in SUBSET Str
<1>1. PICK f : Products(f, sets) /\ Product(sets) = f[Len(sets)]
  BY ProductSteps
<1>2. Len(sets) \in Nat
  BY DEF Collections
<1>3. QED
  BY <1>1, <1>2 DEF Products

\* The product of two lists, one after the other.
LEMMA ProductOfBoth ==
  ASSUME NEW P \in Collections, NEW Q \in Collections
  PROVE  Product(P \o Q) = Cat(Product(P), Product(Q))
<1> DEFINE p == Len(P)
           q == Len(Q)
           R == P \o Q
<1>1. PICK f : Products(f, P) /\ Product(P) = f[p]
  BY ProductSteps
<1>2. PICK h : Products(h, Q) /\ Product(Q) = h[q]
  BY ProductSteps
<1>3. R \in Collections /\ Len(R) = p + q /\ \A at \in 1 .. p + q : R[at] = IF at <= p THEN P[at] ELSE Q[at - p]
  BY ConcatProperties DEF Collections
<1>4. p \in Nat /\ q \in Nat /\ (\A at \in 1 .. p : P[at] \in SUBSET Str) /\ \A at \in 1 .. q : Q[at] \in SUBSET Str
  BY DEF Collections
<1>5. f \in [0 .. p -> SUBSET Str] /\ f[0] = {<<>>} /\ \A k \in 1 .. p : f[k] = Cat(f[k - 1], P[k])
  BY <1>1 DEF Products
<1>6. h \in [0 .. q -> SUBSET Str] /\ h[0] = {<<>>} /\ \A k \in 1 .. q : h[k] = Cat(h[k - 1], Q[k])
  BY <1>2 DEF Products
<1> HIDE DEF p, q, R
<1> DEFINE A == f[p]
           g == [k \in 0 .. p + q |-> IF k <= p THEN f[k] ELSE Cat(A, h[k - p])]
<1>7. A \in SUBSET Str
  BY <1>4, <1>5
<1>8. g[0] = {<<>>}
  BY <1>4, <1>5
<1>9. ASSUME NEW k \in 1 .. p + q PROVE g[k] = Cat(g[k - 1], R[k])
  <2>1. CASE k <= p
    <3>1. k \in 1 .. p /\ k - 1 <= p /\ k - 1 \in 0 .. p + q /\ k \in 0 .. p + q /\ R[k] = P[k]
      BY <1>3, <1>4, <2>1
    <3>2. g[k] = f[k] /\ g[k - 1] = f[k - 1]
      BY <2>1, <3>1
    <3> HIDE DEF g
    <3>3. QED
      BY <1>5, <3>1, <3>2
  <2>2. CASE k > p
    <3> DEFINE l == k - p
    <3>1. l \in 1 .. q /\ l - 1 \in 0 .. q /\ k \in 0 .. p + q /\ k - 1 \in 0 .. p + q /\ (k - 1) - p = l - 1 /\ ~(k <= p)
      BY <1>4, <2>2
    <3>2. R[k] = Q[l]
      BY <1>3, <3>1
    <3>3. g[k] = Cat(A, h[l])
      BY <3>1
    <3>4. g[k - 1] = Cat(A, h[l - 1])
      <4>1. CASE k - 1 > p
        <5>1. ~(k - 1 <= p)
          BY <1>4, <4>1
        <5> HIDE DEF l, A
        <5>2. QED
          BY <3>1, <5>1
      <4>2. CASE k - 1 <= p
        <5>1. k - 1 = p /\ l - 1 = 0
          BY <1>4, <2>2, <4>2
        <5>2. g[k - 1] = A
          BY <3>1, <4>2, <5>1
        <5>3. Cat(A, h[0]) = A
          <6> HIDE DEF A
          <6>1. QED
            BY <1>6, <1>7, CatProperties
        <5> HIDE DEF g, l, A
        <5>4. QED
          BY <5>1, <5>2, <5>3
      <4>3. QED
        BY <1>4, <4>1, <4>2
    <3> HIDE DEF g, l, A
    <3>5. h[l] = Cat(h[l - 1], Q[l]) /\ h[l - 1] \in SUBSET Str /\ Q[l] \in SUBSET Str
      BY <1>4, <1>6, <3>1
    <3>6. Cat(Cat(A, h[l - 1]), Q[l]) = Cat(A, Cat(h[l - 1], Q[l]))
      BY <1>7, <3>5, CatProperties
    <3>7. QED
      BY <3>2, <3>3, <3>4, <3>5, <3>6
  <2>3. QED
    BY <1>4, <2>1, <2>2
<1>10. g[p + q] = Cat(A, h[q])
  <2>1. CASE q = 0
    <3>1. g[p + q] = f[p] /\ h[q] = {<<>>}
      BY <1>4, <1>6, <2>1
    <3> HIDE DEF A, g
    <3>2. Cat(A, {<<>>}) = A
      BY <1>7, CatProperties
    <3>3. QED
      BY <3>1, <3>2 DEF A
  <2>2. CASE q # 0
    <3>1. ~(p + q <= p) /\ (p + q) - p = q /\ p + q \in 0 .. p + q
      BY <1>4, <2>2
    <3> HIDE DEF A
    <3>2. QED
      BY <3>1
  <2>3. QED
    BY <2>1, <2>2
<1>11. Product(R) = g[p + q]
  <2> HIDE DEF g
  <2>1. QED
    BY <1>3, <1>8, <1>9, ProductIs
<1>12. QED
  BY <1>1, <1>2, <1>10, <1>11 DEF R

-----------------------------------------------------------------------------
(* Searching and cutting strings.                                          *)

\* Where Until() stops: at the first character of C, or behind the end.
LEMMA UntilIs ==
  ASSUME NEW s, Len(s) \in Nat, NEW p \in 1 .. Len(s) + 1, NEW C
  PROVE  /\ Until(s, p, C) \in p .. Len(s) + 1
         /\ Until(s, p, C) > Len(s) \/ s[Until(s, p, C)] \in C
         /\ \A j \in p .. Until(s, p, C) - 1 : s[j] \notin C
<1> DEFINE n == Len(s)
           S == {at \in p .. n + 1 : at > n \/ s[at] \in C}
<1>1. n \in Nat /\ p \in 1 .. n + 1
  OBVIOUS
<1> HIDE DEF n
<1>2. S \subseteq Nat /\ n + 1 \in S
  BY <1>1
<1>3. PICK u \in S : \A at \in S : u <= at
  <2> HIDE DEF S
  <2>1. QED
    BY <1>2, LeastNumber
<1>4. \A j \in p .. u - 1 : s[j] \notin C
  <2> SUFFICES ASSUME NEW j \in p .. u - 1, s[j] \in C PROVE FALSE
    OBVIOUS
  <2>1. u \in p .. n + 1 /\ j \in p .. n + 1 /\ ~(u <= j)
    BY <1>1
  <2>2. QED
    BY <1>3, <2>1
<1>5. u \in p .. n + 1 /\ (u > n \/ s[u] \in C)
  OBVIOUS
<1> DEFINE P(at) == (at > n \/ s[at] \in C) /\ \A j \in p .. at - 1 : s[j] \notin C
<1>6. Until(s, p, C) = CHOOSE at \in p .. n + 1 : P(at)
  BY DEF Until, n
<1>7. \E at \in p .. n + 1 : P(at)
  BY <1>4, <1>5
<1> HIDE DEF P
<1>8. Until(s, p, C) \in p .. n + 1 /\ P(Until(s, p, C))
  BY <1>6, <1>7
<1>9. QED
  BY <1>8 DEF P, n

\* It stops nowhere else.
LEMMA UntilUnique ==
  ASSUME NEW s, Len(s) \in Nat, NEW p \in 1 .. Len(s) + 1, NEW C, NEW u \in p .. Len(s) + 1,
         u > Len(s) \/ s[u] \in C, \A j \in p .. u - 1 : s[j] \notin C
  PROVE  Until(s, p, C) = u
<1> DEFINE v == Until(s, p, C)
<1>1. v \in p .. Len(s) + 1 /\ (v > Len(s) \/ s[v] \in C) /\ \A j \in p .. v - 1 : s[j] \notin C
  BY UntilIs
<1> HIDE DEF v
<1>2. ~(u < v)
  BY <1>1
<1>3. ~(v < u)
  BY <1>1
<1>4. v = u
  BY <1>1, <1>2, <1>3
<1>5. QED
  BY <1>4 DEF v

\* SkipOver() stays in the string or stops right behind it.
LEMMA SkipOverIs ==
  ASSUME NEW s, Len(s) \in Nat, NEW p \in 1 .. Len(s) + 1, NEW C
  PROVE  SkipOver(s, p, C) \in p .. Len(s) + 1
<1> DEFINE n == Len(s)
           S == {at \in p .. n + 1 : at > n \/ s[at] \notin C}
<1>1. n \in Nat /\ p \in 1 .. n + 1
  OBVIOUS
<1> HIDE DEF n
<1>2. S \subseteq Nat /\ n + 1 \in S
  BY <1>1
<1>3. PICK u \in S : \A at \in S : u <= at
  <2> HIDE DEF S
  <2>1. QED
    BY <1>2, LeastNumber
<1>4. \A j \in p .. u - 1 : s[j] \in C
  <2> SUFFICES ASSUME NEW j \in p .. u - 1, s[j] \notin C PROVE FALSE
    OBVIOUS
  <2>1. u \in p .. n + 1 /\ j \in p .. n + 1 /\ ~(u <= j)
    BY <1>1
  <2>2. QED
    BY <1>3, <2>1
<1>5. u \in p .. n + 1 /\ (u > n \/ s[u] \notin C)
  OBVIOUS
<1> DEFINE P(at) == (at > n \/ s[at] \notin C) /\ \A j \in p .. at - 1 : s[j] \in C
<1>6. SkipOver(s, p, C) = CHOOSE at \in p .. n + 1 : P(at)
  BY DEF SkipOver, n
<1>7. \E at \in p .. n + 1 : P(at)
  BY <1>4, <1>5
<1> HIDE DEF P
<1>8. SkipOver(s, p, C) \in p .. n + 1
  BY <1>6, <1>7
<1>9. QED
  BY <1>8 DEF n

\* The elements of a string, and of a part of it.
LEMMA Characters ==
  ASSUME NEW s \in Str
  PROVE  /\ Len(s) \in Nat /\ DOMAIN s = 1 .. Len(s)
         /\ \A k \in 1 .. Len(s) : s[k] \in Chars
  BY DEF Str

\* A part of a string.
LEMMA Part ==
  ASSUME NEW s \in Str, NEW m \in 1 .. Len(s) + 1, NEW n \in m - 1 .. Len(s)
  PROVE  /\ SubSeq(s, m, n) \in Str
         /\ Len(SubSeq(s, m, n)) = n - m + 1
         /\ \A at \in 1 .. n - m + 1 : SubSeq(s, m, n)[at] = s[m + at - 1]
<1>1. Len(s) \in Nat /\ \A k \in 1 .. Len(s) : s[k] \in Chars
  BY Characters
<1>2. m \in Int /\ n \in Int /\ n >= m - 1
  BY <1>1
<1>3. \A at \in m .. n : s[at] \in Chars
  BY <1>1
<1>4. /\ SubSeq(s, m, n) \in Seq(Chars)
      /\ Len(SubSeq(s, m, n)) = IF m <= n THEN n - m + 1 ELSE 0
      /\ \A at \in 1 .. n - m + 1 : SubSeq(s, m, n)[at] = s[m + at - 1]
  BY <1>2, <1>3, SubSeqProperties
<1>5. (IF m <= n THEN n - m + 1 ELSE 0) = n - m + 1
  BY <1>2
<1>6. QED
  BY <1>4, <1>5 DEF Str

\* Two parts that meet are one.
LEMMA Adjacent ==
  ASSUME NEW s \in Str, NEW m \in 1 .. Len(s) + 1, NEW k \in m - 1 .. Len(s), NEW n \in k .. Len(s)
  PROVE  SubSeq(s, m, n) = SubSeq(s, m, k) \o SubSeq(s, k + 1, n)
  BY ConcatAdjacentSubSeq DEF Str

\* Two strings joined.
LEMMA Both ==
  ASSUME NEW a \in Str, NEW b \in Str
  PROVE  /\ a \o b \in Str /\ Len(a \o b) = Len(a) + Len(b)
         /\ \A k \in 1 .. Len(a) : (a \o b)[k] = a[k]
         /\ \A k \in 1 .. Len(b) : (a \o b)[Len(a) + k] = b[k]
<1> DEFINE l == Len(a)
           m == Len(b)
           t == a \o b
<1>1. l \in Nat /\ m \in Nat
  BY Characters
<1>2. t \in Str /\ Len(t) = l + m /\ \A at \in 1 .. l + m : t[at] = IF at <= l THEN a[at] ELSE b[at - l]
  BY ConcatProperties DEF Str
<1> HIDE DEF l, m, t
<1>3. \A k \in 1 .. l : t[k] = a[k]
  BY <1>1, <1>2
<1>4. ASSUME NEW k \in 1 .. m PROVE t[l + k] = b[k]
  <2>1. l + k \in 1 .. l + m /\ ~(l + k <= l) /\ (l + k) - l = k
    BY <1>1
  <2>2. t[l + k] = b[(l + k) - l]
    BY <1>2, <2>1
  <2>3. QED
    BY <2>1, <2>2
<1>5. QED
  BY <1>2, <1>3, <1>4 DEF l, m, t

\* Strings are the same if their characters are.
LEMMA SameString ==
  ASSUME NEW s \in Str, NEW t \in Str, Len(s) = Len(t), \A k \in 1 .. Len(s) : s[k] = t[k]
  PROVE  s = t
  BY SeqEqual DEF Str

-----------------------------------------------------------------------------
(* Well-formed strings.                                                    *)

\* The rest of s from p on is well formed.
FormedFrom(s, p) ==
  \A k \in p .. Len(s) :
    /\ s[k] = "{" => \E b \in k + 1 .. Len(s) : Pair(s, k, b)
    /\ s[k] = "}" => \E a \in p .. k - 1 : Pair(s, a, k)

\* The same in a part of a string and in the string.
LEMMA PairShift ==
  ASSUME NEW s \in Str, NEW t \in Str, NEW d \in Nat, NEW n \in Nat, Len(t) >= n, Len(s) >= d + n,
         \A k \in 1 .. n : s[d + k] = t[k],
         NEW a \in 1 .. n, NEW b \in 1 .. n
  PROVE  Pair(t, a, b) <=> Pair(s, d + a, d + b)
<1> DEFINE x == d + a
           y == d + b
<1>1. Len(s) \in Nat /\ Len(t) \in Nat /\ x = d + a /\ y = d + b /\ x \in Nat /\ y \in Nat
  BY Characters
<1>2. s[x] = t[a] /\ s[y] = t[b]
  OBVIOUS
<1> HIDE DEF x, y
<1>3. ASSUME \A k \in a + 1 .. b - 1 : t[k] \notin Braces, NEW k \in x + 1 .. y - 1 PROVE s[k] \notin Braces
  <2> DEFINE j == k - d
  <2>1. j \in a + 1 .. b - 1 /\ j \in 1 .. n /\ d + j = k
    BY <1>1
  <2> HIDE DEF j
  <2>2. s[d + j] = t[j]
    BY <2>1
  <2>3. QED
    BY <1>3, <2>1, <2>2
<1>4. ASSUME \A k \in x + 1 .. y - 1 : s[k] \notin Braces, NEW k \in a + 1 .. b - 1 PROVE t[k] \notin Braces
  <2> DEFINE j == d + k
  <2>1. j \in x + 1 .. y - 1 /\ k \in 1 .. n
    BY <1>1
  <2>2. s[j] = t[k]
    BY <2>1
  <2> HIDE DEF j
  <2>3. QED
    BY <1>4, <2>1, <2>2
<1>5. Pair(t, a, b) <=> Pair(s, x, y)
  BY <1>2, <1>3, <1>4 DEF Pair
<1>6. QED
  BY <1>5 DEF x, y

\* A string is well formed on its own if it is as the end of another.
LEMMA FormedShift ==
  ASSUME NEW s \in Str, NEW t \in Str, NEW d \in Nat, Len(s) = d + Len(t),
         \A k \in 1 .. Len(t) : s[d + k] = t[k]
  PROVE  WellFormed(t) <=> FormedFrom(s, d + 1)
<1> DEFINE n == Len(t)
<1>1. n \in Nat /\ Len(t) >= n /\ Len(s) >= d + n /\ Len(s) = d + n /\ DOMAIN t = 1 .. n
  BY Characters
<1>2. \A k \in 1 .. n : s[d + k] = t[k]
  OBVIOUS
<1> HIDE DEF n
<1>3. ASSUME NEW a \in 1 .. n, NEW b \in 1 .. n PROVE Pair(t, a, b) <=> Pair(s, d + a, d + b)
  BY <1>1, <1>2, PairShift
<1>4. ASSUME WellFormed(t) PROVE FormedFrom(s, d + 1)
  <2> SUFFICES ASSUME NEW k \in d + 1 .. d + n
               PROVE  /\ s[k] = "{" => \E b \in k + 1 .. d + n : Pair(s, k, b)
                      /\ s[k] = "}" => \E a \in d + 1 .. k - 1 : Pair(s, a, k)
    BY <1>1 DEF FormedFrom
  <2> DEFINE j == k - d
  <2>1. j \in 1 .. n /\ d + j = k
    BY <1>1
  <2> HIDE DEF j
  <2>2. s[k] = t[j]
    BY <1>2, <2>1
  <2>3. ASSUME s[k] = "{" PROVE \E b \in k + 1 .. d + n : Pair(s, k, b)
    <3>1. PICK b \in j + 1 .. n : Pair(t, j, b)
      BY <1>1, <1>4, <2>1, <2>2, <2>3 DEF WellFormed, n
    <3>2. b \in 1 .. n /\ d + b \in k + 1 .. d + n
      BY <1>1, <2>1
    <3>3. Pair(s, k, d + b)
      BY <1>3, <2>1, <3>1, <3>2
    <3>4. QED
      BY <3>2, <3>3
  <2>4. ASSUME s[k] = "}" PROVE \E a \in d + 1 .. k - 1 : Pair(s, a, k)
    <3>1. PICK a \in 1 .. j - 1 : Pair(t, a, j)
      BY <1>1, <1>4, <2>1, <2>2, <2>4 DEF WellFormed
    <3>2. a \in 1 .. n /\ d + a \in d + 1 .. k - 1
      BY <1>1, <2>1
    <3>3. Pair(s, d + a, k)
      BY <1>3, <2>1, <3>1, <3>2
    <3>4. QED
      BY <3>2, <3>3
  <2>5. QED
    BY <2>3, <2>4
<1>5. ASSUME FormedFrom(s, d + 1) PROVE WellFormed(t)
  <2> SUFFICES ASSUME NEW j \in 1 .. n
               PROVE  /\ t[j] = "{" => \E b \in j + 1 .. n : Pair(t, j, b)
                      /\ t[j] = "}" => \E a \in 1 .. j - 1 : Pair(t, a, j)
    BY <1>1 DEF WellFormed, n
  <2> DEFINE k == d + j
  <2>1. k \in d + 1 .. d + n /\ k = d + j
    BY <1>1
  <2> HIDE DEF k
  <2>2. s[k] = t[j]
    BY <1>2, <2>1
  <2>3. ASSUME t[j] = "{" PROVE \E b \in j + 1 .. n : Pair(t, j, b)
    <3>1. PICK b \in k + 1 .. d + n : Pair(s, k, b)
      BY <1>1, <1>5, <2>1, <2>2, <2>3 DEF FormedFrom
    <3> DEFINE c == b - d
    <3>2. c \in 1 .. n /\ c \in j + 1 .. n /\ d + c = b
      BY <1>1, <2>1
    <3> HIDE DEF c
    <3>3. Pair(t, j, c)
      BY <1>3, <2>1, <3>1, <3>2
    <3>4. QED
      BY <3>2, <3>3
  <2>4. ASSUME t[j] = "}" PROVE \E a \in 1 .. j - 1 : Pair(t, a, j)
    <3>1. PICK a \in d + 1 .. k - 1 : Pair(s, a, k)
      BY <1>1, <1>5, <2>1, <2>2, <2>4 DEF FormedFrom
    <3> DEFINE c == a - d
    <3>2. c \in 1 .. n /\ c \in 1 .. j - 1 /\ d + c = a
      BY <1>1, <2>1
    <3> HIDE DEF c
    <3>3. Pair(t, c, j)
      BY <1>3, <2>1, <3>1, <3>2
    <3>4. QED
      BY <3>2, <3>3
  <2>5. QED
    BY <2>3, <2>4
<1>6. QED
  BY <1>4, <1>5

\* What begins with a well-formed string and goes on with another is one.
LEMMA FormedOfBoth ==
  ASSUME NEW a \in Str, NEW b \in Str, WellFormed(a), WellFormed(b)
  PROVE  WellFormed(a \o b)
<1> DEFINE l == Len(a)
           m == Len(b)
           t == a \o b
<1>1. l \in Nat /\ m \in Nat /\ DOMAIN a = 1 .. l
  BY Characters
<1>2. /\ t \in Str /\ Len(t) = l + m
      /\ \A k \in 1 .. l : t[k] = a[k]
      /\ \A k \in 1 .. m : t[l + k] = b[k]
  BY Both
<1>3. FormedFrom(t, l + 1)
  <2> HIDE DEF t, l
  <2>1. QED
    BY <1>1, <1>2, FormedShift
<1>4. DOMAIN t = 1 .. l + m
  <2> HIDE DEF t
  <2>1. QED
    BY <1>2, Characters
<1>5. ASSUME NEW x \in 1 .. l, NEW y \in 1 .. l, Pair(a, x, y) PROVE Pair(t, x, y)
  <2> HIDE DEF t, l
  <2>1. \A k \in x + 1 .. y - 1 : k \in 1 .. l
    BY <1>1
  <2>2. QED
    BY <1>2, <1>5, <2>1 DEF Pair
<1> HIDE DEF t, l, m
<1>6. ASSUME NEW k \in 1 .. l + m
      PROVE  /\ t[k] = "{" => \E y \in k + 1 .. l + m : Pair(t, k, y)
             /\ t[k] = "}" => \E x \in 1 .. k - 1 : Pair(t, x, k)
  <2>1. CASE k <= l
    <3>1. k \in 1 .. l /\ t[k] = a[k]
      BY <1>1, <1>2, <2>1
    <3>2. ASSUME t[k] = "{" PROVE \E y \in k + 1 .. l + m : Pair(t, k, y)
      <4>1. PICK y \in k + 1 .. l : Pair(a, k, y)
        BY <1>1, <3>1, <3>2 DEF WellFormed, l
      <4>2. y \in 1 .. l /\ y \in k + 1 .. l + m
        BY <1>1, <3>1
      <4>3. QED
        BY <1>5, <3>1, <4>1, <4>2
    <3>3. ASSUME t[k] = "}" PROVE \E x \in 1 .. k - 1 : Pair(t, x, k)
      <4>1. PICK x \in 1 .. k - 1 : Pair(a, x, k)
        BY <1>1, <3>1, <3>3 DEF WellFormed, l
      <4>2. x \in 1 .. l
        BY <1>1, <3>1
      <4>3. QED
        BY <1>5, <3>1, <4>1, <4>2
    <3>4. QED
      BY <3>2, <3>3
  <2>2. CASE k > l
    <3>1. k \in l + 1 .. l + m /\ \A x \in l + 1 .. k - 1 : x \in 1 .. k - 1
      BY <1>1, <2>2
    <3>2. QED
      BY <1>2, <1>3, <3>1 DEF FormedFrom
  <2>3. k <= l \/ k > l
    BY <1>1
  <2>4. QED
    BY <2>1, <2>2, <2>3, Zenon
<1>7. WellFormed(t)
  BY <1>2, <1>4, <1>6 DEF WellFormed
<1>8. QED
  BY <1>7 DEF t

-----------------------------------------------------------------------------
(* Filled texts.                                                           *)

OfStrings(E) == E \in [DOMAIN E -> SUBSET Str]

\* A name is a string.
LEMMA NameAtIsString ==
  ASSUME NEW s \in Str, NEW k \in 1 .. Len(s)
  PROVE  NameAt(s, k) \in Str
<1> DEFINE u == Until(s, k + 1, {"}"})
           p == k + 1
           l == u - 1
<1>1. Len(s) \in Nat
  BY Characters
<1>2. p \in 1 .. Len(s) + 1
  BY <1>1
<1>3. u \in p .. Len(s) + 1
  <2> HIDE DEF p
  <2>1. Until(s, p, {"}"}) \in p .. Len(s) + 1
    BY <1>1, <1>2, UntilIs
  <2>2. QED
    BY <2>1 DEF p
<1>4. l \in p - 1 .. Len(s)
  <2> HIDE DEF u
  <2>1. QED
    BY <1>1, <1>3
<1>5. NameAt(s, k) = SubSeq(s, p, l)
  BY DEF NameAt
<1> HIDE DEF u, p, l
<1>6. QED
  BY <1>2, <1>4, <1>5, Part

\* The string of one character.
LEMMA OneCharacter ==
  ASSUME NEW c \in Chars
  PROVE  <<c>> \in Str /\ Len(<<c>>) = 1 /\ <<c>>[1] = c
  BY DEF Str

\* A reference stands for a set of strings.
LEMMA MeaningIsSet ==
  ASSUME NEW how \in Modes, NEW E, OfStrings(E), NEW name \in Str
  PROVE  Meaning(how, E, name) \in SUBSET Str
<1>1. <<>> \in Str /\ <<"{">> \in Str /\ <<"}">> \in Str
  <2>1. <<>> \in Str
    BY Concatenation
  <2>2. "{" \in Chars /\ "}" \in Chars
    BY DEF Chars, Braces
  <2>3. QED
    BY <2>1, <2>2, OneCharacter
<1>2. <<"{">> \o name \o <<"}">> \in Str
  BY <1>1, Concatenation
<1>3. CASE name \in DOMAIN E
  BY <1>3 DEF Meaning, OfStrings
<1>4. CASE name \notin DOMAIN E /\ how # "keep"
  BY <1>1, <1>4 DEF Meaning
<1>5. CASE name \notin DOMAIN E /\ how = "keep"
  BY <1>2, <1>5 DEF Meaning
<1>6. QED
  BY <1>3, <1>4, <1>5

\* Each character adds a set of strings.
LEMMA PieceIsSet ==
  ASSUME NEW how \in Modes, NEW E, OfStrings(E), NEW s \in Str, NEW k \in 1 .. Len(s)
  PROVE  Piece(how, E, s, k) \in SUBSET Str
<1>1. s[k] \in Chars
  BY Characters
<1>2. <<s[k]>> \in Str /\ <<>> \in Str
  BY <1>1 DEF Str
<1>3. Meaning(how, E, NameAt(s, k)) \in SUBSET Str
  BY NameAtIsString, MeaningIsSet
<1>4. QED
  BY <1>2, <1>3 DEF Piece

Pieces(how, E, s) == [k \in DOMAIN s |-> Piece(how, E, s, k)]

\* A filled text is the product of its pieces, and a set of strings.
LEMMA PiecesAre ==
  ASSUME NEW how \in Modes, NEW E, OfStrings(E), NEW s \in Str
  PROVE  /\ Pieces(how, E, s) \in Collections /\ Len(Pieces(how, E, s)) = Len(s)
         /\ \A k \in 1 .. Len(s) : Pieces(how, E, s)[k] = Piece(how, E, s, k)
         /\ Filled(how, E, s) = Product(Pieces(how, E, s))
         /\ Filled(how, E, s) \in SUBSET Str
<1> DEFINE P == Pieces(how, E, s)
           n == Len(s)
<1>1. n \in Nat /\ DOMAIN s = 1 .. n
  BY Characters
<1> HIDE DEF n
<1>2. \A k \in 1 .. n : Piece(how, E, s, k) \in SUBSET Str
  BY PieceIsSet DEF n
<1>3. P = [k \in 1 .. n |-> Piece(how, E, s, k)]
  BY <1>1 DEF Pieces
<1>4. P \in Seq(SUBSET Str) /\ Len(P) = n /\ \A k \in 1 .. n : P[k] = Piece(how, E, s, k)
  <2> HIDE DEF P
  <2>1. QED
    BY <1>1, <1>2, <1>3
<1>5. Filled(how, E, s) = Product(P)
  BY DEF Filled, Pieces
<1> HIDE DEF P
<1>6. Product(P) \in SUBSET Str
  BY <1>4, ProductIsSet DEF Collections
<1>7. QED
  BY <1>4, <1>5, <1>6 DEF P, n, Collections

\* A piece of a string is the piece of a longer one that begins with it.
LEMMA PieceBefore ==
  ASSUME NEW s \in Str, NEW t \in Str, Len(t) <= Len(s), WellFormed(t),
         \A j \in 1 .. Len(t) : s[j] = t[j],
         NEW k \in 1 .. Len(t)
  PROVE  \A how, E : Piece(how, E, s, k) = Piece(how, E, t, k)
<1> DEFINE n == Len(t)
           m == Len(s)
<1>1. n \in Nat /\ m \in Nat /\ n <= m /\ k \in 1 .. n /\ DOMAIN t = 1 .. n
  BY Characters
<1>2. \A j \in 1 .. n : s[j] = t[j]
  OBVIOUS
<1>3. ASSUME t[k] = "{" PROVE NameAt(s, k) = NameAt(t, k)
  <2> DEFINE p == k + 1
             C == {"}"}
             u == Until(t, p, C)
             l == u - 1
  <2>1. PICK b \in p .. n : Pair(t, k, b)
    BY <1>1, <1>3 DEF WellFormed
  <2>2. t[b] \in C
    BY <2>1 DEF Pair
  <2>3. p \in 1 .. n + 1 /\ p \in 1 .. m + 1 /\ p = k + 1
    BY <1>1
  <2> HIDE DEF p, C
  <2>4. u \in p .. n + 1 /\ (u > n \/ t[u] \in C) /\ \A j \in p .. u - 1 : t[j] \notin C
    BY <1>1, <2>3, UntilIs
  <2> HIDE DEF u
  <2>5. u <= b
    BY <1>1, <2>1, <2>2, <2>3, <2>4
  <2>6. u \in p .. n /\ u \in p .. m + 1 /\ u \in 1 .. n /\ t[u] \in C
    BY <1>1, <2>3, <2>4, <2>5
  <2>7. s[u] \in C /\ \A j \in p .. u - 1 : s[j] \notin C
    <3>1. \A j \in p .. u - 1 : j \in 1 .. n
      BY <1>1, <2>3, <2>6
    <3>2. QED
      BY <1>2, <2>4, <2>6, <3>1
  <2>8. Until(s, p, C) = u
    BY <1>1, <2>3, <2>6, <2>7, UntilUnique
  <2>9. NameAt(s, k) = SubSeq(s, p, l) /\ NameAt(t, k) = SubSeq(t, p, l)
    BY <2>8 DEF NameAt, p, C, u
  <2>10. l \in p - 1 .. n /\ l \in p - 1 .. m /\ l - p + 1 \in Nat
    BY <1>1, <2>3, <2>6
  <2> HIDE DEF l
  <2>11. /\ SubSeq(s, p, l) \in Str /\ Len(SubSeq(s, p, l)) = l - p + 1
         /\ \A at \in 1 .. l - p + 1 : SubSeq(s, p, l)[at] = s[p + at - 1]
    BY <2>3, <2>10, Part
  <2>12. /\ SubSeq(t, p, l) \in Str /\ Len(SubSeq(t, p, l)) = l - p + 1
         /\ \A at \in 1 .. l - p + 1 : SubSeq(t, p, l)[at] = t[p + at - 1]
    BY <2>3, <2>10, Part
  <2>13. \A at \in 1 .. l - p + 1 : s[p + at - 1] = t[p + at - 1]
    <3>1. ASSUME NEW at \in 1 .. l - p + 1 PROVE p + at - 1 \in 1 .. n
      BY <1>1, <2>3, <2>10
    <3>2. QED
      BY <1>2, <3>1
  <2>14. SubSeq(s, p, l) = SubSeq(t, p, l)
    BY <2>11, <2>12, <2>13, SameString
  <2>15. QED
    BY <2>9, <2>14
<1>4. InReference(s, k) <=> InReference(t, k)
  <2>1. \A j \in 1 .. k - 1 : s[j] = t[j]
    BY <1>1, <1>2
  <2>2. \A a \in 1 .. k - 1 : \A j \in a + 1 .. k - 1 : j \in 1 .. k - 1
    BY <1>1
  <2>3. QED
    BY <2>1, <2>2 DEF InReference
<1>5. s[k] = t[k]
  BY <1>1, <1>2
<1>6. QED
  BY <1>3, <1>4, <1>5 DEF Piece

\* No reference is open behind the first d characters.
Closed(s, d) == \A x \in 1 .. d : s[x] = "{" => \E y \in x + 1 .. d : s[y] = "}"

\* s goes on with t behind d characters.
EndsWith(s, d, t) == Len(s) = d + Len(t) /\ \A j \in 1 .. Len(t) : s[d + j] = t[j]

\* And the piece of a longer one that ends with it, if no reference is open there.
LEMMA PieceBehind ==
  ASSUME NEW s \in Str, NEW t \in Str, NEW d \in Nat, EndsWith(s, d, t), Closed(s, d),
         NEW k \in 1 .. Len(t)
  PROVE  \A how, E : Piece(how, E, s, d + k) = Piece(how, E, t, k)
<1> DEFINE n == Len(t)
           m == Len(s)
           z == d + k
<1>1. n \in Nat /\ m = d + n /\ m \in Nat /\ k \in 1 .. n /\ z = d + k /\ z \in 1 .. m
  <2>1. n \in Nat /\ m \in Nat /\ m = d + n /\ k \in 1 .. n
    BY Characters DEF EndsWith
  <2> HIDE DEF n, m
  <2>2. QED
    BY <2>1
<1>2. \A j \in 1 .. n : s[d + j] = t[j]
  BY DEF EndsWith
<1>3. \A x \in 1 .. d : s[x] = "{" => \E y \in x + 1 .. d : s[y] = "}"
  BY DEF Closed
<1>4. s[z] = t[k]
  BY <1>1, <1>2
<1> HIDE DEF n, m, z
<1>5. NameAt(s, z) = NameAt(t, k)
  <2> DEFINE p == k + 1
             q == z + 1
             C == {"}"}
             u == Until(t, p, C)
             v == d + u
             l == u - 1
             h == v - 1
  <2>1. p \in 1 .. n + 1 /\ p = k + 1 /\ q \in 1 .. m + 1 /\ q = d + p
    BY <1>1
  <2> HIDE DEF p, q, C
  <2>2. u \in p .. n + 1 /\ (u > n \/ t[u] \in C) /\ \A j \in p .. u - 1 : t[j] \notin C
    BY <1>1, <2>1, UntilIs DEF n
  <2> HIDE DEF u
  <2>3. v \in q .. m + 1 /\ v = d + u
    BY <1>1, <2>1, <2>2
  <2> HIDE DEF v
  <2>4. v > m \/ s[v] \in C
    <3>1. CASE u > n
      BY <1>1, <2>2, <2>3, <3>1
    <3>2. CASE u <= n
      <4>1. u \in 1 .. n /\ t[u] \in C
        BY <1>1, <2>1, <2>2, <3>2
      <4>2. QED
        BY <1>2, <2>3, <4>1
    <3>3. QED
      BY <1>1, <2>2, <3>1, <3>2
  <2>5. ASSUME NEW j \in q .. v - 1 PROVE s[j] \notin C
    <3> DEFINE at == j - d
    <3>1. at \in p .. u - 1 /\ at \in 1 .. n /\ d + at = j
      BY <1>1, <2>1, <2>2, <2>3
    <3> HIDE DEF at
    <3>2. s[d + at] = t[at] /\ t[at] \notin C
      BY <1>2, <2>2, <3>1
    <3>3. QED
      BY <3>1, <3>2
  <2>6. Until(s, q, C) = v
    BY <1>1, <2>1, <2>3, <2>4, <2>5, UntilUnique DEF m
  <2>7. NameAt(s, z) = SubSeq(s, q, h) /\ NameAt(t, k) = SubSeq(t, p, l)
    BY <2>6 DEF NameAt, p, q, C, u
  <2>8. l \in p - 1 .. n /\ h \in q - 1 .. m /\ l - p + 1 \in Nat /\ h - q + 1 = l - p + 1
    BY <1>1, <2>1, <2>2, <2>3
  <2> HIDE DEF l, h
  <2>9. /\ SubSeq(s, q, h) \in Str /\ Len(SubSeq(s, q, h)) = h - q + 1
        /\ \A at \in 1 .. h - q + 1 : SubSeq(s, q, h)[at] = s[q + at - 1]
    BY <2>1, <2>8, Part DEF m
  <2>10. /\ SubSeq(t, p, l) \in Str /\ Len(SubSeq(t, p, l)) = l - p + 1
         /\ \A at \in 1 .. l - p + 1 : SubSeq(t, p, l)[at] = t[p + at - 1]
    BY <2>1, <2>8, Part DEF n
  <2>11. ASSUME NEW at \in 1 .. l - p + 1 PROVE s[q + at - 1] = t[p + at - 1]
    <3> DEFINE j == p + at - 1
    <3>1. j \in 1 .. n /\ q + at - 1 = d + j
      BY <1>1, <2>1, <2>8
    <3> HIDE DEF j
    <3>2. s[d + j] = t[j]
      BY <1>2, <3>1
    <3>3. QED
      BY <3>1, <3>2 DEF j
  <2>12. SubSeq(s, q, h) = SubSeq(t, p, l)
    <3> DEFINE S == SubSeq(s, q, h)
               T == SubSeq(t, p, l)
    <3> HIDE DEF S, T
    <3>1. S \in Str /\ T \in Str /\ Len(S) = Len(T) /\ Len(S) = l - p + 1
      BY <2>8, <2>9, <2>10 DEF S, T
    <3>2. \A at \in 1 .. l - p + 1 : S[at] = T[at]
      BY <2>8, <2>9, <2>10, <2>11 DEF S, T
    <3>3. S = T
      BY <3>1, <3>2, SameString
    <3>4. QED
      BY <3>3 DEF S, T
  <2>13. QED
    BY <2>7, <2>12
<1>6. ASSUME InReference(t, k) PROVE InReference(s, z)
  <2>1. PICK a \in 1 .. k - 1 : t[a] = "{" /\ \A j \in a + 1 .. k - 1 : t[j] # "}"
    BY <1>6 DEF InReference
  <2> DEFINE c == d + a
  <2>2. c \in 1 .. z - 1 /\ a \in 1 .. n /\ c = d + a
    BY <1>1
  <2> HIDE DEF c
  <2>3. s[c] = "{"
    BY <1>2, <2>1, <2>2
  <2>4. ASSUME NEW j \in c + 1 .. z - 1 PROVE s[j] # "}"
    <3> DEFINE at == j - d
    <3>1. at \in a + 1 .. k - 1 /\ at \in 1 .. n /\ d + at = j
      BY <1>1, <2>2
    <3> HIDE DEF at
    <3>2. s[d + at] = t[at] /\ t[at] # "}"
      BY <1>2, <2>1, <3>1
    <3>3. QED
      BY <3>1, <3>2
  <2>5. QED
    BY <2>2, <2>3, <2>4 DEF InReference
<1>7. ASSUME InReference(s, z) PROVE InReference(t, k)
  <2>1. PICK c \in 1 .. z - 1 : s[c] = "{" /\ \A j \in c + 1 .. z - 1 : s[j] # "}"
    BY <1>7 DEF InReference
  <2>2. ~(c <= d)
    <3> SUFFICES ASSUME c <= d PROVE FALSE
      OBVIOUS
    <3>1. c \in 1 .. d
      BY <1>1
    <3>2. PICK y \in c + 1 .. d : s[y] = "}"
      BY <1>3, <2>1, <3>1
    <3>3. y \in c + 1 .. z - 1
      BY <1>1, <3>1
    <3>4. QED
      BY <2>1, <3>2, <3>3
  <2> DEFINE a == c - d
  <2>3. a \in 1 .. k - 1 /\ a \in 1 .. n /\ d + a = c
    BY <1>1, <2>2
  <2> HIDE DEF a
  <2>4. t[a] = "{"
    <3>1. s[d + a] = t[a]
      BY <1>2, <2>3
    <3>2. QED
      BY <2>1, <2>3, <3>1
  <2>5. ASSUME NEW j \in a + 1 .. k - 1 PROVE t[j] # "}"
    <3> DEFINE at == d + j
    <3>1. at \in c + 1 .. z - 1 /\ j \in 1 .. n
      BY <1>1, <2>3
    <3>2. s[at] = t[j]
      BY <1>2, <3>1
    <3> HIDE DEF at
    <3>3. QED
      BY <2>1, <3>1, <3>2
  <2>6. QED
    BY <2>3, <2>4, <2>5 DEF InReference
<1>8. \A how, E : Piece(how, E, s, z) = Piece(how, E, t, k)
  BY <1>4, <1>5, <1>6, <1>7 DEF Piece
<1>9. QED
  BY <1>8 DEF z

-----------------------------------------------------------------------------
(* Texts put together of others.                                           *)

Opens(s, k) == s[k] = "{"
Shuts(s, k) == s[k] = "}"

\* A text is filled part by part.
LEMMA FilledOfBoth ==
  ASSUME NEW how \in Modes, NEW E, OfStrings(E), NEW a \in Str, NEW b \in Str, WellFormed(a)
  PROVE  Filled(how, E, a \o b) = Cat(Filled(how, E, a), Filled(how, E, b))
<1> DEFINE l == Len(a)
           m == Len(b)
           t == a \o b
           P == Pieces(how, E, a)
           Q == Pieces(how, E, b)
           R == Pieces(how, E, t)
           S == P \o Q
<1>1. l \in Nat /\ m \in Nat /\ DOMAIN a = 1 .. l
  BY Characters
<1>2. /\ t \in Str /\ Len(t) = l + m
      /\ \A k \in 1 .. l : t[k] = a[k]
      /\ \A k \in 1 .. m : t[l + k] = b[k]
  BY Both
<1>3. EndsWith(t, l, b)
  BY <1>2 DEF EndsWith
<1> HIDE DEF t
<1>4. Closed(t, l)
  <2> SUFFICES ASSUME NEW x \in 1 .. l, Opens(t, x) PROVE \E y \in x + 1 .. l : t[y] = "}"
    BY DEF Closed, Opens
  <2>1. a[x] = "{"
    BY <1>2 DEF Opens
  <2>2. PICK y \in x + 1 .. l : Pair(a, x, y)
    BY <1>1, <2>1 DEF WellFormed
  <2>3. a[y] = "}"
    BY <2>2 DEF Pair
  <2>4. y \in 1 .. l
    <3> HIDE DEF l
    <3>1. QED
      BY <1>1
  <2>5. QED
    BY <1>2, <2>3, <2>4
<1>5. ASSUME NEW k \in 1 .. l PROVE Piece(how, E, t, k) = Piece(how, E, a, k)
  <2>1. Len(a) <= Len(t)
    BY <1>1, <1>2
  <2>2. QED
    BY <1>2, <2>1, PieceBefore
<1>6. ASSUME NEW k \in 1 .. m PROVE Piece(how, E, t, l + k) = Piece(how, E, b, k)
  <2> HIDE DEF l
  <2>1. QED
    BY <1>1, <1>2, <1>3, <1>4, PieceBehind
<1>7. P \in Collections /\ Len(P) = l /\ (\A k \in 1 .. l : P[k] = Piece(how, E, a, k)) /\ Filled(how, E, a) = Product(P)
  BY PiecesAre
<1>8. Q \in Collections /\ Len(Q) = m /\ (\A k \in 1 .. m : Q[k] = Piece(how, E, b, k)) /\ Filled(how, E, b) = Product(Q)
  BY PiecesAre
<1>9. R \in Collections /\ Len(R) = l + m /\ (\A k \in 1 .. l + m : R[k] = Piece(how, E, t, k)) /\ Filled(how, E, t) = Product(R)
  <2>1. /\ R \in Collections /\ Len(R) = Len(t) /\ (\A k \in 1 .. Len(t) : R[k] = Piece(how, E, t, k))
        /\ Filled(how, E, t) = Product(R)
    BY <1>2, PiecesAre
  <2>2. QED
    BY <1>2, <2>1
<1> HIDE DEF P, Q, R, l, m
<1>10. S \in Collections /\ Len(S) = l + m /\ \A at \in 1 .. l + m : S[at] = IF at <= l THEN P[at] ELSE Q[at - l]
  <2>1. /\ S \in Seq(SUBSET Str) /\ Len(S) = Len(P) + Len(Q)
        /\ \A at \in 1 .. Len(P) + Len(Q) : S[at] = IF at <= Len(P) THEN P[at] ELSE Q[at - Len(P)]
    BY <1>7, <1>8, ConcatProperties DEF Collections
  <2>2. QED
    BY <1>7, <1>8, <2>1 DEF Collections
<1> HIDE DEF S
<1>11. ASSUME NEW at \in 1 .. l + m PROVE R[at] = S[at]
  <2>1. CASE at <= l
    <3>1. at \in 1 .. l
      BY <1>1, <2>1
    <3>2. QED
      BY <1>5, <1>7, <1>9, <1>10, <2>1, <3>1
  <2>2. CASE ~(at <= l)
    <3> DEFINE k == at - l
    <3>1. k \in 1 .. m /\ l + k = at
      BY <1>1, <2>2
    <3>2. S[at] = Q[k]
      BY <1>10, <2>2
    <3> HIDE DEF k
    <3>3. R[at] = Piece(how, E, t, l + k)
      BY <1>9, <3>1
    <3>4. QED
      BY <1>6, <1>8, <3>1, <3>2, <3>3
  <2>3. QED
    BY <2>1, <2>2
<1>12. R = S
  BY <1>9, <1>10, <1>11, SeqEqual DEF Collections
<1>13. Product(S) = Cat(Product(P), Product(Q))
  BY <1>7, <1>8, ProductOfBoth DEF S
<1>14. QED
  BY <1>7, <1>8, <1>9, <1>12, <1>13 DEF t

\* No references.
Plain(s) == \A k \in 1 .. Len(s) : s[k] \notin Braces

\* A string without braces is well formed.
LEMMA PlainIsFormed == ASSUME NEW s \in Str, Plain(s) PROVE WellFormed(s)
<1>1. DOMAIN s = 1 .. Len(s)
  BY Characters
<1>2. QED
  BY <1>1 DEF Plain, WellFormed, Braces

\* Strings put together one by one.
LEMMA CatOfOne == ASSUME NEW x, NEW y PROVE Cat({x}, {y}) = {x \o y}
  BY DEF Cat

\* A string without braces is filled as it is.
LEMMA FilledPlain ==
  ASSUME NEW how \in Modes, NEW E, OfStrings(E), NEW s \in Str, Plain(s)
  PROVE  Filled(how, E, s) = {s}
<1> DEFINE n == Len(s)
           P == Pieces(how, E, s)
           g == [k \in 0 .. n |-> {SubSeq(s, 1, k)}]
<1>1. n \in Nat /\ \A k \in 1 .. n : ~Opens(s, k)
  BY Characters DEF Plain, Braces, Opens
<1>2. P \in Collections /\ Len(P) = n /\ (\A k \in 1 .. n : P[k] = Piece(how, E, s, k)) /\ Filled(how, E, s) = Product(P)
  BY PiecesAre
<1> HIDE DEF P, n
<1>3. ASSUME NEW k \in 1 .. n PROVE P[k] = {<<s[k]>>}
  <2>1. ~InReference(s, k)
    <3>1. \A a \in 1 .. k - 1 : a \in 1 .. n
      BY <1>1
    <3>2. QED
      BY <1>1, <3>1 DEF InReference, Opens
  <2>2. QED
    BY <1>1, <1>2, <2>1 DEF Piece, Opens
<1>4. SubSeq(s, 1, 0) = <<>>
  BY SubSeqEmpty
<1>5. SubSeq(s, 1, n) = s
  BY SubSeqFull DEF Str, n
<1>6. ASSUME NEW k \in 1 .. n PROVE g[k] = Cat(g[k - 1], P[k])
  <2>1. SubSeq(s, 1, k) = SubSeq(s, 1, k - 1) \o <<s[k]>>
    <3>1. 1 \in 1 .. n /\ k \in 1 .. n
      BY <1>1
    <3>2. QED
      BY <3>1, SubSeqRecursiveSecond DEF Str, n
  <2>2. k - 1 \in 0 .. n /\ k \in 0 .. n
    BY <1>1
  <2>3. g[k - 1] = {SubSeq(s, 1, k - 1)} /\ g[k] = {SubSeq(s, 1, k)}
    BY <2>2
  <2> HIDE DEF g
  <2>4. Cat({SubSeq(s, 1, k - 1)}, {<<s[k]>>}) = {SubSeq(s, 1, k - 1) \o <<s[k]>>}
    BY CatOfOne
  <2>5. QED
    BY <1>3, <2>1, <2>3, <2>4
<1>7. g[0] = {<<>>} /\ g[n] = {s}
  <2>1. 0 \in 0 .. n /\ n \in 0 .. n
    BY <1>1
  <2>2. g[0] = {SubSeq(s, 1, 0)} /\ g[n] = {SubSeq(s, 1, n)}
    BY <2>1
  <2>3. QED
    BY <1>4, <1>5, <2>2
<1> HIDE DEF g
<1>8. Product(P) = g[n]
  BY <1>2, <1>6, <1>7, ProductIs
<1>9. QED
  BY <1>2, <1>7, <1>8

Braced(name) == <<"{">> \o name \o <<"}">>

\* A name between braces.
LEMMA BracedIs ==
  ASSUME NEW name \in Str
  PROVE  /\ Braced(name) \in Str /\ Len(Braced(name)) = Len(name) + 2
         /\ Braced(name)[1] = "{" /\ Braced(name)[Len(name) + 2] = "}"
         /\ \A k \in 1 .. Len(name) : Braced(name)[1 + k] = name[k]
<1> DEFINE l == <<"{">>
           r == <<"}">>
           n == Len(name)
           t == l \o name
           u == t \o r
<1>1. "{" \in Chars /\ "}" \in Chars
  BY DEF Chars, Braces
<1>2. l \in Str /\ Len(l) = 1 /\ Opens(l, 1) /\ r \in Str /\ Len(r) = 1 /\ Shuts(r, 1)
  BY <1>1, OneCharacter DEF Opens, Shuts
<1>3. n \in Nat
  BY Characters
<1> HIDE DEF l, r
<1>4. t \in Str /\ Len(t) = Len(l) + n /\ (\A k \in 1 .. Len(l) : t[k] = l[k]) /\ \A k \in 1 .. n : t[Len(l) + k] = name[k]
  BY <1>2, Both
<1> HIDE DEF t
<1> HIDE DEF n
<1>5. t \in Str /\ Len(t) = 1 + n /\ Opens(t, 1) /\ \A k \in 1 .. n : t[1 + k] = name[k]
  <2>1. t[1] = l[1]
    BY <1>2, <1>4
  <2>2. \A k \in 1 .. n : t[1 + k] = name[k]
    BY <1>2, <1>4
  <2>3. QED
    BY <1>2, <1>4, <2>1, <2>2 DEF Opens
<1>6. u \in Str /\ Len(u) = Len(t) + Len(r) /\ (\A k \in 1 .. Len(t) : u[k] = t[k]) /\ \A k \in 1 .. Len(r) : u[Len(t) + k] = r[k]
  BY <1>2, <1>5, Both
<1> HIDE DEF u
<1>7. Len(u) = n + 2
  BY <1>2, <1>3, <1>5, <1>6
<1>8. Opens(u, 1)
  <2>1. 1 \in 1 .. Len(t)
    BY <1>3, <1>5
  <2>2. QED
    BY <1>5, <1>6, <2>1 DEF Opens
<1>9. Shuts(u, n + 2)
  <2>1. 1 \in 1 .. Len(r) /\ Len(t) + 1 = n + 2
    BY <1>2, <1>3, <1>5
  <2>2. QED
    BY <1>2, <1>6, <2>1 DEF Shuts
<1>10. ASSUME NEW k \in 1 .. n PROVE u[1 + k] = name[k]
  <2>1. 1 + k \in 1 .. Len(t)
    BY <1>3, <1>5
  <2>2. QED
    BY <1>5, <1>6, <2>1
<1>11. QED
  BY <1>6, <1>7, <1>8, <1>9, <1>10 DEF u, t, l, r, n, Braced, Opens, Shuts

\* A reference alone.
LEMMA FilledReference ==
  ASSUME NEW how \in Modes, NEW E, OfStrings(E), NEW name \in Str, Plain(name)
  PROVE  WellFormed(Braced(name)) /\ Filled(how, E, Braced(name)) = Meaning(how, E, name)
<1> DEFINE n == Len(name)
           m == n + 2
           s == Braced(name)
           M == Meaning(how, E, name)
           P == Pieces(how, E, s)
           g == [k \in 0 .. m |-> IF k = 0 THEN {<<>>} ELSE M]
<1>1. n \in Nat /\ m = n + 2 /\ m \in Nat
  BY Characters
<1>2. /\ s \in Str /\ Len(s) = m /\ Opens(s, 1) /\ Shuts(s, m)
      /\ \A k \in 1 .. n : s[1 + k] = name[k]
  BY BracedIs DEF Opens, Shuts
<1> HIDE DEF m, s
<1>3. ASSUME NEW k \in 2 .. m - 1 PROVE s[k] \notin Braces
  <2> DEFINE j == k - 1
  <2>1. j \in 1 .. n /\ 1 + j = k
    BY <1>1
  <2> HIDE DEF j
  <2>2. s[1 + j] = name[j]
    BY <1>2, <2>1
  <2>3. QED
    BY <2>1, <2>2 DEF Plain
<1>4. Pair(s, 1, m)
  <2>1. \A k \in 1 + 1 .. m - 1 : s[k] \notin Braces
    BY <1>3
  <2>2. QED
    BY <1>2, <2>1 DEF Pair, Opens, Shuts
<1>5. WellFormed(s)
  <2> SUFFICES ASSUME NEW k \in 1 .. m
               PROVE  /\ s[k] = "{" => \E b \in k + 1 .. m : Pair(s, k, b)
                      /\ s[k] = "}" => \E a \in 1 .. k - 1 : Pair(s, a, k)
    BY <1>2, Characters DEF WellFormed
  <2>1. CASE k = 1
    <3>1. m \in k + 1 .. m
      BY <1>1, <2>1
    <3>2. s[k] # "}"
      BY <1>2, <2>1 DEF Opens
    <3>3. QED
      BY <1>4, <2>1, <3>1, <3>2
  <2>2. CASE k = m
    <3>1. 1 \in 1 .. k - 1
      BY <1>1, <2>2
    <3>2. s[k] # "{"
      BY <1>2, <2>2 DEF Shuts
    <3>3. QED
      BY <1>4, <2>2, <3>1, <3>2
  <2>3. CASE k # 1 /\ k # m
    <3>1. k \in 2 .. m - 1
      BY <1>1, <2>3
    <3>2. QED
      BY <1>3, <3>1 DEF Braces
  <2>4. QED
    BY <2>1, <2>2, <2>3
<1>6. NameAt(s, 1) = name
  <2> DEFINE C == {"}"}
             two == 1 + 1
             t == SubSeq(s, two, m - 1)
  <2>1. Len(s) \in Nat /\ two = 2 /\ two \in 1 .. Len(s) + 1 /\ m \in two .. Len(s) + 1
    BY <1>1, <1>2
  <2>2. s[m] \in C
    BY <1>2 DEF Shuts
  <2> HIDE DEF two
  <2>3. ASSUME NEW j \in two .. m - 1 PROVE s[j] \notin C
    <3>1. s[j] \notin Braces
      BY <1>3, <2>1
    <3>2. QED
      BY <3>1 DEF Braces
  <2> HIDE DEF C
  <2>4. Until(s, two, C) = m
    BY <2>1, <2>2, <2>3, UntilUnique
  <2>11. NameAt(s, 1) = t
    BY <2>4 DEF NameAt, C, two
  <2>6. t \in Str /\ Len(t) = n /\ \A at \in 1 .. n : t[at] = s[two + at - 1]
    <3> DEFINE h == m - 1
    <3>1. h \in two - 1 .. Len(s) /\ h - two + 1 = n
      BY <1>1, <1>2, <2>1
    <3> HIDE DEF h
    <3>2. /\ SubSeq(s, two, h) \in Str /\ Len(SubSeq(s, two, h)) = h - two + 1
          /\ \A at \in 1 .. h - two + 1 : SubSeq(s, two, h)[at] = s[two + at - 1]
      BY <1>2, <2>1, <3>1, Part
    <3>3. QED
      BY <3>1, <3>2 DEF h
  <2> HIDE DEF t
  <2>7. \A at \in 1 .. n : two + at - 1 = 1 + at
    BY <2>1
  <2>8. \A at \in 1 .. n : t[at] = name[at]
    BY <1>2, <2>6, <2>7
  <2>9. t = name
    BY <2>6, <2>8, SameString
  <2>10. QED
    BY <2>11, <2>9
<1>7. P \in Collections /\ Len(P) = m /\ (\A k \in 1 .. m : P[k] = Piece(how, E, s, k)) /\ Filled(how, E, s) = Product(P)
  <2>1. /\ P \in Collections /\ Len(P) = Len(s) /\ (\A k \in 1 .. Len(s) : P[k] = Piece(how, E, s, k))
        /\ Filled(how, E, s) = Product(P)
    BY <1>2, PiecesAre
  <2>2. QED
    BY <1>2, <2>1
<1>8. M \in SUBSET Str
  BY MeaningIsSet
<1> HIDE DEF P, M
<1>9. P[1] = M
  <2>1. P[1] = Piece(how, E, s, 1)
    BY <1>1, <1>7
  <2>2. QED
    BY <1>2, <1>6, <2>1 DEF Piece, M, Opens
<1>10. ASSUME NEW k \in 2 .. m PROVE P[k] = {<<>>}
  <2>1. s[k] # "{"
    <3>1. k = m \/ k \in 2 .. m - 1
      BY <1>1
    <3>2. QED
      BY <1>2, <1>3, <3>1 DEF Braces, Shuts
  <2>2. InReference(s, k)
    <3>1. 1 \in 1 .. k - 1 /\ \A j \in 1 + 1 .. k - 1 : j \in 2 .. m - 1
      BY <1>1
    <3>2. \A j \in 1 + 1 .. k - 1 : s[j] # "}"
      BY <1>3, <3>1 DEF Braces
    <3>3. QED
      BY <1>2, <3>1, <3>2 DEF InReference, Opens
  <2>3. k \in 1 .. m
    BY <1>1
  <2>4. QED
    BY <1>7, <2>1, <2>2, <2>3 DEF Piece
<1>11. ASSUME NEW k \in 1 .. m PROVE g[k] = Cat(g[k - 1], P[k])
  <2>1. CASE k = 1
    <3>1. g[k] = M /\ g[k - 1] = {<<>>}
      BY <1>1, <2>1
    <3> HIDE DEF g
    <3>2. QED
      BY <1>8, <1>9, <2>1, <3>1, CatProperties
  <2>2. CASE k # 1
    <3>1. k \in 2 .. m /\ k - 1 \in 0 .. m /\ k \in 0 .. m /\ k - 1 # 0 /\ k # 0
      BY <1>1, <2>2
    <3>2. g[k] = M /\ g[k - 1] = M
      BY <3>1
    <3> HIDE DEF g
    <3>3. QED
      BY <1>8, <1>10, <3>1, <3>2, CatProperties
  <2>3. QED
    BY <2>1, <2>2
<1>12. g[0] = {<<>>} /\ g[m] = M
  BY <1>1
<1> HIDE DEF g
<1>13. Product(P) = g[m]
  BY <1>7, <1>11, <1>12, ProductIs
<1>14. QED
  BY <1>5, <1>7, <1>12, <1>13 DEF s, M

-----------------------------------------------------------------------------
(* References.                                                             *)

Bare(s, k) == s[k] \notin Braces

\* ref is the first reference of s from p on; what is behind it is well formed.
Found(s, p, ref) ==
  /\ ref.start \in p .. Len(s) /\ ref.end \in ref.start + 1 .. Len(s)
  /\ ref.start # 0 /\ Pair(s, ref.start, ref.end)
  /\ \A k \in p .. ref.start - 1 : Bare(s, k)
  /\ ref.name = SubSeq(s, ref.start + 1, ref.end - 1)
  /\ FormedFrom(s, ref.end + 1)

\* The first reference of a well-formed rest, or none.
LEMMA ReferenceIs ==
  ASSUME NEW s \in Str, NEW p \in 1 .. Len(s) + 1, FormedFrom(s, p)
  PROVE  LET ref == Reference(s, p)
         IN  \/ ref.start = 0 /\ \A k \in p .. Len(s) : Bare(s, k)
             \/ Found(s, p, ref)
<1> DEFINE n == Len(s)
           L == {"{"}
           R == {"}"}
           o == Until(s, p, L)
           q == o + 1
           c == Until(s, q, R)
           ref == Reference(s, p)
<1>1. n \in Nat /\ p \in 1 .. n + 1
  BY Characters
<1>2. o \in p .. n + 1 /\ (o > n \/ s[o] \in L) /\ \A j \in p .. o - 1 : s[j] \notin L
  <2> HIDE DEF L
  <2>1. QED
    BY <1>1, UntilIs
<1>3. ASSUME NEW k \in p .. n, s[k] \in L PROVE \E b \in k + 1 .. n : Pair(s, k, b)
  BY <1>3 DEF FormedFrom
<1>4. ASSUME NEW k \in p .. n, s[k] \in R PROVE \E a \in p .. k - 1 : Pair(s, a, k)
  BY <1>4 DEF FormedFrom
<1>5. \A a, b : Pair(s, a, b) => s[a] \in L /\ s[b] \in R /\ \A k \in a + 1 .. b - 1 : Bare(s, k)
  BY DEF Pair, Bare
<1>6. \A k : Bare(s, k) <=> s[k] \notin L /\ s[k] \notin R
  BY DEF Bare, Braces
<1>7. ref = IF (IF o > n THEN o ELSE c) > n THEN [start |-> 0, end |-> 0, name |-> <<>>]
            ELSE [start |-> o, end |-> (IF o > n THEN o ELSE c),
                  name |-> SubSeq(s, o + 1, (IF o > n THEN o ELSE c) - 1)]
  BY DEF Reference
<1> HIDE DEF n, L, R, o, c, ref
<1>8. ASSUME NEW j \in p .. o - 1, j <= n PROVE Bare(s, j)
  <2>1. j \in p .. n /\ s[j] \notin L
    BY <1>1, <1>2, <1>8
  <2>2. ASSUME s[j] \in R PROVE FALSE
    <3>1. PICK a \in p .. j - 1 : Pair(s, a, j)
      BY <1>4, <2>1, <2>2
    <3>2. a \in p .. o - 1
      BY <1>1, <1>2
    <3>3. s[a] \in L
      BY <1>5, <3>1
    <3>4. QED
      BY <1>2, <3>2, <3>3
  <2>3. QED
    BY <1>6, <2>1, <2>2
<1>9. CASE o > n
  <2>1. ref.start = 0
    BY <1>7, <1>9
  <2>2. \A k \in p .. n : Bare(s, k)
    BY <1>1, <1>2, <1>8, <1>9
  <2>3. QED
    BY <2>1, <2>2 DEF ref, n
<1>10. CASE o <= n
  <2>1. o \in p .. n /\ o \in Nat /\ ~(o > n) /\ q \in 1 .. n + 1 /\ q = o + 1 /\ s[o] \in L
    BY <1>1, <1>2, <1>10
  <2>2. PICK b \in q .. n : Pair(s, o, b)
    BY <1>3, <2>1
  <2>3. c \in q .. n + 1 /\ (c > n \/ s[c] \in R) /\ \A j \in q .. c - 1 : s[j] \notin R
    <3> HIDE DEF q
    <3>1. QED
      BY <1>1, <2>1, UntilIs DEF c, n
  <2>4. s[b] \in R /\ \A k \in q .. b - 1 : Bare(s, k)
    BY <1>5, <2>2
  <2> HIDE DEF q
  <2>5. ~(b < c)
    <3> SUFFICES ASSUME b < c PROVE FALSE
      OBVIOUS
    <3>1. b \in q .. c - 1
      BY <1>1, <2>1, <2>3
    <3>2. QED
      BY <2>3, <2>4, <3>1
  <2>6. ~(c < b)
    <3> SUFFICES ASSUME c < b PROVE FALSE
      OBVIOUS
    <3>1. c \in q .. b - 1 /\ c <= n
      BY <1>1, <2>1, <2>3
    <3>2. s[c] \in R /\ Bare(s, c)
      BY <1>1, <2>3, <2>4, <3>1
    <3>3. QED
      BY <1>6, <3>2
  <2>7. c = b /\ ~(c > n)
    BY <1>1, <2>1, <2>3, <2>5, <2>6
  <2>8. ref = [start |-> o, end |-> b, name |-> SubSeq(s, o + 1, b - 1)]
    BY <1>7, <2>1, <2>7
  <2>9. ref.start = o /\ ref.end = b /\ ref.name = SubSeq(s, o + 1, b - 1)
    BY <2>8
  <2>10. \A k \in p .. o - 1 : Bare(s, k)
    BY <1>1, <1>8, <2>1
  <2> DEFINE e == b + 1
  <2>11. e \in 1 .. n + 1 /\ e = b + 1 /\ \A k \in e .. n : k \in p .. n
    BY <1>1, <2>1
  <2>12. ASSUME NEW k \in e .. n, s[k] \in L PROVE \E d \in k + 1 .. n : Pair(s, k, d)
    BY <1>3, <2>11, <2>12
  <2>13. ASSUME NEW k \in e .. n, s[k] \in R PROVE \E a \in e .. k - 1 : Pair(s, a, k)
    <3>1. k \in p .. n
      BY <2>11
    <3>2. PICK a \in p .. k - 1 : Pair(s, a, k)
      BY <1>4, <2>13, <3>1
    <3>3. s[a] \in L /\ \A j \in a + 1 .. k - 1 : Bare(s, j)
      BY <1>5, <3>2
    <3>4. ~(a < o)
      <4> SUFFICES ASSUME a < o PROVE FALSE
        OBVIOUS
      <4>1. a \in p .. o - 1
        BY <1>1, <2>1, <2>11
      <4>2. QED
        BY <1>2, <3>3, <4>1
    <3>5. a # o
      <4> SUFFICES ASSUME a = o PROVE FALSE
        OBVIOUS
      <4>1. b \in a + 1 .. k - 1
        BY <1>1, <2>1, <2>11
      <4>2. QED
        BY <1>6, <2>4, <3>3, <4>1
    <3>6. ~(a \in q .. b - 1)
      BY <1>6, <2>4, <3>3
    <3>7. a # b
      <4> SUFFICES ASSUME a = b PROVE FALSE
        OBVIOUS
      <4>1. s[b] \in L /\ s[b] \in R
        BY <2>4, <3>3
      <4>2. QED
        BY <4>1 DEF L, R
    <3>8. a \in e .. k - 1
      BY <1>1, <2>1, <2>11, <3>4, <3>5, <3>6, <3>7
    <3>9. QED
      BY <3>2, <3>8
  <2> HIDE DEF e
  <2>14. FormedFrom(s, e)
    BY <2>12, <2>13 DEF FormedFrom, L, R, n
  <2>15. /\ ref.start \in p .. n /\ ref.end \in ref.start + 1 .. n
         /\ ref.start # 0 /\ Pair(s, ref.start, ref.end)
         /\ \A k \in p .. ref.start - 1 : Bare(s, k)
         /\ FormedFrom(s, ref.end + 1)
    <3>1. b \in o + 1 .. n /\ o # 0
      BY <1>1, <2>1
    <3>2. QED
      BY <2>1, <2>2, <2>9, <2>10, <2>11, <2>14, <3>1
  <2>16. QED
    BY <2>9, <2>15 DEF ref, n, Found
<1>11. QED
  BY <1>1, <1>2, <1>9, <1>10

\* What is in front of the reference, and what is behind it.
Lead(s, p, ref) == SubSeq(s, p, ref.start - 1)
Rest(s, ref) == From(s, ref.end + 1)

\* How a reference that is found cuts the string.
LEMMA RestIsCut ==
  ASSUME NEW s \in Str, NEW p \in 1 .. Len(s) + 1, NEW ref, Found(s, p, ref)
  PROVE  /\ Lead(s, p, ref) \in Str /\ Plain(Lead(s, p, ref))
         /\ ref.name \in Str /\ Plain(ref.name)
         /\ Rest(s, ref) \in Str /\ WellFormed(Rest(s, ref))
         /\ From(s, p) = Lead(s, p, ref) \o (Braced(ref.name) \o Rest(s, ref))
         /\ SubSeq(s, 1, p - 1) \in Str
         /\ SubSeq(s, 1, ref.start - 1) = SubSeq(s, 1, p - 1) \o Lead(s, p, ref)
         /\ SubSeq(s, 1, ref.end) = SubSeq(s, 1, ref.start - 1) \o Braced(ref.name)
<1> DEFINE n == Len(s)
           o == ref.start
           e == ref.end
           h == o - 1
           at == o + 1
           j == e - 1
           e1 == e + 1
           p0 == p - 1
           c == SubSeq(s, p, h)
           name == SubSeq(s, at, j)
           d == SubSeq(s, e1, n)
           r == SubSeq(s, o, e)
<1>1. n \in Nat /\ p \in 1 .. n + 1
  BY Characters
<1>2. /\ o \in p .. n /\ e \in o + 1 .. n /\ Pair(s, o, e)
      /\ (\A k \in p .. h : Bare(s, k)) /\ FormedFrom(s, e + 1)
      /\ ref.name = name
  BY DEF Found
<1> HIDE DEF n, o, e
<1>3. /\ h = o - 1 /\ at = o + 1 /\ j = e - 1 /\ e1 = e + 1 /\ p0 = p - 1
      /\ h \in p - 1 .. n /\ at \in 1 .. n + 1 /\ j \in at - 1 .. n
      /\ o \in 1 .. n + 1 /\ e \in o - 1 .. n /\ e1 \in 1 .. n + 1 /\ n \in e1 - 1 .. n
      /\ p0 \in 1 - 1 .. n /\ 1 \in 1 .. n + 1
  BY <1>1, <1>2
<1> HIDE DEF h, at, j, e1, p0
<1>4. c \in Str /\ Len(c) = h - p + 1 /\ \A k \in 1 .. h - p + 1 : c[k] = s[p + k - 1]
  BY <1>1, <1>3, Part DEF n
<1>5. name \in Str /\ Len(name) = j - at + 1 /\ \A k \in 1 .. j - at + 1 : name[k] = s[at + k - 1]
  BY <1>3, Part DEF n
<1>6. d \in Str /\ Len(d) = n - e1 + 1 /\ \A k \in 1 .. n - e1 + 1 : d[k] = s[e1 + k - 1]
  BY <1>3, Part DEF n
<1>7. r \in Str /\ Len(r) = e - o + 1 /\ \A k \in 1 .. e - o + 1 : r[k] = s[o + k - 1]
  BY <1>3, Part DEF n
<1>8. SubSeq(s, 1, p0) \in Str
  BY <1>3, Part DEF n
<1>9. Opens(s, o) /\ Shuts(s, e) /\ \A k \in at .. j : Bare(s, k)
  BY <1>2 DEF Pair, Opens, Shuts, Bare, at, j
<1>10. From(s, p) = c \o SubSeq(s, o, n)
  <2>1. h \in p - 1 .. n /\ n \in h .. n /\ h + 1 = o
    BY <1>1, <1>2, <1>3
  <2>2. SubSeq(s, p, n) = SubSeq(s, p, h) \o SubSeq(s, h + 1, n)
    BY <1>1, <2>1, Adjacent DEF n
  <2>3. QED
    BY <2>1, <2>2 DEF From, n
<1>11. SubSeq(s, o, n) = r \o d
  <2>1. n \in e .. n /\ e + 1 = e1
    BY <1>1, <1>2, <1>3
  <2>2. SubSeq(s, o, n) = SubSeq(s, o, e) \o SubSeq(s, e + 1, n)
    BY <1>3, <2>1, Adjacent DEF n
  <2>3. QED
    BY <2>1, <2>2
<1>12. SubSeq(s, 1, h) = SubSeq(s, 1, p0) \o c
  <2>1. h \in p0 .. n /\ p0 + 1 = p
    BY <1>1, <1>2, <1>3
  <2>2. SubSeq(s, 1, h) = SubSeq(s, 1, p0) \o SubSeq(s, p0 + 1, h)
    BY <1>3, <2>1, Adjacent DEF n
  <2>3. QED
    BY <2>1, <2>2
<1>13. SubSeq(s, 1, e) = SubSeq(s, 1, h) \o r
  <2>1. h \in 1 - 1 .. n /\ e \in h .. n /\ h + 1 = o
    BY <1>1, <1>2, <1>3
  <2>2. SubSeq(s, 1, e) = SubSeq(s, 1, h) \o SubSeq(s, h + 1, e)
    BY <1>3, <2>1, Adjacent DEF n
  <2>3. QED
    BY <2>1, <2>2
<1> HIDE DEF c, name, d, r
<1>14. Plain(c)
  <2> SUFFICES ASSUME NEW k \in 1 .. Len(c) PROVE Bare(c, k)
    BY DEF Plain, Bare
  <2>1. k \in 1 .. h - p + 1 /\ p + k - 1 \in p .. h
    BY <1>1, <1>2, <1>3, <1>4
  <2>2. QED
    BY <1>2, <1>4, <2>1 DEF Bare
<1>15. Plain(name)
  <2> SUFFICES ASSUME NEW k \in 1 .. Len(name) PROVE Bare(name, k)
    BY DEF Plain, Bare
  <2>1. k \in 1 .. j - at + 1 /\ at + k - 1 \in at .. j
    BY <1>1, <1>2, <1>3, <1>5
  <2>2. QED
    BY <1>5, <1>9, <2>1 DEF Bare
<1>16. r = Braced(name)
  <2> DEFINE m == Len(name)
             b == Braced(name)
  <2>1. /\ b \in Str /\ Len(b) = m + 2 /\ Opens(b, 1) /\ Shuts(b, m + 2)
        /\ \A k \in 1 .. m : b[1 + k] = name[k]
    BY <1>5, BracedIs DEF Opens, Shuts
  <2>2. m \in Nat /\ m + 2 = e - o + 1 /\ m = j - at + 1
    <3>1. m = j - at + 1
      BY <1>5
    <3> HIDE DEF m, b
    <3>2. QED
      BY <1>1, <1>2, <1>3, <3>1
  <2> HIDE DEF m, b
  <2>3. ASSUME NEW k \in 1 .. m + 2 PROVE r[k] = b[k]
    <3>1. r[k] = s[o + k - 1]
      BY <1>7, <2>2
    <3>2. CASE k = 1
      <4>1. o + k - 1 = o
        BY <1>3, <3>2
      <4>2. QED
        BY <1>9, <2>1, <3>1, <3>2, <4>1 DEF Opens
    <3>3. CASE k = m + 2
      <4>1. o + k - 1 = e
        BY <1>1, <1>2, <2>2, <3>3
      <4>2. QED
        BY <1>9, <2>1, <3>1, <3>3, <4>1 DEF Shuts
    <3>4. CASE k # 1 /\ k # m + 2
      <4> DEFINE l == k - 1
      <4>1. l \in 1 .. m /\ 1 + l = k /\ l \in 1 .. j - at + 1 /\ at + l - 1 = o + k - 1
        BY <1>1, <1>2, <1>3, <2>2, <3>4
      <4> HIDE DEF l
      <4>2. name[l] = s[at + l - 1] /\ b[1 + l] = name[l]
        BY <1>5, <2>1, <4>1
      <4>3. QED
        BY <3>1, <4>1, <4>2
    <3>5. QED
      BY <3>2, <3>3, <3>4
  <2>4. Len(r) = Len(b) /\ Len(r) = m + 2
    BY <1>7, <2>1, <2>2
  <2>5. r = b
    BY <1>7, <2>1, <2>3, <2>4, SameString
  <2>6. QED
    BY <2>5 DEF b
<1>17. WellFormed(d)
  <2>1. e \in Nat /\ Len(s) = e + Len(d)
    BY <1>1, <1>2, <1>3, <1>6 DEF n
  <2>2. ASSUME NEW k \in 1 .. Len(d) PROVE s[e + k] = d[k]
    <3>1. k \in 1 .. n - e1 + 1 /\ e1 + k - 1 = e + k
      BY <1>1, <1>2, <1>3, <1>6
    <3>2. QED
      BY <1>6, <3>1
  <2>3. WellFormed(d) <=> FormedFrom(s, e + 1)
    BY <1>6, <2>1, <2>2, FormedShift
  <2>4. QED
    BY <1>2, <2>3
<1>18. /\ Lead(s, p, ref) = c /\ Rest(s, ref) = d /\ ref.name = name
       /\ SubSeq(s, 1, p - 1) = SubSeq(s, 1, p0) /\ SubSeq(s, 1, ref.start - 1) = SubSeq(s, 1, h)
       /\ SubSeq(s, 1, ref.end) = SubSeq(s, 1, e)
  BY <1>2 DEF Lead, Rest, From, c, d, n, o, e, h, p0, e1
<1>19. QED
  BY <1>4, <1>5, <1>6, <1>8, <1>10, <1>11, <1>12, <1>13, <1>14, <1>15, <1>16, <1>17, <1>18

\* What such a text is filled with.
LEMMA FilledRest ==
  ASSUME NEW how \in Modes, NEW E, OfStrings(E), NEW c \in Str, Plain(c), NEW name \in Str, Plain(name), NEW d \in Str
  PROVE  Filled(how, E, c \o (Braced(name) \o d)) = Cat({c}, Cat(Meaning(how, E, name), Filled(how, E, d)))
<1> DEFINE r == Braced(name)
           t == r \o d
<1>1. r \in Str /\ WellFormed(r) /\ Filled(how, E, r) = Meaning(how, E, name)
  <2>1. r \in Str
    BY BracedIs
  <2>2. WellFormed(r) /\ Filled(how, E, r) = Meaning(how, E, name)
    BY FilledReference
  <2>3. QED
    BY <2>1, <2>2
<1>2. WellFormed(c) /\ Filled(how, E, c) = {c}
  BY PlainIsFormed, FilledPlain
<1> HIDE DEF r
<1>3. t \in Str
  BY <1>1, Concatenation
<1>4. Filled(how, E, t) = Cat(Filled(how, E, r), Filled(how, E, d))
  BY <1>1, FilledOfBoth
<1> HIDE DEF t
<1>5. Filled(how, E, c \o t) = Cat(Filled(how, E, c), Filled(how, E, t))
  BY <1>2, <1>3, FilledOfBoth
<1>6. QED
  BY <1>1, <1>2, <1>4, <1>5 DEF t, r

\* A string cut where its two parts meet.
LEMMA CutWhereJoined ==
  ASSUME NEW a \in Str, NEW b \in Str
  PROVE  /\ SubSeq(a \o b, 1, Len(a)) = a
         /\ From(a \o b, Len(a) + 1) = b
<1> DEFINE l == Len(a)
           m == Len(b)
           t == a \o b
           x == SubSeq(t, 1, l)
           l1 == l + 1
           n == l + m
           y == SubSeq(t, l1, n)
<1>1. l \in Nat /\ m \in Nat
  BY Characters
<1>2. t \in Str /\ Len(t) = n /\ (\A k \in 1 .. l : t[k] = a[k]) /\ \A k \in 1 .. m : t[l + k] = b[k]
  BY Both
<1> HIDE DEF t, l, m
<1>3. l1 = l + 1 /\ n = l + m /\ n \in Nat /\ l1 \in 1 .. n + 1 /\ n \in l1 - 1 .. n /\ l \in 1 - 1 .. n /\ 1 \in 1 .. n + 1
  BY <1>1
<1> HIDE DEF l1, n
<1>4. x \in Str /\ Len(x) = l - 1 + 1 /\ \A k \in 1 .. l - 1 + 1 : x[k] = t[1 + k - 1]
  BY <1>2, <1>3, Part
<1>5. y \in Str /\ Len(y) = n - l1 + 1 /\ \A k \in 1 .. n - l1 + 1 : y[k] = t[l1 + k - 1]
  BY <1>2, <1>3, Part
<1> HIDE DEF x, y
<1>6. x = a
  <2>1. Len(x) = Len(a) /\ Len(x) = l
    BY <1>1, <1>4 DEF l
  <2>2. ASSUME NEW k \in 1 .. l PROVE x[k] = a[k]
    <3>1. k \in 1 .. l - 1 + 1 /\ 1 + k - 1 = k
      BY <1>1
    <3>2. QED
      BY <1>2, <1>4, <3>1
  <2>3. QED
    BY <1>4, <2>1, <2>2, SameString
<1>7. y = b
  <2>1. Len(y) = Len(b) /\ Len(y) = m
    BY <1>1, <1>3, <1>5 DEF m
  <2>2. ASSUME NEW k \in 1 .. m PROVE y[k] = b[k]
    <3>1. k \in 1 .. n - l1 + 1 /\ l1 + k - 1 = l + k
      BY <1>1, <1>3
    <3>2. QED
      BY <1>2, <1>5, <3>1
  <2>3. QED
    BY <1>5, <2>1, <2>2, SameString
<1>8. QED
  BY <1>2, <1>6, <1>7 DEF x, y, t, l, l1, n, From

-----------------------------------------------------------------------------
(* What names stand for.                                                   *)

\* A text is filled by what its references stand for, and nothing else.
LEMMA FilledByReferences ==
  ASSUME NEW how \in Modes, NEW D, NEW E \in [D -> SUBSET Str], NEW F \in [D -> SUBSET Str], NEW v \in Str,
         \A m \in References(v) \intersect D : E[m] = F[m]
  PROVE  Filled(how, E, v) = Filled(how, F, v)
<1> DEFINE n == Len(v)
<1>1. DOMAIN v = 1 .. n /\ DOMAIN E = D /\ DOMAIN F = D
  BY Characters
<1>2. ASSUME NEW k \in 1 .. n PROVE Piece(how, E, v, k) = Piece(how, F, v, k)
  <2>1. CASE v[k] = "{"
    <3> DEFINE name == NameAt(v, k)
    <3>1. name \in References(v)
      BY <1>1, <2>1 DEF References
    <3> HIDE DEF name
    <3>2. name \in D => E[name] = F[name]
      BY <3>1
    <3>3. Meaning(how, E, name) = Meaning(how, F, name)
      <4>1. CASE name \in D
        BY <1>1, <3>2, <4>1 DEF Meaning
      <4>2. CASE name \notin D
        BY <1>1, <4>2 DEF Meaning
      <4>3. QED
        BY <4>1, <4>2
    <3>4. QED
      BY <2>1, <3>3 DEF Piece, name
  <2>2. CASE v[k] # "{"
    BY <2>2 DEF Piece
  <2>3. QED
    BY <2>1, <2>2
<1>3. [k \in DOMAIN v |-> Piece(how, E, v, k)] = [k \in DOMAIN v |-> Piece(how, F, v, k)]
  <2> HIDE DEF n
  <2>1. \A k \in DOMAIN v : Piece(how, E, v, k) = Piece(how, F, v, k)
    BY <1>1, <1>2
  <2>2. QED
    BY <2>1
<1>4. QED
  BY <1>3 DEF Filled

\* What a name stands for after one more round.
DeeperAt(how, alternatives, E, n) == UNION {Filled(how, E, v) : v \in alternatives[n]}

\* A round gives every name a set of strings.
LEMMA DeeperIs ==
  ASSUME NEW how \in Modes, NEW D, NEW alternatives \in [D -> SUBSET Str], NEW E \in [D -> SUBSET Str]
  PROVE  /\ Deeper(how, alternatives, E) \in [D -> SUBSET Str]
         /\ \A n \in D : Deeper(how, alternatives, E)[n] = DeeperAt(how, alternatives, E, n)
<1>1. OfStrings(E)
  BY DEF OfStrings
<1>2. ASSUME NEW n \in D PROVE DeeperAt(how, alternatives, E, n) \in SUBSET Str
  <2>1. ASSUME NEW v \in alternatives[n] PROVE Filled(how, E, v) \in SUBSET Str
    BY <1>1, PiecesAre
  <2>2. QED
    BY <2>1 DEF DeeperAt
<1>3. Deeper(how, alternatives, E) = [n \in D |-> DeeperAt(how, alternatives, E, n)]
  <2>1. DOMAIN alternatives = D
    OBVIOUS
  <2>2. QED
    BY <2>1 DEF Deeper, DeeperAt
<1>4. QED
  BY <1>2, <1>3

\* The rounds that Expansions() is made of.
Rounds(f, how, alternatives, D) ==
  LET N == Cardinality(D)
  IN  /\ f \in [0 .. N -> [D -> SUBSET Str]] /\ f[0] = [n \in D |-> {}]
      /\ \A k \in 1 .. N : f[k] = Deeper(how, alternatives, f[k - 1])

\* Expansions() are the last of the rounds that its equations define.
LEMMA ExpansionsAreRounds ==
  ASSUME NEW how \in Modes, NEW D, IsFiniteSet(D), NEW alternatives \in [D -> SUBSET Str]
  PROVE  \E f : Rounds(f, how, alternatives, D) /\ Expansions(how, alternatives) = f[Cardinality(D)]
<1> DEFINE N == Cardinality(D)
           V == [D -> SUBSET Str]
           none == [n \in D |-> {}]
           G(E) == Deeper(how, alternatives, E)
           F == [k \in 1 .. N |-> [E \in V |-> G(E)]]
           Rec(f) == f = [k \in 0 .. N |-> IF k = 0 THEN none ELSE G(f[k - 1])]
<1>1. N \in Nat /\ DOMAIN alternatives = D
  BY FS_CardinalityType
<1>2. none \in V
  OBVIOUS
<1>3. \A E \in V : G(E) \in V
  BY DeeperIs
<1> HIDE DEF N, V, none, G
<1>4. F \in [1 .. N -> [V -> V]]
  BY <1>3
<1>5. PICK f : GoesOn(f, N, V, none, F)
  <2> HIDE DEF F
  <2>1. QED
    BY <1>1, <1>2, <1>4, RecursionExists
<1>6. f \in [0 .. N -> V] /\ f[0] = none
  BY <1>5 DEF GoesOn
<1>7. ASSUME NEW k \in 1 .. N PROVE f[k] = G(f[k - 1])
  <2>1. k - 1 \in 0 .. N /\ f[k - 1] \in V
    BY <1>1, <1>6
  <2>2. f[k] = F[k][f[k - 1]]
    BY <1>5 DEF GoesOn
  <2>3. QED
    BY <2>1, <2>2
<1>8. Rec(f)
  <2>1. \A k \in 0 .. N : f[k] = IF k = 0 THEN none ELSE G(f[k - 1])
    <3> HIDE DEF F
    <3>1. QED
      BY <1>1, <1>6, <1>7
  <2>2. QED
    BY <1>6, <2>1
<1> DEFINE u == CHOOSE g : Rec(g)
<1>9. Expansions(how, alternatives) = u[N]
  BY <1>1 DEF Expansions, N, G, none
<1>10. Rec(u)
  <2> HIDE DEF Rec
  <2>1. QED
    BY <1>8
<1> HIDE DEF u
<1> DEFINE T == {k \in Nat : k <= N => u[k] = f[k]}
<1>11. Nat \subseteq T
  <2>1. 0 \in T
    BY <1>1, <1>6, <1>10
  <2>2. ASSUME NEW k \in Nat, k \in T PROVE k + 1 \in T
    <3>1. CASE k + 1 <= N
      <4> DEFINE l == k + 1
      <4>1. l \in 1 .. N /\ l - 1 = k /\ l # 0 /\ l \in 0 .. N /\ u[k] = f[k]
        BY <1>1, <2>2, <3>1
      <4> HIDE DEF l
      <4>2. u[l] = G(u[l - 1])
        BY <1>10, <4>1
      <4>3. f[l] = G(f[l - 1])
        BY <1>7, <4>1
      <4>4. u[l] = f[l]
        BY <4>1, <4>2, <4>3
      <4>5. QED
        BY <4>4 DEF l
    <3>2. CASE ~(k + 1 <= N)
      BY <3>2
    <3>3. QED
      BY <3>1, <3>2
  <2> HIDE DEF T
  <2>3. QED
    BY <2>1, <2>2, NumbersAreInductive
<1>12. u[N] = f[N]
  BY <1>1, <1>11
<1>13. Rounds(f, how, alternatives, D)
  BY <1>6, <1>7 DEF Rounds, N, V, none, G
<1>14. QED
  BY <1>9, <1>12, <1>13 DEF N

\* Strings that refer only to names of a lower rank.
Ranked(alternatives, D, rank) ==
  /\ rank \in [D -> 1 .. Cardinality(D)]
  /\ \A n \in D : \A v \in alternatives[n] : \A m \in References(v) \intersect D : rank[m] < rank[n]

\* If there are ranks, then the rounds end with what every name stands for.
LEMMA ExpansionsAreFixed ==
  ASSUME NEW how \in Modes, NEW D, IsFiniteSet(D), NEW alternatives \in [D -> SUBSET Str],
         NEW rank, Ranked(alternatives, D, rank)
  PROVE  LET E == Expansions(how, alternatives)
         IN  /\ E \in [D -> SUBSET Str]
             /\ \A n \in D : E[n] = DeeperAt(how, alternatives, E, n)
<1> DEFINE N == Cardinality(D)
           V == [D -> SUBSET Str]
<1>1. N \in Nat /\ rank \in [D -> 1 .. N]
  BY FS_CardinalityType DEF Ranked
<1>2. PICK f : Rounds(f, how, alternatives, D) /\ Expansions(how, alternatives) = f[N]
  BY ExpansionsAreRounds
<1>3. f \in [0 .. N -> V] /\ \A k \in 1 .. N : f[k] = Deeper(how, alternatives, f[k - 1])
  BY <1>2 DEF Rounds
<1> HIDE DEF N
<1>4. ASSUME NEW k \in 1 .. N, NEW n \in D PROVE f[k][n] = DeeperAt(how, alternatives, f[k - 1], n)
  <2>1. k - 1 \in 0 .. N /\ f[k - 1] \in V
    BY <1>1, <1>3
  <2>2. QED
    BY <1>3, <2>1, DeeperIs
<1> DEFINE Same(j, k) == \A n \in D : rank[n] <= k => f[j][n] = f[j + 1][n]
           T == {k \in Nat : \A j \in k .. N - 1 : Same(j, k)}
\* A round depends on the one before only through names of a lower rank.
<1>5. ASSUME NEW at \in 0 .. N, NEW j \in 0 .. N, NEW n \in D,
             \A m \in D : rank[m] < rank[n] => f[at][m] = f[j][m]
      PROVE  DeeperAt(how, alternatives, f[at], n) = DeeperAt(how, alternatives, f[j], n)
  <2>1. f[at] \in [D -> SUBSET Str] /\ f[j] \in [D -> SUBSET Str]
    BY <1>3
  <2>2. ASSUME NEW v \in alternatives[n] PROVE Filled(how, f[at], v) = Filled(how, f[j], v)
    <3>1. v \in Str
      OBVIOUS
    <3>2. \A m \in References(v) \intersect D : f[at][m] = f[j][m]
      BY <1>5 DEF Ranked
    <3> HIDE DEF V
    <3>3. QED
      BY <2>1, <3>1, <3>2, FilledByReferences
  <2>3. {Filled(how, f[at], v) : v \in alternatives[n]} = {Filled(how, f[j], v) : v \in alternatives[n]}
    BY <2>2
  <2>4. QED
    BY <2>3 DEF DeeperAt
<1>6. 0 \in T
  <2>1. \A n \in D : ~(rank[n] <= 0)
    BY <1>1
  <2>2. QED
    BY <2>1
<1>7. ASSUME NEW k \in Nat, k \in T PROVE k + 1 \in T
  <2> SUFFICES ASSUME NEW j \in k + 1 .. N - 1, NEW n \in D, rank[n] <= k + 1 PROVE f[j][n] = f[j + 1][n]
    OBVIOUS
  <2> DEFINE at == j - 1
             l == j + 1
  <2>1. at \in k .. N - 1 /\ at \in 0 .. N /\ j \in 0 .. N /\ j \in 1 .. N /\ l \in 1 .. N /\ at = j - 1 /\ at + 1 = j /\ l - 1 = j
    BY <1>1
  <2>2. Same(at, k)
    BY <1>7, <2>1
  <2> HIDE DEF at, l
  <2>3. \A m \in D : rank[m] < rank[n] => f[at][m] = f[j][m]
    <3> SUFFICES ASSUME NEW m \in D, rank[m] < rank[n] PROVE f[at][m] = f[j][m]
      OBVIOUS
    <3>1. rank[m] <= k
      BY <1>1
    <3>2. QED
      BY <2>1, <2>2, <3>1
  <2>4. f[j][n] = DeeperAt(how, alternatives, f[at], n)
    BY <1>4, <2>1
  <2>5. f[l][n] = DeeperAt(how, alternatives, f[j], n)
    BY <1>4, <2>1
  <2>6. DeeperAt(how, alternatives, f[at], n) = DeeperAt(how, alternatives, f[j], n)
    BY <1>5, <2>1, <2>3
  <2>7. QED
    BY <2>4, <2>5, <2>6 DEF l
<1>8. Nat \subseteq T
  <2> HIDE DEF T
  <2>1. QED
    BY <1>6, <1>7, NumbersAreInductive
<1>9. ASSUME NEW n \in D PROVE f[N][n] = DeeperAt(how, alternatives, f[N], n)
  <2> DEFINE at == N - 1
  <2>1. rank[n] \in 1 .. N
    BY <1>1
  <2>2. at \in Nat /\ at \in at .. N - 1 /\ at \in 0 .. N /\ N \in 0 .. N /\ N \in 1 .. N /\ at + 1 = N
    BY <1>1, <2>1
  <2>3. Same(at, at)
    BY <1>8, <2>2
  <2> HIDE DEF Same, T
  <2>4. \A m \in D : rank[m] < rank[n] => f[at][m] = f[N][m]
    <3> SUFFICES ASSUME NEW m \in D, rank[m] < rank[n] PROVE f[at][m] = f[N][m]
      OBVIOUS
    <3>1. rank[m] <= at
      BY <1>1
    <3> HIDE DEF at
    <3>2. QED
      BY <2>2, <2>3, <3>1 DEF Same
  <2>5. f[N][n] = DeeperAt(how, alternatives, f[at], n)
    BY <1>4, <2>2
  <2> HIDE DEF at
  <2>6. DeeperAt(how, alternatives, f[at], n) = DeeperAt(how, alternatives, f[N], n)
    BY <1>5, <2>2, <2>4
  <2>7. QED
    BY <2>5, <2>6
<1>10. f[N] \in V
  BY <1>1, <1>3
<1>11. QED
  BY <1>2, <1>9, <1>10

-----------------------------------------------------------------------------
(* A round of Substitute().                                                *)

\* What a string may become that is searched from p on.
Becomes(how, E, s, p) == Cat({SubSeq(s, 1, p - 1)}, Filled(how, E, From(s, p)))

\* Cat() in either order.
LEMMA CatOfThree ==
  ASSUME NEW A \in SUBSET Str, NEW B \in SUBSET Str, NEW C \in SUBSET Str
  PROVE  Cat(Cat(A, B), C) = Cat(A, Cat(B, C))
BY CatProperties

BecomesByMeaning(how, E, s, p, ref) ==
  /\ Becomes(how, E, s, p) =
       Cat({SubSeq(s, 1, ref.start - 1)}, Cat(Meaning(how, E, ref.name), Filled(how, E, Rest(s, ref))))
  /\ SubSeq(s, 1, ref.start - 1) \in Str /\ Rest(s, ref) \in Str /\ WellFormed(Rest(s, ref))
  /\ ref.name \in Str /\ Meaning(how, E, ref.name) \in SUBSET Str
  /\ Filled(how, E, Rest(s, ref)) \in SUBSET Str

\* What a string with a reference becomes, by what the reference stands for.
LEMMA BecomesFound ==
  ASSUME NEW how \in Modes, NEW E, OfStrings(E), NEW s \in Str, NEW p \in 1 .. Len(s) + 1, NEW ref, Found(s, p, ref)
  PROVE  BecomesByMeaning(how, E, s, p, ref)
<1> DEFINE a == SubSeq(s, 1, p - 1)
           c == Lead(s, p, ref)
           h == SubSeq(s, 1, ref.start - 1)
           d == Rest(s, ref)
           M == Meaning(how, E, ref.name)
           R == Filled(how, E, d)
<1>1. /\ c \in Str /\ Plain(c) /\ ref.name \in Str /\ Plain(ref.name) /\ d \in Str /\ WellFormed(d)
      /\ From(s, p) = c \o (Braced(ref.name) \o d) /\ a \in Str /\ h = a \o c
  BY RestIsCut
<1>2. M \in SUBSET Str /\ R \in SUBSET Str
  BY <1>1, MeaningIsSet, PiecesAre
<1>3. Filled(how, E, From(s, p)) = Cat({c}, Cat(M, R))
  BY <1>1, FilledRest
<1>4. Becomes(how, E, s, p) = Cat({a}, Cat({c}, Cat(M, R)))
  BY <1>3 DEF Becomes
<1> HIDE DEF a, c, h, d, M, R
<1>5. h \in Str /\ Cat({a}, {c}) = {h}
  BY <1>1, CatOfOne, Concatenation
<1> DEFINE A == {a}
           C == {c}
           MR == Cat(M, R)
<1>6. A \in SUBSET Str /\ C \in SUBSET Str /\ MR \in SUBSET Str
  BY <1>1, <1>2, CatProperties
<1> HIDE DEF A, C, MR
<1>7. Cat(Cat(A, C), MR) = Cat(A, Cat(C, MR))
  BY <1>6, CatProperties
<1>8. QED
  BY <1>1, <1>2, <1>4, <1>5, <1>7 DEF h, d, M, R, A, C, MR, BecomesByMeaning

StandsFor(how, E, name, X) == Meaning(how, E, name) = X

\* A value in the place of the reference, that is searched again.
LEMMA ValueTaken ==
  ASSUME NEW how \in Modes, NEW E, OfStrings(E), NEW s \in Str, NEW p \in 1 .. Len(s) + 1, NEW ref, Found(s, p, ref),
         NEW v \in Str, WellFormed(v), StandsFor(how, E, ref.name, Filled(how, E, v))
  PROVE  /\ Replaced(s, ref, v) \in Str
         /\ ref.start \in 1 .. Len(Replaced(s, ref, v)) + 1
         /\ FormedFrom(Replaced(s, ref, v), ref.start)
         /\ Becomes(how, E, Replaced(s, ref, v), ref.start) = Becomes(how, E, s, p)
<1>0. /\ Becomes(how, E, s, p) =
             Cat({SubSeq(s, 1, ref.start - 1)}, Cat(Meaning(how, E, ref.name), Filled(how, E, Rest(s, ref))))
      /\ SubSeq(s, 1, ref.start - 1) \in Str /\ Rest(s, ref) \in Str /\ WellFormed(Rest(s, ref))
  <2>1. BecomesByMeaning(how, E, s, p, ref)
    BY BecomesFound
  <2>2. QED
    BY <2>1 DEF BecomesByMeaning
<1> DEFINE h == SubSeq(s, 1, ref.start - 1)
           d == Rest(s, ref)
           b == v \o d
           t == Replaced(s, ref, v)
           k == ref.start
<1>1. /\ Becomes(how, E, s, p) = Cat({h}, Cat(Filled(how, E, v), Filled(how, E, d)))
      /\ h \in Str /\ d \in Str /\ WellFormed(d)
  <2>1. /\ Becomes(how, E, s, p) = Cat({h}, Cat(Meaning(how, E, ref.name), Filled(how, E, d)))
        /\ h \in Str /\ d \in Str /\ WellFormed(d)
    BY <1>0
  <2> HIDE DEF h, d, b, t, k
  <2>2. QED
    BY <2>1 DEF StandsFor
<1>2. b \in Str /\ WellFormed(b) /\ t = h \o b
  <2>1. t = (h \o v) \o d
    BY DEF Replaced, Rest
  <2> HIDE DEF h, d, t
  <2>2. QED
    BY <1>1, <2>1, Concatenation, FormedOfBoth
<1>3. Filled(how, E, b) = Cat(Filled(how, E, v), Filled(how, E, d))
  BY <1>1, FilledOfBoth
<1>4. k \in 1 .. Len(s) /\ Len(s) \in Nat
  <2>1. p \in 1 .. Len(s) + 1 /\ Len(s) \in Nat /\ k \in p .. Len(s)
    BY Characters DEF Found
  <2> HIDE DEF k
  <2>2. QED
    BY <2>1
<1>5. Len(h) = k - 1
  <2>1. 1 \in 1 .. Len(s) + 1 /\ k - 1 \in 0 .. Len(s) /\ k - 1 - 1 + 1 = k - 1
    BY <1>4
  <2> DEFINE l == k - 1
  <2>2. l \in 1 - 1 .. Len(s) /\ h = SubSeq(s, 1, l)
    BY <2>1
  <2> HIDE DEF l, h, k
  <2>3. Len(h) = l - 1 + 1
    BY <2>1, <2>2, Part
  <2>4. QED
    BY <2>1, <2>3 DEF l
<1> HIDE DEF h, d, b, t
<1>6. /\ t \in Str /\ Len(t) = Len(h) + Len(b) /\ \A j \in 1 .. Len(b) : t[Len(h) + j] = b[j]
  BY <1>1, <1>2, Both
<1>7. SubSeq(t, 1, Len(h)) = h /\ From(t, Len(h) + 1) = b
  BY <1>1, <1>2, CutWhereJoined
<1> HIDE DEF k
<1>8. Len(h) \in Nat /\ Len(b) \in Nat /\ k = Len(h) + 1
  BY <1>1, <1>2, <1>4, <1>5, Characters
<1>9. FormedFrom(t, Len(h) + 1)
  BY <1>2, <1>6, <1>8, FormedShift
<1>10. k \in 1 .. Len(t) + 1
  BY <1>6, <1>8
<1>11. Becomes(how, E, t, k) = Cat({h}, Filled(how, E, b))
  <2>1. k - 1 = Len(h)
    BY <1>8
  <2>2. QED
    BY <1>7, <1>8, <2>1 DEF Becomes
<1>12. Becomes(how, E, t, k) = Becomes(how, E, s, p)
  BY <1>1, <1>3, <1>11
<1>13. QED
  BY <1>6, <1>8, <1>9, <1>10, <1>12 DEF t, k

\* An unknown reference that stays.
LEMMA ReferenceKept ==
  ASSUME NEW how \in Modes, NEW E, OfStrings(E), NEW s \in Str, NEW p \in 1 .. Len(s) + 1, NEW ref, Found(s, p, ref),
         StandsFor(how, E, ref.name, {Braced(ref.name)})
  PROVE  /\ ref.end + 1 \in 1 .. Len(s) + 1 /\ FormedFrom(s, ref.end + 1)
         /\ Becomes(how, E, s, ref.end + 1) = Becomes(how, E, s, p)
<1>0. /\ Becomes(how, E, s, p) =
             Cat({SubSeq(s, 1, ref.start - 1)}, Cat(Meaning(how, E, ref.name), Filled(how, E, Rest(s, ref))))
      /\ SubSeq(s, 1, ref.start - 1) \in Str /\ Filled(how, E, Rest(s, ref)) \in SUBSET Str /\ ref.name \in Str
  <2>1. BecomesByMeaning(how, E, s, p, ref)
    BY BecomesFound
  <2>2. QED
    BY <2>1 DEF BecomesByMeaning
<1> DEFINE h == SubSeq(s, 1, ref.start - 1)
           d == Rest(s, ref)
           q == ref.end + 1
           B == Braced(ref.name)
           R == Filled(how, E, d)
<1>1. /\ Becomes(how, E, s, p) = Cat({h}, Cat({B}, R))
      /\ h \in Str /\ R \in SUBSET Str /\ ref.name \in Str
  <2>1. /\ Becomes(how, E, s, p) = Cat({h}, Cat(Meaning(how, E, ref.name), R))
        /\ h \in Str /\ R \in SUBSET Str /\ ref.name \in Str
    BY <1>0
  <2> HIDE DEF h, d, q, R
  <2>2. QED
    BY <2>1 DEF StandsFor
<1>2. q \in 1 .. Len(s) + 1 /\ FormedFrom(s, q) /\ q - 1 = ref.end
  <2> DEFINE e == ref.end
             k == ref.start
  <2>1. p \in 1 .. Len(s) + 1 /\ Len(s) \in Nat /\ k \in p .. Len(s) /\ e \in k + 1 .. Len(s) /\ FormedFrom(s, e + 1)
    BY Characters DEF Found
  <2>2. q = e + 1
    OBVIOUS
  <2> HIDE DEF e, k, q
  <2>3. q \in 1 .. Len(s) + 1 /\ FormedFrom(s, q) /\ q - 1 = e
    BY <2>1, <2>2
  <2>4. QED
    BY <2>3 DEF e
<1>3. SubSeq(s, 1, ref.end) = h \o B
  BY RestIsCut
<1>4. Becomes(how, E, s, q) = Cat({h \o B}, R)
  BY <1>2, <1>3 DEF Becomes, Rest
<1>5. B \in Str
  BY <1>1, BracedIs
<1> HIDE DEF h, d, B, R
<1> DEFINE H == {h}
           K == {B}
<1>6. Cat(H, K) = {h \o B} /\ H \in SUBSET Str /\ K \in SUBSET Str
  BY <1>1, <1>5, CatOfOne
<1>9. R \in SUBSET Str
  BY <1>1
<1>7. Becomes(how, E, s, q) = Becomes(how, E, s, p)
  <2>1. Becomes(how, E, s, q) = Cat(Cat(H, K), R) /\ Becomes(how, E, s, p) = Cat(H, Cat(K, R))
    BY <1>1, <1>4, <1>6
  <2> HIDE DEF H, K
  <2>2. Cat(Cat(H, K), R) = Cat(H, Cat(K, R))
    <3>1. H \in SUBSET Str /\ K \in SUBSET Str
      BY <1>6
    <3>2. QED
      BY <1>9, <3>1, CatOfThree
  <2>3. QED
    BY <2>1, <2>2
<1>8. QED
  BY <1>2, <1>7 DEF q

\* No reference is left.
LEMMA NothingFound ==
  ASSUME NEW how \in Modes, NEW E, OfStrings(E), NEW s \in Str, NEW p \in 1 .. Len(s) + 1,
         \A k \in p .. Len(s) : Bare(s, k)
  PROVE  Becomes(how, E, s, p) = {s}
<1> DEFINE n == Len(s)
           a == SubSeq(s, 1, p - 1)
           b == From(s, p)
<1>1. n \in Nat /\ p \in 1 .. n + 1 /\ 1 \in 1 .. n + 1 /\ p - 1 \in 1 - 1 .. n /\ n \in p - 1 .. n
  BY Characters
<1>2. b \in Str /\ Len(b) = n - p + 1 /\ \A at \in 1 .. n - p + 1 : b[at] = s[p + at - 1]
  <2> HIDE DEF n
  <2>1. /\ SubSeq(s, p, n) \in Str /\ Len(SubSeq(s, p, n)) = n - p + 1
        /\ \A at \in 1 .. n - p + 1 : SubSeq(s, p, n)[at] = s[p + at - 1]
    BY <1>1, Part DEF n
  <2>2. QED
    BY <2>1 DEF From, n
<1> HIDE DEF b
<1>3. Plain(b)
  <2>1. ASSUME NEW k \in 1 .. Len(b) PROVE b[k] \notin Braces
    <3> DEFINE j == p + k - 1
    <3> HIDE DEF n
    <3>1. j \in p .. n /\ k \in 1 .. n - p + 1
      BY <1>1, <1>2
    <3>2. b[k] = s[j]
      BY <1>2, <3>1
    <3> HIDE DEF j
    <3>3. QED
      BY <3>1, <3>2 DEF Bare, n
  <2>2. QED
    BY <2>1 DEF Plain
<1>4. Filled(how, E, b) = {b}
  BY <1>2, <1>3, FilledPlain
<1>5. s = a \o b
  <2>1. SubSeq(s, 1, n) = SubSeq(s, 1, p - 1) \o SubSeq(s, p - 1 + 1, n)
    <3> DEFINE k == p - 1
    <3>1. k \in 1 - 1 .. n /\ n \in k .. n
      BY <1>1
    <3> HIDE DEF k
    <3>2. SubSeq(s, 1, n) = SubSeq(s, 1, k) \o SubSeq(s, k + 1, n)
      BY <1>1, <3>1, Adjacent
    <3>3. QED
      BY <3>2 DEF k
  <2>2. p - 1 + 1 = p
    BY <1>1
  <2>3. SubSeq(s, 1, n) = s
    <3> DEFINE t == SubSeq(s, 1, n)
    <3>1. t \in Str /\ Len(t) = n - 1 + 1 /\ \A at \in 1 .. n - 1 + 1 : t[at] = s[1 + at - 1]
      <4> HIDE DEF n
      <4>1. n \in 1 - 1 .. n
        BY <1>1
      <4>2. QED
        BY <1>1, <4>1, Part DEF n
    <3> HIDE DEF t
    <3>2. Len(t) = n /\ \A at \in 1 .. n : t[at] = s[at]
      <4> HIDE DEF n
      <4>1. QED
        BY <1>1, <3>1
    <3>3. t = s
      BY <3>1, <3>2, SameString
    <3>4. QED
      BY <3>3 DEF t
  <2>4. QED
    BY <2>1, <2>2, <2>3 DEF b, From
<1>6. Becomes(how, E, s, p) = Cat({a}, {b})
  BY <1>4 DEF Becomes, b
<1>7. QED
  BY <1>5, <1>6, CatOfOne

-----------------------------------------------------------------------------
(* A round of SubstitutePathList().                                        *)

\* A whole text, searched from its beginning.
LEMMA BecomesWhole ==
  ASSUME NEW how \in Modes, NEW E, OfStrings(E), NEW s \in Str
  PROVE  Becomes(how, E, s, 1) = Filled(how, E, s) /\ (FormedFrom(s, 1) <=> WellFormed(s))
<1> DEFINE n == Len(s)
<1>1. n \in Nat /\ DOMAIN s = 1 .. n /\ \A k \in 1 .. n : s[k] \in Chars
  BY Characters
<1>2. SubSeq(s, 1, 1 - 1) = <<>>
  <2> DEFINE e == SubSeq(s, 1, 0)
  <2>1. 0 \in 1 - 1 .. n /\ 1 \in 1 .. n + 1
    BY <1>1
  <2>2. e \in Str /\ Len(e) = 0 - 1 + 1
    BY <2>1, Part
  <2> HIDE DEF e
  <2>3. e = <<>>
    BY <2>2 DEF Str
  <2>4. 1 - 1 = 0
    OBVIOUS
  <2>5. QED
    BY <2>3, <2>4 DEF e
<1>3. From(s, 1) = s
  <2> DEFINE t == SubSeq(s, 1, n)
  <2>1. t \in Str /\ Len(t) = n - 1 + 1 /\ \A at \in 1 .. n - 1 + 1 : t[at] = s[1 + at - 1]
    <3>1. n \in 1 - 1 .. n /\ 1 \in 1 .. n + 1
      BY <1>1
    <3> HIDE DEF n
    <3>2. QED
      BY <1>1, <3>1, Part DEF n
  <2> HIDE DEF t
  <2>2. Len(t) = n /\ \A at \in 1 .. n : t[at] = s[at]
    <3> HIDE DEF n
    <3>1. QED
      BY <1>1, <2>1
  <2>3. t = s
    BY <2>1, <2>2, SameString
  <2>4. QED
    BY <2>3 DEF t, From
<1>4. Filled(how, E, s) \in SUBSET Str
  BY PiecesAre
<1>5. Becomes(how, E, s, 1) = Filled(how, E, s)
  BY <1>2, <1>3, <1>4, CatProperties DEF Becomes
<1>6. FormedFrom(s, 1) <=> WellFormed(s)
  BY <1>1 DEF FormedFrom, WellFormed
<1>7. QED
  BY <1>5, <1>6

\* Cat() goes through a union.
LEMMA CatOfUnion ==
  ASSUME NEW A, NEW S, NEW B
  PROVE  \A x : x \in Cat(A, Cat(UNION S, B)) <=> \E X \in S : x \in Cat(A, Cat(X, B))
<1>1. ASSUME NEW x \in Cat(A, Cat(UNION S, B)) PROVE \E X \in S : x \in Cat(A, Cat(X, B))
  <2>1. PICK a \in A, y \in Cat(UNION S, B) : x = a \o y
    BY OutOfCat
  <2>2. PICK m \in UNION S, b \in B : y = m \o b
    BY OutOfCat
  <2>3. PICK X \in S : m \in X
    OBVIOUS
  <2>4. y \in Cat(X, B)
    BY <2>2, <2>3, IntoCat
  <2>5. x \in Cat(A, Cat(X, B))
    BY <2>1, <2>4, IntoCat
  <2>6. QED
    BY <2>5
<1>2. ASSUME NEW X \in S, NEW x \in Cat(A, Cat(X, B)) PROVE x \in Cat(A, Cat(UNION S, B))
  <2>1. PICK a \in A, y \in Cat(X, B) : x = a \o y
    BY OutOfCat
  <2>2. PICK m \in X, b \in B : y = m \o b
    BY OutOfCat
  <2>3. m \in UNION S
    OBVIOUS
  <2>4. y \in Cat(UNION S, B)
    BY <2>2, <2>3, IntoCat
  <2>5. QED
    BY <2>1, <2>4, IntoCat
<1>3. QED
  BY <1>1, <1>2

\* A path with the value v of the reference in it.
LEMMA PathWithValue ==
  ASSUME NEW how \in Modes, NEW E, OfStrings(E), NEW s \in Str, NEW ref, Found(s, 1, ref),
         NEW v \in Str, WellFormed(v)
  PROVE  /\ Replaced(s, ref, v) \in Str /\ WellFormed(Replaced(s, ref, v))
         /\ Filled(how, E, Replaced(s, ref, v)) =
              Cat({Lead(s, 1, ref)}, Cat(Filled(how, E, v), Filled(how, E, Rest(s, ref))))
<1> DEFINE h == Lead(s, 1, ref)
           d == Rest(s, ref)
           b == v \o d
           t == Replaced(s, ref, v)
<1>1. h \in Str /\ Plain(h) /\ d \in Str /\ WellFormed(d)
  <2>1. 1 \in 1 .. Len(s) + 1
    BY Characters
  <2>2. QED
    BY <2>1, RestIsCut
<1>2. t = (h \o v) \o d
  BY DEF Replaced, Rest, Lead
<1> HIDE DEF h, d, t
<1>3. WellFormed(h) /\ Filled(how, E, h) = {h}
  BY <1>1, PlainIsFormed, FilledPlain
<1>4. b \in Str /\ WellFormed(b) /\ Filled(how, E, b) = Cat(Filled(how, E, v), Filled(how, E, d))
  BY <1>1, Concatenation, FormedOfBoth, FilledOfBoth
<1>5. t = h \o b
  BY <1>1, <1>2, Concatenation
<1> HIDE DEF b
<1>6. t \in Str /\ WellFormed(t) /\ Filled(how, E, t) = Cat(Filled(how, E, h), Filled(how, E, b))
  <2>1. h \o b \in Str
    BY <1>1, <1>4, Concatenation
  <2>2. WellFormed(h \o b)
    BY <1>1, <1>3, <1>4, FormedOfBoth
  <2>3. Filled(how, E, h \o b) = Cat(Filled(how, E, h), Filled(how, E, b))
    BY <1>1, <1>3, <1>4, FilledOfBoth
  <2>4. QED
    BY <1>5, <2>1, <2>2, <2>3
<1>7. QED
  BY <1>3, <1>4, <1>6 DEF h, d, t

\* What the texts of a list stand for.
AllFilled(how, E, list) == UNION {Filled(how, E, list[j]) : j \in DOMAIN list}
AllFormed(list) == list \in Seq(Str) /\ \A j \in DOMAIN list : WellFormed(list[j])
WithValues(s, ref, values) == [j \in DOMAIN values |-> Replaced(s, ref, values[j])]

\* A path with a reference becomes what the paths made of its values become.
LEMMA PathsWithValues ==
  ASSUME NEW how \in Modes, NEW E, OfStrings(E), NEW s \in Str, NEW ref, Found(s, 1, ref),
         NEW values, AllFormed(values), StandsFor(how, E, ref.name, AllFilled(how, E, values))
  PROVE  /\ AllFormed(WithValues(s, ref, values))
         /\ AllFilled(how, E, WithValues(s, ref, values)) = Filled(how, E, s)
<1> DEFINE h == Lead(s, 1, ref)
           d == Rest(s, ref)
           W == WithValues(s, ref, values)
           R == Filled(how, E, d)
           A == {h}
           D == DOMAIN values
           F(j) == Filled(how, E, values[j])
           S == {F(j) : j \in D}
<1>1. Filled(how, E, s) = Cat(A, Cat(Meaning(how, E, ref.name), R))
  <2>1. 1 \in 1 .. Len(s) + 1
    BY Characters
  <2>2. BecomesByMeaning(how, E, s, 1, ref)
    BY <2>1, BecomesFound
  <2>3. SubSeq(s, 1, ref.start - 1) = h
    BY DEF Lead
  <2>4. Becomes(how, E, s, 1) = Filled(how, E, s)
    BY BecomesWhole
  <2>5. QED
    BY <2>2, <2>3, <2>4 DEF BecomesByMeaning
<1>2. Meaning(how, E, ref.name) = UNION S
  BY DEF StandsFor, AllFilled
<1>3. ASSUME NEW j \in D
      PROVE  W[j] \in Str /\ WellFormed(W[j]) /\ Filled(how, E, W[j]) = Cat(A, Cat(F(j), R))
  <2> DEFINE v == values[j]
  <2>1. v \in Str /\ WellFormed(v)
    BY DEF AllFormed
  <2>2. W[j] = Replaced(s, ref, v)
    BY DEF WithValues
  <2> HIDE DEF v
  <2>3. /\ Replaced(s, ref, v) \in Str /\ WellFormed(Replaced(s, ref, v))
        /\ Filled(how, E, Replaced(s, ref, v)) = Cat(A, Cat(Filled(how, E, v), R))
    BY <2>1, PathWithValue
  <2>4. QED
    BY <2>2, <2>3 DEF v
<1>4. AllFormed(W)
  <2>1. values \in Seq(Str) /\ DOMAIN W = D
    BY DEF AllFormed, WithValues
  <2>2. W = [j \in D |-> W[j]]
    BY DEF WithValues
  <2>3. D = 1 .. Len(values) /\ Len(values) \in Nat
    BY <2>1
  <2> HIDE DEF W
  <2>4. W \in Seq(Str)
    BY <1>3, <2>2, <2>3
  <2>5. QED
    BY <1>3, <2>1, <2>4 DEF AllFormed
<1>5. AllFilled(how, E, W) = Cat(A, Cat(UNION S, R))
  <2>1. DOMAIN W = D
    BY DEF WithValues
  <2> HIDE DEF W, A, R
  <2>2. ASSUME NEW x PROVE x \in AllFilled(how, E, W) <=> \E j \in D : x \in Cat(A, Cat(F(j), R))
    BY <1>3, <2>1 DEF AllFilled
  <2>3. ASSUME NEW x PROVE x \in Cat(A, Cat(UNION S, R)) <=> \E j \in D : x \in Cat(A, Cat(F(j), R))
    <3>1. x \in Cat(A, Cat(UNION S, R)) <=> \E X \in S : x \in Cat(A, Cat(X, R))
      <4> HIDE DEF S
      <4>1. QED
        BY CatOfUnion
    <3>2. QED
      BY <3>1
  <2>4. QED
    BY <2>2, <2>3
<1>6. QED
  BY <1>1, <1>2, <1>4, <1>5

-----------------------------------------------------------------------------
(* Lists of paths.                                                         *)

\* Two lists, one after the other.
LEMMA BothLists ==
  ASSUME NEW a, NEW b, AllFormed(a), AllFormed(b)
  PROVE  /\ AllFormed(a \o b) /\ Len(a \o b) = Len(a) + Len(b)
         /\ \A j \in 1 .. Len(a) : (a \o b)[j] = a[j]
         /\ \A how, E : AllFilled(how, E, a \o b) = AllFilled(how, E, a) \union AllFilled(how, E, b)
<1> DEFINE l == Len(a)
           m == Len(b)
           t == a \o b
<1>1. a \in Seq(Str) /\ b \in Seq(Str) /\ l \in Nat /\ m \in Nat /\ DOMAIN a = 1 .. l /\ DOMAIN b = 1 .. m
  BY DEF AllFormed
<1>2. t \in Seq(Str) /\ Len(t) = l + m /\ \A at \in 1 .. l + m : t[at] = IF at <= l THEN a[at] ELSE b[at - l]
  BY <1>1, ConcatProperties
<1> HIDE DEF l, m, t
<1>3. DOMAIN t = 1 .. l + m
  BY <1>1, <1>2
<1>4. \A j \in 1 .. l : j \in 1 .. l + m /\ t[j] = a[j]
  BY <1>1, <1>2
<1>5. ASSUME NEW k \in 1 .. m PROVE l + k \in 1 .. l + m /\ t[l + k] = b[k]
  <2>1. l + k \in 1 .. l + m /\ ~(l + k <= l) /\ (l + k) - l = k
    BY <1>1
  <2>2. t[l + k] = b[(l + k) - l]
    BY <1>2, <2>1
  <2>3. QED
    BY <2>1, <2>2
<1>6. ASSUME NEW at \in 1 .. l + m
      PROVE  (\E j \in 1 .. l : at = j /\ t[at] = a[j]) \/ (\E k \in 1 .. m : at = l + k /\ t[at] = b[k])
  <2>1. CASE at <= l
    <3>1. at \in 1 .. l
      BY <1>1, <2>1
    <3>2. QED
      BY <1>4, <3>1
  <2>2. CASE ~(at <= l)
    <3> DEFINE k == at - l
    <3>1. k \in 1 .. m /\ at = l + k
      BY <1>1, <2>2
    <3> HIDE DEF k
    <3>2. QED
      BY <1>5, <3>1
  <2>3. QED
    BY <2>1, <2>2
<1>7. AllFormed(t)
  <2>1. (\A j \in 1 .. l : WellFormed(a[j])) /\ \A k \in 1 .. m : WellFormed(b[k])
    BY <1>1 DEF AllFormed
  <2>2. \A at \in 1 .. l + m : WellFormed(t[at])
    BY <1>6, <2>1
  <2>3. QED
    BY <1>2, <1>3, <2>2 DEF AllFormed
<1>8. ASSUME NEW how, NEW E PROVE AllFilled(how, E, t) = AllFilled(how, E, a) \union AllFilled(how, E, b)
  <2>1. ASSUME NEW x \in AllFilled(how, E, t) PROVE x \in AllFilled(how, E, a) \union AllFilled(how, E, b)
    <3>1. PICK at \in 1 .. l + m : x \in Filled(how, E, t[at])
      BY <1>3 DEF AllFilled
    <3>2. CASE \E j \in 1 .. l : t[at] = a[j]
      BY <1>1, <3>1, <3>2 DEF AllFilled
    <3>3. CASE \E k \in 1 .. m : t[at] = b[k]
      BY <1>1, <3>1, <3>3 DEF AllFilled
    <3>4. QED
      BY <1>6, <3>2, <3>3
  <2>2. ASSUME NEW x \in AllFilled(how, E, a) PROVE x \in AllFilled(how, E, t)
    BY <1>1, <1>3, <1>4 DEF AllFilled
  <2>3. ASSUME NEW x \in AllFilled(how, E, b) PROVE x \in AllFilled(how, E, t)
    BY <1>1, <1>3, <1>5 DEF AllFilled
  <2>4. QED
    BY <2>1, <2>2, <2>3
<1>9. QED
  BY <1>2, <1>4, <1>7, <1>8 DEF l, m, t

\* The first n paths hold no reference.
Settled(list, n) == \A j \in 1 .. n : Plain(list[j])

\* Positions in a list that lost one path and gained w others.
LEMMA Positions ==
  ASSUME NEW n \in Nat, NEW k \in 1 .. n, NEW w \in Nat
  PROVE  /\ k \in 1 .. (k - 1) + (n - k) + w + 1
         /\ \A j \in 1 .. k - 1 : j \in 1 .. (k - 1) + (n - k)
OBVIOUS

InPlaceOf(how, E, more, s) == AllFilled(how, E, more) = Filled(how, E, s)

\* A path of the list is replaced by others, which go to the end.
LEMMA ListWithout ==
  ASSUME NEW list, AllFormed(list), NEW at \in 1 .. Len(list), NEW more, AllFormed(more),
         NEW how, NEW E, InPlaceOf(how, E, more, list[at])
  PROVE  LET t == RemoveAt(list, at) \o more
         IN  /\ AllFormed(t) /\ at \in 1 .. Len(t) + 1
             /\ Settled(list, at - 1) => Settled(t, at - 1)
             /\ AllFilled(how, E, t) = AllFilled(how, E, list)
<1> DEFINE n == Len(list)
           h == at - 1
           q == at + 1
           a == SubSeq(list, 1, h)
           b == SubSeq(list, q, n)
           r == a \o b
           t == r \o more
<1>1. list \in Seq(Str) /\ n \in Nat /\ DOMAIN list = 1 .. n /\ \A j \in 1 .. n : list[j] \in Str /\ WellFormed(list[j])
  BY DEF AllFormed
<1>2. at \in 1 .. n /\ h = at - 1 /\ q = at + 1 /\ h \in Int /\ q \in Int /\ n \in Int
  BY <1>1
<1>3. r = RemoveAt(list, at)
  BY DEF RemoveAt
<1> HIDE DEF n, h, q
<1>4. /\ a \in Seq(Str) /\ Len(a) = h
      /\ \A j \in 1 .. h : a[j] = list[j]
  <2>1. \A j \in 1 .. h : list[j] \in Str
    BY <1>1, <1>2
  <2>2. /\ a \in Seq(Str) /\ Len(a) = IF 1 <= h THEN h - 1 + 1 ELSE 0
        /\ \A j \in 1 .. h - 1 + 1 : a[j] = list[1 + j - 1]
    BY <1>2, <2>1, SubSeqProperties
  <2> HIDE DEF a
  <2>3. Len(a) = h
    BY <1>1, <1>2, <2>2
  <2>4. ASSUME NEW j \in 1 .. h PROVE a[j] = list[j]
    <3>1. j \in 1 .. h - 1 + 1 /\ 1 + j - 1 = j
      BY <1>2
    <3>2. QED
      BY <2>2, <3>1
  <2>5. QED
    BY <2>2, <2>3, <2>4
<1>5. /\ b \in Seq(Str) /\ Len(b) = n - at
      /\ \A j \in 1 .. n - at : b[j] = list[at + j]
  <2>1. \A j \in q .. n : list[j] \in Str
    BY <1>1, <1>2
  <2>2. /\ b \in Seq(Str) /\ Len(b) = IF q <= n THEN n - q + 1 ELSE 0
        /\ \A j \in 1 .. n - q + 1 : b[j] = list[q + j - 1]
    BY <1>2, <2>1, SubSeqProperties
  <2> HIDE DEF b
  <2>3. Len(b) = n - at
    BY <1>1, <1>2, <2>2
  <2>4. ASSUME NEW j \in 1 .. n - at PROVE b[j] = list[at + j]
    <3>1. j \in 1 .. n - q + 1 /\ q + j - 1 = at + j
      BY <1>1, <1>2
    <3>2. QED
      BY <2>2, <3>1
  <2>5. QED
    BY <2>2, <2>3, <2>4
<1> HIDE DEF a, b
<1>6. DOMAIN a = 1 .. h /\ DOMAIN b = 1 .. n - at
  BY <1>1, <1>2, <1>4, <1>5
<1>7. AllFormed(a)
  <2>1. \A j \in 1 .. h : j \in 1 .. n
    BY <1>1, <1>2
  <2>2. QED
    BY <1>1, <1>4, <1>6, <2>1 DEF AllFormed
<1>8. AllFormed(b)
  <2>1. \A j \in 1 .. n - at : at + j \in 1 .. n
    BY <1>1, <1>2
  <2>2. QED
    BY <1>1, <1>5, <1>6, <2>1 DEF AllFormed
<1>9. AllFilled(how, E, list) = (AllFilled(how, E, a) \union AllFilled(how, E, b)) \union Filled(how, E, list[at])
  <2>1. ASSUME NEW x \in AllFilled(how, E, list)
        PROVE  x \in (AllFilled(how, E, a) \union AllFilled(how, E, b)) \union Filled(how, E, list[at])
    <3>1. PICK j \in 1 .. n : x \in Filled(how, E, list[j])
      BY <1>1 DEF AllFilled
    <3>2. CASE j < at
      <4>1. j \in 1 .. h
        BY <1>1, <1>2, <3>2
      <4>2. QED
        BY <1>4, <1>6, <3>1, <4>1 DEF AllFilled
    <3>3. CASE j = at
      BY <3>1, <3>3
    <3>4. CASE j > at
      <4> DEFINE k == j - at
      <4>1. k \in 1 .. n - at /\ at + k = j
        BY <1>1, <1>2, <3>4
      <4> HIDE DEF k
      <4>2. QED
        BY <1>5, <1>6, <3>1, <4>1 DEF AllFilled
    <3>5. QED
      BY <1>1, <1>2, <3>2, <3>3, <3>4
  <2>2. ASSUME NEW x \in AllFilled(how, E, a) PROVE x \in AllFilled(how, E, list)
    <3>1. \A j \in 1 .. h : j \in 1 .. n
      BY <1>1, <1>2
    <3>2. QED
      BY <1>1, <1>4, <1>6, <3>1 DEF AllFilled
  <2>3. ASSUME NEW x \in AllFilled(how, E, b) PROVE x \in AllFilled(how, E, list)
    <3>1. \A j \in 1 .. n - at : at + j \in 1 .. n
      BY <1>1, <1>2
    <3>2. QED
      BY <1>1, <1>5, <1>6, <3>1 DEF AllFilled
  <2>4. ASSUME NEW x \in Filled(how, E, list[at]) PROVE x \in AllFilled(how, E, list)
    BY <1>1, <1>2 DEF AllFilled
  <2>5. QED
    BY <2>1, <2>2, <2>3, <2>4
<1>10. /\ AllFormed(r) /\ Len(r) = Len(a) + Len(b) /\ (\A j \in 1 .. Len(a) : r[j] = a[j])
       /\ AllFilled(how, E, r) = AllFilled(how, E, a) \union AllFilled(how, E, b)
  BY <1>7, <1>8, BothLists
<1> HIDE DEF r
<1>11. /\ AllFormed(t) /\ Len(t) = Len(r) + Len(more) /\ (\A j \in 1 .. Len(r) : t[j] = r[j])
       /\ AllFilled(how, E, t) = AllFilled(how, E, r) \union AllFilled(how, E, more)
  BY <1>10, BothLists
<1> HIDE DEF t
<1>12. Len(more) \in Nat
  BY DEF AllFormed
<1>13. at \in 1 .. Len(t) + 1 /\ \A j \in 1 .. h : j \in 1 .. Len(a) /\ j \in 1 .. Len(r)
  <2> DEFINE y == Len(t)
             z == Len(r)
             w == Len(more)
             v == Len(a)
             u == Len(b)
  <2>1. v = h /\ u = n - at /\ z = v + u /\ y = z + w /\ w \in Nat
    BY <1>4, <1>5, <1>10, <1>11, <1>12
  <2> HIDE DEF y, z, w, v, u
  <2>2. at \in 1 .. y + 1 /\ \A j \in 1 .. h : j \in 1 .. v /\ j \in 1 .. z
    <3>1. n \in Nat /\ at \in 1 .. n /\ h = at - 1
      BY <1>1, <1>2
    <3>2. v = at - 1 /\ z = (at - 1) + (n - at) /\ y = (at - 1) + (n - at) + w
      BY <2>1, <3>1
    <3>3. QED
      BY <2>1, <3>1, <3>2, Positions
  <2>3. QED
    BY <2>2 DEF y, z, v
<1>14. \A j \in 1 .. h : t[j] = list[j]
  BY <1>4, <1>10, <1>11, <1>13
<1>15. AllFilled(how, E, t) = AllFilled(how, E, list)
  BY <1>9, <1>10, <1>11 DEF InPlaceOf
<1>16. Settled(list, h) => Settled(t, h)
  BY <1>14 DEF Settled
<1>17. QED
  BY <1>3, <1>11, <1>13, <1>15, <1>16 DEF t, h

-----------------------------------------------------------------------------
(* The list a string is split into holds strings.                          *)

\* TrimRight() makes a string of a string.
LEMMA TrimmedIsString ==
  ASSUME NEW s \in Str
  PROVE  TrimRight(s) \in Str
<1> DEFINE n == Len(s)
           S == {0} \union {k \in DOMAIN s : s[k] \notin Blanks}
           m == Max(S)
<1>1. n \in Nat /\ DOMAIN s = 1 .. n /\ 1 \in 1 .. n + 1
  BY Characters
<1>2. S \subseteq 0 .. n /\ S # {}
  BY <1>1
<1>3. TrimRight(s) = SubSeq(s, 1, m)
  BY DEF TrimRight
<1> HIDE DEF n, S
<1>4. \E x \in S : \A y \in S : x >= y
  BY <1>1, <1>2, GreatestNumber
<1>5. m \in S
  BY <1>4 DEF Max
<1> HIDE DEF m
<1>6. m \in 1 - 1 .. n
  BY <1>1, <1>2, <1>5
<1>7. SubSeq(s, 1, m) \in Str
  BY <1>1, <1>6, Part DEF n
<1>8. QED
  BY <1>3, <1>7

\* A field is a part of the string, and ends behind its beginning.
IsField(f, s) == f.text \in Str /\ f.end \in 1 .. Len(s) + 1

\* A field of a string is a string and ends within it.
LEMMA FieldIs ==
  ASSUME NEW s \in Str, NEW q \in 1 .. Len(s) + 1, NEW delim
  PROVE  IsField(FieldAt(s, q, delim), s)
<1> DEFINE n == Len(s)
           C == {delim}
<1>1. n \in Nat /\ q \in 1 .. n + 1
  BY Characters
<1> HIDE DEF C
<1>2. CASE q <= n /\ s[q] \in Quotes
  <2> DEFINE K == {s[q]}
             p == q + 1
             e == Until(s, p, K)
             l == e - 1
             w == Until(s, e, C)
  <2>1. p \in 1 .. n + 1 /\ p = q + 1
    BY <1>1, <1>2
  <2> HIDE DEF p, K
  <2>2. e \in p .. n + 1
    BY <1>1, <2>1, UntilIs
  <2> HIDE DEF e
  <2>3. e \in 1 .. n + 1 /\ l \in p - 1 .. n
    BY <1>1, <2>1, <2>2
  <2> HIDE DEF l
  <2>4. w \in e .. n + 1
    BY <1>1, <2>3, UntilIs
  <2>5. SubSeq(s, p, l) \in Str
    BY <2>1, <2>3, Part
  <2> HIDE DEF w
  <2>6. w \in 1 .. n + 1
    BY <1>1, <2>3, <2>4
  <2>7. FieldAt(s, q, delim) = QuotedField(s, q, delim)
    BY <1>2 DEF FieldAt
  <2>8. QuotedField(s, q, delim) = [text |-> SubSeq(s, p, l), end |-> w]
    BY DEF QuotedField, p, l, w, e, K, C
  <2> DEFINE f == [text |-> SubSeq(s, p, l), end |-> w]
  <2>9. f.text \in Str /\ f.end \in 1 .. n + 1
    BY <2>5, <2>6
  <2> HIDE DEF f
  <2>10. IsField(f, s)
    BY <2>9 DEF IsField
  <2>11. QED
    BY <2>7, <2>8, <2>10 DEF f
<1>3. CASE ~(q <= n /\ s[q] \in Quotes)
  <2> DEFINE e == Until(s, q, C)
             l == e - 1
             t == SubSeq(s, q, l)
  <2>1. e \in q .. n + 1
    BY <1>1, UntilIs
  <2> HIDE DEF e
  <2>2. e \in 1 .. n + 1 /\ l \in q - 1 .. n
    BY <1>1, <2>1
  <2> HIDE DEF l
  <2>3. t \in Str
    BY <1>1, <2>2, Part
  <2> HIDE DEF t
  <2>4. TrimRight(t) \in Str
    BY <2>3, TrimmedIsString
  <2>5. FieldAt(s, q, delim) = PlainField(s, q, delim)
    BY <1>3 DEF FieldAt
  <2>6. PlainField(s, q, delim) = [text |-> TrimRight(t), end |-> e]
    BY DEF PlainField, t, l, e, C
  <2> DEFINE f == [text |-> TrimRight(t), end |-> e]
  <2>7. f.text \in Str /\ f.end \in 1 .. n + 1
    BY <2>2, <2>4
  <2> HIDE DEF f
  <2>8. IsField(f, s)
    BY <2>7 DEF IsField
  <2>9. QED
    BY <2>5, <2>6, <2>8 DEF f
<1>4. QED
  BY <1>2, <1>3

\* The states of the loop of SplitString().
Splits(s) == [list : Seq(Str), next : 1 .. Len(s) + 1]

\* A field more makes a list of strings of such a list.
LEMMA NextFieldIs ==
  ASSUME NEW s \in Str, NEW delim, NEW old \in Splits(s), NEW f, IsField(f, s)
  PROVE  NextField(s, delim, FALSE, old, f) \in Splits(s)
<1> DEFINE n == Len(s)
           C == {delim}
           B == Blanks
           d == f.end
           a == SkipOver(s, d, C)
           b == SkipOver(s, a, B)
           L == IF f.text # <<>> THEN Append(old.list, f.text) ELSE old.list
<1>1. n \in Nat /\ d \in 1 .. n + 1 /\ f.text \in Str /\ old.list \in Seq(Str)
  BY Characters DEF IsField, Splits
<1>2. L \in Seq(Str)
  BY <1>1
<1> HIDE DEF C, B, d
<1>3. a \in d .. n + 1
  BY <1>1, SkipOverIs
<1> HIDE DEF a
<1>4. a \in 1 .. n + 1
  BY <1>1, <1>3
<1>5. b \in a .. n + 1
  BY <1>1, <1>4, SkipOverIs
<1> HIDE DEF b
<1>6. b \in 1 .. n + 1
  BY <1>1, <1>4, <1>5
<1>7. AfterField(s, f.end, delim, FALSE) = b
  BY DEF AfterField, a, b, C, B, d
<1>8. NextField(s, delim, FALSE, old, f) = [list |-> L, next |-> b]
  BY <1>7 DEF NextField
<1> HIDE DEF L, n
<1>9. [list |-> L, next |-> b] \in [list : Seq(Str), next : 1 .. n + 1]
  BY <1>2, <1>6
<1>10. QED
  BY <1>8, <1>9 DEF Splits, n

\* One round.
After(s, delim, old) ==
  IF old.next > Len(s) THEN old
  ELSE NextField(s, delim, FALSE, old, FieldAt(s, SkipOver(s, old.next, Blanks), delim))

\* And so does a round of SplitString().
LEMMA AfterIs ==
  ASSUME NEW s \in Str, NEW delim, NEW old \in Splits(s)
  PROVE  After(s, delim, old) \in Splits(s)
<1> DEFINE B == Blanks
           p == old.next
           q == SkipOver(s, p, B)
           f == FieldAt(s, q, delim)
<1>1. Len(s) \in Nat /\ p \in 1 .. Len(s) + 1
  BY Characters DEF Splits
<1> HIDE DEF p, B
<1>2. q \in p .. Len(s) + 1
  BY <1>1, SkipOverIs
<1> HIDE DEF q
<1>3. q \in 1 .. Len(s) + 1
  BY <1>1, <1>2
<1>4. IsField(f, s)
  BY <1>3, FieldIs
<1> HIDE DEF f
<1>5. NextField(s, delim, FALSE, old, f) \in Splits(s)
  BY <1>4, NextFieldIs
<1>6. QED
  BY <1>5 DEF After, f, q, p, B

\* The list is a list of strings.
LEMMA SplitIsList ==
  ASSUME NEW s \in Str, NEW delim
  PROVE  Split(s, delim) \in Seq(Str)
<1> DEFINE n == Len(s)
           V == (SUBSET Splits(s)) \ {{}}
           v == {[list |-> <<>>, next |-> 1]}
           G(X) == {After(s, delim, old) : old \in X}
           F == [k \in 1 .. n |-> [X \in V |-> G(X)]]
           Rec(f) == f = [k \in 0 .. n |-> IF k = 0 THEN v ELSE G(f[k - 1])]
<1>1. n \in Nat
  BY Characters
<1>2. v \in V
  <2>1. <<>> \in Seq(Str) /\ 1 \in 1 .. n + 1
    BY <1>1
  <2>2. [list |-> <<>>, next |-> 1] \in [list : Seq(Str), next : 1 .. n + 1]
    BY <2>1
  <2>3. [list |-> <<>>, next |-> 1] \in Splits(s)
    BY <2>2 DEF Splits
  <2>4. QED
    BY <2>3
<1>3. \A X \in V : G(X) \in V
  <2>1. ASSUME NEW X \in V PROVE G(X) \in V
    <3>1. X \subseteq Splits(s) /\ X # {}
      OBVIOUS
    <3>2. \A old \in X : After(s, delim, old) \in Splits(s)
      BY <3>1, AfterIs
    <3>3. QED
      BY <3>1, <3>2
  <2>2. QED
    BY <2>1
<1>4. SplitString(s, delim, FALSE, 0) =
        CHOOSE end \in (CHOOSE f : Rec(f))[n] : TRUE
  BY DEF SplitString, After
<1> HIDE DEF n, V, v, G
<1>5. F \in [1 .. n -> [V -> V]]
  BY <1>3
<1>6. PICK f : GoesOn(f, n, V, v, F)
  <2> HIDE DEF F
  <2>1. QED
    BY <1>1, <1>2, <1>5, RecursionExists
<1>7. f \in [0 .. n -> V] /\ f[0] = v
  BY <1>6 DEF GoesOn
<1>8. Rec(f)
  <2>1. ASSUME NEW k \in 1 .. n PROVE f[k] = G(f[k - 1])
    <3>1. k - 1 \in 0 .. n /\ f[k - 1] \in V
      BY <1>1, <1>7
    <3>2. f[k] = F[k][f[k - 1]]
      BY <1>6 DEF GoesOn
    <3>3. QED
      BY <3>1, <3>2
  <2>2. \A k \in 0 .. n : f[k] = IF k = 0 THEN v ELSE G(f[k - 1])
    <3> HIDE DEF F
    <3>1. QED
      BY <1>1, <1>7, <2>1
  <2>3. QED
    BY <1>7, <2>2
<1> DEFINE u == CHOOSE g : Rec(g)
<1>9. Rec(u)
  <2> HIDE DEF Rec
  <2>1. QED
    BY <1>8
<1>10. SplitString(s, delim, FALSE, 0) = CHOOSE end \in u[n] : TRUE
  BY <1>4
<1> HIDE DEF u
<1> DEFINE T == {k \in Nat : k <= n => u[k] \in V}
<1>11. Nat \subseteq T
  <2>1. 0 \in T
    BY <1>1, <1>2, <1>9
  <2>2. ASSUME NEW k \in Nat, k \in T PROVE k + 1 \in T
    <3>1. CASE k + 1 <= n
      <4> DEFINE l == k + 1
      <4>1. l \in 1 .. n /\ l - 1 = k /\ l # 0 /\ l \in 0 .. n /\ u[k] \in V
        BY <1>1, <2>2, <3>1
      <4> HIDE DEF l
      <4>2. u[l] = G(u[l - 1])
        BY <1>9, <4>1
      <4>3. u[l] \in V
        BY <1>3, <4>1, <4>2
      <4>4. QED
        BY <4>3 DEF l
    <3>2. CASE ~(k + 1 <= n)
      BY <3>2
    <3>3. QED
      BY <3>1, <3>2
  <2> HIDE DEF T
  <2>3. QED
    BY <2>1, <2>2, NumbersAreInductive
<1>12. u[n] \in V
  BY <1>1, <1>11
<1>13. SplitString(s, delim, FALSE, 0) \in Splits(s)
  BY <1>10, <1>12 DEF V
<1>14. QED
  BY <1>13 DEF Split, Splits

-----------------------------------------------------------------------------
(* What the names stand for, in a state.                                   *)

\* What a call does not change.
Arguments ==
  /\ DOMAIN parameters \subseteq Names
  /\ \A n \in DOMAIN parameters : parameters[n] \in Values
  /\ text \in Texts /\ mode \in Modes

\* Sequences over a larger set.
LEMMA SeqGrows ==
  ASSUME NEW S, NEW T, S \subseteq T
  PROVE  Seq(S) \subseteq Seq(T)
<1>1. ASSUME NEW s \in Seq(S) PROVE s \in Seq(T)
  <2>1. Len(s) \in Nat /\ \A k \in 1 .. Len(s) : s[k] \in T
    OBVIOUS
  <2>2. s = [k \in 1 .. Len(s) |-> s[k]]
    OBVIOUS
  <2>3. QED
    BY <2>1, <2>2
<1>2. QED
  BY <1>1

\* What the constants hold are strings.
LEMMA ArgumentsAreStrings ==
  /\ Values \subseteq Str /\ Texts \subseteq Str
  /\ \A n \in DOMAIN Environment : Environment[n] \in Str
<1>1. Seq(STRING) \subseteq Str
  <2>1. STRING \subseteq Chars
    BY DEF Chars
  <2>2. QED
    BY <2>1, SeqGrows, Zenon DEF Str
<1>2. QED
  BY <1>1, ParametersAssumption

\* The names known are finitely many, and stand for sets of strings.
LEMMA AlternativesAreStrings ==
  ASSUME Arguments
  PROVE  /\ IsFiniteSet(DOMAIN Alternatives)
         /\ Alternatives \in [DOMAIN Alternatives -> SUBSET Str]
<1> DEFINE P == DOMAIN parameters
           K == P \union DOMAIN Environment
<1>1. IsFiniteSet(P) /\ IsFiniteSet(K)
  <2>1. IsFiniteSet(P)
    BY ParametersAssumption, FS_Subset DEF Arguments
  <2>2. QED
    BY <2>1, ParametersAssumption, FS_Union
<1>2. ASSUME NEW n \in K PROVE Known[n] \in Str /\ Subpaths[Known[n]] = Split(Known[n], ";")
  BY ArgumentsAreStrings DEF Arguments, Known, Subpaths
<1>3. ASSUME NEW n \in K PROVE ToSet(Subpaths[Known[n]]) \in SUBSET Str
  <2> DEFINE list == Split(Known[n], ";")
  <2>1. list \in Seq(Str)
    BY <1>2, SplitIsList
  <2> HIDE DEF list
  <2>2. ToSet(list) \in SUBSET Str
    BY <2>1 DEF ToSet
  <2>3. QED
    BY <1>2, <2>2 DEF list
<1>4. DOMAIN Known = K
  BY DEF Known
<1>5. Alternatives = [n \in K |-> IF mode = "paths" THEN ToSet(Subpaths[Known[n]]) ELSE {Known[n]}]
  BY <1>4 DEF Alternatives
<1>6. QED
  BY <1>1, <1>2, <1>3, <1>5

\* The meaning that the expansions give to the names is the one they have.
Fixed(how, alternatives, E) ==
  /\ E \in [DOMAIN alternatives -> SUBSET Str]
  /\ \A n \in DOMAIN alternatives : E[n] = DeeperAt(how, alternatives, E, n)
  /\ \A n \in DOMAIN alternatives : \A v \in alternatives[n] : v \in Str /\ WellFormed(v)

\* The ranks of Grounded make the expansions a fixed point.
LEMMA GroundedIsFixed ==
  ASSUME Arguments, Grounded
  PROVE  Fixed(mode, Alternatives, Expansions(mode, Alternatives))
<1> DEFINE D == DOMAIN Alternatives
           A == Alternatives
<1>1. IsFiniteSet(D) /\ A \in [D -> SUBSET Str]
  BY AlternativesAreStrings
<1>2. PICK rank : Ranked(A, D, rank)
  BY DEF Grounded, Ranked
<1>3. \A n \in D : \A v \in A[n] : WellFormed(v)
  BY DEF Grounded
<1>4. mode \in Modes
  BY DEF Arguments
<1> HIDE DEF A, D
<1>5. /\ Expansions(mode, A) \in [D -> SUBSET Str]
      /\ \A n \in D : Expansions(mode, A)[n] = DeeperAt(mode, A, Expansions(mode, A), n)
  BY <1>1, <1>2, <1>4, ExpansionsAreFixed
<1>6. \A n \in D : \A v \in A[n] : v \in Str
  BY <1>1
<1>7. D = DOMAIN A
  BY DEF D, A
<1>8. Fixed(mode, A, Expansions(mode, A))
  BY <1>3, <1>5, <1>6, <1>7 DEF Fixed
<1>9. QED
  BY <1>8 DEF A

\* Nor does it change what they stand for.
LEMMA AlternativesStay ==
  ASSUME UNCHANGED <<parameters, mode>>
  PROVE  /\ Alternatives' = Alternatives
         /\ Grounded' <=> Grounded
         /\ Expansions(mode, Alternatives)' = Expansions(mode, Alternatives)
<1>1. Alternatives' = Alternatives
  BY DEF Alternatives, Known, SubpathsOf, Subpaths
<1>2. Grounded' <=> Grounded
  BY <1>1 DEF Grounded
<1>3. QED
  BY <1>1, <1>2

\* What the names stand for.
Stands == Expansions(mode, Alternatives)

\* What the names stand for, in a grounded state.
LEMMA StandsForStrings ==
  ASSUME Arguments, Grounded
  PROVE  /\ mode \in Modes /\ OfStrings(Stands) /\ DOMAIN Stands = DOMAIN Alternatives
         /\ Fixed(mode, Alternatives, Stands)
<1>1. Fixed(mode, Alternatives, Stands)
  BY GroundedIsFixed DEF Stands
<1> HIDE DEF Stands
<1>2. mode \in Modes
  BY DEF Arguments
<1>3. Stands \in [DOMAIN Alternatives -> SUBSET Str]
  BY <1>1 DEF Fixed
<1>4. QED
  BY <1>1, <1>2, <1>3 DEF OfStrings

\* Outside path lists a name stands for what its value is filled with.
LEMMA KnownStandsFor ==
  ASSUME Arguments, Grounded, mode # "paths", NEW name \in DOMAIN Known
  PROVE  /\ Known[name] \in Str /\ WellFormed(Known[name])
         /\ StandsFor(mode, Stands, name, Filled(mode, Stands, Known[name]))
<1> DEFINE v == Known[name]
<1>1. DOMAIN Alternatives = DOMAIN Known /\ Alternatives[name] = {v}
  BY DEF Alternatives
<1>2. /\ \A n \in DOMAIN Alternatives : Stands[n] = DeeperAt(mode, Alternatives, Stands, n)
      /\ \A n \in DOMAIN Alternatives : \A w \in Alternatives[n] : w \in Str /\ WellFormed(w)
      /\ DOMAIN Stands = DOMAIN Alternatives
  BY StandsForStrings DEF Fixed
<1> HIDE DEF v
<1>3. v \in Str /\ WellFormed(v)
  BY <1>1, <1>2
<1>4. DeeperAt(mode, Alternatives, Stands, name) = Filled(mode, Stands, v)
  BY <1>1 DEF DeeperAt
<1>5. Meaning(mode, Stands, name) = Stands[name]
  BY <1>1, <1>2 DEF Meaning
<1>6. QED
  BY <1>1, <1>2, <1>3, <1>4, <1>5 DEF StandsFor, v

\* In path lists a parameter stands for what its paths are filled with, in union.
LEMMA SubpathsStandFor ==
  ASSUME Arguments, Grounded, mode = "paths", NEW name \in DOMAIN parameters
  PROVE  /\ AllFormed(SubpathsOf(name))
         /\ StandsFor(mode, Stands, name, AllFilled(mode, Stands, SubpathsOf(name)))
<1> DEFINE list == SubpathsOf(name)
<1>1. name \in DOMAIN Alternatives /\ Alternatives[name] = ToSet(list)
  BY DEF Alternatives, Known, SubpathsOf
<1>2. /\ Stands[name] = DeeperAt(mode, Alternatives, Stands, name)
      /\ \A w \in Alternatives[name] : w \in Str /\ WellFormed(w)
      /\ DOMAIN Stands = DOMAIN Alternatives
  BY <1>1, StandsForStrings DEF Fixed
<1>3. list = Split(parameters[name], ";") /\ parameters[name] \in Str
  BY ArgumentsAreStrings DEF Arguments, SubpathsOf, Subpaths
<1>4. Split(parameters[name], ";") \in Seq(Str)
  BY <1>3, SplitIsList
<1> HIDE DEF list
<1>5. list \in Seq(Str)
  BY <1>3, <1>4
<1>6. AllFormed(list)
  BY <1>1, <1>2, <1>5 DEF AllFormed, ToSet
<1>7. DeeperAt(mode, Alternatives, Stands, name) = AllFilled(mode, Stands, list)
  BY <1>1 DEF DeeperAt, AllFilled, ToSet
<1>8. Meaning(mode, Stands, name) = Stands[name]
  BY <1>1, <1>2 DEF Meaning
<1>9. QED
  BY <1>2, <1>6, <1>7, <1>8 DEF StandsFor, list

-----------------------------------------------------------------------------
(* Substitute().                                                           *)

\* The string s, searched from p on, becomes one of X.
OnTheWay(how, E, s, p, X) ==
  /\ s \in Str /\ p \in 1 .. Len(s) + 1 /\ FormedFrom(s, p)
  /\ Becomes(how, E, s, p) = X

SubstituteInv ==
  (mode # "paths" /\ Grounded /\ WellFormed(text)) =>
    /\ OnTheWay(mode, Stands, res, p1, Expanding(text))
    /\ pc = "done" => {res} = Expanding(text)

\* The search begins with the whole text.
LEMMA SubstituteBegins ==
  ASSUME Arguments, mode # "paths", Grounded, WellFormed(text), res = text, p1 = 1
  PROVE  OnTheWay(mode, Stands, res, p1, Expanding(text))
<1>1. text \in Str
  BY ArgumentsAreStrings DEF Arguments
<1>2. mode \in Modes /\ OfStrings(Stands)
  BY StandsForStrings
<1>3. Becomes(mode, Stands, text, 1) = Filled(mode, Stands, text) /\ FormedFrom(text, 1)
  BY <1>1, <1>2, BecomesWhole
<1>4. 1 \in 1 .. Len(text) + 1
  BY <1>1, Characters
<1>5. Expanding(text) = Filled(mode, Stands, text)
  BY DEF Expanding, Stands
<1>6. QED
  BY <1>1, <1>3, <1>4, <1>5 DEF OnTheWay

\* A round changes the string but not what it becomes.
LEMMA SubstituteGoesOn ==
  ASSUME Arguments, mode # "paths", Grounded, NEW X, OnTheWay(mode, Stands, res, p1, X),
         SubstituteStep
  PROVE  /\ OnTheWay(mode, Stands, res', p1', X)
         /\ pc' = "done" => {res'} = X
<1> DEFINE ref == Reference(res, p1)
           E == Stands
           name == ref.name
<1>1. /\ res \in Str /\ p1 \in 1 .. Len(res) + 1 /\ FormedFrom(res, p1)
      /\ Becomes(mode, E, res, p1) = X
  BY DEF OnTheWay
<1>2. mode \in Modes /\ OfStrings(E) /\ DOMAIN E = DOMAIN Known
  <2>1. DOMAIN Alternatives = DOMAIN Known
    BY DEF Alternatives
  <2>2. QED
    BY <2>1, StandsForStrings
<1>3. /\ pc = "loop"
      /\ IF ref.start = 0 THEN pc' = "done" /\ UNCHANGED <<res, p1>>
         ELSE /\ pc' = pc
              /\ IF ref.name \in DOMAIN Known
                   THEN res' = Replaced(res, ref, Known[ref.name]) /\ p1' = ref.start
                 ELSE IF mode = "blank"
                   THEN res' = Replaced(res, ref, <<>>) /\ p1' = ref.start
                   ELSE res' = res /\ p1' = ref.end + 1
  BY DEF SubstituteStep
<1>4. \/ ref.start = 0 /\ \A k \in p1 .. Len(res) : Bare(res, k)
      \/ Found(res, p1, ref)
  BY <1>1, ReferenceIs
<1> HIDE DEF ref, E
<1>5. CASE ref.start = 0 /\ \A k \in p1 .. Len(res) : Bare(res, k)
  <2>1. res' = res /\ p1' = p1
    BY <1>3, <1>5
  <2>2. Becomes(mode, E, res, p1) = {res}
    BY <1>1, <1>2, <1>5, NothingFound
  <2>3. QED
    BY <1>1, <2>1, <2>2 DEF OnTheWay, E
<1>6. CASE Found(res, p1, ref)
  <2>1. ref.start # 0
    BY <1>6 DEF Found
  <2>2. pc' # "done"
    BY <1>3, <2>1
  <2>3. CASE name \in DOMAIN Known
    <3> DEFINE v == Known[name]
               t == Replaced(res, ref, v)
    <3>1. v \in Str /\ WellFormed(v) /\ StandsFor(mode, E, name, Filled(mode, E, v))
      BY <2>3, KnownStandsFor DEF E
    <3>2. res' = t /\ p1' = ref.start
      BY <1>3, <2>1, <2>3
    <3> HIDE DEF v
    <3>3. t \in Str /\ ref.start \in 1 .. Len(t) + 1 /\ FormedFrom(t, ref.start) /\ Becomes(mode, E, t, ref.start) = X
      BY <1>1, <1>2, <1>6, <3>1, ValueTaken
    <3>4. QED
      BY <2>2, <3>2, <3>3 DEF OnTheWay, E
  <2>4. CASE name \notin DOMAIN Known /\ mode = "blank"
    <3> DEFINE v == <<>>
               t == Replaced(res, ref, v)
    <3>1. v \in Str /\ Plain(v)
      BY Concatenation DEF Plain
    <3>2. WellFormed(v) /\ Filled(mode, E, v) = {v}
      BY <1>2, <3>1, PlainIsFormed, FilledPlain
    <3>3. StandsFor(mode, E, name, Filled(mode, E, v))
      <4>1. Meaning(mode, E, name) = {v}
        BY <1>2, <2>4 DEF Meaning
      <4>2. QED
        BY <3>2, <4>1 DEF StandsFor
    <3>4. res' = t /\ p1' = ref.start
      BY <1>3, <2>1, <2>4
    <3> HIDE DEF v
    <3>5. t \in Str /\ ref.start \in 1 .. Len(t) + 1 /\ FormedFrom(t, ref.start) /\ Becomes(mode, E, t, ref.start) = X
      BY <1>1, <1>2, <1>6, <3>1, <3>2, <3>3, ValueTaken
    <3>6. QED
      BY <2>2, <3>4, <3>5 DEF OnTheWay, E
  <2>5. CASE name \notin DOMAIN Known /\ mode # "blank"
    <3> DEFINE q == ref.end + 1
    <3>1. StandsFor(mode, E, name, {Braced(name)})
      <4>1. mode = "keep"
        BY <1>2, <2>5 DEF Modes
      <4>2. Meaning(mode, E, name) = {Braced(name)}
        BY <1>2, <2>5, <4>1 DEF Meaning, Braced
      <4>3. QED
        BY <4>2 DEF StandsFor
    <3>2. res' = res /\ p1' = q
      BY <1>3, <2>1, <2>5
    <3>3. q \in 1 .. Len(res) + 1 /\ FormedFrom(res, q) /\ Becomes(mode, E, res, q) = X
      BY <1>1, <1>2, <1>6, <3>1, ReferenceKept
    <3>4. QED
      BY <1>1, <2>2, <3>2, <3>3 DEF OnTheWay, E
  <2>6. QED
    BY <2>3, <2>4, <2>5
<1>7. QED
  BY <1>4, <1>5, <1>6

-----------------------------------------------------------------------------
(* SubstitutePathList().                                                   *)

\* The paths of a list, of which the first k - 1 are settled, become X.
ListOnTheWay(how, E, list, k, X) ==
  /\ AllFormed(list) /\ k \in 1 .. Len(list) + 1 /\ Settled(list, k - 1)
  /\ AllFilled(how, E, list) = X

\* The paths of a value are strings.
LEMMA SubpathsAreStrings ==
  ASSUME Arguments, NEW name
  PROVE  SubpathsOf(name) \in Seq(Str)
<1>1. CASE name \in DOMAIN parameters
  <2>1. SubpathsOf(name) = Split(parameters[name], ";") /\ parameters[name] \in Str
    BY <1>1, ArgumentsAreStrings DEF Arguments, SubpathsOf, Subpaths
  <2>2. QED
    BY <2>1, SplitIsList
<1>2. CASE name \notin DOMAIN parameters
  <2>1. <<>> \in Seq(Str)
    OBVIOUS
  <2>2. QED
    BY <1>2, <2>1 DEF SubpathsOf
<1>3. QED
  BY <1>1, <1>2

\* With nothing for a name that is no parameter, a text that has such a name in
\* it becomes nothing.
Strangers == [n \in Str \ DOMAIN parameters |-> {}]
Resolved(s) == Filled("blank", Strangers, s) # {}

LEMMA StrangersAreStrings == OfStrings(Strangers) /\ "blank" \in Modes
BY DEF OfStrings, Strangers, Modes

\* A product of sets with an element has an element.
LEMMA ProductOfSome ==
  ASSUME NEW sets \in Collections, \A k \in 1 .. Len(sets) : sets[k] # {}
  PROVE  Product(sets) # {}
<1>1. PICK f : Products(f, sets) /\ Product(sets) = f[Len(sets)]
  BY ProductSteps
<1> DEFINE n == Len(sets)
           T == {k \in Nat : k <= n => f[k] # {}}
<1>2. n \in Nat
  BY DEF Collections
<1>3. f[0] = {<<>>} /\ \A k \in 1 .. n : f[k] = Cat(f[k - 1], sets[k]) /\ sets[k] # {}
  BY <1>1 DEF Products
<1> HIDE DEF n
<1>4. 0 \in T
  BY <1>3
<1>5. ASSUME NEW k \in Nat, k \in T PROVE k + 1 \in T
  <2>1. CASE k + 1 <= n
    <3> DEFINE l == k + 1
    <3>1. l \in 1 .. n /\ l - 1 = k /\ f[k] # {}
      BY <1>2, <1>5, <2>1
    <3> HIDE DEF l
    <3>2. f[l] = Cat(f[k], sets[l]) /\ sets[l] # {}
      BY <1>3, <3>1
    <3>3. f[l] # {}
      BY <3>1, <3>2, IntoCat
    <3>4. QED
      BY <3>3 DEF l
  <2>2. CASE ~(k + 1 <= n)
    BY <2>2
  <2>3. QED
    BY <2>1, <2>2
<1>6. Nat \subseteq T
  <2> HIDE DEF T
  <2>1. QED
    BY <1>4, <1>5, NumbersAreInductive
<1>7. f[n] # {}
  BY <1>2, <1>6
<1>8. QED
  BY <1>1, <1>7 DEF n

\* A text that refers to parameters only becomes something.
LEMMA KnownIsResolved ==
  ASSUME NEW s \in Str, \A name \in References(s) : name \in DOMAIN parameters
  PROVE  Resolved(s)
<1> DEFINE P == Pieces("blank", Strangers, s)
<1>1. /\ P \in Collections /\ Len(P) = Len(s)
      /\ \A k \in 1 .. Len(s) : P[k] = Piece("blank", Strangers, s, k)
      /\ Filled("blank", Strangers, s) = Product(P)
  BY StrangersAreStrings, PiecesAre
<1>2. DOMAIN s = 1 .. Len(s)
  BY Characters
<1>3. ASSUME NEW k \in 1 .. Len(s) PROVE Piece("blank", Strangers, s, k) # {}
  <2>1. CASE s[k] = "{"
    <3> DEFINE name == NameAt(s, k)
    <3>1. name \in DOMAIN parameters
      BY <1>2, <2>1 DEF References
    <3> HIDE DEF name
    <3>2. name \notin DOMAIN Strangers
      BY <3>1 DEF Strangers
    <3>3. Meaning("blank", Strangers, name) = {<<>>}
      BY <3>2 DEF Meaning
    <3>4. QED
      BY <2>1, <3>3 DEF Piece, name
  <2>2. CASE s[k] # "{"
    BY <2>2 DEF Piece
  <2>3. QED
    BY <2>1, <2>2
<1> HIDE DEF P
<1>4. Product(P) # {}
  BY <1>1, <1>3, ProductOfSome
<1>5. QED
  BY <1>1, <1>4 DEF Resolved

\* If a path becomes something, its reference is to a parameter, ...
LEMMA ResolvedReference ==
  ASSUME NEW s \in Str, Resolved(s), NEW ref, Found(s, 1, ref)
  PROVE  /\ ref.name \in DOMAIN parameters
         /\ Filled("blank", Strangers, Rest(s, ref)) # {}
<1> DEFINE A == {SubSeq(s, 1, ref.start - 1)}
           M == Meaning("blank", Strangers, ref.name)
           R == Filled("blank", Strangers, Rest(s, ref))
<1>1. 1 \in 1 .. Len(s) + 1
  BY Characters
<1>2. BecomesByMeaning("blank", Strangers, s, 1, ref)
  BY <1>1, StrangersAreStrings, BecomesFound
<1>3. Becomes("blank", Strangers, s, 1) = Filled("blank", Strangers, s)
  BY StrangersAreStrings, BecomesWhole
<1>4. ref.name \in Str /\ Cat(A, Cat(M, R)) # {}
  BY <1>2, <1>3 DEF BecomesByMeaning, Resolved
<1> HIDE DEF A, M, R
<1>5. M # {} /\ R # {}
  <2>1. PICK x : x \in Cat(A, Cat(M, R))
    BY <1>4
  <2>2. PICK y : y \in Cat(M, R)
    BY <2>1, OutOfCat
  <2>3. QED
    BY <2>2, OutOfCat
<1>6. ref.name \notin DOMAIN Strangers
  <2>1. SUFFICES ASSUME ref.name \in DOMAIN Strangers PROVE FALSE
    OBVIOUS
  <2>2. M = Strangers[ref.name] /\ Strangers[ref.name] = {}
    BY <2>1 DEF M, Meaning, Strangers
  <2>3. QED
    BY <1>5, <2>2
<1>7. QED
  BY <1>4, <1>5, <1>6 DEF Strangers, R

\* ... and the path becomes something with a value in its place that does.
LEMMA ResolvedWithValue ==
  ASSUME NEW s \in Str, Resolved(s), NEW ref, Found(s, 1, ref), NEW v \in Str, WellFormed(v), Resolved(v)
  PROVE  Resolved(Replaced(s, ref, v))
<1> DEFINE h == Lead(s, 1, ref)
           V == Filled("blank", Strangers, v)
           R == Filled("blank", Strangers, Rest(s, ref))
<1>1. Filled("blank", Strangers, Replaced(s, ref, v)) = Cat({h}, Cat(V, R))
  BY StrangersAreStrings, PathWithValue
<1>2. V # {} /\ R # {}
  BY ResolvedReference DEF Resolved
<1> HIDE DEF h, V, R
<1>3. PICK x, y : x \in V /\ y \in R
  BY <1>2
<1>4. h \o (x \o y) \in Cat({h}, Cat(V, R))
  BY <1>3, IntoCat
<1>5. QED
  BY <1>1, <1>4 DEF Resolved

AllResolved(list) == \A s \in ToSet(list) : Resolved(s)

\* What is in a list that lost one path and gained others.
LEMMA MembersWithout ==
  ASSUME NEW list \in Seq(Str), NEW at \in 1 .. Len(list), NEW more \in Seq(Str)
  PROVE  ToSet(RemoveAt(list, at) \o more) \subseteq ToSet(list) \union ToSet(more)
<1> DEFINE n == Len(list)
           h == at - 1
           q == at + 1
           a == SubSeq(list, 1, h)
           b == SubSeq(list, q, n)
           r == a \o b
           t == r \o more
<1>1. n \in Nat /\ DOMAIN list = 1 .. n /\ \A j \in 1 .. n : list[j] \in Str
  OBVIOUS
<1>2. at \in 1 .. n /\ h = at - 1 /\ q = at + 1 /\ h \in Int /\ q \in Int /\ n \in Int
  BY <1>1
<1>3. r = RemoveAt(list, at)
  BY DEF RemoveAt
<1> HIDE DEF n, h, q
<1>4. a \in Seq(Str) /\ \A j \in DOMAIN a : a[j] \in ToSet(list)
  <2>1. \A j \in 1 .. h : list[j] \in Str
    BY <1>1, <1>2
  <2>2. /\ a \in Seq(Str) /\ Len(a) = IF 1 <= h THEN h - 1 + 1 ELSE 0
        /\ \A j \in 1 .. h - 1 + 1 : a[j] = list[1 + j - 1]
    BY <1>2, <2>1, SubSeqProperties
  <2> HIDE DEF a
  <2>3. ASSUME NEW j \in DOMAIN a PROVE a[j] \in ToSet(list)
    <3>1. j \in 1 .. h - 1 + 1 /\ 1 + j - 1 = j /\ j \in 1 .. n
      BY <1>1, <1>2, <2>2
    <3>2. a[j] = list[j]
      BY <2>2, <3>1
    <3>3. QED
      BY <1>1, <3>1, <3>2 DEF ToSet
  <2>4. QED
    BY <2>2, <2>3
<1>5. b \in Seq(Str) /\ \A j \in DOMAIN b : b[j] \in ToSet(list)
  <2>1. \A j \in q .. n : list[j] \in Str
    BY <1>1, <1>2
  <2>2. /\ b \in Seq(Str) /\ Len(b) = IF q <= n THEN n - q + 1 ELSE 0
        /\ \A j \in 1 .. n - q + 1 : b[j] = list[q + j - 1]
    BY <1>2, <2>1, SubSeqProperties
  <2> HIDE DEF b
  <2>3. ASSUME NEW j \in DOMAIN b PROVE b[j] \in ToSet(list)
    <3> DEFINE k == q + j - 1
    <3>1. j \in 1 .. n - q + 1 /\ k \in 1 .. n
      BY <1>1, <1>2, <2>2
    <3>2. b[j] = list[k]
      BY <2>2, <3>1
    <3> HIDE DEF k
    <3>3. QED
      BY <1>1, <3>1, <3>2 DEF ToSet
  <2>4. QED
    BY <2>2, <2>3
<1> HIDE DEF a, b
<1>6. r \in Seq(Str) /\ \A j \in DOMAIN r : r[j] \in ToSet(list)
  BY <1>4, <1>5, ConcatProperties
<1> HIDE DEF r
<1>7. \A j \in DOMAIN t : t[j] \in ToSet(list) \/ t[j] \in ToSet(more)
  <2>1. \A j \in DOMAIN more : more[j] \in ToSet(more)
    BY DEF ToSet
  <2>2. QED
    BY <1>6, <2>1, ConcatProperties
<1> HIDE DEF t
<1>8. ToSet(t) \subseteq ToSet(list) \union ToSet(more)
  BY <1>7 DEF ToSet
<1>9. QED
  BY <1>3, <1>8 DEF t

\* The paths of the text and of the parameters refer to parameters only.
LEMMA OnlyParametersResolve ==
  ASSUME Arguments, OnlyParameters
  PROVE  /\ AllResolved(Split(text, ";"))
         /\ \A name \in DOMAIN parameters : AllResolved(SubpathsOf(name))
<1>1. \A name : SubpathsOf(name) # <<>> => name \in DOMAIN parameters
  BY DEF SubpathsOf
<1>2. ASSUME NEW s \in Str, \A name \in References(s) : SubpathsOf(name) # <<>> PROVE Resolved(s)
  BY <1>1, <1>2, KnownIsResolved
<1>3. ASSUME NEW list \in Seq(Str), \A s \in ToSet(list) : \A name \in References(s) : SubpathsOf(name) # <<>>
      PROVE  AllResolved(list)
  <2>1. \A s \in ToSet(list) : s \in Str
    BY DEF ToSet
  <2>2. QED
    BY <1>2, <1>3, <2>1 DEF AllResolved
<1>4. AllResolved(Split(text, ";"))
  <2>1. text \in Str
    BY ArgumentsAreStrings DEF Arguments
  <2> DEFINE list == Split(text, ";")
  <2>2. list \in Seq(Str)
    BY <2>1, SplitIsList
  <2>3. \A s \in ToSet(list) : \A name \in References(s) : SubpathsOf(name) # <<>>
    BY DEF OnlyParameters, TextPaths
  <2> HIDE DEF list
  <2>4. AllResolved(list)
    BY <1>3, <2>2, <2>3
  <2>5. QED
    BY <2>4 DEF list
<1>5. ASSUME NEW n \in DOMAIN parameters PROVE AllResolved(SubpathsOf(n))
  <2> DEFINE list == SubpathsOf(n)
  <2>1. list \in Seq(Str)
    BY SubpathsAreStrings
  <2>2. \A s \in ToSet(list) : \A name \in References(s) : SubpathsOf(name) # <<>>
    BY DEF OnlyParameters
  <2> HIDE DEF list
  <2>3. AllResolved(list)
    BY <1>3, <2>1, <2>2
  <2>4. QED
    BY <2>3 DEF list
<1>6. QED
  BY <1>4, <1>5

PathListInv ==
  (mode = "paths" /\ Grounded /\ OnlyParameters /\ ListFormed) =>
    /\ AllResolved(paths)
    /\ ListOnTheWay(mode, Stands, paths, i, ListExpanding)
    /\ pc = "done" => ToSet(paths) = ListExpanding

\* No path is settled at first.
LEMMA NothingSettled ==
  ASSUME NEW list \in Seq(Str)
  PROVE  1 \in 1 .. Len(list) + 1 /\ Settled(list, 1 - 1)
BY DEF Settled

\* The list begins with the whole text.
LEMMA PathListBegins ==
  ASSUME Arguments, mode = "paths", OnlyParameters, ListFormed, paths = Split(text, ";"), i = 1
  PROVE  AllResolved(paths) /\ ListOnTheWay(mode, Stands, paths, i, ListExpanding)
<1> DEFINE list == Split(text, ";")
<1>1. list \in Seq(Str)
  <2>1. text \in Str
    BY ArgumentsAreStrings DEF Arguments
  <2>2. QED
    BY <2>1, SplitIsList
<1>2. \A s \in ToSet(list) : WellFormed(s)
  BY DEF ListFormed, TextPaths
<1>3. ListExpanding = UNION {Filled(mode, Stands, s) : s \in ToSet(list)}
  BY DEF ListExpanding, TextPaths, Expanding, Stands
<1>4. AllResolved(list)
  BY OnlyParametersResolve
<1> HIDE DEF list
<1>5. AllFormed(list)
  BY <1>1, <1>2 DEF AllFormed, ToSet
<1>6. AllFilled(mode, Stands, list) = ListExpanding
  BY <1>3 DEF AllFilled, ToSet
<1>7. 1 \in 1 .. Len(list) + 1 /\ Settled(list, 1 - 1)
  BY <1>1, NothingSettled
<1>8. paths = list
  BY DEF list
<1>9. QED
  BY <1>5, <1>6, <1>7, <1>8, <1>4 DEF ListOnTheWay

\* A list without braces is what it becomes.
LEMMA SettledIsDone ==
  ASSUME NEW how \in Modes, NEW E, OfStrings(E), NEW list, AllFormed(list), Settled(list, Len(list))
  PROVE  ToSet(list) = AllFilled(how, E, list)
<1>1. DOMAIN list = 1 .. Len(list) /\ \A j \in DOMAIN list : list[j] \in Str
  BY DEF AllFormed
<1>2. \A j \in DOMAIN list : Filled(how, E, list[j]) = {list[j]}
  <2>1. ASSUME NEW j \in DOMAIN list PROVE Filled(how, E, list[j]) = {list[j]}
    <3> DEFINE s == list[j]
    <3>1. s \in Str /\ Plain(s)
      BY <1>1 DEF Settled
    <3> HIDE DEF s
    <3>2. Filled(how, E, s) = {s}
      BY <3>1, FilledPlain
    <3>3. QED
      BY <3>2 DEF s
  <2>2. QED
    BY <2>1
<1>3. QED
  BY <1>2 DEF AllFilled, ToSet

\* A round changes the list but not what it becomes.
LEMMA PathListGoesOn ==
  ASSUME Arguments, mode = "paths", Grounded, OnlyParameters, AllResolved(paths),
         NEW X, ListOnTheWay(mode, Stands, paths, i, X), PathListStep
  PROVE  /\ AllResolved(paths')
         /\ ListOnTheWay(mode, Stands, paths', i', X)
         /\ pc' = "done" => ToSet(paths') = X
<1> DEFINE E == Stands
           n == Len(paths)
<1>1. /\ AllFormed(paths) /\ i \in 1 .. n + 1 /\ Settled(paths, i - 1)
      /\ AllFilled(mode, E, paths) = X
  BY DEF ListOnTheWay
<1>2. mode \in Modes /\ OfStrings(E)
  BY StandsForStrings
<1>3. n \in Nat /\ DOMAIN paths = 1 .. n /\ paths \in Seq(Str)
  BY <1>1 DEF AllFormed
<1>4. (UNCHANGED parameters) /\ (UNCHANGED paths => AllResolved(paths'))
  BY DEF PathListStep, AllResolved, Resolved, Strangers
<1>5. CASE i > n
  <2>1. paths' = paths /\ i' = i
    BY <1>5 DEF PathListStep
  <2> HIDE DEF E
  <2>2. i - 1 = n
    BY <1>1, <1>3, <1>5
  <2>3. ToSet(paths) = AllFilled(mode, E, paths)
    BY <1>1, <1>2, <2>2, SettledIsDone
  <2>4. QED
    BY <1>1, <1>4, <2>1, <2>3 DEF ListOnTheWay, E
<1>6. CASE ~(i > n)
  <2> DEFINE path == paths[i]
             ref == Reference(path, 1)
             values == SubpathsOf(ref.name)
             more == WithValues(path, ref, values)
  <2>1. /\ pc' = pc /\ pc = "loop"
        /\ IF ref.start = 0 THEN i' = i + 1 /\ UNCHANGED paths
           ELSE paths' = RemoveAt(paths, i) \o Expanded(path, ref) /\ UNCHANGED i
    BY <1>6 DEF PathListStep
  <2>2. i \in 1 .. n /\ i + 1 \in 1 .. n + 1 /\ (i + 1) - 1 = i
    BY <1>1, <1>3, <1>6
  <2>3. path \in Str /\ WellFormed(path)
    BY <1>1, <1>3, <2>2 DEF AllFormed
  <2>4. Expanded(path, ref) = more
    BY DEF Expanded, WithValues
  <2>5. pc' # "done"
    BY <2>1
  <2> HIDE DEF path, ref, E
  <2>6. 1 \in 1 .. Len(path) + 1 /\ FormedFrom(path, 1)
    BY <1>2, <2>3, BecomesWhole, Characters
  <2>7. \/ ref.start = 0 /\ \A k \in 1 .. Len(path) : Bare(path, k)
        \/ Found(path, 1, ref)
    BY <2>3, <2>6, ReferenceIs DEF ref
  <2>8. CASE ref.start = 0 /\ \A k \in 1 .. Len(path) : Bare(path, k)
    <3>1. paths' = paths /\ i' = i + 1
      BY <2>1, <2>8
    <3>2. Plain(path)
      BY <2>8 DEF Plain, Bare
    <3>3. Settled(paths, (i + 1) - 1)
      <4>1. ASSUME NEW j \in 1 .. i PROVE Plain(paths[j])
        <5>1. CASE j = i
          BY <3>2, <5>1 DEF path
        <5>2. CASE j # i
          <6>1. j \in 1 .. i - 1
            BY <2>2, <5>2
          <6>2. QED
            BY <1>1, <6>1 DEF Settled
        <5>3. QED
          BY <5>1, <5>2
      <4>2. QED
        BY <2>2, <4>1 DEF Settled
    <3>4. QED
      BY <1>1, <1>4, <2>2, <2>5, <3>1, <3>3 DEF ListOnTheWay, E
  <2>9. CASE Found(path, 1, ref)
    <3>1. ref.start # 0
      BY <2>9 DEF Found
    <3>2. paths' = RemoveAt(paths, i) \o more /\ i' = i
      BY <2>1, <2>4, <3>1
    <3>3. Resolved(path)
      BY <1>3, <2>2 DEF path, AllResolved, ToSet
    <3>4. ref.name \in DOMAIN parameters
      BY <2>3, <2>9, <3>3, ResolvedReference
    <3>5. AllFormed(values) /\ StandsFor(mode, E, ref.name, AllFilled(mode, E, values))
      BY <3>4, SubpathsStandFor DEF E
    <3>6. AllResolved(values)
      BY <3>4, OnlyParametersResolve
    <3> HIDE DEF values
    <3>7. AllResolved(more)
      <4>1. ASSUME NEW j \in DOMAIN values PROVE Resolved(Replaced(path, ref, values[j]))
        <5>1. values[j] \in Str /\ WellFormed(values[j]) /\ Resolved(values[j])
          BY <3>5, <3>6 DEF AllFormed, AllResolved, ToSet
        <5>2. QED
          BY <2>3, <2>9, <3>3, <5>1, ResolvedWithValue
      <4>2. QED
        BY <4>1 DEF WithValues, AllResolved, ToSet
    <3>8. AllFormed(more) /\ AllFilled(mode, E, more) = Filled(mode, E, path)
      BY <1>2, <2>3, <2>9, <3>5, PathsWithValues
    <3> HIDE DEF more
    <3>9. InPlaceOf(mode, E, more, paths[i])
      BY <3>8 DEF InPlaceOf, path
    <3> DEFINE t == RemoveAt(paths, i) \o more
    <3>10. /\ AllFormed(t) /\ i \in 1 .. Len(t) + 1
           /\ Settled(paths, i - 1) => Settled(t, i - 1)
           /\ AllFilled(mode, E, t) = AllFilled(mode, E, paths)
      BY <1>1, <2>2, <3>8, <3>9, ListWithout
    <3>11. ToSet(t) \subseteq ToSet(paths) \union ToSet(more)
      BY <1>3, <2>2, <3>8, MembersWithout DEF AllFormed
    <3> HIDE DEF t
    <3>12. paths' = t
      BY <3>2 DEF t
    <3>13. AllResolved(paths')
      <4>1. \A s \in ToSet(t) : Resolved(s)
        BY <3>7, <3>11 DEF AllResolved
      <4>2. QED
        BY <3>12, <4>1 DEF AllResolved
    <3>14. QED
      BY <1>1, <2>5, <3>2, <3>10, <3>12, <3>13 DEF ListOnTheWay, E
  <2>10. QED
    BY <2>7, <2>8, <2>9
<1>7. QED
  BY <1>5, <1>6

-----------------------------------------------------------------------------
(* The invariant.                                                          *)

Inv == Arguments /\ SubstituteInv /\ PathListInv

\* The invariant holds at first, ...
LEMMA InitInv == Init => Inv
<1> SUFFICES ASSUME Init PROVE Inv
  OBVIOUS
<1>1. Arguments
  <2>1. PICK known \in SUBSET Names : parameters \in [known -> Values]
    BY DEF Init
  <2>2. QED
    BY <2>1 DEF Init, Arguments
<1>2. pc = "loop" /\ i = 1 /\ p1 = 1
  BY DEF Init
<1>3. SubstituteInv
  <2>1. mode # "paths" => res = text
    BY DEF Init
  <2>2. QED
    BY <1>1, <1>2, <2>1, SubstituteBegins DEF SubstituteInv
<1>4. PathListInv
  <2>1. mode = "paths" => paths = Split(text, ";")
    BY DEF Init
  <2>2. QED
    BY <1>1, <1>2, <2>1, PathListBegins DEF PathListInv
<1>5. QED
  BY <1>1, <1>3, <1>4 DEF Inv

\* What the properties compare the result with is the same after a step.
LEMMA ArgumentsStay ==
  ASSUME UNCHANGED <<parameters, text, mode>>
  PROVE  /\ Arguments' <=> Arguments
         /\ Grounded' <=> Grounded
         /\ ListFormed' <=> ListFormed
         /\ OnlyParameters' <=> OnlyParameters
         /\ Stands' = Stands
         /\ Expanding(text)' = Expanding(text)
         /\ ListExpanding' = ListExpanding
<1>1. Alternatives' = Alternatives /\ (Grounded' <=> Grounded)
  BY AlternativesStay
<1>2. Stands' = Stands
  BY <1>1 DEF Stands
<1>3. Expanding(text)' = Expanding(text)
  BY <1>1 DEF Expanding
<1>4. ListExpanding' = ListExpanding
  BY <1>1 DEF ListExpanding, TextPaths, Expanding
<1>5. OnlyParameters' <=> OnlyParameters
  BY DEF OnlyParameters, TextPaths, SubpathsOf, Subpaths
<1>6. QED
  BY <1>1, <1>2, <1>3, <1>4, <1>5 DEF Arguments, ListFormed, TextPaths

\* ... every round keeps it, ...
LEMMA StepInv == Inv /\ [Next]_vars => Inv'
<1> SUFFICES ASSUME Inv, [Next]_vars PROVE Inv'
  OBVIOUS
<1>1. UNCHANGED <<parameters, text, mode>>
  BY DEF Next, SubstituteStep, PathListStep, vars
<1>2. /\ Arguments' /\ (Grounded' <=> Grounded) /\ (ListFormed' <=> ListFormed) /\ Stands' = Stands
      /\ (OnlyParameters' <=> OnlyParameters)
      /\ Expanding(text)' = Expanding(text) /\ ListExpanding' = ListExpanding
  BY <1>1, ArgumentsStay DEF Inv
<1>3. Arguments /\ SubstituteInv /\ PathListInv
  BY DEF Inv
<1>4. CASE SubstituteStep
  <2>1. mode # "paths"
    BY <1>4 DEF SubstituteStep
  <2>2. PathListInv'
    BY <1>1, <2>1 DEF PathListInv
  <2>3. SubstituteInv'
    <3> SUFFICES ASSUME Grounded', WellFormed(text)'
                 PROVE  /\ OnTheWay(mode', Stands', res', p1', Expanding(text)')
                        /\ pc' = "done" => {res'} = Expanding(text)'
      BY DEF SubstituteInv
    <3>1. Grounded /\ WellFormed(text)
      BY <1>1, <1>2
    <3> DEFINE X == Expanding(text)
    <3>2. OnTheWay(mode, Stands, res, p1, X)
      BY <1>3, <2>1, <3>1 DEF SubstituteInv
    <3> HIDE DEF X
    <3>3. /\ OnTheWay(mode, Stands, res', p1', X)
          /\ pc' = "done" => {res'} = X
      BY <1>3, <1>4, <2>1, <3>1, <3>2, SubstituteGoesOn
    <3>4. Expanding(text)' = X
      BY <1>2 DEF X
    <3>5. QED
      BY <1>1, <1>2, <3>3, <3>4
  <2>4. QED
    BY <1>2, <2>2, <2>3 DEF Inv
<1>5. CASE PathListStep
  <2>1. mode = "paths"
    BY <1>5 DEF PathListStep
  <2>2. SubstituteInv'
    BY <1>1, <2>1 DEF SubstituteInv
  <2>3. PathListInv'
    <3> SUFFICES ASSUME Grounded', OnlyParameters', ListFormed'
                 PROVE  /\ AllResolved(paths)'
                        /\ ListOnTheWay(mode', Stands', paths', i', ListExpanding')
                        /\ pc' = "done" => ToSet(paths') = ListExpanding'
      BY DEF PathListInv
    <3>1. Grounded /\ OnlyParameters /\ ListFormed
      BY <1>2
    <3> DEFINE X == ListExpanding
    <3>2. ListOnTheWay(mode, Stands, paths, i, X) /\ AllResolved(paths)
      BY <1>3, <2>1, <3>1 DEF PathListInv
    <3> HIDE DEF X
    <3>3. /\ AllResolved(paths')
          /\ ListOnTheWay(mode, Stands, paths', i', X)
          /\ pc' = "done" => ToSet(paths') = X
      BY <1>3, <1>5, <2>1, <3>1, <3>2, PathListGoesOn
    <3>4. ListExpanding' = X
      BY <1>2 DEF X
    <3>5. AllResolved(paths)'
      BY <1>1, <3>3 DEF AllResolved, Resolved, Strangers
    <3>6. QED
      BY <1>1, <1>2, <3>3, <3>4, <3>5
  <2>4. QED
    BY <1>2, <2>2, <2>3 DEF Inv
<1>6. CASE UNCHANGED vars
  <2>1. UNCHANGED <<res, p1, paths, i, pc>>
    BY <1>6 DEF vars, locals
  <2>2. SubstituteInv'
    BY <1>1, <1>2, <1>3, <2>1 DEF SubstituteInv
  <2>3. AllResolved(paths)' <=> AllResolved(paths)
    BY <1>1, <2>1 DEF AllResolved, Resolved, Strangers
  <2>4. PathListInv'
    BY <1>1, <1>2, <1>3, <2>1, <2>3 DEF PathListInv
  <2>5. QED
    BY <1>2, <2>2, <2>4 DEF Inv
<1>7. QED
  BY <1>4, <1>5, <1>6 DEF Next

\* ... and at the end it says what the result is.
LEMMA InvIsEnough == Inv => ResultIsExpansion
<1> SUFFICES ASSUME Inv, pc = "done", Grounded
             PROVE  IF mode = "paths" THEN (OnlyParameters /\ ListFormed) => ToSet(paths) = ListExpanding
                    ELSE WellFormed(text) => {res} = Expanding(text)
  BY DEF ResultIsExpansion
<1>1. QED
  BY DEF Inv, SubstituteInv, PathListInv

(* When Substitute() or SubstitutePathList() returns, every reference has  *)
(* been replaced by all that it stands for - the values of the parameters  *)
(* it names, of those these refer to and so on, to any depth - for any     *)
(* finite set of names, any values and texts, whatever their lengths, if   *)
(* the values are well formed and no parameter refers to itself through    *)
(* others; in path lists, if they name only parameters that have a path.   *)
THEOREM ReferencesAreReplaced == Spec => []ResultIsExpansion
BY InitInv, StepInv, InvIsEnough, PTL DEF Spec

-----------------------------------------------------------------------------
(* The positions of the searches, whatever the text and the values.        *)

\* A reference that is found lies in the string.
LEMMA ReferenceInString ==
  ASSUME NEW s \in Str, NEW p \in 1 .. Len(s) + 1
  PROVE  \/ Reference(s, p).start = 0
         \/ /\ Reference(s, p).start \in 1 .. Len(s)
            /\ Reference(s, p).end \in Reference(s, p).start .. Len(s)
<1> DEFINE n == Len(s)
           L == {"{"}
           R == {"}"}
           o == Until(s, p, L)
           q == o + 1
           c == Until(s, q, R)
           ref == Reference(s, p)
<1>1. n \in Nat /\ p \in 1 .. n + 1
  BY Characters
<1>2. o \in p .. n + 1
  <2> HIDE DEF L
  <2>1. QED
    BY <1>1, UntilIs
<1>3. ref = IF (IF o > n THEN o ELSE c) > n THEN [start |-> 0, end |-> 0, name |-> <<>>]
            ELSE [start |-> o, end |-> (IF o > n THEN o ELSE c),
                  name |-> SubSeq(s, o + 1, (IF o > n THEN o ELSE c) - 1)]
  BY DEF Reference
<1> HIDE DEF n, L, R, o, c, ref
<1>4. CASE o > n
  BY <1>3, <1>4 DEF ref
<1>5. CASE o <= n
  <2>1. q \in 1 .. n + 1 /\ q = o + 1 /\ o \in 1 .. n /\ ~(o > n)
    BY <1>1, <1>2, <1>5
  <2>2. c \in q .. n + 1
    <3> HIDE DEF q
    <3>1. QED
      BY <1>1, <2>1, UntilIs DEF c, n
  <2>3. CASE c > n
    BY <1>3, <2>1, <2>3 DEF ref
  <2>4. CASE ~(c > n)
    <3>1. ref.start = o /\ ref.end = c
      BY <1>3, <2>1, <2>4
    <3>2. c \in o .. n
      BY <1>1, <2>1, <2>2, <2>4
    <3>3. QED
      BY <2>1, <3>1, <3>2 DEF ref, n
  <2>5. QED
    BY <2>3, <2>4
<1>6. QED
  BY <1>1, <1>2, <1>4, <1>5

\* What the string is with a value in its place.
LEMMA ReplacedIs ==
  ASSUME NEW s \in Str, NEW ref, ref.start \in 1 .. Len(s), ref.end \in ref.start .. Len(s), NEW v \in Str
  PROVE  Replaced(s, ref, v) \in Str /\ ref.start \in 1 .. Len(Replaced(s, ref, v)) + 1
<1> DEFINE n == Len(s)
           o == ref.start
           e == ref.end
           h == o - 1
           q == e + 1
           a == SubSeq(s, 1, h)
           b == SubSeq(s, q, n)
           c == a \o v
           t == c \o b
<1>1. n \in Nat /\ o \in 1 .. n /\ e \in o .. n /\ h = o - 1 /\ q = e + 1
  BY Characters
<1>2. t = Replaced(s, ref, v)
  BY DEF Replaced, From
<1> HIDE DEF o, e, h, q, n
<1>3. 1 \in 1 .. n + 1 /\ h \in 1 - 1 .. n /\ q \in 1 .. n + 1 /\ n \in q - 1 .. n /\ h - 1 + 1 = h
  BY <1>1
<1>4. a \in Str /\ Len(a) = h
  <2>1. a \in Str /\ Len(a) = h - 1 + 1
    BY <1>3, Part DEF n
  <2>2. QED
    BY <1>3, <2>1
<1>5. b \in Str
  BY <1>3, Part DEF n
<1> HIDE DEF a, b
<1>6. c \in Str /\ Len(c) = Len(a) + Len(v) /\ Len(v) \in Nat
  BY <1>4, Both, Characters
<1> HIDE DEF c
<1>7. t \in Str /\ Len(t) = Len(c) + Len(b) /\ Len(b) \in Nat
  BY <1>5, <1>6, Both, Characters
<1> HIDE DEF t
<1>8. o \in 1 .. Len(t) + 1
  <2> DEFINE x == Len(v)
             y == Len(b)
             z == Len(t)
             w == Len(c)
  <2>1. x \in Nat /\ y \in Nat /\ w = h + x /\ z = w + y
    BY <1>4, <1>6, <1>7
  <2> HIDE DEF x, y, z, w
  <2>2. o \in 1 .. z + 1
    BY <1>1, <2>1
  <2>3. QED
    BY <2>2 DEF z
<1>9. QED
  BY <1>2, <1>7, <1>8 DEF o

\* A list without one of its elements.
LEMMA RemovedIs ==
  ASSUME NEW S, NEW list \in Seq(S), NEW k \in 1 .. Len(list)
  PROVE  RemoveAt(list, k) \in Seq(S) /\ Len(RemoveAt(list, k)) = Len(list) - 1
<1> DEFINE n == Len(list)
           h == k - 1
           q == k + 1
           a == SubSeq(list, 1, h)
           b == SubSeq(list, q, n)
<1>1. n \in Nat /\ k \in 1 .. n /\ \A j \in 1 .. n : list[j] \in S
  OBVIOUS
<1>2. RemoveAt(list, k) = a \o b
  BY DEF RemoveAt
<1> HIDE DEF n
<1>3. h \in Int /\ q \in Int /\ n \in Int /\ h = k - 1 /\ q = k + 1
  BY <1>1
<1> HIDE DEF h, q
<1>4. (\A j \in 1 .. h : list[j] \in S) /\ \A j \in q .. n : list[j] \in S
  BY <1>1, <1>3
<1>5. a \in Seq(S) /\ Len(a) = IF 1 <= h THEN h - 1 + 1 ELSE 0
  BY <1>3, <1>4, SubSeqProperties
<1>6. b \in Seq(S) /\ Len(b) = IF q <= n THEN n - q + 1 ELSE 0
  BY <1>3, <1>4, SubSeqProperties
<1> HIDE DEF a, b
<1>7. a \o b \in Seq(S) /\ Len(a \o b) = Len(a) + Len(b)
  BY <1>5, <1>6, ConcatProperties
<1>8. Len(a) + Len(b) = n - 1
  <2> DEFINE x == Len(a)
             y == Len(b)
  <2>1. (x = IF 1 <= h THEN h - 1 + 1 ELSE 0) /\ (y = IF q <= n THEN n - q + 1 ELSE 0)
    BY <1>5, <1>6
  <2> HIDE DEF x, y
  <2>2. x + y = n - 1
    BY <1>1, <1>3, <2>1
  <2>3. QED
    BY <2>2 DEF x, y
<1>9. QED
  BY <1>2, <1>7, <1>8 DEF n

\* A list of strings is flattened to a string.
LEMMA FlatIs ==
  ASSUME NEW list \in Seq(Str)
  PROVE  FlattenSeq(list) \in Str
<1> DEFINE n == Len(list)
           V == Str
           F == [k \in 1 .. n |-> [x \in V |-> x \o list[k]]]
           Rec(f) == f = [k \in 1 .. n |-> IF k = 1 THEN list[k] ELSE f[k - 1] \o list[k]]
           u == CHOOSE f : Rec(f)
<1>1. n \in Nat /\ \A k \in 1 .. n : list[k] \in Str
  OBVIOUS
<1>2. CASE n = 0
  <2>1. list = <<>>
    BY <1>2
  <2>2. QED
    BY <2>1, Concatenation DEF FlattenSeq
<1>3. CASE n # 0
  <2>1. FlattenSeq(list) = u[n]
    BY <1>3 DEF FlattenSeq
  <2> HIDE DEF n, V
  <2>2. F \in [1 .. n -> [V -> V]] /\ <<>> \in V
    BY <1>1, Concatenation DEF V
  <2>3. PICK f : GoesOn(f, n, V, <<>>, F)
    <3> DEFINE v == <<>>
    <3>1. v \in V
      BY <2>2
    <3> HIDE DEF F, v
    <3>2. \E f : GoesOn(f, n, V, v, F)
      BY <1>1, <2>2, <3>1, RecursionExists
    <3>3. QED
      BY <3>2 DEF v
  <2>4. f \in [0 .. n -> V] /\ f[0] = <<>>
    BY <2>3 DEF GoesOn
  <2>5. ASSUME NEW k \in 1 .. n PROVE f[k] = f[k - 1] \o list[k]
    <3>1. k - 1 \in 0 .. n /\ f[k - 1] \in V
      BY <1>1, <2>4
    <3>2. f[k] = F[k][f[k - 1]]
      BY <2>3 DEF GoesOn
    <3>3. QED
      BY <3>1, <3>2
  <2> DEFINE g == [k \in 1 .. n |-> f[k]]
  <2>6. Rec(g)
    <3> HIDE DEF F
    <3>1. ASSUME NEW k \in 1 .. n PROVE g[k] = IF k = 1 THEN list[k] ELSE g[k - 1] \o list[k]
      <4>1. CASE k = 1
        <5>1. k - 1 = 0
          BY <4>1
        <5>2. f[k] = f[0] \o list[k]
          BY <2>5, <5>1
        <5>3. f[k] = list[k]
          BY <1>1, <2>4, <5>2, Concatenation
        <5>4. QED
          BY <4>1, <5>3
      <4>2. CASE k # 1
        <5>1. k - 1 \in 1 .. n
          BY <1>1, <4>2
        <5>2. QED
          BY <2>5, <4>2, <5>1
      <4>3. QED
        BY <4>1, <4>2
    <3>2. QED
      BY <3>1
  <2>7. Rec(u)
    <3> HIDE DEF Rec, g
    <3>1. QED
      BY <2>6
  <2> HIDE DEF u
  <2> DEFINE T == {k \in Nat : (k # 0 /\ k <= n) => u[k] \in Str}
  <2>8. Nat \subseteq T
    <3>1. 0 \in T
      OBVIOUS
    <3>2. ASSUME NEW k \in Nat, k \in T PROVE k + 1 \in T
      <4>1. CASE k + 1 <= n
        <5> DEFINE l == k + 1
        <5>1. l \in 1 .. n /\ l - 1 = k /\ list[l] \in Str
          BY <1>1, <4>1
        <5>2. u[l] = IF l = 1 THEN list[l] ELSE u[l - 1] \o list[l]
          BY <2>7, <5>1
        <5>3. l # 1 => u[k] \in Str
          BY <1>1, <3>2, <4>1
        <5> HIDE DEF l
        <5>4. u[l] \in Str
          <6>1. CASE l = 1
            BY <5>1, <5>2, <6>1
          <6>2. CASE l # 1
            BY <5>1, <5>2, <5>3, <6>2, Concatenation
          <6>3. QED
            BY <6>1, <6>2
        <5>5. QED
          BY <5>4 DEF l
      <4>2. CASE ~(k + 1 <= n)
        BY <4>2
      <4>3. QED
        BY <4>1, <4>2
    <3> HIDE DEF T
    <3>3. QED
      BY <3>1, <3>2, NumbersAreInductive
  <2>9. u[n] \in Str
    BY <1>1, <1>3, <2>8
  <2>10. QED
    BY <2>1, <2>9
<1>4. QED
  BY <1>2, <1>3

\* And joined to one.
LEMMA JoinIs ==
  ASSUME NEW list \in Seq(Str)
  PROVE  Join(list, ";") \in Str
<1> DEFINE c == <<";">>
           more == [k \in DOMAIN list |-> c \o list[k]]
           s == FlattenSeq(more)
<1>1. c \in Str
  <2>1. ";" \in Chars
    BY DEF Chars
  <2>2. QED
    BY <2>1, OneCharacter
<1> HIDE DEF c
<1>2. DOMAIN list = 1 .. Len(list) /\ Len(list) \in Nat /\ \A k \in DOMAIN list : c \o list[k] \in Str
  BY <1>1, Concatenation
<1>3. more \in Seq(Str)
  BY <1>2
<1>4. Join(list, ";") = IF list = <<>> THEN <<>> ELSE Tail(s)
  BY DEF Join, c
<1> HIDE DEF more
<1>5. s \in Str
  BY <1>3, FlatIs
<1> HIDE DEF s
<1>6. Tail(s) \in Str
  <2> DEFINE n == Len(s)
  <2>1. n \in Nat /\ Tail(s) = SubSeq(s, 2, n)
    BY <1>5, Characters
  <2>2. CASE n = 0
    <3>1. SubSeq(s, 2, n) = <<>>
      BY <2>2, SubSeqEmpty
    <3>2. QED
      BY <2>1, <3>1, Concatenation
  <2>3. CASE n # 0
    <3>1. 2 \in 1 .. n + 1 /\ n \in 2 - 1 .. n
      BY <2>1, <2>3
    <3> HIDE DEF n
    <3>2. SubSeq(s, 2, n) \in Str
      BY <1>5, <3>1, Part DEF n
    <3>3. QED
      BY <2>1, <3>2
  <2>4. QED
    BY <2>2, <2>3
<1>7. QED
  BY <1>4, <1>6, Concatenation

\* The types of the strings the calls work on.
Typed ==
  /\ TypeOK
  /\ mode # "paths" => res \in Str
  /\ mode = "paths" => paths \in Seq(Str) /\ p1 = 1

\* The first position, of the empty string too.
LEMMA FirstPosition == ASSUME NEW s \in Str PROVE 1 \in 1 .. Len(s) + 1
BY Characters

\* The initial states.
LEMMA InitTyped == Init => Typed
<1> SUFFICES ASSUME Init PROVE Typed
  OBVIOUS
<1>1. Arguments
  <2>1. PICK known \in SUBSET Names : parameters \in [known -> Values]
    BY DEF Init
  <2>2. QED
    BY <2>1 DEF Init, Arguments
<1>2. text \in Str
  BY <1>1, ArgumentsAreStrings DEF Arguments
<1>3. res \in Str /\ paths \in Seq(Str)
  <2>1. Split(text, ";") \in Seq(Str)
    BY <1>2, SplitIsList
  <2>2. <<>> \in Str /\ <<>> \in Seq(Str)
    BY Concatenation
  <2>3. CASE mode = "paths"
    <3>1. res = <<>> /\ paths = Split(text, ";")
      BY <2>3 DEF Init
    <3>2. QED
      BY <2>1, <2>2, <3>1
  <2>4. CASE mode # "paths"
    <3>1. res = text /\ paths = <<>>
      BY <2>4 DEF Init
    <3>2. QED
      BY <1>2, <2>2, <3>1
  <2>5. QED
    BY <2>3, <2>4
<1>4. 1 \in 1 .. Len(res) + 1
  BY <1>3, Characters
<1>5. 1 \in 1 .. Len(paths) + 1
  BY <1>3, NothingSettled
<1>6. p1 = 1 /\ i = 1 /\ pc = "loop"
  BY DEF Init
<1>7. QED
  BY <1>1, <1>3, <1>4, <1>5, <1>6 DEF Typed, TypeOK, Arguments

\* The positions after a reference is replaced or passed over.
LEMMA ReplacedIsTyped ==
  ASSUME NEW s \in Str, NEW p \in 1 .. Len(s) + 1, NEW v \in Str, Reference(s, p).start # 0
  PROVE  LET ref == Reference(s, p)
         IN  /\ Replaced(s, ref, v) \in Str /\ ref.start \in 1 .. Len(Replaced(s, ref, v)) + 1
             /\ ref.end + 1 \in 1 .. Len(s) + 1
<1> DEFINE ref == Reference(s, p)
<1>1. ref.start \in 1 .. Len(s) /\ ref.end \in ref.start .. Len(s)
  BY ReferenceInString
<1> HIDE DEF ref
<1>2. Replaced(s, ref, v) \in Str /\ ref.start \in 1 .. Len(Replaced(s, ref, v)) + 1
  BY <1>1, ReplacedIs
<1>3. ref.end + 1 \in 1 .. Len(s) + 1
  <2> DEFINE n == Len(s)
             o == ref.start
             e == ref.end
  <2>1. n \in Nat /\ o \in 1 .. n /\ e \in o .. n
    BY <1>1, Characters
  <2> HIDE DEF n, o, e
  <2>2. e + 1 \in 1 .. n + 1
    BY <2>1
  <2>3. QED
    BY <2>2 DEF n, e
<1>4. QED
  BY <1>2, <1>3 DEF ref

\* A round of Substitute().
LEMMA SubstituteTyped ==
  ASSUME Typed, SubstituteStep
  PROVE  res' \in Str /\ p1' \in 1 .. Len(res') + 1 /\ pc' \in {"loop", "done"}
<1> DEFINE ref == Reference(res, p1)
<1>1. res \in Str /\ p1 \in 1 .. Len(res) + 1 /\ Arguments
  BY DEF Typed, TypeOK, SubstituteStep, Arguments
<1>2. /\ pc = "loop"
      /\ IF ref.start = 0 THEN pc' = "done" /\ UNCHANGED <<res, p1>>
         ELSE /\ pc' = pc
              /\ IF ref.name \in DOMAIN Known
                   THEN res' = Replaced(res, ref, Known[ref.name]) /\ p1' = ref.start
                 ELSE IF mode = "blank"
                   THEN res' = Replaced(res, ref, <<>>) /\ p1' = ref.start
                   ELSE res' = res /\ p1' = ref.end + 1
  BY DEF SubstituteStep
<1>3. <<>> \in Str /\ \A name \in DOMAIN Known : Known[name] \in Str
  BY <1>1, ArgumentsAreStrings, Concatenation DEF Arguments, Known
<1>4. ASSUME ref.start # 0, NEW v \in Str
      PROVE  /\ Replaced(res, ref, v) \in Str /\ ref.start \in 1 .. Len(Replaced(res, ref, v)) + 1
             /\ ref.end + 1 \in 1 .. Len(res) + 1
  BY <1>1, <1>4, ReplacedIsTyped
<1> HIDE DEF ref
<1>5. CASE ref.start = 0
  BY <1>1, <1>2, <1>5
<1>6. CASE ref.start # 0 /\ ref.name \in DOMAIN Known
  <2> DEFINE v == Known[ref.name]
             t == Replaced(res, ref, v)
  <2>1. v \in Str /\ res' = t /\ p1' = ref.start
    BY <1>2, <1>3, <1>6
  <2>2. t \in Str /\ ref.start \in 1 .. Len(t) + 1
    BY <1>4, <1>6, <2>1
  <2>3. QED
    BY <1>2, <1>6, <2>1, <2>2
<1>7. CASE ref.start # 0 /\ ref.name \notin DOMAIN Known /\ mode = "blank"
  <2> DEFINE t == Replaced(res, ref, <<>>)
  <2>1. res' = t /\ p1' = ref.start
    BY <1>2, <1>7
  <2>2. t \in Str /\ ref.start \in 1 .. Len(t) + 1
    BY <1>3, <1>4, <1>7
  <2>3. QED
    BY <1>2, <1>7, <2>1, <2>2
<1>8. CASE ref.start # 0 /\ ref.name \notin DOMAIN Known /\ mode # "blank"
  <2>1. res' = res /\ p1' = ref.end + 1
    BY <1>2, <1>8
  <2>2. ref.end + 1 \in 1 .. Len(res) + 1
    BY <1>3, <1>4, <1>8
  <2>3. QED
    BY <1>1, <1>2, <1>8, <2>1, <2>2
<1>9. QED
  BY <1>5, <1>6, <1>7, <1>8

\* A round of SubstitutePathList().
LEMMA PathListTyped ==
  ASSUME Typed, PathListStep
  PROVE  /\ paths' \in Seq(Str) /\ i' \in 1 .. Len(paths') + 1 /\ pc' \in {"loop", "done"}
         /\ p1' \in 1 .. Len(res') + 1
<1> DEFINE n == Len(paths)
           path == paths[i]
           ref == Reference(path, 1)
           values == SubpathsOf(ref.name)
           more == WithValues(path, ref, values)
<1>1. mode = "paths" /\ pc = "loop" /\ p1' = p1
  BY DEF PathListStep
<1>2. paths \in Seq(Str) /\ p1 = 1 /\ i \in 1 .. n + 1 /\ Arguments
  BY <1>1 DEF Typed, TypeOK, Arguments
<1>3. p1 \in 1 .. Len(res) + 1
  BY DEF Typed, TypeOK
<1>4. n \in Nat /\ \A j \in 1 .. n : paths[j] \in Str
  BY <1>2
<1>5. CASE i > n
  <2>1. paths' = paths /\ i' = i /\ pc' = "done" /\ res' = Join(paths, ";")
    BY <1>5 DEF PathListStep
  <2>2. Join(paths, ";") \in Str
    BY <1>2, JoinIs
  <2>3. 1 \in 1 .. Len(res') + 1
    <3> DEFINE s == Join(paths, ";")
    <3> HIDE DEF s
    <3>1. s \in Str
      BY <2>2 DEF s
    <3>2. 1 \in 1 .. Len(s) + 1
      BY <3>1, FirstPosition
    <3>3. QED
      BY <2>1, <3>2 DEF s
  <2>4. QED
    BY <1>1, <1>2, <2>1, <2>3
<1>6. CASE ~(i > n)
  <2>1. /\ pc' = pc /\ res' = res
        /\ IF ref.start = 0 THEN i' = i + 1 /\ UNCHANGED paths
           ELSE paths' = RemoveAt(paths, i) \o Expanded(path, ref) /\ UNCHANGED i
    BY <1>6 DEF PathListStep
  <2>2. i \in 1 .. n /\ i + 1 \in 1 .. n + 1
    BY <1>2, <1>4, <1>6
  <2>3. path \in Str
    BY <1>4, <2>2
  <2>4. Expanded(path, ref) = more
    BY DEF Expanded, WithValues
  <2>5. CASE ref.start = 0
    <3>1. paths' = paths /\ i' = i + 1
      BY <2>1, <2>5
    <3>2. QED
      BY <1>1, <1>2, <1>3, <2>1, <2>2, <3>1
  <2>6. CASE ref.start # 0
    <3>1. paths' = RemoveAt(paths, i) \o more /\ i' = i
      BY <2>1, <2>4, <2>6
    <3>2. values \in Seq(Str)
      <4> DEFINE name == ref.name
      <4> HIDE DEF ref
      <4>1. QED
        BY <1>1, <1>2, SubpathsAreStrings
    <3>3. 1 \in 1 .. Len(path) + 1
      BY <2>3, Characters
    <3>4. ref.start \in 1 .. Len(path) /\ ref.end \in ref.start .. Len(path)
      BY <2>3, <2>6, <3>3, ReferenceInString
    <3> HIDE DEF path, ref, values
    <3>5. more \in Seq(Str)
      <4>1. Len(values) \in Nat /\ DOMAIN values = 1 .. Len(values) /\ \A j \in DOMAIN values : values[j] \in Str
        BY <3>2
      <4>2. \A j \in DOMAIN values : Replaced(path, ref, values[j]) \in Str
        BY <2>3, <3>4, <4>1, ReplacedIs
      <4>3. QED
        BY <4>1, <4>2 DEF WithValues
    <3> DEFINE r == RemoveAt(paths, i)
    <3>6. r \in Seq(Str) /\ Len(r) = n - 1
      BY <1>2, <2>2, RemovedIs
    <3> HIDE DEF more, r
    <3>7. r \o more \in Seq(Str) /\ Len(r \o more) = Len(r) + Len(more) /\ Len(more) \in Nat
      <4>1. Len(more) \in Nat
        BY <3>5
      <4>2. r \o more \in Seq(Str) /\ Len(r \o more) = Len(r) + Len(more)
        BY <3>5, <3>6, ConcatProperties
      <4>3. QED
        BY <4>1, <4>2
    <3>8. i \in 1 .. Len(r \o more) + 1
      <4> DEFINE x == Len(r \o more)
                 y == Len(more)
                 z == Len(r)
      <4>1. y \in Nat /\ x = z + y /\ z = n - 1
        BY <3>6, <3>7
      <4> HIDE DEF n, x, y, z
      <4>2. i \in 1 .. x + 1
        BY <1>4, <2>2, <4>1
      <4>3. QED
        BY <4>2 DEF x
    <3>9. QED
      BY <1>1, <1>2, <1>3, <2>1, <3>1, <3>7, <3>8 DEF r
  <2>7. QED
    BY <2>5, <2>6
<1>7. QED
  BY <1>5, <1>6

\* Every step.
LEMMA StepTyped == Typed /\ [Next]_vars => Typed'
<1> SUFFICES ASSUME Typed, [Next]_vars PROVE Typed'
  OBVIOUS
<1>1. UNCHANGED <<parameters, text, mode>>
  BY DEF Next, SubstituteStep, PathListStep, vars
<1>2. Arguments' /\ TypeOK
  BY <1>1 DEF Typed, TypeOK, Arguments
<1>3. CASE SubstituteStep
  <2>1. mode # "paths" /\ UNCHANGED <<paths, i>>
    BY <1>3 DEF SubstituteStep
  <2>2. res' \in Str /\ p1' \in 1 .. Len(res') + 1 /\ pc' \in {"loop", "done"}
    BY <1>3, SubstituteTyped
  <2>3. i \in 1 .. Len(paths) + 1
    BY <1>2 DEF TypeOK
  <2>4. TypeOK'
    BY <1>2, <2>1, <2>2, <2>3 DEF TypeOK, Arguments
  <2>5. QED
    BY <1>1, <2>1, <2>2, <2>4 DEF Typed
<1>4. CASE PathListStep
  <2>1. mode = "paths" /\ p1' = p1 /\ p1 = 1
    BY <1>4 DEF PathListStep, Typed
  <2>2. /\ paths' \in Seq(Str) /\ i' \in 1 .. Len(paths') + 1 /\ pc' \in {"loop", "done"}
        /\ p1' \in 1 .. Len(res') + 1
    BY <1>4, PathListTyped
  <2>3. TypeOK'
    BY <1>2, <2>2 DEF TypeOK, Arguments
  <2>4. QED
    BY <1>1, <2>1, <2>2, <2>3 DEF Typed
<1>5. CASE UNCHANGED vars
  BY <1>5 DEF vars, locals, Typed, TypeOK
<1>6. QED
  BY <1>3, <1>4, <1>5 DEF Next

(* The search of Substitute() stays in the string, which grows and shrinks *)
(* under it, and that of SubstitutePathList() in the list it removes paths *)
(* from: whatever the text and the values, well formed or not.             *)
THEOREM TypeCorrect == Spec => []TypeOK
<1>1. Typed => TypeOK
  BY DEF Typed
<1>2. QED
  BY <1>1, InitTyped, StepTyped, PTL DEF Spec

\* A sequence is its two parts.
LEMMA CutInTwo ==
  ASSUME NEW S, NEW s \in Seq(S), NEW z \in 0 .. Len(s)
  PROVE  LET first == SubSeq(s, 1, z)
             rest == SubSeq(s, z + 1, Len(s))
         IN  /\ first \in Seq(S) /\ Len(first) = z /\ \A k \in 1 .. z : first[k] = s[k]
             /\ rest \in Seq(S) /\ Len(rest) = Len(s) - z /\ \A k \in 1 .. Len(s) - z : rest[k] = s[k + z]
             /\ s = first \o rest
<1> DEFINE l == Len(s)
           m == z + 1
           first == SubSeq(s, 1, z)
           rest == SubSeq(s, m, l)
<1>1. l \in Nat /\ z \in Nat /\ z <= l /\ m \in Nat /\ m = z + 1 /\ \A at \in 1 .. l : s[at] \in S
  BY ElementOfSeq
<1> HIDE DEF l, m
<1>2. first \in Seq(S) /\ Len(first) = z /\ \A k \in 1 .. z : first[k] = s[k]
  <2>1. \A at \in 1 .. z : s[at] \in S
    BY <1>1
  <2>2. /\ first \in Seq(S) /\ Len(first) = IF 1 <= z THEN z - 1 + 1 ELSE 0
        /\ \A at \in 1 .. z - 1 + 1 : first[at] = s[1 + at - 1]
    BY <1>1, <2>1, SubSeqProperties
  <2> HIDE DEF first
  <2>3. QED
    BY <1>1, <2>2
<1>3. rest \in Seq(S) /\ Len(rest) = l - z /\ \A k \in 1 .. l - z : rest[k] = s[k + z]
  <2>1. \A at \in m .. l : s[at] \in S
    BY <1>1
  <2>2. /\ rest \in Seq(S) /\ Len(rest) = IF m <= l THEN l - m + 1 ELSE 0
        /\ \A at \in 1 .. l - m + 1 : rest[at] = s[m + at - 1]
    BY <1>1, <2>1, SubSeqProperties
  <2>3. l - m + 1 = l - z /\ \A k \in 1 .. l - z : m + k - 1 = k + z
    BY <1>1
  <2> HIDE DEF rest
  <2>4. QED
    BY <1>1, <2>2, <2>3
<1> HIDE DEF first, rest
<1>4. s = first \o rest
  <2> DEFINE t == first \o rest
  <2>1. /\ t \in Seq(S) /\ Len(t) = Len(first) + Len(rest)
        /\ \A at \in 1 .. Len(first) + Len(rest) : t[at] = IF at <= Len(first) THEN first[at] ELSE rest[at - Len(first)]
    <3>1. first \in Seq(S) /\ rest \in Seq(S)
      BY <1>2, <1>3
    <3>2. QED
      BY <3>1, ConcatProperties
  <2> HIDE DEF t
  <2>2. Len(t) = l /\ \A at \in 1 .. l : t[at] = IF at <= z THEN first[at] ELSE rest[at - z]
    <3>1. Len(first) + Len(rest) = l /\ Len(first) = z
      BY <1>1, <1>2, <1>3
    <3>2. QED
      BY <2>1, <3>1
  <2>3. ASSUME NEW at \in 1 .. l PROVE t[at] = s[at]
    <3>1. CASE at <= z
      BY <1>1, <1>2, <2>2, <3>1
    <3>2. CASE at > z
      <4>1. at - z \in 1 .. l - z /\ (at - z) + z = at
        BY <1>1, <3>2
      <4>2. t[at] = rest[at - z] /\ rest[at - z] = s[(at - z) + z]
        BY <1>1, <1>3, <2>2, <3>2, <4>1
      <4>3. QED
        BY <4>1, <4>2
    <3>3. QED
      BY <1>1, <3>1, <3>2
  <2>4. s = t
    BY <2>1, <2>2, <2>3, SeqEqual DEF l
  <2>5. QED
    BY <2>4 DEF t
<1>5. QED
  BY <1>2, <1>3, <1>4 DEF first, rest, l, m

-----------------------------------------------------------------------------

-----------------------------------------------------------------------------
(* Parameter sets.                                                         *)

Name == Seq(STRING)

\* A set whose names are names.
IsSet(ps) == DOMAIN ps \subseteq Name \ {<<>>} /\ ps = [n \in DOMAIN ps |-> ps[n]]

\* Functions are the same if they have the same values.
LEMMA SameSets ==
  ASSUME NEW f, NEW g, f = [x \in DOMAIN f |-> f[x]], g = [x \in DOMAIN g |-> g[x]],
         DOMAIN f = DOMAIN g, \A x \in DOMAIN f : f[x] = g[x]
  PROVE  f = g
<1>1. [x \in DOMAIN f |-> f[x]] = [x \in DOMAIN f |-> g[x]]
  OBVIOUS
<1>2. [x \in DOMAIN f |-> g[x]] = [x \in DOMAIN g |-> g[x]]
  OBVIOUS
<1>3. QED
  BY <1>1, <1>2

\* What one function put into another is.
LEMMA OverProperties ==
  ASSUME NEW f, NEW g
  PROVE  /\ DOMAIN Over(f, g) = DOMAIN f \union DOMAIN g
         /\ \A x \in DOMAIN f : Over(f, g)[x] = f[x]
         /\ \A x \in DOMAIN g \ DOMAIN f : Over(f, g)[x] = g[x]
         /\ Over(f, g) = [x \in DOMAIN Over(f, g) |-> Over(f, g)[x]]
BY DEF Over

\* What is left of a function.
LEMMA RestrictProperties ==
  ASSUME NEW f, NEW S
  PROVE  /\ DOMAIN Restrict(f, S) = S
         /\ \A x \in S : Restrict(f, S)[x] = f[x]
         /\ Restrict(f, S) = [x \in DOMAIN Restrict(f, S) |-> Restrict(f, S)[x]]
BY DEF Restrict

\* Merging and removing.
LEMMA MergingIsLawful ==
  ASSUME NEW ps, NEW obj, IsSet(ps), IsSet(obj)
  PROVE  MergeLaw(ps, obj)
<1> DEFINE m == Merged(ps, obj)
           r == Removed(ps, obj)
<1>1. /\ DOMAIN m = DOMAIN obj \union DOMAIN ps
      /\ \A n \in DOMAIN obj : m[n] = obj[n]
      /\ \A n \in DOMAIN ps \ DOMAIN obj : m[n] = ps[n]
      /\ m = [n \in DOMAIN m |-> m[n]]
  BY OverProperties DEF Merged
<1>2. /\ DOMAIN r = DOMAIN ps \ DOMAIN obj
      /\ \A n \in DOMAIN r : r[n] = ps[n]
      /\ r = [n \in DOMAIN r |-> r[n]]
  BY RestrictProperties DEF Removed
<1>3. /\ DOMAIN Removed(m, obj) = DOMAIN m \ DOMAIN obj
      /\ \A n \in DOMAIN m \ DOMAIN obj : Removed(m, obj)[n] = m[n]
      /\ Removed(m, obj) = [n \in DOMAIN Removed(m, obj) |-> Removed(m, obj)[n]]
  BY RestrictProperties DEF Removed
<1> HIDE DEF m, r
<1>4. ContainsSet(m, obj) /\ ContainsSet(m, r)
  BY <1>1, <1>2 DEF ContainsSet, Exists
<1>5. Removed(m, obj) = r
  BY <1>1, <1>2, <1>3, SameSets
<1>6. (ContainsSet(ps, obj) /\ ContainsSet(obj, ps)) <=> (ps = obj)
  <2>1. ASSUME ContainsSet(ps, obj), ContainsSet(obj, ps) PROVE ps = obj
    <3>1. DOMAIN ps = DOMAIN obj /\ \A n \in DOMAIN ps : ps[n] = obj[n]
      BY <2>1 DEF ContainsSet, Exists
    <3>2. QED
      BY <3>1, SameSets DEF IsSet
  <2>2. QED
    BY <2>1 DEF ContainsSet, Exists
<1>7. ContainsSet(ps, obj) <=> m = ps
  <2>1. ASSUME ContainsSet(ps, obj) PROVE m = ps
    <3>1. DOMAIN m = DOMAIN ps /\ \A n \in DOMAIN m : m[n] = ps[n]
      BY <1>1, <2>1 DEF ContainsSet, Exists
    <3>2. QED
      BY <1>1, <3>1, SameSets DEF IsSet
  <2>2. QED
    BY <1>4, <2>1
<1>8. QED
  BY <1>4, <1>5, <1>6, <1>7 DEF MergeLaw, m, r

\* A name with a stem is the stem and what is under it.
LEMMA NameUnderStem ==
  ASSUME NEW p \in Name, NEW s \in Name, IsStrictPrefix(p, s)
  PROVE  SubSeq(s, Len(p) + 1, Len(s)) \in Name \ {<<>>} /\ s = p \o SubSeq(s, Len(p) + 1, Len(s))
<1> DEFINE z == Len(p)
           first == SubSeq(s, 1, z)
           rest == SubSeq(s, z + 1, Len(s))
<1>1. z \in Nat /\ Len(s) \in Nat /\ z <= Len(s) /\ SubSeq(p, 1, z) = first /\ p # s
  BY LenProperties DEF IsStrictPrefix, IsPrefix, Name
<1>2. SubSeq(p, 1, z) = p
  BY SubSeqFull DEF Name
<1>3. z \in 0 .. Len(s)
  BY <1>1
<1>4. rest \in Name /\ s = first \o rest
  BY <1>3, CutInTwo DEF Name
<1> HIDE DEF first, rest
<1>5. rest # <<>>
  <2>1. p \o <<>> = p
    BY ConcatEmptySeq DEF Name
  <2>2. QED
    BY <1>1, <1>2, <1>4, <2>1
<1>6. QED
  BY <1>1, <1>2, <1>4, <1>5 DEF rest

\* What is put under a stem is cut off again.
LEMMA StemOfName ==
  ASSUME NEW p \in Name, NEW r \in Name \ {<<>>}
  PROVE  /\ p \o r \in Name \ {<<>>}
         /\ IsStrictPrefix(p, p \o r)
         /\ SubSeq(p \o r, Len(p) + 1, Len(p \o r)) = r
<1> DEFINE s == p \o r
           z == Len(p)
           first == SubSeq(s, 1, z)
           rest == SubSeq(s, z + 1, Len(s))
<1>1. /\ s \in Name /\ Len(s) = z + Len(r) /\ z \in Nat /\ Len(r) \in Nat \ {0}
      /\ \A at \in 1 .. z + Len(r) : s[at] = IF at <= z THEN p[at] ELSE r[at - z]
  BY ConcatProperties, LenProperties, EmptySeq DEF Name
<1> HIDE DEF s
<1>2. z \in 0 .. Len(s)
  BY <1>1
<1>3. /\ first \in Name /\ Len(first) = z /\ \A k \in 1 .. z : first[k] = s[k]
      /\ rest \in Name /\ Len(rest) = Len(s) - z /\ \A k \in 1 .. Len(s) - z : rest[k] = s[k + z]
  BY <1>1, <1>2, CutInTwo DEF Name
<1> HIDE DEF first, rest
<1>4. first = p
  <2>1. \A k \in 1 .. z : first[k] = p[k]
    BY <1>1, <1>3
  <2>2. QED
    BY <1>3, <2>1, SeqEqual DEF Name
<1>5. rest = r
  <2>1. Len(rest) = Len(r)
    BY <1>1, <1>3
  <2>2. ASSUME NEW k \in 1 .. Len(r) PROVE rest[k] = r[k]
    <3>1. k + z \in 1 .. z + Len(r) /\ ~(k + z <= z) /\ k + z - z = k
      BY <1>1
    <3>2. rest[k] = s[k + z]
      BY <1>3, <2>1
    <3>3. s[k + z] = r[k + z - z]
      BY <1>1, <3>1
    <3>4. QED
      BY <3>1, <3>2, <3>3
  <2>3. QED
    BY <1>3, <2>1, <2>2, SeqEqual DEF Name
<1>6. SubSeq(p, 1, z) = p
  BY SubSeqFull DEF Name
<1>7. IsStrictPrefix(p, s)
  <2>1. p # s
    BY <1>1
  <2>2. QED
    BY <1>1, <1>4, <1>6, <2>1 DEF IsStrictPrefix, IsPrefix, first
<1>8. s # <<>>
  BY <1>1, EmptySeq
<1>9. QED
  BY <1>1, <1>5, <1>7, <1>8 DEF s, rest

\* Under two names that are the same, below one stem, there is the same.
LEMMA SameUnderStem ==
  ASSUME NEW p \in Name, NEW m \in Name, NEW n \in Name, p \o m = p \o n
  PROVE  m = n
BY ConcatSimplifications DEF Name

\* The names under a stem are those that make names of the set with it.
LEMMA SubNamesAre ==
  ASSUME NEW ps, IsSet(ps), NEW p \in Name
  PROVE  SubNames(ps, p) = {n \in Name \ {<<>>} : p \o n \in DOMAIN ps}
<1>1. ASSUME NEW m \in DOMAIN ps, IsStrictPrefix(p, m)
      PROVE  SubSeq(m, Len(p) + 1, Len(m)) \in {n \in Name \ {<<>>} : p \o n \in DOMAIN ps}
  <2>1. m \in Name
    BY DEF IsSet
  <2>2. QED
    BY <1>1, <2>1, NameUnderStem
<1>2. ASSUME NEW n \in Name \ {<<>>}, p \o n \in DOMAIN ps PROVE n \in SubNames(ps, p)
  <2>1. IsStrictPrefix(p, p \o n) /\ n = SubSeq(p \o n, Len(p) + 1, Len(p \o n))
    BY StemOfName
  <2>2. QED
    BY <1>2, <2>1 DEF SubNames
<1>3. QED
  BY <1>1, <1>2 DEF SubNames

\* A set put under a name.
LEMMA PrefixedProperties ==
  ASSUME NEW name \in Name, NEW set, IsSet(set)
  PROVE  /\ DOMAIN Prefixed(name, set) \subseteq Name \ {<<>>}
         /\ \A n \in Name : name \o n \in DOMAIN Prefixed(name, set) <=> n \in DOMAIN set
         /\ \A n \in DOMAIN set : Prefixed(name, set)[name \o n] = set[n]
<1>1. DOMAIN Prefixed(name, set) = {name \o m : m \in DOMAIN set}
  BY DEF Prefixed
<1>2. ASSUME NEW m \in DOMAIN set
      PROVE  /\ name \o m \in Name \ {<<>>} /\ m \in Name
             /\ Prefixed(name, set)[name \o m] = set[m]
  <2>1. m \in Name \ {<<>>}
    BY DEF IsSet
  <2>2. SubSeq(name \o m, Len(name) + 1, Len(name \o m)) = m /\ name \o m \in Name \ {<<>>}
    BY <2>1, StemOfName
  <2>3. QED
    BY <2>1, <2>2 DEF Prefixed
<1>3. ASSUME NEW n \in Name, name \o n \in DOMAIN Prefixed(name, set) PROVE n \in DOMAIN set
  <2>1. PICK m \in DOMAIN set : name \o n = name \o m
    BY <1>1, <1>3
  <2>2. QED
    BY <1>2, <2>1, SameUnderStem
<1>4. QED
  BY <1>1, <1>2, <1>3

\* What is under a name.
LEMMA SubParametersAre ==
  ASSUME NEW ps, IsSet(ps), NEW p \in Name
  PROVE  /\ \A n \in Name \ {<<>>} : n \in DOMAIN SubParameters(ps, p) <=> p \o n \in DOMAIN ps
         /\ DOMAIN SubParameters(ps, p) \subseteq Name \ {<<>>}
         /\ \A n \in DOMAIN SubParameters(ps, p) : SubParameters(ps, p)[n] = ps[p \o n]
         /\ SubParameters(ps, p) = [n \in DOMAIN SubParameters(ps, p) |-> SubParameters(ps, p)[n]]
         /\ \A into : GetSubParameters(into, ps, p) = Over(SubParameters(ps, p), into)
<1> DEFINE names == SubNames(ps, p)
           sub == [n \in names |-> ps[p \o n]]
<1>1. names = {n \in Name \ {<<>>} : p \o n \in DOMAIN ps}
  BY SubNamesAre
<1> HIDE DEF names
<1>2. DOMAIN Empty = {}
  <2>1. Empty \in Seq({}) /\ Len(Empty) = 0
    BY EmptySeq DEF Empty
  <2>2. QED
    BY <2>1, LenProperties
<1>3. SubParameters(ps, p) = sub
  <2>1. SubParameters(ps, p) = Over(sub, Empty)
    BY DEF SubParameters, GetSubParameters, names
  <2>2. /\ DOMAIN Over(sub, Empty) = DOMAIN sub
        /\ \A n \in DOMAIN sub : Over(sub, Empty)[n] = sub[n]
    <3> HIDE DEF sub
    <3>1. QED
      BY <1>2 DEF Over
  <2>3. sub = [n \in DOMAIN sub |-> sub[n]]
    OBVIOUS
  <2> HIDE DEF sub
  <2>4. QED
    BY <2>1, <2>2, <2>3, OverProperties, SameSets
<1>4. ASSUME NEW into PROVE GetSubParameters(into, ps, p) = Over(sub, into)
  BY DEF GetSubParameters, names
<1>5. QED
  BY <1>1, <1>3, <1>4

\* What is stored under a name is read back, and nothing else changes.
LEMMA SubParametersComeBack ==
  ASSUME NEW ps, NEW set, IsSet(ps), IsSet(set), NEW name \in Name, NEW into
  PROVE  SubParametersLaw(ps, name, set, into)
<1> DEFINE pre == Prefixed(name, set)
           result == SetSubParameters(ps, name, set)
           sub == SubParameters(result, name)
           old == SubParameters(ps, name)
<1>1. /\ DOMAIN pre \subseteq Name \ {<<>>}
      /\ \A n \in Name : name \o n \in DOMAIN pre <=> n \in DOMAIN set
      /\ \A n \in DOMAIN set : pre[name \o n] = set[n]
  BY PrefixedProperties
<1>2. /\ DOMAIN result = DOMAIN pre \union DOMAIN ps
      /\ \A x \in DOMAIN pre : result[x] = pre[x]
      /\ \A x \in DOMAIN ps \ DOMAIN pre : result[x] = ps[x]
      /\ result = [x \in DOMAIN result |-> result[x]]
  BY OverProperties DEF SetSubParameters
<1> HIDE DEF pre, result
<1>3. IsSet(result)
  BY <1>1, <1>2 DEF IsSet
<1>4. /\ \A n \in Name \ {<<>>} : n \in DOMAIN sub <=> name \o n \in DOMAIN result
      /\ DOMAIN sub \subseteq Name \ {<<>>}
      /\ \A n \in DOMAIN sub : sub[n] = result[name \o n]
      /\ sub = [n \in DOMAIN sub |-> sub[n]]
      /\ GetSubParameters(into, result, name) = Over(sub, into)
  BY <1>3, SubParametersAre
<1>5. /\ \A n \in Name \ {<<>>} : n \in DOMAIN old <=> name \o n \in DOMAIN ps
      /\ DOMAIN old \subseteq Name \ {<<>>}
      /\ \A n \in DOMAIN old : old[n] = ps[name \o n]
  BY ONLY IsSet(ps), name \in Name, SubParametersAre
<1> HIDE DEF sub, old
<1>6. sub = Merged(old, set)
  <2> DEFINE m == Merged(old, set)
  <2>1. /\ DOMAIN m = DOMAIN set \union DOMAIN old
        /\ \A x \in DOMAIN set : m[x] = set[x]
        /\ \A x \in DOMAIN old \ DOMAIN set : m[x] = old[x]
        /\ m = [x \in DOMAIN m |-> m[x]]
    BY OverProperties DEF Merged
  <2> HIDE DEF m
  <2>2. DOMAIN set \subseteq Name \ {<<>>}
    BY DEF IsSet
  <2>3. DOMAIN sub = DOMAIN m
    <3>1. ASSUME NEW n \in Name \ {<<>>} PROVE n \in DOMAIN sub <=> n \in DOMAIN m
      BY <1>1, <1>2, <1>4, <1>5, <2>1
    <3>2. QED
      BY <1>4, <1>5, <2>1, <2>2, <3>1
  <2>4. ASSUME NEW n \in DOMAIN sub PROVE sub[n] = m[n]
    <3>1. n \in Name /\ sub[n] = result[name \o n]
      BY <1>4
    <3>2. CASE n \in DOMAIN set
      BY <1>1, <1>2, <2>1, <3>1, <3>2
    <3>3. CASE n \notin DOMAIN set
      BY <1>1, <1>2, <1>4, <1>5, <2>1, <2>3, <3>1, <3>3
    <3>4. QED
      BY <3>2, <3>3
  <2>5. QED
    BY <1>4, <2>1, <2>3, <2>4, SameSets DEF m
<1>7. Removed(result, pre) = Removed(ps, pre)
  <2>1. DOMAIN result \ DOMAIN pre = DOMAIN ps \ DOMAIN pre
    BY <1>2
  <2>2. [x \in DOMAIN result \ DOMAIN pre |-> result[x]] = [x \in DOMAIN ps \ DOMAIN pre |-> ps[x]]
    BY <1>2, <2>1
  <2>3. QED
    BY <2>2 DEF Removed, Restrict
<1>8. QED
  BY <1>4, <1>6, <1>7 DEF SubParametersLaw, Merged, pre, result, sub, old

(* For any sets and names, of any depth: sub-parameters that are stored or *)
(* merged (ParameterSet::Set(), GetSubParameters(), += and -=) come back   *)
(* under their own names, replace those of the same names and disturb no   *)
(* other.                                                                  *)
THEOREM HierarchyIsKept == ParametersSpec => []ParametersKeepHierarchy
<1>1. NoInput => ParametersKeepHierarchy
  BY DEF NoInput, ParametersKeepHierarchy, Is
<1>2. ParametersKeepHierarchy /\ [ParameterInput]_input => ParametersKeepHierarchy'
  <2> SUFFICES ASSUME ParametersKeepHierarchy, [ParameterInput]_input PROVE ParametersKeepHierarchy'
    OBVIOUS
  <2>1. ASSUME NEW ps \in Sets, NEW obj \in Sets, NEW name \in Stems,
               input' = [kind |-> "sets", ps |-> ps, obj |-> obj, name |-> name]
        PROVE  ParametersKeepHierarchy'
    <3>1. IsSet(ps) /\ IsSet(obj) /\ name \in Name
      BY SetsAssumption DEF IsSet, Name
    <3>2. SubParametersLaw(ps, name, obj, ps) /\ MergeLaw(ps, obj)
      BY <3>1, SubParametersComeBack, MergingIsLawful
    <3>3. QED
      BY <2>1, <3>2 DEF ParametersKeepHierarchy, Is
  <2>2. CASE UNCHANGED input
    BY <2>2 DEF ParametersKeepHierarchy, Is
  <2>3. QED
    BY <2>1, <2>2 DEF ParameterInput
<1>3. QED
  BY <1>1, <1>2, PTL DEF ParametersSpec
=============================================================================
