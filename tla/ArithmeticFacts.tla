---------------------------- MODULE ArithmeticFacts ----------------------------
(***************************************************************************)
(* Facts about natural numbers, and about sums over finite sets, that the  *)
(* proofs of several modules rest on.                                      *)
(***************************************************************************)
EXTENDS Integers, FiniteSetTheorems, WellFoundedInduction, TLAPS

(* A set of naturals that is not empty has a least element: among the       *)
(* intervals 0 .. x that end in it one has no strict subset.                *)
LEMMA LeastNatural ==
  ASSUME NEW T \in SUBSET Nat, T # {}
  PROVE  \E x \in T : \A y \in T : x <= y
<1> DEFINE U == {0 .. x : x \in T}
<1>1. \A Y \in U : Y \in FiniteSubsetsOf(Nat)
  <2>1. ASSUME NEW x \in T PROVE 0 .. x \in FiniteSubsetsOf(Nat)
    <3>1. IsFiniteSet(0 .. x)
      BY FS_Interval
    <3>2. 0 .. x \in SUBSET Nat
      OBVIOUS
    <3> QED BY <3>1, <3>2 DEF FiniteSubsetsOf
  <2> QED BY <2>1
<1>2. U \subseteq FiniteSubsetsOf(Nat) /\ U # {}
  BY <1>1
<1>3. IsWellFoundedOn(StrictSubsetOrdering(Nat), FiniteSubsetsOf(Nat))
  BY FS_StrictSubsetOrderingWellFounded
<1> HIDE DEF U
<1>4. PICK X \in U : \A Y \in U : ~ (<<Y, X>> \in StrictSubsetOrdering(Nat))
  BY <1>2, <1>3, WFMin
<1> USE DEF U
<1>5. PICK x \in T : X = 0 .. x
  OBVIOUS
<1>6. ASSUME NEW y \in T, y < x PROVE FALSE
  <2>1. 0 .. y \in U /\ 0 .. y \in SUBSET Nat /\ 0 .. x \in SUBSET Nat
    OBVIOUS
  <2>2. 0 .. y \subseteq 0 .. x
    BY <1>6
  <2>3. x \in 0 .. x /\ x \notin 0 .. y
    BY <1>6
  <2>4. <<0 .. y, 0 .. x>> \in StrictSubsetOrdering(Nat)
    BY <2>1, <2>2, <2>3 DEF StrictSubsetOrdering
  <2> QED BY <1>4, <1>5, <2>1, <2>4
<1> QED BY <1>6

(* A finite set of naturals that is not empty has a greatest element: among *)
(* the sets of its elements that are not below x, one has no strict subset. *)
LEMMA GreatestNatural ==
  ASSUME NEW T \in SUBSET Nat, T # {}, IsFiniteSet(T)
  PROVE  \E x \in T : \A y \in T : x >= y
<1> DEFINE Above(x) == {y \in T : y >= x}
           U == {Above(x) : x \in T}
<1>1. \A x \in T : Above(x) \in FiniteSubsetsOf(Nat)
  <2>1. ASSUME NEW x \in T PROVE Above(x) \in FiniteSubsetsOf(Nat)
    <3>1. IsFiniteSet(Above(x)) /\ Above(x) \in SUBSET Nat
      <4>1. Above(x) \in SUBSET T
        OBVIOUS
      <4> HIDE DEF Above
      <4> QED BY <4>1, FS_Subset
    <3> QED BY <3>1 DEF FiniteSubsetsOf
  <2> QED BY <2>1
<1>2. U \subseteq FiniteSubsetsOf(Nat) /\ U # {}
  BY <1>1
<1>3. IsWellFoundedOn(StrictSubsetOrdering(Nat), FiniteSubsetsOf(Nat))
  BY FS_StrictSubsetOrderingWellFounded
<1> HIDE DEF U
<1>4. PICK X \in U : \A Y \in U : ~ (<<Y, X>> \in StrictSubsetOrdering(Nat))
  BY <1>2, <1>3, WFMin
<1>5. PICK x \in T : X = Above(x)
  BY DEF U
<1>6. ASSUME NEW y \in T, y > x PROVE FALSE
  <2>1. Above(y) \in U /\ Above(y) \in SUBSET Nat /\ Above(x) \in SUBSET Nat
    BY DEF U
  <2>2. Above(y) \subseteq Above(x)
    <3>1. \A z \in T : z >= y => z >= x
      BY <1>6
    <3> QED BY <3>1
  <2>3. x \in Above(x) /\ x \notin Above(y)
    BY <1>6
  <2>4. <<Above(y), Above(x)>> \in StrictSubsetOrdering(Nat)
    BY <2>1, <2>2, <2>3 DEF StrictSubsetOrdering
  <2> QED BY <1>4, <1>5, <2>1, <2>4
<1> QED BY <1>6

(* Squares compare like their roots.                                        *)
LEMMA SquareMonotone ==
  ASSUME NEW x \in Nat, NEW y \in Nat, x * x <= y * y
  PROVE  x <= y
  OBVIOUS

(* Four times a product is at most the square of the sum.                   *)
LEMMA AddSquares ==
  ASSUME NEW p \in Nat, NEW q \in Nat
  PROVE  4 * (p * q) <= (p + q) * (p + q)
  OBVIOUS

(* Cauchy-Schwarz, one column at a time: what Accumulate adds for a column  *)
(* (main.cpp:409-411) keeps the product within the norms.                   *)
LEMMA CauchyStep ==
  ASSUME NEW c \in Nat, NEW u \in Nat, NEW v \in Nat,
         NEW a \in Nat, NEW b \in Nat, NEW s \in Nat,
         c * c <= u * v
  PROVE  (c + s * a * b) * (c + s * a * b) <= (u + s * a * a) * (v + s * b * b)
<1> DEFINE p == u * (b * b)
           q == v * (a * a)
           d == c * (a * b)
<1>1. p \in Nat /\ q \in Nat /\ d \in Nat
  OBVIOUS
<1>2. d * d <= p * q
  <2>1. d * d = (c * c) * ((a * b) * (a * b))
    OBVIOUS
  <2>2. p * q = (u * v) * ((a * b) * (a * b))
    OBVIOUS
  <2>3. (a * b) * (a * b) \in Nat /\ c * c \in Nat /\ u * v \in Nat
    OBVIOUS
  <2>4. \A x, y, z \in Nat : x <= y => x * z <= y * z
    OBVIOUS
  <2> QED BY <2>1, <2>2, <2>3, <2>4
<1>3. (2 * d) * (2 * d) <= (p + q) * (p + q)
  BY <1>1, <1>2, AddSquares
<1>4. 2 * d <= p + q
  BY <1>1, <1>3, SquareMonotone
<1>5. s * (2 * d) <= s * (p + q)
  BY <1>1, <1>4
<1>6. (c + s * a * b) * (c + s * a * b)
        = c * c + s * (2 * d) + (s * a * b) * (s * a * b)
  OBVIOUS
<1>7. (u + s * a * a) * (v + s * b * b)
        = u * v + s * (p + q) + (s * a * b) * (s * a * b)
  OBVIOUS
<1>8. s * (2 * d) \in Nat /\ s * (p + q) \in Nat /\ (s * a * b) * (s * a * b) \in Nat
  BY <1>1
<1> HIDE DEF p, q, d
<1> QED BY <1>5, <1>6, <1>7, <1>8

(* An integer quotient is a natural number, rounded down.                   *)
LEMMA Quotient ==
  ASSUME NEW a \in Nat, NEW b \in Nat \ {0}
  PROVE  a \div b \in Nat /\ b * (a \div b) <= a
  OBVIOUS

(* A quotient is at least any number whose multiple the dividend reaches,   *)
(* and at most any whose multiple it does not exceed.                       *)
LEMMA QuotientBetween ==
  ASSUME NEW a \in Nat, NEW b \in Nat \ {0}, NEW c \in Nat
  PROVE  /\ b * c <= a => c <= a \div b
         /\ a <= b * c => a \div b <= c
  OBVIOUS

(* A remainder lies below its divisor, and is the number itself if that     *)
(* does: uint32_t arithmetic that does not wrap.                            *)
LEMMA Remainder ==
  ASSUME NEW a \in Int, NEW w \in Nat \ {0}
  PROVE  /\ a % w \in 0 .. w - 1
         /\ a \in 0 .. w - 1 => a % w = a
  OBVIOUS

(* Multiplication is monotone.                                              *)
LEMMA TimesMonotone ==
  ASSUME NEW a \in Int, NEW b \in Int, NEW c \in Nat, a <= b
  PROVE  a * c <= b * c
  OBVIOUS

(* A quotient that is rounded down falls short by less than one.            *)
LEMMA QuotientUpper ==
  ASSUME NEW a \in Nat, NEW b \in Nat \ {0}
  PROVE  a < b * (a \div b + 1)
  OBVIOUS

(* A mean of s over t times and a mean of m over c times are both at least  *)
(* x, or both, rounded down, at most x: so is the mean of both together.    *)
LEMMA MeanOfBoth ==
  ASSUME NEW u \in Nat, NEW s \in Nat, NEW t \in Nat, NEW m \in Nat,
         NEW c \in Nat \ {0}, NEW x \in Nat
  PROVE  /\ u * s >= x * t /\ (u * m) \div c >= x => u * (s + m) >= x * (t + c)
         /\ (u * s < (x + 1) * t \/ s = 0) /\ (u * m) \div c <= x
              => u * (s + m) < (x + 1) * (t + c)
<1> DEFINE a == u * m
           k == a \div c
<1>1. a \in Nat /\ u * s \in Nat /\ x * t \in Nat /\ x * c \in Nat
  OBVIOUS
<1>2. u * (s + m) = u * s + a
  OBVIOUS
<1>3. x * (t + c) = x * t + x * c /\ (x + 1) * (t + c) = (x + 1) * t + (x + 1) * c
  OBVIOUS
<1>4. (x + 1) * t \in Nat /\ (x + 1) * c \in Nat
  OBVIOUS
<1> HIDE DEF a
<1>5. k \in Nat /\ c * k <= a /\ a < c * (k + 1)
  BY <1>1, Quotient, QuotientUpper
<1> HIDE DEF k
<1>6. ASSUME u * s >= x * t, k >= x PROVE u * (s + m) >= x * (t + c)
  <2>1. x * c <= k * c
    BY <1>5, <1>6, TimesMonotone
  <2>2. k * c = c * k
    BY <1>5
  <2>3. x * c <= a
    BY <1>1, <1>5, <2>1, <2>2
  <2> QED BY <1>1, <1>2, <1>3, <1>6, <2>3
<1>7. ASSUME u * s < (x + 1) * t \/ s = 0, k <= x PROVE u * (s + m) < (x + 1) * (t + c)
  <2>1. (k + 1) * c <= (x + 1) * c
    BY <1>5, <1>7, TimesMonotone
  <2>2. (k + 1) * c = c * (k + 1)
    BY <1>5
  <2>3. a < (x + 1) * c
    BY <1>1, <1>4, <1>5, <2>1, <2>2
  <2>4. u * s <= (x + 1) * t
    <3>1. CASE s = 0
      BY <1>4, <3>1
    <3>2. CASE u * s < (x + 1) * t
      BY <1>1, <1>4, <3>2
    <3> QED BY <1>7, <3>1, <3>2
  <2> QED BY <1>1, <1>2, <1>3, <1>4, <2>3, <2>4
<1> QED BY <1>6, <1>7 DEF k, a

(* Numbers of two digits compare like their first digits.                   *)
LEMMA FirstDigit ==
  ASSUME NEW m \in Nat \ {0}, NEW i \in Nat, NEW j \in Nat, i < j,
         NEW e \in 0 .. m - 1, NEW f \in Nat
  PROVE  m * i + e < m * j + f
<1>1. m * (i + 1) <= m * j
  <2>1. (i + 1) * m <= j * m
    BY TimesMonotone
  <2> QED BY <2>1
<1>2. m * (i + 1) = m * i + m
  OBVIOUS
<1>3. m * i \in Nat /\ m * j \in Nat
  OBVIOUS
<1> QED BY <1>1, <1>2, <1>3

-----------------------------------------------------------------------------
(* Among sets of subsets of a finite set, one has no smaller one beside it: *)
(* the form in which the sums below are argued about by induction.          *)
LEMMA SmallestSubset ==
  ASSUME NEW S, IsFiniteSet(S), NEW B \in SUBSET SUBSET S, B # {}
  PROVE  \E t \in B : \A u \in SUBSET t : u # t => u \notin B
<1>1. B \subseteq FiniteSubsetsOf(S)
  BY FS_Subset DEF FiniteSubsetsOf
<1>2. IsWellFoundedOn(StrictSubsetOrdering(S), FiniteSubsetsOf(S))
  BY FS_StrictSubsetOrderingWellFounded
<1>3. PICK t \in B : \A u \in B : ~ (<<u, t>> \in StrictSubsetOrdering(S))
  BY <1>1, <1>2, WFMin
<1>4. \A u \in B : u \subseteq t /\ u # t => <<u, t>> \in StrictSubsetOrdering(S)
  BY DEF StrictSubsetOrdering
<1>5. \A u \in SUBSET t : u # t => u \notin B
  BY <1>3, <1>4, Zenon
<1> QED BY <1>5

(* The element a sum over s takes first, what it makes of the sums over     *)
(* smaller sets, and the function of those sums the library chooses.        *)
TakenFirst(s) == CHOOSE x \in s : TRUE
ArePartialSums(g, f, S) ==
  g = [s \in SUBSET S |-> IF s = {} THEN 0 ELSE f[TakenFirst(s)] + g[s \ {TakenFirst(s)}]]
PartialSums(f, S) == CHOOSE g : ArePartialSums(g, f, S)

(* The library's sum is the last of its partial sums.                       *)
LEMMA SumIsPartialSum ==
  ASSUME NEW f, NEW S
  PROVE  SumFunctionOnSet(f, S) = PartialSums(f, S)[S]
  BY DEF SumFunctionOnSet, FoldFunctionOnSet, MapThenFoldSet,
         PartialSums, ArePartialSums, TakenFirst

(* The element taken first is one of the set.                               *)
LEMMA TakenFirstIn ==
  ASSUME NEW s, s # {}
  PROVE  TakenFirst(s) \in s
  BY DEF TakenFirst

(* The recursion has a solution: the least relation between sets and sums   *)
(* that the recursion is closed under relates every set to one sum.         *)
LEMMA PartialSumsExist ==
  ASSUME NEW S, IsFiniteSet(S), NEW f, \A x \in S : f[x] \in Int
  PROVE  \E g : ArePartialSums(g, f, S)
<1> DEFINE Closed(R) ==
             /\ <<{}, 0>> \in R
             /\ \A s \in SUBSET S, v \in Int :
                  s # {} /\ <<s \ {TakenFirst(s)}, v>> \in R => <<s, f[TakenFirst(s)] + v>> \in R
           All == (SUBSET S) \X Int
           Least == {p \in All : \A R \in SUBSET All : Closed(R) => p \in R}
<1>1. Closed(All)
  <2>1. \A s \in SUBSET S, v \in Int : s # {} => <<s, f[TakenFirst(s)] + v>> \in All
    BY TakenFirstIn
  <2>2. <<{}, 0>> \in All
    OBVIOUS
  <2> QED BY <2>1, <2>2
<1>2. Least \in SUBSET All /\ \A R \in SUBSET All : Closed(R) => Least \subseteq R
  OBVIOUS
<1>3. Closed(Least)
  <2>1. <<{}, 0>> \in Least
    OBVIOUS
  <2>2. ASSUME NEW s \in SUBSET S, NEW v \in Int, s # {}, <<s \ {TakenFirst(s)}, v>> \in Least
        PROVE  <<s, f[TakenFirst(s)] + v>> \in Least
    <3>1. <<s, f[TakenFirst(s)] + v>> \in All
      BY <2>2, TakenFirstIn
    <3>2. ASSUME NEW R \in SUBSET All, Closed(R) PROVE <<s, f[TakenFirst(s)] + v>> \in R
      <4>1. <<s \ {TakenFirst(s)}, v>> \in R
        BY <2>2, <3>2
      <4> QED BY <2>2, <3>2, <4>1
    <3> QED BY <3>1, <3>2
  <2> QED BY <2>1, <2>2
<1> DEFINE One(s) == \E v \in Int : \A w \in Int : <<s, w>> \in Least <=> w = v
           B == {s \in SUBSET S : ~ One(s)}
<1>4. B = {}
  <2> HIDE DEF Closed, Least, One
  <2> SUFFICES ASSUME B # {} PROVE FALSE
    OBVIOUS
  <2>1. PICK t \in B : \A u \in SUBSET t : u # t => u \notin B
    <3>1. B \in SUBSET SUBSET S
      OBVIOUS
    <3> HIDE DEF B
    <3> QED BY <3>1, SmallestSubset
  <2>2. CASE t = {}
    <3> DEFINE R == {p \in Least : p[1] # {} \/ p[2] = 0}
    <3>1. R \in SUBSET All
      BY <1>2
    <3>2. Closed(R)
      <4>1. <<{}, 0>> \in R
        BY <1>3 DEF Closed
      <4>2. \A s \in SUBSET S, v \in Int :
              s # {} /\ <<s \ {TakenFirst(s)}, v>> \in R => <<s, f[TakenFirst(s)] + v>> \in R
        BY <1>3 DEF Closed
      <4> QED BY <4>1, <4>2 DEF Closed
    <3>3. \A w \in Int : <<{}, w>> \in Least <=> w = 0
      <4>1. Least \subseteq R
        BY <1>2, <3>1, <3>2
      <4>2. <<{}, 0>> \in Least
        BY <1>3 DEF Closed
      <4> QED BY <4>1, <4>2
    <3>4. One(t)
      BY <2>2, <3>3 DEF One
    <3> QED BY <3>4
  <2>3. CASE t # {}
    <3> DEFINE q == TakenFirst(t)
               rest == t \ {q}
    <3>1. q \in t /\ rest \in SUBSET t /\ rest # t /\ f[q] \in Int
      BY <2>3, TakenFirstIn
    <3>2. One(rest)
      BY <2>1, <3>1
    <3>3. PICK v \in Int : \A w \in Int : <<rest, w>> \in Least <=> w = v
      BY <3>2 DEF One
    <3> DEFINE R == {p \in Least : p[1] # t \/ p[2] = f[q] + v}
    <3>4. R \in SUBSET All
      BY <1>2
    <3>5. Closed(R)
      <4>1. <<{}, 0>> \in R
        BY <1>3, <2>3 DEF Closed
      <4>2. ASSUME NEW s \in SUBSET S, NEW w \in Int, s # {}, <<s \ {TakenFirst(s)}, w>> \in R
            PROVE  <<s, f[TakenFirst(s)] + w>> \in R
        <5>1. <<s, f[TakenFirst(s)] + w>> \in Least /\ <<s \ {TakenFirst(s)}, w>> \in Least
          BY <1>3, <4>2 DEF Closed
        <5>2. CASE s = t
          BY <3>3, <5>1, <5>2
        <5>3. CASE s # t
          BY <5>1, <5>3
        <5> QED BY <5>2, <5>3
      <4> QED BY <4>1, <4>2 DEF Closed
    <3>6. \A w \in Int : <<t, w>> \in Least => w = f[q] + v
      <4>1. Least \subseteq R
        BY <1>2, <3>4, <3>5
      <4> QED BY <4>1
    <3>7. <<t, f[q] + v>> \in Least
      BY <1>3, <2>3, <3>3 DEF Closed
    <3>8. f[q] + v \in Int /\ \A w \in Int : <<t, w>> \in Least <=> w = f[q] + v
      BY <3>1, <3>6, <3>7
    <3> HIDE DEF q
    <3>9. One(t)
      BY <3>8 DEF One
    <3> QED BY <3>9
  <2> QED BY <2>2, <2>3
<1> DEFINE val(s) == CHOOSE v \in Int : <<s, v>> \in Least
           g == [s \in SUBSET S |-> val(s)]
<1>5. \A s \in SUBSET S : One(s)
  <2> HIDE DEF One
  <2> QED BY <1>4
<1>6. \A s \in SUBSET S : val(s) \in Int /\ \A w \in Int : <<s, w>> \in Least <=> w = val(s)
  <2> HIDE DEF Least
  <2> QED BY <1>5
<1>7. \A s \in SUBSET S : g[s] = IF s = {} THEN 0 ELSE f[TakenFirst(s)] + g[s \ {TakenFirst(s)}]
  <2> HIDE DEF Least, val
  <2>1. SUFFICES ASSUME NEW s \in SUBSET S
                 PROVE  val(s) = IF s = {} THEN 0 ELSE f[TakenFirst(s)] + g[s \ {TakenFirst(s)}]
    OBVIOUS
  <2>2. CASE s = {}
    BY <1>3, <1>6, <2>2
  <2>3. CASE s # {}
    <3>1. s \ {TakenFirst(s)} \in SUBSET S /\ f[TakenFirst(s)] \in Int
      BY <2>3, TakenFirstIn
    <3>2. val(s \ {TakenFirst(s)}) \in Int /\ <<s \ {TakenFirst(s)}, val(s \ {TakenFirst(s)})>> \in Least
      BY <1>6, <3>1
    <3>3. <<s, f[TakenFirst(s)] + val(s \ {TakenFirst(s)})>> \in Least
      BY <1>3, <2>3, <3>2
    <3>4. f[TakenFirst(s)] + val(s \ {TakenFirst(s)}) \in Int
      BY <3>1, <3>2
    <3> HIDE DEF Closed
    <3>5. val(s) = f[TakenFirst(s)] + val(s \ {TakenFirst(s)})
      BY <1>6, <3>3, <3>4
    <3> QED BY <2>3, <3>1, <3>5
  <2> QED BY <2>2, <2>3
<1>8. ArePartialSums(g, f, S)
  <2> HIDE DEF val
  <2> QED BY <1>7 DEF ArePartialSums
<1> QED BY <1>8

(* The chosen function satisfies the recursion.                             *)
LEMMA PartialSumsHold ==
  ASSUME NEW S, IsFiniteSet(S), NEW f, \A x \in S : f[x] \in Int
  PROVE  /\ ArePartialSums(PartialSums(f, S), f, S)
         /\ PartialSums(f, S)[{}] = 0
         /\ \A s \in SUBSET S : s # {} =>
              PartialSums(f, S)[s] = f[TakenFirst(s)] + PartialSums(f, S)[s \ {TakenFirst(s)}]
<1>1. ArePartialSums(PartialSums(f, S), f, S)
  BY PartialSumsExist DEF PartialSums
<1> DEFINE g == PartialSums(f, S)
<1> HIDE DEF g
<1>2. g = [s \in SUBSET S |-> IF s = {} THEN 0 ELSE f[TakenFirst(s)] + g[s \ {TakenFirst(s)}]]
  BY <1>1 DEF ArePartialSums, g
<1>3. \A s \in SUBSET S :
        g[s] = IF s = {} THEN 0 ELSE f[TakenFirst(s)] + g[s \ {TakenFirst(s)}]
  BY <1>2
<1>4. {} \in SUBSET S
  OBVIOUS
<1> QED BY <1>1, <1>3, <1>4 DEF g

(* A sum over a part of the set does not depend on the set it is cut from.  *)
LEMMA PartialSumsAgree ==
  ASSUME NEW S, IsFiniteSet(S), NEW f, \A x \in S : f[x] \in Int, NEW T \in SUBSET S
  PROVE  PartialSums(f, S)[T] = SumFunctionOnSet(f, T)
<1> DEFINE g == PartialSums(f, S)
           h == PartialSums(f, T)
           B == {s \in SUBSET T : g[s] # h[s]}
<1> HIDE DEF g, h
<1>1. IsFiniteSet(T)
  BY FS_Subset
<1>2. g[{}] = 0 /\ \A s \in SUBSET S : s # {} => g[s] = f[TakenFirst(s)] + g[s \ {TakenFirst(s)}]
  BY PartialSumsHold DEF g
<1>3. h[{}] = 0 /\ \A s \in SUBSET T : s # {} => h[s] = f[TakenFirst(s)] + h[s \ {TakenFirst(s)}]
  BY <1>1, PartialSumsHold DEF h
<1>4. B = {}
  <2> SUFFICES ASSUME B # {} PROVE FALSE
    OBVIOUS
  <2>1. PICK t \in B : \A u \in SUBSET t : u # t => u \notin B
    <3>1. B \in SUBSET SUBSET T
      OBVIOUS
    <3> HIDE DEF B
    <3> QED BY <1>1, <3>1, SmallestSubset
  <2>2. t # {}
    BY <1>2, <1>3
  <2>3. TakenFirst(t) \in t
    BY <2>2, TakenFirstIn
  <2>4. t \ {TakenFirst(t)} \notin B /\ t \ {TakenFirst(t)} \in SUBSET T
    BY <2>1, <2>3
  <2>5. g[t \ {TakenFirst(t)}] = h[t \ {TakenFirst(t)}]
    BY <2>4
  <2>6. t \in SUBSET S /\ t \in SUBSET T
    OBVIOUS
  <2>7. g[t] = h[t]
    BY <1>2, <1>3, <2>2, <2>5, <2>6
  <2> QED BY <2>7
<1>5. g[T] = h[T]
  BY <1>4
<1> QED BY <1>5, SumIsPartialSum DEF g, h

(* The sum of nothing is zero.                                              *)
LEMMA SumEmpty ==
  ASSUME NEW f
  PROVE  SumFunctionOnSet(f, {}) = 0
<1>1. IsFiniteSet({})
  BY FS_EmptySet
<1> QED BY <1>1, PartialSumsHold, SumIsPartialSum

(* One step of the recursion.                                               *)
LEMMA SumFirst ==
  ASSUME NEW S, IsFiniteSet(S), S # {}, NEW f, \A x \in S : f[x] \in Int
  PROVE  SumFunctionOnSet(f, S) = f[TakenFirst(S)] + SumFunctionOnSet(f, S \ {TakenFirst(S)})
<1>1. S \ {TakenFirst(S)} \in SUBSET S /\ S \in SUBSET S
  OBVIOUS
<1>2. PartialSums(f, S)[S \ {TakenFirst(S)}] = SumFunctionOnSet(f, S \ {TakenFirst(S)})
  BY <1>1, PartialSumsAgree
<1>3. PartialSums(f, S)[S] = SumFunctionOnSet(f, S)
  BY SumIsPartialSum
<1>4. PartialSums(f, S)[S] = f[TakenFirst(S)] + PartialSums(f, S)[S \ {TakenFirst(S)}]
  BY <1>1, PartialSumsHold
<1> QED BY <1>2, <1>3, <1>4

(* A sum of integers is one.                                                *)
LEMMA SumInt ==
  ASSUME NEW S, IsFiniteSet(S), NEW f, \A x \in S : f[x] \in Int
  PROVE  SumFunctionOnSet(f, S) \in Int
<1> DEFINE B == {s \in SUBSET S : SumFunctionOnSet(f, s) \notin Int}
<1>1. B = {}
  <2> SUFFICES ASSUME B # {} PROVE FALSE
    OBVIOUS
  <2>1. PICK t \in B : \A u \in SUBSET t : u # t => u \notin B
    <3>1. B \in SUBSET SUBSET S
      OBVIOUS
    <3> HIDE DEF B
    <3> QED BY <3>1, SmallestSubset
  <2>2. t # {}
    BY SumEmpty
  <2>3. TakenFirst(t) \in t /\ f[TakenFirst(t)] \in Int
    BY <2>2, TakenFirstIn
  <2>4. SumFunctionOnSet(f, t \ {TakenFirst(t)}) \in Int
    BY <2>1, <2>3
  <2>5. SumFunctionOnSet(f, t) = f[TakenFirst(t)] + SumFunctionOnSet(f, t \ {TakenFirst(t)})
    <3>1. IsFiniteSet(t) /\ \A x \in t : f[x] \in Int
      BY FS_Subset
    <3> QED BY <2>2, <3>1, SumFirst
  <2> QED BY <2>3, <2>4, <2>5
<1> QED BY <1>1

(* Any element may be taken out of a sum, not only the first.               *)
LEMMA SumTake ==
  ASSUME NEW S, IsFiniteSet(S), NEW f, \A x \in S : f[x] \in Int, NEW y \in S
  PROVE  SumFunctionOnSet(f, S) = f[y] + SumFunctionOnSet(f, S \ {y})
<1> DEFINE B == {s \in SUBSET S : \E z \in s :
                   SumFunctionOnSet(f, s) # f[z] + SumFunctionOnSet(f, s \ {z})}
<1>1. B = {}
  <2> SUFFICES ASSUME B # {} PROVE FALSE
    OBVIOUS
  <2>1. PICK t \in B : \A u \in SUBSET t : u # t => u \notin B
    <3>1. B \in SUBSET SUBSET S
      OBVIOUS
    <3> HIDE DEF B
    <3> QED BY <3>1, SmallestSubset
  <2>2. PICK z \in t : SumFunctionOnSet(f, t) # f[z] + SumFunctionOnSet(f, t \ {z})
    OBVIOUS
  <2> DEFINE q == TakenFirst(t)
  <2>3. q \in t
    BY TakenFirstIn
  <2> HIDE DEF q
  <2>4. \A s \in SUBSET t : IsFiniteSet(s) /\ \A x \in s : f[x] \in Int
    BY FS_Subset
  <2>5. SumFunctionOnSet(f, t) = f[q] + SumFunctionOnSet(f, t \ {q})
    BY <2>3, <2>4, SumFirst DEF q
  <2>6. z # q
    BY <2>2, <2>5
  <2>7. t \ {q} \notin B /\ t \ {z} \notin B
    BY <2>1, <2>3
  <2>8. SumFunctionOnSet(f, t \ {q}) = f[z] + SumFunctionOnSet(f, (t \ {q}) \ {z})
    BY <2>6, <2>7
  <2>9. SumFunctionOnSet(f, t \ {z}) = f[q] + SumFunctionOnSet(f, (t \ {z}) \ {q})
    BY <2>3, <2>6, <2>7
  <2>10. (t \ {q}) \ {z} = (t \ {z}) \ {q}
    OBVIOUS
  <2>11. SumFunctionOnSet(f, (t \ {z}) \ {q}) \in Int
    <3>1. (t \ {z}) \ {q} \in SUBSET t
      OBVIOUS
    <3> QED BY <2>4, <3>1, SumInt
  <2>12. f[z] \in Int /\ f[q] \in Int
    BY <2>3
  <2>13. SumFunctionOnSet(f, t) = f[z] + SumFunctionOnSet(f, t \ {z})
    <3> DEFINE c == SumFunctionOnSet(f, (t \ {z}) \ {q})
    <3>1. SumFunctionOnSet(f, t) = f[q] + (f[z] + c)
      BY <2>5, <2>8, <2>10
    <3>2. SumFunctionOnSet(f, t \ {z}) = f[q] + c
      BY <2>9
    <3>3. c \in Int
      BY <2>11
    <3> HIDE DEF c
    <3> QED BY <2>12, <3>1, <3>2, <3>3
  <2> QED BY <2>2, <2>13
<1> QED BY <1>1

(* One more term adds its value.                                            *)
LEMMA SumAdd ==
  ASSUME NEW S, IsFiniteSet(S), NEW f, \A x \in S : f[x] \in Int,
         NEW y, y \notin S, f[y] \in Int
  PROVE  SumFunctionOnSet(f, S \cup {y}) = f[y] + SumFunctionOnSet(f, S)
<1>1. IsFiniteSet(S \cup {y}) /\ (S \cup {y}) \ {y} = S
  BY FS_AddElement
<1>2. \A x \in S \cup {y} : f[x] \in Int
  OBVIOUS
<1>3. y \in S \cup {y}
  OBVIOUS
<1> QED BY <1>1, <1>2, <1>3, SumTake

(* The sum of what two functions add up to is the sum of their sums.        *)
LEMMA SumPlus ==
  ASSUME NEW S, IsFiniteSet(S), NEW f, NEW g, NEW h,
         \A x \in S : f[x] \in Int /\ g[x] \in Int /\ h[x] = f[x] + g[x]
  PROVE  SumFunctionOnSet(h, S) = SumFunctionOnSet(f, S) + SumFunctionOnSet(g, S)
<1> DEFINE B == {s \in SUBSET S : SumFunctionOnSet(h, s)
                                 # SumFunctionOnSet(f, s) + SumFunctionOnSet(g, s)}
<1>1. B = {}
  <2> SUFFICES ASSUME B # {} PROVE FALSE
    OBVIOUS
  <2>1. PICK t \in B : \A u \in SUBSET t : u # t => u \notin B
    <3>1. B \in SUBSET SUBSET S
      OBVIOUS
    <3> HIDE DEF B
    <3> QED BY <3>1, SmallestSubset
  <2>2. t # {}
    <3>1. SumFunctionOnSet(f, {}) = 0 /\ SumFunctionOnSet(g, {}) = 0
          /\ SumFunctionOnSet(h, {}) = 0
      BY SumEmpty
    <3>2. {} \notin B
      BY <3>1
    <3> QED BY <3>2
  <2>3. PICK y \in t : TRUE
    BY <2>2
  <2> DEFINE rest == t \ {y}
  <2>4. /\ IsFiniteSet(t) /\ IsFiniteSet(rest)
        /\ \A x \in t : f[x] \in Int /\ g[x] \in Int /\ h[x] \in Int
        /\ h[y] = f[y] + g[y]
    BY FS_Subset
  <2>5. rest \in SUBSET t /\ rest \notin B
    BY <2>1, <2>3
  <2>6. SumFunctionOnSet(h, rest) = SumFunctionOnSet(f, rest) + SumFunctionOnSet(g, rest)
    BY <2>5
  <2>7. /\ SumFunctionOnSet(f, t) = f[y] + SumFunctionOnSet(f, rest)
        /\ SumFunctionOnSet(g, t) = g[y] + SumFunctionOnSet(g, rest)
        /\ SumFunctionOnSet(h, t) = h[y] + SumFunctionOnSet(h, rest)
    BY <2>4, SumTake
  <2>8. SumFunctionOnSet(f, rest) \in Int /\ SumFunctionOnSet(g, rest) \in Int
    BY <2>4, SumInt
  <2>9. f[y] \in Int /\ g[y] \in Int
    BY <2>4
  <2>10. SumFunctionOnSet(h, t) = SumFunctionOnSet(f, t) + SumFunctionOnSet(g, t)
    <3> HIDE DEF rest
    <3> QED BY <2>4, <2>6, <2>7, <2>8, <2>9
  <2> QED BY <2>10
<1> QED BY <1>1

(* A sum of zeros is zero.                                                  *)
LEMMA SumZero ==
  ASSUME NEW S, IsFiniteSet(S), NEW f, \A x \in S : f[x] = 0
  PROVE  SumFunctionOnSet(f, S) = 0
<1>1. \A x \in S : f[x] \in Int /\ f[x] = f[x] + f[x]
  OBVIOUS
<1>2. SumFunctionOnSet(f, S) \in Int
  BY <1>1, SumInt
<1>3. SumFunctionOnSet(f, S) = SumFunctionOnSet(f, S) + SumFunctionOnSet(f, S)
  BY <1>1, SumPlus
<1>4. \A n \in Int : n = n + n => n = 0
  OBVIOUS
<1> QED BY <1>2, <1>3, <1>4

(* Functions that agree on a set have the same sum over it.                 *)
LEMMA SumEqual ==
  ASSUME NEW S, IsFiniteSet(S), NEW f, NEW g,
         \A x \in S : f[x] \in Int /\ g[x] = f[x]
  PROVE  SumFunctionOnSet(g, S) = SumFunctionOnSet(f, S)
<1> DEFINE zero == [x \in S |-> 0]
<1>1. \A x \in S : f[x] \in Int /\ zero[x] \in Int /\ g[x] = f[x] + zero[x]
  OBVIOUS
<1>2. SumFunctionOnSet(zero, S) = 0
  BY SumZero
<1>3. SumFunctionOnSet(f, S) \in Int
  BY SumInt
<1> HIDE DEF zero
<1>4. SumFunctionOnSet(g, S) = SumFunctionOnSet(f, S) + SumFunctionOnSet(zero, S)
  BY <1>1, SumPlus
<1> QED BY <1>2, <1>3, <1>4

(* Raising one term raises the sum as much.                                 *)
LEMMA SumBump ==
  ASSUME NEW S, IsFiniteSet(S), NEW f, NEW g, NEW y \in S, NEW d \in Int,
         \A x \in S : f[x] \in Int,
         \A x \in S : g[x] = IF x = y THEN f[x] + d ELSE f[x]
  PROVE  SumFunctionOnSet(g, S) = SumFunctionOnSet(f, S) + d
<1> DEFINE rest == S \ {y}
<1>1. IsFiniteSet(rest) /\ \A x \in rest : f[x] \in Int /\ g[x] = f[x]
  BY FS_Subset
<1>2. SumFunctionOnSet(g, rest) = SumFunctionOnSet(f, rest)
  <2> HIDE DEF rest
  <2> QED BY <1>1, SumEqual
<1>3. \A x \in S : g[x] \in Int
  OBVIOUS
<1>4. /\ SumFunctionOnSet(f, S) = f[y] + SumFunctionOnSet(f, rest)
      /\ SumFunctionOnSet(g, S) = g[y] + SumFunctionOnSet(g, rest)
  BY <1>3, SumTake
<1>5. SumFunctionOnSet(f, rest) \in Int /\ f[y] \in Int /\ g[y] = f[y] + d
  BY <1>1, SumInt
<1> HIDE DEF rest
<1> QED BY <1>2, <1>4, <1>5

(* A sum of naturals is one, and no term of it is above it.                 *)
LEMMA SumNat ==
  ASSUME NEW S, IsFiniteSet(S), NEW f, \A x \in S : f[x] \in Nat
  PROVE  /\ SumFunctionOnSet(f, S) \in Nat
         /\ \A x \in S : f[x] <= SumFunctionOnSet(f, S)
<1> DEFINE B == {s \in SUBSET S : SumFunctionOnSet(f, s) \notin Nat}
<1>1. B = {}
  <2> SUFFICES ASSUME B # {} PROVE FALSE
    OBVIOUS
  <2>1. PICK t \in B : \A u \in SUBSET t : u # t => u \notin B
    <3>1. B \in SUBSET SUBSET S
      OBVIOUS
    <3> HIDE DEF B
    <3> QED BY <3>1, SmallestSubset
  <2>2. PICK y \in t : TRUE
    BY SumEmpty
  <2>3. SumFunctionOnSet(f, t \ {y}) \in Nat
    BY <2>1, <2>2
  <2>4. SumFunctionOnSet(f, t) = f[y] + SumFunctionOnSet(f, t \ {y})
    <3>1. IsFiniteSet(t) /\ \A x \in t : f[x] \in Int
      BY FS_Subset
    <3> QED BY <3>1, SumTake
  <2>5. f[y] \in Nat
    OBVIOUS
  <2> QED BY <2>3, <2>4, <2>5
<1>2. ASSUME NEW y \in S PROVE f[y] <= SumFunctionOnSet(f, S)
  <2>1. SumFunctionOnSet(f, S) = f[y] + SumFunctionOnSet(f, S \ {y})
    BY SumTake
  <2>2. SumFunctionOnSet(f, S \ {y}) \in Nat
    BY <1>1
  <2>3. f[y] \in Nat
    OBVIOUS
  <2> QED BY <2>1, <2>2, <2>3
<1> QED BY <1>1, <1>2

(* A renaming of the terms, one to one, keeps the sum.                      *)
LEMMA SumRename ==
  ASSUME NEW S, IsFiniteSet(S), NEW f, \A x \in S : f[x] \in Int,
         NEW g, NEW r, \A x \in S : g[r[x]] = f[x],
         \A x, y \in S : r[x] = r[y] => x = y
  PROVE  SumFunctionOnSet(g, {r[x] : x \in S}) = SumFunctionOnSet(f, S)
<1> DEFINE image(s) == {r[x] : x \in s}
           B == {s \in SUBSET S : SumFunctionOnSet(g, image(s)) # SumFunctionOnSet(f, s)}
<1>1. B = {}
  <2> SUFFICES ASSUME B # {} PROVE FALSE
    OBVIOUS
  <2>1. PICK t \in B : \A u \in SUBSET t : u # t => u \notin B
    <3>1. B \in SUBSET SUBSET S
      OBVIOUS
    <3> HIDE DEF B
    <3> QED BY <3>1, SmallestSubset
  <2>2. t # {}
    <3>1. image({}) = {}
      OBVIOUS
    <3> QED BY <3>1, SumEmpty
  <2>3. PICK y \in t : TRUE
    BY <2>2
  <2>4. SumFunctionOnSet(g, image(t \ {y})) = SumFunctionOnSet(f, t \ {y})
    BY <2>1, <2>3
  <2>5. image(t \ {y}) = image(t) \ {r[y]}
    OBVIOUS
  <2>6. IsFiniteSet(image(t))
    <3>1. IsFiniteSet(t)
      BY FS_Subset
    <3>2. image(t) = {r[x] : x \in t}
      OBVIOUS
    <3> DEFINE fr == [x \in t |-> r[x]]
    <3>3. fr \in Surjection(t, image(t))
      BY DEF Surjection
    <3> HIDE DEF fr, image
    <3> QED BY <3>1, <3>3, FS_Surjection
  <2>7. \A z \in image(t) : g[z] \in Int
    OBVIOUS
  <2>8. SumFunctionOnSet(g, image(t)) = g[r[y]] + SumFunctionOnSet(g, image(t) \ {r[y]})
    <3>1. r[y] \in image(t)
      BY <2>3
    <3> HIDE DEF image
    <3> QED BY <2>6, <2>7, <3>1, SumTake
  <2>9. SumFunctionOnSet(f, t) = f[y] + SumFunctionOnSet(f, t \ {y})
    <3>1. IsFiniteSet(t) /\ \A x \in t : f[x] \in Int
      BY FS_Subset
    <3> QED BY <3>1, SumTake
  <2>10. SumFunctionOnSet(g, image(t)) = SumFunctionOnSet(f, t)
    <3>1. g[r[y]] = f[y]
      OBVIOUS
    <3> HIDE DEF image
    <3> QED BY <2>4, <2>5, <2>8, <2>9, <3>1
  <2> QED BY <2>10
<1>2. S \in SUBSET S
  OBVIOUS
<1> QED BY <1>1, <1>2

(* Equal terms add up to their number times one of them.                    *)
LEMMA SumConstant ==
  ASSUME NEW S, IsFiniteSet(S), NEW c \in Int, NEW f, \A x \in S : f[x] = c
  PROVE  SumFunctionOnSet(f, S) = Cardinality(S) * c
<1> DEFINE B == {s \in SUBSET S : SumFunctionOnSet(f, s) # Cardinality(s) * c}
<1>1. B = {}
  <2> SUFFICES ASSUME B # {} PROVE FALSE
    OBVIOUS
  <2>1. PICK t \in B : \A u \in SUBSET t : u # t => u \notin B
    <3>1. B \in SUBSET SUBSET S
      OBVIOUS
    <3> HIDE DEF B
    <3> QED BY <3>1, SmallestSubset
  <2>2. t # {}
    <3>1. SumFunctionOnSet(f, {}) = 0 /\ Cardinality({}) = 0
      BY SumEmpty, FS_EmptySet
    <3>2. 0 * c = 0
      OBVIOUS
    <3>3. {} \notin B
      BY <3>1, <3>2
    <3> QED BY <3>3
  <2>3. PICK y \in t : TRUE
    BY <2>2
  <2>4. IsFiniteSet(t) /\ \A x \in t : f[x] \in Int
    BY FS_Subset
  <2>5. SumFunctionOnSet(f, t \ {y}) = Cardinality(t \ {y}) * c
    BY <2>1, <2>3
  <2>6. SumFunctionOnSet(f, t) = c + SumFunctionOnSet(f, t \ {y})
    BY <2>4, SumTake
  <2>7. Cardinality(t \ {y}) = Cardinality(t) - 1 /\ Cardinality(t) \in Nat
    BY <2>3, <2>4, FS_RemoveElement, FS_CardinalityType
  <2>8. Cardinality(t) * c = (Cardinality(t) - 1) * c + c
    BY <2>7
  <2>9. (Cardinality(t) - 1) * c \in Int
    BY <2>7
  <2> QED BY <2>5, <2>6, <2>7, <2>8, <2>9
<1> QED BY <1>1
=============================================================================
