--------------------------- MODULE DivisorProofs ----------------------------
(***************************************************************************)
(* Facts about natural numbers and their divisors that the proofs about    *)
(* the plugin host and its schedule rest on.                               *)
(***************************************************************************)
EXTENDS Divisors, FiniteSetTheorems, TLAPS

(* A set of natural numbers that is not empty has a least element: the     *)
(* head of pluglist exists.                                                *)
LEMMA LeastExists ==
  ASSUME NEW S \in SUBSET Nat, S # {}
  PROVE  \E e \in S : \A f \in S : e <= f
<1> DEFINE Below == {0 .. e : e \in S}
<1>1. Below \subseteq FiniteSubsetsOf(Nat) /\ Below # {}
  <2>1. \A e \in S : IsFiniteSet(0 .. e) /\ 0 .. e \subseteq Nat
    BY FS_Interval
  <2> QED
    BY <2>1 DEF FiniteSubsetsOf
<1>2. PICK B \in Below : \A C \in Below : <<C, B>> \notin StrictSubsetOrdering(Nat)
  <2> HIDE DEF Below
  <2> QED
    BY <1>1, FS_StrictSubsetOrderingWellFounded, WFMin
<1>3. PICK e \in S : B = 0 .. e
  BY <1>2
<1>4. \A f \in S : e <= f
  <2> SUFFICES ASSUME NEW f \in S, f < e
               PROVE  FALSE
    OBVIOUS
  <2>1. 0 .. f \subseteq Nat /\ 0 .. e \subseteq Nat
    OBVIOUS
  <2>2. 0 .. f \subseteq 0 .. e /\ e \in 0 .. e /\ e \notin 0 .. f
    OBVIOUS
  <2>3. <<0 .. f, 0 .. e>> \in StrictSubsetOrdering(Nat)
    BY <2>1, <2>2 DEF StrictSubsetOrdering
  <2> QED
    BY <1>2, <1>3, <2>3
<1> QED
  BY <1>4

(* A bounded one has a greatest.                                           *)
LEMMA GreatestExists ==
  ASSUME NEW n \in Nat, NEW S \in SUBSET (0 .. n), S # {}
  PROVE  \E e \in S : \A f \in S : f <= e
<1> DEFINE T == {d \in Nat : d <= n /\ n - d \in S}
<1>1. T # {}
  <2>1. PICK e \in S : TRUE
    OBVIOUS
  <2>2. n - e \in Nat /\ n - e <= n /\ n - (n - e) = e
    BY <2>1
  <2> QED
    BY <2>1, <2>2
<1>2. PICK d \in T : \A c \in T : d <= c
  BY <1>1, LeastExists
<1>3. \A f \in S : n - f \in T
  <2> TAKE f \in S
  <2>1. n - f \in Nat /\ n - f <= n /\ n - (n - f) = f
    OBVIOUS
  <2> QED
    BY <2>1
<1>4. \A f \in S : f <= n - d
  <2> TAKE f \in S
  <2>1. d <= n - f
    BY <1>2, <1>3
  <2> QED
    BY <2>1
<1> QED
  BY <1>2, <1>4

(* Divisibility is transitive.                                             *)
LEMMA DividesTransitive ==
  ASSUME NEW c \in Nat, NEW d \in Nat, NEW n \in Nat,
         Divides(c, d), Divides(d, n)
  PROVE  Divides(c, n)
<1>1. PICK j \in 0 .. d : d = c * j
  BY DEF Divides
<1>2. PICK k \in 0 .. n : n = d * k
  BY DEF Divides
<1>3. CASE n = 0
  <2>1. 0 \in 0 .. n /\ n = c * 0
    BY <1>3
  <2> QED
    BY <2>1 DEF Divides
<1>4. CASE n # 0
  <2>1. j * k \in Nat /\ n = c * (j * k)
    BY <1>1, <1>2
  <2>2. c # 0
    BY <2>1, <1>4
  <2>3. j * k <= n
    BY <2>1, <2>2
  <2> QED
    BY <2>1, <2>3 DEF Divides
<1> QED
  BY <1>3, <1>4

(* A divisor of two numbers divides their difference.                      *)
LEMMA DividesDifference ==
  ASSUME NEW d \in Nat \ {0}, NEW m \in Nat, NEW n \in Nat, m >= n,
         Divides(d, m), Divides(d, n)
  PROVE  Divides(d, m - n)
<1>1. PICK j \in 0 .. m : m = d * j
  BY DEF Divides
<1>2. PICK k \in 0 .. n : n = d * k
  BY DEF Divides
<1>3. m - n = d * (j - k)
  BY <1>1, <1>2
<1>4. j >= k
  BY <1>1, <1>2
<1>5. j - k <= d * (j - k)
  BY <1>4
<1>6. j - k \in 0 .. (m - n)
  BY <1>3, <1>4, <1>5
<1> QED BY <1>3, <1>6 DEF Divides

(* A divisor of two numbers divides their sum.                             *)
LEMMA DividesSum ==
  ASSUME NEW d \in Nat \ {0}, NEW m \in Nat, NEW n \in Nat,
         Divides(d, m), Divides(d, n)
  PROVE  Divides(d, m + n)
<1>1. PICK j \in 0 .. m : m = d * j
  BY DEF Divides
<1>2. PICK k \in 0 .. n : n = d * k
  BY DEF Divides
<1>3. m + n = d * (j + k) /\ j + k \in 0 .. (m + n)
  BY <1>1, <1>2
<1> QED BY <1>3 DEF Divides

(* Everything divides 0, and a number divides itself.                      *)
LEMMA DividesZeroSelf ==
  ASSUME NEW d \in Nat
  PROVE  Divides(d, 0) /\ Divides(d, d)
<1>1. Divides(d, 0)
  <2>1. 0 = d * 0 /\ 0 \in 0 .. 0
    OBVIOUS
  <2> QED BY <2>1 DEF Divides
<1>2. Divides(d, d)
  <2>1. CASE d = 0
    BY <1>1, <2>1
  <2>2. CASE d # 0
    <3>1. d = d * 1 /\ 1 \in 0 .. d
      BY <2>2
    <3> QED BY <3>1 DEF Divides
  <2> QED BY <2>1, <2>2
<1> QED BY <1>1, <1>2

(* A divisor of a positive number is not larger than it.                   *)
LEMMA DividesBound ==
  ASSUME NEW d \in Nat, NEW n \in Nat \ {0}, Divides(d, n)
  PROVE  d <= n
<1>1. PICK k \in 0 .. n : n = d * k
  BY DEF Divides
<1>2. k >= 1
  BY <1>1
<1>3. d * k >= d
  BY <1>2
<1> QED BY <1>1, <1>3

(* The greatest common divisor that Fold chooses is one.                   *)
LEMMA GreatestDivisorIsGcd ==
  ASSUME NEW m \in Nat \ {0}, NEW n \in Nat
  PROVE  IsGcd(GreatestDivisor(m, n), m, n)
<1> DEFINE S == {d \in 1 .. m : CommonDivisor(d, m, n)}
<1>1. 1 \in S
  <2>1. m \in 0 .. m /\ m = 1 * m /\ n \in 0 .. n /\ n = 1 * n
    OBVIOUS
  <2> QED
    BY <2>1 DEF CommonDivisor, Divides
<1>2. S \in SUBSET (0 .. m)
  OBVIOUS
<1>3. PICK g \in S : \A f \in S : f <= g
  BY <1>1, <1>2, GreatestExists
<1>4. g \in 1 .. m /\ IsGcd(g, m, n)
  BY <1>3 DEF IsGcd
<1> QED
  BY <1>4 DEF GreatestDivisor
=============================================================================
