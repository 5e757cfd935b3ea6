----------------------------- MODULE FiniteLemmas -----------------------------
(***************************************************************************)
(* What the proofs of several components need about finite sets: induction *)
(* in a form whose parameter is a set, a last element, and the equation of *)
(* a function defined by recursion over the subsets of a set.              *)
(***************************************************************************)
EXTENDS Integers, FiniteSets, FiniteSetTheorems, WellFoundedInduction, TLAPS

\* Among sets of a finite set's elements there is one of which no other is a
\* part.  Applied to the sets for which a claim fails, it is induction.
LEMMA SmallestSubset ==
  ASSUME NEW S, IsFiniteSet(S), NEW Bad \in SUBSET (SUBSET S), Bad # {}
  PROVE  \E T \in Bad : \A U \in Bad : ~(U \subseteq T /\ U # T)
<1>1. IsWellFoundedOn(StrictSubsetOrdering(S), FiniteSubsetsOf(S))
  BY FS_StrictSubsetOrderingWellFounded
<1>2. Bad \subseteq FiniteSubsetsOf(S)
  BY FS_FiniteSubsetsOfFinite
<1>3. \E T \in Bad : \A U \in Bad : ~(<<U, T>> \in StrictSubsetOrdering(S))
  BY <1>1, <1>2, WFMin
<1> QED BY <1>3 DEF StrictSubsetOrdering

\* A finite set has a last element in any order of its elements.
LEMMA LastElement ==
  ASSUME NEW S, IsFiniteSet(S), S # {}, NEW R,
         \A x, y \in S : x = y \/ <<x, y>> \in R \/ <<y, x>> \in R,
         \A x, y, z \in S : <<x, y>> \in R /\ <<y, z>> \in R => <<x, z>> \in R
  PROVE  \E x \in S : \A y \in S : y = x \/ <<y, x>> \in R
<1> DEFINE HasLast(T) == \E x \in T : \A y \in T : y = x \/ <<y, x>> \in R
           Bad == {T \in SUBSET S : T # {} /\ ~HasLast(T)}
<1>1. ASSUME NEW T \in Bad, \A U \in Bad : ~(U \subseteq T /\ U # T) PROVE FALSE
  <2>0. T \in SUBSET S /\ T # {} /\ ~HasLast(T)
    BY <1>1
  <2>1. PICK x \in T : x \in S
    BY <2>0
  <2> DEFINE U == T \ {x}
  <2>2. CASE U = {}
    BY <2>0, <2>1, <2>2
  <2>3. CASE U # {}
    <3>1. U \in SUBSET S /\ U \subseteq T /\ U # T
      BY <2>0, <2>1
    <3>2. U \notin Bad
      BY <1>1, <3>1
    <3>3. HasLast(U)
      BY <2>3, <3>1, <3>2
    <3>4. PICK z \in U : \A y \in U : y = z \/ <<y, z>> \in R
      BY <3>3
    <3>5. \A y \in T : y \in S /\ (y = x \/ y \in U)
      BY <2>0
    <3>6. CASE <<x, z>> \in R
      <4>1. \A y \in T : y = z \/ <<y, z>> \in R
        BY <3>4, <3>5, <3>6
      <4> QED BY <2>0, <3>4, <4>1
    <3>7. CASE <<z, x>> \in R
      <4>1. \A y \in T : y = x \/ <<y, x>> \in R
        BY <2>1, <3>4, <3>5, <3>7
      <4> QED BY <2>0, <2>1, <4>1
    <3> QED BY <2>1, <3>4, <3>5, <3>6, <3>7
  <2> QED BY <2>2, <2>3
<1>2. Bad \in SUBSET (SUBSET S)
  OBVIOUS
<1>3. Bad = {}
  <2> HIDE DEF Bad
  <2> QED BY <1>1, <1>2, SmallestSubset
<1>4. S \in SUBSET S /\ S \notin Bad
  BY <1>3
<1> QED BY <1>4

\* The greatest of finitely many integers.
LEMMA Greatest ==
  ASSUME NEW S \in SUBSET Int, IsFiniteSet(S), S # {}
  PROVE  \E x \in S : \A y \in S : x >= y
<1> DEFINE R == {p \in S \X S : p[1] < p[2]}
<1>1. \A x, y \in S : <<x, y>> \in R <=> x < y
  OBVIOUS
<1>2. \A x, y \in S : x \in Int /\ y \in Int
  OBVIOUS
<1> HIDE DEF R
<1>3. ASSUME NEW x \in S, NEW y \in S PROVE x = y \/ <<x, y>> \in R \/ <<y, x>> \in R
  <2>1. x = y \/ x < y \/ y < x
    BY <1>2
  <2> QED BY <1>1, <2>1
<1>4. \A x, y, z \in S : <<x, y>> \in R /\ <<y, z>> \in R => <<x, z>> \in R
  BY <1>1, <1>2
<1>5. \E x \in S : \A y \in S : y = x \/ <<y, x>> \in R
  BY <1>3, <1>4, LastElement, Zenon
<1>6. PICK x \in S : \A y \in S : y = x \/ <<y, x>> \in R
  BY <1>5
<1>7. ASSUME NEW y \in S PROVE x >= y
  <2>1. y = x \/ y < x
    BY <1>1, <1>6
  <2> QED BY <1>2, <2>1
<1> QED BY <1>7

\* A set of natural numbers has a least one.
LEMMA LeastNat ==
  ASSUME NEW S \in SUBSET Nat, S # {}
  PROVE  \E x \in S : \A y \in S : x <= y
<1>1. PICK n \in S : n \in Nat
  OBVIOUS
<1> DEFINE T == S \cap (0..n)
           R == {p \in T \X T : p[2] < p[1]}
<1>2. IsFiniteSet(T) /\ T # {}
  <2>1. T \subseteq 0..n /\ n \in T
    BY <1>1
  <2>2. IsFiniteSet(0..n)
    BY <1>1, FS_Interval
  <2> HIDE DEF T
  <2> QED BY <2>1, <2>2, FS_Subset
<1>3. \A x, y \in T : <<x, y>> \in R <=> y < x
  OBVIOUS
<1>4. \A x \in T : x \in Int
  OBVIOUS
<1>5. \A y \in S : y \in T \/ (y \in Nat /\ y > n)
  BY <1>1
<1>6. \A x \in T : x \in S /\ x <= n
  OBVIOUS
<1> HIDE DEF R, T
<1>7. ASSUME NEW x \in T, NEW y \in T PROVE x = y \/ <<x, y>> \in R \/ <<y, x>> \in R
  <2>1. x = y \/ x < y \/ y < x
    BY <1>4
  <2> QED BY <1>3, <2>1
<1>8. \A x, y, z \in T : <<x, y>> \in R /\ <<y, z>> \in R => <<x, z>> \in R
  BY <1>3, <1>4
<1>9. \E x \in T : \A y \in T : y = x \/ <<y, x>> \in R
  BY <1>2, <1>7, <1>8, LastElement, Zenon
<1>10. PICK x \in T : \A y \in T : y = x \/ <<y, x>> \in R
  BY <1>9
<1>11. ASSUME NEW y \in S PROVE x <= y
  <2>1. CASE y \in T
    <3>1. y = x \/ x < y
      BY <1>3, <1>10, <2>1
    <3> QED BY <1>4, <3>1
  <2>2. CASE y \notin T
    BY <1>1, <1>4, <1>5, <1>6, <2>2
  <2> QED BY <2>1, <2>2
<1> QED BY <1>6, <1>11

\* What a function makes of a finite set is finite.
LEMMA FiniteImage ==
  ASSUME NEW f, IsFiniteSet(DOMAIN f)
  PROVE  IsFiniteSet({f[x] : x \in DOMAIN f})
<1> DEFINE T == {f[x] : x \in DOMAIN f}
           g == [x \in DOMAIN f |-> f[x]]
<1>1. g \in Surjection(DOMAIN f, T)
  BY DEF Surjection
<1> QED BY <1>1, FS_Surjection
=============================================================================
