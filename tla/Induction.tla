------------------------------- MODULE Induction -------------------------------
(******************************************************************************)
(* Induction over the natural numbers and over finite sets for proofs in      *)
(* which a hypothesis may not be an operator: the induction hypothesis is a   *)
(* set of numbers or of subsets.                                              *)
(******************************************************************************)
EXTENDS Naturals, FiniteSets, FiniteSetTheorems, WellFoundedInduction, TLAPS

\* A set of natural numbers that is not empty has a least element.
LEMMA LeastNatural ==
  ASSUME NEW S, S \subseteq Nat, S # {}
  PROVE  \E m \in S : \A k \in S : m <= k
<1> DEFINE R == OpToRel(<, Nat)
<1>1. PICK m \in S : \A k \in S : <<k, m>> \notin R
  <2>1. IsWellFoundedOn(R, Nat)
    BY NatLessThanWellFounded
  <2> HIDE DEF R
  <2> QED
    BY <2>1, WFMin
<1>2. ASSUME NEW k \in S
      PROVE  m <= k
  <2>1. k < m => <<k, m>> \in R
    BY Zenon DEF OpToRel
  <2>2. ~(k < m)
    BY <1>1, <2>1
  <2> QED
    BY <2>2
<1> QED
  BY <1>2

\* A set with 0 that has the successor of each of its numbers has them all.
LEMMA SetInduction ==
  ASSUME NEW S, 0 \in S, \A n \in Nat : n \in S => n + 1 \in S
  PROVE  Nat \subseteq S
<1> DEFINE T == Nat \ S
<1> SUFFICES ASSUME T # {} PROVE FALSE
  OBVIOUS
<1>1. PICK m \in T : \A k \in T : m <= k
  BY LeastNatural
<1>2. m # 0 /\ m - 1 \in Nat
  BY <1>1
<1>3. m - 1 \in S
  BY <1>1, <1>2
<1> QED
  BY <1>1, <1>2, <1>3

\* A set of subsets of a finite set S has S if it has the empty set and each
\* subset that it has without the element that is chosen from it.
LEMMA SubsetInduction ==
  ASSUME NEW S, IsFiniteSet(S), NEW T, {} \in T,
         \A s \in SUBSET S : s # {} /\ s \ {CHOOSE x \in s : TRUE} \in T => s \in T
  PROVE  SUBSET S \subseteq T
<1> DEFINE N == {n \in Nat : \A s \in SUBSET S : Cardinality(s) = n => s \in T}
<1>1. \A s \in SUBSET S : IsFiniteSet(s) /\ Cardinality(s) \in Nat
  BY FS_Subset, FS_CardinalityType
<1>2. 0 \in N
  BY <1>1, FS_EmptySet
<1>3. ASSUME NEW n \in Nat, n \in N
      PROVE  n + 1 \in N
  <2> SUFFICES ASSUME NEW s \in SUBSET S, Cardinality(s) = n + 1
               PROVE  s \in T
    OBVIOUS
  <2> DEFINE x == CHOOSE y \in s : TRUE
  <2>1. s # {}
    BY FS_EmptySet
  <2>2. x \in s
    BY <2>1
  <2>3. Cardinality(s \ {x}) = n
    <3> HIDE DEF x
    <3>1. Cardinality(s \ {x}) = Cardinality(s) - 1
      BY <1>1, <2>2, FS_RemoveElement
    <3> QED
      BY <3>1
  <2>4. s \ {x} \in T
    BY <1>3, <2>3
  <2> QED
    BY <2>1, <2>4
<1>4. Nat \subseteq N
  <2> HIDE DEF N
  <2> QED
    BY <1>2, <1>3, SetInduction
<1> QED
  BY <1>1, <1>4

\* The fold of g over a finite set, from base on, exists.
FoldOf(f, S, base, g) ==
  f = [s \in SUBSET S |->
         IF s = {} THEN base
         ELSE g[<<CHOOSE x \in s : TRUE, f[s \ {CHOOSE x \in s : TRUE}]>>]]

\* A part of it, for the sets in D.
PartFold(f, D, base, g) ==
  f = [s \in D |->
         IF s = {} THEN base
         ELSE g[<<CHOOSE x \in s : TRUE, f[s \ {CHOOSE x \in s : TRUE}]>>]]

LEMMA FoldExists ==
  ASSUME NEW S, IsFiniteSet(S), NEW base, NEW g
  PROVE  \E f : FoldOf(f, S, base, g)
<1> DEFINE D(n) == {s \in SUBSET S : Cardinality(s) <= n}
           M == {n \in Nat : \E f : PartFold(f, D(n), base, g)}
<1>1. \A s \in SUBSET S : IsFiniteSet(s) /\ Cardinality(s) \in Nat
  BY FS_Subset, FS_CardinalityType
<1>2. \A s \in SUBSET S : s # {} =>
        /\ (CHOOSE x \in s : TRUE) \in s
        /\ s \ {CHOOSE x \in s : TRUE} \in SUBSET S
        /\ Cardinality(s \ {CHOOSE x \in s : TRUE}) = Cardinality(s) - 1
  <2>1. ASSUME NEW s \in SUBSET S, s # {}
        PROVE  /\ (CHOOSE x \in s : TRUE) \in s
               /\ Cardinality(s \ {CHOOSE x \in s : TRUE}) = Cardinality(s) - 1
    <3>1. (CHOOSE x \in s : TRUE) \in s
      BY <2>1
    <3> QED
      BY <1>1, <3>1, FS_RemoveElement
  <2> QED
    BY <2>1
<1>3. 0 \in M
  <2> DEFINE f == [s \in D(0) |-> base]
  <2>1. \A s \in D(0) : s = {}
    BY <1>1, FS_EmptySet
  <2>2. PartFold(f, D(0), base, g)
    BY <2>1 DEF PartFold
  <2> QED
    BY <2>2
<1>4. ASSUME NEW n \in Nat, n \in M
      PROVE  n + 1 \in M
  <2>1. PICK f : PartFold(f, D(n), base, g)
    BY <1>4
  <2> DEFINE x(s) == CHOOSE y \in s : TRUE
             F == [s \in D(n + 1) |-> IF s = {} THEN base ELSE g[<<x(s), f[s \ {x(s)}]>>]]
             G == [s \in D(n + 1) |-> IF s = {} THEN base ELSE g[<<x(s), F[s \ {x(s)}]>>]]
  <2>2. ASSUME NEW s \in D(n)
        PROVE  s \in D(n + 1) /\ F[s] = f[s]
    <3>1. s \in D(n + 1)
      BY <1>1
    <3>2. f[s] = IF s = {} THEN base ELSE g[<<x(s), f[s \ {x(s)}]>>]
      BY <2>1 DEF PartFold
    <3> QED
      BY <3>1, <3>2
  <2>3. ASSUME NEW s \in D(n + 1)
        PROVE  F[s] = G[s]
    <3>1. s # {} => s \ {x(s)} \in D(n)
      BY <1>1, <1>2
    <3>2. s # {} => F[s \ {x(s)}] = f[s \ {x(s)}]
      BY <2>2, <3>1
    <3> HIDE DEF x, D
    <3>3. F[s] = IF s = {} THEN base ELSE g[<<x(s), f[s \ {x(s)}]>>]
      OBVIOUS
    <3>4. G[s] = IF s = {} THEN base ELSE g[<<x(s), F[s \ {x(s)}]>>]
      <4> HIDE DEF F
      <4> QED
        OBVIOUS
    <3> HIDE DEF F, G
    <3> QED
      BY <3>2, <3>3, <3>4
  <2>4. F = G
    <3>1. F = [s \in D(n + 1) |-> F[s]]
      OBVIOUS
    <3>2. G = [s \in D(n + 1) |-> G[s]]
      <4> HIDE DEF F
      <4> QED
        OBVIOUS
    <3> HIDE DEF F, G, D
    <3> QED
      BY <2>3, <3>1, <3>2
  <2>5. PartFold(F, D(n + 1), base, g)
    <3> HIDE DEF F
    <3> QED
      BY <2>4 DEF PartFold
  <2>6. \E h : PartFold(h, D(n + 1), base, g)
    <3> HIDE DEF F, D
    <3> QED
      BY <2>5
  <2> HIDE DEF D
  <2> QED
    BY <2>6
<1>5. Nat \subseteq M
  <2> HIDE DEF M
  <2> QED
    BY <1>3, <1>4, SetInduction
<1>6. Cardinality(S) \in Nat /\ D(Cardinality(S)) = SUBSET S
  BY <1>1, FS_Subset, FS_CardinalityType
<1>7. \E f : PartFold(f, D(Cardinality(S)), base, g)
  BY <1>5, <1>6
<1>8. \E f : PartFold(f, SUBSET S, base, g)
  <2> HIDE DEF D
  <2> QED
    BY <1>6, <1>7
<1> QED
  BY <1>8 DEF FoldOf, PartFold
================================================================================
