----------------------------- MODULE NumberSets -----------------------------
(* Smallest and largest elements of sets of numbers.                         *)
EXTENDS Naturals, FiniteSetTheorems, WellFoundedInduction, TLAPS

LEMMA LeastExists ==
  ASSUME NEW S \in SUBSET Nat, S # {}
  PROVE  \E x \in S : \A y \in S : x <= y
<1>1. PICK x \in S : \A y \in S : ~ (<<y, x>> \in OpToRel(<, Nat))
  BY WFMin, NatLessThanWellFounded
<1>2. \A y \in S : ~ (y < x)
  BY <1>1 DEF OpToRel
<1> QED BY <1>2

\* Induction, of which the set is what is shown to hold.
LEMMA NatInduct ==
  ASSUME NEW S, 0 \in S, \A n \in Nat : n \in S => n + 1 \in S
  PROVE  Nat \subseteq S
<1>1. SUFFICES ASSUME Nat \ S # {} PROVE FALSE
  OBVIOUS
<1>2. PICK n \in Nat \ S : \A m \in Nat \ S : n <= m
  BY <1>1, LeastExists
<1>3. n - 1 \in Nat /\ n - 1 \in S
  BY <1>2
<1> QED BY <1>2, <1>3

\* By the least size of a set that has none.
LEMMA MaxExists ==
  ASSUME NEW S \in SUBSET Nat, IsFiniteSet(S), S # {}
  PROVE  \E x \in S : \A y \in S : y <= x
<1> DEFINE HasMax(T) == \E x \in T : \A y \in T : y <= x
           Sizes == {n \in Nat : \E T \in SUBSET S : T # {} /\ Cardinality(T) = n /\ ~HasMax(T)}
<1>1. SUFFICES ASSUME Sizes # {} PROVE FALSE
  <2>1. Cardinality(S) \in Nat
    BY FS_CardinalityType
  <2> QED BY <2>1
<1>2. PICK n \in Sizes : \A k \in Sizes : n <= k
  BY <1>1, LeastExists
<1>3. PICK T \in SUBSET S : T # {} /\ Cardinality(T) = n /\ ~HasMax(T)
  BY <1>2
<1>4. IsFiniteSet(T)
  BY FS_Subset
<1>5. PICK x \in T : TRUE
  BY <1>3
<1> DEFINE U == T \ {x}
<1>6. Cardinality(U) = n - 1 /\ Cardinality(U) \in Nat
  BY <1>3, <1>4, <1>5, FS_RemoveElement, FS_CardinalityType
<1>7. U # {} => HasMax(U)
  BY <1>2, <1>6
<1>8. CASE U = {}
  BY <1>3, <1>5, <1>8
<1>9. CASE U # {}
  <2>1. PICK z \in U : \A y \in U : y <= z
    BY <1>7, <1>9
  <2>2. x \in Nat /\ z \in Nat
    OBVIOUS
  <2>3. HasMax(T)
    <3>1. CASE x <= z
      BY <2>1, <2>2, <3>1
    <3>2. CASE z <= x
      BY <1>5, <2>1, <2>2, <3>2
    <3> QED BY <2>2, <3>1, <3>2
  <2> QED BY <1>3, <2>3
<1> QED BY <1>8, <1>9
=============================================================================
