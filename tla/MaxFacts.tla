------------------------------ MODULE MaxFacts ------------------------------
(***************************************************************************)
(* What Max and Min of FiniteSetsExt return: the lemmas that the proofs    *)
(* about components with a highest position or number rest on.             *)
(***************************************************************************)
EXTENDS Integers, FiniteSets, FiniteSetsExt, FiniteSetTheorems,
        WellFoundedInduction, TLAPS

\* A finite non-empty set of integers has a greatest element: of the sets of
\* elements above a given one, one that has no smaller of its kind is empty.
LEMMA GreatestExists ==
  ASSUME NEW S, S \subseteq Int, IsFiniteSet(S), S # {}
  PROVE  \E x \in S : \A y \in S : x >= y
<1> DEFINE Above(x) == {y \in S : y > x}
           Family == {Above(x) : x \in S}
<1>1. IsWellFoundedOn(StrictSubsetOrdering(S), SUBSET S)
  BY FS_StrictSubsetOrderingWellFounded, FS_FiniteSubsetsOfFinite
<1>2. Family \subseteq SUBSET S /\ Family # {}
  OBVIOUS
<1>3. PICK G \in Family : \A H \in Family : <<H, G>> \notin StrictSubsetOrdering(S)
  <2> HIDE DEF Family
  <2> QED BY <1>1, <1>2, WFMin
<1>4. PICK x \in S : G = Above(x)
  OBVIOUS
<1>5. \A y \in S : ~ (y > x)
  <2> SUFFICES ASSUME NEW y \in S, y > x PROVE FALSE
    OBVIOUS
  <2>1. Above(y) \in Family
    OBVIOUS
  <2>2. Above(y) \subseteq G
    <3> SUFFICES ASSUME NEW z \in S, z > y PROVE z > x
      BY <1>4
    <3>1. x \in Int /\ y \in Int /\ z \in Int
      OBVIOUS
    <3> QED BY <3>1
  <2>3. y \in G /\ y \notin Above(y)
    BY <1>4
  <2>4. <<Above(y), G>> \in StrictSubsetOrdering(S)
    BY <2>2, <2>3, <1>4 DEF StrictSubsetOrdering
  <2> QED BY <2>1, <2>4, <1>3
<1> QED BY <1>5

\* Max returns an element, and no element is above it.
LEMMA MaxIsGreatest ==
  ASSUME NEW S, S \subseteq Int, IsFiniteSet(S), S # {}
  PROVE  Max(S) \in S /\ \A y \in S : y <= Max(S)
BY GreatestExists DEF Max

\* The same for Min, by way of the negated elements.
LEMMA LeastExists ==
  ASSUME NEW S, S \subseteq Int, IsFiniteSet(S), S # {}
  PROVE  \E x \in S : \A y \in S : x <= y
<1> DEFINE N == {0 - x : x \in S}
           neg == [x \in S |-> 0 - x]
<1>1. neg \in Surjection(S, N)
  BY DEF Surjection
<1>2. IsFiniteSet(N)
  BY <1>1, FS_Surjection
<1>3. N \subseteq Int /\ N # {}
  <2>1. \A x \in S : 0 - x \in Int
    OBVIOUS
  <2>2. PICK x \in S : TRUE
    OBVIOUS
  <2>3. 0 - x \in N
    OBVIOUS
  <2> QED BY <2>1, <2>3, Zenon
<1>4. PICK n \in N : \A m \in N : n >= m
  <2> HIDE DEF N
  <2> QED BY <1>2, <1>3, GreatestExists
<1>5. PICK x \in S : n = 0 - x
  OBVIOUS
<1>6. ASSUME NEW y \in S PROVE x <= y
  <2>1. 0 - y \in N
    OBVIOUS
  <2>2. x \in Int /\ y \in Int /\ n >= 0 - y
    BY <2>1, <1>4
  <2> QED BY <2>2, <1>5
<1> QED BY <1>6

LEMMA MinIsLeast ==
  ASSUME NEW S, S \subseteq Int, IsFiniteSet(S), S # {}
  PROVE  Min(S) \in S /\ \A y \in S : Min(S) <= y
BY LeastExists DEF Min
=============================================================================
