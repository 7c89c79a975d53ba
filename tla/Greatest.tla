------------------------------- MODULE Greatest -------------------------------
(* A bounded set of numbers has a greatest element: what the models' maxima rest on. *)
EXTENDS Naturals, FiniteSetTheorems, WellFoundedInduction, TLAPS

\* The elements above one of them shrink as it grows, and finite sets cannot shrink
\* forever: a greatest element is one with the fewest above it.
LEMMA GreatestExists ==
  ASSUME NEW n \in Nat, NEW S, S \subseteq 0 .. n, S # {}
  PROVE  \E m \in S : \A x \in S : x <= m
<1>. DEFINE Above(x) == {y \in S : y >= x}
            T == {Above(x) : x \in S}
<1>1. IsFiniteSet(S)
  <2>1. IsFiniteSet(0 .. n)
    <3>1. 0 \in Int /\ n \in Int OBVIOUS
    <3>. QED BY <3>1, FS_Interval
  <2>. QED BY <2>1, FS_Subset
<1>2. T \subseteq FiniteSubsetsOf(S) /\ T # {}
  <2>1. \A x \in S : Above(x) \in SUBSET S /\ IsFiniteSet(Above(x)) BY <1>1, FS_Subset
  <2>. QED BY <2>1 DEF FiniteSubsetsOf
<1>3. PICK A \in T : \A B \in T : ~(<<B, A>> \in StrictSubsetOrdering(S))
  BY <1>2, FS_StrictSubsetOrderingWellFounded, WFMin
<1>4. PICK x \in S : A = Above(x) OBVIOUS
<1>5. ASSUME NEW y \in S, y > x PROVE FALSE
  <2>. x \in Nat /\ y \in Nat OBVIOUS
  <2>1. Above(y) \subseteq Above(x)
    <3>. SUFFICES ASSUME NEW z \in S, z >= y PROVE z >= x OBVIOUS
    <3>1. z \in Nat OBVIOUS
    <3>. QED BY <1>5, <3>1
  <2>2. x \in Above(x) /\ x \notin Above(y) BY <1>5
  <2>3. <<Above(y), Above(x)>> \in StrictSubsetOrdering(S)
    BY <2>1, <2>2 DEF StrictSubsetOrdering
  <2>. QED BY <1>3, <1>4, <2>3
<1>6. \A y \in S : x >= y BY <1>5
<1>. QED BY <1>6
===============================================================================
