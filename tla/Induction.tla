----------------------------- MODULE Induction -----------------------------
(***************************************************************************)
(* Induction without an operator parameter: every set of natural numbers   *)
(* that is not empty has a least element, so that a proof by induction is  *)
(* one that takes a least counterexample and finds a smaller one.          *)
(***************************************************************************)
EXTENDS FiniteSetTheorems, TLAPS

\* A nonempty set of natural numbers has a least element: the smallest of the
\* finite sets 0..n is minimal for strict inclusion, which is well founded.
LEMMA LeastNatural ==
  ASSUME NEW T, T \subseteq Nat, T # {}
  PROVE  \E n \in T : \A m \in T : n <= m
<1>. DEFINE F == {0..n : n \in T}
            R == StrictSubsetOrdering(Nat)
<1>1. F \subseteq FiniteSubsetsOf(Nat)
  <2>. SUFFICES ASSUME NEW n \in T PROVE 0..n \in FiniteSubsetsOf(Nat)
    OBVIOUS
  <2>1. IsFiniteSet(0..n)
    BY FS_Interval
  <2>. QED
    BY <2>1 DEF FiniteSubsetsOf
<1>2. F # {}
  OBVIOUS
<1>3. \E x \in F : \A y \in F : ~ (<<y, x>> \in R)
  BY <1>1, <1>2, FS_StrictSubsetOrderingWellFounded, WFMin
<1>4. PICK n \in T : \A y \in F : ~ (<<y, 0..n>> \in R)
  BY <1>3
<1>5. ASSUME NEW m \in T, ~(n <= m) PROVE FALSE
  <2>1. <<0..m, 0..n>> \in (SUBSET Nat) \X (SUBSET Nat)
    OBVIOUS
  <2>2. n \in 0..n /\ n \notin 0..m
    BY <1>5
  <2>3. 0..m \subseteq 0..n
    BY <1>5
  <2>4. <<0..m, 0..n>> \in R
    BY <2>1, <2>2, <2>3 DEF StrictSubsetOrdering
  <2>. QED
    BY <1>4, <2>4
<1>. QED
  BY <1>5
=============================================================================
