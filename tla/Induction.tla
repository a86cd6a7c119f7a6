----------------------------- MODULE Induction ------------------------------
(***************************************************************************)
(* Facts about natural numbers and functions on them that the proofs of    *)
(* TransactionHistory and RuleLanguage share.  The library states          *)
(* induction about predicates, which the provers cannot instantiate; here  *)
(* it is about the members of a set of numbers.                            *)
(***************************************************************************)
EXTENDS Integers, FiniteSetsExt, WellFoundedInduction, TLAPS

\* A non-empty set of naturals has a least element.
LEMMA LeastOfNaturals ==
  ASSUME NEW S \in SUBSET Nat, S # {}
  PROVE  \E n \in S : \A k \in S : n <= k
<1>1. PICK x \in S : \A y \in S : ~ (<<y, x>> \in OpToRel(<, Nat))
  BY NatLessThanWellFounded, WFMin, Zenon
<1>2. \A y \in S : ~ (y < x)
  BY <1>1, Zenon DEF OpToRel
<1> QED
  BY <1>2

\* Induction, for the members of a set.
LEMMA AllNaturals ==
  ASSUME NEW P, 0 \in P, \A n \in Nat : n \in P => n + 1 \in P
  PROVE  \A n \in Nat : n \in P
<1> SUFFICES ASSUME Nat \ P # {}
             PROVE  FALSE
  OBVIOUS
<1>1. PICK n \in Nat \ P : \A k \in Nat \ P : n <= k
  BY LeastOfNaturals
<1>2. n # 0 /\ n - 1 \in Nat
  BY <1>1
<1> QED
  BY <1>1, <1>2

\* The minimum of two numbers is one of them, and not above the other.
LEMMA SmallerOfTwo ==
  ASSUME NEW m \in Nat, NEW n \in Nat
  PROVE  /\ Min({m, n}) \in {m, n}
         /\ Min({m, n}) <= m /\ Min({m, n}) <= n
<1>1. \E x \in {m, n} : \A y \in {m, n} : x <= y
  BY SMT
<1> QED
  BY <1>1 DEF Min

\* A set of naturals with a bound has its maximum in it.
LEMMA GreatestUpTo ==
  ASSUME NEW n \in Nat, NEW S \in SUBSET (0..n), S # {}
  PROVE  Max(S) \in S /\ \A y \in S : Max(S) >= y
<1> DEFINE T == {k \in Nat : n - k \in S}
<1>1. T \in SUBSET Nat /\ T # {}
  <2>1. PICK x \in S : TRUE
    OBVIOUS
  <2>2. n - x \in Nat /\ n - (n - x) = x
    BY <2>1
  <2> QED
    BY <2>2
<1>2. PICK k \in T : \A y \in T : k <= y
  <2> HIDE DEF T
  <2> QED
    BY <1>1, LeastOfNaturals
<1>3. n - k \in S /\ \A y \in S : n - k >= y
  <2>1. ASSUME NEW y \in S
        PROVE  n - k >= y
    <3>1. n - y \in Nat /\ n - (n - y) = y
      OBVIOUS
    <3>2. k <= n - y
      BY <1>2, <3>1
    <3> QED
      BY <3>2, y \in Nat, k \in Nat
  <2> QED
    BY <1>2, <2>1
<1> QED
  BY <1>3 DEF Max

-----------------------------------------------------------------------------
(* Loops over a sequence                                                   *)

\* The results of a loop, from start on, with the steps F.
IsLoop(f, n, T, start, F) ==
  /\ f \in [0..n -> T]
  /\ f[0] = start /\ \A i \in 1..n : f[i] = F[i][f[i - 1]]

\* There is a function that makes the steps F, one for each of 1..n.
LEMMA LoopExists ==
  ASSUME NEW T, NEW start \in T, NEW n \in Nat, NEW F \in [1..n -> [T -> T]]
  PROVE  \E f : IsLoop(f, n, T, start, F)
<1> DEFINE Upto(k, f) == f[0] = start /\ \A i \in 1..k : f[i] = F[i][f[i - 1]]
           P == {k \in Nat : k <= n => \E f \in [0..k -> T] : Upto(k, f)}
<1>1. 0 \in P
  <2>1. [i \in 0..0 |-> start] \in [0..0 -> T] /\ Upto(0, [i \in 0..0 |-> start])
    OBVIOUS
  <2> QED
    BY <2>1
<1>2. ASSUME NEW k \in Nat, k \in P
      PROVE  k + 1 \in P
  <2> SUFFICES ASSUME k + 1 <= n
               PROVE  \E f \in [0..(k + 1) -> T] : Upto(k + 1, f)
    OBVIOUS
  <2>1. PICK f \in [0..k -> T] : Upto(k, f)
    BY <1>2
  <2> DEFINE g == [i \in 0..(k + 1) |-> IF i = k + 1 THEN F[k + 1][f[k]] ELSE f[i]]
  <2>2. F[k + 1][f[k]] \in T
    OBVIOUS
  <2>3. g \in [0..(k + 1) -> T]
    BY <2>2
  <2>4. g[0] = start
    BY <2>1
  <2>5. ASSUME NEW i \in 1..(k + 1)
        PROVE  g[i] = F[i][g[i - 1]]
    <3>1. i - 1 \in 0..k /\ g[i - 1] = f[i - 1]
      OBVIOUS
    <3>2. CASE i = k + 1
      <4>1. g[i] = F[k + 1][f[k]] /\ g[i - 1] = f[k]
        BY <3>1, <3>2
      <4> QED
        BY <3>2, <4>1
    <3>3. CASE i # k + 1
      <4>1. i \in 1..k /\ g[i] = f[i]
        BY <3>3
      <4> QED
        BY <2>1, <3>1, <4>1
    <3> QED
      BY <3>2, <3>3
  <2> QED
    BY <2>3, <2>4, <2>5
<1> HIDE DEF P
<1>3. \A k \in Nat : k \in P
  BY <1>1, <1>2, AllNaturals
<1> QED
  BY <1>3 DEF P, IsLoop

=============================================================================
