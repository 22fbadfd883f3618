------------------------------ MODULE Recursion -----------------------------
(***************************************************************************)
(* Induction and recursion over the natural numbers, for sets and          *)
(* functions instead of predicates and operators: what the proofs about    *)
(* the functions of OutputCompare and NoteSearch rest on.  Everything      *)
(* follows from the well-foundedness of < on Nat.                          *)
(***************************************************************************)
EXTENDS Naturals, TLAPS, WellFoundedInduction

(***************************************************************************)
(* A non-empty set of natural numbers has a least element.                 *)
(***************************************************************************)
LEMMA LeastNumber ==
    ASSUME NEW S \in SUBSET Nat, S # {}
    PROVE  \E m \in S : \A k \in S : m <= k
<1> DEFINE R == OpToRel(<, Nat)
<1>1. IsWellFoundedOn(R, Nat)
  BY NatLessThanWellFounded
<1>2. PICK m \in S : \A k \in S : ~ (<<k, m>> \in R)
  <2> HIDE DEF R
  <2> QED BY <1>1, WFMin
<1>3. \A k \in S : ~ (k < m)
  BY <1>2 DEF OpToRel
<1> QED BY <1>3

(***************************************************************************)
(* A set that holds 0 and with a number its successor holds all numbers up *)
(* to any bound.                                                           *)
(***************************************************************************)
LEMMA InductionUpTo ==
    ASSUME NEW N \in Nat, NEW P, 0 \in P,
           \A n \in 0 .. N - 1 : n \in P => n + 1 \in P
    PROVE  0 .. N \subseteq P
<1> DEFINE Missing == (0 .. N) \ P
<1> SUFFICES ASSUME Missing # {} PROVE FALSE
  OBVIOUS
<1>1. PICK m \in Missing : \A k \in Missing : m <= k
  <2>1. Missing \in SUBSET Nat
    OBVIOUS
  <2> HIDE DEF Missing
  <2> QED BY <2>1, LeastNumber
<1>2. m # 0 /\ m - 1 \in 0 .. N - 1
  OBVIOUS
<1>3. m - 1 \in P
  BY <1>1, <1>2
<1>4. (m - 1) + 1 \in P
  BY <1>2, <1>3
<1> QED BY <1>1, <1>2, <1>4

(***************************************************************************)
(* The sequences of values a step function G on S reaches from a.          *)
(***************************************************************************)
Iterates(N, S, a, G) ==
    {f \in [0 .. N -> S] :
        f[0] = a /\ \A n \in 1 .. N : f[n] = G[<<n, f[n - 1]>>]}

(***************************************************************************)
(* There is one, whatever the first value and the number of steps.         *)
(***************************************************************************)
LEMMA Iteration ==
    ASSUME NEW N \in Nat, NEW S, NEW a \in S,
           NEW G \in [(1 .. N) \X S -> S]
    PROVE  Iterates(N, S, a, G) # {}
<1> DEFINE P == {m \in 0 .. N : \E f : f \in Iterates(m, S, a, G)}
<1>1. 0 \in P
  <2>1. [n \in 0 .. 0 |-> a] \in Iterates(0, S, a, G)
    BY DEF Iterates
  <2> QED BY <2>1
<1>2. ASSUME NEW m \in 0 .. N - 1, m \in P PROVE m + 1 \in P
  <2>1. PICK f : f \in Iterates(m, S, a, G)
    BY <1>2
  <2>2. /\ f \in [0 .. m -> S]
        /\ f[0] = a
        /\ \A n \in 1 .. m : f[n] = G[<<n, f[n - 1]>>]
    BY <2>1 DEF Iterates
  <2> DEFINE g == [n \in 0 .. m + 1 |-> IF n = m + 1 THEN G[<<m + 1, f[m]>>]
                                        ELSE f[n]]
  <2>3. g \in [0 .. m + 1 -> S]
    BY <2>2
  <2>4. g[0] = a
    BY <2>2
  <2>5. ASSUME NEW n \in 1 .. m + 1 PROVE g[n] = G[<<n, g[n - 1]>>]
    <3>1. CASE n = m + 1
      <4>1. g[n] = G[<<m + 1, f[m]>>] /\ g[n - 1] = f[m]
        BY <3>1
      <4> QED BY <4>1, <3>1
    <3>2. CASE n # m + 1
      <4>1. g[n] = f[n] /\ g[n - 1] = f[n - 1] /\ n \in 1 .. m
        BY <3>2
      <4> QED BY <4>1, <2>2
    <3> QED BY <3>1, <3>2
  <2>6. g \in Iterates(m + 1, S, a, G)
    <3> HIDE DEF g
    <3> QED BY <2>3, <2>4, <2>5 DEF Iterates
  <2> QED BY <2>6
<1>3. N \in P
  <2> HIDE DEF P
  <2> QED BY <1>1, <1>2, InductionUpTo
<1> QED BY <1>3
=============================================================================
